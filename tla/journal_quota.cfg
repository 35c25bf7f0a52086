SPECIFICATION JournalSpec
CONSTANTS
    r1 = r1
    r2 = r2
    NoExec = NoExec
    NoIntent = NoIntent
    Execs = {e1, e2}
    Runtimes = {r1, r2}
    ModeOf <- PaperAndLive
    Intents = {}
    IntentMode <- IntentsOnPaper
    MaxDaily = 3
    MaxOrder = 2
    Notionals = {2}
    Charges = {1, 3}
    Settlements <- RejectOrAck
    AccountLimits = FALSE
    HistoryLimit = 1
    UnresolvedLimit = 2
    MaxAttempts = 0
    MaxRevision = 0
    MaxGeneration = 2
    MaxAccountRevision = 0
    MaxDay = 1
SYMMETRY ExecSymmetry
INVARIANTS
    FenceQuiescent
    GenerationCurrent
    SuccessorFenced
    JournalTypeOK
    EntryExclusive
    BlocksExact
    QuotaExact
    QuotaHonoured
    UsedExact
