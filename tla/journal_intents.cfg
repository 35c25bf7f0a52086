SPECIFICATION JournalSpec
CONSTANTS
    r1 = r1
    r2 = r2
    NoExec = NoExec
    NoIntent = NoIntent
    Execs = {e1, e2, e3}
    Runtimes = {r1}
    ModeOf <- OnePaper
    Intents = {i1}
    IntentMode <- IntentsOnPaper
    MaxDaily = 4
    MaxOrder = 1
    Notionals = {1}
    Charges = {1}
    Settlements <- RejectOrLookup
    AccountLimits = TRUE
    HistoryLimit = 1
    UnresolvedLimit = 2
    MaxAttempts = 1
    MaxRevision = 2
    MaxGeneration = 0
    MaxAccountRevision = 1
    MaxDay = 0
SYMMETRY ExecSymmetry
INVARIANTS
    IntentOnce
PROPERTY SettlementFinal
