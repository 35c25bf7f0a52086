SPECIFICATION RecoverySpec
CONSTANTS
    NoExec = NoExec
    NoIntent = NoIntent
    Execs = {e1, e2}
    Runtimes = {r1}
    ModeOf <- AllPaper
    Intents = {i1}
    IntentMode <- IntentsOnPaper
    LookupChoices = {{e1, e2}}
    MaxDaily = 2
    MaxOrder = 1
    Notionals = {1}
    Charges = {0, 1}
    Settlements <- AllSettlements
    AccountLimits = FALSE
    HistoryLimit = 2
    UnresolvedLimit = 2
    MaxAttempts = 1
    MaxRevision = 4
    MaxGeneration = 0
    MaxAccountRevision = 0
    MaxDay = 0
INVARIANTS
    NoLostOrder
