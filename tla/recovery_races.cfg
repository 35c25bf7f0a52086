SPECIFICATION LiveRecoverySpec
CONSTANTS
    NoExec = NoExec
    NoIntent = NoIntent
    Execs = {e1, e2}
    Runtimes = {r1}
    ModeOf <- AllPaper
    Intents = {}
    IntentMode <- IntentsOnPaper
    LookupChoices = {{e1}}
    MaxDaily = 2
    MaxOrder = 1
    Notionals = {1}
    Charges = {0, 1}
    Settlements <- AllSettlements
    AccountLimits = FALSE
    HistoryLimit = 2
    UnresolvedLimit = 2
    MaxAttempts = 1
    MaxRevision = 2
    MaxGeneration = 1
    MaxAccountRevision = 0
    MaxDay = 0
INVARIANTS
    OneEntryInFlight
PROPERTIES
    OldestDecided
