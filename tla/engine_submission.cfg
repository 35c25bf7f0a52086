SPECIFICATION EngineSpec
CONSTANTS
    r1 = r1
    NoExec = NoExec
    NoIntent = NoIntent
    Execs = {e1}
    Runtimes = {r1, r2}
    ModeOf <- AllPaper
    Intents = {}
    IntentMode <- IntentsOnPaper
    LookupChoices = {{e1}, {}}
    Plans = {p1}
    RuntimeOf <- OnR1
    IntentOf <- NoStableIntent
    CountedOf <- AllEntries
    NotionalOf <- UnitNotional
    MaxDaily = 2
    MaxOrder = 1
    Notionals = {1}
    Charges = {0, 1}
    Settlements <- AllSettlements
    AccountLimits = TRUE
    HistoryLimit = 2
    UnresolvedLimit = 2
    MaxAttempts = 1
    MaxRevision = 3
    MaxGeneration = 1
    MaxAccountRevision = 1
    MaxDay = 0
INVARIANTS
    SentPlanSpent
    NoLostOrder
    FenceIsolation
PROPERTIES
    ImplementsRecovery
    ImplementsJournal
