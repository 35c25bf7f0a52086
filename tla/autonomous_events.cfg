SPECIFICATION LiveAutonomousSpec
CONSTANTS
    None = None
    Kinds = {"position"}
    Reports <- PositionReports
    QueueLimit = 1
    SummaryLimit = 1
    Attempts = 2
    MaxActions = 2
    MaxSequence = 2
    MaxWakes = 1
INVARIANTS
    StateValidates
    ProgressKept
    TimeoutEndsMutations
    WakeFiresOnce
PROPERTIES
    DeliversOnce
    EventHandled
