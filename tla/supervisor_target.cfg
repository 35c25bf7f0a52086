SPECIFICATION SupervisorSpec
CONSTANTS
    None = None
    Entries = {e1}
    Exits = {x1, x2}
    Attempts = 2
    MaxHolding = 1
INVARIANT TargetKept
