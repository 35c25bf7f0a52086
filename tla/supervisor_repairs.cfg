SPECIFICATION LiveSupervisorSpec
CONSTANTS
    None = None
    Entries = {e1, e2}
    Exits = {x1, x2}
    Attempts = 1
    MaxHolding = 1
PROPERTIES
    RepairKept
    CoverageRestored
