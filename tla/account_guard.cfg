SPECIFICATION LiveAccountSpec
CONSTANTS
    None = None
    Entries = {e1}
    Procs = {p1, p2}
    Reconciler = Reconciler
    Settings = {high}
INVARIANTS
    MutationExclusive
PROPERTIES
    TripHolds
    CancellationObserved
