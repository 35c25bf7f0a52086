SPECIFICATION Spec
CONSTANTS
    Procs = {p1, p2, p3}
    NoProc = NoProc
    MaxCommits = 1
    MaxFaults = 1
SYMMETRY ProcSymmetry
INVARIANTS
    MutualExclusion
