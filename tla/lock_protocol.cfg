SPECIFICATION FairSpec
CONSTANTS
    Procs = {p1, p2}
    NoProc = NoProc
    MaxCommits = 2
    MaxFaults = 3
INVARIANTS
    TypeOK
    ExclusiveUnlessAstray
    NoLostUpdate
PROPERTY DeadOwnerReclaimed
