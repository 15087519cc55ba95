SPECIFICATION FairSpec
CONSTANTS
    Nodes = {n1, n2}
    Starts = {s1, s2}
    None = None
    Limits = {1, 2}
    Threads = 1
    MaxFaults = 1
INVARIANTS
    TypeOK
    NoOrphans
    ClusterWhole
    BudgetHonoured
PROPERTY
    EveryStartEnds
