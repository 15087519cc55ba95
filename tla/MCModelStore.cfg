SPECIFICATION FairSpec
CONSTANTS
    Models = {m1}
    Commands = {c1, c2}
    Imports = {i1, i2}
    None = None
    Casts <- MCCasts
    c1 = c1
    c2 = c2
    i1 = i1
    i2 = i2
    Chunks <- MCChunks
    MaxFaults = 1
INVARIANTS
    TypeOK
    MarkerImpliesWeights
    
    RegisteredIsWhole
PROPERTY
    EveryImportEnds
CHECK_DEADLOCK FALSE
