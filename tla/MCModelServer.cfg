\* Two requests, without a memory limit and with one that admits one of them
\* by the loaded model's sizes and both by those guessed for an unloaded one.
SPECIFICATION FairSpec
CONSTANTS
    Requests = {r1, r2}
    None = None
    MemoryLimits = {0, 6}
    ModelBytes = 4
    FileBytes = 4
    KvBytes = 2
    DefaultKvBytes = 1
INVARIANTS
    TypeOK
    ActiveCountExact
    MemoryLimitHonoured
    NoTornSnapshot
    OneCopyPerEpoch
    SingleFlightLoad
PROPERTY
    EveryRequestAnswered
