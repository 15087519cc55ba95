\* A request that builds its snapshot while the model is unloaded under it.
SPECIFICATION Spec
CONSTANTS
    Requests = {r1, r2}
    None = None
    MemoryLimits = {0}
    ModelBytes = 4
    FileBytes = 4
    KvBytes = 2
    DefaultKvBytes = 1
INVARIANT
    ReloadDropsStaleSnapshot
