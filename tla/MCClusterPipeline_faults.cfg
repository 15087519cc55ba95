\* Timeouts and crashes, workers restarted with their shard.
SPECIFICATION FairSpec
CONSTANTS
    Requests = {r1, r2}
    None = None
    a = a
    e = e
    Vocab <- MCVocab
    Eos = e
    MaxSeq = 3
    Prompts <- MCShortPrompts
    MaxTokens = 2
    NWorkers = 2
    Batch = 2
    Streams = {TRUE}
    Preloaded = TRUE
    MaxCrashes = 1
    MaxTimeouts = 1
PROPERTY
    EveryRequestEnds
