SPECIFICATION Spec
CONSTANTS
    Requests = {r1, r2}
    None = None
    a = a
    e = e
    Vocab <- MCVocab
    Eos = e
    MaxSeq = 4
    Prompts <- MCPrompts
    MaxTokens = 3
    NWorkers = 2
    Batch = 2
    Streams = {TRUE, FALSE}
    Preloaded = FALSE
    MaxCrashes = 1
    MaxTimeouts = 0
INVARIANTS
    TypeOK
    WorkerFailureAnswers502
    ClientGetsText
PROPERTY
    RefinesDecoder
