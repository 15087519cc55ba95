SPECIFICATION FairSpec
CONSTANTS
    Requests = {r1, r2}
    None = None
    a = a
    e = e
    u = u
    Vocab <- MCVocab
    Tokens <- MCTokens
    Eos = e
    Zero = a
    MaxSeq = 4
    Prompts <- MCPrompts
    MaxTokens = 3
    NLayers = 2
    Streams = {TRUE, FALSE}
INVARIANTS
    TypeOK
    InContext
    CacheHoldsContext
PROPERTIES
    RefinesDecoder
    EveryCallReturns
