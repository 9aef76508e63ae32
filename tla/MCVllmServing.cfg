CONSTANTS
    Requests = {"r1", "r2", "r3"}
    None = None
    Ranks = {"w0", "w1"}
    DriverRank = "w0"
    ChunkSize = 2
    BlockSize = 1
    Capacity = 3
    MaxTokens = 4
    NumBlocks = 6
    SkipLastN = 0
    Prompt <- MCPrompt
    Settings <- MCSettings
    V0ChunkSize = 4
    V0BlockSize = 2
    V0NumBlocks = 5
    V0MaxTokens = 7
    MinChunk = 4
    OptedOut = {"r3"}
SPECIFICATION MCSpec
INVARIANTS AttentionReadsOwnKV CacheIsTrue FullChunksOffered ComputedIsInPlace StoredIsTrue
CHECK_DEADLOCK FALSE
