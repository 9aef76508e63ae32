CONSTANTS
    MaxCacheSize = 4
    Partial = {"a", "b"}
    Chunks <- MCChunks
    Prompts <- MCPrompts
    Settings <- MCSettings
    InitialLists <- MCInitialLists
    MaxOps <- MCMaxOps
SPECIFICATION Spec
INVARIANTS LocalIsBackedUp ReadableFilesAreWhole
CHECK_DEADLOCK FALSE
