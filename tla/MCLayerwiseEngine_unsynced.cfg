CONSTANTS
    NumLayers = 3
    Buffers = {1, 2}
    Prompts <- MCPrompts
    MaxSteps = 3
    BlendPrompts <- MCBlendPrompts
    BlendSteps = 2
    Sep = "#"
    RecompPercent = 50
    LegacyLayers = 4
    LegacyBatches <- MCLegacyBatches
    ChunkSize = 2
SPECIFICATION MCSpec
INVARIANT SavedWhenWaited
CHECK_DEADLOCK FALSE
