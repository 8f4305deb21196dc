CONSTANTS
    decode = decode
    short = short
    medium = medium
    long = long
    NoShape = NoShape
    Shapes <- MCShapes
    PromptRows <- MCPromptRows
    Memory <- MCMemory
    MaxPacked = 5
    MaxEntries = 2
    AllocCanFail = TRUE
    MaxBuffers = 3
SPECIFICATION CacheSpec
INVARIANTS PromptRowsCurrent BufferIsCurrent EvictsLeastRecent
