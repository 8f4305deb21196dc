\* Prompts of two or three rows: with the prefix, or with a cached one.
CONSTANTS
    MaxSlots = 2
    TokenCounts = {2, 3}
    Dims = {1}
    MaxGeneration = 2
    MaxEpoch = 2
    Requests = {"a", "b"}
    AudioFrames <- Frames
    PrefixTokens = 1
    SuffixTokens = 1
    EmbedDim = 1
SPECIFICATION FrontendSpec
CONSTRAINT FewOldHandles
INVARIANTS
    OwnedIffLive
    SlotsHeldOnce
    ViewStaysBacked
    PreparedPromptsAreOwn
PROPERTY HeldRowsKept
CHECK_DEADLOCK FALSE
