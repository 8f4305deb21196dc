SPECIFICATION Spec
CONSTANTS
  Prompt <- ThreeChunks
  MaxSeqs = 1
  BatchSize = 1
  MaxFrontend = 2
  MaxScheduledTokens = 4
  MaxPrefillChunk = 4
  MaxTokens = 1
  CtxSize = 8
  PrefixTokens = 3
  BlockSize = 2
  NumBlocks = 4
  LoopWindow = 3
  Frontends = {"gpu"}
  CopyMayFail = TRUE
INVARIANTS
  EverythingReturned
