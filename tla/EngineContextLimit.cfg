SPECIFICATION Spec
CONSTANTS
  Prompt <- OneChunk
  MaxSeqs = 1
  BatchSize = 1
  MaxFrontend = 1
  MaxScheduledTokens = 4
  MaxPrefillChunk = 4
  MaxTokens = 3
  CtxSize = 5
  PrefixTokens = 0
  BlockSize = 2
  NumBlocks = 3
  LoopWindow = 3
  Frontends = {"sync"}
  CopyMayFail = FALSE
INVARIANTS
  ContextLimitFinishes
