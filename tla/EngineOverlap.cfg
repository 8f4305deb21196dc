SPECIFICATION Spec
CONSTANTS
  Prompt <- OverlapChunks
  MaxSeqs = 2
  BatchSize = 3
  MaxFrontend = 2
  MaxScheduledTokens = 2
  MaxPrefillChunk = 2
  MaxTokens = 2
  CtxSize = 9
  PrefixTokens = 3
  BlockSize = 2
  NumBlocks = 5
  LoopWindow = 2
  Frontends = {"sync", "gpu"}
  CopyMayFail = TRUE
INVARIANTS
  EachChunkInOnePlace
  BlocksConserved
  RowsAreBacked
  StepIsCommittable
  EmbeddingsOutlivePrompt
  FrontendFindsSlots
  EveryDecoderPlanned
PROPERTIES
  AnswersEveryChunk
