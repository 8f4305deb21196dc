SPECIFICATION Spec
CONSTANTS
  Prompt <- MixedChunks
  Estimate <- Estimates
  BatchSize = 2
  MaxTokens = 3
  CtxSize = 8
  PrefixTokens = 3
  ChunkTokens = 2
  BlockSize = 2
  NumBlocks = 6
  LoopWindow = 2
  KVModes = {"slots", "budget", "dynamic", "chunked"}
INVARIANTS
  BlocksConserved
  RowsAreBacked
  GivesUpOnlyWhenStuck
PROPERTIES
  AnswersUpToMisfit
