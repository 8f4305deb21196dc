SPECIFICATION Spec
CONSTANTS
  MaxSeqs = 2
  MaxScheduledTokens = 3
  MaxPrefillChunk = 2
  MaxTokens = 2
  NumRequests = 3
  MaxPrompt = 3
  RowsPerBlock = 2
  PhysicalRows = 26
  MaxPackedTokens = 3
  MaxTableEntries = 9
  Layers = 2
  Slots = 2
  ContextRows = 5
  BlockOf <- scattered
INVARIANTS
  WithinLimits
  NothingLeftIdle
  PlanIsCommittable
  StepComputesPlan
  GraphsAgreeOnRows
