SPECIFICATION Spec
CONSTANTS
  NumBlocks = 5
  Requests = {r1, r2}
  Prefix = prefix
  PrefixTokens = 3
  BlockSize = 2
  MaxBlocks = 3
INVARIANTS
  FreeListInv
  RefsCountOwners
  NoOwnershipErrors
  WritesArePrivate
PROPERTIES
  ImplementsSharing
CHECK_DEADLOCK FALSE
