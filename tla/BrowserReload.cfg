SPECIFICATION Spec
CONSTANTS
  a1 = a1
  a2 = a2
  b1 = b1
  NoId = NoId
  Ids <- MCIds
  Chain <- MCChain
  Heir <- MCHeir
  Known <- MCKnown
  MaxTurns = 2
  MaxPosts = 1
  MaxMoves = 3
INVARIANTS BootNeverMissing
CHECK_DEADLOCK FALSE
