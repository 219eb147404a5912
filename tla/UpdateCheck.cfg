SPECIFICATION Spec
CONSTANTS
  Procs = {p1, p2}
  MaxGen = 3
  MaxTries = 2
  MaxDigests = 1
  MaxTime = 1
  MaxMoves = 1
SYMMETRY Processes
CHECK_DEADLOCK FALSE
INVARIANTS TypeOK NothingLost NoNagging SingleFlight
PROPERTIES LiveClaimKept
