SPECIFICATION Spec
CONSTANTS
  Sources <- MCSources
  Art <- MCArt
  PreviewMoves = 4
  PublishMoves = 4
  Views = 3
  Captured = {1, 3}
  VisualMoves = 2
  Documents <- MCDocuments
  Claims <- MCClaims
  Checkouts <- MCCheckouts
  Lines <- MCLines
  Pairs <- MCPairs
  ReviewMoves = 4
INVARIANTS PartsFaithful InputsFaithful
CHECK_DEADLOCK FALSE
