SPECIFICATION Spec
CONSTANTS
  NoSession = "s0"
  ToolIds = {1}
  MaxEvents = 5
  Turns = 2
  TranscriptMoves = 2
  PageSize = 2
  WindowSize = 4
  FirstRows = 6
  WindowMoves = 4
  Keys = {"k1", "k2"}
  Default = "k1"
  Pinnable = {"s1", "s2", "s3"}
  MaxPins = 2
  PickerMoves = 5
  Boards = {"s1", "s2", "t1"}
  Owner <- MCOwner
  NoScope = "u0"
  BoardMoves = 5
  Sessions = {"s1", "s2"}
  MaxTexts = 2
  MaxFiles = 2
  ComposerMoves = 6
  MaxItems = 2
  RenderingMoves = 3
INVARIANTS  WindowFaithful PickerFaithful BoardFaithful ComposerFaithful RenderingFaithful
CHECK_DEADLOCK FALSE
