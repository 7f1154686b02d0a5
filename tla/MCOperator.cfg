SPECIFICATION FairSpec
CONSTANTS
  Capacity = 2
  WriteRows = 1
  c1 = c1
  c2 = c2
  Clients = {c1, c2}
  MaxLoops = 2
  MaxPushes = 3
  TamperBase = 20
  Vendors = {v1}
  Environments <- AllOperators
  External = FALSE
  FlushEvery = 2
INVARIANTS
  StopJoins
  L0CountsOnce
  FramesNoted
  RowsInOrder
  NothingLeftBehind
PROPERTIES
  StopAnswers
  LoopsEnd
CHECK_DEADLOCK FALSE
