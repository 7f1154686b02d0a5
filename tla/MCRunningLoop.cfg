SPECIFICATION Spec
CONSTANTS
  Capacity = 2
  WriteRows = 8
  c1 = c1
  c2 = c2
  Clients = {c1, c2}
  MaxLoops = 1
  MaxPushes = 3
  TamperBase = 20
  Vendors = {}
  Environments <- OnTwoRequests
  External = FALSE
  FlushEvery = 2
INVARIANTS
  RunningHasLoop
CHECK_DEADLOCK FALSE
