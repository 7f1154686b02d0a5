SPECIFICATION Spec
CONSTANTS
  Capacity = 2
  WriteRows = 1
  c1 = c1
  c2 = c2
  Clients = {c1, c2}
  MaxLoops = 2
  MaxPushes = 3
  TamperBase = 20
  Vendors = {}
  Environments <- OnFailingDisk
  External = FALSE
  FlushEvery = 2
INVARIANTS
  FailedRowsRetried
CHECK_DEADLOCK FALSE
