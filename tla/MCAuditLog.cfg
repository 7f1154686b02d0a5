SPECIFICATION AuditSpec
CONSTANTS
  Requests = {r1, r2, r3}
  Capacity = 2
  MaxEvents = 5
  DiskFails = TRUE
  Tears = TRUE
SYMMETRY Interchangeable
INVARIANTS
  SeqUniqueOnDisk
  AnsweredIsDurable
  RingIsGapFree
CHECK_DEADLOCK FALSE
