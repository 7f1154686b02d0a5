SPECIFICATION Spec
CONSTANTS
  Requests = {r1, r2}
  Keys = {k1, k2}
  Values = {v1, v2}
  MaxEdits = 3
  DiskFails = FALSE
INVARIANTS
  FileIsWhole
CHECK_DEADLOCK FALSE
