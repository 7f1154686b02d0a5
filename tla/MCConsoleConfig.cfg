SPECIFICATION ConsoleSpec
CONSTANTS
  Requests = {r1, r2}
  Keys <- TwoKeys
  Values = {v1, v2}
  MaxEdits = 2
  DiskFails = TRUE
  Documents <- Files
  Forms <- TwoForms
  MaxConfigs = 3
SYMMETRY Interchangeable
INVARIANTS
  ConsoleTypeOK
  DistinctIds
  WholeAlone
  SavedAlone
  
CHECK_DEADLOCK FALSE
