\* The tool has an end, and the daemon takes inv.receives datagrams: the run stops.
CHECK_DEADLOCK FALSE
SPECIFICATION Spec
CONSTANTS
  Invocations <- OneStream
  NotUnicode = NotUnicode
  Wave <- TwoInstants
  CntMod = 2
  MaxDuration = 2000
  Times <- TwoTimes
  Bursts <- NoBursts
  MaxU64 = 1000
  MaxI64 = 499
  Epoch = 100
  NsPerTick = 10
  MaxI32 = 0
INVARIANTS
  NamesMatchTheWire
