\* The tool has an end, and the daemon takes inv.receives datagrams: the run stops.
CHECK_DEADLOCK FALSE
SPECIFICATION Spec
CONSTANTS
  Invocations <- AllInvocations
  NotUnicode = NotUnicode
  Wave <- TwoInstants
  CntMod = 2
  MaxDuration = 2000
  Times <- TwoTimes
  Bursts <- SomeBursts
  MaxU64 = 1000
  MaxI64 = 499
  Epoch = 100
  NsPerTick = 10
  MaxI32 = 0
INVARIANTS
  DecodesAsMeant
  CutIsRefused
  AbortsOnlyWhen
  ShownAsSent
  NeverBetterThanSent
  CorruptionCaught
