SPECIFICATION FairSpec
CONSTANTS
  Capacity = 2
  RingCapacity = 2
  MUs = {mu1}
  MaxDatagrams = 3
  Operators = {o1, o2}
  TamperBase = 20
  MaxTampers = 2
INVARIANTS
  TypeOK
  NothingLostSilently
  InArrivalOrder
  CounterExplained
PROPERTIES
  RingDrains
  ImplementsWindow
