SPECIFICATION FairSpec
CONSTANTS
  Capacity = 2
  Subs = {s1, s2}
  MaxTicks = 4
INVARIANTS
  TypeOK
  Window
  Accounted
PROPERTIES
  ImplementsFeed
  EventuallyRead
