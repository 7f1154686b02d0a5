SPECIFICATION Spec
CONSTANTS
  Capacity = 2
  MaxPushes = 3
  TamperBase = 20
  Browsers = {"b1"}
  ChannelCapacity = 1
  MaxEvents = 2
  Readers = {{"L1"}, {"b1"}}
INVARIANTS
  RatesAreHonest
PROPERTIES
  PublishedForward
  ReadIsPublished
  BrowserCatchesUp
CHECK_DEADLOCK FALSE
