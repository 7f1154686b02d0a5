\* The process ends.
CHECK_DEADLOCK FALSE
SPECIFICATION Spec
CONSTANTS
  Addresses <- TheAddresses
  AddressLike <- TheAddressLike
  LoopbackIps <- TheLoopbackIps
  Starts <- TheStarts
  LocalIps <- TheLocalIps
  MulticastIps <- TheMulticastIps
  MaxMoves = 2
INVARIANTS
  ListensWhereTold
  StateBeforeService
  ServesWhatWasAsked
