SPECIFICATION FairSpec
CONSTANTS
  ChannelCap = 2
  BatchMax = 2
  MaxEvents = 5
  MaxLate = 2
INVARIANTS
  TypeOK
  NothingLost
  IdleOverlooksOne
PROPERTIES
  ImplementsOrderedDelivery
  OnlyLateTurnsBack
  Delivered
CHECK_DEADLOCK FALSE
