SPECIFICATION FairSpec
CONSTANTS
  Guests <- AnyGuest
  Total = 2
  Sizes = {1, 2}
  Capacity = 1
  Deadlines <- OnlySoon
  NoDeadline = none
INVARIANTS
  TypeOK
  InOrder
  DeadlineBoundsWait
  PanicNeedsCloseAndReset
PROPERTIES
  ImplementsStream
  EveryByteIsRead
  WriteReturnsSoon
CHECK_DEADLOCK FALSE
