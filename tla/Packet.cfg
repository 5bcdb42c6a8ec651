SPECIFICATION Spec
CONSTANTS
  NameBuf = 4
  Kinds <- AllKinds
  Readers = {r1, r2}
  IPs <- MCIPs
  Sizes = {0, 1}
  Queue = 2
  MaxArrived = 2
  MaxSent = 2
INVARIANTS
  TypeOK
  EachTakenOnce
  SentAsAsked
  OnlyToPeer
PROPERTY PanicNeedsClose
CHECK_DEADLOCK FALSE
