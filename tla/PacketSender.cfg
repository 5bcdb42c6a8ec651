SPECIFICATION Spec
CONSTANTS
  NameBuf = 4
  Kinds <- OnlyDialed
  Readers = {r1, r2}
  IPs <- MCIPs
  Sizes = {0, 1}
  Queue = 2
  MaxArrived = 2
  MaxSent = 1
INVARIANT SenderIsReported
CHECK_DEADLOCK FALSE
