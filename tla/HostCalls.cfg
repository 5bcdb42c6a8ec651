SPECIFICATION Spec
CONSTANTS
  NameBuf = 7
  SunPath = 7
  MaxFd = 3
  Binds <- MCBinds
  Dials <- MCDials
  Services <- MCServices
  FSPrefixes <- MCPrefixes
  Backlog = 1
  Room = 1
  Slots = 2
  MaxIPs = 3
INVARIANTS
  TypeOK
  BranchMeansItsError
  SuccessIsWhole
  BoundNameIsKept
  DialReachesItsName
  DialMeetsItsBinder
  EndsNameEachOther
  LookupKeepsOrder
PROPERTY InputsFirst
CHECK_DEADLOCK FALSE
