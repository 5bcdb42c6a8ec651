SPECIFICATION FairSpec
CONSTANTS
  N = 3
  SoTypes = {"stream", "dgram", "unixgram"}
  Timeouts <- MCTimeouts
  Deadlines <- MCDeadlines
  NoDeadline = never
  MaxTimeout = 2
  MaxUntil = 2
INVARIANTS
  TypeOK
  ClosedAtMostOnce
  CallbackOwnsDescriptor
  NoOrphan
  NobodyWaitsInVain
  ConnectedBeforeConn
  HeldConnIsOpen
  FailedAttemptKeepsNothing
PROPERTIES
  EndInSight
  EndedDialReturns
  EstablishedIsNoticed
  ImplementsPromise
CHECK_DEADLOCK FALSE
