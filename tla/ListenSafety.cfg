SPECIFICATION FairSpec
CONSTANTS
  Kinds = {"listen", "packet"}
  Acceptors = {a1, a2}
  Peers = {p1, p2, p3}
  Nobody = nobody
  Backlog = 2
INVARIANTS
  TypeOK
  ClosedAtMostOnce
  HeldIsOpen
  EachInOnePlace
  FailedListenKeepsNothing
PROPERTIES
  ImplementsAcceptPromise
  QueueIsServed
CHECK_DEADLOCK FALSE
