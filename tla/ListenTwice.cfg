SPECIFICATION Spec
CONSTANTS
  Kinds = {"listen", "packet"}
  Acceptors = {a1}
  Peers = {p1}
  Nobody = nobody
  Backlog = 2
INVARIANT FailedListenClosesOnce
CHECK_DEADLOCK FALSE
