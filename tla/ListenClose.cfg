SPECIFICATION FairSpec
CONSTANTS
  Kinds = {"listen"}
  Acceptors = {a1}
  Peers = {p1}
  Nobody = nobody
  Backlog = 2
PROPERTY CloseEndsAccept
CHECK_DEADLOCK FALSE
