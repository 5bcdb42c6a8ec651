SPECIFICATION FairSpec
CONSTANTS
  N = 1
  SoTypes = {"stream"}
  Timeouts = {0}
  Deadlines = {never}
  NoDeadline = never
  MaxTimeout = 2
  MaxUntil = 2
PROPERTY RefusedIsNoticed
CHECK_DEADLOCK FALSE
