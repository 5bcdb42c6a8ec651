SPECIFICATION Spec
CONSTANTS
  Guests <- Dialed
  Total = 1
  Sizes = {1}
  Capacity = 1
  Deadlines <- NoDeadlines
  NoDeadline = none
INVARIANT ReadNeverPanics
CHECK_DEADLOCK FALSE
