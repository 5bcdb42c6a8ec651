SPECIFICATION FairSpec
CONSTANTS
  Guests <- Accepted
  Total = 1
  Sizes = {1}
  Capacity = 1
  Deadlines <- NowOrSoon
  NoDeadline = none
PROPERTY DeadlineEndsRead
CHECK_DEADLOCK FALSE
