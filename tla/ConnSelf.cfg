SPECIFICATION FairSpec
CONSTANTS
  Guests <- Self
  Total = 2
  Sizes = {1, 2}
  Capacity = 2
  Deadlines <- NoDeadlines
  NoDeadline = none
PROPERTY GuestKeepsRunning
CHECK_DEADLOCK FALSE
