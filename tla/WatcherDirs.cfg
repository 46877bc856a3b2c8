\* The directory of the user's file is made while the program runs.
SPECIFICATION FairSpec
CONSTANTS
  Values = {p1, p2}
  Unprotected = {p2}
  Bad = Bad
  Empty = Empty
  Missing = Missing
  Strict = TRUE
  Depth = 1
  QueueSize = 2
  MaxChanges = 2
PROPERTY HotReload
CHECK_DEADLOCK FALSE
