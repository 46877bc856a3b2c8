\* The directory of the user's file is removed, made again, and edited in.
SPECIFICATION FairSpec
CONSTANTS
  Values = {p1, p2}
  Unprotected = {p2}
  Bad = Bad
  Empty = Empty
  Missing = Missing
  Strict = TRUE
  Depth = 1
  QueueSize = 3
  MaxChanges = 3
PROPERTY HotReloadAgain
CHECK_DEADLOCK FALSE
