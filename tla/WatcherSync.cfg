\* Three changes, of which the third may find the queue of events full.
SPECIFICATION FairSpec
CONSTANTS
  Values = {p1, p2}
  Unprotected = {p2}
  Bad = Bad
  Empty = Empty
  Missing = Missing
  Strict = TRUE
  Depth = 1
  QueueSize = 2
  MaxChanges = 3
INVARIANTS TypeOK NoChangeLost QuiescentInForce
PROPERTIES InForceAtLast CloseReturns
CHECK_DEADLOCK FALSE
