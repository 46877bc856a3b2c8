\* One session, two callers, every call on it and every failure, under fairness.
SPECIFICATION FairSpec
CONSTANTS
  SessionIds = {s1}
  Callers = {c1, c2}
  NoID = NoID
  Descendants = TRUE
  StartFails = TRUE
  WaitFails = TRUE
  Ops <- AllOps
  MaxWritten = 1
  StdinCap = 1
ACTION_CONSTRAINT StoreFirst
INVARIANTS TypeOK CompletedIsFinal CompletedReplyFinal KillSucceedsWhenOver
PROPERTIES Lifecycle ExitIsNoticed TimedCallsReturn WaiterWakes BlockedSendReleased
CHECK_DEADLOCK FALSE
