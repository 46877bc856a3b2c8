\* As SessionsOne, larger and without fairness: every call, two bytes of output.
SPECIFICATION Spec
CONSTANTS
  SessionIds = {s1}
  Callers = {c1, c2}
  NoID = NoID
  Descendants = TRUE
  StartFails = TRUE
  WaitFails = TRUE
  Ops <- AllOps
  MaxWritten = 2
  StdinCap = 1
SYMMETRY Symmetric
INVARIANTS TypeOK CompletedIsFinal CompletedReplyFinal KillSucceedsWhenOver
PROPERTIES Lifecycle
CHECK_DEADLOCK FALSE
