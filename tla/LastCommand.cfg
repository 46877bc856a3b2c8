\* A start that fails, after one that did not.
SPECIFICATION Spec
CONSTANTS
  SessionIds = {s1, s2}
  Callers = {c1}
  NoID = NoID
  Descendants = FALSE
  StartFails = TRUE
  WaitFails = FALSE
  Ops = {"start"}
  MaxWritten = 0
  StdinCap = 1
INVARIANT LastStartedKept
CHECK_DEADLOCK FALSE
