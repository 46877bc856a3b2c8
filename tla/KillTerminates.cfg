\* A command with a descendant that keeps its output pipes open.
SPECIFICATION FairSpec
CONSTANTS
  SessionIds = {s1}
  Callers = {c1}
  NoID = NoID
  Descendants = TRUE
  StartFails = FALSE
  WaitFails = FALSE
  Ops = {"start", "wait", "kill"}
  MaxWritten = 0
  StdinCap = 1
PROPERTY KillTerminates
CHECK_DEADLOCK FALSE
