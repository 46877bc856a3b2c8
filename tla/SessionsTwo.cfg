\* Two sessions, two callers that start them, and a listing beside them.
SPECIFICATION ListSpec
CONSTANTS
  SessionIds = {s1, s2}
  Callers = {c1, c2}
  NoID = NoID
  Descendants = FALSE
  StartFails = TRUE
  WaitFails = FALSE
  Ops = {"start", "store"}
  MaxWritten = 1
  StdinCap = 1
SYMMETRY Symmetric
INVARIANTS RegistryConsistent LiveTracked ListingCorrect
CHECK_DEADLOCK FALSE
