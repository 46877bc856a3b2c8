\* One caller, with a call that edits one file twice.
SPECIFICATION Spec
CONSTANTS
  TextFiles = {"one", "secret", "two", "new"}
  JsonFiles = {"notebook", "tasks"}
  Walk <- MCWalk
  Denied = {"secret"}
  Ids = {"i", "j", "k"}
  NoId = ""
  Texts <- MCTexts
  Failing = {"x"}
  Absent = Absent
  NoBytes = NoBytes
  Broken = Broken
  Callers = {c1}
  Calls <- TwiceCalls
  Disks <- MCDisks
  WritesFail = FALSE
  MaxCalls = 2
INVARIANT AppliedEditsAreThere
CHECK_DEADLOCK FALSE
