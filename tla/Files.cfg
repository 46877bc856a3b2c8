\* Two callers, every tool that writes files, and writes that fail.
SPECIFICATION Spec
CONSTANTS
  TextFiles = {"one", "secret", "two", "new"}
  JsonFiles = {"notebook", "tasks"}
  Walk <- MCWalk
  Denied = {"secret", "tasks"}
  Ids = {"i", "j", "k"}
  NoId = ""
  Texts <- MCTexts
  Failing = {"x"}
  Absent = Absent
  NoBytes = NoBytes
  Broken = Broken
  Callers = {c1, c2}
  Calls <- MCCalls
  Disks <- MCDisks
  WritesFail = TRUE
  MaxCalls = 3
SYMMETRY Symmetric
INVARIANTS TypeOK RefusalWritesNothing AnsweredIsDone NoEmptyFile IdsUnique OneCreates
PROPERTY DeniedUntouched
CHECK_DEADLOCK FALSE
