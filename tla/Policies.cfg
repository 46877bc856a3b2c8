\* One caller, every kind of tool, two reloads.
SPECIFICATION Spec
CONSTANTS
  NoArg = NoArg
  Args <- MCArgs
  Patterns <- MCPatterns
  Matched <- MCMatched
  Escapes <- MCEscapes
  Protected <- MCProtected
  Embedded <- MCEmbedded
  Callers = {c1}
  Calls <- MCCalls
  ConfigFiles <- MCFiles
  MaxReloads = 2
INVARIANTS TypeOK MergedAdmits AnswersJustified WritesJustified PolicyFileGuarded
