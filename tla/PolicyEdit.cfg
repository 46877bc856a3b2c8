\* edit_editFiles is called, on the policy file too.
SPECIFICATION Spec
CONSTANTS
  NoArg = NoArg
  Args <- MCArgs
  Patterns <- MCPatterns
  Matched <- MCMatched
  Escapes <- MCEscapes
  Protected <- MCProtected
  Embedded <- MCEmbedded
  Callers = {c1}
  Calls <- EditCalls
  ConfigFiles <- MCFiles
  MaxReloads = 0
INVARIANT EditsSparePolicy
