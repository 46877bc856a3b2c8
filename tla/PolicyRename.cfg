\* edit_renameSymbol walks over the policy file.
SPECIFICATION Spec
CONSTANTS
  NoArg = NoArg
  Args <- MCArgs
  Patterns <- MCPatterns
  Matched <- MCMatched
  Escapes <- MCEscapes
  Protected <- MCProtected
  Embedded <- MCEmbedded
  Callers = {c1}
  Calls <- RenameCalls
  ConfigFiles <- MCFiles
  MaxReloads = 0
INVARIANT EditsSparePolicy
