\* A page in plain text, asked for with a query.
SPECIFICATION Spec
CONSTANTS
  HiddenTags = {"script"}
  None = ""
  Callers = {c1}
  Versions = {"error"}
  Page <- MCPage
  Type <- MCType
  Tag <- MCTag
  Requests <- FilterRequests
  Types = {"text/html", "text/plain"}
  DefaultMaxChars = 4
  DefaultMaxBytes = 9
  MaxAllowedReadBytes = 10
INVARIANT OnlyMatchingLines
