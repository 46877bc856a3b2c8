\* A page of HTML, asked for without a query and then with one.
SPECIFICATION Spec
CONSTANTS
  HiddenTags = {"script"}
  None = ""
  Callers = {c1}
  Versions = {"old", "new"}
  Page <- MCPage
  Type <- MCType
  Tag <- MCTag
  Requests <- FilterRequests
  Types = {"text/html", "text/plain"}
  DefaultMaxChars = 4
  DefaultMaxBytes = 9
  MaxAllowedReadBytes = 10
INVARIANT OnlyMatchingLines
