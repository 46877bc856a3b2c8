\* Two callers, three versions of a page, two kinds of request.
SPECIFICATION FairSpec
CONSTANTS
  HiddenTags = {"script"}
  None = ""
  Callers = {c1, c2}
  Versions = {"old", "new", "error"}
  Page <- MCPage
  Type <- MCType
  Tag <- MCTag
  Requests <- MCRequests
  Types = {"text/html", "text/plain"}
  DefaultMaxChars = 4
  DefaultMaxBytes = 9
  MaxAllowedReadBytes = 10
INVARIANTS TypeOK BodyExact
PROPERTIES AnswersFresh FetchReturns
