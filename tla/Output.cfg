\* Chunks up to beyond the limit, in every way that they can fall on it.
SPECIFICATION Spec
CONSTANTS
  MaxOutputBytes = 4
  MaxChunk = 5
  MaxAppended = 11
INVARIANTS TypeOK OutputIsTail PagesComplete SliceExact
CHECK_DEADLOCK FALSE
