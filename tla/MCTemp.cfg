SPECIFICATION Spec
CONSTANTS
  P = {p1, p2, p3}
  Tries = 2
  MaxNew = 1
  Kill = TRUE
INVARIANTS
  TypeOK
  DirStays
  NothingLeft
PROPERTY
  Answers
CHECK_DEADLOCK FALSE
