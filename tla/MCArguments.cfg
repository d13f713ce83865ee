SPECIFICATION ArgumentsSpec
CONSTANTS
  Scalar = {s}
  Array = {a, b}
  NotRef = NotRef
  Other = Other
  Null = Null
  Frozen = Frozen
  Function <- MCFunction
  Api = {1, 2}
  Alloca = TRUE
  OwnMemory <- MCOwn
  Wild <- MCWild
  MaxCall = 2
  MaxChange = 1
SYMMETRY Arrays
INVARIANTS
  CopiedBack
  ReadsInside
  BlocksLive
CHECK_DEADLOCK FALSE
