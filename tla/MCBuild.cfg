SPECIFICATION Spec
CONSTANTS
  Source <- MCSource
  Header <- MCHeader
  Includes <- MCIncludes
  None = None
  MaxTime = 4
  MaxEdit = 2
INVARIANTS
  TypeOK
  UpToDate
  NothingTwice
CHECK_DEADLOCK FALSE
