SPECIFICATION Spec
CONSTANTS
  Base = 2
  Pointer = 4
  Decl <- MCDecl
  Rec = {r1, r2}
  None = None
  Value <- MCValue
  Index <- MCIndex
  Text <- MCText
  String = {1, 2, 3}
  MaxStore = 2
INVARIANT IndexRefused
CHECK_DEADLOCK FALSE
