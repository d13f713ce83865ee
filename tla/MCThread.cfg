SPECIFICATION Spec
CONSTANTS
  T = {t1, t2, t3, t4}
  First = t1
  Id = {i1, i2, i3}
  Obj = {o1}
  NC = {n1, n2, n3}
  None = None
  Build = {"id", "context", "none"}
  MaxNest = 3
SYMMETRY ThreadSymmetry
INVARIANTS
  TypeOK
  RunsOnOwner
  FiledByOwner
  IdentityCurrent
CHECK_DEADLOCK FALSE
