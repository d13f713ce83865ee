SPECIFICATION Spec
CONSTANTS
  Var = {v1, v2}
  Obj = {o1, o2}
  NC = {n1, n2, n3}
  Addr = {a1, a2}
  Sig = {s1, s2}
  None = None
  MaxDepth = 2
  Reassign = FALSE
  Loose = {a2}
INVARIANTS
  TypeOK
  CountExact
  PassedStaysCallable
  FiledOnce
  TypeOutlivesNative
PROPERTY
  StickyKeepsNative
SYMMETRY Symmetric
