------------------------------ MODULE MCRecord ------------------------------
(* Bytes of two values, widths as on a 32-bit system.  The declarations:   *)
(* padding inside and at the end; an array of addresses and a fixed        *)
(* string; strings; a type without accessor and a name given twice, which  *)
(* are refused and leave accessors that other declarations meet; a type    *)
(* libffi is not told of as padding, with which the class is broken.       *)
EXTENDS Record, TLC

M(n, t) == [name |-> n, type |-> t]

MCDecl == {
  <<M("a", SInt8), M(Pad, UInt32), M("c", ArrayOf(SInt16, 2)), M("d", UInt8)>>,
  <<M("a", Fixed(3)), M("b", ArrayOf(Opaque, 2))>>,
  <<M("s", StringRw), M("t", StringRo), M("u", StringRw)>>,
  <<M("a", UInt64), M("s", Float), M("x", UInt16), M("l", LongDouble)>>,
  <<M("x", Double), M("x", SInt64)>>,
  <<M("x", SInt32), M(Pad, LongDouble)>>,
  << >> }

RecSymmetry == Permutations(Rec)

MCText == {<< >>, <<1, 1, 0, 1>>}
MCValue == {-1, 5}
MCIndex == {-1, 0, 1, 2}
=============================================================================
