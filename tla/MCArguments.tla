---------------------------- MODULE MCArguments ----------------------------
(* One scalar and two arrays.  The functions: two pointers; an array with  *)
(* and one without length, in either order; addresses.  Their results are  *)
(* a pointer, an array of two, nothing, and an array up to a NULL, which   *)
(* one of 64-bit numbers is taken for.                                     *)
EXTENDS Arguments, TLC

Ptr(b) == [shape |-> "pointer", count |-> 0, base |-> b]
Arr(n, b) == [shape |-> "array", count |-> n, base |-> b]
Nothing == [shape |-> "none", count |-> 0, base |-> "number"]

Fun(args, res) == [args |-> args, result |-> res]

MCFunction == {
  Fun(<<Ptr("number"), Ptr("number")>>, Ptr("number")),
  Fun(<<Arr(2, "number"), Arr(0, "number")>>, Nothing),
  Fun(<<Arr(0, "number"), Arr(2, "number")>>, Arr(2, "number")),
  Fun(<<Arr(1, "address"), Ptr("address")>>, Arr(0, "wide")) }

MCOwn == {<<1>>, <<1, 0>>}
MCWild == {<< >>, <<1>>}

Arrays == Permutations(Array)
=============================================================================
