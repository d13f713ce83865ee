------------------------------ MODULE MCClosure ------------------------------
(* Instances of Closure for TLC.                                           *)
EXTENDS Closure, TLC

(* Variables, objects, native closures and signatures are interchangeable. *)
Symmetric ==
  Permutations(Var) \cup Permutations(Obj) \cup Permutations(NC) \cup Permutations(Sig)

=============================================================================
