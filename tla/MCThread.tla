------------------------------ MODULE MCThread ------------------------------
(* An instance of Thread for TLC.  The sets of names are symmetric.        *)
EXTENDS Thread, TLC

ThreadSymmetry ==
  Permutations(T \ {First}) \cup Permutations(Id)
    \cup Permutations(Obj) \cup Permutations(NC)
=============================================================================
