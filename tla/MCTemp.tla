------------------------------- MODULE MCTemp -------------------------------
(* An instance of Temp for TLC.                                            *)
EXTENDS Temp
=============================================================================
