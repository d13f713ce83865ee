------------------------------- MODULE Struct -------------------------------
(***************************************************************************)
(* What a record class promises, without memory: the objects of the class  *)
(* are C structs.  Every member is a variable of its own (an array of      *)
(* elements), the accessors of Perl and the assignments of C act on the    *)
(* same variable, a number is kept as C keeps it in the width of the       *)
(* member, and nothing else changes it.                                    *)
(*                                                                         *)
(* event is what the program sees: the last call and its answer.           *)
(***************************************************************************)
EXTENDS Integers, Sequences

CONSTANTS
  Base,   (* the number of values of a byte, 256                           *)
  Rec,    (* record objects                                                *)
  None    (* no answer                                                     *)

VARIABLES
  shape,  (* the members of the class, << >> before it is laid out         *)
  value,  (* value[r][k][e]: element e (from 0) of member k of record r    *)
  event   (* the last call: what was asked, and what was answered          *)

vars == <<shape, value, event>>

(* count elements of that width; a read of a loose member at an index that *)
(* it does not have may answer anything.                                   *)
Member == [count : Nat, width : Nat, signed : BOOLEAN, loose : BOOLEAN]

(* Pow[i] is the number of values of i bytes.                              *)
Pow[i \in Nat] == IF i = 0 THEN 1 ELSE Base * Pow[i - 1]

(* The number that a C integer of the member keeps of n.                   *)
Hold(m, n) ==
  LET values == Pow[m.width]
      kept == n % values
  IN  IF m.signed /\ 2 * kept >= values THEN kept - values ELSE kept

Elements(m) == 0..m.count - 1

Init ==
  /\ shape = << >>
  /\ value = [r \in {} |-> None]
  /\ event = [call |-> "none"]

(* The class is laid out, once, before there are objects.                  *)
Declare ==
  /\ shape = << >>
  /\ DOMAIN value = {}
  /\ event' = [call |-> "declare"]
  /\ UNCHANGED value

Made(r, v) == value' = [q \in DOMAIN value \cup {r} |-> IF q = r THEN v ELSE value[q]]

(* A new object holds zeros, and undef for pointers.                       *)
Create ==
  /\ event'.call = "new"
  /\ event'.rec \in Rec \ DOMAIN value
  /\ Made(event'.rec, [k \in DOMAIN shape |-> [e \in Elements(shape[k]) |-> 0]])
  /\ UNCHANGED shape

(* Perl or C assigns the numbers event.given to elements of one member.    *)
Assign ==
  /\ event'.call = "set"
  /\ LET r == event'.rec
         k == event'.member
         given == event'.given
     IN  /\ r \in DOMAIN value
         /\ DOMAIN given \subseteq Elements(shape[k])
         /\ value' = [value EXCEPT ![r][k] =
                        [e \in DOMAIN @ |-> IF e \in DOMAIN given
                                            THEN Hold(shape[k], given[e]) ELSE @[e]]]
  /\ UNCHANGED shape

(* An element is read: an index that the member does not have has no       *)
(* answer.                                                                 *)
Read ==
  /\ event'.call = "get"
  /\ LET r == event'.rec
         m == shape[event'.member]
         e == event'.index
     IN  /\ r \in DOMAIN value
         /\ \/ e \in Elements(m) /\ event'.answer = value[r][event'.member][e]
            \/ e \notin Elements(m) /\ (event'.answer = None \/ m.loose)
  /\ UNCHANGED <<shape, value>>

(* C returns, or passes to a closure, a record, which is copied.           *)
Copy ==
  /\ event'.call = "copy"
  /\ event'.rec \in Rec \ DOMAIN value /\ event'.from \in DOMAIN value
  /\ Made(event'.rec, value[event'.from])
  /\ UNCHANGED shape

Destroy ==
  /\ event'.call = "destroy"
  /\ event'.rec \in DOMAIN value
  /\ value' = [q \in DOMAIN value \ {event'.rec} |-> value[q]]
  /\ UNCHANGED shape

(* An exception, or a call that leaves the members alone.                  *)
Refuse ==
  /\ event'.call \in {"refused", "null", "passed"}
  /\ UNCHANGED <<shape, value>>

Next == Declare \/ Create \/ Assign \/ Read \/ Copy \/ Destroy \/ Refuse

Spec == Init /\ [][Next]_vars

=============================================================================
