----------------------------- MODULE Temp_proofs -----------------------------
(***************************************************************************)
(* The shared directory of FFI::Temp, for any number of processes that     *)
(* start, fork, end and are killed: it stays as long as somebody needs it, *)
(* and is gone when the last process has ended properly.                   *)
(***************************************************************************)
EXTENDS Temp, TLAPS

(* A file is in a directory; a process whose _root has returned has its    *)
(* lock file, which keeps the others from removing the directory.          *)
FilesInDir == lock \cup temp # {} \/ stale => dir
UsersLocked == \A p \in P : At(p, "use") => p \in lock

Active == {"program", "exists", "mkdir", "open", "use", "died"}

(* As long as nothing was left behind: a lock file is of a process that    *)
(* will unlink it, ...                                                     *)
LocksOwned == \A p \in lock : p \in owns /\ pc[p] \in Active

(* ... a temporary file of one that has a lock file or is at its end, ...  *)
TempsOwned == ~ stale /\ \A p \in temp : p \in lock \/ At(p, "end") \/ At(p, "exit")

(* ... and the directory has somebody who will try to remove it, or who    *)
(* will leave its file in it.                                              *)
Responsible(p) ==
  \/ At(p, "open") \/ p \in lock \/ At(p, "end")
  \/ p \in temp /\ At(p, "exit")

Cared == left \/ (/\ LocksOwned /\ TempsOwned
                  /\ dir => \E p \in P : Responsible(p))

Inv == TypeOK /\ FilesInDir /\ UsersLocked /\ Cared

-----------------------------------------------------------------------------

(* Every variable has its type at first.                                   *)
LEMMA TypeInit == Init => TypeOK
<1> SUFFICES ASSUME Init PROVE TypeOK
  OBVIOUS
<1>1. pc \in [P -> Pc]
  BY DEF Init, Pc
<1>2. try \in [P -> 0..Tries] /\ made \in [P -> 0..MaxNew]
  BY TempAssumption DEF Init
<1>3. dir \in BOOLEAN /\ left \in BOOLEAN /\ lock \subseteq P /\ temp \subseteq P /\ owns \subseteq P
  BY DEF Init
<1>4. stale \in BOOLEAN
  BY DEF Init
<1> QED
  BY <1>1, <1>2, <1>3, <1>4 DEF TypeOK

(* Every variable has its type at every step.                              *)
LEMMA TypeStep == TypeOK /\ [Next]_vars => TypeOK'
<1> SUFFICES ASSUME TypeOK, [Next]_vars PROVE TypeOK'
  OBVIOUS
<1> USE TempAssumption DEF TypeOK, Pc, Goto, At, Files
<1>1. CASE UNCHANGED vars
  BY <1>1 DEF vars
<1>2. ASSUME NEW p \in P, Step(p) PROVE TypeOK'
  <2>1. CASE Exists(p)
    BY <2>1 DEF Exists
  <2>2. CASE Mkdir(p)
    BY <2>2 DEF Mkdir
  <2>3. CASE Open(p)
    BY <2>3 DEF Open
  <2>4. CASE OpenFails(p)
    BY <2>4 DEF OpenFails, NextTry
  <2>5. CASE Use(p)
    BY <2>5 DEF Use
  <2>6. CASE End(p)
    BY <2>6 DEF End, Unlock
  <2>7. CASE Rmdir(p)
    BY <2>7 DEF Rmdir, Empty
  <2>8. CASE Exit(p)
    BY <2>8 DEF Exit, Over
  <2> QED
    BY <1>2, <2>1, <2>2, <2>3, <2>4, <2>5, <2>6, <2>7, <2>8 DEF Step
<1>3. ASSUME NEW p \in P, Start(p) PROVE TypeOK'
  BY <1>3 DEF Start
<1>4. ASSUME NEW p \in P, New(p) PROVE TypeOK'
  BY <1>4 DEF New
<1>5. ASSUME NEW p \in P, Drop(p) \/ Caught(p) PROVE TypeOK'
  BY <1>5 DEF Drop, Caught
<1>6. ASSUME NEW p \in P, Killed(p) PROVE TypeOK'
  BY <1>6 DEF Killed, Over
<1>7. ASSUME NEW p \in P, NEW q \in P, Fork(p, q) PROVE TypeOK'
  BY <1>7 DEF Fork
<1> QED
  BY <1>1, <1>2, <1>3, <1>4, <1>5, <1>6, <1>7 DEF Next

(* A file is made in a directory that is there, and the directory is       *)
(* removed only if it is empty.                                            *)
LEMMA FilesStep == TypeOK /\ FilesInDir /\ [Next]_vars => FilesInDir'
<1> SUFFICES ASSUME TypeOK, FilesInDir, [Next]_vars PROVE FilesInDir'
  OBVIOUS
<1> USE DEF FilesInDir, Files
<1>1. CASE UNCHANGED vars
  BY <1>1 DEF vars
<1>2. ASSUME NEW p \in P, Step(p) PROVE FilesInDir'
  <2>1. CASE Exists(p) \/ Mkdir(p) \/ Open(p) \/ OpenFails(p)
    BY <2>1 DEF Exists, Mkdir, Open, OpenFails
  <2>2. CASE Use(p) \/ End(p)
    BY <2>2 DEF Use, End, Unlock
  <2>3. CASE Rmdir(p) \/ Exit(p)
    BY <2>3 DEF Rmdir, Empty, Exit, Over
  <2> QED
    BY <1>2, <2>1, <2>2, <2>3 DEF Step
<1>3. ASSUME NEW p \in P, Start(p) \/ New(p) \/ Caught(p) \/ Drop(p) \/ Killed(p) PROVE FilesInDir'
  BY <1>3 DEF Start, New, Caught, Drop, Killed, Over
<1>4. ASSUME NEW p \in P, NEW q \in P, Fork(p, q) PROVE FilesInDir'
  BY <1>4 DEF Fork
<1> QED
  BY <1>1, <1>2, <1>3, <1>4 DEF Next

(* Only open, which leaves the lock file, leads to use.                    *)
LEMMA UsersStep == TypeOK /\ UsersLocked /\ [Next]_vars => UsersLocked'
<1> SUFFICES ASSUME TypeOK, UsersLocked, [Next]_vars PROVE UsersLocked'
  OBVIOUS
<1> USE DEF UsersLocked, Files, At, Goto, TypeOK
<1>1. CASE UNCHANGED vars
  BY <1>1 DEF vars
<1>2. ASSUME NEW p \in P, Step(p) PROVE UsersLocked'
  <2>1. CASE Exists(p) \/ Mkdir(p) \/ Open(p)
    BY <2>1 DEF Exists, Mkdir, Open
  <2>2. CASE OpenFails(p) \/ Use(p)
    BY <2>2 DEF OpenFails, NextTry, Use
  <2>3. CASE End(p)
    BY <2>3 DEF End, Unlock
  <2>4. CASE Rmdir(p) \/ Exit(p)
    BY <2>4 DEF Rmdir, Exit, Over
  <2> QED
    BY <1>2, <2>1, <2>2, <2>3, <2>4 DEF Step
<1>3. ASSUME NEW p \in P, Start(p) \/ New(p) \/ Caught(p) \/ Drop(p) \/ Killed(p) PROVE UsersLocked'
  BY <1>3 DEF Start, New, Caught, Drop, Killed, Over
<1>4. ASSUME NEW p \in P, NEW q \in P, Fork(p, q) PROVE UsersLocked'
  BY <1>4 DEF Fork
<1> QED
  BY <1>1, <1>2, <1>3, <1>4 DEF Next

-----------------------------------------------------------------------------
(* Who removes the directory.  In the lemmas nothing was left behind, and  *)
(* nothing is by the step.                                                 *)

(* A lock file is unlinked by the process that owns it before it is over.  *)
LEMMA LocksStep == TypeOK /\ LocksOwned /\ Next /\ ~ left' => LocksOwned'
<1> SUFFICES ASSUME TypeOK, LocksOwned, Next, ~ left' PROVE LocksOwned'
  OBVIOUS
<1> USE DEF LocksOwned, Active, Files, At, Goto, TypeOK
<1>2. ASSUME NEW p \in P, Step(p) PROVE LocksOwned'
  <2>1. CASE Exists(p) \/ Mkdir(p) \/ Open(p)
    BY <2>1 DEF Exists, Mkdir, Open
  <2>2. CASE OpenFails(p) \/ Use(p)
    BY <2>2 DEF OpenFails, NextTry, Use
  <2>3. CASE End(p)
    BY <2>3 DEF End, Unlock
  <2>4. CASE Rmdir(p) \/ Exit(p)
    BY <2>4 DEF Rmdir, Exit, Over
  <2> QED
    BY <1>2, <2>1, <2>2, <2>3, <2>4 DEF Step
<1>3. ASSUME NEW p \in P, Start(p) \/ New(p) \/ Caught(p) \/ Drop(p) \/ Killed(p) PROVE LocksOwned'
  BY <1>3 DEF Start, New, Caught, Drop, Killed, Over
<1>4. ASSUME NEW p \in P, NEW q \in P, Fork(p, q) PROVE LocksOwned'
  BY <1>4 DEF Fork
<1> QED
  BY <1>2, <1>3, <1>4 DEF Next

(* A temporary file is made with a lock file there, and a process that     *)
(* unlinks that goes to its end.                                           *)
LEMMA TempsStep ==
  TypeOK /\ UsersLocked /\ LocksOwned /\ TempsOwned /\ Next /\ ~ left' => TempsOwned'
<1> SUFFICES ASSUME TypeOK, UsersLocked, LocksOwned, TempsOwned, Next, ~ left'
             PROVE  TempsOwned'
  OBVIOUS
<1> USE DEF TempsOwned, Files, At, Goto, TypeOK
<1>2. ASSUME NEW p \in P, Step(p) PROVE TempsOwned'
  <2>1. CASE Exists(p) \/ Mkdir(p) \/ Open(p)
    BY <2>1 DEF Exists, Mkdir, Open
  <2>2. CASE OpenFails(p) \/ Use(p)
    BY <2>2 DEF OpenFails, NextTry, Use, UsersLocked
  <2>3. CASE End(p)
    BY <2>3 DEF End, Unlock
  <2>4. CASE Rmdir(p) \/ Exit(p)
    BY <2>4 DEF Rmdir, Exit, Over
  <2> QED
    BY <1>2, <2>1, <2>2, <2>3, <2>4 DEF Step
<1>3. ASSUME NEW p \in P, Start(p) \/ New(p) \/ Caught(p) \/ Drop(p) \/ Killed(p) PROVE TempsOwned'
  BY <1>3 DEF Start, New, Caught, Drop, Killed, Over
<1>4. ASSUME NEW p \in P, NEW q \in P, Fork(p, q) PROVE TempsOwned'
  BY <1>4 DEF Fork
<1> QED
  BY <1>2, <1>3, <1>4 DEF Next

(* Whoever was responsible stays so, but for the one who tries to remove   *)
(* the directory: if that fails, an entry of it has somebody.              *)
LEMMA CareStep ==
  ASSUME TypeOK, LocksOwned, TempsOwned, Next, ~ left',
         dir => \E p \in P : Responsible(p)
  PROVE  (dir => \E p \in P : Responsible(p))'
<1> SUFFICES ASSUME dir' PROVE \E p \in P : Responsible(p)'
  OBVIOUS
<1> USE DEF Files, At, Goto, TypeOK
<1>1. CASE ~ dir
  <2>1. PICK p \in P : Mkdir(p)
    BY <1>1 DEF Next, Step, Exists, Mkdir, Open, OpenFails, Use, End, Rmdir,
                Exit, Over, Start, New, Caught, Drop, Killed, Fork
  <2>2. At(p, "open")'
    BY <1>1, <2>1 DEF Mkdir
  <2> QED
    BY <2>2 DEF Responsible
<1>2. CASE dir
  <2> PICK r \in P : Responsible(r)
    BY <1>2
  <2>1. ASSUME NEW p \in P, Step(p) PROVE \E q \in P : Responsible(q)'
    <3>1. CASE Exists(p) \/ Mkdir(p) \/ Open(p)
      BY <3>1 DEF Responsible, Exists, Mkdir, Open
    <3>2. CASE OpenFails(p) \/ Use(p)
      BY <1>2, <3>2 DEF Responsible, OpenFails, Use
    <3>3. CASE End(p)
      BY <3>3 DEF Responsible, End, Unlock, LocksOwned
    <3>4. CASE Rmdir(p)
      <4>1. ~ Empty
        BY <3>4 DEF Rmdir
      <4>2. PICK q \in P : q \in lock \/ q \in temp
        BY <4>1 DEF Empty, TempsOwned
      <4> QED
        BY <3>4, <4>2 DEF Rmdir, Responsible, TempsOwned
    <3>5. CASE Exit(p)
      BY <3>5 DEF Responsible, Exit, Over, LocksOwned, Active
    <3> QED
      BY <2>1, <3>1, <3>2, <3>3, <3>4, <3>5 DEF Step
  <2>2. ASSUME NEW p \in P, Start(p) \/ New(p) \/ Caught(p) \/ Drop(p) \/ Killed(p)
        PROVE  \E q \in P : Responsible(q)'
    BY <2>2 DEF Responsible, Start, New, Caught, Drop, Killed, Over
  <2>3. ASSUME NEW p \in P, NEW q \in P, Fork(p, q) PROVE \E s \in P : Responsible(s)'
    BY <2>3 DEF Responsible, Fork
  <2> QED
    BY <2>1, <2>2, <2>3 DEF Next
<1> QED
  BY <1>1, <1>2

(* What was left behind stays so.                                          *)
LEMMA LeftStays == left /\ [Next]_vars => left'
BY DEF Next, vars, Step, Exists, Mkdir, Open, OpenFails, Use, End, Rmdir, Exit,
       Over, Start, New, Caught, Drop, Killed, Fork, Files

-----------------------------------------------------------------------------

(* Every variable has its type.                                            *)
THEOREM TypeCorrect == Spec => []TypeOK
<1>1. Init => TypeOK
  BY TypeInit
<1> QED
  BY <1>1, TypeStep, PTL DEF Spec

LEMMA InvHolds == Spec => []Inv
<1>1. Init => Inv
  BY TypeInit
  DEF Init, Inv, FilesInDir, UsersLocked, Cared, At, LocksOwned, TempsOwned
<1>2. Inv /\ [Next]_vars => Inv'
  <2> SUFFICES ASSUME Inv, [Next]_vars PROVE Inv'
    OBVIOUS
  <2>1. TypeOK' /\ FilesInDir' /\ UsersLocked'
    BY TypeStep, FilesStep, UsersStep DEF Inv
  <2>2. CASE left
    BY <2>1, <2>2, LeftStays DEF Inv, Cared
  <2>3. CASE UNCHANGED vars
    BY <2>1, <2>3 DEF Inv, Cared, LocksOwned, TempsOwned, Responsible, At, vars
  <2>4. CASE Next /\ ~ left
    BY <2>1, <2>4, LocksStep, TempsStep, CareStep DEF Inv, Cared
  <2> QED
    BY <2>2, <2>3, <2>4
<1> QED
  BY <1>1, <1>2, PTL DEF Spec

(* The directory that _root returned is there until the process has made   *)
(* its file in it, and stays as long as a file is there.                   *)
THEOREM DirectoryStays == Spec => []DirStays
<1>1. Inv => DirStays
  BY DEF Inv, DirStays, FilesInDir, UsersLocked
<1> QED
  BY <1>1, InvHolds, PTL

(* If all processes have ended, none by being killed and none with a file  *)
(* that it did not delete, the directory is gone.                          *)
THEOREM NothingIsLeft == Spec => []NothingLeft
<1>1. Inv => NothingLeft
  BY DEF Inv, NothingLeft, Cared, LocksOwned, Responsible, At, Active, TypeOK
<1> QED
  BY <1>1, InvHolds, PTL

=============================================================================
