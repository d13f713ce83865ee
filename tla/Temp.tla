-------------------------------- MODULE Temp --------------------------------
(***************************************************************************)
(* FFI::Temp: the temporary files of the build tools are made in a         *)
(* directory .tmp of the build directory, which processes that build or    *)
(* test in parallel share.  Each leaves a lock file there for as long as   *)
(* it runs, and tries to remove the directory when it ends: rmdir fails    *)
(* while the directory has entries.                                        *)
(*                                                                         *)
(* File::Temp removes what it made when the object goes away, or in an END *)
(* block of its own, which runs after the one of FFI::Temp.                *)
(***************************************************************************)
EXTENDS Integers, FiniteSets

CONSTANTS
  P,        (* process ids                                                 *)
  Tries,    (* attempts of _root; 10 in the code                           *)
  MaxNew,   (* bound on the calls of newdir or new of a process            *)
  Kill      (* processes may be killed                                     *)

ASSUME TempAssumption ==
  /\ Tries \in Nat \ {0}
  /\ MaxNew \in Nat
  /\ Kill \in BOOLEAN

VARIABLES
  pc,       (* where each process is                                       *)
  try,      (* attempts of _root that is running, or failed; 0 outside     *)
  owns,     (* the processes that have the directory in %root              *)
  dir,      (* the directory exists                                        *)
  lock,     (* the processes whose lock file is in it                      *)
  temp,     (* the processes that have a temporary file in it              *)
  stale,    (* there is a temporary file of a process that was killed      *)
  made,     (* number of calls of newdir or new that a process made        *)
  left      (* history: a process was killed, or ended with a file there   *)

vars == <<pc, try, owns, dir, lock, temp, stale, made, left>>

Pc == {"none",    (* no process has the id                                 *)
       "program",
       "exists",  (* in _root, at the test for the directory               *)
       "mkdir",   (* it was not there                                      *)
       "open",    (* at the open of the lock file                          *)
       "use",     (* _root has returned, File::Temp makes its file         *)
       "died",    (* an exception was thrown                               *)
       "end",     (* the lock file is removed, the directory not yet       *)
       "exit"}    (* the END block of File::Temp is left                   *)

Init ==
  /\ pc = [p \in P |-> "none"]
  /\ try = [p \in P |-> 0]
  /\ owns = {}
  /\ dir = FALSE
  /\ lock = {}
  /\ temp = {}
  /\ stale = FALSE
  /\ made = [p \in P |-> 0]
  /\ left = FALSE

At(p, where) == pc[p] = where

Goto(p, where) == pc' = [pc EXCEPT ![p] = where]

Files == UNCHANGED <<dir, lock, temp, stale, left>>

(* A process begins; its id may have been used before.                     *)
Start(p) ==
  /\ At(p, "none")
  /\ Goto(p, "program")
  /\ Files /\ UNCHANGED <<try, owns, made>>

(* q is forked: it has a copy of %root, and a process id of its own.       *)
Fork(p, q) ==
  /\ At(p, "program") /\ At(q, "none")
  /\ Goto(q, "program")
  /\ owns' = IF p \in owns THEN owns \cup {q} ELSE owns
  /\ Files /\ UNCHANGED <<try, made>>

-----------------------------------------------------------------------------
(* newdir and new                                                          *)

New(p) ==
  /\ At(p, "program")
  /\ made[p] < MaxNew
  /\ made' = [made EXCEPT ![p] = @ + 1]
  /\ try' = [try EXCEPT ![p] = 1]
  /\ Goto(p, "exists")
  /\ Files /\ UNCHANGED owns

Exists(p) ==
  /\ At(p, "exists")
  /\ Goto(p, IF dir THEN "open" ELSE "mkdir")
  /\ Files /\ UNCHANGED <<try, owns, made>>

(* mkdir fails when another process has made the directory since.          *)
Mkdir(p) ==
  /\ At(p, "mkdir")
  /\ dir' = TRUE
  /\ Goto(p, IF dir THEN "died" ELSE "open")
  /\ UNCHANGED <<try, owns, lock, temp, stale, made, left>>

Open(p) ==
  /\ At(p, "open")
  /\ dir
  /\ lock' = lock \cup {p}
  /\ owns' = owns \cup {p}
  /\ Goto(p, "use")
  /\ UNCHANGED <<try, dir, temp, stale, made, left>>

(* Mutants of NextTry: one attempt too many; the attempts not counted.     *)
NextTryOneMore(p) ==
  IF try[p] <= Tries THEN Goto(p, "exists") /\ try' = [try EXCEPT ![p] = @ + 1]
                     ELSE Goto(p, "died") /\ UNCHANGED try

NextTryAlways(p) == Goto(p, "exists") /\ UNCHANGED try

(* The next attempt, after a sleep.  When none is left _root returns       *)
(* nothing, on which File::Temp dies.                                      *)
NextTry(p) ==
  IF try[p] < Tries THEN Goto(p, "exists") /\ try' = [try EXCEPT ![p] = @ + 1]
                    ELSE Goto(p, "died") /\ UNCHANGED try

(* The directory is gone again.                                            *)
OpenFails(p) ==
  /\ At(p, "open")
  /\ ~ dir
  /\ NextTry(p)
  /\ Files /\ UNCHANGED <<owns, made>>

(* File::Temp makes the file, or dies if the directory is gone.            *)
Use(p) ==
  /\ At(p, "use")
  /\ temp' = IF dir THEN temp \cup {p} ELSE temp
  /\ Goto(p, IF dir THEN "program" ELSE "died")
  /\ try' = [try EXCEPT ![p] = 0]
  /\ UNCHANGED <<owns, dir, lock, stale, made, left>>

(* The program catches the exception, and goes on.                         *)
Caught(p) ==
  /\ At(p, "died")
  /\ Goto(p, "program")
  /\ try' = [try EXCEPT ![p] = 0]
  /\ Files /\ UNCHANGED <<owns, made>>

(* The program lets go of what it made.                                    *)
Drop(p) ==
  /\ At(p, "program")
  /\ p \in temp
  /\ temp' = temp \ {p}
  /\ UNCHANGED <<pc, try, owns, dir, lock, stale, made, left>>

-----------------------------------------------------------------------------
(* The end of a process                                                    *)

(* Mutant of Unlock: the lock file is left.                                *)
UnlockNothing(p) == UNCHANGED lock

Unlock(p) == lock' = lock \ {p}

(* END: unlink $lock.                                                      *)
End(p) ==
  /\ At(p, "program") \/ At(p, "died")
  /\ IF p \in owns THEN Unlock(p) /\ Goto(p, "end")
     ELSE UNCHANGED lock /\ Goto(p, "exit")
  /\ UNCHANGED <<try, owns, dir, temp, stale, made, left>>

(* Mutant of Empty: all that is looked at is lock files.                   *)
Unlocked == lock = {}

Empty == lock = {} /\ temp = {} /\ ~ stale

(* END: rmdir $root.                                                       *)
Rmdir(p) ==
  /\ At(p, "end")
  /\ dir' = (dir /\ ~ Empty)
  /\ Goto(p, "exit")
  /\ UNCHANGED <<try, owns, lock, temp, stale, made, left>>

(* No process has the id any more.                                         *)
Over(p) ==
  /\ Goto(p, "none")
  /\ owns' = owns \ {p}
  /\ try' = [try EXCEPT ![p] = 0]
  /\ made' = [made EXCEPT ![p] = 0]
  /\ UNCHANGED <<dir, lock>>

(* The END block of File::Temp, after which the process is gone.           *)
Exit(p) ==
  /\ At(p, "exit")
  /\ temp' = temp \ {p}
  /\ left' = (left \/ p \in temp)
  /\ Over(p) /\ UNCHANGED stale

(* Its lock file has a name that the next process with the id uses again;  *)
(* the temporary file has not, and is left.                                *)
Killed(p) ==
  /\ Kill
  /\ ~ At(p, "none")
  /\ left' = TRUE
  /\ temp' = temp \ {p}
  /\ stale' = (stale \/ p \in temp)
  /\ Over(p)

Step(p) ==
  \/ Exists(p) \/ Mkdir(p) \/ Open(p) \/ OpenFails(p) \/ Use(p)
  \/ End(p) \/ Rmdir(p) \/ Exit(p)

Next ==
  \E p \in P :
    \/ Step(p) \/ Start(p) \/ New(p) \/ Caught(p) \/ Drop(p) \/ Killed(p)
    \/ \E q \in P : Fork(p, q)

(* Every process that can run is run by the system.                        *)
Fairness == \A p \in P : WF_vars(Step(p))

Spec == Init /\ [][Next]_vars /\ Fairness

-----------------------------------------------------------------------------
(* Properties                                                              *)

(* Every variable has its type.                                            *)
TypeOK ==
  /\ pc \in [P -> Pc]
  /\ try \in [P -> 0..Tries]
  /\ owns \subseteq P
  /\ dir \in BOOLEAN
  /\ lock \subseteq P
  /\ temp \subseteq P /\ stale \in BOOLEAN
  /\ made \in [P -> 0..MaxNew]
  /\ left \in BOOLEAN

(* The directory that _root returned is there until the process has made   *)
(* its file in it, and stays as long as a process that runs has one,       *)
(* whichever other processes end, fork or are killed meanwhile: newdir     *)
(* never fails for the want of it.                                         *)
DirStays ==
  \A p \in P : At(p, "use") \/ p \in temp => dir

(* Processes that end properly leave nothing: whoever is last removes the  *)
(* directory, however the ends of some race with the begin of others.      *)
NothingLeft == (\A p \in P : At(p, "none")) => left \/ ~ dir

(* A call of newdir comes to an end, also when other processes remove the  *)
(* directory over and over.                                                *)
Answers == \A p \in P : At(p, "exists") ~> pc[p] \in {"program", "died", "none"}

=============================================================================
