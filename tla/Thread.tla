------------------------------- MODULE Thread -------------------------------
(***************************************************************************)
(* Closures and native threads.                                            *)
(*                                                                         *)
(* A process has native threads.  Some of them have a Perl interpreter:    *)
(* the first one, and those made by threads->create, whose interpreter is  *)
(* a copy of its creator's; the others were started by C libraries and     *)
(* have none.  A native closure belongs to the interpreter that made it    *)
(* and notes the identity of the thread it was made on.  C code hands      *)
(* function pointers around freely, so any thread may call any of them;    *)
(* ffi_pl_closure_call compares identities before it touches the           *)
(* interpreter, and aborts the process.  The system gives the identity of  *)
(* a thread that ended to a later one.                                     *)
(*                                                                         *)
(* There is one closure type here, and a closure is not dropped while a    *)
(* call that was passed it is in progress: that is the subject of Closure. *)
(***************************************************************************)
EXTENDS Integers, Sequences

CONSTANTS
  T,        (* native threads; a name can be used again after Exit         *)
  First,    (* the thread that the program starts on                       *)
  Id,       (* identities that the system gives to threads                 *)
  Obj,      (* closure objects; each interpreter has its own copy of one   *)
  NC,       (* native closures                                             *)
  None,     (* no identity, no native closure                              *)
  Build,    (* how threads are told apart, see Allowed                     *)
  MaxNest   (* bound on the calls in progress on a thread                  *)

ASSUME ThreadAssumption ==
  /\ First \in T
  /\ None \notin Id \cup NC
  /\ None \notin [thread : Id, owner : T]
  /\ Obj \cap NC = {}
  /\ Build \subseteq {"id", "context", "none"}
  /\ MaxNest \in Nat

VARIABLES
  build,    (* what the probes found when Platypus was built               *)
  id,       (* the identity of a thread, None when it does not run         *)
  perl,     (* the threads that have an interpreter                        *)
  held,     (* held[t]: the objects that variables of t's program refer to *)
  rc,       (* rc[t][o]: reference count of the object in t's interpreter  *)
  sticky,   (* sticky[t]: the objects marked sticky and not unmarked       *)
  cbdata,   (* cbdata[t][o]: the native closure filed in the object        *)
  native,   (* the native closures allocated: ffi_pl_closure               *)
  stack,    (* stack[t]: the calls in progress: an object passed to a      *)
            (* native function, or the native closure that C called        *)
  aborted   (* the process called abort                                    *)

objects == <<held, rc, sticky>>
closures == <<cbdata, native>>
threads == <<id, perl>>
vars == <<build, threads, objects, closures, stack, aborted>>

Native == [thread : Id, owner : T]

Nothing == [o \in Obj |-> None]
NoObject == [o \in Obj |-> 0]

Init ==
  /\ build \in Build
  /\ \E i \in Id : id = [t \in T |-> IF t = First THEN i ELSE None]
  /\ perl = {First}
  /\ held = [t \in T |-> {}]
  /\ rc = [t \in T |-> NoObject]
  /\ sticky = [t \in T |-> {}]
  /\ cbdata = [t \in T |-> Nothing]
  /\ native = [n \in NC |-> None]
  /\ stack = [t \in T |-> << >>]
  /\ aborted = FALSE

ClosuresOn(t) == {stack[t][k] : k \in DOMAIN stack[t]} \cap NC

Owns(t, n) == native[n] # None /\ native[n].owner = t

(* Once a closure runs with an interpreter that is not its own, or with    *)
(* that of another thread, the behaviour is undefined.                     *)
Defined == \A t \in T : \A n \in ClosuresOn(t) : Owns(t, n)

Running(t) == ~ aborted /\ Defined /\ id[t] # None

Top(t) == stack[t][Len(stack[t])]

(* A thread runs Perl code in its program and in closures; one that has no *)
(* interpreter runs C code in between.                                     *)
PerlRuns(t) ==
  Running(t) /\ IF stack[t] = << >> THEN t \in perl ELSE Top(t) \in NC

NativeRuns(t) ==
  Running(t) /\ IF stack[t] = << >> THEN t \notin perl ELSE Top(t) \in Obj

Nest(t, x) ==
  /\ Len(stack[t]) < MaxNest
  /\ stack' = [stack EXCEPT ![t] = Append(@, x)]

Passed(t, o) == \E k \in DOMAIN stack[t] : stack[t][k] \in {o, cbdata[t][o]}

-----------------------------------------------------------------------------
(* Threads                                                                 *)

Fresh(u, i) == id[u] = None /\ \A t \in T : id[t] # i

(* A library starts a thread of its own.                                   *)
StartNative(t, u, i) ==
  /\ NativeRuns(t)
  /\ Fresh(u, i)
  /\ id' = [id EXCEPT ![u] = i]
  /\ UNCHANGED <<build, perl, objects, closures, stack, aborted>>

(* Mutant of CloneData: no CLONE_SKIP, the child has the same pointers.    *)
CopyData(t, u) == cbdata' = [cbdata EXCEPT ![u] = cbdata[t]]

(* The ClosureData objects are not cloned, get_data finds undef there.     *)
CloneData(t, u) == cbdata' = [cbdata EXCEPT ![u] = Nothing]

(* threads->create: the objects that the program can reach are copied, and *)
(* counted afresh; the two references of sticky are from nowhere.          *)
Create(t, u, i) ==
  /\ PerlRuns(t)
  /\ Fresh(u, i)
  /\ id' = [id EXCEPT ![u] = i]
  /\ perl' = perl \cup {u}
  /\ held' = [held EXCEPT ![u] = held[t]]
  /\ rc' = [rc EXCEPT ![u] = [o \in Obj |-> IF o \in held[t] THEN 1 ELSE 0]]
  /\ sticky' = [sticky EXCEPT ![u] = sticky[t] \cap held[t]]
  /\ CloneData(t, u)
  /\ UNCHANGED <<build, native, stack, aborted>>

(* Mutant of Exit: the references of sticky outlive the interpreter.       *)
ExitKeepsSticky(t) ==
  /\ Running(t)
  /\ t # First
  /\ stack[t] = << >>
  /\ id' = [id EXCEPT ![t] = None]
  /\ perl' = perl \ {t}
  /\ held' = [held EXCEPT ![t] = {}]
  /\ rc' = [rc EXCEPT ![t] = NoObject]
  /\ sticky' = [sticky EXCEPT ![t] = {}]
  /\ cbdata' = [cbdata EXCEPT ![t] = Nothing]
  /\ native' = [n \in NC |-> IF \E o \in Obj \ sticky[t] : cbdata[t][o] = n
                             THEN None ELSE native[n]]
  /\ UNCHANGED <<build, stack, aborted>>

(* The thread ends.  Its interpreter destroys every object it can find,    *)
(* which frees the native closures filed in them (ClosureData::DESTROY).   *)
Exit(t) ==
  /\ Running(t)
  /\ t # First
  /\ stack[t] = << >>
  /\ id' = [id EXCEPT ![t] = None]
  /\ perl' = perl \ {t}
  /\ held' = [held EXCEPT ![t] = {}]
  /\ rc' = [rc EXCEPT ![t] = NoObject]
  /\ sticky' = [sticky EXCEPT ![t] = {}]
  /\ cbdata' = [cbdata EXCEPT ![t] = Nothing]
  /\ native' = [n \in NC |-> IF \E o \in Obj : cbdata[t][o] = n THEN None ELSE native[n]]
  /\ UNCHANGED <<build, stack, aborted>>

-----------------------------------------------------------------------------
(* Closure objects                                                         *)

(* Mutant of Count: the count goes below zero.                             *)
CountDown(t, o, k) ==
  /\ rc' = [rc EXCEPT ![t][o] = k]
  /\ UNCHANGED closures

(* The count of o drops to k; at zero the object is freed, and with it its *)
(* native closure.                                                         *)
Count(t, o, k) ==
  /\ rc' = [rc EXCEPT ![t][o] = IF k > 0 THEN k ELSE 0]
  /\ IF k > 0 THEN UNCHANGED closures
     ELSE /\ cbdata' = [cbdata EXCEPT ![t][o] = None]
          /\ native' = [n \in NC |-> IF cbdata[t][o] = n THEN None ELSE native[n]]

(* $o = $ffi->closure(sub { ... })                                         *)
New(t, o) ==
  /\ PerlRuns(t)
  /\ o \notin held[t] /\ rc[t][o] = 0
  /\ held' = [held EXCEPT ![t] = @ \cup {o}]
  /\ rc' = [rc EXCEPT ![t][o] = 1]
  /\ sticky' = [sticky EXCEPT ![t] = @ \ {o}]
  /\ UNCHANGED <<build, threads, closures, stack, aborted>>

(* undef $o                                                                *)
Drop(t, o) ==
  /\ PerlRuns(t)
  /\ o \in held[t] /\ ~ Passed(t, o)
  /\ held' = [held EXCEPT ![t] = @ \ {o}]
  /\ Count(t, o, rc[t][o] - 1)
  /\ UNCHANGED <<build, threads, sticky, stack, aborted>>

(* $o->sticky                                                              *)
Stick(t, o) ==
  /\ PerlRuns(t)
  /\ o \in held[t] \ sticky[t] /\ rc[t][o] > 0
  /\ sticky' = [sticky EXCEPT ![t] = @ \cup {o}]
  /\ rc' = [rc EXCEPT ![t][o] = @ + 2]
  /\ UNCHANGED <<build, threads, held, closures, stack, aborted>>

(* $o->unstick                                                             *)
Unstick(t, o) ==
  /\ PerlRuns(t)
  /\ o \in held[t] \cap sticky[t] /\ ~ Passed(t, o)
  /\ sticky' = [sticky EXCEPT ![t] = @ \ {o}]
  /\ Count(t, o, rc[t][o] - 2)
  /\ UNCHANGED <<build, threads, held, stack, aborted>>

(* A native function is passed $o for the first time in this interpreter.  *)
PassNew(t, o, n) ==
  /\ PerlRuns(t)
  /\ o \in held[t] /\ rc[t][o] > 0
  /\ cbdata[t][o] = None
  /\ native[n] = None
  /\ native' = [native EXCEPT ![n] = [thread |-> id[t], owner |-> t]]
  /\ cbdata' = [cbdata EXCEPT ![t][o] = n]
  /\ Nest(t, o)
  /\ UNCHANGED <<build, threads, objects, aborted>>

PassCached(t, o) ==
  /\ PerlRuns(t)
  /\ o \in held[t] /\ rc[t][o] > 0
  /\ cbdata[t][o] # None
  /\ Nest(t, o)
  /\ UNCHANGED <<build, threads, objects, closures, aborted>>

-----------------------------------------------------------------------------
(* Calls of native closures                                                *)

(* Mutant of Allowed: any thread that has an interpreter may.              *)
AllowedContext(t, n) == build = "none" \/ t \in perl

(* The check at the top of ffi_pl_closure_call: by identity, where thread  *)
(* local storage or a threads API was found; else, if Perl has threads, by *)
(* whether the thread has any interpreter; else not at all.                *)
Allowed(t, n) ==
  CASE build = "id"      -> native[n].thread = id[t]
    [] build = "context" -> t \in perl
    [] build = "none"    -> TRUE

(* C code on t calls a native closure that has not been freed.             *)
Call(t, n) ==
  /\ NativeRuns(t)
  /\ native[n] # None
  /\ Allowed(t, n)
  /\ Nest(t, n)
  /\ UNCHANGED <<build, threads, objects, closures, aborted>>

(* ffi_pl_closure_wrong_thread                                             *)
WrongThread(t, n) ==
  /\ NativeRuns(t)
  /\ native[n] # None
  /\ ~ Allowed(t, n)
  /\ aborted' = TRUE
  /\ UNCHANGED <<build, threads, objects, closures, stack>>

(* The closure or the native function that t is in returns.                *)
Return(t) ==
  /\ Running(t)
  /\ stack[t] # << >>
  /\ stack' = [stack EXCEPT ![t] = SubSeq(@, 1, Len(@) - 1)]
  /\ UNCHANGED <<build, threads, objects, closures, aborted>>

Next ==
  \/ \E t, u \in T, i \in Id : StartNative(t, u, i) \/ Create(t, u, i)
  \/ \E t \in T : Exit(t) \/ Return(t)
  \/ \E t \in T, o \in Obj :
        \/ New(t, o) \/ Drop(t, o) \/ Stick(t, o) \/ Unstick(t, o)
        \/ PassCached(t, o) \/ \E n \in NC : PassNew(t, o, n)
  \/ \E t \in T, n \in NC : Call(t, n) \/ WrongThread(t, n)

Spec == Init /\ [][Next]_vars

-----------------------------------------------------------------------------
(* Properties                                                              *)

(* Every variable has its type.                                            *)
TypeOK ==
  /\ build \in Build
  /\ id \in [T -> Id \cup {None}]
  /\ perl \subseteq T
  /\ held \in [T -> SUBSET Obj]
  /\ rc \in [T -> [Obj -> Nat]]
  /\ sticky \in [T -> SUBSET Obj]
  /\ cbdata \in [T -> [Obj -> NC \cup {None}]]
  /\ native \in [NC -> Native \cup {None}]
  /\ stack \in [T -> Seq(Obj \cup NC)]
  /\ aborted \in BOOLEAN

(* Where identities are known, the Perl code of a closure only ever runs   *)
(* on the thread whose interpreter it belongs to, however pointers travel, *)
(* threads end and identities are used again; elsewhere, on a Perl with    *)
(* threads, at least never on a thread that has no interpreter             *)
(* (lib/FFI/Platypus.pm, "Can I call a closure from a thread ...").        *)
RunsOnOwner ==
  \A t \in T : \A n \in ClosuresOn(t) :
     /\ build = "id" => Owns(t, n)
     /\ build = "context" => t \in perl

(* A native closure is filed in one object of the interpreter that made    *)
(* it, which runs: no other interpreter passes it or frees it, and no      *)
(* object is left with one that was freed.                                 *)
FiledByOwner ==
  /\ \A n \in NC : native[n] # None =>
        /\ native[n].owner \in perl
        /\ \E o \in Obj : cbdata[native[n].owner][o] = n
  /\ \A t \in T, o \in Obj :
        LET n == cbdata[t][o] IN
          n # None =>
             /\ native[n] # None /\ native[n].owner = t
             /\ \A p \in Obj : cbdata[t][p] = n => p = o

(* The check refuses no call that is right: the identity in a native       *)
(* closure is the one its thread has now, and no other running thread has. *)
IdentityCurrent ==
  \A n \in NC : native[n] # None =>
     \A t \in T : native[n].thread = id[t] <=> t = native[n].owner

=============================================================================
