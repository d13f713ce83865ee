------------------------------- MODULE Closure -------------------------------
(***************************************************************************)
(* The life of closures in one interpreter.                                *)
(*                                                                         *)
(* A closure object (FFI::Platypus::Closure) is a Perl hash with a         *)
(* reference count.  The first time it is passed as an argument of a       *)
(* closure type, the dispatch makes a native closure for it, which C code  *)
(* can call, and files it in the object under the address of that type;    *)
(* the next time it finds it there.  The native closure is freed with the  *)
(* object.  It reads its signature from the type, whose memory belongs to  *)
(* the FFI::Platypus instance that parsed it; the functions made by an     *)
(* instance keep it alive, an attached one forever.                        *)
(*                                                                         *)
(* While the native function runs, a call holds a reference on the         *)
(* variable it was passed and one on the object; closures called meanwhile *)
(* run Perl code, which may do anything with the variables, and make calls *)
(* of its own.                                                             *)
(***************************************************************************)
EXTENDS Integers, FiniteSets

CONSTANTS
  Var,       (* Perl variables: scalars, elements of hashes and arrays     *)
  Obj,       (* closure objects                                            *)
  NC,        (* native closures                                            *)
  Addr,      (* addresses of closure types; each is the one closure type   *)
             (* of an FFI::Platypus instance, and stands for the instance  *)
  Sig,       (* signatures of closure types                                *)
  None,      (* no object, no native closure, no type, undef               *)
  MaxDepth,  (* bound on the nesting of calls                              *)
  Reassign,  (* closures may assign to a variable that is being passed     *)
  Loose      (* the addresses of the instances whose functions are also    *)
             (* used as objects, without attaching them                    *)

ASSUME ClosureAssumption ==
  /\ None \notin Var \cup Obj \cup NC \cup Addr \cup Sig
  /\ IsFiniteSet(Var)
  /\ MaxDepth \in Nat
  /\ Reassign \in BOOLEAN
  /\ Loose \subseteq Addr

VARIABLES
  scope,   (* the program can name the variable                            *)
  vrc,     (* reference count of the variable, 0 when it does not exist    *)
  var,     (* the object that the variable refers to                       *)
  rc,      (* reference count of the objects' hash, 0 when it is free      *)
  sticky,  (* $closure->{sticky}                                           *)
  cbdata,  (* $closure->{cbdata}: native closure by type address           *)
  native,  (* the native closures allocated: ffi_pl_closure                *)
  type,    (* the signature of the closure type at each address            *)
  holders, (* what keeps the FFI::Platypus instance of that type alive     *)
  depth,   (* number of calls in progress                                  *)
  call     (* the calls in progress, outermost first; 0 is the program     *)

vars == <<scope, vrc, var, rc, sticky, cbdata, native, type, holders, depth, call>>

(* libffi picks the entry code of a native closure for the signature that  *)
(* the type has when the closure is prepared.                              *)
Native == [owner : Obj, type : Addr, sig : Sig]

ASSUME NativeAssumption == None \notin Native

(* The program refers to the FFI::Platypus object, or to a function object *)
(* made by it, or has attached a function, which is never undone.          *)
Holder == {"instance", "function", "attached"}

(* var is the argument (an alias of the caller's variable), obj what it    *)
(* referred to on the way in, ptr the function pointer passed.             *)
Main == [var |-> None, obj |-> None, type |-> None, ptr |-> None, pc |-> "main"]

Top == call[depth]

PerlRuns == Top.pc \in {"main", "callback"}

Init ==
  /\ scope = [v \in Var |-> FALSE]
  /\ vrc = [v \in Var |-> 0]
  /\ var = [v \in Var |-> None]
  /\ rc = [o \in Obj |-> 0]
  /\ sticky = [o \in Obj |-> FALSE]
  /\ cbdata = [o \in Obj |-> [a \in Addr |-> None]]
  /\ native = [n \in NC |-> None]
  /\ type = [a \in Addr |-> None]
  /\ holders = [a \in Addr |-> {}]
  /\ depth = 0
  /\ call = [d \in 0..MaxDepth |-> Main]

-----------------------------------------------------------------------------
(* Reference counting                                                      *)

(* r counts k references to o more, or fewer.  Perl does not let a count   *)
(* go below zero ("attempt to free unreferenced scalar").                  *)
Inc(r, o, k) == IF o = None THEN r ELSE [r EXCEPT ![o] = @ + k]
Dec(r, o, k) == IF o = None THEN r
                ELSE [r EXCEPT ![o] = IF @ > k THEN @ - k ELSE 0]

(* The objects whose count drops to zero are freed: their hash, with it    *)
(* the cbdata, and through ClosureData::DESTROY the native closures.       *)
Freed(r) == {o \in Obj : rc[o] > 0 /\ r[o] = 0}

SetCounts(r) ==
  /\ rc' = r
  /\ cbdata' = [o \in Obj |-> IF o \in Freed(r) THEN [a \in Addr |-> None]
                              ELSE cbdata[o]]
  /\ native' = [n \in NC |->
                  IF \E o \in Freed(r), a \in Addr : cbdata[o][a] = n
                  THEN None ELSE native[n]]

-----------------------------------------------------------------------------
(* What Perl code does                                                     *)

(* A call in progress was passed the variable.                             *)
Passed(v) == \E d \in 1..depth : call[d].var = v

MayAssign(v) ==
  /\ scope[v] \/ vrc[v] = 0
  /\ Reassign \/ ~ Passed(v)

Declare(v) ==
  /\ scope' = [scope EXCEPT ![v] = TRUE]
  /\ vrc' = IF scope[v] THEN vrc ELSE [vrc EXCEPT ![v] = 1]

(* $v = $ffi->closure(sub { ... })                                         *)
New(v, o) ==
  /\ PerlRuns
  /\ MayAssign(v)
  /\ rc[o] = 0
  /\ Declare(v)
  /\ var' = [var EXCEPT ![v] = o]
  /\ SetCounts(Inc(Dec(rc, var[v], 1), o, 1))
  /\ sticky' = [sticky EXCEPT ![o] = FALSE]
  /\ UNCHANGED <<type, holders, depth, call>>

(* $v = $w, or undef $v                                                    *)
Assign(v, o) ==
  /\ PerlRuns
  /\ MayAssign(v)
  /\ o = None \/ \E w \in Var : scope[w] /\ var[w] = o
  /\ Declare(v)
  /\ var' = [var EXCEPT ![v] = o]
  /\ SetCounts(Dec(Inc(rc, o, 1), var[v], 1))
  /\ UNCHANGED <<sticky, type, holders, depth, call>>

(* A variable whose count drops to zero gives up its reference.            *)
DropVar(v, r) ==
  /\ vrc' = Dec(vrc, v, 1)
  /\ var' = IF vrc[v] > 1 THEN var ELSE [var EXCEPT ![v] = None]
  /\ SetCounts(IF vrc[v] > 1 THEN r ELSE Dec(r, var[v], 1))

(* $v goes out of scope, or is deleted from its hash or array.  Perl does  *)
(* not count the arguments of a call: a variable passed as undef, on which *)
(* the call has no reference, is part of what Reassign allows.             *)
LeaveScope(v) ==
  /\ PerlRuns
  /\ scope[v]
  /\ Reassign \/ \A d \in 1..depth : call[d].var = v => call[d].obj # None
  /\ scope' = [scope EXCEPT ![v] = FALSE]
  /\ DropVar(v, rc)
  /\ UNCHANGED <<sticky, type, holders, depth, call>>

(* Mutant of Sticky: the flag is set and no reference is taken.            *)
StickyFlagOnly(v) ==
  /\ PerlRuns
  /\ scope[v] /\ var[v] # None
  /\ ~ sticky[var[v]]
  /\ sticky' = [sticky EXCEPT ![var[v]] = TRUE]
  /\ UNCHANGED <<scope, vrc, var, rc, cbdata, native, type, holders, depth, call>>

(* $v->sticky                                                              *)
Sticky(v) ==
  /\ PerlRuns
  /\ scope[v] /\ var[v] # None
  /\ ~ sticky[var[v]]
  /\ sticky' = [sticky EXCEPT ![var[v]] = TRUE]
  /\ SetCounts(Inc(rc, var[v], 2))
  /\ UNCHANGED <<scope, vrc, var, type, holders, depth, call>>

(* Mutant of Unstick: the flag is not looked at.                           *)
UnstickAlways(v) ==
  /\ PerlRuns
  /\ scope[v] /\ var[v] # None
  /\ sticky' = [sticky EXCEPT ![var[v]] = FALSE]
  /\ SetCounts([rc EXCEPT ![var[v]] = @ - 2])
  /\ UNCHANGED <<scope, vrc, var, type, holders, depth, call>>

(* $v->unstick                                                             *)
Unstick(v) ==
  /\ PerlRuns
  /\ scope[v] /\ var[v] # None
  /\ sticky[var[v]]
  /\ sticky' = [sticky EXCEPT ![var[v]] = FALSE]
  /\ SetCounts(Dec(rc, var[v], 2))
  /\ UNCHANGED <<scope, vrc, var, type, holders, depth, call>>

(* An FFI::Platypus instance is made and parses a closure type.            *)
NewType(a, s) ==
  /\ PerlRuns
  /\ type[a] = None
  /\ type' = [type EXCEPT ![a] = s]
  /\ holders' = [holders EXCEPT ![a] = {"instance"}]
  /\ UNCHANGED <<scope, vrc, var, rc, sticky, cbdata, native, depth, call>>

(* $ffi->function(...), kept as an object that refers to the instance      *)
Function(a) ==
  /\ PerlRuns
  /\ a \in Loose
  /\ "instance" \in holders[a]
  /\ holders' = [holders EXCEPT ![a] = @ \cup {"function"}]
  /\ UNCHANGED <<scope, vrc, var, rc, sticky, cbdata, native, type, depth, call>>

(* Mutant of Attach: the xsub does not keep the function object.           *)
AttachUnheld(a) ==
  /\ PerlRuns
  /\ "instance" \in holders[a]
  /\ holders' = [holders EXCEPT ![a] = @ \cup {"function"}]
  /\ UNCHANGED <<scope, vrc, var, rc, sticky, cbdata, native, type, depth, call>>

(* $ffi->attach(...): nothing drops the reference that the xsub keeps.     *)
Attach(a) ==
  /\ PerlRuns
  /\ "instance" \in holders[a]
  /\ holders' = [holders EXCEPT ![a] = @ \cup {"attached"}]
  /\ UNCHANGED <<scope, vrc, var, rc, sticky, cbdata, native, type, depth, call>>

(* The instance or the function object goes out of scope; the instance's   *)
(* types are freed when nothing keeps it.  The program keeps a function    *)
(* that it is calling.                                                     *)
Release(a, h) ==
  /\ PerlRuns
  /\ h \in holders[a] \ {"attached"}
  /\ h = "function" /\ "attached" \notin holders[a] =>
        \A d \in 1..depth : call[d].type # a
  /\ holders' = [holders EXCEPT ![a] = @ \ {h}]
  /\ type' = IF holders'[a] = {} THEN [type EXCEPT ![a] = None] ELSE type
  /\ UNCHANGED <<scope, vrc, var, rc, sticky, cbdata, native, depth, call>>

-----------------------------------------------------------------------------
(* Passing a closure                                                       *)

Push(v, a, ptr) ==
  /\ depth' = depth + 1
  /\ call' = [call EXCEPT ![depth + 1] =
                [var |-> v, obj |-> var[v], type |-> a, ptr |-> ptr, pc |-> "native"]]

CanPass(v, a) ==
  /\ PerlRuns
  /\ depth < MaxDepth
  /\ scope[v]
  /\ holders[a] \cap {"function", "attached"} # {}

(* Mutant of TakeReferences: only the variable is kept.                    *)
TakeVariable(v) ==
  /\ vrc' = Inc(vrc, v, 1)
  /\ UNCHANGED rc

(* The two references that the call takes on the way in.                   *)
TakeReferences(v) ==
  /\ vrc' = Inc(vrc, v, 1)
  /\ rc' = Inc(rc, var[v], 1)

(* The argument is no reference: C gets NULL for undef.  A number is an    *)
(* address that C gets as it is; whose it is and how long it is callable   *)
(* is up to the program, as for NULL: None stands for both.                *)
PassUndef(v, a) ==
  /\ CanPass(v, a)
  /\ var[v] = None
  /\ Push(v, a, None)
  /\ UNCHANGED <<scope, vrc, var, rc, sticky, cbdata, native, type, holders>>

(* Mutant of PassCached: get_data does not look at the type.               *)
PassCachedAnyType(v, a) ==
  /\ CanPass(v, a)
  /\ var[v] # None
  /\ \E b \in Addr :
        /\ cbdata[var[v]][b] # None
        /\ Push(v, a, cbdata[var[v]][b])
  /\ TakeReferences(v)
  /\ UNCHANGED <<scope, var, sticky, cbdata, native, type, holders>>

(* get_data finds the native closure that was made for this type.          *)
PassCached(v, a) ==
  /\ CanPass(v, a)
  /\ var[v] # None
  /\ cbdata[var[v]][a] # None
  /\ Push(v, a, cbdata[var[v]][a])
  /\ TakeReferences(v)
  /\ UNCHANGED <<scope, var, sticky, cbdata, native, type, holders>>

(* Mutant of PassNew: one is made every time, as before 0.30.              *)
PassNewAlways(v, a, n) ==
  /\ CanPass(v, a)
  /\ var[v] # None
  /\ native[n] = None
  /\ native' = [native EXCEPT ![n] =
                  [owner |-> var[v], type |-> a, sig |-> type[a]]]
  /\ cbdata' = [cbdata EXCEPT ![var[v]][a] = n]
  /\ Push(v, a, n)
  /\ TakeReferences(v)
  /\ UNCHANGED <<scope, var, sticky, type, holders>>

(* There is none: a native closure is made, and filed with add_data.       *)
PassNew(v, a, n) ==
  /\ CanPass(v, a)
  /\ var[v] # None
  /\ cbdata[var[v]][a] = None
  /\ native[n] = None
  /\ native' = [native EXCEPT ![n] =
                  [owner |-> var[v], type |-> a, sig |-> type[a]]]
  /\ cbdata' = [cbdata EXCEPT ![var[v]][a] = n]
  /\ Push(v, a, n)
  /\ TakeReferences(v)
  /\ UNCHANGED <<scope, var, sticky, type, holders>>

(* libffi cannot make one: a warning, and C gets NULL.                     *)
PassFailed(v, a) ==
  /\ CanPass(v, a)
  /\ var[v] # None
  /\ cbdata[var[v]][a] = None
  /\ Push(v, a, None)
  /\ TakeReferences(v)
  /\ UNCHANGED <<scope, var, sticky, cbdata, native, type, holders>>

(* The native function calls a closure that exists; calling one that was   *)
(* freed is the program's mistake (lib/FFI/Platypus/Type.pm).              *)
Callback ==
  /\ Top.pc = "native"
  /\ \E n \in NC : native[n] # None
  /\ call' = [call EXCEPT ![depth].pc = "callback"]
  /\ UNCHANGED <<scope, vrc, var, rc, sticky, cbdata, native, type, holders, depth>>

CallbackReturn ==
  /\ Top.pc = "callback"
  /\ call' = [call EXCEPT ![depth].pc = "native"]
  /\ UNCHANGED <<scope, vrc, var, rc, sticky, cbdata, native, type, holders, depth>>

(* The native function returns: the argument is looked at again, and if it *)
(* is a reference now, it and what it refers to lose the references taken  *)
(* on the way in.  (The code drops the reference on the variable first and *)
(* then reads it; nothing has reused the variable in between.)             *)
Return ==
  /\ Top.pc = "native"
  /\ IF var[Top.var] = None THEN UNCHANGED <<vrc, var, rc, cbdata, native>>
     ELSE DropVar(Top.var, Dec(rc, var[Top.var], 1))
  /\ call' = [call EXCEPT ![depth] = Main]
  /\ depth' = depth - 1
  /\ UNCHANGED <<scope, sticky, type, holders>>

Next ==
  \/ \E v \in Var, o \in Obj : New(v, o)
  \/ \E v \in Var, o \in Obj \cup {None} : Assign(v, o)
  \/ \E v \in Var : LeaveScope(v) \/ Sticky(v) \/ Unstick(v)
  \/ \E a \in Addr, s \in Sig : NewType(a, s)
  \/ \E a \in Addr : Function(a) \/ Attach(a) \/ \E h \in Holder : Release(a, h)
  \/ \E v \in Var, a \in Addr :
        \/ PassUndef(v, a) \/ PassCached(v, a) \/ PassFailed(v, a)
        \/ \E n \in NC : PassNew(v, a, n)
  \/ Callback \/ CallbackReturn \/ Return

Spec == Init /\ [][Next]_vars

-----------------------------------------------------------------------------
(* Properties                                                              *)

Call == [var : Var \cup {None}, obj : Obj \cup {None}, type : Addr \cup {None},
         ptr : NC \cup {None}, pc : {"main", "native", "callback"}]

(* Every variable of the model has its type.                               *)
TypeOK ==
  /\ scope \in [Var -> BOOLEAN]
  /\ vrc \in [Var -> Nat]
  /\ var \in [Var -> Obj \cup {None}]
  /\ rc \in [Obj -> Nat]
  /\ sticky \in [Obj -> BOOLEAN]
  /\ cbdata \in [Obj -> [Addr -> NC \cup {None}]]
  /\ native \in [NC -> Native \cup {None}]
  /\ type \in [Addr -> Sig \cup {None}]
  /\ holders \in [Addr -> SUBSET Holder]
  /\ depth \in 0..MaxDepth
  /\ call \in [0..MaxDepth -> Call]

References(o) == Cardinality({v \in Var : var[v] = o})
InFlight(o) == Cardinality({d \in 1..depth : call[d].obj = o})

(* The reference counts are what refers: to a variable, the program and    *)
(* the calls in progress that were passed a closure through it; to a       *)
(* closure, the variables, sticky with two references, and the calls.      *)
(* Holds when no closure reassigns a variable being passed, whatever the   *)
(* order of sticky, unstick, nested calls and variables that go away.      *)
CountExact ==
  /\ \A v \in Var :
        vrc[v] = (IF scope[v] THEN 1 ELSE 0)
                 + Cardinality({d \in 1..depth : call[d].var = v /\ call[d].obj # None})
  /\ \A o \in Obj :
        rc[o] = References(o) + InFlight(o) + (IF sticky[o] /\ rc[o] > 0 THEN 2 ELSE 0)

(* The function pointer a call was passed can be called until that call    *)
(* returns, even if the closure drops every other reference to itself; and *)
(* it was made for the signature that the native function expects, when    *)
(* the functions of the instance are only attached.                        *)
PassedStaysCallable ==
  \A d \in 1..depth :
     call[d].ptr # None =>
        /\ native[call[d].ptr] # None
        /\ native[call[d].ptr].owner = call[d].obj
        /\ call[d].type \notin Loose =>
             native[call[d].ptr].sig = type[call[d].type]

(* An object has one native closure for a type, however often it is passed *)
(* and re-entered (Changes, 0.30: closures are cached and reused); every   *)
(* native closure is filed in a live object, which will free it, and what  *)
(* get_data finds there has not been freed.                                *)
FiledOnce ==
  /\ \A n \in NC : native[n] # None =>
        /\ rc[native[n].owner] > 0
        /\ \A o \in Obj, a \in Addr :
              cbdata[o][a] = n <=> o = native[n].owner /\ a = native[n].type
  /\ \A o \in Obj, a \in Addr : cbdata[o][a] # None => native[cbdata[o][a]] # None

(* When functions are only attached, the type that a native closure reads  *)
(* its signature from is still the one it was made for, as long as C code  *)
(* may call it and whatever became of the program's FFI::Platypus object.  *)
TypeOutlivesNative ==
  \A n \in NC : native[n] # None /\ native[n].type \notin Loose =>
     type[native[n].type] = native[n].sig

(* While an object stays sticky its native closures stay: C code that was  *)
(* given one may keep it.                                                  *)
StickyKeepsNative ==
  [][\A o \in Obj : sticky[o] /\ sticky'[o] /\ rc[o] > 0 =>
        \A a \in Addr : cbdata[o][a] # None =>
           cbdata'[o][a] = cbdata[o][a] /\ native'[cbdata[o][a]] # None]_vars

=============================================================================
