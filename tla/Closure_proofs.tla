--------------------------- MODULE Closure_proofs ---------------------------
(***************************************************************************)
(* The native closures, for any numbers of variables, closure objects,     *)
(* types and nested calls, also when closures reassign what is passed:     *)
(* each is filed in one live object, which frees it, and reads its         *)
(* signature from a type that is still there.  When no closure reassigns a *)
(* variable that is being passed, the reference counts are also exact, and *)
(* what a call was passed can be called until the call returns.            *)
(***************************************************************************)
EXTENDS Closure, FiniteSetTheorems, TLAPS

(* What the types leave open: the program is no call, and a call that is   *)
(* in progress was passed a variable.                                      *)
CallsPlaced ==
  /\ call[0] = Main
  /\ \A d \in 1..depth : call[d].var \in Var

(* The types of an instance are there as long as something keeps it; a     *)
(* function that is only attached is no object.                            *)
TypesHeld ==
  \A a \in Addr : /\ type[a] = None <=> holders[a] = {}
                  /\ a \notin Loose => "function" \notin holders[a]

(* A native closure was made by a call of an attached function: the        *)
(* instance of its type is kept for good.                                  *)
NativesHeld ==
  \A n \in NC : native[n] # None /\ native[n].type \notin Loose =>
    "attached" \in holders[native[n].type]

Inv == TypeOK /\ CallsPlaced /\ FiledOnce /\ TypesHeld /\ NativesHeld /\ TypeOutlivesNative

-----------------------------------------------------------------------------
(* Counts                                                                  *)

LEMMA CountTypes ==
  ASSUME NEW r \in [Obj -> Nat], NEW o \in Obj \cup {None}, NEW k \in Nat
  PROVE  Inc(r, o, k) \in [Obj -> Nat] /\ Dec(r, o, k) \in [Obj -> Nat]
<1>1. CASE o = None
  BY <1>1 DEF Inc, Dec
<1>2. CASE o # None
  <2>1. o \in Obj /\ r[o] \in Nat
    BY <1>2
  <2>2. r[o] + k \in Nat
    BY <2>1
  <2>3. (IF r[o] > k THEN r[o] - k ELSE 0) \in Nat
    BY <2>1
  <2> QED
    BY <1>2, <2>1, <2>2, <2>3 DEF Inc, Dec
<1> QED
  BY <1>1, <1>2

LEMMA VarCountTypes ==
  ASSUME NEW r \in [Var -> Nat], NEW v \in Var, NEW k \in Nat
  PROVE  Inc(r, v, k) \in [Var -> Nat] /\ Dec(r, v, k) \in [Var -> Nat]
<1>1. r[v] + k \in Nat /\ (IF r[v] > k THEN r[v] - k ELSE 0) \in Nat
  OBVIOUS
<1> QED
  BY <1>1 DEF Inc, Dec

(* New counts, with the objects that are freed: what is left of the native *)
(* closures is filed as before.                                            *)
LEMMA CountsSet ==
  ASSUME TypeOK, FiledOnce, NEW r \in [Obj -> Nat], SetCounts(r)
  PROVE  /\ rc' \in [Obj -> Nat]
         /\ cbdata' \in [Obj -> [Addr -> NC \cup {None}]]
         /\ native' \in [NC -> Native \cup {None}]
         /\ FiledOnce'
         /\ \A n \in NC : native'[n] # None => native'[n] = native[n]
<1>1. rc' \in [Obj -> Nat]
  BY DEF SetCounts
<1>2. cbdata' \in [Obj -> [Addr -> NC \cup {None}]]
  BY DEF SetCounts, TypeOK
<1>3. native' \in [NC -> Native \cup {None}]
  BY DEF SetCounts, TypeOK
<1>4. \A n \in NC : native'[n] # None => native'[n] = native[n]
  BY DEF SetCounts
<1>5. \A o \in Obj : o \notin Freed(r) => cbdata'[o] = cbdata[o]
  BY DEF SetCounts
<1>6. \A o \in Obj, a \in Addr : o \in Freed(r) => cbdata'[o][a] = None
  BY DEF SetCounts
<1>7. \A n \in NC : native'[n] # None => native[n].owner \notin Freed(r)
  <2> SUFFICES ASSUME NEW n \in NC, native'[n] # None, native[n].owner \in Freed(r)
               PROVE  FALSE
    OBVIOUS
  <2>1. native[n] \in Native /\ native[n] # None
    BY <1>4 DEF SetCounts, TypeOK
  <2>2. native[n].owner \in Obj /\ native[n].type \in Addr
    BY <2>1 DEF Native
  <2>3. cbdata[native[n].owner][native[n].type] = n
    BY <2>1, <2>2 DEF FiledOnce
  <2> QED
    BY <2>2, <2>3 DEF SetCounts
<1>8. ASSUME NEW n \in NC, native'[n] # None
      PROVE  /\ rc'[native'[n].owner] > 0
             /\ \A o \in Obj, a \in Addr :
                  cbdata'[o][a] = n <=> o = native'[n].owner /\ a = native'[n].type
  <2>1. native[n] # None /\ native'[n] = native[n] /\ native[n] \in Native
    BY <1>4, <1>8 DEF TypeOK
  <2>2. native[n].owner \in Obj
    BY <2>1 DEF Native
  <2>3. native[n].owner \notin Freed(r) /\ rc[native[n].owner] > 0
    BY <1>7, <1>8, <2>1 DEF FiledOnce
  <2>4. rc'[native[n].owner] > 0
    BY <1>1, <2>2, <2>3 DEF Freed, SetCounts, TypeOK
  <2>5. ASSUME NEW o \in Obj, NEW a \in Addr
        PROVE  cbdata'[o][a] = n <=> o = native[n].owner /\ a = native[n].type
    <3>1. CASE o \in Freed(r)
      BY <1>6, <2>1, <2>3, <3>1, ClosureAssumption DEF ClosureAssumption
    <3>2. CASE o \notin Freed(r)
      BY <1>5, <2>1, <3>2 DEF FiledOnce
    <3> QED
      BY <3>1, <3>2
  <2> QED
    BY <2>1, <2>4, <2>5
<1>9. ASSUME NEW o \in Obj, NEW a \in Addr, cbdata'[o][a] # None
      PROVE  native'[cbdata'[o][a]] # None
  <2>1. o \notin Freed(r) /\ cbdata'[o][a] = cbdata[o][a]
    BY <1>5, <1>6, <1>9
  <2> DEFINE n == cbdata[o][a]
  <2>2. n \in NC /\ native[n] # None /\ native[n].owner = o /\ native[n].type = a
    BY <1>9, <2>1 DEF TypeOK, FiledOnce
  <2>3. ~ \E p \in Freed(r), b \in Addr : cbdata[p][b] = n
    BY <2>1, <2>2 DEF FiledOnce, Freed
  <2> QED
    BY <2>1, <2>2, <2>3 DEF SetCounts
<1> QED
  BY <1>1, <1>2, <1>3, <1>4, <1>8, <1>9 DEF FiledOnce

(* A step of Perl that only changes counts keeps all that is said of       *)
(* native closures and their types.                                        *)
NativeInv == FiledOnce /\ TypesHeld /\ NativesHeld /\ TypeOutlivesNative

LEMMA CountStep ==
  ASSUME Inv, NEW r \in [Obj -> Nat], SetCounts(r), UNCHANGED <<type, holders>>
  PROVE  NativeInv'
<1>1. FiledOnce' /\ \A n \in NC : native'[n] # None => native'[n] = native[n]
  BY CountsSet DEF Inv
<1> QED
  BY <1>1 DEF Inv, NativeInv, TypesHeld, NativesHeld, TypeOutlivesNative

(* The variable that is dropped, at the end of its scope or of a call.     *)
LEMMA DropStep ==
  ASSUME Inv, NEW v \in Var, NEW r \in [Obj -> Nat], DropVar(v, r),
         UNCHANGED <<type, holders>>
  PROVE  /\ vrc' \in [Var -> Nat]
         /\ var' \in [Var -> Obj \cup {None}]
         /\ rc' \in [Obj -> Nat]
         /\ cbdata' \in [Obj -> [Addr -> NC \cup {None}]]
         /\ native' \in [NC -> Native \cup {None}]
         /\ NativeInv'
<1> DEFINE q == IF vrc[v] > 1 THEN r ELSE Dec(r, var[v], 1)
<1>1. q \in [Obj -> Nat]
  BY CountTypes DEF Inv, TypeOK
<1>2. SetCounts(q)
  BY DEF DropVar
<1>3. vrc' \in [Var -> Nat]
  BY VarCountTypes DEF DropVar, Inv, TypeOK
<1>4. var' \in [Var -> Obj \cup {None}]
  BY DEF DropVar, Inv, TypeOK
<1> HIDE DEF q
<1> QED
  BY <1>1, <1>2, <1>3, <1>4, CountsSet, CountStep DEF Inv

LEMMA PerlStep ==
  ASSUME Inv,
         \/ \E v \in Var, o \in Obj : New(v, o)
         \/ \E v \in Var, o \in Obj \cup {None} : Assign(v, o)
         \/ \E v \in Var : LeaveScope(v) \/ Sticky(v) \/ Unstick(v)
  PROVE  TypeOK' /\ CallsPlaced' /\ NativeInv'
<1>1. UNCHANGED <<type, holders, depth, call>>
  BY DEF New, Assign, LeaveScope, Sticky, Unstick
<1>2. CallsPlaced'
  BY <1>1 DEF Inv, CallsPlaced
<1>3. ASSUME NEW v \in Var, NEW o \in Obj, New(v, o) PROVE TypeOK' /\ NativeInv'
  <2> DEFINE r == Inc(Dec(rc, var[v], 1), o, 1)
  <2>1. Dec(rc, var[v], 1) \in [Obj -> Nat]
    BY CountTypes DEF Inv, TypeOK
  <2>2. r \in [Obj -> Nat]
    BY <2>1, CountTypes
  <2>3. SetCounts(r)
    BY <1>3 DEF New
  <2>4. scope' \in [Var -> BOOLEAN] /\ vrc' \in [Var -> Nat]
    BY <1>3 DEF New, Declare, Inv, TypeOK
  <2>5. var' \in [Var -> Obj \cup {None}] /\ sticky' \in [Obj -> BOOLEAN]
    BY <1>3 DEF New, Inv, TypeOK
  <2> HIDE DEF r
  <2>6. /\ rc' \in [Obj -> Nat]
        /\ cbdata' \in [Obj -> [Addr -> NC \cup {None}]]
        /\ native' \in [NC -> Native \cup {None}]
        /\ NativeInv'
    BY <1>1, <2>2, <2>3, CountsSet, CountStep DEF Inv
  <2> QED
    BY <1>1, <2>4, <2>5, <2>6 DEF Inv, TypeOK
<1>4. ASSUME NEW v \in Var, NEW o \in Obj \cup {None}, Assign(v, o)
      PROVE  TypeOK' /\ NativeInv'
  <2> DEFINE r == Dec(Inc(rc, o, 1), var[v], 1)
  <2>1. Inc(rc, o, 1) \in [Obj -> Nat] /\ var[v] \in Obj \cup {None}
    BY CountTypes DEF Inv, TypeOK
  <2>2. r \in [Obj -> Nat]
    BY <2>1, CountTypes
  <2>3. SetCounts(r)
    BY <1>4 DEF Assign
  <2>4. scope' \in [Var -> BOOLEAN] /\ vrc' \in [Var -> Nat]
    BY <1>4 DEF Assign, Declare, Inv, TypeOK
  <2>5. var' \in [Var -> Obj \cup {None}] /\ UNCHANGED sticky
    BY <1>4 DEF Assign, Inv, TypeOK
  <2> HIDE DEF r
  <2>6. /\ rc' \in [Obj -> Nat]
        /\ cbdata' \in [Obj -> [Addr -> NC \cup {None}]]
        /\ native' \in [NC -> Native \cup {None}]
        /\ NativeInv'
    BY <1>1, <2>2, <2>3, CountsSet, CountStep DEF Inv
  <2> QED
    BY <1>1, <2>4, <2>5, <2>6 DEF Inv, TypeOK
<1>5. ASSUME NEW v \in Var, LeaveScope(v) PROVE TypeOK' /\ NativeInv'
  <2>1. DropVar(v, rc) /\ scope' \in [Var -> BOOLEAN] /\ UNCHANGED sticky
    BY <1>5 DEF LeaveScope, Inv, TypeOK
  <2>2. rc \in [Obj -> Nat]
    BY DEF Inv, TypeOK
  <2> QED
    BY <1>1, <2>1, <2>2, DropStep DEF Inv, TypeOK
<1>6. ASSUME NEW v \in Var, Sticky(v) \/ Unstick(v) PROVE TypeOK' /\ NativeInv'
  <2>1. PICK r \in [Obj -> Nat] : SetCounts(r)
    BY <1>6, CountTypes DEF Sticky, Unstick, Inv, TypeOK
  <2>2. sticky' \in [Obj -> BOOLEAN] /\ UNCHANGED <<scope, vrc, var>>
    BY <1>6 DEF Sticky, Unstick, Inv, TypeOK
  <2> QED
    BY <1>1, <2>1, <2>2, CountsSet, CountStep DEF Inv, TypeOK
<1> QED
  BY <1>2, <1>3, <1>4, <1>5, <1>6

(* Types come and go with what holds their instance; a native closure's    *)
(* is held for good.                                                       *)
LEMMA TypeStep ==
  ASSUME Inv,
         \/ \E a \in Addr, s \in Sig : NewType(a, s)
         \/ \E a \in Addr : Function(a) \/ Attach(a) \/ \E h \in Holder : Release(a, h)
  PROVE  TypeOK' /\ CallsPlaced' /\ NativeInv'
<1>1. UNCHANGED <<scope, vrc, var, rc, sticky, cbdata, native, depth, call>>
  BY DEF NewType, Function, Attach, Release
<1>2. CallsPlaced' /\ FiledOnce'
  BY <1>1 DEF Inv, CallsPlaced, FiledOnce
<1>3. \A n \in NC : native[n] # None => native[n].type \in Addr /\ native[n].sig \in Sig
  BY DEF Inv, TypeOK, Native
<1>4. ASSUME NEW a \in Addr, NEW s \in Sig, NewType(a, s)
      PROVE  TypeOK' /\ NativeInv'
  <2>1. TypeOK'
    BY <1>1, <1>4 DEF NewType, Inv, TypeOK, Holder
  <2>2. holders[a] = {} /\ s # None
    BY <1>4, ClosureAssumption DEF NewType, Inv, TypesHeld, ClosureAssumption
  <2>3. /\ \A b \in Addr : b # a => type'[b] = type[b] /\ holders'[b] = holders[b]
        /\ type'[a] = s /\ holders'[a] = {"instance"}
    BY <1>4 DEF NewType, Inv, TypeOK
  <2>4. \A n \in NC : native[n] # None /\ native[n].type \notin Loose => native[n].type # a
    BY <2>2 DEF Inv, NativesHeld
  <2> QED
    BY <1>1, <1>2, <1>3, <2>1, <2>2, <2>3, <2>4
    DEF Inv, NativeInv, TypesHeld, NativesHeld, TypeOutlivesNative
<1>5. ASSUME NEW a \in Addr, Function(a) \/ Attach(a) PROVE TypeOK' /\ NativeInv'
  <2>1. PICK h \in {"function", "attached"} :
          /\ holders' = [holders EXCEPT ![a] = @ \cup {h}]
          /\ h = "function" => a \in Loose
    BY <1>5 DEF Function, Attach
  <2>2. "instance" \in holders[a] /\ UNCHANGED type
    BY <1>5 DEF Function, Attach
  <2>3. TypeOK'
    BY <1>1, <2>1, <2>2 DEF Inv, TypeOK, Holder
  <2>4. /\ \A b \in Addr : b # a => holders'[b] = holders[b]
        /\ holders'[a] = holders[a] \cup {h}
    BY <2>1 DEF Inv, TypeOK
  <2> QED
    BY <1>1, <1>2, <1>3, <2>1, <2>2, <2>3, <2>4
    DEF Inv, NativeInv, TypesHeld, NativesHeld, TypeOutlivesNative
<1>6. ASSUME NEW a \in Addr, NEW h \in Holder, Release(a, h) PROVE TypeOK' /\ NativeInv'
  <2>1. /\ h \in holders[a] /\ h # "attached"
        /\ holders' = [holders EXCEPT ![a] = @ \ {h}]
        /\ type' = IF holders'[a] = {} THEN [type EXCEPT ![a] = None] ELSE type
    BY <1>6 DEF Release
  <2>2. TypeOK'
    BY <1>1, <2>1 DEF Inv, TypeOK
  <2>3. /\ \A b \in Addr : b # a => type'[b] = type[b] /\ holders'[b] = holders[b]
        /\ holders'[a] = holders[a] \ {h}
        /\ holders'[a] = {} => type'[a] = None
        /\ holders'[a] # {} => type'[a] = type[a]
    BY <2>1 DEF Inv, TypeOK
  <2>4. TypesHeld'
    BY <2>1, <2>3 DEF Inv, TypesHeld
  <2>5. \A n \in NC : native[n] # None /\ native[n].type \notin Loose =>
          /\ "attached" \in holders'[native[n].type]
          /\ type'[native[n].type] = type[native[n].type]
    BY <1>3, <2>1, <2>3 DEF Inv, NativesHeld
  <2> QED
    BY <1>1, <1>2, <2>2, <2>4, <2>5 DEF Inv, NativeInv, NativesHeld, TypeOutlivesNative
<1> QED
  BY <1>2, <1>4, <1>5, <1>6

-----------------------------------------------------------------------------
(* Calls                                                                   *)

(* A call that begins is placed on top of the others.                      *)
LEMMA PushStep ==
  ASSUME Inv, NEW v \in Var, NEW a \in Addr, NEW p \in NC \cup {None},
         CanPass(v, a), Push(v, a, p)
  PROVE  depth' \in 0..MaxDepth /\ call' \in [0..MaxDepth -> Call] /\ CallsPlaced'
<1> DEFINE c == [var |-> v, obj |-> var[v], type |-> a, ptr |-> p, pc |-> "native"]
<1>1. depth \in Nat /\ depth + 1 \in 0..MaxDepth /\ depth + 1 \in 1..MaxDepth /\ MaxDepth \in Nat
  BY ClosureAssumption DEF CanPass, Inv, TypeOK, ClosureAssumption
<1>2. c \in Call /\ c.var = v
  BY DEF Inv, TypeOK, Call
<1>3. depth' = depth + 1 /\ call' = [call EXCEPT ![depth + 1] = c]
  BY DEF Push
<1> HIDE DEF c
<1>4. depth' \in 0..MaxDepth /\ call' \in [0..MaxDepth -> Call]
  BY <1>1, <1>2, <1>3 DEF Inv, TypeOK
<1>5. /\ call'[depth + 1] = c
      /\ \A d \in 0..MaxDepth : d # depth + 1 => call'[d] = call[d]
  BY <1>1, <1>3 DEF Inv, TypeOK
<1>6. call'[0] = Main
  BY <1>1, <1>5 DEF Inv, CallsPlaced
<1>7. ASSUME NEW d \in 1..depth' PROVE call'[d].var \in Var
  <2>1. CASE d = depth + 1
    BY <1>2, <1>5, <2>1
  <2>2. CASE d # depth + 1
    <3>1. d \in 1..depth /\ d \in 0..MaxDepth
      BY <1>1, <1>3, <2>2
    <3> QED
      BY <1>5, <2>2, <3>1 DEF Inv, CallsPlaced
  <2> QED
    BY <2>1, <2>2
<1> QED
  BY <1>4, <1>6, <1>7 DEF CallsPlaced

(* References that a call takes free nothing.                              *)
LEMMA TakeStep ==
  ASSUME Inv, NEW v \in Var, var[v] # None, TakeReferences(v)
  PROVE  /\ vrc' \in [Var -> Nat] /\ rc' \in [Obj -> Nat]
         /\ rc'[var[v]] > 0
         /\ \A o \in Obj : rc[o] > 0 => rc'[o] > 0
<1>1. vrc \in [Var -> Nat] /\ rc \in [Obj -> Nat] /\ var[v] \in Obj
  BY DEF Inv, TypeOK
<1>2. vrc' \in [Var -> Nat] /\ rc' \in [Obj -> Nat]
  BY <1>1, CountTypes, VarCountTypes DEF TakeReferences
<1>3. rc' = [rc EXCEPT ![var[v]] = @ + 1]
  BY DEF TakeReferences, Inc
<1>4. rc'[var[v]] > 0
  BY <1>1, <1>3
<1>5. \A o \in Obj : rc[o] > 0 => rc'[o] > 0
  BY <1>1, <1>3
<1> QED
  BY <1>2, <1>4, <1>5

(* An argument of a closure type is converted; a native closure that is    *)
(* made then is the only one filed for the object and the type.            *)
LEMMA PassStep ==
  ASSUME Inv, NEW v \in Var, NEW a \in Addr,
         \/ PassUndef(v, a) \/ PassCached(v, a) \/ PassFailed(v, a)
         \/ \E n \in NC : PassNew(v, a, n)
  PROVE  TypeOK' /\ CallsPlaced' /\ NativeInv'
<1>1. CASE PassUndef(v, a)
  <2>1. CanPass(v, a) /\ Push(v, a, None)
    BY <1>1 DEF PassUndef
  <2>2. UNCHANGED <<scope, vrc, var, rc, sticky, cbdata, native, type, holders>>
    BY <1>1 DEF PassUndef
  <2>3. NativeInv'
    BY <2>2 DEF Inv, NativeInv, FiledOnce, TypesHeld, NativesHeld, TypeOutlivesNative
  <2> QED
    BY <2>1, <2>2, <2>3, PushStep DEF Inv, TypeOK
<1>2. CASE PassCached(v, a) \/ PassFailed(v, a)
  <2>1. /\ CanPass(v, a) /\ var[v] # None /\ TakeReferences(v)
        /\ UNCHANGED <<scope, var, sticky, cbdata, native, type, holders>>
    BY <1>2 DEF PassCached, PassFailed
  <2>2. PICK p \in NC \cup {None} : Push(v, a, p)
    BY <1>2, <2>1 DEF PassCached, PassFailed, Inv, TypeOK
  <2>3. TypeOK' /\ CallsPlaced'
    BY <2>1, <2>2, PushStep, TakeStep DEF Inv, TypeOK
  <2>4. FiledOnce'
    <3>1. \A n \in NC : native[n] # None => native[n].owner \in Obj
      BY DEF Inv, TypeOK, Native
    <3> QED
      BY <2>1, <3>1, TakeStep DEF Inv, FiledOnce
  <2> QED
    BY <2>1, <2>3, <2>4 DEF Inv, NativeInv, TypesHeld, NativesHeld, TypeOutlivesNative
<1>3. ASSUME NEW n \in NC, PassNew(v, a, n)
      PROVE  TypeOK' /\ CallsPlaced' /\ NativeInv'
  <2> DEFINE o == var[v]
  <2> DEFINE new == [owner |-> o, type |-> a, sig |-> type[a]]
  <2>1. /\ CanPass(v, a) /\ o # None /\ TakeReferences(v) /\ Push(v, a, n)
        /\ cbdata[o][a] = None /\ native[n] = None
        /\ native' = [native EXCEPT ![n] = new]
        /\ cbdata' = [cbdata EXCEPT ![o][a] = n]
        /\ UNCHANGED <<scope, var, sticky, type, holders>>
    BY <1>3 DEF PassNew
  <2>2. o \in Obj
    BY <2>1 DEF Inv, TypeOK
  <2>3. type[a] \in Sig
    BY <2>1 DEF CanPass, Inv, TypesHeld, TypeOK
  <2>4. new \in Native
    BY <2>2, <2>3 DEF Native
  <2>5. native' \in [NC -> Native \cup {None}] /\ cbdata' \in [Obj -> [Addr -> NC \cup {None}]]
    BY <2>1, <2>4 DEF Inv, TypeOK
  <2>6. TypeOK' /\ CallsPlaced'
    BY <2>1, <2>5, PushStep, TakeStep DEF Inv, TypeOK
  <2>7. /\ native'[n] = new /\ \A m \in NC : m # n => native'[m] = native[m]
        /\ new.owner = o /\ new.type = a /\ new.sig = type[a] 
    BY <2>1 DEF Inv, TypeOK
  <2>8. /\ cbdata'[o][a] = n
        /\ \A p \in Obj, b \in Addr : ~ (p = o /\ b = a) => cbdata'[p][b] = cbdata[p][b]
    BY <2>1, <2>2 DEF Inv, TypeOK
  <2>9. new # None
    BY <2>4, NativeAssumption DEF NativeAssumption
  <2>10. n # None
    BY ClosureAssumption DEF ClosureAssumption
  <2>11. \A p \in Obj, b \in Addr : cbdata[p][b] # n
    BY <2>1, <2>10 DEF Inv, FiledOnce
  <2>12. \A m \in NC : native[m] # None => native[m].owner \in Obj /\ native[m].type \in Addr
    BY DEF Inv, TypeOK, Native
  <2> HIDE DEF new
  <2>13. ASSUME NEW m \in NC, native'[m] # None
         PROVE  /\ rc'[native'[m].owner] > 0
                /\ \A p \in Obj, b \in Addr :
                     cbdata'[p][b] = m <=> p = native'[m].owner /\ b = native'[m].type
    <3>1. CASE m = n
      BY <2>1, <2>7, <2>8, <2>11, <3>1, TakeStep
    <3>2. CASE m # n
      <4>1. native'[m] = native[m] /\ native[m] # None
        BY <2>7, <2>13, <3>2
      <4>2. rc'[native'[m].owner] > 0
        BY <2>1, <2>12, <4>1, TakeStep DEF Inv, FiledOnce
      <4>3. ~ (o = native[m].owner /\ a = native[m].type)
        BY <2>1, <2>2, <4>1, ClosureAssumption DEF Inv, FiledOnce, ClosureAssumption
      <4>4. ASSUME NEW p \in Obj, NEW b \in Addr
            PROVE  cbdata'[p][b] = m <=> p = native[m].owner /\ b = native[m].type
        <5>1. CASE p = o /\ b = a
          BY <2>8, <3>2, <4>3, <5>1
        <5>2. CASE ~ (p = o /\ b = a)
          BY <2>8, <4>1, <5>2 DEF Inv, FiledOnce
        <5> QED
          BY <5>1, <5>2
      <4> QED
        BY <4>1, <4>2, <4>4
    <3> QED
      BY <3>1, <3>2
  <2>14. ASSUME NEW p \in Obj, NEW b \in Addr, cbdata'[p][b] # None
         PROVE  native'[cbdata'[p][b]] # None
    <3>1. CASE p = o /\ b = a
      BY <2>7, <2>8, <2>9, <3>1
    <3>2. CASE ~ (p = o /\ b = a)
      <4>1. cbdata'[p][b] = cbdata[p][b] /\ cbdata[p][b] \in NC
        BY <2>8, <2>14, <3>2 DEF Inv, TypeOK
      <4> QED
        BY <2>7, <2>11, <2>14, <4>1 DEF Inv, FiledOnce
    <3> QED
      BY <3>1, <3>2
  <2>15. FiledOnce'
    BY <2>13, <2>14 DEF FiledOnce
  <2>16. a \notin Loose => "attached" \in holders[a]
    BY <2>1 DEF CanPass, Inv, TypesHeld
  <2>17. TypesHeld' /\ NativesHeld' /\ TypeOutlivesNative'
    BY <2>1, <2>7, <2>16 DEF Inv, TypesHeld, NativesHeld, TypeOutlivesNative
  <2> QED
    BY <2>6, <2>15, <2>17 DEF NativeInv
<1> QED
  BY <1>1, <1>2, <1>3

(* A native function calls back, or returns and gives up its references.   *)
LEMMA CallStep ==
  ASSUME Inv, Callback \/ CallbackReturn \/ Return
  PROVE  TypeOK' /\ CallsPlaced' /\ NativeInv'
<1>1. depth \in 1..MaxDepth /\ depth # 0 /\ MaxDepth \in Nat
  BY ClosureAssumption
  DEF Callback, CallbackReturn, Return, Top, Main, Inv, TypeOK, CallsPlaced, ClosureAssumption
<1>2. Top \in Call /\ Top.var \in Var
  BY <1>1 DEF Top, Inv, TypeOK, CallsPlaced
<1>3. CASE Callback \/ CallbackReturn
  <2>1. PICK p \in {"callback", "native"} : call' = [call EXCEPT ![depth].pc = p]
    BY <1>3 DEF Callback, CallbackReturn
  <2>2. UNCHANGED <<scope, vrc, var, rc, sticky, cbdata, native, type, holders, depth>>
    BY <1>3 DEF Callback, CallbackReturn
  <2>3. call' \in [0..MaxDepth -> Call]
    BY <1>1, <1>2, <2>1 DEF Inv, TypeOK, Call, Top
  <2>4. call'[depth].var = Top.var /\ \A d \in 0..MaxDepth : d # depth => call'[d] = call[d]
    BY <1>1, <1>2, <2>1 DEF Inv, TypeOK, Call, Top
  <2>5. CallsPlaced'
    BY <1>1, <1>2, <2>2, <2>4 DEF Inv, CallsPlaced
  <2> QED
    BY <2>2, <2>3, <2>5
    DEF Inv, TypeOK, NativeInv, FiledOnce, TypesHeld, NativesHeld, TypeOutlivesNative
<1>4. CASE Return
  <2>1. /\ depth' = depth - 1 /\ call' = [call EXCEPT ![depth] = Main]
        /\ UNCHANGED <<scope, sticky, type, holders>>
    BY <1>4 DEF Return
  <2>2. Main \in Call
    BY DEF Main, Call
  <2>3. call' \in [0..MaxDepth -> Call] /\ depth' \in 0..MaxDepth
    BY <1>1, <2>1, <2>2 DEF Inv, TypeOK
  <2>4. \A d \in 0..MaxDepth : d # depth => call'[d] = call[d]
    BY <1>1, <2>1 DEF Inv, TypeOK
  <2>5. CallsPlaced'
    BY <1>1, <2>1, <2>4 DEF Inv, CallsPlaced
  <2>6. CASE var[Top.var] = None
    <3>1. UNCHANGED <<vrc, var, rc, cbdata, native>>
      BY <1>4, <2>6 DEF Return
    <3> QED
      BY <2>1, <2>3, <2>5, <3>1
      DEF Inv, TypeOK, NativeInv, FiledOnce, TypesHeld, NativesHeld, TypeOutlivesNative
  <2>7. CASE var[Top.var] # None
    <3> DEFINE r == Dec(rc, var[Top.var], 1)
    <3>1. r \in [Obj -> Nat]
      BY <1>2, CountTypes DEF Inv, TypeOK
    <3>2. DropVar(Top.var, r)
      BY <1>4, <2>7 DEF Return
    <3> HIDE DEF r
    <3> QED
      BY <1>2, <2>1, <2>3, <2>5, <3>1, <3>2, DropStep DEF Inv, TypeOK
  <2> QED
    BY <2>6, <2>7
<1> QED
  BY <1>3, <1>4

-----------------------------------------------------------------------------
(* The theorems                                                            *)

LEMMA InitInv == Init => Inv
<1> SUFFICES ASSUME Init PROVE Inv
  OBVIOUS
<1>1. MaxDepth \in Nat
  BY ClosureAssumption DEF ClosureAssumption
<1>2. Main \in Call
  BY DEF Main, Call
<1>3. TypeOK
  BY <1>1, <1>2 DEF Init, TypeOK
<1>4. CallsPlaced
  BY <1>1 DEF Init, CallsPlaced
<1>5. FiledOnce
  BY DEF Init, FiledOnce
<1>6. TypesHeld /\ NativesHeld /\ TypeOutlivesNative
  BY DEF Init, TypesHeld, NativesHeld, TypeOutlivesNative
<1> QED
  BY <1>3, <1>4, <1>5, <1>6 DEF Inv

LEMMA StepInv == Inv /\ [Next]_vars => Inv'
<1> SUFFICES ASSUME Inv, [Next]_vars PROVE Inv'
  OBVIOUS
<1>1. CASE Next
  BY <1>1, PerlStep, TypeStep, PassStep, CallStep DEF Next, NativeInv, Inv
<1>2. CASE UNCHANGED vars
  BY <1>2 DEF vars, Inv, TypeOK, CallsPlaced, FiledOnce, TypesHeld, NativesHeld,
              TypeOutlivesNative
<1> QED
  BY <1>1, <1>2

(* The invariant holds: the steps of Perl, of types and of calls keep it.  *)
THEOREM Invariant == Spec => []Inv
<1> QED
  BY InitInv, StepInv, PTL DEF Spec

(* Counts, native closures and the calls in progress keep their types: no  *)
(* native closure is made from a type that was freed.                      *)
THEOREM TypeCorrect == Spec => []TypeOK
<1>1. Inv => TypeOK
  BY DEF Inv
<1> QED
  BY <1>1, Invariant, PTL

(* A closure object has one native closure for a type; each native closure *)
(* is filed in a live object, and what is filed has not been freed.        *)
THEOREM NativesFiledOnce == Spec => []FiledOnce
<1>1. Inv => FiledOnce
  BY DEF Inv
<1> QED
  BY <1>1, Invariant, PTL

(* When functions are only attached, a native closure reads its signature  *)
(* from the type that it was made for.                                     *)
THEOREM TypesOutliveNatives == Spec => []TypeOutlivesNative
<1>1. Inv => TypeOutlivesNative
  BY DEF Inv
<1> QED
  BY <1>1, Invariant, PTL

-----------------------------------------------------------------------------
(* Counts and function pointers, when no closure reassigns a variable that *)
(* is being passed                                                         *)

(* The calls that hold a reference on the variable.                        *)
Holding(v) == Cardinality({d \in 1..depth : call[d].var = v /\ call[d].obj # None})

Flag(b) == IF b THEN 1 ELSE 0

(* CountExact, where no object has the flag and no references, and with it *)
(* what it rests on: a variable that is being passed refers to what it     *)
(* referred to when the call began.                                        *)
CountInv ==
  /\ \A v \in Var : vrc[v] = Flag(scope[v]) + Holding(v)
  /\ \A o \in Obj : rc[o] = References(o) + InFlight(o) + 2 * Flag(sticky[o])
  /\ \A d \in 1..depth : call[d].obj = var[call[d].var]

(* A function pointer that was passed is that of the object and the type.  *)
PointersFiled ==
  \A d \in 1..depth : call[d].ptr # None =>
     /\ native[call[d].ptr] # None
     /\ native[call[d].ptr].owner = call[d].obj
     /\ native[call[d].ptr].type = call[d].type

Undisturbed == Inv /\ CountInv /\ PointersFiled

(* One element of a finite set more or less.                               *)
LEMMA OneMore ==
  ASSUME NEW A, IsFiniteSet(A), NEW x
  PROVE  /\ Cardinality(A \ {x}) \in Nat /\ Cardinality(A) \in Nat
         /\ Cardinality(A) = Cardinality(A \ {x}) + Flag(x \in A)
<1>1. IsFiniteSet(A \ {x})
  BY FS_Subset
<1>2. Cardinality(A) \in Nat /\ Cardinality(A \ {x}) \in Nat
  BY <1>1, FS_CardinalityType
<1>3. CASE x \in A
  <2>1. Cardinality(A \ {x}) = Cardinality(A) - 1
    BY <1>3, FS_RemoveElement
  <2> QED
    BY <1>2, <1>3, <2>1 DEF Flag
<1>4. CASE x \notin A
  <2>1. A \ {x} = A
    BY <1>4
  <2> QED
    BY <1>2, <1>4, <2>1 DEF Flag
<1> QED
  BY <1>2, <1>3, <1>4

(* Every count is a number, and what refers is counted.                    *)
LEMMA Counted ==
  ASSUME Inv
  PROVE  /\ \A o \in Obj : References(o) \in Nat /\ InFlight(o) \in Nat
         /\ \A v \in Var : Holding(v) \in Nat
         /\ \A v \in Var : var[v] \in Obj => References(var[v]) > 0
         /\ \A d \in 1..depth : /\ call[d].obj \in Obj => InFlight(call[d].obj) > 0
                                /\ call[d].obj # None => Holding(call[d].var) > 0
<1>1. IsFiniteSet(Var) /\ IsFiniteSet(1..depth)
  BY ClosureAssumption, FS_Interval DEF Inv, TypeOK
<1>2. /\ \A o : IsFiniteSet({v \in Var : var[v] = o})
      /\ \A o : IsFiniteSet({d \in 1..depth : call[d].obj = o})
      /\ \A v : IsFiniteSet({d \in 1..depth : call[d].var = v /\ call[d].obj # None})
  BY <1>1, FS_Subset
<1>3. /\ \A o \in Obj : References(o) \in Nat /\ InFlight(o) \in Nat
      /\ \A v \in Var : Holding(v) \in Nat
  BY <1>2, FS_CardinalityType DEF References, InFlight, Holding
<1>4. ASSUME NEW A, IsFiniteSet(A), NEW x \in A
      PROVE  Cardinality(A) > 0
  <2>1. /\ Cardinality(A \ {x}) \in Nat
        /\ Cardinality(A) = Cardinality(A \ {x}) + Flag(x \in A)
    BY <1>4, OneMore
  <2>2. Flag(x \in A) = 1
    BY <1>4 DEF Flag
  <2> QED
    BY <2>1, <2>2
<1>5. ASSUME NEW v \in Var
      PROVE  References(var[v]) > 0
  BY <1>2, <1>4 DEF References
<1>6. ASSUME NEW d \in 1..depth
      PROVE  InFlight(call[d].obj) > 0
  BY <1>2, <1>4 DEF InFlight
<1>7. ASSUME NEW d \in 1..depth, call[d].obj # None
      PROVE  Holding(call[d].var) > 0
  BY <1>2, <1>4, <1>7 DEF Holding
<1> QED
  BY <1>3, <1>5, <1>6, <1>7

(* A variable refers to another object, the others as before.              *)
Others(v, o) == Cardinality({w \in Var : var[w] = o} \ {v})

LEMMA ReferencesChange ==
  ASSUME Inv, NEW v \in Var, \A w \in Var : w # v => var'[w] = var[w], NEW o \in Obj
  PROVE  /\ Others(v, o) \in Nat
         /\ References(o) = Others(v, o) + Flag(var[v] = o)
         /\ References(o)' = Others(v, o) + Flag(var'[v] = o)
<1> DEFINE A == {w \in Var : var[w] = o}
           B == {w \in Var : var'[w] = o}
<1>1. var \in [Var -> Obj \cup {None}] /\ IsFiniteSet(Var)
  BY ClosureAssumption DEF Inv, TypeOK
<1>2. IsFiniteSet(A) /\ IsFiniteSet(B)
  BY <1>1, FS_Subset
<1>3. A \ {v} = B \ {v}
  OBVIOUS
<1>4. /\ Cardinality(A \ {v}) \in Nat
      /\ Cardinality(A) = Cardinality(A \ {v}) + Flag(v \in A)
      /\ Cardinality(B) = Cardinality(B \ {v}) + Flag(v \in B)
  BY <1>2, OneMore
<1>5. (v \in A <=> var[v] = o) /\ (v \in B <=> var'[v] = o)
  OBVIOUS
<1>6. /\ References(o) = Cardinality(A) /\ References(o)' = Cardinality(B)
      /\ Others(v, o) = Cardinality(A \ {v})
  BY DEF References, Others
<1> HIDE DEF A, B
<1> QED
  BY <1>3, <1>4, <1>5, <1>6 DEF Flag

(* The calls that are in a set of calls.                                   *)
Among(n, F, S) == {d \in 1..n : F[d] \in S}

(* The calls of a set, when one more is in progress.                       *)
OneMoreIn(n, F, G, S) ==
  Cardinality(Among(n + 1, G, S)) = Cardinality(Among(n, F, S)) + Flag(G[n + 1] \in S)

LEMMA OneMoreCall ==
  ASSUME NEW n \in Nat, NEW F, NEW G, \A d \in 1..n : G[d] = F[d], NEW S
  PROVE  OneMoreIn(n, F, G, S)
<1> DEFINE A == Among(n + 1, G, S)
<1>1. IsFiniteSet(1..n + 1)
  BY FS_Interval
<1>2. IsFiniteSet(A)
  BY <1>1, FS_Subset DEF Among
<1>3. 1..n + 1 = (1..n) \cup {n + 1} /\ n + 1 \notin 1..n
  OBVIOUS
<1>4. A \ {n + 1} = Among(n, F, S)
  BY <1>3 DEF Among
<1>5. n + 1 \in A <=> G[n + 1] \in S
  BY <1>3 DEF Among
<1> HIDE DEF A
<1>6. Cardinality(A) = Cardinality(A \ {n + 1}) + Flag(n + 1 \in A)
  BY <1>2, OneMore
<1> QED
  BY <1>4, <1>5, <1>6 DEF A, Flag, OneMoreIn

(* The counts of the calls when one begins,                                *)
LEMMA CallBegins ==
  ASSUME Inv, NEW v \in Var, NEW a \in Addr, NEW p \in NC \cup {None},
         CanPass(v, a), Push(v, a, p)
  PROVE  /\ \A o \in Obj : InFlight(o)' = IF var[v] = o THEN InFlight(o) + 1 ELSE InFlight(o)
         /\ \A w \in Var : Holding(w)' = IF w = v /\ var[v] # None THEN Holding(w) + 1 ELSE Holding(w)
         /\ depth' = depth + 1 /\ depth \in Nat
         /\ \A d \in 1..depth : call'[d] = call[d]
         /\ call'[depth + 1] = [var |-> v, obj |-> var[v], type |-> a, ptr |-> p, pc |-> "native"]
<1> DEFINE c == [var |-> v, obj |-> var[v], type |-> a, ptr |-> p, pc |-> "native"]
<1>1. /\ depth \in Nat /\ depth + 1 \in 0..MaxDepth /\ MaxDepth \in Nat
      /\ call \in [0..MaxDepth -> Call] /\ 1..depth \subseteq 0..MaxDepth
  BY ClosureAssumption DEF CanPass, Inv, TypeOK, ClosureAssumption
<1>2. c \in Call /\ c.var = v /\ c.obj = var[v]
  BY DEF Inv, TypeOK, Call
<1>3. depth' = depth + 1 /\ call' = [call EXCEPT ![depth + 1] = c]
  BY DEF Push
<1> HIDE DEF c
<1>4. call'[depth + 1] = c /\ \A d \in 1..depth : call'[d] = call[d]
  BY <1>1, <1>3
<1>5. /\ \A d \in 1..depth : call[d] \in Call
      /\ \A d \in 1..depth + 1 : call'[d] \in Call
  BY <1>1, <1>2, <1>4
<1>6. ASSUME NEW o \in Obj
      PROVE  InFlight(o)' = IF var[v] = o THEN InFlight(o) + 1 ELSE InFlight(o)
  <2> DEFINE S == {x \in Call : x.obj = o}
  <2>1. /\ InFlight(o) = Cardinality(Among(depth, call, S))
        /\ InFlight(o)' = Cardinality(Among(depth + 1, call', S))
    <3>1. /\ {d \in 1..depth : call[d].obj = o} = Among(depth, call, S)
          /\ {d \in 1..depth + 1 : call'[d].obj = o} = Among(depth + 1, call', S)
      BY <1>1, <1>3, <1>5 DEF Among
    <3> QED
      BY <1>1, <1>3, <1>5, <3>1 DEF InFlight
  <2>2. c \in S <=> var[v] = o
    BY <1>2
  <2> HIDE DEF S
  <2>3. Cardinality(Among(depth + 1, call', S))
          = Cardinality(Among(depth, call, S)) + Flag(call'[depth + 1] \in S)
    <3>1. depth \in Nat /\ \A d \in 1..depth : call'[d] = call[d]
      BY <1>1, <1>4
    <3>2. OneMoreIn(depth, call, call', S)
      BY ONLY <3>1, OneMoreCall
    <3> QED
      BY <3>2 DEF OneMoreIn
  <2>4. IsFiniteSet(Among(depth, call, S))
    <3>1. IsFiniteSet(1..depth)
      BY <1>1, FS_Interval
    <3> QED
      BY <3>1, FS_Subset DEF Among
  <2> QED
    BY <1>4, <2>1, <2>2, <2>3, <2>4, FS_CardinalityType DEF Flag
<1>7. ASSUME NEW w \in Var
      PROVE  Holding(w)' = IF w = v /\ var[v] # None THEN Holding(w) + 1 ELSE Holding(w)
  <2> DEFINE S == {x \in Call : x.var = w /\ x.obj # None}
  <2>1. /\ Holding(w) = Cardinality(Among(depth, call, S))
        /\ Holding(w)' = Cardinality(Among(depth + 1, call', S))
    <3>1. /\ {d \in 1..depth : call[d].var = w /\ call[d].obj # None} = Among(depth, call, S)
          /\ {d \in 1..depth + 1 : call'[d].var = w /\ call'[d].obj # None} = Among(depth + 1, call', S)
      BY <1>1, <1>3, <1>5 DEF Among
    <3> QED
      BY <1>1, <1>3, <1>5, <3>1 DEF Holding
  <2>2. c \in S <=> w = v /\ var[v] # None
    BY <1>2
  <2> HIDE DEF S
  <2>3. Cardinality(Among(depth + 1, call', S))
          = Cardinality(Among(depth, call, S)) + Flag(call'[depth + 1] \in S)
    <3>1. depth \in Nat /\ \A d \in 1..depth : call'[d] = call[d]
      BY <1>1, <1>4
    <3>2. OneMoreIn(depth, call, call', S)
      BY ONLY <3>1, OneMoreCall
    <3> QED
      BY <3>2 DEF OneMoreIn
  <2>4. IsFiniteSet(Among(depth, call, S))
    <3>1. IsFiniteSet(1..depth)
      BY <1>1, FS_Interval
    <3> QED
      BY <3>1, FS_Subset DEF Among
  <2> QED
    BY <1>4, <2>1, <2>2, <2>3, <2>4, FS_CardinalityType DEF Flag
<1> QED
  BY <1>1, <1>3, <1>4, <1>6, <1>7 DEF c

(* and when it ends.                                                       *)
LEMMA CallEnds ==
  ASSUME Inv, depth \in 1..MaxDepth,
         depth' = depth - 1, call' = [call EXCEPT ![depth] = Main]
  PROVE  /\ \A o \in Obj : InFlight(o) = IF Top.obj = o THEN InFlight(o)' + 1 ELSE InFlight(o)'
         /\ \A w \in Var : Holding(w) = IF w = Top.var /\ Top.obj # None THEN Holding(w)' + 1 ELSE Holding(w)'
         /\ \A o \in Obj : InFlight(o)' \in Nat
         /\ \A w \in Var : Holding(w)' \in Nat
         /\ depth - 1 \in Nat
         /\ \A d \in 1..depth - 1 : call'[d] = call[d] /\ d \in 1..depth
<1>1. /\ depth - 1 \in Nat /\ (depth - 1) + 1 = depth /\ MaxDepth \in Nat
      /\ call \in [0..MaxDepth -> Call] /\ 1..depth \subseteq 0..MaxDepth /\ depth \in 1..depth
  BY ClosureAssumption DEF Inv, TypeOK, ClosureAssumption
<1> DEFINE n == depth - 1
<1>2. /\ \A d \in 1..n : call[d] = call'[d]
      /\ \A d \in 1..n : d \in 1..depth
  BY <1>1
<1>3. \A d \in 1..depth : call[d] \in Call
  BY <1>1
<1>4. \A d \in 1..n : call'[d] \in Call
  BY <1>2, <1>3
<1>5. IsFiniteSet(1..n)
  BY <1>1, FS_Interval
<1>6. Top = call[n + 1] /\ n \in Nat /\ n + 1 = depth /\ depth' = n /\ Top \in Call /\ depth \in Nat
  BY <1>1, <1>3 DEF Top
<1> HIDE DEF n
<1>7. ASSUME NEW o \in Obj
      PROVE  /\ InFlight(o) = IF Top.obj = o THEN InFlight(o)' + 1 ELSE InFlight(o)'
             /\ InFlight(o)' \in Nat
  <2> DEFINE S == {x \in Call : x.obj = o}
  <2>1. /\ InFlight(o) = Cardinality(Among(n + 1, call, S))
        /\ InFlight(o)' = Cardinality(Among(n, call', S))
    <3>1. /\ {d \in 1..n + 1 : call[d].obj = o} = Among(n + 1, call, S)
          /\ {d \in 1..n : call'[d].obj = o} = Among(n, call', S)
      BY <1>3, <1>4, <1>6 DEF Among
    <3> QED
      BY <1>3, <1>4, <1>6, <3>1 DEF InFlight
  <2>2. Top \in S <=> Top.obj = o
    BY <1>6
  <2> HIDE DEF S
  <2>3. Cardinality(Among(n + 1, call, S))
          = Cardinality(Among(n, call', S)) + Flag(call[n + 1] \in S)
    <3>1. n \in Nat /\ \A d \in 1..n : call[d] = call'[d]
      BY <1>2, <1>6
    <3>2. OneMoreIn(n, call', call, S)
      BY ONLY <3>1, OneMoreCall
    <3> QED
      BY <3>2 DEF OneMoreIn
  <2>4. IsFiniteSet(Among(n, call', S))
    BY <1>5, FS_Subset DEF Among
  <2>5. Cardinality(Among(n, call', S)) \in Nat
    BY <2>4, FS_CardinalityType
  <2>6. Flag(call[n + 1] \in S) = IF Top.obj = o THEN 1 ELSE 0
    BY <1>6, <2>2 DEF Flag
  <2> QED
    BY <2>1, <2>3, <2>5, <2>6
<1>8. ASSUME NEW w \in Var
      PROVE  /\ Holding(w) = IF w = Top.var /\ Top.obj # None THEN Holding(w)' + 1 ELSE Holding(w)'
             /\ Holding(w)' \in Nat
  <2> DEFINE S == {x \in Call : x.var = w /\ x.obj # None}
  <2>1. /\ Holding(w) = Cardinality(Among(n + 1, call, S))
        /\ Holding(w)' = Cardinality(Among(n, call', S))
    <3>1. /\ {d \in 1..n + 1 : call[d].var = w /\ call[d].obj # None} = Among(n + 1, call, S)
          /\ {d \in 1..n : call'[d].var = w /\ call'[d].obj # None} = Among(n, call', S)
      BY <1>3, <1>4, <1>6 DEF Among
    <3> QED
      BY <1>3, <1>4, <1>6, <3>1 DEF Holding
  <2>2. Top \in S <=> w = Top.var /\ Top.obj # None
    BY <1>6
  <2> HIDE DEF S
  <2>3. Cardinality(Among(n + 1, call, S))
          = Cardinality(Among(n, call', S)) + Flag(call[n + 1] \in S)
    <3>1. n \in Nat /\ \A d \in 1..n : call[d] = call'[d]
      BY <1>2, <1>6
    <3>2. OneMoreIn(n, call', call, S)
      BY ONLY <3>1, OneMoreCall
    <3> QED
      BY <3>2 DEF OneMoreIn
  <2>4. IsFiniteSet(Among(n, call', S))
    BY <1>5, FS_Subset DEF Among
  <2>5. Cardinality(Among(n, call', S)) \in Nat
    BY <2>4, FS_CardinalityType
  <2>6. Flag(call[n + 1] \in S) = IF w = Top.var /\ Top.obj # None THEN 1 ELSE 0
    BY <1>6, <2>2 DEF Flag
  <2> QED
    BY <2>1, <2>3, <2>5, <2>6
<1> QED
  BY <1>1, <1>2, <1>7, <1>8 DEF n

(* Counts one by one.                                                      *)
LEMMA CountOf ==
  ASSUME NEW X, None \notin X, NEW r \in [X -> Nat], NEW o \in X \cup {None}, NEW k \in Nat, NEW p \in X
  PROVE  /\ Inc(r, o, k)[p] = IF p = o THEN r[p] + k ELSE r[p]
         /\ (o = p => r[p] >= k) => Dec(r, o, k)[p] = IF p = o THEN r[p] - k ELSE r[p]
<1>1. r[p] \in Nat
  OBVIOUS
<1>2. CASE o = None
  BY <1>2 DEF Inc, Dec
<1>3. CASE o # None
  <2>1. /\ Inc(r, o, k)[p] = IF p = o THEN r[p] + k ELSE r[p]
        /\ Dec(r, o, k)[p] = IF p = o THEN (IF r[p] > k THEN r[p] - k ELSE 0) ELSE r[p]
    BY <1>3 DEF Inc, Dec
  <2>2. r[p] >= k => (IF r[p] > k THEN r[p] - k ELSE 0) = r[p] - k
    BY <1>1
  <2> QED
    BY <2>1, <2>2
<1> QED
  BY <1>2, <1>3

(* One reference less, where there is one, and one more.                   *)
LEMMA GivenUp ==
  ASSUME NEW r \in [Obj -> Nat], NEW o \in Obj \cup {None}, NEW p \in Obj,
         o = p => r[p] >= 1
  PROVE  Dec(r, o, 1)[p] = IF p = o THEN r[p] - 1 ELSE r[p]
BY CountOf, ClosureAssumption

LEMMA Taken ==
  ASSUME NEW r \in [Obj -> Nat], NEW o \in Obj \cup {None}, NEW p \in Obj
  PROVE  Inc(r, o, 1)[p] = IF p = o THEN r[p] + 1 ELSE r[p]
BY CountOf, ClosureAssumption

(* A native closure that a call was passed stays while its object does.    *)
LEMMA PointersStep ==
  ASSUME Inv, PointersFiled, NEW r \in [Obj -> Nat], SetCounts(r),
         \A d \in 1..depth' : /\ d \in 1..depth
                              /\ call'[d] = call[d]
                              /\ call[d].obj \in Obj => r[call[d].obj] > 0
  PROVE  PointersFiled'
<1> SUFFICES ASSUME NEW d \in 1..depth', call'[d].ptr # None
             PROVE  /\ native'[call'[d].ptr] # None
                    /\ native'[call'[d].ptr].owner = call'[d].obj
                    /\ native'[call'[d].ptr].type = call'[d].type
  BY DEF PointersFiled
<1> DEFINE n == call[d].ptr
<1>1. /\ d \in 1..depth /\ call'[d] = call[d] /\ n # None
      /\ call[d].obj \in Obj => r[call[d].obj] > 0
  OBVIOUS
<1>2. call[d] \in Call
  <2>1. depth \in 0..MaxDepth /\ MaxDepth \in Nat
    BY ClosureAssumption DEF Inv, TypeOK
  <2>2. d \in 0..MaxDepth
    BY <1>1, <2>1
  <2> QED
    BY <2>2 DEF Inv, TypeOK
<1>3. n \in NC
  BY <1>1, <1>2 DEF Call
<1>4. native[n] # None /\ native[n].owner = call[d].obj /\ native[n].type = call[d].type
  BY <1>1 DEF PointersFiled
<1>5. native[n].owner \in Obj
  BY <1>3, <1>4 DEF Inv, TypeOK, Native
<1>6. ~ \E o \in Freed(r), a \in Addr : cbdata[o][a] = n
  BY <1>1, <1>3, <1>4, <1>5 DEF Inv, FiledOnce, Freed
<1>7. native'[n] = native[n]
  BY <1>3, <1>6 DEF SetCounts
<1> QED
  BY <1>1, <1>4, <1>7

(* A flag counts for one or for none.                                      *)
LEMMA FlagValues == Flag(TRUE) = 1 /\ Flag(FALSE) = 0 /\ \A b : Flag(b) \in {0, 1}
BY DEF Flag

(* Perl code that changes variables, none of which is being passed.        *)
LEMMA PerlCounts ==
  ASSUME ~ Reassign, Undisturbed,
         \/ \E v \in Var, o \in Obj : New(v, o)
         \/ \E v \in Var, o \in Obj \cup {None} : Assign(v, o)
         \/ \E v \in Var : LeaveScope(v) \/ Sticky(v) \/ Unstick(v)
  PROVE  CountInv' /\ PointersFiled'
<1>1. UNCHANGED <<depth, call>>
  BY DEF New, Assign, LeaveScope, Sticky, Unstick
<1>2. /\ \A o \in Obj : InFlight(o)' = InFlight(o)
      /\ \A v \in Var : Holding(v)' = Holding(v)
  BY <1>1 DEF InFlight, Holding
<1>3. Inv /\ PointersFiled
  BY DEF Undisturbed
<1>4. /\ \A v \in Var : vrc[v] = Flag(scope[v]) + Holding(v) /\ Holding(v) \in Nat
      /\ \A o \in Obj : /\ rc[o] = References(o) + InFlight(o) + 2 * Flag(sticky[o])
                        /\ References(o) \in Nat /\ InFlight(o) \in Nat
      /\ \A d \in 1..depth : call[d].obj = var[call[d].var]
  BY <1>3, Counted DEF Undisturbed, CountInv
<1>5. /\ \A v \in Var : var[v] \in Obj => References(var[v]) > 0
      /\ \A d \in 1..depth : /\ call[d].obj \in Obj => InFlight(call[d].obj) > 0
                             /\ call[d].obj # None => Holding(call[d].var) > 0
  BY <1>3, Counted
<1>6. /\ scope \in [Var -> BOOLEAN] /\ vrc \in [Var -> Nat] /\ rc \in [Obj -> Nat]
      /\ sticky \in [Obj -> BOOLEAN] /\ var \in [Var -> Obj \cup {None}]
      /\ None \notin Obj /\ None \notin Var
  BY <1>3, ClosureAssumption DEF Inv, TypeOK
<1>7. ASSUME NEW r \in [Obj -> Nat], SetCounts(r),
             \A o \in Obj : r[o] = References(o)' + InFlight(o) + 2 * Flag(sticky'[o]),
             \A o \in Obj : References(o)' \in Nat
      PROVE  /\ \A o \in Obj : rc'[o] = References(o)' + InFlight(o)' + 2 * Flag(sticky'[o])
             /\ PointersFiled'
  <2>1. rc' = r
    BY <1>7 DEF SetCounts
  <2>2. \A o \in Obj : InFlight(o) > 0 => r[o] > 0
    BY <1>4, <1>7, FlagValues
  <2>3. PointersFiled'
    BY <1>1, <1>3, <1>5, <1>7, <2>2, PointersStep
  <2> QED
    BY <1>2, <1>7, <2>1, <2>3
<1>8. ASSUME NEW v \in Var, MayAssign(v), Declare(v),
             NEW y \in Obj \cup {None}, var' = [var EXCEPT ![v] = y]
      PROVE  /\ \A w \in Var : vrc'[w] = Flag(scope'[w]) + Holding(w)'
             /\ \A d \in 1..depth : call'[d].obj = var'[call'[d].var]
  <2>1. /\ scope[v] \/ vrc[v] = 0
        /\ \A d \in 1..depth : call[d].var # v
    BY <1>8 DEF MayAssign, Passed
  <2>2. /\ scope' = [scope EXCEPT ![v] = TRUE]
        /\ vrc' = IF scope[v] THEN vrc ELSE [vrc EXCEPT ![v] = 1]
    BY <1>8 DEF Declare
  <2>3. scope'[v] = TRUE /\ \A w \in Var : w # v => scope'[w] = scope[w] /\ vrc'[w] = vrc[w]
    BY <1>6, <2>2
  <2>4. vrc'[v] = 1 + Holding(v)
    <3>1. CASE scope[v]
      <4>1. Flag(scope[v]) = 1
        BY <3>1 DEF Flag
      <4> QED
        BY <1>4, <2>2, <3>1, <4>1
    <3>2. CASE ~ scope[v]
      <4>1. Flag(scope[v]) = 0 /\ vrc[v] = 0
        BY <2>1, <3>2 DEF Flag
      <4>2. Holding(v) = 0
        BY <1>4, <4>1
      <4> QED
        BY <1>6, <2>2, <3>2, <4>2
    <3> QED
      BY <3>1, <3>2
  <2>5. \A w \in Var : vrc'[w] = Flag(scope'[w]) + Holding(w)'
    BY <1>2, <1>4, <2>3, <2>4, FlagValues
  <2>6. \A d \in 1..depth : call[d].var \in Var
    BY <1>3 DEF Inv, CallsPlaced
  <2> QED
    BY <1>1, <1>4, <1>6, <1>8, <2>1, <2>5, <2>6
<1>9. ASSUME NEW v \in Var, NEW o \in Obj, New(v, o)
      PROVE  CountInv' /\ PointersFiled'
  <2> DEFINE q == Dec(rc, var[v], 1)
             r == Inc(q, o, 1)
  <2>1. /\ MayAssign(v) /\ Declare(v) /\ rc[o] = 0
        /\ var' = [var EXCEPT ![v] = o] /\ SetCounts(r)
        /\ sticky' = [sticky EXCEPT ![o] = FALSE]
    BY <1>9 DEF New
  <2>2. var[v] \in Obj \cup {None} /\ q \in [Obj -> Nat]
    BY <1>6, CountTypes
  <2>3. r \in [Obj -> Nat]
    BY <2>2, CountTypes
  <2>4. References(o) = 0 /\ InFlight(o) = 0 /\ Flag(sticky[o]) = 0 /\ var[v] # o
    BY <1>4, <1>5, <2>1, FlagValues
  <2>5. ASSUME NEW p \in Obj
        PROVE  /\ r[p] = References(p)' + InFlight(p) + 2 * Flag(sticky'[p])
               /\ References(p)' \in Nat
    <3>1. /\ Others(v, p) \in Nat
          /\ References(p) = Others(v, p) + Flag(var[v] = p)
          /\ References(p)' = Others(v, p) + Flag(o = p)
      <4>1. var'[v] = o /\ \A w \in Var : w # v => var'[w] = var[w]
        BY <1>6, <2>1
      <4>2. /\ Others(v, p) \in Nat
            /\ References(p) = Others(v, p) + Flag(var[v] = p)
            /\ References(p)' = Others(v, p) + Flag(var'[v] = p)
        BY <1>3, <4>1, ReferencesChange
      <4> QED
        BY <4>1, <4>2
    <3>2. var[v] = p => rc[p] >= 1
      BY <1>4, <1>5, FlagValues
    <3>3. q[p] = IF p = var[v] THEN rc[p] - 1 ELSE rc[p]
      BY <1>6, <2>2, <3>2, GivenUp
    <3>4. r[p] = IF p = o THEN q[p] + 1 ELSE q[p]
      BY <1>6, <2>2, CountOf
    <3>5. sticky'[p] = IF p = o THEN FALSE ELSE sticky[p]
      BY <1>6, <2>1
    <3>6. /\ rc[p] \in Nat /\ rc[p] = References(p) + InFlight(p) + 2 * Flag(sticky[p])
          /\ References(p) \in Nat /\ InFlight(p) \in Nat
      BY <1>4, <1>6
    <3> HIDE DEF q, r
    <3>7. CASE p = o
      <4>1. Flag(var[v] = p) = 0 /\ Flag(o = p) = 1 /\ Flag(sticky'[p]) = 0
        BY <2>4, <3>5, <3>7 DEF Flag
      <4>2. rc[p] = 0 /\ p # var[v] /\ References(p) = 0 /\ InFlight(p) = 0
        BY <2>1, <2>4, <3>7
      <4>3. r[p] = 1 /\ References(p)' = 1
        BY <3>1, <3>3, <3>4, <3>7, <4>1, <4>2
      <4> QED
        BY <4>1, <4>2, <4>3
    <3>8. CASE p # o
      <4>1. Flag(o = p) = 0 /\ sticky'[p] = sticky[p] /\ Flag(sticky[p]) \in {0, 1}
        BY <3>5, <3>8, FlagValues DEF Flag
      <4>2. CASE p = var[v]
        <5>1. Flag(var[v] = p) = 1
          BY <4>2 DEF Flag
        <5> QED
          BY <3>1, <3>3, <3>4, <3>6, <3>8, <4>1, <4>2, <5>1
      <4>3. CASE p # var[v]
        <5>1. Flag(var[v] = p) = 0
          BY <4>3 DEF Flag
        <5> QED
          BY <3>1, <3>3, <3>4, <3>6, <3>8, <4>1, <4>3, <5>1
      <4> QED
        BY <4>2, <4>3
    <3> QED
      BY <3>7, <3>8
  <2> HIDE DEF q, r
  <2> QED
    BY <1>1, <1>7, <1>8, <2>1, <2>3, <2>5 DEF CountInv
<1>10. ASSUME NEW v \in Var, NEW o \in Obj \cup {None}, Assign(v, o)
       PROVE  CountInv' /\ PointersFiled'
  <2> DEFINE q == Inc(rc, o, 1)
             r == Dec(q, var[v], 1)
  <2>1. /\ MayAssign(v) /\ Declare(v)
        /\ var' = [var EXCEPT ![v] = o] /\ SetCounts(r) /\ sticky' = sticky
    BY <1>10 DEF Assign
  <2>2. var[v] \in Obj \cup {None} /\ q \in [Obj -> Nat]
    BY <1>6, CountTypes
  <2>3. r \in [Obj -> Nat]
    BY <2>2, CountTypes
  <2>4. ASSUME NEW p \in Obj
        PROVE  /\ r[p] = References(p)' + InFlight(p) + 2 * Flag(sticky'[p])
               /\ References(p)' \in Nat
    <3>1. /\ Others(v, p) \in Nat
          /\ References(p) = Others(v, p) + Flag(var[v] = p)
          /\ References(p)' = Others(v, p) + Flag(o = p)
      <4>1. var'[v] = o /\ \A w \in Var : w # v => var'[w] = var[w]
        BY <1>6, <2>1
      <4>2. /\ Others(v, p) \in Nat
            /\ References(p) = Others(v, p) + Flag(var[v] = p)
            /\ References(p)' = Others(v, p) + Flag(var'[v] = p)
        BY <1>3, <4>1, ReferencesChange
      <4> QED
        BY <4>1, <4>2
    <3>2. /\ rc[p] \in Nat /\ rc[p] = References(p) + InFlight(p) + 2 * Flag(sticky[p])
          /\ References(p) \in Nat /\ InFlight(p) \in Nat /\ Flag(sticky[p]) \in {0, 1}
      BY <1>4, <1>6, FlagValues
    <3>3. q[p] = IF p = o THEN rc[p] + 1 ELSE rc[p]
      BY SMTT(30), <1>6, CountOf
    <3>4. var[v] = p => q[p] >= 1
      <4>1. var[v] = p => References(p) > 0
        BY <1>5
      <4>2. var[v] = p => rc[p] >= 1
        BY <3>2, <4>1
      <4> HIDE DEF q, r
      <4> QED
        BY <3>2, <3>3, <4>2
    <3>5. r[p] = IF p = var[v] THEN q[p] - 1 ELSE q[p]
      BY <2>2, <3>4, GivenUp
    <3>6. /\ Flag(o = p) = IF p = o THEN 1 ELSE 0
          /\ Flag(var[v] = p) = IF p = var[v] THEN 1 ELSE 0
      BY DEF Flag
    <3> HIDE DEF q, r
    <3> QED
      BY <2>1, <3>1, <3>2, <3>3, <3>5, <3>6
  <2> HIDE DEF q, r
  <2> QED
    BY <1>1, <1>7, <1>8, <2>1, <2>3, <2>4 DEF CountInv
<1>11. ASSUME NEW v \in Var, Sticky(v) \/ Unstick(v)
       PROVE  CountInv' /\ PointersFiled'
  <2> DEFINE o == var[v]
  <2>1. UNCHANGED <<scope, vrc, var>> /\ o # None
    BY <1>11 DEF Sticky, Unstick
  <2>2. o \in Obj /\ References(o) > 0
    BY <1>5, <1>6, <2>1
  <2>3. \A p \in Obj : References(p)' = References(p)
    BY <2>1 DEF References
  <2>4. PICK r \in [Obj -> Nat] :
           SetCounts(r) /\ \A p \in Obj : r[p] = References(p) + InFlight(p) + 2 * Flag(sticky'[p])
    <3>1. CASE Sticky(v)
      <4>1. /\ ~ sticky[o] /\ sticky' = [sticky EXCEPT ![o] = TRUE]
            /\ SetCounts(Inc(rc, o, 2))
        BY <3>1 DEF Sticky
      <4>2. Inc(rc, o, 2) \in [Obj -> Nat]
        BY <1>6, <2>2, CountTypes
      <4>3. ASSUME NEW p \in Obj
            PROVE  Inc(rc, o, 2)[p] = References(p) + InFlight(p) + 2 * Flag(sticky'[p])
        <5>1. Inc(rc, o, 2)[p] = IF p = o THEN rc[p] + 2 ELSE rc[p]
          BY <1>6, <2>2, CountOf
        <5>2. /\ p = o => Flag(sticky[p]) = 0 /\ Flag(sticky'[p]) = 1
              /\ p # o => Flag(sticky'[p]) = Flag(sticky[p])
              /\ Flag(sticky[p]) \in {0, 1}
          BY <1>6, <2>2, <4>1 DEF Flag
        <5>3. /\ rc[p] = References(p) + InFlight(p) + 2 * Flag(sticky[p])
              /\ References(p) \in Nat /\ InFlight(p) \in Nat
          BY <1>4
        <5> QED
          BY <5>1, <5>2, <5>3
      <4> QED
        BY <4>1, <4>2, <4>3
    <3>2. CASE Unstick(v)
      <4>1. /\ sticky[o] /\ sticky' = [sticky EXCEPT ![o] = FALSE]
            /\ SetCounts(Dec(rc, o, 2))
        BY <3>2 DEF Unstick
      <4>2. Dec(rc, o, 2) \in [Obj -> Nat]
        BY <1>6, <2>2, CountTypes
      <4>3. ASSUME NEW p \in Obj
            PROVE  Dec(rc, o, 2)[p] = References(p) + InFlight(p) + 2 * Flag(sticky'[p])
        <5>1. /\ p = o => Flag(sticky[p]) = 1 /\ Flag(sticky'[p]) = 0
              /\ p # o => Flag(sticky'[p]) = Flag(sticky[p])
              /\ Flag(sticky[p]) \in {0, 1}
          BY <1>6, <2>2, <4>1 DEF Flag
        <5>2. /\ rc[p] = References(p) + InFlight(p) + 2 * Flag(sticky[p])
              /\ References(p) \in Nat /\ InFlight(p) \in Nat /\ rc[p] \in Nat
          BY <1>4, <1>6
        <5>3. o = p => rc[p] >= 2
          BY <5>1, <5>2
        <5>4. Dec(rc, o, 2)[p] = IF p = o THEN rc[p] - 2 ELSE rc[p]
          BY <1>6, <2>2, <5>3, CountOf
        <5> QED
          BY <5>1, <5>2, <5>4
      <4> QED
        BY <4>1, <4>2, <4>3
    <3> QED
      BY <1>11, <3>1, <3>2
  <2>5. /\ \A p \in Obj : rc'[p] = References(p)' + InFlight(p)' + 2 * Flag(sticky'[p])
        /\ PointersFiled'
    <3>1. /\ \A p \in Obj : r[p] = References(p)' + InFlight(p) + 2 * Flag(sticky'[p])
          /\ \A p \in Obj : References(p)' \in Nat
      BY <1>4, <2>3, <2>4
    <3> QED
      BY <1>7, <2>4, <3>1
  <2>6. /\ \A w \in Var : vrc'[w] = Flag(scope'[w]) + Holding(w)'
        /\ \A d \in 1..depth : call'[d].obj = var'[call'[d].var]
    BY <1>1, <1>2, <1>4, <2>1
  <2> QED
    BY <1>1, <2>5, <2>6 DEF CountInv
<1>12. ASSUME NEW v \in Var, LeaveScope(v)
       PROVE  CountInv' /\ PointersFiled'
  <2>1. /\ scope[v] /\ scope' = [scope EXCEPT ![v] = FALSE] /\ DropVar(v, rc) /\ sticky' = sticky
        /\ \A d \in 1..depth : call[d].var = v => call[d].obj # None
    BY <1>12 DEF LeaveScope
  <2>2. vrc[v] = 1 + Holding(v) /\ Holding(v) \in Nat
    <3>1. Flag(scope[v]) = 1
      BY <2>1 DEF Flag
    <3> QED
      BY <1>4, <3>1
  <2>3. \A w \in Var : vrc'[w] = Flag(scope'[w]) + Holding(w)'
    <3>1. vrc' = Dec(vrc, v, 1) /\ vrc[v] >= 1
      BY <2>1, <2>2 DEF DropVar
    <3>2. \A w \in Var : vrc'[w] = IF w = v THEN vrc[w] - 1 ELSE vrc[w]
      BY <1>6, <3>1, CountOf
    <3>3. \A w \in Var : scope'[w] = IF w = v THEN FALSE ELSE scope[w]
      BY <1>6, <2>1
    <3>4. Flag(FALSE) = 0
      BY DEF Flag
    <3>5. ASSUME NEW w \in Var PROVE vrc'[w] = Flag(scope'[w]) + Holding(w)'
      <4>1. CASE w = v
        <5>1. vrc'[w] = vrc[v] - 1 /\ Flag(scope'[w]) = 0 /\ Holding(w)' = Holding(v)
          BY <1>2, <3>2, <3>3, <3>4, <4>1
        <5> QED
          BY <2>2, <5>1
      <4>2. CASE w # v
        BY <1>2, <1>4, <3>2, <3>3, <4>2
      <4> QED
        BY <4>1, <4>2
    <3> QED
      BY <3>5
  <2>4. CASE vrc[v] > 1
    <3>1. var' = var /\ SetCounts(rc)
      BY <2>1, <2>4 DEF DropVar
    <3>2. \A p \in Obj : References(p)' = References(p)
      BY <3>1 DEF References
    <3>3. /\ \A p \in Obj : rc[p] = References(p)' + InFlight(p) + 2 * Flag(sticky'[p])
          /\ \A p \in Obj : References(p)' \in Nat
      BY <1>4, <2>1, <3>2
    <3>4. /\ \A p \in Obj : rc'[p] = References(p)' + InFlight(p)' + 2 * Flag(sticky'[p])
          /\ PointersFiled'
      BY <1>6, <1>7, <3>1, <3>3
    <3>5. \A d \in 1..depth : call'[d].obj = var'[call'[d].var]
      BY <1>1, <1>4, <3>1
    <3> QED
      BY <1>1, <2>3, <3>4, <3>5 DEF CountInv
  <2>5. CASE ~ (vrc[v] > 1)
    <3> DEFINE r == Dec(rc, var[v], 1)
    <3>1. var' = [var EXCEPT ![v] = None] /\ SetCounts(r)
      BY <2>1, <2>5 DEF DropVar
    <3>2. var[v] \in Obj \cup {None} /\ r \in [Obj -> Nat]
      BY <1>6, CountTypes
    <3>3. ASSUME NEW p \in Obj
          PROVE  /\ r[p] = References(p)' + InFlight(p) + 2 * Flag(sticky'[p])
                 /\ References(p)' \in Nat
      <4>1. /\ Others(v, p) \in Nat
            /\ References(p) = Others(v, p) + Flag(var[v] = p)
            /\ References(p)' = Others(v, p) + Flag(None = p)
        <5>1. var'[v] = None /\ \A w \in Var : w # v => var'[w] = var[w]
          BY <1>6, <3>1
        <5>2. /\ Others(v, p) \in Nat
              /\ References(p) = Others(v, p) + Flag(var[v] = p)
              /\ References(p)' = Others(v, p) + Flag(var'[v] = p)
          BY <1>3, <5>1, ReferencesChange
        <5> QED
          BY <5>1, <5>2
      <4>2. /\ rc[p] \in Nat /\ rc[p] = References(p) + InFlight(p) + 2 * Flag(sticky[p])
            /\ References(p) \in Nat /\ InFlight(p) \in Nat /\ Flag(sticky[p]) \in {0, 1}
        <5>1. Flag(sticky[p]) \in {0, 1}
          BY FlagValues
        <5>2. rc[p] \in Nat
          BY <1>6
        <5> QED
          BY ONLY <1>4, <5>1, <5>2, p \in Obj
      <4>3. var[v] = p => rc[p] >= 1
        BY <1>5, <4>2
      <4>4. r[p] = IF p = var[v] THEN rc[p] - 1 ELSE rc[p]
        BY <1>6, <3>2, <4>3, GivenUp
      <4>5. /\ Flag(None = p) = 0
            /\ Flag(var[v] = p) = IF p = var[v] THEN 1 ELSE 0
        BY <1>6 DEF Flag
      <4> HIDE DEF r
      <4> QED
        BY <2>1, <4>1, <4>2, <4>4, <4>5
    <3> HIDE DEF r
    <3>4. /\ \A p \in Obj : rc'[p] = References(p)' + InFlight(p)' + 2 * Flag(sticky'[p])
          /\ PointersFiled'
      BY <1>7, <3>1, <3>2, <3>3
    <3>5. \A d \in 1..depth : call[d].var # v /\ call[d].var \in Var
      <4>1. Holding(v) = 0
        BY <2>2, <2>5, <1>6
      <4> QED
        BY <1>3, <1>5, <2>1, <4>1 DEF Inv, CallsPlaced
    <3>6. \A d \in 1..depth : call'[d].obj = var'[call'[d].var]
      BY <1>1, <1>4, <1>6, <3>1, <3>5
    <3> QED
      BY <1>1, <2>3, <3>4, <3>6 DEF CountInv
  <2> QED
    BY <2>4, <2>5
<1> QED
  BY <1>9, <1>10, <1>11, <1>12

(* A call that begins takes its two references.                            *)
LEMMA PassCounts ==
  ASSUME Undisturbed, NEW v \in Var, NEW a \in Addr,
         \/ PassUndef(v, a) \/ PassCached(v, a) \/ PassFailed(v, a)
         \/ \E n \in NC : PassNew(v, a, n)
  PROVE  CountInv' /\ PointersFiled'
<1>1. Inv /\ PointersFiled
  BY DEF Undisturbed
<1>2. PICK p \in NC \cup {None} :
        /\ CanPass(v, a) /\ Push(v, a, p)
        /\ UNCHANGED <<scope, var, sticky>>
        /\ \/ var[v] = None /\ UNCHANGED <<vrc, rc>>
           \/ var[v] # None /\ TakeReferences(v)
        /\ p # None => native'[p] # None /\ native'[p].owner = var[v] /\ native'[p].type = a
        /\ \A n \in NC : native[n] # None => native'[n] = native[n]
  <2>1. CASE PassUndef(v, a) \/ PassFailed(v, a)
    BY <2>1 DEF PassUndef, PassFailed
  <2>2. CASE PassCached(v, a)
    <3>1. /\ CanPass(v, a) /\ var[v] # None /\ cbdata[var[v]][a] # None
          /\ Push(v, a, cbdata[var[v]][a]) /\ TakeReferences(v)
          /\ UNCHANGED <<scope, var, sticky, native>>
      BY <2>2 DEF PassCached
    <3>2. var[v] \in Obj /\ cbdata[var[v]][a] \in NC
      BY <1>1, <3>1 DEF Inv, TypeOK
    <3>3. /\ native[cbdata[var[v]][a]] # None
          /\ native[cbdata[var[v]][a]].owner = var[v] /\ native[cbdata[var[v]][a]].type = a
      BY <1>1, <3>1, <3>2 DEF Inv, FiledOnce
    <3> QED
      BY <3>1, <3>2, <3>3
  <2>3. ASSUME NEW n \in NC, PassNew(v, a, n)
        PROVE  \E p \in NC \cup {None} :
                 /\ CanPass(v, a) /\ Push(v, a, p)
                 /\ UNCHANGED <<scope, var, sticky>>
                 /\ \/ var[v] = None /\ UNCHANGED <<vrc, rc>>
                    \/ var[v] # None /\ TakeReferences(v)
                 /\ p # None => native'[p] # None /\ native'[p].owner = var[v] /\ native'[p].type = a
                 /\ \A m \in NC : native[m] # None => native'[m] = native[m]
    <3> DEFINE new == [owner |-> var[v], type |-> a, sig |-> type[a]]
    <3>1. /\ CanPass(v, a) /\ var[v] # None /\ native[n] = None
          /\ native' = [native EXCEPT ![n] = new]
          /\ Push(v, a, n) /\ TakeReferences(v)
          /\ UNCHANGED <<scope, var, sticky>>
      BY <2>3 DEF PassNew
    <3>2. var[v] \in Obj /\ type[a] \in Sig
      BY <1>1, <3>1 DEF CanPass, Inv, TypesHeld, TypeOK
    <3>3. new \in Native /\ new.owner = var[v] /\ new.type = a
      BY <3>2 DEF Native
    <3> HIDE DEF new
    <3>4. new # None
      BY <3>3, NativeAssumption
    <3>5. native'[n] = new /\ \A m \in NC : m # n => native'[m] = native[m]
      BY <1>1, <3>1 DEF Inv, TypeOK
    <3> QED
      BY <3>1, <3>3, <3>4, <3>5
  <2> QED
    BY <2>1, <2>2, <2>3
<1>3. /\ \A o \in Obj : InFlight(o)' = IF var[v] = o THEN InFlight(o) + 1 ELSE InFlight(o)
      /\ \A w \in Var : Holding(w)' = IF w = v /\ var[v] # None THEN Holding(w) + 1 ELSE Holding(w)
      /\ depth' = depth + 1 /\ depth \in Nat
      /\ \A d \in 1..depth : call'[d] = call[d]
      /\ call'[depth + 1] = [var |-> v, obj |-> var[v], type |-> a, ptr |-> p, pc |-> "native"]
  BY <1>1, <1>2, CallBegins
<1>4. /\ \A w \in Var : vrc[w] = Flag(scope[w]) + Holding(w) /\ Holding(w) \in Nat
      /\ \A o \in Obj : /\ rc[o] = References(o) + InFlight(o) + 2 * Flag(sticky[o])
                        /\ References(o) \in Nat /\ InFlight(o) \in Nat
      /\ \A d \in 1..depth : call[d].obj = var[call[d].var]
  BY <1>1, Counted DEF Undisturbed, CountInv
<1>5. /\ vrc \in [Var -> Nat] /\ rc \in [Obj -> Nat] /\ var[v] \in Obj \cup {None}
      /\ None \notin Obj /\ None \notin Var
  BY <1>1, ClosureAssumption DEF Inv, TypeOK
<1>6. \A o \in Obj : References(o)' = References(o)
  BY <1>2 DEF References
<1>7. ASSUME NEW w \in Var
      PROVE  vrc'[w] = Flag(scope'[w]) + Holding(w)'
  <2>1. vrc'[w] = IF w = v /\ var[v] # None THEN vrc[w] + 1 ELSE vrc[w]
    <3>1. CASE var[v] = None
      BY <1>2, <1>5, <3>1
    <3>2. CASE var[v] # None
      <4>1. vrc' = Inc(vrc, v, 1)
        BY <1>2, <3>2 DEF TakeReferences
      <4>2. vrc'[w] = IF w = v THEN vrc[w] + 1 ELSE vrc[w]
        BY <1>5, <4>1, CountOf
      <4> QED
        BY <1>5, <3>2, <4>2
    <3> QED
      BY <3>1, <3>2
  <2>2. Flag(scope'[w]) = Flag(scope[w])
    BY <1>2
  <2> QED
    BY <1>3, <1>4, <2>1, <2>2, FlagValues
<1>8. ASSUME NEW o \in Obj
      PROVE  rc'[o] = References(o)' + InFlight(o)' + 2 * Flag(sticky'[o])
  <2>1. rc'[o] = IF var[v] = o THEN rc[o] + 1 ELSE rc[o]
    <3>1. CASE var[v] = None
      BY <1>2, <1>5, <3>1
    <3>2. CASE var[v] # None
      <4>1. rc' = Inc(rc, var[v], 1)
        BY <1>2, <3>2 DEF TakeReferences
      <4>2. rc'[o] = IF o = var[v] THEN rc[o] + 1 ELSE rc[o]
        BY <1>5, <4>1, Taken
      <4> QED
        BY <4>2
    <3> QED
      BY <3>1, <3>2
  <2>2. Flag(sticky'[o]) = Flag(sticky[o]) /\ References(o)' = References(o)
    BY <1>2, <1>6
  <2> QED
    BY <1>3, <1>4, <2>1, <2>2, FlagValues
<1>9. \A d \in 1..depth + 1 : d \in 1..depth \/ d = depth + 1
  BY <1>3
<1>10. \A d \in 1..depth' : call'[d].obj = var'[call'[d].var]
  BY <1>2, <1>3, <1>4, <1>9
<1>11. PointersFiled'
  <2>1. ASSUME NEW d \in 1..depth + 1, call'[d].ptr # None
        PROVE  /\ native'[call'[d].ptr] # None
               /\ native'[call'[d].ptr].owner = call'[d].obj
               /\ native'[call'[d].ptr].type = call'[d].type
    <3>1. CASE d = depth + 1
      BY <1>2, <1>3, <2>1, <3>1
    <3>2. CASE d \in 1..depth
      <4>1. call'[d] = call[d]
        BY <1>3, <3>2
      <4>2. call[d].ptr \in NC
        <5>1. d \in 0..MaxDepth
          BY <1>1, <3>2, ClosureAssumption DEF Inv, TypeOK
        <5> QED
          BY <1>1, <2>1, <4>1, <5>1 DEF Inv, TypeOK, Call
      <4> QED
        BY <1>1, <1>2, <2>1, <3>2, <4>1, <4>2 DEF PointersFiled
    <3> QED
      BY <1>9, <3>1, <3>2
  <2> QED
    BY <1>3, <2>1 DEF PointersFiled
<1> QED
  BY <1>7, <1>8, <1>10, <1>11 DEF CountInv

(* A call that ends gives up the two that it took: the variable still      *)
(* refers to the same object.                                              *)
LEMMA ReturnCounts ==
  ASSUME Undisturbed, Return
  PROVE  CountInv' /\ PointersFiled'
<1>1. Inv /\ PointersFiled
  BY DEF Undisturbed
<1>2. depth \in 1..MaxDepth /\ depth \in 1..depth /\ MaxDepth \in Nat
  BY <1>1, ClosureAssumption DEF Return, Top, Main, Inv, TypeOK, CallsPlaced
<1>3. PICK v \in Var : v = Top.var
  BY <1>1, <1>2 DEF Inv, CallsPlaced, Top
<1>4. PICK o : o = var[v]
  OBVIOUS
<1>5. /\ depth' = depth - 1 /\ call' = [call EXCEPT ![depth] = Main]
      /\ UNCHANGED <<scope, sticky>>
  BY DEF Return
<1>6. /\ \A x \in Obj : InFlight(x) = IF Top.obj = x THEN InFlight(x)' + 1 ELSE InFlight(x)'
      /\ \A w \in Var : Holding(w) = IF w = v /\ Top.obj # None THEN Holding(w)' + 1 ELSE Holding(w)'
      /\ \A x \in Obj : InFlight(x)' \in Nat
      /\ \A w \in Var : Holding(w)' \in Nat
      /\ depth - 1 \in Nat
      /\ \A d \in 1..depth - 1 : call'[d] = call[d] /\ d \in 1..depth
  BY <1>1, <1>2, <1>5, <1>3, CallEnds
<1>7. /\ \A w \in Var : vrc[w] = Flag(scope[w]) + Holding(w) /\ Holding(w) \in Nat
      /\ \A x \in Obj : /\ rc[x] = References(x) + InFlight(x) + 2 * Flag(sticky[x])
                        /\ References(x) \in Nat /\ InFlight(x) \in Nat
      /\ \A d \in 1..depth : call[d].obj = var[call[d].var] /\ call[d].var \in Var
  BY <1>1, Counted DEF Undisturbed, CountInv, Inv, CallsPlaced
<1>8. Top.obj = o /\ v \in Var
  BY <1>2, <1>7, <1>3, <1>4 DEF Top
<1>9. /\ vrc \in [Var -> Nat] /\ rc \in [Obj -> Nat] /\ var \in [Var -> Obj \cup {None}]
      /\ None \notin Obj /\ None \notin Var /\ o \in Obj \cup {None}
  BY <1>1, <1>8, <1>4, ClosureAssumption DEF Inv, TypeOK
<1>10. CASE o = None
  <2>1. UNCHANGED <<vrc, var, rc, cbdata, native>>
    BY <1>10, <1>3, <1>4 DEF Return
  <2>2. /\ \A x \in Obj : InFlight(x)' = InFlight(x)
        /\ \A w \in Var : Holding(w)' = Holding(w)
        /\ \A x \in Obj : References(x)' = References(x)
    <3>1. \A x \in Obj : InFlight(x)' = InFlight(x)
      BY <1>6, <1>8, <1>9, <1>10
    <3>2. \A w \in Var : Holding(w)' = Holding(w)
      BY <1>6, <1>8, <1>10
    <3>3. \A x \in Obj : References(x)' = References(x)
      BY <2>1 DEF References
    <3> QED
      BY <3>1, <3>2, <3>3
  <2>3. \A w \in Var : vrc'[w] = Flag(scope'[w]) + Holding(w)'
    BY <1>5, <1>7, <2>1, <2>2
  <2>4. \A x \in Obj : rc'[x] = References(x)' + InFlight(x)' + 2 * Flag(sticky'[x])
    BY <1>5, <1>7, <2>1, <2>2
  <2>5. \A d \in 1..depth' : call'[d].obj = var'[call'[d].var]
    BY <1>5, <1>6, <1>7, <2>1
  <2>6. PointersFiled'
    BY <1>1, <1>5, <1>6, <2>1 DEF PointersFiled
  <2> QED
    BY <2>3, <2>4, <2>5, <2>6 DEF CountInv
<1>11. CASE o # None
  <2> DEFINE q == Dec(rc, o, 1)
             r == IF vrc[v] > 1 THEN q ELSE Dec(q, o, 1)
  <2>1. DropVar(v, q)
    BY <1>11, <1>3, <1>4 DEF Return
  <2>2. /\ vrc' = Dec(vrc, v, 1) /\ SetCounts(r)
        /\ var' = IF vrc[v] > 1 THEN var ELSE [var EXCEPT ![v] = None]
    BY <1>4, <2>1 DEF DropVar
  <2>3. o \in Obj /\ q \in [Obj -> Nat]
    BY <1>9, <1>11, CountTypes
  <2>4. r \in [Obj -> Nat]
    BY <2>3, CountTypes
  <2>5. /\ \A w \in Var : Holding(w) = IF w = v THEN Holding(w)' + 1 ELSE Holding(w)'
        /\ \A x \in Obj : InFlight(x) = IF x = o THEN InFlight(x)' + 1 ELSE InFlight(x)'
    BY <1>6, <1>8, <1>11
  <2>6. ASSUME NEW w \in Var
        PROVE  vrc'[w] = Flag(scope'[w]) + Holding(w)'
    <3>1. vrc[v] >= 1
      <4>1. /\ vrc[v] = Flag(scope[v]) + Holding(v) /\ Flag(scope[v]) \in {0, 1}
            /\ Holding(v) = Holding(v)' + 1 /\ Holding(v)' \in Nat
        BY <1>6, <1>7, <1>8, <2>5, FlagValues
      <4> QED
        BY <4>1
    <3>2. vrc'[w] = IF w = v THEN vrc[w] - 1 ELSE vrc[w]
      BY <1>8, <1>9, <2>2, <3>1, CountOf
    <3>3. vrc[w] = Flag(scope'[w]) + Holding(w) /\ Flag(scope'[w]) \in {0, 1}
      BY <1>5, <1>7, FlagValues
    <3>4. Holding(w) = (IF w = v THEN Holding(w)' + 1 ELSE Holding(w)') /\ Holding(w)' \in Nat
      BY <1>6, <2>5
    <3> QED
      BY <3>2, <3>3, <3>4
  <2>7. ASSUME NEW x \in Obj
        PROVE  /\ r[x] = References(x)' + InFlight(x)' + 2 * Flag(sticky'[x])
               /\ References(x)' \in Nat
    <3>1. /\ rc[x] = References(x) + InFlight(x) + 2 * Flag(sticky'[x])
          /\ References(x) \in Nat /\ InFlight(x) \in Nat /\ InFlight(x)' \in Nat
          /\ Flag(sticky'[x]) \in {0, 1} /\ rc[x] \in Nat
          /\ InFlight(x) = IF x = o THEN InFlight(x)' + 1 ELSE InFlight(x)'
      BY <1>5, <1>6, <1>7, <1>9, <2>5, FlagValues
    <3>2. o = x => References(x) >= 1 /\ InFlight(x) >= 1
      <4>1. References(o) > 0 /\ InFlight(o) > 0
        BY <1>1, <1>2, <1>8, <1>4, <2>3, Counted DEF Top
      <4> QED
        BY <3>1, <4>1
    <3>3. q[x] = IF x = o THEN rc[x] - 1 ELSE rc[x]
      <4>1. o = x => rc[x] >= 1
        BY <3>1, <3>2
      <4> QED
        BY <1>9, <4>1, GivenUp
    <3>4. CASE vrc[v] > 1
      <4>1. r[x] = q[x] /\ var' = var
        BY <2>2, <3>4
      <4>2. References(x)' = References(x)
        BY <4>1 DEF References
      <4> HIDE DEF q, r
      <4> QED
        BY <3>1, <3>3, <4>1, <4>2
    <3>5. CASE ~ (vrc[v] > 1)
      <4>1. r = Dec(q, o, 1) /\ var' = [var EXCEPT ![v] = None]
        BY <2>2, <3>5
      <4> HIDE DEF q, r
      <4>2. o = x => q[x] >= 1
        BY <3>1, <3>2, <3>3
      <4>3. r[x] = IF x = o THEN q[x] - 1 ELSE q[x]
        BY <2>3, <4>1, <4>2, GivenUp
      <4>4. var'[v] = None /\ \A w \in Var : w # v => var'[w] = var[w]
        BY <1>8, <1>9, <4>1
      <4>5. /\ Others(v, x) \in Nat
            /\ References(x) = Others(v, x) + Flag(var[v] = x)
            /\ References(x)' = Others(v, x) + Flag(var'[v] = x)
        BY <1>1, <1>8, <4>4, ReferencesChange
      <4>6. Flag(var'[v] = x) = 0 /\ Flag(var[v] = x) = IF x = o THEN 1 ELSE 0
        BY <1>9, <1>4, <4>4 DEF Flag
      <4> QED
        BY <3>1, <3>3, <4>3, <4>5, <4>6
    <3> QED
      BY <3>4, <3>5
  <2> HIDE DEF q, r
  <2>8. \A x \in Obj : rc'[x] = References(x)' + InFlight(x)' + 2 * Flag(sticky'[x])
    BY <2>2, <2>7 DEF SetCounts
  <2>9. \A d \in 1..depth' : call'[d].obj = var'[call'[d].var]
    <3> SUFFICES ASSUME NEW d \in 1..depth - 1
                 PROVE  call'[d].obj = var'[call'[d].var]
      BY <1>5
    <3>1. call'[d] = call[d] /\ call[d].obj = var[call[d].var] /\ call[d].var \in Var
      BY <1>6, <1>7
    <3>2. CASE vrc[v] > 1
      BY <2>2, <3>1, <3>2
    <3>3. CASE ~ (vrc[v] > 1)
      <4>1. Holding(v)' = 0
        <5>1. /\ vrc[v] = Flag(scope[v]) + Holding(v) /\ Flag(scope[v]) \in {0, 1}
              /\ Holding(v) = Holding(v)' + 1 /\ Holding(v)' \in Nat
          BY <1>6, <1>7, <1>8, <2>5, FlagValues
        <5> QED
          BY <3>3, <5>1
      <4>2. ~ (call'[d].var = v /\ call'[d].obj # None)
        <5> DEFINE A == {e \in 1..depth' : call'[e].var = v /\ call'[e].obj # None}
        <5>1. IsFiniteSet(1..depth')
          BY <1>5, <1>6, FS_Interval
        <5>2. IsFiniteSet(A)
          BY <5>1, FS_Subset
        <5>3. Holding(v)' = Cardinality(A)
          BY DEF Holding
        <5>4. Cardinality(A) = 0
          BY <4>1, <5>3
        <5>5. A = {}
          BY <5>2, <5>4, FS_EmptySet
        <5> QED
          BY <1>5, <5>5
      <4>3. call[d].var # v
        BY <1>11, <1>4, <3>1, <4>2
      <4> QED
        BY <1>9, <2>2, <3>1, <3>3, <4>3
    <3> QED
      BY <3>2, <3>3
  <2>10. PointersFiled'
    <3>1. ASSUME NEW d \in 1..depth', NEW y \in Obj, y = call[d].obj
          PROVE  r[y] > 0
      <4>1. d \in 1..depth' /\ call'[d] = call[d]
        BY <1>5, <1>6
      <4>2. InFlight(y)' > 0
        <5>1. IsFiniteSet(1..depth')
          BY <1>5, <1>6, FS_Interval
        <5> DEFINE A == {e \in 1..depth' : call'[e].obj = y}
        <5>2. IsFiniteSet(A) /\ A # {}
          <6>1. IsFiniteSet(A)
            BY <5>1, FS_Subset
          <6>2. d \in A
            BY <3>1, <4>1
          <6> QED
            BY <6>1, <6>2
        <5>3. InFlight(y)' = Cardinality(A)
          BY DEF InFlight
        <5> HIDE DEF A
        <5>4. Cardinality(A) # 0 /\ Cardinality(A) \in Nat
          BY <5>2, FS_EmptySet, FS_CardinalityType
        <5> QED
          BY <5>3, <5>4
      <4>3. /\ r[y] = References(y)' + InFlight(y)' + 2 * Flag(sticky'[y])
            /\ References(y)' \in Nat
        BY <2>7
      <4>4. InFlight(y)' \in Nat /\ Flag(sticky'[y]) \in {0, 1}
        BY <1>6, FlagValues
      <4> QED
        BY <4>2, <4>3, <4>4
    <3> QED
      BY <1>1, <1>5, <1>6, <2>2, <2>4, <3>1, PointersStep
  <2> QED
    BY <2>6, <2>8, <2>9, <2>10 DEF CountInv
<1> QED
  BY <1>10, <1>11

(* What Perl code does with instances and functions, and what native code  *)
(* and closures do when they call each other, counts nothing.              *)
LEMMA OtherCounts ==
  ASSUME Undisturbed,
         \/ \E a \in Addr, s \in Sig : NewType(a, s)
         \/ \E a \in Addr : Function(a) \/ Attach(a) \/ \E h \in Holder : Release(a, h)
         \/ Callback \/ CallbackReturn
  PROVE  CountInv' /\ PointersFiled'
<1>1. Inv /\ CountInv /\ PointersFiled
  BY DEF Undisturbed
<1>2. UNCHANGED <<scope, vrc, var, rc, sticky, native, depth>>
  BY DEF NewType, Function, Attach, Release, Callback, CallbackReturn
<1>3. \A d \in 1..depth : /\ call'[d].var = call[d].var /\ call'[d].obj = call[d].obj
                          /\ call'[d].ptr = call[d].ptr /\ call'[d].type = call[d].type
  <2>1. CASE call' = call
    BY <2>1
  <2>2. CASE \E p \in {"native", "callback"} : call' = [call EXCEPT ![depth].pc = p]
    <3>1. depth \in 0..MaxDepth /\ MaxDepth \in Nat /\ call \in [0..MaxDepth -> Call]
      BY <1>1, ClosureAssumption DEF Inv, TypeOK
    <3>2. \A d \in 1..depth : d \in 0..MaxDepth
      BY <3>1
    <3> QED
      BY <2>2, <3>1, <3>2 DEF Call
  <2> QED
    BY <2>1, <2>2 DEF NewType, Function, Attach, Release, Callback, CallbackReturn
<1>4. /\ \A o \in Obj : InFlight(o)' = InFlight(o) /\ References(o)' = References(o)
      /\ \A v \in Var : Holding(v)' = Holding(v)
  <2>1. ASSUME NEW o \in Obj
        PROVE  InFlight(o)' = InFlight(o) /\ References(o)' = References(o)
    <3>1. {d \in 1..depth : call'[d].obj = o} = {d \in 1..depth : call[d].obj = o}
      BY <1>3
    <3> QED
      BY <1>2, <3>1 DEF InFlight, References
  <2>2. ASSUME NEW v \in Var
        PROVE  Holding(v)' = Holding(v)
    <3>1. {d \in 1..depth : call'[d].var = v /\ call'[d].obj # None}
            = {d \in 1..depth : call[d].var = v /\ call[d].obj # None}
      BY <1>3
    <3> QED
      BY <1>2, <3>1 DEF Holding
  <2> QED
    BY <2>1, <2>2
<1>5. CountInv'
  BY <1>1, <1>2, <1>3, <1>4 DEF CountInv
<1>6. PointersFiled'
  BY <1>1, <1>2, <1>3 DEF PointersFiled
<1> QED
  BY <1>5, <1>6

(* Undisturbed is inductive,                                               *)
LEMMA UndisturbedStep ==
  ASSUME ~ Reassign, Undisturbed, [Next]_vars
  PROVE  Undisturbed'
<1>1. Inv'
  BY StepInv DEF Undisturbed
<1>2. CountInv' /\ PointersFiled'
  <2>1. CASE UNCHANGED vars
    <3>1. UNCHANGED <<scope, vrc, var, rc, sticky, native, depth, call>>
      BY <2>1 DEF vars
    <3>2. /\ \A o \in Obj : InFlight(o)' = InFlight(o) /\ References(o)' = References(o)
          /\ \A v \in Var : Holding(v)' = Holding(v)
      BY <3>1 DEF InFlight, References, Holding
    <3> QED
      BY <3>1, <3>2 DEF Undisturbed, CountInv, PointersFiled
  <2>2. CASE \/ \E v \in Var, o \in Obj : New(v, o)
             \/ \E v \in Var, o \in Obj \cup {None} : Assign(v, o)
             \/ \E v \in Var : LeaveScope(v) \/ Sticky(v) \/ Unstick(v)
    BY <2>2, PerlCounts
  <2>3. CASE \/ \E a \in Addr, s \in Sig : NewType(a, s)
             \/ \E a \in Addr : Function(a) \/ Attach(a) \/ \E h \in Holder : Release(a, h)
             \/ Callback \/ CallbackReturn
    BY <2>3, OtherCounts
  <2>4. CASE \E v \in Var, a \in Addr :
               \/ PassUndef(v, a) \/ PassCached(v, a) \/ PassFailed(v, a)
               \/ \E n \in NC : PassNew(v, a, n)
    BY <2>4, PassCounts
  <2>5. CASE Return
    BY <2>5, ReturnCounts
  <2> QED
    BY <2>1, <2>2, <2>3, <2>4, <2>5 DEF Next
<1> QED
  BY <1>1, <1>2 DEF Undisturbed

(* holds when the program starts,                                          *)
LEMMA UndisturbedInit == Init => Undisturbed
<1> SUFFICES ASSUME Init PROVE Undisturbed
  OBVIOUS
<1>1. Inv
  BY InitInv
<1>2. depth = 0 /\ 1..depth = {}
  BY DEF Init
<1>3. None \notin Obj
  BY ClosureAssumption
<1>4. /\ \A v \in Var : Holding(v) = 0
      /\ \A o \in Obj : InFlight(o) = 0 /\ References(o) = 0
  <2>1. \A v \in Var : Holding(v) = Cardinality({})
    BY <1>2 DEF Holding
  <2>2. \A o \in Obj : InFlight(o) = Cardinality({})
    BY <1>2 DEF InFlight
  <2>3. ASSUME NEW o \in Obj
        PROVE  References(o) = Cardinality({})
    <3>1. {v \in Var : var[v] = o} = {}
      BY <1>3 DEF Init
    <3> QED
      BY <3>1 DEF References
  <2> QED
    BY <2>1, <2>2, <2>3, FS_EmptySet
<1>5. CountInv
  <2>1. \A v \in Var : vrc[v] = 0 /\ scope[v] = FALSE
    BY DEF Init
  <2>2. \A o \in Obj : rc[o] = 0 /\ sticky[o] = FALSE
    BY DEF Init
  <2>3. \A v \in Var : vrc[v] = Flag(scope[v]) + Holding(v)
    BY <1>4, <2>1 DEF Flag
  <2>4. \A o \in Obj : rc[o] = References(o) + InFlight(o) + 2 * Flag(sticky[o])
    BY <1>4, <2>2 DEF Flag
  <2> QED
    BY <1>2, <2>3, <2>4 DEF CountInv
<1>6. PointersFiled
  BY <1>2 DEF PointersFiled
<1> QED
  BY <1>1, <1>5, <1>6 DEF Undisturbed

(* and it is stronger than the two properties.                             *)
LEMMA UndisturbedExact == Undisturbed => CountExact /\ PassedStaysCallable
<1> SUFFICES ASSUME Undisturbed PROVE CountExact /\ PassedStaysCallable
  OBVIOUS
<1>1. Inv /\ CountInv /\ PointersFiled
  BY DEF Undisturbed
<1>2. ASSUME NEW v \in Var
      PROVE  vrc[v] = (IF scope[v] THEN 1 ELSE 0)
                 + Cardinality({d \in 1..depth : call[d].var = v /\ call[d].obj # None})
  BY <1>1 DEF CountInv, Holding, Flag
<1>3. ASSUME NEW o \in Obj
      PROVE  rc[o] = References(o) + InFlight(o) + (IF sticky[o] /\ rc[o] > 0 THEN 2 ELSE 0)
  <2>1. /\ rc[o] = References(o) + InFlight(o) + 2 * Flag(sticky[o])
        /\ References(o) \in Nat /\ InFlight(o) \in Nat
    BY <1>1, Counted DEF CountInv
  <2>2. Flag(sticky[o]) = IF sticky[o] THEN 1 ELSE 0
    BY DEF Flag
  <2> QED
    BY <2>1, <2>2
<1>4. ASSUME NEW d \in 1..depth, call[d].ptr # None
      PROVE  /\ native[call[d].ptr] # None
             /\ native[call[d].ptr].owner = call[d].obj
             /\ call[d].type \notin Loose =>
                  native[call[d].ptr].sig = type[call[d].type]
  <2>1. /\ native[call[d].ptr] # None /\ native[call[d].ptr].owner = call[d].obj
        /\ native[call[d].ptr].type = call[d].type
    BY <1>1, <1>4 DEF PointersFiled
  <2>2. call[d].ptr \in NC
    <3>1. d \in 0..MaxDepth
      BY <1>1, ClosureAssumption DEF Inv, TypeOK
    <3> QED
      BY <1>1, <1>4, <3>1 DEF Inv, TypeOK, Call
  <2> QED
    BY <1>1, <2>1, <2>2 DEF Inv, TypeOutlivesNative
<1> QED
  BY <1>2, <1>3, <1>4 DEF CountExact, PassedStaysCallable

(* As long as no closure reassigns a variable that is being passed, the    *)
(* reference counts of variables and closure objects are what refers to    *)
(* them, however calls nest and variables come and go.                     *)
THEOREM CountsExact ==
  ASSUME ~ Reassign
  PROVE  Spec => []CountExact
<1>1. Undisturbed => CountExact
  BY UndisturbedExact
<1>2. Init => Undisturbed
  BY UndisturbedInit
<1>3. Undisturbed /\ [Next]_vars => Undisturbed'
  BY UndisturbedStep
<1> QED
  BY <1>1, <1>2, <1>3, PTL DEF Spec

(* Under the same condition the function pointer that a call was passed    *)
(* can be called until the call returns, with the signature expected.      *)
THEOREM PassedCallable ==
  ASSUME ~ Reassign
  PROVE  Spec => []PassedStaysCallable
<1>1. Undisturbed => PassedStaysCallable
  BY UndisturbedExact
<1>2. Init => Undisturbed
  BY UndisturbedInit
<1>3. Undisturbed /\ [Next]_vars => Undisturbed'
  BY UndisturbedStep
<1> QED
  BY <1>1, <1>2, <1>3, PTL DEF Spec

(* The steps that touch native closures free those of the objects whose    *)
(* count drops to zero, or add one where there is none.                    *)
LEMMA NativeSteps ==
  ASSUME Inv, Next
  PROVE  \/ UNCHANGED <<cbdata, native>>
         \/ \E r : SetCounts(r)
         \/ \E o \in Obj, a \in Addr, n \in NC, new \in Native :
               /\ cbdata[o][a] = None /\ native[n] = None
               /\ cbdata' = [cbdata EXCEPT ![o][a] = n]
               /\ native' = [native EXCEPT ![n] = new]
<1>1. CASE \E v \in Var, o \in Obj \cup {None} : New(v, o) \/ Assign(v, o)
  BY <1>1 DEF New, Assign
<1>2. CASE \E v \in Var : LeaveScope(v) \/ Sticky(v) \/ Unstick(v)
  BY <1>2 DEF LeaveScope, DropVar, Sticky, Unstick
<1>3. CASE \/ \E a \in Addr, s \in Sig : NewType(a, s)
           \/ \E a \in Addr : Function(a) \/ Attach(a) \/ \E h \in Holder : Release(a, h)
           \/ Callback \/ CallbackReturn
  BY <1>3 DEF NewType, Function, Attach, Release, Callback, CallbackReturn
<1>4. ASSUME NEW v \in Var, NEW a \in Addr,
             PassUndef(v, a) \/ PassCached(v, a) \/ PassFailed(v, a)
      PROVE  UNCHANGED <<cbdata, native>>
  BY <1>4 DEF PassUndef, PassCached, PassFailed
<1>5. ASSUME NEW v \in Var, NEW a \in Addr, NEW n \in NC, PassNew(v, a, n)
      PROVE  \E o \in Obj, b \in Addr, m \in NC, new \in Native :
               /\ cbdata[o][b] = None /\ native[m] = None
               /\ cbdata' = [cbdata EXCEPT ![o][b] = m]
               /\ native' = [native EXCEPT ![m] = new]
  <2> DEFINE new == [owner |-> var[v], type |-> a, sig |-> type[a]]
  <2>1. /\ var[v] \in Obj /\ cbdata[var[v]][a] = None /\ native[n] = None
        /\ cbdata' = [cbdata EXCEPT ![var[v]][a] = n]
        /\ native' = [native EXCEPT ![n] = new]
    BY <1>5 DEF PassNew, Inv, TypeOK
  <2>2. type[a] \in Sig
    BY <1>5 DEF PassNew, CanPass, Inv, TypesHeld, TypeOK
  <2>3. new \in Native
    BY <2>1, <2>2 DEF Native
  <2> HIDE DEF new
  <2> QED
    BY <2>1, <2>3
<1>6. CASE Return
  BY <1>6 DEF Return, DropVar
<1> QED
  BY <1>1, <1>2, <1>3, <1>4, <1>5, <1>6 DEF Next

(* A sticky object has references.                                         *)
StickyHeld == \A o \in Obj : sticky[o] => rc[o] > 0

LEMMA StickyCounted == Undisturbed => StickyHeld
<1> SUFFICES ASSUME Undisturbed, NEW o \in Obj
             PROVE  sticky[o] => rc[o] > 0
  BY DEF StickyHeld
<1>1. /\ rc[o] = References(o) + InFlight(o) + 2 * Flag(sticky[o])
      /\ References(o) \in Nat /\ InFlight(o) \in Nat
  BY Counted DEF Undisturbed, CountInv
<1>2. Flag(sticky[o]) = IF sticky[o] THEN 1 ELSE 0
  BY DEF Flag
<1> QED
  BY <1>1, <1>2

(* While an object stays sticky its two references keep its native         *)
(* closures, when no closure reassigns a variable that is being passed.    *)
THEOREM StickyKeeps ==
  ASSUME ~ Reassign
  PROVE  Spec => StickyKeepsNative
<1> DEFINE Keeps == \A o \in Obj : sticky[o] /\ sticky'[o] /\ rc[o] > 0 =>
              \A a \in Addr : cbdata[o][a] # None =>
                 cbdata'[o][a] = cbdata[o][a] /\ native'[cbdata[o][a]] # None
<1>1. ASSUME Undisturbed, Next
      PROVE  Keeps
  <2> SUFFICES ASSUME NEW o \in Obj, sticky[o], sticky'[o], NEW a \in Addr, NEW n,
                      n = cbdata[o][a], n # None
               PROVE  cbdata'[o][a] = n /\ native'[n] # None
    OBVIOUS
  <2>1. Inv /\ Undisturbed' /\ n \in NC
    BY <1>1, UndisturbedStep DEF Undisturbed, Inv, TypeOK
  <2>2. native[n] # None /\ native[n].owner = o
    BY <2>1 DEF Inv, FiledOnce
  <2>3. rc'[o] > 0
    <3>1. Undisturbed'
      BY <2>1
    <3>2. StickyHeld'
      BY <3>1, StickyCounted, PTL
    <3> QED
      BY <3>2 DEF StickyHeld
  <2>4. CASE UNCHANGED <<cbdata, native>>
    BY <2>2, <2>4
  <2>5. ASSUME NEW r, SetCounts(r)
        PROVE  cbdata'[o][a] = n /\ native'[n] # None
    <3>1. o \notin Freed(r)
      BY <2>3, <2>5 DEF SetCounts, Freed
    <3>2. ~ \E p \in Freed(r), b \in Addr : cbdata[p][b] = n
      BY <2>1, <2>2, <3>1 DEF Inv, FiledOnce, Freed
    <3> QED
      BY <2>1, <2>2, <2>5, <3>1, <3>2 DEF SetCounts
  <2>6. ASSUME NEW p \in Obj, NEW b \in Addr, NEW m \in NC, NEW new \in Native,
               cbdata[p][b] = None, native[m] = None,
               cbdata' = [cbdata EXCEPT ![p][b] = m],
               native' = [native EXCEPT ![m] = new]
        PROVE  cbdata'[o][a] = n /\ native'[n] # None
    BY <2>1, <2>2, <2>6 DEF Inv, TypeOK
  <2> QED
    BY <1>1, <2>1, <2>4, <2>5, <2>6, NativeSteps
<1>2. Undisturbed /\ [Next]_vars => [Keeps]_vars
  BY <1>1
<1>3. Init => Undisturbed
  BY UndisturbedInit
<1>4. Undisturbed /\ [Next]_vars => Undisturbed'
  BY UndisturbedStep
<1> QED
  BY <1>2, <1>3, <1>4, PTL DEF Spec, StickyKeepsNative

=============================================================================
