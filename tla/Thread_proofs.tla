---------------------------- MODULE Thread_proofs ----------------------------
(***************************************************************************)
(* The check of the calling thread, for any number of threads, identities, *)
(* closures and nested calls: the Perl code of a closure only runs on the  *)
(* thread whose interpreter it belongs to.                                 *)
(***************************************************************************)
EXTENDS Thread, TLAPS

(* A running thread has its identity alone, and an interpreter runs.       *)
IdsDistinct == \A t, u \in T : id[t] = id[u] /\ id[t] # None => t = u
PerlRunning == \A t \in perl : id[t] # None

(* The inductive invariant: a closure is found on the stack of its owner   *)
(* because its identity was compared when it was entered, identities are   *)
(* compared rightly because what a thread leaves behind is freed with its  *)
(* interpreter, and that is so because only its own interpreter files it.  *)
Inv ==
  /\ TypeOK
  /\ IdsDistinct
  /\ PerlRunning
  /\ FiledByOwner
  /\ IdentityCurrent
  /\ RunsOnOwner

(* Counting down keeps the types, and frees what was filed in the object.  *)
LEMMA CountTypes ==
  ASSUME TypeOK, NEW t \in T, NEW o \in Obj, NEW k \in Int, Count(t, o, k)
  PROVE  /\ rc' \in [T -> [Obj -> Nat]]
         /\ cbdata' \in [T -> [Obj -> NC \cup {None}]]
         /\ native' \in [NC -> Native \cup {None}]
<1>1. rc' \in [T -> [Obj -> Nat]]
  <2> DEFINE m == IF k > 0 THEN k ELSE 0
  <2>1. m \in Nat
    OBVIOUS
  <2>2. rc' = [rc EXCEPT ![t][o] = m]
    BY DEF Count
  <2> HIDE DEF m
  <2> QED
    BY <2>1, <2>2 DEF TypeOK
<1>2. CASE k > 0
  BY <1>1, <1>2 DEF TypeOK, Count, closures
<1>3. CASE ~ (k > 0)
  <2>1. /\ cbdata' = [cbdata EXCEPT ![t][o] = None]
        /\ native' = [n \in NC |-> IF cbdata[t][o] = n THEN None ELSE native[n]]
    BY <1>3 DEF Count
  <2>2. cbdata' \in [T -> [Obj -> NC \cup {None}]]
    BY <2>1 DEF TypeOK
  <2>3. native' \in [NC -> Native \cup {None}]
    BY <2>1 DEF TypeOK
  <2> QED
    BY <1>1, <2>2, <2>3
<1> QED
  BY <1>2, <1>3

(* Every variable has its type at every step.                              *)
LEMMA TypeStep == TypeOK /\ [Next]_vars => TypeOK'
<1> SUFFICES ASSUME TypeOK, [Next]_vars PROVE TypeOK'
  OBVIOUS
<1> USE ThreadAssumption DEF TypeOK, Native
<1>1. ASSUME NEW t \in T, NEW u \in T, NEW i \in Id, StartNative(t, u, i) PROVE TypeOK'
  BY <1>1 DEF StartNative, objects, closures
<1>2. ASSUME NEW t \in T, NEW u \in T, NEW i \in Id, Create(t, u, i) PROVE TypeOK'
  BY <1>2 DEF Create, CloneData, Nothing
<1>3. ASSUME NEW t \in T, Exit(t) PROVE TypeOK'
  BY <1>3 DEF Exit, Nothing, NoObject
<1>4. ASSUME NEW t \in T, Return(t) PROVE TypeOK'
  BY <1>4 DEF Return, threads, objects, closures
<1>5. ASSUME NEW t \in T, NEW o \in Obj, New(t, o) PROVE TypeOK'
  BY <1>5 DEF New, threads, closures
<1>6. ASSUME NEW t \in T, NEW o \in Obj, Drop(t, o) PROVE TypeOK'
  <2>1. rc[t][o] - 1 \in Int
    OBVIOUS
  <2> QED
    BY <1>6, <2>1, CountTypes DEF Drop, threads
<1>7. ASSUME NEW t \in T, NEW o \in Obj, Stick(t, o) PROVE TypeOK'
  BY <1>7 DEF Stick, threads, closures
<1>8. ASSUME NEW t \in T, NEW o \in Obj, Unstick(t, o) PROVE TypeOK'
  <2>1. rc[t][o] - 2 \in Int
    OBVIOUS
  <2> QED
    BY <1>8, <2>1, CountTypes DEF Unstick, threads
<1>9. ASSUME NEW t \in T, NEW o \in Obj, PassCached(t, o) PROVE TypeOK'
  BY <1>9 DEF PassCached, Nest, threads, objects, closures
<1>10. ASSUME NEW t \in T, NEW o \in Obj, NEW n \in NC, PassNew(t, o, n) PROVE TypeOK'
  BY <1>10 DEF PassNew, Nest, threads, objects, PerlRuns, Running
<1>11. ASSUME NEW t \in T, NEW n \in NC, Call(t, n) PROVE TypeOK'
  BY <1>11 DEF Call, Nest, threads, objects, closures
<1>12. ASSUME NEW t \in T, NEW n \in NC, WrongThread(t, n) PROVE TypeOK'
  BY <1>12 DEF WrongThread, threads, objects, closures
<1>13. ASSUME UNCHANGED vars PROVE TypeOK'
  BY <1>13 DEF vars, threads, objects, closures
<1> QED
  BY <1>1, <1>2, <1>3, <1>4, <1>5, <1>6, <1>7, <1>8, <1>9, <1>10, <1>11, <1>12,
     <1>13 DEF Next

(* What a call adds to the closures that run on a thread.                  *)
LEMMA NestClosures ==
  ASSUME TypeOK, NEW t \in T, NEW x \in Obj \cup NC, Nest(t, x)
  PROVE  \A u \in T : \A n \in ClosuresOn(u)' : n \in ClosuresOn(u) \/ (u = t /\ n = x)
<1> SUFFICES ASSUME NEW u \in T, NEW n \in ClosuresOn(u)', n \notin ClosuresOn(u)
             PROVE  u = t /\ n = x
  OBVIOUS
<1>1. stack[t] \in Seq(Obj \cup NC) /\ stack' = [stack EXCEPT ![t] = Append(stack[t], x)]
  BY DEF TypeOK, Nest
<1>2. PICK k \in DOMAIN stack'[u] : n = stack'[u][k] /\ n \in NC
  BY DEF ClosuresOn
<1>3. u = t
  BY <1>1, <1>2 DEF ClosuresOn, TypeOK
<1>4. stack'[u] = Append(stack[t], x)
  BY <1>1, <1>3 DEF TypeOK
<1>5. k \in 1..Len(stack[t]) + 1
  BY <1>1, <1>2, <1>4
<1>6. CASE k = Len(stack[t]) + 1
  BY <1>1, <1>2, <1>3, <1>4, <1>6
<1>7. CASE k \in 1..Len(stack[t])
  <2>1. n = stack[t][k] /\ k \in DOMAIN stack[t]
    BY <1>1, <1>2, <1>4, <1>7
  <2> QED
    BY <1>2, <1>3, <2>1 DEF ClosuresOn
<1> QED
  BY <1>1, <1>5, <1>6, <1>7

(* A return takes nothing but the last.                                    *)
LEMMA ReturnClosures ==
  ASSUME TypeOK, NEW t \in T, Return(t)
  PROVE  \A u \in T : ClosuresOn(u)' \subseteq ClosuresOn(u)
<1> SUFFICES ASSUME NEW u \in T, NEW n \in ClosuresOn(u)' PROVE n \in ClosuresOn(u)
  OBVIOUS
<1>1. /\ stack[t] \in Seq(Obj \cup NC)
      /\ stack[t] # << >>
      /\ stack' = [stack EXCEPT ![t] = SubSeq(stack[t], 1, Len(stack[t]) - 1)]
  BY DEF TypeOK, Return
<1>2. PICK k \in DOMAIN stack'[u] : n = stack'[u][k] /\ n \in NC
  BY DEF ClosuresOn
<1>3. CASE u # t
  BY <1>1, <1>2, <1>3 DEF ClosuresOn, TypeOK
<1>4. CASE u = t
  <2>1. stack'[u] = SubSeq(stack[t], 1, Len(stack[t]) - 1)
    BY <1>1, <1>4 DEF TypeOK
  <2>2. k \in DOMAIN stack[t] /\ n = stack[t][k]
    BY <1>1, <1>2, <2>1
  <2> QED
    BY <1>2, <1>4, <2>2 DEF ClosuresOn
<1> QED
  BY <1>3, <1>4

(* Perl code runs on a thread that has an interpreter: in the program, or  *)
(* in a closure that the thread owns.                                      *)
LEMMA PerlHere ==
  ASSUME Inv, NEW t \in T, PerlRuns(t)
  PROVE  t \in perl
<1>1. CASE stack[t] = << >>
  BY <1>1 DEF PerlRuns
<1>2. CASE stack[t] # << >>
  <2>1. stack[t] \in Seq(Obj \cup NC) /\ Top(t) \in NC
    BY <1>2 DEF PerlRuns, Inv, TypeOK
  <2>2. Top(t) \in ClosuresOn(t)
    BY <1>2, <2>1 DEF Top, ClosuresOn
  <2>3. Owns(t, Top(t))
    BY <2>2 DEF PerlRuns, Running, Defined
  <2> QED
    BY <2>1, <2>3 DEF Owns, Inv, FiledByOwner
<1> QED
  BY <1>1, <1>2

LEMMA InitInv == Init => Inv
<1> SUFFICES ASSUME Init PROVE Inv
  OBVIOUS
<1> USE ThreadAssumption
<1>1. PICK i \in Id : id = [t \in T |-> IF t = First THEN i ELSE None]
  BY DEF Init
<1>2. TypeOK
  <2>1. id \in [T -> Id \cup {None}] /\ perl \subseteq T
    BY <1>1 DEF Init
  <2>2. Nothing \in [Obj -> NC \cup {None}] /\ NoObject \in [Obj -> Nat]
    BY DEF Nothing, NoObject
  <2>3. cbdata \in [T -> [Obj -> NC \cup {None}]] /\ rc \in [T -> [Obj -> Nat]]
    BY <2>2 DEF Init
  <2>4. stack \in [T -> Seq(Obj \cup NC)]
    BY DEF Init
  <2>5. held \in [T -> SUBSET Obj] /\ sticky \in [T -> SUBSET Obj]
    BY DEF Init
  <2>6. native \in [NC -> Native \cup {None}]
    BY DEF Init
  <2> QED
    BY <2>1, <2>3, <2>4, <2>5, <2>6 DEF Init, TypeOK
<1>3. IdsDistinct /\ PerlRunning
  BY <1>1 DEF Init, IdsDistinct, PerlRunning
<1>4. FiledByOwner /\ IdentityCurrent
  <2>1. \A n \in NC : native[n] = None
    BY DEF Init
  <2>2. \A t \in T : \A o \in Obj : cbdata[t][o] = None
    <3>1. \A t \in T : cbdata[t] = Nothing
      BY DEF Init
    <3> QED
      BY <3>1 DEF Nothing
  <2>3. FiledByOwner
    BY <2>1, <2>2 DEF FiledByOwner
  <2>4. IdentityCurrent
    BY <2>1 DEF IdentityCurrent
  <2> QED
    BY <2>3, <2>4
<1>5. RunsOnOwner
  BY DEF Init, RunsOnOwner, ClosuresOn
<1> QED
  BY <1>2, <1>3, <1>4, <1>5 DEF Inv

(* The identities of the threads: only starting and ending one changes     *)
(* them.                                                                   *)
LEMMA IdStep == Inv /\ [Next]_vars => IdsDistinct' /\ PerlRunning'
<1> SUFFICES ASSUME Inv, [Next]_vars PROVE IdsDistinct' /\ PerlRunning'
  OBVIOUS
<1> USE ThreadAssumption DEF Inv, TypeOK, IdsDistinct, PerlRunning
<1>1. ASSUME NEW t \in T, NEW u \in T, NEW i \in Id, StartNative(t, u, i)
      PROVE  IdsDistinct' /\ PerlRunning'
  BY <1>1 DEF StartNative, Fresh
<1>2. ASSUME NEW t \in T, NEW u \in T, NEW i \in Id, Create(t, u, i)
      PROVE  IdsDistinct' /\ PerlRunning'
  BY <1>2 DEF Create, Fresh
<1>3. ASSUME NEW t \in T, Exit(t) PROVE IdsDistinct' /\ PerlRunning'
  BY <1>3 DEF Exit
<1>4. ASSUME UNCHANGED threads PROVE IdsDistinct' /\ PerlRunning'
  BY <1>4 DEF threads
<1>5. CASE UNCHANGED vars
  BY <1>4, <1>5 DEF vars
<1>6. CASE \E t \in T : Return(t)
  BY <1>4, <1>6 DEF Return
<1>7. CASE \E t \in T, o \in Obj :
              \/ New(t, o) \/ Drop(t, o) \/ Stick(t, o) \/ Unstick(t, o)
              \/ PassCached(t, o) \/ \E n \in NC : PassNew(t, o, n)
  BY <1>4, <1>7 DEF New, Drop, Stick, Unstick, PassCached, PassNew
<1>8. CASE \E t \in T, n \in NC : Call(t, n) \/ WrongThread(t, n)
  BY <1>4, <1>8 DEF Call, WrongThread
<1> QED
  BY <1>1, <1>2, <1>3, <1>5, <1>6, <1>7, <1>8 DEF Next

(* An action that leaves threads and closures alone.                       *)
LEMMA SameClosures ==
  ASSUME Inv, UNCHANGED <<threads, closures>>
  PROVE  FiledByOwner' /\ IdentityCurrent'
BY DEF Inv, threads, closures, FiledByOwner, IdentityCurrent

(* The thread u starts: as it did not run, no closure was filed in it.     *)
LEMMA StartFiled ==
  ASSUME Inv, NEW u \in T, NEW i \in Id, Fresh(u, i),
         id' = [id EXCEPT ![u] = i],
         perl \subseteq perl',
         UNCHANGED native,
         \A t \in T, o \in Obj :
            cbdata'[t][o] = IF t = u THEN None ELSE cbdata[t][o]
  PROVE  FiledByOwner' /\ IdentityCurrent'
<1> USE ThreadAssumption
<1>1. u \notin perl
  BY DEF Inv, PerlRunning, Fresh
<1>2. \A n \in NC : native[n] # None =>
         /\ native[n].owner # u /\ native[n].owner \in T
         /\ native[n].thread \in Id
  BY <1>1 DEF Inv, FiledByOwner, TypeOK, Native
<1>3. FiledByOwner'
  BY <1>2 DEF Inv, FiledByOwner
<1>4. IdentityCurrent'
  <2> SUFFICES ASSUME NEW n \in NC, native[n] # None, NEW t \in T
               PROVE  native[n].thread = id'[t] <=> t = native[n].owner
    BY DEF IdentityCurrent
  <2>1. native[n].thread = id[t] <=> t = native[n].owner
    BY DEF Inv, IdentityCurrent
  <2>2. native[n].thread = id[native[n].owner]
    BY <1>2 DEF Inv, IdentityCurrent
  <2>3. native[n].thread # i
    BY <1>2, <2>2 DEF Fresh
  <2> QED
    BY <1>2, <2>1, <2>3 DEF Inv, TypeOK
<1> QED
  BY <1>3, <1>4

LEMMA StartStep ==
  ASSUME Inv, NEW t \in T, NEW u \in T, NEW i \in Id,
         StartNative(t, u, i) \/ Create(t, u, i)
  PROVE  FiledByOwner' /\ IdentityCurrent'
<1>1. u \notin perl
  BY DEF Inv, PerlRunning, StartNative, Create, Fresh
<1>2. \A o \in Obj : cbdata[u][o] = None
  <2> SUFFICES ASSUME NEW o \in Obj, cbdata[u][o] # None PROVE FALSE
    OBVIOUS
  <2>1. cbdata[u][o] \in NC
    BY DEF Inv, TypeOK
  <2> QED
    BY <1>1, <2>1 DEF Inv, FiledByOwner
<1>3. CASE StartNative(t, u, i)
  BY <1>2, <1>3, StartFiled DEF StartNative, closures
<1>4. CASE Create(t, u, i)
  <2>1. \A v \in T, o \in Obj :
           cbdata'[v][o] = IF v = u THEN None ELSE cbdata[v][o]
    BY <1>4 DEF Create, CloneData, Nothing, Inv, TypeOK
  <2> QED
    BY <1>4, <2>1, StartFiled DEF Create
<1> QED
  BY <1>3, <1>4

(* A thread ends: with its interpreter go the native closures it owned.    *)
LEMMA ExitStep ==
  ASSUME Inv, NEW t \in T, Exit(t)
  PROVE  FiledByOwner' /\ IdentityCurrent'
<1> USE ThreadAssumption
<1>1. \A n \in NC :
         native'[n] # None <=> native[n] # None /\ native[n].owner # t
  <2> SUFFICES ASSUME NEW n \in NC
               PROVE  native'[n] # None <=> native[n] # None /\ native[n].owner # t
    OBVIOUS
  <2>1. (\E o \in Obj : cbdata[t][o] = n) <=> native[n] # None /\ native[n].owner = t
    BY DEF Inv, FiledByOwner
  <2> QED
    BY <2>1 DEF Exit
<1>2. \A n \in NC : native'[n] # None => native'[n] = native[n] /\ native[n] \in Native
  BY DEF Exit, Inv, TypeOK
<1>3. \A u \in T, o \in Obj :
         cbdata'[u][o] = IF u = t THEN None ELSE cbdata[u][o]
  BY DEF Exit, Nothing, Inv, TypeOK
<1>4. FiledByOwner'
  <2>1. ASSUME NEW n \in NC, native'[n] # None
        PROVE  /\ native'[n].owner \in perl'
               /\ \E o \in Obj : cbdata'[native'[n].owner][o] = n
    BY <1>1, <1>2, <1>3, <2>1 DEF Exit, Inv, FiledByOwner, Native
  <2>2. ASSUME NEW u \in T, NEW o \in Obj, cbdata'[u][o] # None
        PROVE  LET n == cbdata'[u][o] IN
                 /\ native'[n] # None /\ native'[n].owner = u
                 /\ \A p \in Obj : cbdata'[u][p] = n => p = o
    <3>1. u # t /\ cbdata'[u][o] = cbdata[u][o] /\ cbdata[u][o] \in NC
      BY <1>3, <2>2 DEF Inv, TypeOK
    <3> QED
      BY <1>1, <1>2, <1>3, <3>1 DEF Inv, FiledByOwner
  <2> QED
    BY <2>1, <2>2 DEF FiledByOwner
<1>5. IdentityCurrent'
  <2> SUFFICES ASSUME NEW n \in NC, native'[n] # None, NEW u \in T
               PROVE  native'[n].thread = id'[u] <=> u = native'[n].owner
    BY DEF IdentityCurrent
  <2>1. native'[n] = native[n] /\ native[n] # None /\ native[n].owner # t
        /\ native[n].thread \in Id
    BY <1>1, <1>2 DEF Native
  <2>2. native[n].thread = id[u] <=> u = native[n].owner
    BY <2>1 DEF Inv, IdentityCurrent
  <2> QED
    BY <2>1, <2>2 DEF Exit, Inv, TypeOK
<1> QED
  BY <1>4, <1>5

(* An object is freed, or not yet: what is filed in it goes with it.       *)
LEMMA CountStep ==
  ASSUME Inv, NEW t \in T, NEW o \in Obj, NEW k \in Int, Count(t, o, k),
         UNCHANGED threads
  PROVE  FiledByOwner' /\ IdentityCurrent'
<1> USE ThreadAssumption
<1>1. CASE UNCHANGED closures
  BY <1>1, SameClosures
<1>2. CASE /\ cbdata' = [cbdata EXCEPT ![t][o] = None]
           /\ native' = [n \in NC |-> IF cbdata[t][o] = n THEN None ELSE native[n]]
  <2>1. \A u \in T, p \in Obj :
           cbdata'[u][p] = IF u = t /\ p = o THEN None ELSE cbdata[u][p]
    BY <1>2 DEF Inv, TypeOK
  <2>2. \A n \in NC : native'[n] # None =>
           n # cbdata[t][o] /\ native'[n] = native[n] /\ native[n] \in Native
    BY <1>2 DEF Inv, TypeOK
  <2>3. \A n \in NC : n # cbdata[t][o] => native'[n] = native[n]
    BY <1>2
  <2>4. ASSUME NEW n \in NC, native'[n] # None
        PROVE  /\ native'[n].owner \in perl'
               /\ \E p \in Obj : cbdata'[native'[n].owner][p] = n
    BY <2>1, <2>2, <2>4 DEF Inv, FiledByOwner, Native, threads
  <2>5. ASSUME NEW u \in T, NEW p \in Obj, cbdata'[u][p] # None
        PROVE  LET n == cbdata'[u][p] IN
                 /\ native'[n] # None /\ native'[n].owner = u
                 /\ \A q \in Obj : cbdata'[u][q] = n => q = p
    <3>1. cbdata'[u][p] = cbdata[u][p] /\ cbdata[u][p] \in NC /\ ~ (u = t /\ p = o)
      BY <2>1, <2>5 DEF Inv, TypeOK
    <3>2. cbdata[u][p] # cbdata[t][o]
      BY <3>1 DEF Inv, FiledByOwner
    <3> QED
      BY <2>1, <2>3, <3>1, <3>2 DEF Inv, FiledByOwner
  <2>6. FiledByOwner'
    BY <2>4, <2>5 DEF FiledByOwner
  <2>7. IdentityCurrent'
    BY <2>2 DEF Inv, IdentityCurrent, threads
  <2> QED
    BY <2>6, <2>7
<1> QED
  BY <1>1, <1>2 DEF Count

LEMMA PassNewStep ==
  ASSUME Inv, NEW t \in T, NEW o \in Obj, NEW n \in NC, PassNew(t, o, n)
  PROVE  FiledByOwner' /\ IdentityCurrent'
<1> USE ThreadAssumption
<1>1. t \in perl
  BY PerlHere DEF PassNew
<1>2. \A u \in T, p \in Obj :
         cbdata'[u][p] = IF u = t /\ p = o THEN n ELSE cbdata[u][p]
  BY DEF PassNew, Inv, TypeOK
<1>3. /\ native'[n] = [thread |-> id[t], owner |-> t]
      /\ native'[n] # None
      /\ \A m \in NC \ {n} : native'[m] = native[m]
  <2>1. native'[n] = [thread |-> id[t], owner |-> t] /\ \A m \in NC \ {n} : native'[m] = native[m]
    BY DEF PassNew, Inv, TypeOK
  <2>2. id[t] \in Id
    BY DEF PassNew, PerlRuns, Running, Inv, TypeOK
  <2> QED
    BY <2>1, <2>2
<1>4. \A u \in T, p \in Obj : cbdata[u][p] # n
  BY DEF PassNew, Inv, FiledByOwner
<1>5. ASSUME NEW m \in NC, native'[m] # None
      PROVE  /\ native'[m].owner \in perl'
             /\ \E p \in Obj : cbdata'[native'[m].owner][p] = m
  <2>1. CASE m = n
    <3>1. native'[m].owner = t /\ perl' = perl
      BY <1>3, <2>1 DEF PassNew, threads
    <3>2. cbdata'[t][o] = m
      BY <1>2, <2>1
    <3> QED
      BY <1>1, <3>1, <3>2
  <2>2. CASE m # n
    <3>1. native'[m] = native[m] /\ native[m] \in Native
      BY <1>3, <1>5, <2>2 DEF Inv, TypeOK
    <3>2. PICK p \in Obj : cbdata[native[m].owner][p] = m
      BY <1>5, <3>1 DEF Inv, FiledByOwner
    <3>3. ~ (native[m].owner = t /\ p = o)
      BY <3>2 DEF PassNew
    <3> QED
      BY <1>2, <1>5, <3>1, <3>2, <3>3 DEF Inv, FiledByOwner, PassNew, threads, Native
  <2> QED
    BY <2>1, <2>2
<1>6. ASSUME NEW u \in T, NEW p \in Obj, cbdata'[u][p] # None
      PROVE  LET m == cbdata'[u][p] IN
               /\ native'[m] # None /\ native'[m].owner = u
               /\ \A q \in Obj : cbdata'[u][q] = m => q = p
  <2>1. CASE u = t /\ p = o
    BY <1>2, <1>3, <1>4, <2>1
  <2>2. CASE ~ (u = t /\ p = o)
    <3>1. cbdata'[u][p] = cbdata[u][p] /\ cbdata[u][p] \in NC \ {n}
      BY <1>2, <1>4, <1>6, <2>2 DEF Inv, TypeOK
    <3> QED
      BY <1>2, <1>3, <3>1 DEF Inv, FiledByOwner
  <2> QED
    BY <2>1, <2>2
<1>7. FiledByOwner'
  BY <1>5, <1>6 DEF FiledByOwner
<1>8. IdentityCurrent'
  <2> SUFFICES ASSUME NEW m \in NC, native'[m] # None, NEW u \in T
               PROVE  native'[m].thread = id'[u] <=> u = native'[m].owner
    BY DEF IdentityCurrent
  <2>1. id' = id /\ id[t] # None
    BY DEF PassNew, threads, PerlRuns, Running
  <2>2. CASE m = n
    BY <1>3, <2>1, <2>2 DEF Inv, IdsDistinct
  <2>3. CASE m # n
    BY <1>3, <2>1, <2>3 DEF Inv, IdentityCurrent
  <2> QED
    BY <2>2, <2>3
<1> QED
  BY <1>7, <1>8

LEMMA FiledStep == Inv /\ [Next]_vars => FiledByOwner' /\ IdentityCurrent'
<1> SUFFICES ASSUME Inv, [Next]_vars PROVE FiledByOwner' /\ IdentityCurrent'
  OBVIOUS
<1>1. CASE UNCHANGED vars
  BY <1>1, SameClosures DEF vars
<1>2. CASE \E t, u \in T, i \in Id : StartNative(t, u, i) \/ Create(t, u, i)
  BY <1>2, StartStep
<1>3. CASE \E t \in T : Exit(t)
  BY <1>3, ExitStep
<1>4. CASE \E t \in T : Return(t)
  BY <1>4, SameClosures DEF Return
<1>5. ASSUME NEW t \in T, NEW o \in Obj,
             New(t, o) \/ Stick(t, o) \/ PassCached(t, o)
      PROVE  FiledByOwner' /\ IdentityCurrent'
  BY <1>5, SameClosures DEF New, Stick, PassCached
<1>6. ASSUME NEW t \in T, NEW o \in Obj, Drop(t, o) \/ Unstick(t, o)
      PROVE  FiledByOwner' /\ IdentityCurrent'
  <2>1. rc[t][o] - 1 \in Int /\ rc[t][o] - 2 \in Int
    BY DEF Inv, TypeOK
  <2> QED
    BY <1>6, <2>1, CountStep DEF Drop, Unstick
<1>7. ASSUME NEW t \in T, NEW o \in Obj, NEW n \in NC, PassNew(t, o, n)
      PROVE  FiledByOwner' /\ IdentityCurrent'
  BY <1>7, PassNewStep
<1>8. CASE \E t \in T, n \in NC : Call(t, n) \/ WrongThread(t, n)
  BY <1>8, SameClosures DEF Call, WrongThread
<1> QED
  BY <1>1, <1>2, <1>3, <1>4, <1>5, <1>6, <1>7, <1>8 DEF Next

(* What keeps RunsOnOwner: no step adds a closure to a thread, frees one   *)
(* that runs, or takes the interpreter from under it.                      *)
LEMMA KeepsOwner ==
  ASSUME Inv, build' = build,
         \A t \in T : \A n \in ClosuresOn(t)' : n \in ClosuresOn(t),
         \A t \in T : \A n \in ClosuresOn(t) :
            /\ Owns(t, n) => native'[n] = native[n]
            /\ t \in perl => t \in perl'
  PROVE  RunsOnOwner'
BY DEF Inv, RunsOnOwner, Owns

(* The closures on a thread are on its stack.                              *)
LEMMA SameStack ==
  ASSUME UNCHANGED stack
  PROVE  \A t \in T : ClosuresOn(t)' = ClosuresOn(t)
BY DEF ClosuresOn

LEMMA ExitKeeps ==
  ASSUME Inv, NEW t \in T, Exit(t)
  PROVE  RunsOnOwner'
<1>1. ClosuresOn(t) = {}
  BY DEF Exit, ClosuresOn
<1>2. \A u \in T : \A n \in ClosuresOn(u) : n \in NC
  BY DEF ClosuresOn
<1>3. \A u \in T : \A n \in ClosuresOn(u) :
         /\ Owns(u, n) => native'[n] = native[n]
         /\ u \in perl => u \in perl'
  <2> SUFFICES ASSUME NEW u \in T, NEW n \in ClosuresOn(u)
               PROVE  /\ Owns(u, n) => native'[n] = native[n]
                      /\ u \in perl => u \in perl'
    OBVIOUS
  <2>1. u # t /\ n \in NC
    BY <1>1, <1>2
  <2>2. perl' = perl \ {t}
    BY DEF Exit
  <2>3. Owns(u, n) => \A o \in Obj : cbdata[t][o] # n
    BY <2>1, ThreadAssumption DEF Owns, Inv, FiledByOwner
  <2>4. native'[n] = IF \E o \in Obj : cbdata[t][o] = n THEN None ELSE native[n]
    BY <2>1 DEF Exit
  <2> QED
    BY <2>1, <2>2, <2>3, <2>4
<1> QED
  BY <1>3, SameStack, KeepsOwner DEF Exit

(* Drop and Unstick free nothing that the thread runs, and no other thread *)
(* runs what is filed here.                                                *)
LEMMA CountKeeps ==
  ASSUME Inv, NEW t \in T, NEW o \in Obj, ~ Passed(t, o), NEW k \in Int,
         Count(t, o, k), UNCHANGED <<build, threads, stack>>
  PROVE  RunsOnOwner'
<1>1. ASSUME NEW u \in T, NEW n \in ClosuresOn(u), Owns(u, n)
      PROVE  native'[n] = native[n]
  <2>1. n \in NC /\ native[n] # None /\ native[n].owner = u
    BY <1>1 DEF ClosuresOn, Owns
  <2>2. PICK j \in DOMAIN stack[u] : stack[u][j] = n
    BY DEF ClosuresOn
  <2>3. ASSUME n = cbdata[t][o] PROVE FALSE
    <3>1. u = t
      BY <2>1, <2>3, ThreadAssumption DEF Inv, FiledByOwner
    <3> QED
      BY <2>2, <2>3, <3>1 DEF Passed
  <2> QED
    BY <2>1, <2>3 DEF Count, closures
<1> QED
  BY <1>1, SameStack, KeepsOwner DEF threads

(* The identity that the check compared is that of the owner.              *)
LEMMA CallKeeps ==
  ASSUME Inv, NEW t \in T, NEW n \in NC, Call(t, n)
  PROVE  RunsOnOwner'
<1>1. build = "id" => Owns(t, n)
  BY DEF Call, Allowed, Owns, Inv, IdentityCurrent
<1>2. build = "context" => t \in perl
  BY DEF Call, Allowed
<1>3. \A u \in T : \A m \in ClosuresOn(u)' : m \in ClosuresOn(u) \/ (u = t /\ m = n)
  BY NestClosures DEF Inv, Call
<1> QED
  BY <1>1, <1>2, <1>3 DEF Inv, RunsOnOwner, Call, Owns, threads, closures

(* A native function that is passed a closure is no closure.               *)
LEMMA PassKeeps ==
  ASSUME Inv, NEW t \in T, NEW o \in Obj,
         PassCached(t, o) \/ \E n \in NC : PassNew(t, o, n)
  PROVE  RunsOnOwner'
<1>1. Nest(t, o) /\ build' = build /\ perl' = perl
  BY DEF PassCached, PassNew, threads
<1>2. \A u \in T : \A m \in ClosuresOn(u)' : m \in ClosuresOn(u)
  BY <1>1, NestClosures, ThreadAssumption DEF Inv, ClosuresOn
<1>3. \A u \in T : \A m \in ClosuresOn(u) : Owns(u, m) => native'[m] = native[m]
  BY DEF ClosuresOn, Owns, PassCached, PassNew, closures, Inv, TypeOK
<1> QED
  BY <1>1, <1>2, <1>3, KeepsOwner

LEMMA OwnerStep == Inv /\ [Next]_vars => RunsOnOwner'
<1> SUFFICES ASSUME Inv, [Next]_vars PROVE RunsOnOwner'
  OBVIOUS
<1>1. CASE UNCHANGED vars
  BY <1>1, SameStack, KeepsOwner DEF vars, threads, closures
<1>2. CASE \E t, u \in T, i \in Id : StartNative(t, u, i) \/ Create(t, u, i)
  BY <1>2, SameStack, KeepsOwner DEF StartNative, Create, closures
<1>3. CASE \E t \in T : Exit(t)
  BY <1>3, ExitKeeps
<1>4. ASSUME NEW t \in T, Return(t) PROVE RunsOnOwner'
  BY <1>4, ReturnClosures, KeepsOwner DEF Return, threads, closures, Inv
<1>5. ASSUME NEW t \in T, NEW o \in Obj, New(t, o) \/ Stick(t, o) PROVE RunsOnOwner'
  BY <1>5, SameStack, KeepsOwner DEF New, Stick, threads, closures
<1>6. ASSUME NEW t \in T, NEW o \in Obj, Drop(t, o) \/ Unstick(t, o)
      PROVE  RunsOnOwner'
  <2>1. rc[t][o] - 1 \in Int /\ rc[t][o] - 2 \in Int
    BY DEF Inv, TypeOK
  <2> QED
    BY <1>6, <2>1, CountKeeps DEF Drop, Unstick
<1>7. CASE \E t \in T, o \in Obj : PassCached(t, o) \/ \E n \in NC : PassNew(t, o, n)
  BY <1>7, PassKeeps
<1>8. CASE \E t \in T, n \in NC : Call(t, n)
  BY <1>8, CallKeeps
<1>9. CASE \E t \in T, n \in NC : WrongThread(t, n)
  BY <1>9, SameStack, KeepsOwner DEF WrongThread, threads, closures
<1> QED
  BY <1>1, <1>2, <1>3, <1>4, <1>5, <1>6, <1>7, <1>8, <1>9 DEF Next

(* The invariant holds at every step of every behaviour.                   *)
THEOREM Invariant == Spec => []Inv
<1>1. Inv /\ [Next]_vars => Inv'
  BY TypeStep, IdStep, FiledStep, OwnerStep DEF Inv
<1> QED
  BY InitInv, <1>1, PTL DEF Spec

(* Every variable of the thread model keeps its type.                      *)
THEOREM TypeCorrect == Spec => []TypeOK
<1>1. Inv => TypeOK
  BY DEF Inv
<1> QED
  BY Invariant, <1>1, PTL

(* Where the build knows thread identities, a closure called from any      *)
(* thread either runs on the thread whose interpreter made its native      *)
(* closure or does not run at all (ffi_pl_closure_call).                   *)
THEOREM ClosuresRunOnOwner == Spec => []RunsOnOwner
<1>1. Inv => RunsOnOwner
  BY DEF Inv
<1> QED
  BY Invariant, <1>1, PTL

(* No interpreter passes, or frees, a native closure of another one        *)
(* (ClosureData::CLONE_SKIP and DESTROY).                                  *)
THEOREM ClosuresFiledByOwner == Spec => []FiledByOwner
<1>1. Inv => FiledByOwner
  BY DEF Inv
<1> QED
  BY Invariant, <1>1, PTL

(* The identity in a native closure never goes stale: the check refuses no *)
(* call on the right thread, and identities that are used again deceive it *)
(* never.                                                                  *)
THEOREM IdentitiesCurrent == Spec => []IdentityCurrent
<1>1. Inv => IdentityCurrent
  BY DEF Inv
<1> QED
  BY Invariant, <1>1, PTL

=============================================================================
