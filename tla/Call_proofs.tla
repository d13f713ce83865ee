---------------------------- MODULE Call_proofs ----------------------------
(***************************************************************************)
(* Proofs about Call, Plugin and Arguments: the type invariant, what the   *)
(* dispatch promises about current_argv, the heap list and the handlers'   *)
(* slots, what custom_keepers and the @stack of a plugin hold, and what    *)
(* becomes of the memory of pointer and array arguments, for every set of  *)
(* functions and every bound.  Arguments is a system of its own beside the *)
(* other two: what is proved of it cites nothing of theirs.                *)
(***************************************************************************)
EXTENDS Plugin, Arguments, FiniteSetTheorems, FunctionTheorems, TLAPS

-----------------------------------------------------------------------------
(* The slots of a function                                                 *)

(* Args gives an argument type for each argument of a function.            *)
LEMMA ArgsType ==
  ASSUME NEW f \in Fun
  PROVE  /\ Args[f] \in Seq(ArgType)
         /\ Len(Args[f]) \in Nat
         /\ \A p \in 1..Len(Args[f]) :
               Args[f][p] \in ArgType /\ Args[f][p].extra \in Nat
<1>1. Args[f] \in Seq(ArgType)
  BY CallAssumption
<1>2. /\ Len(Args[f]) \in Nat
      /\ \A p \in 1..Len(Args[f]) : Args[f][p] \in ArgType
  BY <1>1
<1>3. \A p \in 1..Len(Args[f]) : Args[f][p].extra \in Nat
  BY <1>2 DEF ArgType
<1> QED
  BY <1>1, <1>2, <1>3

(* The slots before an argument are finitely many.                         *)
LEMMA SlotsFinite ==
  ASSUME NEW f \in Fun, NEW p \in 1..Len(Args[f]) + 1
  PROVE  IsFiniteSet(SlotsBefore(f, p))
<1> DEFINE Of(q) == {q} \X (0..Args[f][q].extra)
           S == {Of(q) : q \in 1..p - 1}
           g == [q \in 1..p - 1 |-> Of(q)]
<1>1. \A q \in 1..p - 1 : IsFiniteSet(Of(q))
  <2> TAKE q \in 1..p - 1
  <2>1. Args[f][q].extra \in Nat
    BY ArgsType
  <2>2. IsFiniteSet(0..Args[f][q].extra)
    <3>1. 0 \in Int /\ Args[f][q].extra \in Int
      BY <2>1
    <3> QED
      BY <3>1, FS_Interval
  <2>3. IsFiniteSet({q})
    BY FS_Singleton
  <2> QED
    BY <2>2, <2>3, FS_Product
<1>2. g \in Surjection(1..p - 1, S)
  BY Fun_IsSurj
<1>3. IsFiniteSet(1..p - 1)
  <2>1. 1 \in Int /\ p - 1 \in Int
    BY ArgsType
  <2> QED
    BY <2>1, FS_Interval
<1>4. IsFiniteSet(S)
  BY <1>2, <1>3, FS_Surjection
<1>5. IsFiniteSet(UNION S)
  BY <1>1, <1>4, FS_UNION
<1> QED
  BY <1>5 DEF SlotsBefore

(* The first slot of an argument is a number of slots.                     *)
LEMMA FirstSlotType ==
  ASSUME NEW f \in Fun, NEW p \in 1..Len(Args[f]) + 1
  PROVE  FirstSlot(f, p) \in Nat
BY SlotsFinite, FS_CardinalityType DEF FirstSlot

(* The first argument starts at slot 0.                                    *)
LEMMA FirstSlotOne ==
  ASSUME NEW f \in Fun
  PROVE  FirstSlot(f, 1) = 0
<1>1. SlotsBefore(f, 1) = {}
  BY DEF SlotsBefore
<1> QED
  BY <1>1, FS_EmptySet DEF FirstSlot

(* The next argument starts after the slots of this one.                   *)
LEMMA FirstSlotNext ==
  ASSUME NEW f \in Fun, NEW p \in 1..Len(Args[f])
  PROVE  FirstSlot(f, p + 1) = FirstSlot(f, p) + 1 + Args[f][p].extra
<1> DEFINE Of(q) == {q} \X (0..Args[f][q].extra)
<1>1. Len(Args[f]) \in Nat /\ Args[f][p].extra \in Nat
  BY ArgsType
<1>2. IsFiniteSet({p}) /\ Cardinality({p}) = 1
  BY FS_Singleton
<1>3. /\ IsFiniteSet(0..Args[f][p].extra)
      /\ Cardinality(0..Args[f][p].extra) = 1 + Args[f][p].extra
  <2>1. 0 \in Int /\ Args[f][p].extra \in Int /\ ~ (0 > Args[f][p].extra)
    BY <1>1
  <2>2. /\ IsFiniteSet(0..Args[f][p].extra)
        /\ Cardinality(0..Args[f][p].extra) = Args[f][p].extra - 0 + 1
    BY <2>1, FS_Interval
  <2> QED
    BY <1>1, <2>2
<1>4. IsFiniteSet(Of(p)) /\ Cardinality(Of(p)) = 1 + Args[f][p].extra
  <2>1. /\ IsFiniteSet(Of(p))
        /\ Cardinality(Of(p)) = 1 * Cardinality(0..Args[f][p].extra)
    BY <1>2, <1>3, FS_Product
  <2> QED
    BY <1>1, <1>3, <2>1
<1>5. 1..(p + 1) - 1 = (1..p - 1) \cup {p}
  BY <1>1
<1>6. SlotsBefore(f, p + 1) = SlotsBefore(f, p) \cup Of(p)
  BY <1>5 DEF SlotsBefore
<1>7. SlotsBefore(f, p) \cap Of(p) = {}
  BY <1>1 DEF SlotsBefore
<1>8. IsFiniteSet(SlotsBefore(f, p)) /\ Cardinality(SlotsBefore(f, p)) \in Nat
  BY <1>1, SlotsFinite, FS_CardinalityType
<1>9. Cardinality(SlotsBefore(f, p + 1))
        = Cardinality(SlotsBefore(f, p)) + Cardinality(Of(p)) - 0
  BY SMTT(30), <1>4, <1>6, <1>7, <1>8, FS_Union, FS_EmptySet
<1>10. FirstSlot(f, p + 1) = FirstSlot(f, p) + (1 + Args[f][p].extra) - 0
  BY <1>4, <1>9 DEF FirstSlot
<1>11. FirstSlot(f, p) \in Nat
  BY <1>8 DEF FirstSlot
<1> QED
  BY <1>1, <1>10, <1>11

(* Later arguments have later slots.                                       *)
LEMMA FirstSlotMonotone ==
  ASSUME NEW f \in Fun,
         NEW p \in 1..Len(Args[f]) + 1, NEW q \in 1..Len(Args[f]) + 1, p <= q
  PROVE  FirstSlot(f, p) <= FirstSlot(f, q)
<1>1. Len(Args[f]) \in Nat
  BY ArgsType
<1>2. 1..p - 1 \subseteq 1..q - 1
  BY <1>1
<1>3. SlotsBefore(f, p) \subseteq SlotsBefore(f, q)
  BY <1>2 DEF SlotsBefore
<1> QED
  BY <1>3, SlotsFinite, FS_Subset DEF FirstSlot

(* A slot between an argument's first and the next argument's first has    *)
(* the type of that argument: what the loops read at argument_types[i].    *)
LEMMA TypeAtArg ==
  ASSUME NEW f \in Fun, NEW p \in 1..Len(Args[f]), NEW i \in Int,
         FirstSlot(f, p) <= i, i < FirstSlot(f, p + 1)
  PROVE  TypeAt(f, i) = Args[f][p]
<1> DEFINE In(q) == FirstSlot(f, q) <= i /\ i < FirstSlot(f, q + 1)
<1>1. Len(Args[f]) \in Nat /\ DOMAIN Args[f] = 1..Len(Args[f])
  BY ArgsType
<1>2. \A q \in 1..Len(Args[f]) + 1 : FirstSlot(f, q) \in Nat
  BY FirstSlotType
<1>3. ASSUME NEW q \in 1..Len(Args[f]), In(q)
      PROVE  q = p
  <2>1. CASE q < p
    <3>1. FirstSlot(f, q + 1) <= FirstSlot(f, p)
      BY <1>1, <2>1, FirstSlotMonotone
    <3> QED
      BY <1>1, <1>2, <1>3, <3>1
  <2>2. CASE p < q
    <3>1. FirstSlot(f, p + 1) <= FirstSlot(f, q)
      BY <1>1, <2>2, FirstSlotMonotone
    <3> QED
      BY <1>1, <1>2, <1>3, <3>1
  <2> QED
    BY <1>1, <2>1, <2>2
<1>4. (CHOOSE q \in DOMAIN Args[f] : In(q)) = p
  BY <1>1, <1>3
<1> QED
  BY <1>4 DEF TypeAt

-----------------------------------------------------------------------------
(* The inductive invariant                                                 *)

(* A call is told from the others by its number, and its slot from its     *)
(* argument: without FramesPlaced, nothing would keep the call that ends   *)
(* from being the one whose buffer current_argv is.                        *)
IInv ==
  /\ TypeOK
  /\ FramesPlaced
  /\ ArgvNeverForeign
  /\ ArgvNoReturnedCall
  /\ ArgvUnwound
  /\ ArgvGiven
  /\ ArgumentsLive
  /\ NoSilentLeak

(* There is a call in progress when the top frame is not the main program. *)
LEMMA TopPlaced ==
  ASSUME TypeOK, FramesPlaced, Top.pc # "main"
  PROVE  /\ depth \in 1..MaxDepth
         /\ Placed(Top)
         /\ Top \in Frame
         /\ Top.fn \in Fun
         /\ Top.id \in 1..calls
         /\ Top.id \in LiveCalls
<1>1. depth \in 0..MaxDepth /\ Top \in Frame
  BY CallAssumption DEF TypeOK, Top
<1>2. depth # 0
  BY <1>1 DEF FramesPlaced, Top, Main
<1>3. depth \in 1..MaxDepth /\ depth \in 1..depth
  BY <1>1, <1>2, CallAssumption
<1>4. Placed(Top) /\ Top.id \in 1..calls
  BY <1>3 DEF FramesPlaced, Top
<1>5. Top.id \in LiveCalls
  BY <1>3 DEF LiveCalls, Top
<1> QED
  BY <1>1, <1>3, <1>4, <1>5 DEF Placed

(* A step within the top frame.                                            *)
LEMMA ResumeFrames ==
  ASSUME TypeOK, FramesPlaced, Top.pc # "main",
         NEW fr \in Frame, fr.id = Top.id, Placed(fr), Resume(fr)
  PROVE  /\ depth' = depth /\ calls' = calls /\ aborted' = aborted
         /\ frame' \in [0..MaxDepth -> Frame]
         /\ FramesPlaced'
         /\ LiveCalls' = LiveCalls
         /\ Top' = fr
<1>1. /\ depth' = depth /\ calls' = calls /\ aborted' = aborted
      /\ frame' = [frame EXCEPT ![depth] = fr]
  BY DEF Resume
<1>2. depth \in 1..MaxDepth /\ depth \in 0..MaxDepth /\ Top.id \in 1..calls
  BY TopPlaced, CallAssumption
<1>3. frame \in [0..MaxDepth -> Frame]
  BY DEF TypeOK
<1>4. frame' \in [0..MaxDepth -> Frame] /\ Top' = fr
  BY <1>1, <1>2, <1>3 DEF Top
<1>5. \A d \in 0..MaxDepth : frame'[d] = IF d = depth THEN fr ELSE frame[d]
  BY <1>1, <1>3
<1>6. 1..depth \subseteq 0..MaxDepth
  BY <1>2, CallAssumption
<1>7. \A d \in 1..depth : frame'[d].id = frame[d].id
  BY <1>5, <1>6 DEF Top
<1>8. LiveCalls' = LiveCalls
  BY <1>1, <1>7 DEF LiveCalls
<1>9. FramesPlaced'
  <2>1. \A d \in 1..depth : Placed(frame'[d]) /\ frame'[d].id \in 1..calls
    BY <1>2, <1>5, <1>6, <1>7 DEF FramesPlaced
  <2>2. \A d \in 0..MaxDepth : d \notin 1..depth => frame'[d] = Main
    BY <1>2, <1>5 DEF FramesPlaced
  <2>3. \A d, e \in 1..depth : d < e => frame'[d].id < frame'[e].id
    BY <1>7 DEF FramesPlaced
  <2>4. (\A d \in 1..depth : Placed(frame[d]) /\ frame[d].id \in 1..calls)'
    BY <1>1, <2>1 DEF Placed
  <2> QED
    BY <1>1, <2>2, <2>3, <2>4 DEF FramesPlaced
<1> QED
  BY <1>1, <1>4, <1>8, <1>9

(* The top frame is left, by a return or by an exception.                  *)
LEMMA LeaveFrames ==
  ASSUME TypeOK, FramesPlaced, Top.pc # "main", Leave
  PROVE  /\ depth' \in 0..MaxDepth /\ calls' = calls
         /\ frame' \in [0..MaxDepth -> Frame]
         /\ FramesPlaced'
         /\ LiveCalls' = LiveCalls \ {Top.id}
         /\ depth' > 0 => Top'.id \in Nat /\ Top'.id < Top.id
         /\ depth' = 0 => Top'.pc = "main"
<1>1. /\ depth' = depth - 1 /\ calls' = calls
      /\ frame' = [frame EXCEPT ![depth] = Main]
  BY DEF Leave
<1>2. depth \in 1..MaxDepth /\ depth \in 0..MaxDepth /\ calls \in Nat
  BY TopPlaced, CallAssumption DEF TypeOK
<1>3. frame \in [0..MaxDepth -> Frame] /\ Main \in Frame
  BY DEF TypeOK, Main, Frame, Pc, NULL
<1>4. depth' \in 0..MaxDepth /\ frame' \in [0..MaxDepth -> Frame]
  BY <1>1, <1>2, <1>3, CallAssumption
<1>5. \A d \in 0..MaxDepth : frame'[d] = IF d = depth THEN Main ELSE frame[d]
  BY <1>1, <1>3
<1>6. /\ 1..depth - 1 \subseteq 0..MaxDepth
      /\ 1..depth = (1..depth - 1) \cup {depth}
      /\ depth \notin 1..depth - 1
  BY <1>2, CallAssumption
<1>7. \A d \in 1..depth - 1 : frame'[d] = frame[d]
  BY <1>5, <1>6
<1>8. LiveCalls' = LiveCalls \ {Top.id}
  <2>1. LiveCalls' = {frame[d].id : d \in 1..depth - 1}
    BY <1>1, <1>7 DEF LiveCalls
  <2>2. \A d \in 1..depth - 1 : frame[d].id # Top.id
    <3>1. TAKE d \in 1..depth - 1
    <3>2. d \in 1..depth /\ depth \in 1..depth /\ d < depth
      BY <1>2
    <3>3. frame[d].id < Top.id /\ frame[d].id \in Nat /\ Top.id \in Nat
      BY <3>2 DEF FramesPlaced, Top
    <3> QED
      BY <3>3
  <2>3. LiveCalls = {frame[d].id : d \in 1..depth - 1} \cup {Top.id}
    BY <1>6 DEF LiveCalls, Top
  <2> QED
    BY <2>1, <2>2, <2>3
<1>9. FramesPlaced'
  <2>1. \A d \in 1..depth - 1 : Placed(frame'[d]) /\ frame'[d].id \in 1..calls
    BY <1>6, <1>7 DEF FramesPlaced
  <2>2. \A d \in 0..MaxDepth : d \notin 1..depth - 1 => frame'[d] = Main
    BY <1>5, <1>6 DEF FramesPlaced
  <2>3. \A d, e \in 1..depth - 1 : d < e => frame'[d].id < frame'[e].id
    BY <1>6, <1>7 DEF FramesPlaced
  <2> QED
    BY <1>1, <2>1, <2>2, <2>3 DEF FramesPlaced, Placed
<1>10. Top' = frame'[depth - 1]
  BY <1>1 DEF Top
<1>11. ASSUME depth' > 0
       PROVE  Top'.id \in Nat /\ Top'.id < Top.id
  <2>1. depth - 1 \in 1..depth - 1 /\ depth - 1 \in 1..depth /\ depth \in 1..depth
    BY <1>1, <1>2, <1>11
  <2>2. Top' = frame[depth - 1] /\ depth - 1 < depth
    BY <1>2, <1>7, <1>10, <2>1
  <2> QED
    BY <1>2, <2>1, <2>2 DEF FramesPlaced, Top
<1>12. ASSUME depth' = 0
       PROVE  Top'.pc = "main"
  <2>1. Top' = frame'[0] /\ 0 \in 0..MaxDepth /\ depth = 1
    <3>1. depth = 1
      BY <1>1, <1>2, <1>12
    <3> QED
      BY <1>10, <3>1, CallAssumption
  <2>2. frame[0] = Main
    BY <2>1, <1>6, <1>2 DEF FramesPlaced
  <2> QED
    BY <1>5, <2>1, <2>2 DEF Main
<1> QED
  BY <1>1, <1>4, <1>8, <1>9, <1>11, <1>12

(* A step within the top frame keeps the invariant when it leaves the heap *)
(* lists alone, and current_argv too or sets it to NULL for the native     *)
(* function and to this call's buffer elsewhere.                           *)
LEMMA ResumeInv ==
  ASSUME IInv, Top.pc # "main",
         NEW fr \in Frame, fr.id = Top.id, Placed(fr), Resume(fr),
         heap' = heap, keepers' \in Seq(Keeper),
         \/ argv' = NULL /\ fr.pc \in {"native", "callback"}
         \/ argv' = Top.id /\ fr.pc \notin {"native", "callback"}
         \/ /\ argv' = argv
            /\ fr.pc \in {"native", "callback"} <=> Top.pc \in {"native", "callback"}
  PROVE  IInv'
<1>1. TypeOK /\ FramesPlaced
  BY DEF IInv
<1>2. /\ depth' = depth /\ calls' = calls /\ aborted' = aborted
      /\ frame' \in [0..MaxDepth -> Frame]
      /\ FramesPlaced'
      /\ LiveCalls' = LiveCalls
      /\ Top' = fr
  BY <1>1, ResumeFrames
<1>3. Top.id \in LiveCalls /\ Top.id \in 1..calls
  BY <1>1, TopPlaced
<1>4. NULL \notin LiveCalls
  BY <1>1 DEF LiveCalls, FramesPlaced, NULL
<1>5. TypeOK'
  <2>1. argv' \in Nat
    BY <1>1, <1>3 DEF TypeOK, NULL
  <2> QED
    BY <1>1, <1>2, <2>1 DEF TypeOK, Frame
<1>6. ArgvNeverForeign'
  BY <1>2, <1>4 DEF IInv, ArgvNeverForeign
<1>7. ArgvNoReturnedCall'
  BY <1>2, <1>3 DEF IInv, ArgvNoReturnedCall, NULL
<1>8. ArgumentsLive' /\ NoSilentLeak'
  BY <1>2 DEF IInv, ArgumentsLive, NoSilentLeak
<1>9. ArgvUnwound'
  BY <1>2, <1>3 DEF IInv, ArgvUnwound
<1>10. ArgvGiven'
  BY <1>2 DEF IInv, ArgvGiven
<1> QED
  BY <1>2, <1>5, <1>6, <1>7, <1>8, <1>9, <1>10 DEF IInv

(* Leaving the top frame keeps it when either the heap list is freed or    *)
(* the call counts as unwound, and current_argv stays only for the latter. *)
LEMMA LeaveInv ==
  ASSUME IInv, Top.pc # "main", Leave,
         keepers' \in Seq(Keeper),
         aborted' \in {aborted, aborted \cup {Top.id}},
         heap' = heap \ {Top.id} \/ (heap' = heap /\ Top.id \in aborted'),
         argv' = NULL \/ (argv' = argv /\ Top.id \in aborted')
  PROVE  IInv'
<1>1. TypeOK /\ FramesPlaced
  BY DEF IInv
<1>2. /\ depth' \in 0..MaxDepth /\ calls' = calls
      /\ frame' \in [0..MaxDepth -> Frame]
      /\ FramesPlaced'
      /\ LiveCalls' = LiveCalls \ {Top.id}
      /\ depth' > 0 => Top'.id \in Nat /\ Top'.id < Top.id
      /\ depth' = 0 => Top'.pc = "main"
  BY <1>1, LeaveFrames
<1>3. Top.id \in 1..calls
  BY <1>1, TopPlaced
<1>4. NULL \notin LiveCalls
  BY <1>1 DEF LiveCalls, FramesPlaced, NULL
<1>5. TypeOK'
  <2>1. Top.id \in Nat
    BY <1>3
  <2>2. heap' \subseteq Nat /\ aborted' \subseteq Nat
    BY <1>1, <2>1 DEF TypeOK
  <2>3. argv' \in Nat /\ calls' \in Nat /\ keepers' \in Seq(Keeper)
    BY <1>1, <1>2 DEF TypeOK, NULL
  <2> QED
    BY <1>2, <2>2, <2>3 DEF TypeOK, Frame
<1>6. ArgvNeverForeign'
  BY <1>2, <1>4 DEF IInv, ArgvNeverForeign
<1>7. ArgvNoReturnedCall'
  BY <1>2 DEF IInv, ArgvNoReturnedCall, NULL
<1>8. ArgumentsLive' /\ NoSilentLeak'
  BY <1>2 DEF IInv, ArgumentsLive, NoSilentLeak
<1>9. ArgvUnwound'
  <2> SUFFICES ASSUME depth' > 0, argv' # NULL, argv' \notin LiveCalls'
               PROVE  argv' > Top'.id
    BY DEF ArgvUnwound
  <2>1. argv' = argv /\ depth > 0 /\ argv \in Nat /\ Top.id \in Nat
    BY <1>1, <1>3, TopPlaced DEF TypeOK
  <2>2. argv = Top.id \/ argv > Top.id
    BY <2>1 DEF IInv, ArgvNeverForeign, ArgvUnwound
  <2> QED
    BY <1>2, <2>1, <2>2
<1>10. ArgvGiven'
  <2> SUFFICES ASSUME Top'.pc # "main", Top'.id = calls'
               PROVE  FALSE
    BY DEF ArgvGiven
  <2>1. depth' > 0
    BY <1>2
  <2> QED
    BY <1>1, <1>2, <1>3, <2>1 DEF TypeOK
<1> QED
  BY <1>2, <1>5, <1>6, <1>7, <1>8, <1>9, <1>10 DEF IInv

-----------------------------------------------------------------------------
(* Arguments on the way in and on the way out                              *)

(* While an argument is converted, its type is what the loop reads, and    *)
(* the step to the next argument lands on that one's first slot.           *)
LEMMA NextInPlaced ==
  ASSUME TypeOK, FramesPlaced, MoreIn \/ At("perl_to_native")
  PROVE  /\ Top.pc # "main"
         /\ Top.p \in 1..Len(Args[Top.fn])
         /\ Top.i = FirstSlot(Top.fn, Top.p)
         /\ TopType = Args[Top.fn][Top.p]
         /\ NextIn \in Frame
         /\ NextIn.id = Top.id
         /\ NextIn.pc = "in"
         /\ Placed(NextIn)
<1> DEFINE f == Top.fn
           n == Len(Args[f])
<1>1. Top.pc \in {"in", "perl_to_native"} /\ Top.pc # "main"
  BY DEF MoreIn, At
<1>2. Placed(Top) /\ Top \in Frame /\ f \in Fun
  BY <1>1, TopPlaced
<1>3. n \in Nat
  BY <1>2, ArgsType
<1>4. Top.p \in 1..n /\ Top.i = FirstSlot(f, Top.p)
  <2>1. CASE Top.pc = "in"
    <3>1. Top.p \in 1..n + 1 /\ Top.i = FirstSlot(f, Top.p)
      BY <1>2, <2>1 DEF Placed
    <3>2. Top.i < FirstSlot(f, n + 1)
      BY <2>1 DEF MoreIn, At, NArgs
    <3>3. FirstSlot(f, Top.p) \in Nat
      BY <1>2, <3>1, FirstSlotType
    <3>4. Top.p # n + 1
      BY <3>1, <3>2, <3>3
    <3> QED
      BY <1>3, <3>1, <3>4
  <2>2. CASE Top.pc = "perl_to_native"
    BY <1>2, <2>2 DEF Placed
  <2> QED
    BY <1>1, <2>1, <2>2
<1>5. /\ Args[f][Top.p].extra \in Nat
      /\ FirstSlot(f, Top.p) \in Nat
      /\ FirstSlot(f, Top.p + 1) = FirstSlot(f, Top.p) + 1 + Args[f][Top.p].extra
  BY <1>2, <1>3, <1>4, ArgsType, FirstSlotType, FirstSlotNext
<1>6. TopType = Args[f][Top.p]
  BY <1>2, <1>4, <1>5, TypeAtArg DEF TopType
<1>7. /\ NextIn.id = Top.id /\ NextIn.fn = f /\ NextIn.pc = "in"
      /\ NextIn.i = FirstSlot(f, Top.p + 1) /\ NextIn.p = Top.p + 1
  BY <1>2, <1>4, <1>5, <1>6 DEF NextIn, Frame
<1>8. Top.p + 1 \in 1..n + 1 /\ FirstSlot(f, Top.p + 1) \in Nat
  BY <1>3, <1>4, <1>5
<1>9. NextIn \in Frame
  <2>1. /\ "in" \in Pc /\ Top.p + 1 \in Int
        /\ Top.i + 1 + TopType.extra \in Int
    BY <1>3, <1>4, <1>5, <1>6 DEF Pc
  <2> QED
    BY <1>2, <2>1 DEF NextIn, Frame
<1>10. Placed(NextIn)
  BY <1>2, <1>7, <1>8 DEF Placed
<1> QED
  BY <1>1, <1>4, <1>6, <1>7, <1>9, <1>10

(* On the way out, the slot is the last one of an argument; stepping over  *)
(* the extra slots of its type lands on its first.                         *)
LEMMA OutPlaced ==
  ASSUME TypeOK, FramesPlaced, MoreOut
  PROVE  /\ Top.pc # "main"
         /\ Top.p \in 1..Len(Args[Top.fn])
         /\ TopType = Args[Top.fn][Top.p]
         /\ TopType.extra \in Nat
         /\ Top.i - TopType.extra = FirstSlot(Top.fn, Top.p)
         /\ FirstSlot(Top.fn, Top.p) \in Nat
<1> DEFINE f == Top.fn
           n == Len(Args[f])
<1>1. Top.pc = "out" /\ Top.i >= 0
  BY DEF MoreOut, At
<1>2. Placed(Top) /\ Top \in Frame /\ f \in Fun
  BY <1>1, TopPlaced
<1>3. n \in Nat
  BY <1>2, ArgsType
<1>4. Top.p \in 0..n /\ Top.i = FirstSlot(f, Top.p + 1) - 1
  BY <1>1, <1>2 DEF Placed
<1>5. Top.p # 0
  BY <1>1, <1>2, <1>4, FirstSlotOne
<1>6. Top.p \in 1..n
  BY <1>3, <1>4, <1>5
<1>7. /\ Args[f][Top.p].extra \in Nat
      /\ FirstSlot(f, Top.p) \in Nat
      /\ FirstSlot(f, Top.p + 1) = FirstSlot(f, Top.p) + 1 + Args[f][Top.p].extra
  BY <1>2, <1>3, <1>6, ArgsType, FirstSlotType, FirstSlotNext
<1>8. TopType = Args[f][Top.p]
  <2>1. /\ Top.i \in Int
        /\ FirstSlot(f, Top.p) <= Top.i /\ Top.i < FirstSlot(f, Top.p + 1)
    BY SMTT(30), <1>4, <1>7
  <2> QED
    BY <1>2, <1>6, <2>1, TypeAtArg DEF TopType
<1> QED
  BY <1>1, <1>4, <1>6, <1>7, <1>8

(* The step to the previous argument lands on that one's last slot.        *)
LEMMA NextOutPlaced ==
  ASSUME TypeOK, FramesPlaced, Top.pc # "main",
         Top.p \in 1..Len(Args[Top.fn]), NEW i, i = FirstSlot(Top.fn, Top.p)
  PROVE  /\ NextOut(i) \in Frame
         /\ NextOut(i).id = Top.id
         /\ NextOut(i).pc = "out"
         /\ Placed(NextOut(i))
<1> DEFINE f == Top.fn
           n == Len(Args[f])
<1>1. Top \in Frame /\ f \in Fun
  BY TopPlaced
<1>2. n \in Nat /\ FirstSlot(f, Top.p) \in Nat
  BY <1>1, ArgsType, FirstSlotType
<1>3. /\ NextOut(i).id = Top.id /\ NextOut(i).fn = f /\ NextOut(i).pc = "out"
      /\ NextOut(i).i = FirstSlot(f, Top.p) - 1 /\ NextOut(i).p = Top.p - 1
  BY <1>1 DEF NextOut, Frame
<1>4. Top.p - 1 \in 0..n /\ (Top.p - 1) + 1 = Top.p
  BY <1>2
<1>5. NextOut(i) \in Frame
  <2>1. "out" \in Pc /\ Top.p - 1 \in Int /\ i - 1 \in Int
    BY <1>2 DEF Pc
  <2> QED
    BY <1>1, <2>1 DEF NextOut, Frame
<1>6. Placed(NextOut(i))
  BY <1>1, <1>3, <1>4 DEF Placed
<1> QED
  BY <1>3, <1>5, <1>6

-----------------------------------------------------------------------------
(* Invariance                                                              *)

(* A push and a pop leave a list of keepers.                               *)
LEMMA KeepersType ==
  ASSUME TypeOK, FramesPlaced
  PROVE  /\ PopKeeper => keepers' \in Seq(Keeper)
         /\ Top.pc # "main" /\ Top.p \in Nat /\ Keep => keepers' \in Seq(Keeper)
<1>1. keepers \in Seq(Keeper)
  BY DEF TypeOK
<1>2. PopKeeper => keepers' \in Seq(Keeper)
  <2>1. CASE keepers = << >>
    BY <1>1, <2>1 DEF PopKeeper
  <2>2. CASE keepers # << >>
    <3>1. Len(keepers) \in Nat /\ Len(keepers) # 0
      BY <1>1, <2>2
    <3>2. \A k \in 1..Len(keepers) - 1 : keepers[k] \in Keeper
      BY <1>1, <3>1
    <3>3. SubSeq(keepers, 1, Len(keepers) - 1) \in Seq(Keeper)
      BY <1>1, <3>1, <3>2
    <3> QED
      BY <2>2, <3>3 DEF PopKeeper
  <2> QED
    BY <2>1, <2>2
<1>3. ASSUME Top.pc # "main", Top.p \in Nat, Keep
      PROVE  keepers' \in Seq(Keeper)
  <2>1. Top.id \in 1..calls /\ calls \in Nat
    BY <1>3, TopPlaced DEF TypeOK
  <2>2. [id |-> Top.id, p |-> Top.p] \in Keeper
    BY <1>3, <2>1 DEF Keeper
  <2> QED
    BY <1>1, <1>3, <2>2 DEF Keep
<1> QED
  BY <1>2, <1>3

(* The last argument has been converted back.                              *)
LEMMA OutDone ==
  ASSUME Placed(Top), Top.pc = "out", Top.i < 0
  PROVE  Top.p = 0 /\ Top.i = -1
<1> DEFINE n == Len(Args[Top.fn])
<1>1. /\ Top.fn \in Fun
      /\ n \in Nat /\ Top.p \in 0..n
      /\ Top.i = FirstSlot(Top.fn, Top.p + 1) - 1
  BY ArgsType DEF Placed
<1>2. /\ FirstSlot(Top.fn, Top.p + 1) \in Nat
      /\ FirstSlot(Top.fn, 1) = 0
  BY <1>1, FirstSlotType, FirstSlotOne
<1>3. CASE Top.p \in 1..n
  <2>1. /\ FirstSlot(Top.fn, Top.p) \in Nat
        /\ Args[Top.fn][Top.p].extra \in Nat
        /\ FirstSlot(Top.fn, Top.p + 1)
             = FirstSlot(Top.fn, Top.p) + 1 + Args[Top.fn][Top.p].extra
    BY <1>1, <1>3, ArgsType, FirstSlotType, FirstSlotNext
  <2> QED
    BY <1>1, <2>1
<1> QED
  BY <1>1, <1>2, <1>3

(* A phase of the top frame changes and nothing else of it.                *)
LEMMA PhaseFrame ==
  ASSUME TypeOK, FramesPlaced, Top.pc # "main", NEW pc \in Pc
  PROVE  LET fr == [Top EXCEPT !.pc = pc]
         IN  /\ fr \in Frame
             /\ fr.id = Top.id /\ fr.fn = Top.fn /\ fr.pc = pc
             /\ fr.i = Top.i /\ fr.p = Top.p
BY TopPlaced DEF Frame

(* A new call: its frame is placed, and its number is new.                 *)
LEMMA EnterInv ==
  ASSUME IInv, NEW f \in Fun, Enter(f)
  PROVE  IInv'
<1> DEFINE fr == [id |-> calls + 1, fn |-> f, pc |-> "in", i |-> 0, p |-> 1]
<1>1. TypeOK /\ FramesPlaced
  BY DEF IInv
<1>2. /\ calls' = calls + 1 /\ depth' = depth + 1
      /\ frame' = [frame EXCEPT ![depth + 1] = fr]
      /\ argv' = calls + 1 /\ heap' = heap \cup {calls + 1}
      /\ keepers' = keepers /\ aborted' = aborted
  BY DEF Enter
<1>3. /\ depth \in Nat /\ depth + 1 \in 0..MaxDepth
      /\ calls \in Nat /\ MaxDepth \in Nat
  BY <1>1, CallAssumption DEF TypeOK, Enter
<1>4. Placed(fr)
  <2>1. Len(Args[f]) \in Nat
    BY ArgsType
  <2>2. fr.p \in 1..Len(Args[f]) + 1 /\ fr.i = FirstSlot(f, fr.p)
    BY <2>1, FirstSlotOne
  <2> QED
    BY <2>2 DEF Placed
<1>5. fr \in Frame /\ frame \in [0..MaxDepth -> Frame]
  BY <1>1, <1>3 DEF TypeOK, Frame, Pc
<1>6. /\ frame' \in [0..MaxDepth -> Frame]
      /\ \A d \in 0..MaxDepth : frame'[d] = IF d = depth + 1 THEN fr ELSE frame[d]
      /\ Top' = fr
  BY <1>2, <1>3, <1>5 DEF Top
<1>7. /\ 1..depth + 1 = (1..depth) \cup {depth + 1}
      /\ depth + 1 \notin 1..depth
      /\ 1..depth + 1 \subseteq 0..MaxDepth
  BY <1>3
<1>8. \A d \in 1..depth : frame'[d] = frame[d]
  BY <1>6, <1>7
<1>9. LiveCalls' = LiveCalls \cup {calls + 1}
  BY <1>2, <1>6, <1>7, <1>8 DEF LiveCalls
<1>10. TypeOK'
  BY <1>1, <1>2, <1>3, <1>6 DEF TypeOK, Frame
<1>11. FramesPlaced'
  <2>1. \A d \in 1..depth + 1 : Placed(frame'[d]) /\ frame'[d].id \in 1..calls + 1
    <3>1. \A d \in 1..depth : Placed(frame'[d]) /\ frame'[d].id \in 1..calls
      BY <1>1, <1>8 DEF FramesPlaced
    <3>2. frame'[depth + 1] = fr
      BY <1>3, <1>6
    <3>3. Placed(frame'[depth + 1]) /\ frame'[depth + 1].id \in 1..calls + 1
      BY <1>3, <1>4, <3>2
    <3> QED
      BY <1>3, <1>7, <3>1, <3>3
  <2>2. \A d \in 0..MaxDepth : d \notin 1..depth + 1 => frame'[d] = Main
    BY <1>1, <1>6, <1>7 DEF FramesPlaced
  <2>3. \A d, e \in 1..depth + 1 : d < e => frame'[d].id < frame'[e].id
    <3>1. frame'[depth + 1].id = calls + 1
      BY <1>3, <1>6
    <3>2. \A d \in 1..depth : frame'[d].id \in 1..calls /\ frame'[d].id < calls + 1
      BY <1>1, <1>3, <1>8 DEF FramesPlaced
    <3>3. ASSUME NEW d \in 1..depth + 1, NEW e \in 1..depth + 1, d < e
          PROVE  frame'[d].id < frame'[e].id
      <4>1. d \in 1..depth
        BY <1>3, <3>3
      <4>2. CASE e \in 1..depth
        BY <1>1, <1>8, <3>3, <4>1, <4>2 DEF FramesPlaced
      <4>3. CASE e = depth + 1
        BY <3>1, <3>2, <4>1, <4>3
      <4> QED
        BY <1>7, <4>2, <4>3
    <3> QED
      BY <3>3
  <2> QED
    BY <1>2, <2>1, <2>2, <2>3 DEF FramesPlaced, Placed
<1>12. ArgvNeverForeign' /\ ArgvNoReturnedCall' /\ ArgvUnwound' /\ ArgvGiven'
  BY <1>2, <1>6, <1>9
     DEF ArgvNeverForeign, ArgvNoReturnedCall, ArgvUnwound, ArgvGiven
<1>13. ArgumentsLive' /\ NoSilentLeak'
  BY <1>2, <1>9 DEF IInv, ArgumentsLive, NoSilentLeak
<1> QED
  BY <1>10, <1>11, <1>12, <1>13 DEF IInv

(* Every way to finish the conversion of an argument.                      *)
LEMMA StoreInv ==
  ASSUME IInv, MoreIn \/ At("perl_to_native"),
         \/ Store /\ (keepers' = keepers \/ Keep)
         \/ Resume(NextIn) /\ argv' = argv /\ heap' = heap /\ keepers' = keepers
  PROVE  IInv'
<1>1. TypeOK /\ FramesPlaced
  BY DEF IInv
<1>2. /\ Top.pc # "main" /\ Top.p \in 1..Len(Args[Top.fn])
      /\ NextIn \in Frame /\ NextIn.id = Top.id
      /\ NextIn.pc = "in" /\ Placed(NextIn)
  BY <1>1, NextInPlaced
<1>3. Top.fn \in Fun /\ Top.p \in Nat
  <2>1. Top.fn \in Fun
    BY <1>1, <1>2, TopPlaced
  <2> QED
    BY <1>2, <2>1, ArgsType
<1>4. keepers' \in Seq(Keeper)
  BY <1>1, <1>2, <1>3, KeepersType DEF TypeOK
<1>5. CASE Resume(NextIn) /\ argv' = argv /\ heap' = heap
  <2>1. Top.pc \notin {"native", "callback"}
    BY DEF MoreIn, At
  <2> QED
    BY <1>2, <1>4, <1>5, <2>1, ResumeInv
<1>6. CASE Croak
  <2>1. /\ Leave
        /\ heap' = heap \ {Top.id}
        /\ aborted' = aborted \cup {Top.id}
        /\ argv' = argv
    BY <1>6 DEF Croak
  <2> QED
    BY <1>2, <1>4, <2>1, LeaveInv
<1> QED
  BY <1>5, <1>6 DEF Store, Refuse

(* The initial state.                                                      *)
LEMMA InitInv == Init => IInv
<1> SUFFICES ASSUME Init
             PROVE  IInv
  OBVIOUS
<1>1. /\ depth = 0 /\ calls = 0 /\ argv = NULL
      /\ heap = {} /\ keepers = << >> /\ aborted = {}
      /\ frame = [d \in 0..MaxDepth |-> Main]
  BY DEF Init
<1>2. 1..depth = {} /\ LiveCalls = {}
  BY <1>1 DEF LiveCalls
<1>3. Main \in Frame
  BY DEF Main, Frame, Pc, NULL
<1>4. TypeOK
  BY <1>1, <1>3, CallAssumption DEF TypeOK, NULL
<1>5. FramesPlaced
  BY <1>1, <1>2 DEF FramesPlaced
<1>6. ArgvUnwound /\ ArgvGiven
  <2>1. Top = Main
    BY <1>1, CallAssumption DEF Top
  <2> QED
    BY <1>1, <2>1 DEF ArgvUnwound, ArgvGiven, Main
<1> QED
  BY <1>1, <1>2, <1>4, <1>5, <1>6
     DEF IInv, ArgvNeverForeign, ArgvNoReturnedCall, ArgumentsLive, NoSilentLeak

(* Every step: one case for each action.                                   *)
LEMMA NextInv == IInv /\ [Next]_vars => IInv'
<1> SUFFICES ASSUME IInv, [Next]_vars
             PROVE  IInv'
  OBVIOUS
<1>1. TypeOK /\ FramesPlaced /\ keepers \in Seq(Keeper)
  BY DEF IInv, TypeOK
<1>2. ASSUME NEW f \in Fun, Enter(f)
      PROVE  IInv'
  BY <1>2, EnterInv
<1>3. CASE PlainIn \/ CopyIn \/ ConvertedIn \/ ConvertedInEmpty
  <2>1. MoreIn \/ At("perl_to_native")
    BY <1>3 DEF PlainIn, CopyIn, ConvertedIn, ConvertedInEmpty
  <2>2. \/ Store /\ (keepers' = keepers \/ Keep)
        \/ Resume(NextIn) /\ argv' = argv /\ heap' = heap /\ keepers' = keepers
    BY <1>3 DEF PlainIn, CopyIn, ConvertedIn, ConvertedInEmpty
  <2> QED
    BY <2>1, <2>2, StoreInv
<1>4. CASE ConvertIn
  <2> DEFINE fr == [Top EXCEPT !.pc = "perl_to_native"]
  <2>1. /\ MoreIn /\ TopType.custom /\ Resume(fr)
        /\ argv' = argv /\ heap' = heap /\ keepers' = keepers
    BY <1>4 DEF ConvertIn
  <2>2. /\ Top.pc # "main" /\ Top.p \in 1..Len(Args[Top.fn])
        /\ Top.i = FirstSlot(Top.fn, Top.p)
        /\ TopType = Args[Top.fn][Top.p]
    BY <1>1, <2>1, NextInPlaced
  <2>3. "perl_to_native" \in Pc /\ Top.fn \in Fun
    BY <1>1, <2>2, TopPlaced DEF Pc
  <2>4. /\ fr \in Frame /\ fr.id = Top.id /\ fr.fn = Top.fn
        /\ fr.pc = "perl_to_native" /\ fr.i = Top.i /\ fr.p = Top.p
    BY <1>1, <2>2, <2>3, PhaseFrame
  <2>5. Placed(fr)
    BY <2>1, <2>2, <2>3, <2>4 DEF Placed
  <2> QED
    BY <1>1, <2>1, <2>2, <2>4, <2>5, ResumeInv DEF MoreIn, At
<1>5. CASE CallNative
  <2> DEFINE fr == [Top EXCEPT !.pc = "native"]
  <2>1. /\ Top.pc = "in" /\ Top.i = NArgs(Top.fn) /\ Resume(fr)
        /\ argv' = NULL /\ heap' = heap /\ keepers' = keepers
    BY <1>5 DEF CallNative, At
  <2>2. /\ Top.pc # "main" /\ "native" \in Pc
        /\ Placed(Top) /\ Top.fn \in Fun
    BY <1>1, <2>1, TopPlaced DEF Pc
  <2>3. /\ fr \in Frame /\ fr.id = Top.id /\ fr.fn = Top.fn
        /\ fr.pc = "native" /\ fr.i = Top.i /\ fr.p = Top.p
    BY <1>1, <2>2, PhaseFrame
  <2>4. Top.p = Len(Args[Top.fn]) + 1
    <3> DEFINE n == Len(Args[Top.fn])
    <3>1. n \in Nat /\ Top.p \in 1..n + 1 /\ Top.i = FirstSlot(Top.fn, Top.p)
      BY <2>1, <2>2, ArgsType DEF Placed
    <3>2. CASE Top.p \in 1..n
      <4>1. /\ Args[Top.fn][Top.p].extra \in Nat
            /\ FirstSlot(Top.fn, Top.p) \in Nat
            /\ FirstSlot(Top.fn, Top.p + 1)
                 = FirstSlot(Top.fn, Top.p) + 1 + Args[Top.fn][Top.p].extra
        BY <2>2, <3>1, <3>2, ArgsType, FirstSlotType, FirstSlotNext
      <4>2. FirstSlot(Top.fn, Top.p + 1) <= FirstSlot(Top.fn, n + 1)
        <5>1. Top.p + 1 \in 1..n + 1 /\ n + 1 \in 1..n + 1 /\ Top.p + 1 <= n + 1
          BY <3>1, <3>2
        <5> QED
          BY <2>2, <5>1, FirstSlotMonotone
      <4>3. FirstSlot(Top.fn, n + 1) = FirstSlot(Top.fn, Top.p)
        BY <2>1, <3>1 DEF NArgs
      <4> QED
        BY <4>1, <4>2, <4>3
    <3> QED
      BY <3>1, <3>2
  <2>5. Placed(fr)
    BY <2>1, <2>2, <2>3, <2>4 DEF Placed
  <2> QED
    BY <1>1, <2>1, <2>2, <2>3, <2>5, ResumeInv
<1>6. CASE Callback \/ CallbackReturn
  <2>1. PICK pc \in {"native", "callback"} :
           /\ Top.pc \in {"native", "callback"}
           /\ Resume([Top EXCEPT !.pc = pc])
           /\ argv' = argv /\ heap' = heap /\ keepers' = keepers
    BY <1>6 DEF Callback, CallbackReturn, At
  <2> DEFINE fr == [Top EXCEPT !.pc = pc]
  <2>2. Top.pc # "main" /\ pc \in Pc /\ Placed(Top)
    BY <1>1, <2>1, TopPlaced DEF Pc
  <2>3. /\ fr \in Frame /\ fr.id = Top.id /\ fr.fn = Top.fn
        /\ fr.pc = pc /\ fr.i = Top.i /\ fr.p = Top.p
    BY <1>1, <2>2, PhaseFrame
  <2>4. Placed(fr)
    BY <2>1, <2>2, <2>3 DEF Placed
  <2> QED
    BY <1>1, <2>1, <2>2, <2>3, <2>4, ResumeInv
<1>7. CASE NativeReturn
  <2> DEFINE fr == [Top EXCEPT !.pc = "out", !.i = NArgs(Top.fn) - 1, !.p = @ - 1]
             n  == Len(Args[Top.fn])
  <2>1. /\ Top.pc = "native" /\ Resume(fr)
        /\ argv' = Top.id /\ heap' = heap /\ keepers' = keepers
    BY <1>7 DEF NativeReturn, At
  <2>2. Top.pc # "main" /\ Placed(Top) /\ Top \in Frame /\ Top.fn \in Fun
    BY <1>1, <2>1, TopPlaced
  <2>3. n \in Nat /\ Top.p = n + 1
    BY <2>1, <2>2, ArgsType DEF Placed
  <2>4. NArgs(Top.fn) = FirstSlot(Top.fn, n + 1) /\ NArgs(Top.fn) \in Nat
    BY <2>2, <2>3, FirstSlotType DEF NArgs
  <2>5. /\ fr.id = Top.id /\ fr.fn = Top.fn /\ fr.pc = "out"
        /\ fr.i = NArgs(Top.fn) - 1 /\ fr.p = n
    BY <2>2, <2>3 DEF Frame
  <2>6. fr \in Frame
    <3>1. "out" \in Pc /\ NArgs(Top.fn) - 1 \in Int /\ Top.p - 1 \in Int
      BY <2>3, <2>4 DEF Pc
    <3> QED
      BY <2>2, <3>1 DEF Frame
  <2>7. Placed(fr)
    BY <2>2, <2>3, <2>4, <2>5 DEF Placed
  <2> QED
    BY <1>1, <2>1, <2>2, <2>5, <2>6, <2>7, ResumeInv
<1>8. CASE PlainOut
  <2>1. /\ MoreOut /\ ~ TopType.custom /\ Resume(NextOut(Top.i))
        /\ argv' = argv /\ heap' = heap /\ keepers' = keepers
    BY <1>8 DEF PlainOut
  <2>2. /\ Top.pc # "main" /\ Top.p \in 1..Len(Args[Top.fn])
        /\ TopType = Args[Top.fn][Top.p]
        /\ Top.i - TopType.extra = FirstSlot(Top.fn, Top.p)
    BY <1>1, <2>1, OutPlaced
  <2>3. Top.fn \in Fun /\ Top \in Frame
    BY <1>1, <2>2, TopPlaced
  <2>4. TopType.extra = 0
    BY <2>1, <2>2, <2>3, CallAssumption, ArgsType
  <2>5. Top.i = FirstSlot(Top.fn, Top.p)
    BY <2>2, <2>3, <2>4 DEF Frame
  <2>6. /\ NextOut(Top.i) \in Frame /\ NextOut(Top.i).id = Top.id
        /\ NextOut(Top.i).pc = "out" /\ Placed(NextOut(Top.i))
    BY <1>1, <2>2, <2>5, NextOutPlaced
  <2> QED
    BY <1>1, <2>1, <2>2, <2>6, ResumeInv DEF MoreOut, At
<1>9. CASE PostOut
  <2> DEFINE i  == Top.i - TopType.extra
             fr == [Top EXCEPT !.pc = "perl_to_native_post", !.i = i]
  <2>1. /\ MoreOut /\ TopType.custom
        /\ argv' = argv /\ heap' = heap
        /\ \/ Resume(fr) /\ keepers' = keepers
           \/ Resume(NextOut(i)) /\ PopKeeper
    BY <1>9 DEF PostOut
  <2>2. /\ Top.pc # "main" /\ Top.p \in 1..Len(Args[Top.fn])
        /\ TopType = Args[Top.fn][Top.p]
        /\ i = FirstSlot(Top.fn, Top.p) /\ i \in Nat
    BY <1>1, <2>1, OutPlaced
  <2>3. Top.fn \in Fun /\ Top \in Frame
    BY <1>1, <2>2, TopPlaced
  <2>4. CASE Resume(fr) /\ keepers' = keepers
    <3>1. /\ fr.id = Top.id /\ fr.fn = Top.fn /\ fr.pc = "perl_to_native_post"
          /\ fr.i = i /\ fr.p = Top.p
      BY <2>3 DEF Frame
    <3>2. fr \in Frame
      <4>1. "perl_to_native_post" \in Pc /\ i \in Int
        BY <2>2 DEF Pc
      <4> QED
        BY <2>3, <4>1 DEF Frame
    <3>3. Placed(fr)
      BY <2>1, <2>2, <2>3, <3>1 DEF Placed
    <3> QED
      BY <1>1, <2>1, <2>2, <2>4, <3>1, <3>2, <3>3, ResumeInv DEF MoreOut, At
  <2>5. CASE Resume(NextOut(i)) /\ PopKeeper
    <3>1. /\ NextOut(i) \in Frame /\ NextOut(i).id = Top.id
          /\ NextOut(i).pc = "out" /\ Placed(NextOut(i))
      BY <1>1, <2>2, NextOutPlaced
    <3>2. keepers' \in Seq(Keeper)
      BY <1>1, <2>5, KeepersType
    <3> QED
      BY <2>1, <2>2, <2>5, <3>1, <3>2, ResumeInv DEF MoreOut, At
  <2> QED
    BY <2>1, <2>4, <2>5
<1>10. CASE PostReturn
  <2>1. /\ Top.pc = "perl_to_native_post" /\ Resume(NextOut(Top.i)) /\ PopKeeper
        /\ argv' = argv /\ heap' = heap
    BY <1>10 DEF PostReturn, At
  <2>2. /\ Top.pc # "main" /\ Top.p \in 1..Len(Args[Top.fn])
        /\ Top.i = FirstSlot(Top.fn, Top.p)
    BY <1>1, <2>1, TopPlaced DEF Placed
  <2>3. /\ NextOut(Top.i) \in Frame /\ NextOut(Top.i).id = Top.id
        /\ NextOut(Top.i).pc = "out" /\ Placed(NextOut(Top.i))
    BY <1>1, <2>2, NextOutPlaced
  <2>4. keepers' \in Seq(Keeper)
    BY <1>1, <2>1, KeepersType
  <2> QED
    BY <2>1, <2>2, <2>3, <2>4, ResumeInv
<1>11. CASE ConvertReturn
  <2> DEFINE fr == [Top EXCEPT !.pc = "native_to_perl"]
  <2>1. /\ Top.pc = "out" /\ Top.i < 0 /\ Resume(fr)
        /\ argv' = Top.id /\ heap' = heap /\ keepers' = keepers
    BY <1>11 DEF ConvertReturn, At
  <2>2. /\ Top.pc # "main" /\ "native_to_perl" \in Pc
        /\ Placed(Top) /\ Top.fn \in Fun
    BY <1>1, <2>1, TopPlaced DEF Pc
  <2>3. /\ fr \in Frame /\ fr.id = Top.id /\ fr.fn = Top.fn
        /\ fr.pc = "native_to_perl" /\ fr.i = Top.i /\ fr.p = Top.p
    BY <1>1, <2>2, PhaseFrame
  <2>4. Top.p = 0 /\ Top.i = -1
    BY <2>1, <2>2, OutDone
  <2>5. Placed(fr)
    BY <2>2, <2>3, <2>4 DEF Placed
  <2> QED
    BY <1>1, <2>1, <2>2, <2>3, <2>5, ResumeInv
<1>12. CASE Return \/ ConvertedReturn
  <2>1. /\ Top.pc # "main" /\ Leave
        /\ argv' = NULL /\ heap' = heap \ {Top.id}
        /\ keepers' = keepers /\ aborted' = aborted
    BY <1>12 DEF Return, ConvertedReturn, At
  <2> QED
    BY <1>1, <2>1, LeaveInv
<1>13. CASE Die
  <2>1. /\ Top.pc # "main" /\ Leave
        /\ aborted' = aborted \cup {Top.id}
        /\ argv' = argv /\ heap' = heap /\ keepers' = keepers
    BY <1>13 DEF Die, Handler
  <2> QED
    BY <1>1, <2>1, LeaveInv
<1>14. CASE UNCHANGED vars
  <2>1. /\ depth' = depth /\ frame' = frame /\ calls' = calls /\ argv' = argv
        /\ heap' = heap /\ keepers' = keepers /\ aborted' = aborted
    BY <1>14 DEF vars
  <2>2. Top' = Top /\ LiveCalls' = LiveCalls
    BY <2>1 DEF Top, LiveCalls
  <2>3. TypeOK'
    BY <1>1, <2>1 DEF IInv, TypeOK
  <2>4. FramesPlaced'
    BY <1>1, <2>1 DEF IInv, FramesPlaced
  <2>5. ArgvNeverForeign' /\ ArgvNoReturnedCall' /\ ArgvUnwound' /\ ArgvGiven'
    BY <1>1, <2>1, <2>2
       DEF IInv, ArgvNeverForeign, ArgvNoReturnedCall, ArgvUnwound, ArgvGiven
  <2>6. ArgumentsLive' /\ NoSilentLeak'
    BY <1>1, <2>1, <2>2 DEF IInv, ArgumentsLive, NoSilentLeak
  <2> QED
    BY <1>1, <2>1, <2>2, <2>3, <2>4, <2>5, <2>6 DEF IInv
<1> QED
  BY <1>2, <1>3, <1>4, <1>5, <1>6, <1>7, <1>8, <1>9, <1>10, <1>11, <1>12,
     <1>13, <1>14 DEF Next

(* The invariant holds in every reachable state.                           *)
THEOREM Invariance == Spec => []IInv
BY InitInv, NextInv, PTL DEF Spec

(* The variables of the dispatch keep their types: in particular the slot  *)
(* index and the nesting depth stay numbers in their ranges.               *)
THEOREM TypeCorrect == Spec => []TypeOK
<1>1. IInv => TypeOK
  BY DEF IInv
<1> QED
  BY <1>1, Invariance, PTL

(* A handler finds its own call's buffer as long as no call was made since *)
(* that call began; after nested calls none, or that of a call nested in   *)
(* its own that was unwound, and never that of an outer or earlier call.   *)
THEOREM ArgvIsOwn == Spec => []ArgvOwn
<1>1. IInv => ArgvOwn
  BY DEF IInv, ArgvOwn
<1> QED
  BY <1>1, Invariance, PTL

(* The slot and the argument that the C loops count stay together in every *)
(* call in progress, for every signature.                                  *)
THEOREM CallsPlaced == Spec => []FramesPlaced
<1>1. IInv => FramesPlaced
  BY DEF IInv
<1> QED
  BY <1>1, Invariance, PTL

(* The heap list of a call lives exactly as long as the call, except for a *)
(* call that an exception unwound.                                         *)
THEOREM HeapLifetime == Spec => []HeapOfCalls
<1>1. IInv => HeapOfCalls
  BY DEF IInv, HeapOfCalls
<1> QED
  BY <1>1, Invariance, PTL

(* The handlers of an argument are given its first slot, for every         *)
(* signature and every mixture of wide, plain and skipped arguments.       *)
THEOREM HandlersGetTheirSlot == Spec => []HandlerSlot
<1>1. IInv => HandlerSlot
  <2> SUFFICES ASSUME IInv, At("perl_to_native") \/ At("perl_to_native_post")
               PROVE  /\ Top.p \in DOMAIN Args[Top.fn]
                      /\ Top.i = FirstSlot(Top.fn, Top.p)
                      /\ Args[Top.fn][Top.p].custom
    BY DEF HandlerSlot
  <2>1. Top.pc \in {"perl_to_native", "perl_to_native_post"}
    BY DEF At
  <2>2. Placed(Top) /\ Top.fn \in Fun
    BY <2>1, TopPlaced DEF IInv
  <2> QED
    BY <2>1, <2>2, ArgsType DEF Placed
<1> QED
  BY <1>1, Invariance, PTL

-----------------------------------------------------------------------------
(* The stacks of the handlers: the entries are those of the calls in order *)

(* A call that began earlier, or an argument converted earlier.            *)
Before(a, b) == a.id < b.id \/ (a.id = b.id /\ a.p < b.p)

(* Nothing that was pushed later lies below an entry of a live call.       *)
InOrder(s, live) ==
  \A j, k \in DOMAIN s : j < k /\ s[j].id \in live => Before(s[j], s[k])

(* An entry is still to be popped, or it is there because a call was       *)
(* unwound: its own, or one that began later.                              *)
Accounted(e, pending, gone) == e \in pending \/ \E c \in gone : c >= e.id

Ruled(s, pending, live, gone, n) ==
  /\ s \in Seq(Keeper)
  /\ InOrder(s, live)
  /\ \A k \in DOMAIN s : s[k].id <= n /\ Accounted(s[k], pending, gone)

Held(s, pending) == \A e \in pending : \E k \in DOMAIN s : s[k] = e

Popped(s) == IF s = << >> THEN s ELSE SubSeq(s, 1, Len(s) - 1)

(* A stack with its last entry popped, and with an entry pushed.           *)
LEMMA PoppedSeq ==
  ASSUME NEW s \in Seq(Keeper), s # << >>
  PROVE  /\ Len(s) \in Nat \ {0} /\ DOMAIN s = 1..Len(s)
         /\ Popped(s) \in Seq(Keeper)
         /\ DOMAIN Popped(s) = 1..Len(s) - 1
         /\ \A k \in 1..Len(s) - 1 : Popped(s)[k] = s[k]
<1>1. Len(s) \in Nat /\ Len(s) # 0 /\ DOMAIN s = 1..Len(s)
  OBVIOUS
<1>2. \A k \in 1..Len(s) - 1 : s[k] \in Keeper
  BY <1>1
<1>3. Popped(s) = SubSeq(s, 1, Len(s) - 1)
  BY DEF Popped
<1>4. /\ Popped(s) \in Seq(Keeper)
      /\ Len(Popped(s)) = Len(s) - 1
      /\ \A k \in 1..Len(s) - 1 : Popped(s)[k] = s[k]
  BY <1>1, <1>2, <1>3
<1> QED
  BY <1>1, <1>4

LEMMA PushedSeq ==
  ASSUME NEW s \in Seq(Keeper), NEW e \in Keeper
  PROVE  /\ Len(s) \in Nat /\ DOMAIN s = 1..Len(s)
         /\ Append(s, e) \in Seq(Keeper)
         /\ DOMAIN Append(s, e) = 1..Len(s) + 1
         /\ Append(s, e)[Len(s) + 1] = e
         /\ \A k \in 1..Len(s) : Append(s, e)[k] = s[k]
OBVIOUS

(* The rules when the stack stays as it is: calls begin, end, and go on.   *)
LEMMA RuledSame ==
  ASSUME NEW s, NEW pending, NEW live, NEW gone, NEW n \in Nat,
         Ruled(s, pending, live, gone, n),
         NEW pending2, NEW live2, NEW gone2, NEW m \in Nat,
         n <= m, live2 \subseteq live \cup {n + 1}, gone \subseteq gone2,
         \A e \in pending : Accounted(e, pending2, gone2)
  PROVE  Ruled(s, pending2, live2, gone2, m)
<1>1. \A k \in DOMAIN s : s[k].id \in Nat /\ s[k].id <= n
  <2>1. \A k \in DOMAIN s : s[k] \in Keeper /\ s[k].id <= n
    BY DEF Ruled
  <2> QED
    BY <2>1 DEF Keeper
<1>2. InOrder(s, live2)
  BY <1>1 DEF Ruled, InOrder
<1>3. \A k \in DOMAIN s : s[k].id <= m
  BY <1>1
<1>4. \A k \in DOMAIN s : Accounted(s[k], pending2, gone2)
  BY DEF Ruled, Accounted
<1> QED
  BY <1>2, <1>3, <1>4 DEF Ruled

(* An entry is pushed that comes after those of all live calls.            *)
LEMMA RuledPush ==
  ASSUME NEW s, NEW pending, NEW live, NEW gone, NEW n \in Nat,
         Ruled(s, pending, live, gone, n),
         NEW e \in Keeper, e.id <= n,
         \A k \in DOMAIN s : s[k].id \in live => Before(s[k], e),
         NEW pending2, NEW live2, NEW gone2,
         live2 \subseteq live, gone \subseteq gone2,
         \A x \in pending : Accounted(x, pending2, gone2),
         Accounted(e, pending2, gone2)
  PROVE  Ruled(Append(s, e), pending2, live2, gone2, n)
<1> DEFINE t == Append(s, e)
           l == Len(s)
<1>1. /\ l \in Nat /\ DOMAIN s = 1..l /\ t \in Seq(Keeper)
      /\ DOMAIN t = 1..l + 1 /\ t[l + 1] = e
      /\ \A k \in 1..l : t[k] = s[k]
  BY PushedSeq DEF Ruled
<1> HIDE DEF t, l
<1>2. InOrder(t, live2)
  <2> SUFFICES ASSUME NEW j \in 1..l + 1, NEW k \in 1..l + 1, j < k, t[j].id \in live2
               PROVE  Before(t[j], t[k])
    BY <1>1 DEF InOrder
  <2>1. j \in 1..l /\ t[j] = s[j] /\ s[j].id \in live
    BY <1>1
  <2>2. CASE k = l + 1
    BY <1>1, <2>1, <2>2
  <2>3. CASE k # l + 1
    BY <1>1, <2>1, <2>3 DEF Ruled, InOrder
  <2> QED
    BY <2>2, <2>3
<1>3. \A k \in 1..l + 1 : t[k].id <= n /\ Accounted(t[k], pending2, gone2)
  <2> SUFFICES ASSUME NEW k \in 1..l + 1
               PROVE  t[k].id <= n /\ Accounted(t[k], pending2, gone2)
    OBVIOUS
  <2>1. CASE k = l + 1
    BY <1>1, <2>1
  <2>2. CASE k # l + 1
    BY <1>1, <2>2 DEF Ruled, Accounted
  <2> QED
    BY <2>1, <2>2
<1> QED
  BY <1>1, <1>2, <1>3 DEF Ruled, t

(* What lies above the last entry that is to be popped was left there by a *)
(* call that was unwound.                                                  *)
LEMMA LeftAbove ==
  ASSUME NEW s, NEW pending, NEW live, NEW gone \in SUBSET Nat, NEW n \in Nat,
         Ruled(s, pending, live, gone, n),
         NEW own \in Keeper, own.id \in live, \A e \in pending : e = own \/ Before(e, own),
         pending \subseteq Keeper,
         NEW j \in DOMAIN s, NEW k \in DOMAIN s, j < k, s[j] = own
  PROVE  /\ s[k] \notin pending
         /\ \E c \in gone : c >= own.id
<1>1. Before(own, s[k])
  BY DEF Ruled, InOrder
<1>2. s[k] \in Keeper
  BY DEF Ruled
<1>3. own.id \in Nat /\ own.p \in Nat /\ s[k].id \in Nat /\ s[k].p \in Nat
  BY <1>2 DEF Keeper
<1>4. s[k] \notin pending
  BY <1>1, <1>3 DEF Before
<1>5. PICK c \in gone : c >= s[k].id
  BY <1>4 DEF Ruled, Accounted
<1>6. s[k].id >= own.id
  BY <1>1, <1>3 DEF Before
<1>7. c \in Nat
  BY <1>5
<1>8. c >= own.id
  BY <1>3, <1>5, <1>6, <1>7
<1> QED
  BY <1>4, <1>8

(* The last entry that is to be popped is popped, or, if something lies    *)
(* above it or it was popped before, another one that is not.              *)
LEMMA RuledPop ==
  ASSUME NEW s, NEW pending, NEW live, NEW gone \in SUBSET Nat, NEW n \in Nat,
         Ruled(s, pending, live, gone, n),
         NEW own \in Keeper, own.id \in live, \A e \in pending : e = own \/ Before(e, own),
         pending \subseteq Keeper
  PROVE  Ruled(Popped(s), pending \ {own}, live, gone, n)
<1> DEFINE t == Popped(s)
           l == Len(s)
<1>1. CASE s = << >>
  BY <1>1 DEF Popped, Ruled, InOrder
<1>2. CASE s # << >>
  <2>1. /\ l \in Nat \ {0} /\ DOMAIN s = 1..l /\ t \in Seq(Keeper)
        /\ DOMAIN t = 1..l - 1
        /\ \A k \in 1..l - 1 : t[k] = s[k]
    BY <1>2, PoppedSeq DEF Ruled
  <2> HIDE DEF t, l
  <2>2. InOrder(t, live)
    BY <2>1 DEF Ruled, InOrder
  <2>3. ASSUME NEW k \in 1..l - 1
        PROVE  t[k].id <= n /\ Accounted(t[k], pending \ {own}, gone)
    <3>1. t[k] = s[k] /\ k \in DOMAIN s /\ l \in DOMAIN s /\ k < l
      BY <2>1
    <3>2. CASE s[k] = own
      <4>1. \E c \in gone : c >= own.id
        BY <3>1, <3>2, LeftAbove
      <4> QED
        BY <3>1, <3>2, <4>1 DEF Ruled, Accounted
    <3>3. CASE s[k] # own
      BY <3>1, <3>3 DEF Ruled, Accounted
    <3> QED
      BY <3>2, <3>3
  <2> QED
    BY <2>1, <2>2, <2>3 DEF Ruled, t
<1> QED
  BY <1>1, <1>2

(* When nothing that is to be popped was popped before, a pop takes none   *)
(* of the others, and it takes another entry only if a call that began     *)
(* later was unwound.                                                      *)
LEMMA HeldPop ==
  ASSUME NEW s, NEW pending, NEW live, NEW gone \in SUBSET Nat, NEW n \in Nat,
         Ruled(s, pending, live, gone, n), Held(s, pending),
         NEW own \in Keeper, own.id \in live, own \in pending,
         \A e \in pending : e = own \/ Before(e, own),
         pending \subseteq Keeper, own.id \notin gone
  PROVE  /\ Held(Popped(s), pending \ {own})
         /\ s # << >>
         /\ s[Len(s)] # own => \E c \in gone : c > own.id
<1>1. PICK m \in DOMAIN s : s[m] = own
  BY DEF Held
<1>2. s # << >>
  BY <1>1
<1> DEFINE t == Popped(s)
           l == Len(s)
<1>3. /\ l \in Nat \ {0} /\ DOMAIN s = 1..l
      /\ DOMAIN t = 1..l - 1
      /\ \A k \in 1..l - 1 : t[k] = s[k]
  BY <1>2, PoppedSeq DEF Ruled
<1> HIDE DEF t, l
<1>4. ASSUME NEW e \in pending \ {own}
      PROVE  \E k \in DOMAIN t : t[k] = e
  <2>1. PICK j \in DOMAIN s : s[j] = e
    BY DEF Held
  <2>2. j # m
    BY <1>1, <2>1
  <2>3. ~ (m < j)
    <3>1. SUFFICES ASSUME m < j PROVE FALSE
      OBVIOUS
    <3> QED
      BY <1>1, <2>1, <3>1, LeftAbove
  <2>4. j \in 1..l - 1
    BY <1>3, <2>2, <2>3
  <2> QED
    BY <1>3, <2>1, <2>4
<1>5. ASSUME s[l] # own
      PROVE  \E c \in gone : c > own.id
  <2>1. l \in DOMAIN s /\ m < l
    BY <1>1, <1>3, <1>5
  <2>2. PICK c \in gone : c >= own.id
    BY <1>1, <2>1, LeftAbove
  <2>3. c # own.id /\ c \in Nat /\ own.id \in Nat
    BY <2>2 DEF Keeper
  <2>4. c > own.id
    BY <2>2, <2>3
  <2> QED
    BY <2>4
<1> QED
  BY <1>2, <1>4, <1>5 DEF Held, t, l

-----------------------------------------------------------------------------
(* The entries to be popped                                                *)

(* The arguments of a call that perl_to_native_post, or the loop in its    *)
(* place, still pops from custom_keepers.                                  *)
Kept(fr) ==
  {p \in DOMAIN Args[fr.fn] :
     /\ Args[fr.fn][p].custom
     /\ \/ fr.pc \in {"in", "perl_to_native"} /\ p < fr.p
        \/ fr.pc \in {"native", "callback"}
        \/ fr.pc \in {"out", "perl_to_native_post"} /\ p <= fr.p}

(* The two stacks: custom_keepers of the dispatch and @stack of a plugin.  *)
Which == {"keepers", "stack"}

List(w) == IF w = "keepers" THEN keepers ELSE stack

Of(w, fr) == IF w = "keepers" THEN Kept(fr) ELSE Open(fr)

Entries(w, fr) == {[id |-> fr.id, p |-> p] : p \in Of(w, fr)}

UpTo(w, frames, n) == UNION {Entries(w, frames[d]) : d \in 1..n}

Pending(w) == UpTo(w, frame, depth)

Lower(w) == UpTo(w, frame, depth - 1)

(* A call that began later is on top of one that began earlier.            *)
InTurn == \A d, e \in 1..depth : d < e => frame[d].id < frame[e].id

(* While a call converts its arguments, it has pushed for earlier ones.    *)
Room(w) ==
  \A d \in 1..depth : \A k \in DOMAIN List(w) :
     /\ frame[d].pc \in {"in", "perl_to_native"}
     /\ List(w)[k].id = frame[d].id
     => List(w)[k].p < frame[d].p

Rules(w) == Ruled(List(w), Pending(w), LiveCalls, aborted, calls) /\ Room(w)

(* The calls that were unwound are over.                                   *)
UnwoundOver == aborted \cap LiveCalls = {} /\ aborted \subseteq 1..calls

Nested == IInv /\ InTurn /\ UnwoundOver

(* The calls in progress, when there is one.                               *)
LEMMA NestedTop ==
  ASSUME Nested, Top.pc # "main"
  PROVE  /\ TypeOK /\ FramesPlaced /\ InTurn
         /\ depth \in Nat \ {0} /\ calls \in Nat /\ aborted \in SUBSET Nat
         /\ frame \in [0..MaxDepth -> Frame] /\ 1..depth \subseteq 0..MaxDepth
         /\ \A d \in 1..depth : /\ frame[d].id \in Nat /\ frame[d].id <= calls
                                /\ frame[d].fn \in Fun /\ frame[d].p \in Int
         /\ Top \in Frame /\ Top.fn \in Fun
         /\ Top.id \in Nat /\ Top.id <= calls /\ Top.id \in LiveCalls
<1>1. TypeOK /\ FramesPlaced /\ InTurn
  BY DEF Nested, IInv
<1>2. depth \in 1..MaxDepth /\ Top \in Frame /\ Top.fn \in Fun /\ Top.id \in 1..calls /\ Top.id \in LiveCalls
  BY <1>1, TopPlaced
<1>3. calls \in Nat /\ aborted \in SUBSET Nat /\ frame \in [0..MaxDepth -> Frame]
  BY <1>1 DEF TypeOK
<1>4. depth \in Nat \ {0} /\ 1..depth \subseteq 0..MaxDepth
  BY <1>2, CallAssumption
<1>5. ASSUME NEW d \in 1..depth
      PROVE  /\ frame[d].id \in Nat /\ frame[d].id <= calls
             /\ frame[d].fn \in Fun /\ frame[d].p \in Int
  <2>1. frame[d] \in Frame
    BY <1>3, <1>4
  <2>2. Placed(frame[d]) /\ frame[d].id \in 1..calls
    BY <1>1 DEF FramesPlaced
  <2>3. frame[d].fn \in Fun
    BY <2>2 DEF Placed
  <2> QED
    BY <1>3, <2>1, <2>2, <2>3 DEF Frame
<1> QED
  BY <1>1, <1>2, <1>3, <1>4, <1>5

(* Entries are of calls and their arguments.                               *)
LEMMA OfArguments ==
  ASSUME NEW fr, fr.fn \in Fun, NEW w \in Which
  PROVE  Of(w, fr) \subseteq 1..Len(Args[fr.fn]) /\ Of(w, fr) \subseteq Nat
<1>1. DOMAIN Args[fr.fn] = 1..Len(Args[fr.fn]) /\ Len(Args[fr.fn]) \in Nat
  BY ArgsType
<1> QED
  BY <1>1 DEF Of, Kept, Open, Which

(* What is to be popped, one call after the other.                         *)
LEMMA EntriesUpTo ==
  ASSUME NEW w, NEW F, NEW n \in Nat
  PROVE  UpTo(w, F, n + 1) = UpTo(w, F, n) \cup Entries(w, F[n + 1])
<1>1. 1..n + 1 = (1..n) \cup {n + 1}
  OBVIOUS
<1>2. ASSUME NEW x, x \in UpTo(w, F, n + 1)
      PROVE  x \in UpTo(w, F, n) \cup Entries(w, F[n + 1])
  <2>1. PICK d \in 1..n + 1 : x \in Entries(w, F[d])
    BY <1>2 DEF UpTo
  <2> QED
    BY <1>1, <2>1 DEF UpTo
<1>3. ASSUME NEW x, x \in UpTo(w, F, n) \cup Entries(w, F[n + 1])
      PROVE  x \in UpTo(w, F, n + 1)
  BY <1>1, <1>3 DEF UpTo
<1> QED
  BY <1>2, <1>3

LEMMA EntriesSame ==
  ASSUME NEW w, NEW F, NEW G, NEW n \in Nat, \A d \in 1..n : F[d] = G[d]
  PROVE  UpTo(w, F, n) = UpTo(w, G, n)
BY DEF UpTo

(* The top call has its entries, and the calls below it have theirs.       *)
LEMMA PendingTop ==
  ASSUME Nested, Top.pc # "main", NEW w \in Which
  PROVE  /\ Pending(w) = Lower(w) \cup Entries(w, Top)
         /\ Pending(w) \subseteq Keeper
         /\ \A e \in Pending(w) : e.id \in LiveCalls
         /\ \A e \in Lower(w) : e.id < Top.id
<1>1. depth \in Nat \ {0} /\ 1..depth = (1..depth - 1) \cup {depth}
  BY NestedTop
<1>2. Pending(w) = Lower(w) \cup Entries(w, Top)
  <2> PICK n : n = depth - 1
    OBVIOUS
  <2>1. n \in Nat /\ n + 1 = depth
    BY <1>1
  <2>2. UpTo(w, frame, n + 1) = UpTo(w, frame, n) \cup Entries(w, frame[n + 1])
    BY ONLY <2>1, EntriesUpTo
  <2> QED
    BY <2>1, <2>2 DEF Pending, Lower, Top
<1>3. ASSUME NEW d \in 1..depth, NEW e \in Entries(w, frame[d])
      PROVE  e \in Keeper /\ e.id \in LiveCalls /\ e.id = frame[d].id
  <2>1. PICK p \in Of(w, frame[d]) : e = [id |-> frame[d].id, p |-> p]
    BY DEF Entries
  <2>2. p \in Nat /\ frame[d].id \in Nat
    BY NestedTop, OfArguments
  <2> QED
    BY <2>1, <2>2 DEF Keeper, LiveCalls
<1>4. \A e \in Pending(w) : e \in Keeper /\ e.id \in LiveCalls
  BY <1>3 DEF Pending, UpTo
<1>5. \A e \in Lower(w) : e.id < Top.id
  <2> SUFFICES ASSUME NEW d \in 1..depth - 1, NEW e \in Entries(w, frame[d])
               PROVE  e.id < Top.id
    BY DEF Lower, UpTo
  <2>1. d \in 1..depth /\ depth \in 1..depth /\ d < depth
    BY <1>1
  <2>2. e.id = frame[d].id
    BY <1>3, <2>1
  <2>3. frame[d].id < frame[depth].id
    BY <2>1, NestedTop DEF InTurn
  <2> QED
    BY <2>2, <2>3 DEF Top
<1> QED
  BY <1>2, <1>4, <1>5

LEMMA PendingNext ==
  ASSUME NEW w \in Which
  PROVE  Pending(w)' = UpTo(w, frame', depth')
BY DEF Pending, UpTo, Entries, Of, Kept, Open

(* The entries to be popped after a step within the top call, after its    *)
(* end, and after the beginning of another one.                            *)
LEMMA PendingResume ==
  ASSUME Nested, Top.pc # "main", NEW w \in Which, NEW fr, Resume(fr)
  PROVE  /\ Pending(w)' = Lower(w) \cup Entries(w, fr)
         /\ \A d \in 1..depth : frame'[d] = IF d = depth THEN fr ELSE frame[d]
<1>1. depth \in Nat \ {0} /\ 1..depth = (1..depth - 1) \cup {depth}
  BY NestedTop
<1>2. depth' = depth /\ frame' = [frame EXCEPT ![depth] = fr]
  BY DEF Resume
<1>3. \A d \in 1..depth : frame'[d] = IF d = depth THEN fr ELSE frame[d]
  BY <1>2, NestedTop
<1>4. frame'[depth] = fr /\ \A d \in 1..depth - 1 : frame'[d] = frame[d]
  BY <1>1, <1>3
<1>5. Pending(w)' = UpTo(w, frame', depth)
  BY <1>2, PendingNext
<1>6. UpTo(w, frame', depth) = UpTo(w, frame', depth - 1) \cup Entries(w, frame'[depth])
  <2>1. depth - 1 \in Nat /\ (depth - 1) + 1 = depth
    BY <1>1
  <2> QED
    BY <2>1, EntriesUpTo
<1>7. UpTo(w, frame', depth - 1) = Lower(w)
  <2>1. depth - 1 \in Nat
    BY <1>1
  <2> QED
    BY <1>4, <2>1, EntriesSame DEF Lower
<1> QED
  BY <1>3, <1>4, <1>5, <1>6, <1>7

LEMMA PendingLeave ==
  ASSUME Nested, Top.pc # "main", NEW w \in Which, Leave
  PROVE  /\ Pending(w)' = Lower(w)
         /\ depth' = depth - 1
         /\ \A d \in 1..depth - 1 : frame'[d] = frame[d]
<1>1. depth \in Nat \ {0}
  BY NestedTop
<1>2. depth' = depth - 1 /\ frame' = [frame EXCEPT ![depth] = Main]
  BY DEF Leave
<1>3. \A d \in 1..depth - 1 : frame'[d] = frame[d]
  BY <1>1, <1>2, NestedTop
<1>4. Pending(w)' = UpTo(w, frame', depth - 1)
  BY <1>2, PendingNext
<1>5. UpTo(w, frame', depth - 1) = UpTo(w, frame, depth - 1)
  <2> PICK n : n = depth - 1
    OBVIOUS
  <2>1. n \in Nat /\ \A d \in 1..n : frame'[d] = frame[d]
    BY <1>1, <1>3
  <2>2. UpTo(w, frame', n) = UpTo(w, frame, n)
    BY ONLY <2>1, EntriesSame
  <2> QED
    BY <2>2
<1> QED
  BY <1>2, <1>3, <1>4, <1>5 DEF Lower

LEMMA PendingEnter ==
  ASSUME Nested, NEW w \in Which, NEW f \in Fun, Enter(f)
  PROVE  /\ Pending(w)' = Pending(w)
         /\ depth' = depth + 1 /\ depth \in Nat /\ calls \in Nat
         /\ \A d \in 1..depth + 1 :
              frame'[d] = IF d = depth + 1
                          THEN [id |-> calls + 1, fn |-> f, pc |-> "in", i |-> 0, p |-> 1]
                          ELSE frame[d]
<1> DEFINE fr == [id |-> calls + 1, fn |-> f, pc |-> "in", i |-> 0, p |-> 1]
<1>1. TypeOK /\ depth' = depth + 1 /\ frame' = [frame EXCEPT ![depth + 1] = fr]
  BY DEF Nested, IInv, Enter
<1>2. /\ depth \in Nat /\ calls \in Nat /\ depth + 1 \in 0..MaxDepth
      /\ frame \in [0..MaxDepth -> Frame]
  BY <1>1, CallAssumption DEF TypeOK, Enter
<1>3. 1..depth + 1 = (1..depth) \cup {depth + 1} /\ 1..depth + 1 \subseteq 0..MaxDepth
  BY <1>2, CallAssumption
<1>4. \A d \in 1..depth + 1 : frame'[d] = IF d = depth + 1 THEN fr ELSE frame[d]
  BY <1>1, <1>2, <1>3
<1>5. Of(w, fr) = {}
  <2>1. \A p \in DOMAIN Args[f] : ~ (p < 1)
    BY ArgsType
  <2> QED
    BY <2>1 DEF Of, Kept, Open, Which
<1> HIDE DEF fr
<1>6. frame'[depth + 1] = fr /\ \A d \in 1..depth : frame'[d] = frame[d]
  BY <1>2, <1>3, <1>4
<1>7. Pending(w)' = UpTo(w, frame', depth + 1)
  BY <1>1, PendingNext
<1>8. UpTo(w, frame', depth + 1) = UpTo(w, frame', depth) \cup Entries(w, frame'[depth + 1])
  BY <1>2, EntriesUpTo
<1>9. UpTo(w, frame', depth) = Pending(w)
  BY <1>2, <1>6, EntriesSame DEF Pending
<1>10. Entries(w, fr) = {}
  BY <1>5 DEF Entries
<1>11. Pending(w)' = Pending(w)
  BY <1>6, <1>7, <1>8, <1>9, <1>10
<1> QED
  BY <1>1, <1>2, <1>4, <1>11 DEF fr

-----------------------------------------------------------------------------
(* The steps of the calls                                                  *)

(* Calls are numbered as they nest.                                        *)
LEMMA InTurnSteps ==
  ASSUME Nested
  PROVE  /\ \A fr : Resume(fr) /\ Top.pc # "main" /\ fr.id = Top.id => InTurn'
         /\ Leave /\ Top.pc # "main" => InTurn'
         /\ \A f \in Fun : Enter(f) => InTurn'
<1>1. ASSUME NEW fr, Resume(fr), Top.pc # "main", fr.id = Top.id
      PROVE  InTurn'
  <2>1. depth' = depth /\ frame' = [frame EXCEPT ![depth] = fr]
    BY <1>1 DEF Resume
  <2>2. \A d \in 1..depth : frame'[d].id = frame[d].id
    BY <1>1, <2>1, NestedTop DEF Top
  <2> QED
    BY <2>1, <2>2 DEF Nested, InTurn
<1>2. ASSUME Leave, Top.pc # "main"
      PROVE  InTurn'
  <2>1. depth' = depth - 1 /\ depth \in Nat
    BY <1>2, NestedTop DEF Leave
  <2>2. \A d \in 1..depth - 1 : frame'[d] = frame[d] /\ d \in 1..depth
    BY <1>2, <2>1, PendingLeave DEF Which
  <2> QED
    BY <2>1, <2>2 DEF Nested, InTurn
<1>3. ASSUME NEW f \in Fun, Enter(f)
      PROVE  InTurn'
  <2>1. /\ depth' = depth + 1 /\ depth \in Nat /\ calls \in Nat
        /\ \A d \in 1..depth : frame'[d] = frame[d]
        /\ frame'[depth + 1].id = calls + 1
    <3>1. "keepers" \in Which
      BY DEF Which
    <3>2. /\ depth' = depth + 1 /\ depth \in Nat /\ calls \in Nat
          /\ \A d \in 1..depth + 1 :
               frame'[d] = IF d = depth + 1
                           THEN [id |-> calls + 1, fn |-> f, pc |-> "in", i |-> 0, p |-> 1]
                           ELSE frame[d]
      BY <1>3, <3>1, PendingEnter
    <3>3. \A d \in 1..depth : d \in 1..depth + 1 /\ d # depth + 1
      BY <3>2
    <3>4. depth + 1 \in 1..depth + 1
      BY <3>2
    <3> QED
      BY <3>2, <3>3, <3>4
  <2>2. \A d \in 1..depth : frame[d].id \in 1..calls
    BY DEF Nested, IInv, FramesPlaced
  <2>3. \A d \in 1..depth + 1 : d \in 1..depth \/ d = depth + 1
    BY <2>1
  <2>4. \A d, e \in 1..depth + 1 : d < e => frame'[d].id < frame'[e].id
    <3> SUFFICES ASSUME NEW d \in 1..depth + 1, NEW e \in 1..depth + 1, d < e
                 PROVE  frame'[d].id < frame'[e].id
      OBVIOUS
    <3>1. d \in 1..depth /\ frame'[d].id = frame[d].id
      BY <2>1, <2>3
    <3>2. CASE e = depth + 1
      BY <2>1, <2>2, <3>1, <3>2
    <3>3. CASE e \in 1..depth
      BY <2>1, <3>1, <3>3 DEF Nested, InTurn
    <3> QED
      BY <2>3, <3>2, <3>3
  <2> QED
    BY <2>1, <2>4 DEF InTurn
<1> QED
  BY <1>1, <1>2, <1>3

(* The rules of the next state, one by one.                                *)
LEMMA RulesNext ==
  ASSUME NEW w \in Which,
         Ruled(List(w)', Pending(w)', LiveCalls', aborted', calls'),
         \A d \in 1..depth' : \A k \in DOMAIN List(w)' :
            /\ frame'[d].pc \in {"in", "perl_to_native"}
            /\ List(w)'[k].id = frame'[d].id
            => List(w)'[k].p < frame'[d].p
  PROVE  Rules(w)'
BY DEF Rules, Room, Ruled, InOrder, Accounted, Before

(* An argument has its entry, and comes after all others to be popped.     *)
LEMMA OwnLast ==
  ASSUME Nested, Top.pc # "main", Top.p \in Nat, NEW w \in Which
  PROVE  /\ Own \in Keeper /\ Own.id = Top.id /\ Own.p = Top.p
         /\ Own \in Entries(w, Top) <=> Top.p \in Of(w, Top)
         /\ (\A q \in Of(w, Top) : q <= Top.p) =>
              \A e \in Pending(w) : e = Own \/ Before(e, Own)
<1>1. Own \in Keeper /\ Own.id = Top.id /\ Own.p = Top.p
  BY NestedTop DEF Own, Keeper
<1>2. Own \in Entries(w, Top) <=> Top.p \in Of(w, Top)
  BY DEF Entries, Own
<1>3. ASSUME \A q \in Of(w, Top) : q <= Top.p, NEW e \in Pending(w)
      PROVE  e = Own \/ Before(e, Own)
  <2>1. CASE e \in Lower(w)
    BY <1>1, <2>1, PendingTop DEF Before
  <2>2. CASE e \in Entries(w, Top)
    <3>1. PICK q \in Of(w, Top) : e = [id |-> Top.id, p |-> q]
      BY <2>2 DEF Entries
    <3>2. q \in Nat /\ q <= Top.p
      BY <1>3, NestedTop, OfArguments
    <3>3. CASE q = Top.p
      BY <3>1, <3>3 DEF Own
    <3>4. CASE q # Top.p
      BY <1>1, <3>1, <3>2, <3>4 DEF Before
    <3> QED
      BY <3>3, <3>4
  <2> QED
    BY <2>1, <2>2, PendingTop
<1> QED
  BY <1>1, <1>2, <1>3

(* What a step within the top call may do to a stack.                      *)
Leaves(w, fr) ==
  /\ List(w)' = List(w)
  /\ Of(w, Top) \subseteq Of(w, fr)
  /\ fr.pc \in {"in", "perl_to_native"} =>
       Top.pc \in {"in", "perl_to_native"} /\ Top.p <= fr.p

Pushes(w, fr) ==
  /\ List(w)' = Append(List(w), Own)
  /\ Of(w, fr) = Of(w, Top) \cup {Top.p}
  /\ Top.pc \in {"in", "perl_to_native"}
  /\ fr.p = Top.p + 1

Pops(w, fr) ==
  /\ List(w)' = Popped(List(w))
  /\ Of(w, fr) = Of(w, Top) \ {Top.p}
  /\ \A q \in Of(w, Top) : q <= Top.p
  /\ fr.pc \notin {"in", "perl_to_native"}

(* All live entries come before the one that is being pushed.              *)
LEMMA RoomToPush ==
  ASSUME Nested, Top.pc \in {"in", "perl_to_native"}, Top.p \in Nat,
         NEW w \in Which, Rules(w)
  PROVE  \A k \in DOMAIN List(w) : List(w)[k].id \in LiveCalls => Before(List(w)[k], Own)
<1> SUFFICES ASSUME NEW k \in DOMAIN List(w), List(w)[k].id \in LiveCalls
             PROVE  Before(List(w)[k], Own)
  OBVIOUS
<1>1. Own.id = Top.id /\ Own.p = Top.p
  BY OwnLast
<1>2. PICK d \in 1..depth : List(w)[k].id = frame[d].id
  BY DEF LiveCalls
<1>3. depth \in 1..depth /\ depth \in Nat
  BY NestedTop
<1>4. CASE d = depth
  <2>1. List(w)[k].p < Top.p
    BY <1>2, <1>4 DEF Rules, Room, Top
  <2> QED
    BY <1>1, <1>2, <1>4, <2>1 DEF Before, Top
<1>5. CASE d # depth
  <2>1. d < depth
    BY <1>3, <1>5
  <2>2. frame[d].id < Top.id
    BY <1>3, <2>1, NestedTop DEF InTurn, Top
  <2> QED
    BY <1>1, <1>2, <2>2 DEF Before
<1> QED
  BY <1>4, <1>5

(* The rules hold after a step within the top call,                        *)
LEMMA RulesResume ==
  ASSUME Nested, Top.pc # "main", Top.p \in Nat, NEW w \in Which, Rules(w),
         NEW fr \in Frame, fr.id = Top.id, Placed(fr), Resume(fr),
         Leaves(w, fr) \/ Pushes(w, fr) \/ Pops(w, fr)
  PROVE  Rules(w)'
<1>1. /\ depth' = depth /\ calls' = calls /\ aborted' = aborted
      /\ LiveCalls' = LiveCalls
  BY NestedTop, ResumeFrames
<1>2. /\ Pending(w)' = Lower(w) \cup Entries(w, fr)
      /\ \A d \in 1..depth : frame'[d] = IF d = depth THEN fr ELSE frame[d]
  BY PendingResume
<1>3. Pending(w) = Lower(w) \cup Entries(w, Top) /\ Pending(w) \subseteq Keeper
  BY PendingTop
<1>4. depth \in Nat \ {0} /\ calls \in Nat /\ aborted \in SUBSET Nat /\ Top.id <= calls
      /\ Top.id \in LiveCalls /\ LiveCalls \subseteq LiveCalls \cup {calls + 1}
  BY NestedTop
<1>5. Ruled(List(w), Pending(w), LiveCalls, aborted, calls) /\ Room(w)
  BY DEF Rules
<1>6. Own \in Keeper /\ Own.id = Top.id /\ Own.p = Top.p
  BY OwnLast
<1>7. CASE Leaves(w, fr)
  <2>1. List(w)' = List(w) /\ Of(w, Top) \subseteq Of(w, fr)
    BY <1>7 DEF Leaves
  <2>2. Pending(w) \subseteq Pending(w)'
    BY <1>2, <1>3, <2>1 DEF Entries
  <2>3. Ruled(List(w), Pending(w)', LiveCalls, aborted, calls)
    <3>1. \A e \in Pending(w) : Accounted(e, Pending(w)', aborted)
      BY <2>2 DEF Accounted
    <3>2. calls <= calls
      BY <1>4
    <3> QED
      BY <1>4, <1>5, <3>1, <3>2, RuledSame
  <2>4. ASSUME NEW d \in 1..depth, NEW k \in DOMAIN List(w),
               frame'[d].pc \in {"in", "perl_to_native"}, List(w)[k].id = frame'[d].id
        PROVE  List(w)[k].p < frame'[d].p
    <3>1. CASE d = depth
      <4>1. frame'[d] = fr /\ frame[d] = Top
        BY <1>2, <3>1 DEF Top
      <4>2. Top.pc \in {"in", "perl_to_native"} /\ Top.p <= fr.p
        BY <1>7, <2>4, <4>1 DEF Leaves
      <4>3. List(w)[k].p < Top.p
        BY <1>5, <2>4, <4>1, <4>2 DEF Room
      <4>4. List(w)[k].p \in Nat /\ fr.p \in Int
        <5>1. List(w)[k] \in Keeper
          BY <1>5 DEF Ruled
        <5> QED
          BY <5>1 DEF Keeper, Frame
      <4> QED
        BY <4>1, <4>2, <4>3, <4>4
    <3>2. CASE d # depth
      BY <1>2, <1>5, <2>4, <3>2 DEF Room
    <3> QED
      BY <3>1, <3>2
  <2> QED
    BY <1>1, <2>1, <2>3, <2>4, RulesNext
<1>8. CASE Pushes(w, fr)
  <2>1. /\ List(w)' = Append(List(w), Own) /\ Of(w, fr) = Of(w, Top) \cup {Top.p}
        /\ Top.pc \in {"in", "perl_to_native"} /\ fr.p = Top.p + 1
    BY <1>8 DEF Pushes
  <2>2. Pending(w) \subseteq Pending(w)' /\ Own \in Pending(w)'
    BY <1>2, <1>3, <2>1 DEF Entries, Own
  <2>3. Ruled(Append(List(w), Own), Pending(w)', LiveCalls, aborted, calls)
    <3>1. \A e \in Pending(w) : Accounted(e, Pending(w)', aborted)
      BY <2>2 DEF Accounted
    <3>2. Accounted(Own, Pending(w)', aborted)
      BY <2>2 DEF Accounted
    <3>3. \A k \in DOMAIN List(w) : List(w)[k].id \in LiveCalls => Before(List(w)[k], Own)
      BY <2>1, RoomToPush
    <3> QED
      BY <1>4, <1>5, <1>6, <3>1, <3>2, <3>3, RuledPush
  <2>4. ASSUME NEW d \in 1..depth, NEW k \in DOMAIN Append(List(w), Own),
               frame'[d].pc \in {"in", "perl_to_native"}, Append(List(w), Own)[k].id = frame'[d].id
        PROVE  Append(List(w), Own)[k].p < frame'[d].p
    <3> DEFINE n == Len(List(w))
    <3>1. /\ n \in Nat /\ DOMAIN List(w) = 1..n /\ k \in 1..n + 1
          /\ Append(List(w), Own)[n + 1] = Own
          /\ \A j \in 1..n : Append(List(w), Own)[j] = List(w)[j] /\ List(w)[j] \in Keeper
      <4>1. List(w) \in Seq(Keeper)
        BY <1>5 DEF Ruled
      <4> QED
        BY <1>6, <4>1, PushedSeq
    <3>2. CASE k = n + 1
      <4>1. d = depth
        BY <1>2, <1>4, <1>6, <2>4, <3>1, <3>2, NestedTop DEF Top, FramesPlaced
      <4> QED
        BY <1>2, <1>6, <2>1, <3>1, <3>2, <4>1
    <3>3. CASE k # n + 1
      <4>1. k \in 1..n /\ Append(List(w), Own)[k] = List(w)[k] /\ List(w)[k].p \in Nat
        BY <3>1, <3>3 DEF Keeper
      <4>2. CASE d = depth
        <5>1. List(w)[k].p < Top.p
          BY <1>2, <1>5, <2>1, <2>4, <3>1, <4>1, <4>2 DEF Room, Top
        <5> QED
          BY <1>2, <2>1, <4>1, <4>2, <5>1
      <4>3. CASE d # depth
        BY <1>2, <1>5, <2>4, <3>1, <4>1, <4>3 DEF Room
      <4> QED
        BY <4>2, <4>3
    <3> QED
      BY <3>2, <3>3
  <2> QED
    BY <1>1, <2>1, <2>3, <2>4, RulesNext
<1>9. CASE Pops(w, fr)
  <2>1. /\ List(w)' = Popped(List(w)) /\ Of(w, fr) = Of(w, Top) \ {Top.p}
        /\ \A q \in Of(w, Top) : q <= Top.p
        /\ fr.pc \notin {"in", "perl_to_native"}
    BY <1>9 DEF Pops
  <2>2. Pending(w) \ {Own} \subseteq Pending(w)'
    BY <1>2, <1>3, <2>1 DEF Entries, Own
  <2>3. Ruled(Popped(List(w)), Pending(w)', LiveCalls, aborted, calls)
    <3>1. \A e \in Pending(w) : e = Own \/ Before(e, Own)
      BY <2>1, OwnLast
    <3>2. Ruled(Popped(List(w)), Pending(w) \ {Own}, LiveCalls, aborted, calls)
      BY <1>3, <1>4, <1>5, <1>6, <3>1, RuledPop
    <3>3. \A e \in Pending(w) \ {Own} : Accounted(e, Pending(w)', aborted)
      BY <2>2 DEF Accounted
    <3>4. calls <= calls
      BY <1>4
    <3> QED
      BY <1>4, <3>2, <3>3, <3>4, RuledSame
  <2>4. ASSUME NEW d \in 1..depth, NEW k \in DOMAIN Popped(List(w)),
               frame'[d].pc \in {"in", "perl_to_native"}, Popped(List(w))[k].id = frame'[d].id
        PROVE  Popped(List(w))[k].p < frame'[d].p
    <3>1. d # depth
      BY <1>2, <2>1, <2>4
    <3>2. k \in DOMAIN List(w) /\ Popped(List(w))[k] = List(w)[k]
      <4>1. List(w) \in Seq(Keeper)
        BY <1>5 DEF Ruled
      <4>2. CASE List(w) = << >>
        <5>1. Popped(List(w)) = List(w)
          BY <4>2 DEF Popped
        <5> QED
          BY <5>1
      <4>3. CASE List(w) # << >>
        <5> DEFINE n == Len(List(w))
        <5>1. /\ n \in Nat \ {0} /\ DOMAIN List(w) = 1..n
              /\ DOMAIN Popped(List(w)) = 1..n - 1
              /\ \A j \in 1..n - 1 : Popped(List(w))[j] = List(w)[j]
          BY <4>1, <4>3, PoppedSeq
        <5>2. 1..n - 1 \subseteq 1..n
          BY <5>1
        <5> QED
          BY <5>1, <5>2
      <4> QED
        BY <4>2, <4>3
    <3> QED
      BY <1>2, <1>5, <2>4, <3>1, <3>2 DEF Room
  <2> QED
    BY <1>1, <2>1, <2>3, <2>4, RulesNext
<1> QED
  BY <1>7, <1>8, <1>9

(* after its end, for whatever reason,                                     *)
LEMMA RulesLeave ==
  ASSUME Nested, Top.pc # "main", NEW w \in Which, Rules(w), Leave,
         aborted' \in {aborted, aborted \cup {Top.id}},
         \/ List(w)' = List(w) /\ (Of(w, Top) = {} \/ Top.id \in aborted')
         \/ /\ List(w)' = Append(List(w), Own) /\ Top.id \in aborted'
            /\ Top.pc \in {"in", "perl_to_native"} /\ Top.p \in Nat
  PROVE  Rules(w)'
<1>1. calls' = calls /\ LiveCalls' = LiveCalls \ {Top.id}
  BY NestedTop, LeaveFrames
<1>2. /\ Pending(w)' = Lower(w) /\ depth' = depth - 1
      /\ \A d \in 1..depth - 1 : frame'[d] = frame[d]
  BY PendingLeave
<1>3. /\ Pending(w) = Lower(w) \cup Entries(w, Top)
      /\ depth \in Nat \ {0} /\ calls \in Nat /\ Top.id \in Nat /\ Top.id <= calls
      /\ \A d \in 1..depth - 1 : frame[d].id # Top.id /\ d \in 1..depth
  <2>1. /\ depth \in Nat \ {0} /\ calls \in Nat /\ Top.id \in Nat /\ Top.id <= calls
        /\ \A d \in 1..depth : frame[d].id \in Nat
    BY NestedTop
  <2>2. \A d \in 1..depth - 1 : d \in 1..depth /\ depth \in 1..depth /\ d < depth
    BY <2>1
  <2>3. \A d \in 1..depth - 1 : frame[d].id < Top.id
    BY <2>2, NestedTop DEF InTurn, Top
  <2> QED
    BY <2>1, <2>2, <2>3, PendingTop
<1>4. Ruled(List(w), Pending(w), LiveCalls, aborted, calls) /\ Room(w)
  BY DEF Rules
<1>5. /\ aborted \subseteq aborted' /\ calls <= calls
      /\ LiveCalls' \subseteq LiveCalls /\ LiveCalls' \subseteq LiveCalls \cup {calls + 1}
  BY <1>1, <1>3
<1>6. CASE List(w)' = List(w) /\ (Of(w, Top) = {} \/ Top.id \in aborted')
  <2>1. \A e \in Pending(w) : Accounted(e, Pending(w)', aborted')
    <3>1. \A e \in Entries(w, Top) : e.id = Top.id /\ Of(w, Top) # {}
      BY DEF Entries
    <3>2. Top.id >= Top.id
      BY <1>3
    <3> QED
      BY <1>2, <1>3, <1>6, <3>1, <3>2 DEF Accounted
  <2>2. Ruled(List(w), Pending(w)', LiveCalls', aborted', calls)
    BY <1>3, <1>4, <1>5, <2>1, RuledSame
  <2>3. \A d \in 1..depth - 1 : \A k \in DOMAIN List(w) :
           /\ frame'[d].pc \in {"in", "perl_to_native"}
           /\ List(w)[k].id = frame'[d].id
           => List(w)[k].p < frame'[d].p
    BY <1>2, <1>3, <1>4 DEF Room
  <2> QED
    BY <1>1, <1>2, <1>6, <2>2, <2>3, RulesNext
<1>7. CASE /\ List(w)' = Append(List(w), Own) /\ Top.id \in aborted'
           /\ Top.pc \in {"in", "perl_to_native"} /\ Top.p \in Nat
  <2>1. Own \in Keeper /\ Own.id = Top.id /\ Own.id <= calls
    BY <1>3, <1>7, OwnLast
  <2>2. /\ \A e \in Pending(w) : Accounted(e, Pending(w)', aborted')
        /\ Accounted(Own, Pending(w)', aborted')
    <3>1. \A e \in Entries(w, Top) : e.id = Top.id
      BY DEF Entries
    <3>2. Top.id >= Top.id
      BY <1>3
    <3> QED
      BY <1>2, <1>3, <1>7, <2>1, <3>1, <3>2 DEF Accounted
  <2>3. \A k \in DOMAIN List(w) : List(w)[k].id \in LiveCalls => Before(List(w)[k], Own)
    BY <1>7, RoomToPush
  <2>4. Ruled(Append(List(w), Own), Pending(w)', LiveCalls', aborted', calls)
    BY <1>3, <1>4, <1>5, <2>1, <2>2, <2>3, RuledPush
  <2>5. ASSUME NEW d \in 1..depth - 1, NEW k \in DOMAIN Append(List(w), Own),
               frame'[d].pc \in {"in", "perl_to_native"}, Append(List(w), Own)[k].id = frame'[d].id
        PROVE  Append(List(w), Own)[k].p < frame'[d].p
    <3> DEFINE n == Len(List(w))
    <3>1. /\ n \in Nat /\ DOMAIN List(w) = 1..n /\ k \in 1..n + 1
          /\ Append(List(w), Own)[n + 1] = Own
          /\ \A j \in 1..n : Append(List(w), Own)[j] = List(w)[j]
      <4>1. List(w) \in Seq(Keeper)
        BY <1>4 DEF Ruled
      <4> QED
        BY <2>1, <4>1, PushedSeq
    <3>2. k # n + 1
      BY <1>2, <1>3, <2>1, <2>5, <3>1
    <3>3. k \in 1..n
      BY <3>1, <3>2
    <3> QED
      BY <1>2, <1>3, <1>4, <2>5, <3>1, <3>3 DEF Room
  <2> QED
    BY <1>1, <1>2, <1>7, <2>4, <2>5, RulesNext
<1> QED
  BY <1>6, <1>7

(* and after the beginning of another one.                                 *)
LEMMA RulesEnter ==
  ASSUME Nested, NEW w \in Which, Rules(w), NEW f \in Fun, Enter(f), List(w)' = List(w)
  PROVE  Rules(w)'
<1> DEFINE fr == [id |-> calls + 1, fn |-> f, pc |-> "in", i |-> 0, p |-> 1]
<1>1. /\ Pending(w)' = Pending(w)
      /\ depth' = depth + 1 /\ depth \in Nat /\ calls \in Nat
      /\ \A d \in 1..depth + 1 : frame'[d] = IF d = depth + 1 THEN fr ELSE frame[d]
  BY PendingEnter
<1>2. fr.id = calls + 1
  OBVIOUS
<1> HIDE DEF fr
<1>3. \A d \in 1..depth + 1 : (d = depth + 1 /\ frame'[d] = fr) \/ (d \in 1..depth /\ frame'[d] = frame[d])
  BY <1>1
<1>4. calls' = calls + 1 /\ aborted' = aborted
  BY DEF Enter
<1>5. LiveCalls' \subseteq LiveCalls \cup {calls + 1}
  BY <1>1, <1>2, <1>3 DEF LiveCalls
<1>6. Ruled(List(w), Pending(w), LiveCalls, aborted, calls) /\ Room(w)
  BY DEF Rules
<1>7. Ruled(List(w), Pending(w)', LiveCalls', aborted', calls')
  <2>1. \A e \in Pending(w) : Accounted(e, Pending(w)', aborted')
    BY <1>1 DEF Accounted
  <2>2. calls' \in Nat /\ calls <= calls' /\ aborted \subseteq aborted'
    BY <1>1, <1>4
  <2> QED
    BY <1>1, <1>5, <1>6, <2>1, <2>2, RuledSame
<1>8. ASSUME NEW d \in 1..depth + 1, NEW k \in DOMAIN List(w),
             frame'[d].pc \in {"in", "perl_to_native"}, List(w)[k].id = frame'[d].id
      PROVE  List(w)[k].p < frame'[d].p
  <2>1. List(w)[k].id <= calls /\ List(w)[k].id \in Nat
    <3>1. List(w)[k] \in Keeper /\ List(w)[k].id <= calls
      BY <1>6 DEF Ruled
    <3> QED
      BY <3>1 DEF Keeper
  <2>2. frame'[d] # fr
    BY <1>1, <1>2, <1>8, <2>1
  <2> QED
    BY <1>3, <1>6, <1>8, <2>2 DEF Room
<1> QED
  BY <1>1, <1>7, <1>8, RulesNext

-----------------------------------------------------------------------------
(* No entry that is to be popped was popped before.                        *)
Complete(w) == Held(List(w), Pending(w))

(* Nor is one that is pushed or left by any step.                          *)
LEMMA CompleteNext ==
  ASSUME NEW w \in Which, Held(List(w)', Pending(w)')
  PROVE  Complete(w)'
BY DEF Complete, Held

LEMMA HeldPush ==
  ASSUME NEW s \in Seq(Keeper), NEW e \in Keeper, NEW pending, Held(s, pending)
  PROVE  Held(Append(s, e), pending \cup {e})
<1> DEFINE t == Append(s, e)
           n == Len(s)
<1>1. /\ n \in Nat /\ DOMAIN s = 1..n /\ DOMAIN t = 1..n + 1 /\ t[n + 1] = e
      /\ \A k \in 1..n : t[k] = s[k]
  BY PushedSeq
<1> HIDE DEF t, n
<1>2. n + 1 \in DOMAIN t /\ \A k \in 1..n : k \in DOMAIN t
  BY <1>1
<1>3. ASSUME NEW x \in pending \cup {e}
      PROVE  \E k \in DOMAIN t : t[k] = x
  <2>1. CASE x = e
    BY <1>1, <1>2, <2>1
  <2>2. CASE x \in pending
    <3>1. PICK k \in DOMAIN s : s[k] = x
      BY <2>2 DEF Held
    <3> QED
      BY <1>1, <1>2, <3>1
  <2> QED
    BY <2>1, <2>2
<1> QED
  BY <1>3 DEF Held, t

LEMMA CompleteResume ==
  ASSUME Nested, Top.pc # "main", Top.p \in Nat, NEW w \in Which, Rules(w), Complete(w),
         NEW fr, fr.id = Top.id, Resume(fr),
         \/ List(w)' = List(w) /\ Of(w, fr) = Of(w, Top)
         \/ Pushes(w, fr)
         \/ Pops(w, fr) /\ Top.p \in Of(w, Top)
  PROVE  Complete(w)'
<1>1. Pending(w)' = Lower(w) \cup Entries(w, fr)
  BY PendingResume
<1>2. /\ Pending(w) = Lower(w) \cup Entries(w, Top) /\ Pending(w) \subseteq Keeper
      /\ \A e \in Lower(w) : e.id < Top.id
  BY PendingTop
<1>3. Own \in Keeper /\ Own.id = Top.id
  BY OwnLast
<1>4. CASE List(w)' = List(w) /\ Of(w, fr) = Of(w, Top)
  <2>1. Pending(w)' = Pending(w)
    BY <1>1, <1>2, <1>4 DEF Entries
  <2> QED
    BY <1>4, <2>1, CompleteNext DEF Complete
<1>5. CASE Pushes(w, fr)
  <2>1. List(w)' = Append(List(w), Own) /\ Of(w, fr) = Of(w, Top) \cup {Top.p}
    BY <1>5 DEF Pushes
  <2>2. Pending(w)' \subseteq Pending(w) \cup {Own}
    BY <1>1, <1>2, <2>1 DEF Entries, Own
  <2>3. List(w) \in Seq(Keeper)
    BY DEF Rules, Ruled
  <2>4. Held(Append(List(w), Own), Pending(w) \cup {Own})
    BY <1>3, <2>3, HeldPush DEF Complete
  <2> QED
    BY <2>1, <2>2, <2>4, CompleteNext DEF Held
<1>6. CASE Pops(w, fr) /\ Top.p \in Of(w, Top)
  <2>1. List(w)' = Popped(List(w)) /\ Of(w, fr) = Of(w, Top) \ {Top.p}
        /\ \A q \in Of(w, Top) : q <= Top.p
    BY <1>6 DEF Pops
  <2>2. Own \notin Lower(w)
    BY <1>2, <1>3, NestedTop
  <2>3. Pending(w)' \subseteq Pending(w) \ {Own}
    <3>1. Entries(w, fr) = Entries(w, Top) \ {Own}
      BY <2>1 DEF Entries, Own
    <3> QED
      BY <1>1, <1>2, <2>2, <3>1
  <2>4. Held(Popped(List(w)), Pending(w) \ {Own})
    <3>1. /\ \A e \in Pending(w) : e = Own \/ Before(e, Own)
          /\ Own \in Pending(w)
      BY <1>2, <1>6, <2>1, OwnLast
    <3>2. /\ aborted \in SUBSET Nat /\ calls \in Nat /\ Own.id \in LiveCalls /\ Own.id \notin aborted
      BY <1>3, NestedTop DEF Nested, UnwoundOver
    <3> QED
      BY <1>2, <1>3, <3>1, <3>2, HeldPop DEF Rules, Complete
  <2> QED
    BY <2>1, <2>3, <2>4, CompleteNext DEF Held
<1> QED
  BY <1>4, <1>5, <1>6

LEMMA CompleteLeave ==
  ASSUME Nested, Top.pc # "main", NEW w \in Which, Rules(w), Complete(w), Leave,
         List(w)' = List(w) \/ (List(w)' = Append(List(w), Own) /\ Top.p \in Nat)
  PROVE  Complete(w)'
<1>1. Pending(w)' \subseteq Pending(w)
  BY PendingLeave, PendingTop
<1>2. CASE List(w)' = List(w)
  BY <1>1, <1>2, CompleteNext DEF Complete, Held
<1>3. CASE List(w)' = Append(List(w), Own) /\ Top.p \in Nat
  <2>1. List(w) \in Seq(Keeper) /\ Own \in Keeper
    BY <1>3, OwnLast DEF Rules, Ruled
  <2>2. Held(Append(List(w), Own), Pending(w) \cup {Own})
    BY <2>1, HeldPush DEF Complete
  <2> QED
    BY <1>1, <1>3, <2>2, CompleteNext DEF Held
<1> QED
  BY <1>2, <1>3

LEMMA CompleteEnter ==
  ASSUME Nested, NEW w \in Which, Complete(w), NEW f \in Fun, Enter(f), List(w)' = List(w)
  PROVE  Complete(w)'
BY PendingEnter, CompleteNext DEF Complete

(* A step leaves a stack as it is and nothing more or less is to be popped.*)
Same(w, fr) == Leaves(w, fr) /\ Of(w, fr) = Of(w, Top)

(* Only what perl_to_native has made for the argument is popped, or what a *)
(* call has left that began later and was unwound.                         *)
PopsOwn == popped.got # popped.own => \E call \in aborted : call > popped.own.id

PluginInv ==
  /\ Nested
  /\ Rules("keepers") /\ Rules("stack")
  /\ ~ emptied => Complete("keepers")
  /\ Complete("stack")
  /\ PopsOwn

(* A call that was unwound does not come back.                             *)
LEMMA UnwoundSteps ==
  ASSUME Nested
  PROVE  /\ \A fr : Resume(fr) /\ Top.pc # "main" /\ fr.id = Top.id => UnwoundOver'
         /\ Leave /\ Top.pc # "main" /\ aborted' \subseteq aborted \cup {Top.id} => UnwoundOver'
         /\ \A f \in Fun : Enter(f) => UnwoundOver'
<1>1. ASSUME NEW fr, Resume(fr), Top.pc # "main", fr.id = Top.id
      PROVE  UnwoundOver'
  <2>1. calls' = calls /\ aborted' = aborted /\ LiveCalls' = LiveCalls
    <3>1. depth' = depth /\ frame' = [frame EXCEPT ![depth] = fr] /\ calls' = calls /\ aborted' = aborted
      BY <1>1 DEF Resume
    <3>2. \A d \in 1..depth : frame'[d].id = frame[d].id
      BY <1>1, <3>1, NestedTop DEF Top
    <3> QED
      BY <3>1, <3>2 DEF LiveCalls
  <2> QED
    BY <2>1 DEF Nested, UnwoundOver
<1>2. ASSUME Leave, Top.pc # "main", aborted' \subseteq aborted \cup {Top.id}
      PROVE  UnwoundOver'
  <2>1. calls' = calls /\ LiveCalls' = LiveCalls \ {Top.id}
    BY <1>2, NestedTop, LeaveFrames
  <2>2. Top.id \in 1..calls
    BY <1>2, TopPlaced DEF Nested, IInv
  <2> QED
    BY <1>2, <2>1, <2>2 DEF Nested, UnwoundOver
<1>3. ASSUME NEW f \in Fun, Enter(f)
      PROVE  UnwoundOver'
  <2>1. calls' = calls + 1 /\ aborted' = aborted /\ calls \in Nat
    BY <1>3 DEF Enter, Nested, IInv, TypeOK
  <2>2. LiveCalls' \subseteq LiveCalls \cup {calls + 1}
    <3> DEFINE fr == [id |-> calls + 1, fn |-> f, pc |-> "in", i |-> 0, p |-> 1]
    <3>1. "keepers" \in Which
      BY DEF Which
    <3>2. /\ depth' = depth + 1 /\ depth \in Nat
          /\ \A d \in 1..depth + 1 : frame'[d] = IF d = depth + 1 THEN fr ELSE frame[d]
      BY <1>3, <3>1, PendingEnter
    <3>3. fr.id = calls + 1
      OBVIOUS
    <3> HIDE DEF fr
    <3>4. \A d \in 1..depth + 1 : frame'[d].id = calls + 1 \/ (d \in 1..depth /\ frame'[d] = frame[d])
      BY <3>2, <3>3
    <3> QED
      BY <3>2, <3>4 DEF LiveCalls
  <2>3. calls + 1 \notin aborted /\ 1..calls \subseteq 1..calls + 1
    BY <2>1 DEF Nested, UnwoundOver
  <2> QED
    BY <2>1, <2>2, <2>3 DEF Nested, UnwoundOver
<1> QED
  BY <1>1, <1>2, <1>3

(* The frame of a call that goes on is placed because all are.             *)
LEMMA ResumedPlaced ==
  ASSUME Nested, IInv', Top.pc # "main", NEW fr, Resume(fr)
  PROVE  fr \in Frame /\ Placed(fr)
<1>1. depth \in 1..depth /\ depth \in 0..MaxDepth /\ frame \in [0..MaxDepth -> Frame]
  BY NestedTop
<1>2. depth' = depth /\ frame'[depth] = fr
  BY <1>1 DEF Resume
<1>3. frame' \in [0..MaxDepth -> Frame] /\ \A d \in 1..depth' : Placed(frame'[d])
  BY DEF IInv, TypeOK, FramesPlaced, Placed
<1> QED
  BY <1>1, <1>2, <1>3

(* There are two stacks.                                                   *)
LEMMA WhichTwo == "keepers" \in Which /\ "stack" \in Which
BY DEF Which

(* Steps within the top call.                                              *)
LEMMA PluginResume ==
  ASSUME PluginInv, IInv', Top.pc # "main", Top.p \in Nat,
         NEW fr, fr.id = Top.id, Resume(fr),
         \/ Same("keepers", fr)
         \/ Pushes("keepers", fr)
         \/ Pops("keepers", fr) /\ Top.p \in Kept(Top)
         \/ Leaves("keepers", fr) /\ emptied',
         emptied => emptied',
         \/ (Same("stack", fr) \/ Pushes("stack", fr)) /\ popped' = NoPop
         \/ /\ Pops("stack", fr) /\ Top.p \in Open(Top)
            /\ popped'.own = Own
            /\ popped'.got = IF stack = << >> THEN NoEntry ELSE stack[Len(stack)]
  PROVE  PluginInv'
<1>1. Nested /\ Rules("keepers") /\ Rules("stack") /\ Complete("stack") /\ PopsOwn
  BY DEF PluginInv
<1>2. fr \in Frame /\ Placed(fr)
  BY <1>1, ResumedPlaced
<1>3. Nested'
  BY <1>1, InTurnSteps, UnwoundSteps DEF Nested
<1>4. Of("keepers", Top) = Kept(Top) /\ Of("stack", Top) = Open(Top)
  BY DEF Of
<1>5. Rules("keepers")' /\ Rules("stack")'
  BY <1>1, <1>2, WhichTwo, RulesResume DEF Same
<1>6. ~ emptied' => Complete("keepers")'
  BY <1>1, <1>4, WhichTwo, CompleteResume DEF Same, Leaves, PluginInv
<1>7. Complete("stack")'
  BY <1>1, <1>4, WhichTwo, CompleteResume DEF Same, Leaves
<1>8. PopsOwn'
  <2>1. aborted' = aborted
    BY DEF Resume
  <2>2. CASE popped' = NoPop
    BY <2>2 DEF PopsOwn, NoPop
  <2>3. CASE /\ Pops("stack", fr) /\ Top.p \in Open(Top)
             /\ popped'.own = Own
             /\ popped'.got = IF stack = << >> THEN NoEntry ELSE stack[Len(stack)]
    <3>1. /\ Own \in Keeper /\ Own.id \in LiveCalls
          /\ Own \in Pending("stack")
          /\ \A e \in Pending("stack") : e = Own \/ Before(e, Own)
      BY <1>1, <1>4, <2>3, WhichTwo, NestedTop, OwnLast, PendingTop DEF Pops
    <3>2. /\ aborted \in SUBSET Nat /\ calls \in Nat /\ Own.id \notin aborted
          /\ Pending("stack") \subseteq Keeper
      BY <1>1, <3>1, WhichTwo, NestedTop, PendingTop DEF Nested, UnwoundOver
    <3>3. /\ Ruled(stack, Pending("stack"), LiveCalls, aborted, calls)
          /\ Held(stack, Pending("stack"))
      BY <1>1 DEF Rules, Complete, List
    <3>4. /\ stack # << >>
          /\ stack[Len(stack)] # Own => \E c \in aborted : c > Own.id
      BY <3>1, <3>2, <3>3, HeldPop
    <3> QED
      BY <2>1, <2>3, <3>4 DEF PopsOwn
  <2> QED
    BY <2>2, <2>3
<1> QED
  BY <1>3, <1>5, <1>6, <1>7, <1>8 DEF PluginInv

(* A call ends, or is unwound.                                             *)
LEMMA PluginLeave ==
  ASSUME PluginInv, IInv', Top.pc # "main", Top.p \in Nat, Leave,
         \/ aborted' = aborted /\ Kept(Top) = {} /\ Open(Top) = {}
            /\ keepers' = keepers /\ stack' = stack
         \/ /\ aborted' = aborted \cup {Top.id}
            /\ \/ keepers' = keepers
               \/ keepers' = Append(keepers, Own) /\ Top.pc \in {"in", "perl_to_native"}
            /\ \/ stack' = stack
               \/ stack' = Append(stack, Own) /\ Top.pc \in {"in", "perl_to_native"},
         emptied' = emptied, popped' = NoPop
  PROVE  PluginInv'
<1>1. Nested /\ Rules("keepers") /\ Rules("stack") /\ Complete("stack")
  BY DEF PluginInv
<1>2. Nested'
  BY <1>1, InTurnSteps, UnwoundSteps DEF Nested
<1>3. /\ Of("keepers", Top) = Kept(Top) /\ Of("stack", Top) = Open(Top)
      /\ List("keepers") = keepers /\ List("keepers")' = keepers'
      /\ List("stack") = stack /\ List("stack")' = stack'
  BY DEF Of, List
<1>4. Rules("keepers")'
  BY <1>1, <1>3, WhichTwo, RulesLeave
<1>5. Rules("stack")'
  BY <1>1, <1>3, WhichTwo, RulesLeave
<1>6. ~ emptied' => Complete("keepers")'
  BY <1>1, <1>3, WhichTwo, CompleteLeave DEF PluginInv
<1>7. Complete("stack")'
  BY <1>1, <1>3, WhichTwo, CompleteLeave
<1>8. PopsOwn'
  BY DEF PopsOwn, NoPop
<1> QED
  BY <1>2, <1>4, <1>5, <1>6, <1>7, <1>8 DEF PluginInv

(* What is to be popped of a call, before and after an argument.           *)
LEMMA OfPhases ==
  ASSUME NEW f \in Fun, NEW a, NEW b, a.fn = f, b.fn = f, a.p \in 0..Len(Args[f]) + 1
  PROVE  /\ a.pc \in {"in", "perl_to_native"} /\ b.pc = "in" /\ b.p = a.p + 1 /\ a.p \in DOMAIN Args[f] =>
              /\ Kept(b) = Kept(a) \cup (IF Args[f][a.p].custom THEN {a.p} ELSE {})
              /\ Open(b) = Open(a) \cup (IF Args[f][a.p].post THEN {a.p} ELSE {})
         /\ \/ /\ a.pc = "in" /\ b.pc = "perl_to_native" /\ b.p = a.p
            \/ /\ a.pc = "in" /\ b.pc = "native" /\ a.p = Len(Args[f]) + 1
            \/ /\ a.pc \in {"native", "callback"} /\ b.pc \in {"native", "callback"}
            \/ /\ a.pc = "native" /\ b.pc = "out" /\ b.p = Len(Args[f])
            \/ /\ a.pc = "out" /\ a.p = 0 /\ b.pc = "native_to_perl"
            => Kept(b) = Kept(a) /\ Open(b) = Open(a)
         /\ a.pc = "out" /\ b.pc = "perl_to_native_post" /\ b.p = a.p =>
              /\ Kept(b) = Kept(a)
              /\ Open(b) = Open(a) \ {a.p}
              /\ \A q \in Open(a) : q <= a.p
         /\ a.pc \in {"out", "perl_to_native_post"} /\ b.pc = "out" /\ b.p = a.p - 1 =>
              /\ Kept(b) = Kept(a) \ {a.p}
              /\ \A q \in Kept(a) : q <= a.p
              /\ a.pc = "perl_to_native_post" \/ a.p \notin Open(a) => Open(b) = Open(a)
<1>1. DOMAIN Args[f] = 1..Len(Args[f]) /\ Len(Args[f]) \in Nat
  BY ArgsType
<1>2. \A p \in DOMAIN Args[f] : /\ p < a.p + 1 <=> p < a.p \/ p = a.p
                                /\ p <= a.p - 1 <=> p <= a.p /\ p # a.p
                                /\ p < a.p <=> p <= a.p /\ p # a.p
                                /\ p < Len(Args[f]) + 1
                                /\ p <= Len(Args[f])
                                /\ a.p = 0 => ~ (p <= a.p)
  BY <1>1
<1>3. ASSUME a.pc \in {"in", "perl_to_native"}, b.pc = "in", b.p = a.p + 1, a.p \in DOMAIN Args[f]
      PROVE  /\ Kept(b) = Kept(a) \cup (IF Args[f][a.p].custom THEN {a.p} ELSE {})
             /\ Open(b) = Open(a) \cup (IF Args[f][a.p].post THEN {a.p} ELSE {})
  BY <1>2, <1>3 DEF Kept, Open
<1>4. ASSUME \/ /\ a.pc = "in" /\ b.pc = "perl_to_native" /\ b.p = a.p
             \/ /\ a.pc = "in" /\ b.pc = "native" /\ a.p = Len(Args[f]) + 1
             \/ /\ a.pc \in {"native", "callback"} /\ b.pc \in {"native", "callback"}
             \/ /\ a.pc = "native" /\ b.pc = "out" /\ b.p = Len(Args[f])
             \/ /\ a.pc = "out" /\ a.p = 0 /\ b.pc = "native_to_perl"
      PROVE  Kept(b) = Kept(a) /\ Open(b) = Open(a)
  <2>1. CASE a.pc = "in" /\ b.pc = "perl_to_native" /\ b.p = a.p
    BY <2>1 DEF Kept, Open
  <2>2. CASE a.pc = "in" /\ b.pc = "native" /\ a.p = Len(Args[f]) + 1
    BY <1>2, <2>2 DEF Kept, Open
  <2>3. CASE a.pc \in {"native", "callback"} /\ b.pc \in {"native", "callback"}
    BY <2>3 DEF Kept, Open
  <2>4. CASE a.pc = "native" /\ b.pc = "out" /\ b.p = Len(Args[f])
    BY <1>2, <2>4 DEF Kept, Open
  <2>5. CASE a.pc = "out" /\ a.p = 0 /\ b.pc = "native_to_perl"
    BY <1>2, <2>5 DEF Kept, Open
  <2> QED
    BY <1>4, <2>1, <2>2, <2>3, <2>4, <2>5
<1>5. ASSUME a.pc = "out", b.pc = "perl_to_native_post", b.p = a.p
      PROVE  /\ Kept(b) = Kept(a)
             /\ Open(b) = Open(a) \ {a.p}
             /\ \A q \in Open(a) : q <= a.p
  BY <1>2, <1>5 DEF Kept, Open
<1>6. ASSUME a.pc \in {"out", "perl_to_native_post"}, b.pc = "out", b.p = a.p - 1
      PROVE  /\ Kept(b) = Kept(a) \ {a.p}
             /\ \A q \in Kept(a) : q <= a.p
             /\ a.pc = "perl_to_native_post" \/ a.p \notin Open(a) => Open(b) = Open(a)
  BY <1>2, <1>6 DEF Kept, Open
<1> QED
  BY <1>3, <1>4, <1>5, <1>6

(* A post handler is called with what is to be popped.                     *)
LEMMA OfPost ==
  ASSUME NEW f \in Fun, NEW a, NEW b, a.fn = f, b.fn = f, a.p \in 0..Len(Args[f]) + 1,
         a.pc = "out", b.pc = "perl_to_native_post", b.p = a.p
  PROVE  Kept(b) = Kept(a) /\ Open(b) = Open(a) \ {a.p} /\ \A q \in Open(a) : q <= a.p
BY OfPhases

(* The initial state.                                                      *)
LEMMA PluginInitInv == PluginInit => PluginInv
<1> SUFFICES ASSUME PluginInit
             PROVE  PluginInv
  OBVIOUS
<1>1. IInv
  BY InitInv DEF PluginInit
<1>2. /\ depth = 0 /\ calls = 0 /\ aborted = {} /\ keepers = << >> /\ stack = << >>
      /\ popped = NoPop
  BY DEF PluginInit, Init
<1>3. 1..depth = {} /\ LiveCalls = {} /\ \A w \in Which : List(w) = << >>
  BY <1>2 DEF LiveCalls, List
<1>4. \A w \in Which : Pending(w) = {}
  BY <1>3 DEF Pending, UpTo
<1>5. \A w \in Which : Rules(w) /\ Complete(w)
  <2>1. << >> \in Seq(Keeper) /\ DOMAIN << >> = {}
    OBVIOUS
  <2> QED
    BY <1>3, <1>4, <2>1 DEF Rules, Room, Ruled, InOrder, Complete, Held
<1>6. Nested
  BY <1>1, <1>2, <1>3 DEF Nested, InTurn, UnwoundOver
<1>7. PopsOwn
  BY <1>2 DEF PopsOwn, NoPop
<1> QED
  BY <1>5, <1>6, <1>7, WhichTwo DEF PluginInv

(* The steps of the dispatch, one for each phase of a call.                *)
LEMMA PluginEnter ==
  ASSUME PluginInv, IInv', NEW f \in Fun, Begins(f)
  PROVE  PluginInv'
<1>1. Nested /\ Rules("keepers") /\ Rules("stack") /\ Complete("stack")
  BY DEF PluginInv
<1>0. Enter(f) /\ stack' = stack /\ popped' = NoPop /\ emptied' = (emptied /\ depth # 0)
  BY DEF Begins
<1>2. Nested'
  BY <1>0, <1>1, InTurnSteps, UnwoundSteps DEF Nested
<1>3. \A w \in Which : List(w)' = List(w)
  BY <1>0 DEF Enter, List
<1>4. Rules("keepers")' /\ Rules("stack")'
  BY <1>0, <1>1, <1>3, WhichTwo, RulesEnter
<1>5. ~ emptied' => Complete("keepers")'
  <2>1. depth = 0 => Complete("keepers")
    BY DEF Complete, Held, Pending, UpTo
  <2>2. ~ emptied' => Complete("keepers")
    BY <1>0, <2>1 DEF PluginInv
  <2> QED
    BY <1>0, <1>1, <1>3, <2>2, WhichTwo, CompleteEnter
<1>6. Complete("stack")'
  BY <1>0, <1>1, <1>3, WhichTwo, CompleteEnter
<1>7. PopsOwn'
  BY <1>0 DEF PopsOwn, NoPop
<1> QED
  BY <1>2, <1>4, <1>5, <1>6, <1>7 DEF PluginInv

(* The argument that is being converted.                                   *)
LEMMA ToTypeTop ==
  ASSUME Nested, MoreIn \/ At("perl_to_native")
  PROVE  /\ Top.pc \in {"in", "perl_to_native"} /\ Top.pc # "main"
         /\ Top.fn \in Fun /\ Top.p \in DOMAIN Args[Top.fn] /\ Top.p \in Nat
         /\ Top.p \in 0..Len(Args[Top.fn]) + 1
         /\ TopType = Args[Top.fn][Top.p]
         /\ TopType.post => TopType.custom /\ TopType.p2n
         /\ NextIn.id = Top.id /\ NextIn.fn = Top.fn /\ NextIn.pc = "in" /\ NextIn.p = Top.p + 1
<1>1. TypeOK /\ FramesPlaced /\ Top.pc \in {"in", "perl_to_native"}
  BY DEF Nested, IInv, MoreIn, At
<1>2. /\ Top.pc # "main" /\ Top.p \in 1..Len(Args[Top.fn])
      /\ TopType = Args[Top.fn][Top.p]
  BY <1>1, NextInPlaced
<1>3. Top.fn \in Fun /\ Top \in Frame
  BY <1>1, <1>2, TopPlaced
<1>4. NextIn.id = Top.id /\ NextIn.fn = Top.fn /\ NextIn.pc = "in" /\ NextIn.p = Top.p + 1
  BY <1>3 DEF NextIn, Frame
<1>5. Top.p \in DOMAIN Args[Top.fn] /\ Top.p \in Nat /\ Top.p \in 0..Len(Args[Top.fn]) + 1
  BY <1>2, <1>3, ArgsType
<1> QED
  BY <1>1, <1>2, <1>3, <1>4, <1>5, PluginAssumption

(* An argument is converted: what is kept for it, and what is pushed.      *)
LEMMA PluginIn ==
  ASSUME PluginInv, IInv', MoreIn \/ At("perl_to_native"), popped' = NoPop,
         \/ /\ Store
            /\ \/ TopType.custom /\ Keep
               \/ ~ TopType.custom /\ keepers' = keepers
            /\ emptied' = emptied
         \/ /\ TopType.custom /\ Resume(NextIn) /\ keepers' = keepers /\ emptied',
         \/ TopType.post /\ stack' = Append(stack, Own)
         \/ ~ TopType.post /\ stack' = stack
  PROVE  PluginInv'
<1>1. Nested
  BY DEF PluginInv
<1>2. /\ Top.pc \in {"in", "perl_to_native"} /\ Top.pc # "main"
      /\ Top.fn \in Fun /\ Top.p \in DOMAIN Args[Top.fn] /\ Top.p \in Nat
      /\ Top.p \in 0..Len(Args[Top.fn]) + 1
      /\ TopType = Args[Top.fn][Top.p]
      /\ NextIn.id = Top.id /\ NextIn.fn = Top.fn /\ NextIn.pc = "in" /\ NextIn.p = Top.p + 1
  BY <1>1, ToTypeTop
<1>3. /\ Kept(NextIn) = Kept(Top) \cup (IF TopType.custom THEN {Top.p} ELSE {})
      /\ Open(NextIn) = Open(Top) \cup (IF TopType.post THEN {Top.p} ELSE {})
  BY <1>2, OfPhases
<1>4. Keep => keepers' = Append(keepers, Own)
  BY DEF Keep, Own
<1>5. Top.p <= Top.p + 1
  BY <1>2
<1>6. CASE Resume(NextIn)
  <2>1. Same("stack", NextIn) \/ Pushes("stack", NextIn)
    BY <1>2, <1>3, <1>5 DEF Same, Leaves, Pushes, Of, List
  <2>2. \/ Same("keepers", NextIn) /\ (emptied => emptied')
        \/ Pushes("keepers", NextIn) /\ (emptied => emptied')
        \/ Leaves("keepers", NextIn) /\ emptied'
    BY <1>2, <1>3, <1>4, <1>5 DEF Same, Leaves, Pushes, Of, List
  <2> QED
    BY <1>2, <1>6, <2>1, <2>2, PluginResume
<1>7. CASE Croak /\ emptied' = emptied /\ (Keep \/ keepers' = keepers)
  <2>1. Leave /\ aborted' = aborted \cup {Top.id}
    BY <1>7 DEF Croak
  <2> QED
    BY <1>2, <1>4, <1>7, <2>1, PluginLeave
<1> QED
  BY <1>6, <1>7 DEF Store, Refuse

(* Steps that leave both stacks and what is to be popped as they are.      *)
LEMMA PluginSame ==
  ASSUME PluginInv, IInv', Top.pc # "main", Top.p \in Nat,
         NEW fr, fr.id = Top.id, Resume(fr), keepers' = keepers, Elsewhere,
         Kept(fr) = Kept(Top), Open(fr) = Open(Top),
         fr.pc \in {"in", "perl_to_native"} => Top.pc \in {"in", "perl_to_native"} /\ fr.p = Top.p
  PROVE  PluginInv'
<1>1. Same("keepers", fr) /\ Same("stack", fr)
  BY DEF Same, Leaves, Of, List, Elsewhere
<1> QED
  BY <1>1, PluginResume DEF Elsewhere

(* Every step: one case for each action.                                   *)
LEMMA PluginNextInv == PluginInv /\ [PluginNext]_pluginVars => PluginInv'
<1> SUFFICES ASSUME PluginInv, [PluginNext]_pluginVars
             PROVE  PluginInv'
  OBVIOUS
<1>1. Nested /\ IInv /\ TypeOK /\ FramesPlaced
  BY DEF PluginInv, Nested, IInv
<1>2. IInv'
  <2>1. [Next]_vars
    BY DEF PluginNext, Begins, pluginVars, Next, ConvertedByPlugin, PostByPlugin
  <2> QED
    BY <1>1, <2>1, NextInv
<1>3. ASSUME NEW f \in Fun, Begins(f)
      PROVE  PluginInv'
  BY <1>2, <1>3, PluginEnter
<1>4. CASE (PlainIn \/ CopyIn) /\ Elsewhere
  <2>1. MoreIn
    BY <1>4 DEF PlainIn, CopyIn
  <2>2. TopType.post => TopType.custom /\ TopType.p2n
    BY <1>1, <2>1, ToTypeTop
  <2>3. /\ Store
        /\ \/ TopType.custom /\ Keep
           \/ ~ TopType.custom /\ keepers' = keepers
        /\ ~ TopType.post
    BY <1>4, <2>2 DEF PlainIn, CopyIn
  <2> QED
    BY <1>2, <1>4, <2>1, <2>3, PluginIn DEF Elsewhere
<1>5. CASE ConvertIn /\ Elsewhere
  <2> DEFINE fr == [Top EXCEPT !.pc = "perl_to_native"]
  <2>1. MoreIn /\ Top.pc = "in" /\ Resume(fr) /\ keepers' = keepers
    BY <1>5 DEF ConvertIn, MoreIn, At
  <2>2. /\ Top.pc # "main" /\ Top.fn \in Fun /\ Top.p \in Nat
        /\ Top.p \in 0..Len(Args[Top.fn]) + 1
    BY <1>1, <2>1, ToTypeTop
  <2>3. fr.id = Top.id /\ fr.fn = Top.fn /\ fr.pc = "perl_to_native" /\ fr.p = Top.p
    BY <1>1, <2>2, NestedTop DEF Frame
  <2> HIDE DEF fr
  <2>4. Kept(fr) = Kept(Top) /\ Open(fr) = Open(Top)
    BY <2>1, <2>2, <2>3, OfPhases
  <2> QED
    BY <1>2, <1>5, <2>1, <2>2, <2>3, <2>4, PluginSame
<1>6. CASE ConvertedByPlugin
  <2>1. At("perl_to_native")
    BY <1>6 DEF ConvertedByPlugin, ConvertedIn, ConvertedInEmpty
  <2>2. TopType.custom
    <3>1. Top.pc = "perl_to_native" /\ Top.pc # "main"
      BY <2>1 DEF At
    <3>2. Placed(Top) /\ TopType = Args[Top.fn][Top.p]
      BY <1>1, <2>1, <3>1, TopPlaced, NextInPlaced
    <3> QED
      BY <3>1, <3>2 DEF Placed
  <2>3. \/ Store /\ Keep /\ emptied' = emptied
        \/ Resume(NextIn) /\ keepers' = keepers /\ emptied'
    BY <1>6 DEF ConvertedByPlugin, ConvertedIn, ConvertedInEmpty
  <2>4. /\ popped' = NoPop
        /\ \/ TopType.post /\ stack' = Append(stack, Own)
           \/ ~ TopType.post /\ stack' = stack
    BY <1>6 DEF ConvertedByPlugin, UsesStack, Push
  <2> QED
    BY <1>2, <2>1, <2>2, <2>3, <2>4, PluginIn
<1>7. CASE (CallNative \/ Callback \/ CallbackReturn \/ NativeReturn) /\ Elsewhere
  <2>1. PICK fr :
           /\ \/ Top.pc = "in" /\ fr = [Top EXCEPT !.pc = "native"]
              \/ Top.pc = "native" /\ fr = [Top EXCEPT !.pc = "callback"]
              \/ Top.pc = "callback" /\ fr = [Top EXCEPT !.pc = "native"]
              \/ /\ Top.pc = "native"
                 /\ fr = [Top EXCEPT !.pc = "out", !.i = NArgs(Top.fn) - 1, !.p = @ - 1]
           /\ Resume(fr) /\ keepers' = keepers
    BY <1>7 DEF CallNative, Callback, CallbackReturn, NativeReturn, At
  <2>2. Top.pc # "main"
    BY <2>1
  <2>3. /\ Top \in Frame /\ Top.fn \in Fun /\ Placed(Top) /\ Len(Args[Top.fn]) \in Nat
    BY <1>1, <2>2, TopPlaced, ArgsType
  <2>4. /\ fr.id = Top.id /\ fr.fn = Top.fn
        /\ fr.pc = "out" => fr.p = Top.p - 1
        /\ fr.pc # "out" => fr.p = Top.p
        /\ \/ Top.pc = "in" /\ fr.pc = "native"
           \/ Top.pc = "native" /\ fr.pc = "callback"
           \/ Top.pc = "callback" /\ fr.pc = "native"
           \/ Top.pc = "native" /\ fr.pc = "out"
    BY <2>1, <2>3 DEF Frame
  <2>5. Placed(fr)
    BY <1>1, <1>2, <2>1, <2>2, ResumedPlaced
  <2>6. Top.p = Len(Args[Top.fn]) + 1
    <3>1. CASE Top.pc = "in"
      BY <2>4, <2>5, <3>1 DEF Placed
    <3>2. CASE Top.pc \in {"native", "callback"}
      BY <2>3, <3>2 DEF Placed
    <3> QED
      BY <2>4, <3>1, <3>2
  <2>7. Top.p \in Nat /\ Top.p \in 0..Len(Args[Top.fn]) + 1
        /\ (fr.pc = "out" => fr.p = Len(Args[Top.fn]))
    BY <2>3, <2>4, <2>6
  <2>8. Kept(fr) = Kept(Top) /\ Open(fr) = Open(Top)
    BY <2>3, <2>4, <2>6, <2>7, OfPhases
  <2>9. fr.pc \notin {"in", "perl_to_native"}
    BY <2>4
  <2> QED
    BY <1>2, <1>7, <2>1, <2>2, <2>4, <2>7, <2>8, <2>9, PluginSame
<1>8. CASE PlainOut /\ Elsewhere
  <2> DEFINE fr == NextOut(Top.i)
  <2>1. MoreOut /\ ~ TopType.custom /\ Resume(fr) /\ keepers' = keepers /\ Top.pc = "out"
    BY <1>8 DEF PlainOut, MoreOut, At
  <2>2. /\ Top.pc # "main" /\ Top.p \in 1..Len(Args[Top.fn])
        /\ TopType = Args[Top.fn][Top.p]
    BY <1>1, <2>1, OutPlaced
  <2>3. Top.fn \in Fun /\ Top \in Frame /\ Len(Args[Top.fn]) \in Nat
    BY <1>1, <2>2, TopPlaced, ArgsType
  <2>4. fr.id = Top.id /\ fr.fn = Top.fn /\ fr.pc = "out" /\ fr.p = Top.p - 1
    BY <2>3 DEF NextOut, Frame
  <2> HIDE DEF fr
  <2>5. Top.p \in DOMAIN Args[Top.fn] /\ Top.p \in Nat /\ Top.p \in 0..Len(Args[Top.fn]) + 1
    BY <2>2, <2>3, ArgsType
  <2>6. Top.p \notin Kept(Top) /\ Top.p \notin Open(Top)
    <3>1. Args[Top.fn][Top.p].post => Args[Top.fn][Top.p].custom
      BY <2>3, <2>5, PluginAssumption
    <3> QED
      BY <2>1, <2>2, <3>1 DEF Kept, Open
  <2>7. Kept(fr) = Kept(Top) /\ Open(fr) = Open(Top)
    <3>1. Kept(fr) = Kept(Top) \ {Top.p} /\ Open(fr) = Open(Top)
      BY <2>1, <2>3, <2>4, <2>5, <2>6, OfPhases
    <3> QED
      BY <2>6, <3>1
  <2>8. fr.pc \notin {"in", "perl_to_native"}
    BY <2>4
  <2> QED
    BY <1>2, <1>8, <2>1, <2>2, <2>4, <2>5, <2>7, <2>8, PluginSame
<1>9. CASE PostByPlugin
  <2> DEFINE i == Top.i - TopType.extra
             fp == [Top EXCEPT !.pc = "perl_to_native_post", !.i = i]
             fo == NextOut(i)
  <2>1. /\ MoreOut /\ TopType.custom /\ Top.pc = "out"
        /\ \/ TopType.post /\ Resume(fp) /\ keepers' = keepers
           \/ ~ TopType.post /\ Resume(fo) /\ PopKeeper
    BY <1>9 DEF PostByPlugin, PostOut, MoreOut, At
  <2>2. /\ Top.pc # "main" /\ Top.p \in 1..Len(Args[Top.fn])
        /\ TopType = Args[Top.fn][Top.p]
    BY <1>1, <2>1, OutPlaced
  <2>3. Top.fn \in Fun /\ Top \in Frame /\ Len(Args[Top.fn]) \in Nat
    BY <1>1, <2>2, TopPlaced, ArgsType
  <2>4. /\ fp.id = Top.id /\ fp.fn = Top.fn /\ fp.pc = "perl_to_native_post" /\ fp.p = Top.p
        /\ fo.id = Top.id /\ fo.fn = Top.fn /\ fo.pc = "out" /\ fo.p = Top.p - 1
    BY <2>3 DEF NextOut, Frame
  <2> HIDE DEF fp, fo
  <2>5. Top.p \in DOMAIN Args[Top.fn] /\ Top.p \in Nat /\ Top.p \in 0..Len(Args[Top.fn]) + 1
        /\ Top.p <= Top.p
    BY <2>2, <2>3, ArgsType
  <2>6. CASE TopType.post /\ Resume(fp) /\ keepers' = keepers
    <3>1. Top.p \in Open(Top)
      BY <2>1, <2>2, <2>5, <2>6 DEF Open
    <3>2. Kept(fp) = Kept(Top) /\ Open(fp) = Open(Top) \ {Top.p} /\ \A q \in Open(Top) : q <= Top.p
      <4>1. Top.fn \in Fun /\ fp.fn = Top.fn /\ Top.p \in 0..Len(Args[Top.fn]) + 1
        BY <2>3, <2>4, <2>5
      <4>2. Top.pc = "out" /\ fp.pc = "perl_to_native_post" /\ fp.p = Top.p
        BY <2>1, <2>4
      <4> QED
        BY ONLY <4>1, <4>2, OfPost
    <3>3. Pop /\ emptied' = emptied
      BY <1>9, <2>6 DEF PostByPlugin, UsesStack
    <3>4. Same("keepers", fp)
      BY <2>4, <2>6, <3>2 DEF Same, Leaves, Of, List
    <3>5. Pops("stack", fp)
      BY <2>4, <3>2, <3>3 DEF Pops, Of, List, Pop, Popped
    <3>6. /\ popped'.own = Own
          /\ popped'.got = IF stack = << >> THEN NoEntry ELSE stack[Len(stack)]
      BY <3>3 DEF Pop
    <3> QED
      BY <1>2, <2>2, <2>4, <2>5, <2>6, <3>1, <3>3, <3>4, <3>5, <3>6, PluginResume
  <2>7. CASE ~ TopType.post /\ Resume(fo) /\ PopKeeper
    <3>1. Top.p \in Kept(Top) /\ Top.p \notin Open(Top)
      BY <2>1, <2>2, <2>5, <2>7 DEF Kept, Open
    <3>2. /\ Kept(fo) = Kept(Top) \ {Top.p} /\ Open(fo) = Open(Top)
          /\ \A q \in Kept(Top) : q <= Top.p
      BY <2>1, <2>3, <2>4, <2>5, <3>1, OfPhases
    <3>3. popped' = NoPop /\ stack' = stack /\ emptied' = emptied
      BY <1>9, <2>7 DEF PostByPlugin, UsesStack
    <3>4. Same("stack", fo)
      BY <2>4, <3>2, <3>3 DEF Same, Leaves, Of, List
    <3>5. Pops("keepers", fo)
      BY <2>4, <2>7, <3>2 DEF Pops, Of, List, PopKeeper, Popped
    <3> QED
      BY <1>2, <2>2, <2>4, <2>5, <2>7, <3>1, <3>3, <3>4, <3>5, PluginResume
  <2> QED
    BY <2>1, <2>6, <2>7
<1>10. CASE PostReturn /\ Elsewhere
  <2> DEFINE fo == NextOut(Top.i)
  <2>1. Top.pc = "perl_to_native_post" /\ Top.pc # "main" /\ Resume(fo) /\ PopKeeper
    BY <1>10 DEF PostReturn, At
  <2>2. Top.fn \in Fun /\ Top \in Frame /\ Placed(Top) /\ Len(Args[Top.fn]) \in Nat
    BY <1>1, <2>1, TopPlaced, ArgsType
  <2>3. fo.id = Top.id /\ fo.fn = Top.fn /\ fo.pc = "out" /\ fo.p = Top.p - 1
    BY <2>2 DEF NextOut, Frame
  <2> HIDE DEF fo
  <2>4. /\ Top.p \in DOMAIN Args[Top.fn] /\ Top.p \in Nat /\ Top.p \in 0..Len(Args[Top.fn]) + 1
        /\ Top.p <= Top.p /\ Args[Top.fn][Top.p].custom
    BY <2>1, <2>2, ArgsType DEF Placed
  <2>5. Top.p \in Kept(Top)
    BY <2>1, <2>4 DEF Kept
  <2>6. /\ Kept(fo) = Kept(Top) \ {Top.p} /\ Open(fo) = Open(Top)
        /\ \A q \in Kept(Top) : q <= Top.p
    BY <2>1, <2>2, <2>3, <2>4, OfPhases
  <2>7. Same("stack", fo) /\ Pops("keepers", fo)
    BY <1>10, <2>1, <2>3, <2>6 DEF Same, Leaves, Pops, Of, List, PopKeeper, Popped, Elsewhere
  <2> QED
    BY <1>2, <1>10, <2>1, <2>3, <2>4, <2>5, <2>7, PluginResume DEF Elsewhere
<1>11. CASE ConvertReturn /\ Elsewhere
  <2> DEFINE fr == [Top EXCEPT !.pc = "native_to_perl"]
  <2>1. Top.pc = "out" /\ Top.pc # "main" /\ Top.i < 0 /\ Resume(fr) /\ keepers' = keepers
    BY <1>11 DEF ConvertReturn, At
  <2>2. /\ Top.fn \in Fun /\ Top \in Frame /\ Top.p = 0 /\ Len(Args[Top.fn]) \in Nat
    BY <1>1, <2>1, TopPlaced, OutDone, ArgsType
  <2>3. fr.id = Top.id /\ fr.fn = Top.fn /\ fr.pc = "native_to_perl"
    BY <2>2 DEF Frame
  <2> HIDE DEF fr
  <2>4. Kept(fr) = Kept(Top) /\ Open(fr) = Open(Top)
    <3>1. Top.p \in 0..Len(Args[Top.fn]) + 1
      BY <2>2
    <3> QED
      BY <2>1, <2>2, <2>3, <3>1, OfPhases
  <2>5. Top.p \in Nat /\ fr.pc \notin {"in", "perl_to_native"}
    BY <2>2, <2>3
  <2> QED
    BY <1>2, <1>11, <2>1, <2>3, <2>4, <2>5, PluginSame
<1>12. CASE (Return \/ ConvertedReturn) /\ Elsewhere
  <2>1. /\ Top.pc # "main" /\ Leave /\ keepers' = keepers /\ aborted' = aborted
        /\ (Top.pc = "out" /\ Top.i < 0) \/ Top.pc = "native_to_perl"
    BY <1>12 DEF Return, ConvertedReturn, At
  <2>2. Placed(Top) /\ Top.fn \in Fun
    BY <1>1, <2>1, TopPlaced
  <2>3. Top.p = 0
    BY <2>1, <2>2, OutDone DEF Placed
  <2>4. Kept(Top) = {} /\ Open(Top) = {}
    <3>1. \A p \in DOMAIN Args[Top.fn] : ~ (p <= Top.p)
      BY <2>2, <2>3, ArgsType
    <3> QED
      BY <2>1, <3>1 DEF Kept, Open
  <2> QED
    BY <1>2, <1>12, <2>1, <2>3, <2>4, PluginLeave DEF Elsewhere
<1>13. CASE Die /\ Elsewhere
  <2>1. /\ Top.pc # "main" /\ Leave /\ keepers' = keepers
        /\ aborted' = aborted \cup {Top.id} /\ Top.pc \in Handler
    BY <1>13 DEF Die, Handler
  <2>2. Placed(Top) /\ Top.fn \in Fun
    BY <1>1, <2>1, TopPlaced
  <2>3. Top.p \in Nat
    BY <2>1, <2>2, ArgsType DEF Placed, Handler
  <2> QED
    BY <1>2, <1>13, <2>1, <2>3, PluginLeave DEF Elsewhere
<1>14. CASE UNCHANGED pluginVars
  <2>1. /\ depth' = depth /\ frame' = frame /\ calls' = calls /\ argv' = argv
        /\ heap' = heap /\ keepers' = keepers /\ aborted' = aborted
        /\ stack' = stack /\ popped' = popped /\ emptied' = emptied
    BY <1>14 DEF pluginVars, vars
  <2>2. LiveCalls' = LiveCalls /\ \A w \in Which : List(w)' = List(w) /\ Pending(w)' = Pending(w)
    BY <2>1, PendingNext DEF LiveCalls, List, Pending
  <2>3. Nested'
    BY <1>1, <1>2, <2>1, <2>2 DEF Nested, InTurn, UnwoundOver
  <2>4. \A w \in Which : Rules(w) => Rules(w)'
    <3> SUFFICES ASSUME NEW w \in Which, Rules(w)
                 PROVE  Rules(w)'
      OBVIOUS
    <3>1. Ruled(List(w)', Pending(w)', LiveCalls', aborted', calls')
      BY <2>1, <2>2 DEF Rules
    <3> QED
      BY <2>1, <2>2, <3>1, RulesNext DEF Rules, Room
  <2>5. \A w \in Which : Complete(w) => Complete(w)'
    BY <2>2, CompleteNext DEF Complete
  <2>6. PopsOwn'
    BY <2>1 DEF PluginInv, PopsOwn
  <2> QED
    BY <2>1, <2>3, <2>4, <2>5, <2>6, WhichTwo DEF PluginInv
<1> QED
  BY <1>3, <1>4, <1>5, <1>6, <1>7, <1>8, <1>9, <1>10, <1>11, <1>12, <1>13, <1>14
     DEF PluginNext

(* The invariant holds in every reachable state.                           *)
THEOREM PluginInvariance == PluginSpec => []PluginInv
BY PluginInitInv, PluginNextInv, PTL DEF PluginSpec

(* What a custom argument was converted to is kept until its call is over, *)
(* for every signature and every nesting and unwinding of calls, as long   *)
(* as no handler has returned the empty list since the outermost of the    *)
(* calls in progress began.  custom_keepers is empty between calls, if     *)
(* none has ever been unwound, empty lists or not.                         *)
THEOREM KeepersKept == PluginSpec => []KeepersOfCalls
<1>1. PluginInv => KeepersOfCalls
  <2> SUFFICES ASSUME PluginInv
               PROVE  KeepersOfCalls
    OBVIOUS
  <2>1. ASSUME ~ emptied
        PROVE  KeptForLifetime
    <3>1. Held(keepers, Pending("keepers"))
      BY <2>1 DEF PluginInv, Complete, List
    <3> SUFFICES ASSUME NEW d \in 1..depth, NEW p \in Converted(frame[d])
                 PROVE  \E k \in DOMAIN keepers : keepers[k] = [id |-> frame[d].id, p |-> p]
      BY DEF KeptForLifetime
    <3>2. p \in Of("keepers", frame[d])
      BY DEF Converted, Kept, Of
    <3>3. [id |-> frame[d].id, p |-> p] \in Entries("keepers", frame[d])
      BY <3>2 DEF Entries
    <3>4. [id |-> frame[d].id, p |-> p] \in Pending("keepers")
      BY <3>3 DEF Pending, UpTo
    <3> QED
      BY <3>1, <3>4 DEF Held
  <2>2. ASSUME depth = 0, aborted = {}
        PROVE  keepers = << >>
    <3>1. Pending("keepers") = {}
      BY <2>2 DEF Pending, UpTo
    <3>2. /\ keepers \in Seq(Keeper)
          /\ \A k \in DOMAIN keepers : Accounted(keepers[k], Pending("keepers"), aborted)
      BY DEF PluginInv, Rules, Ruled, List
    <3>3. \A k \in DOMAIN keepers : FALSE
      BY <2>2, <3>1, <3>2 DEF Accounted
    <3> QED
      BY <3>2, <3>3
  <2> QED
    BY <2>1, <2>2 DEF KeepersOfCalls, KeepersDrained
<1> QED
  BY <1>1, PluginInvariance, PTL

(* A post handler pops what perl_to_native made for the same argument, for *)
(* every signature and every nesting, unless a later call was unwound; and *)
(* while none was, the stack holds what is open and nothing else.          *)
THEOREM StackKept == PluginSpec => []StackOfCalls
<1>1. PluginInv => StackOfCalls
  <2> SUFFICES ASSUME PluginInv
               PROVE  StackOfCalls
    OBVIOUS
  <2>1. PopsOwn
    BY DEF PluginInv
  <2>2. ASSUME aborted = {}
        PROVE  /\ {stack[k] : k \in DOMAIN stack} = Pending("stack")
               /\ \A j, k \in DOMAIN stack : stack[j] = stack[k] => j = k
    <3>1. /\ Ruled(stack, Pending("stack"), LiveCalls, aborted, calls)
          /\ Held(stack, Pending("stack"))
      BY DEF PluginInv, Rules, Complete, List
    <3>2. \A k \in DOMAIN stack : stack[k] \in Pending("stack")
      BY <2>2, <3>1 DEF Ruled, Accounted
    <3>3. {stack[k] : k \in DOMAIN stack} = Pending("stack")
      BY <3>1, <3>2 DEF Held
    <3>4. ASSUME NEW j \in DOMAIN stack, NEW k \in DOMAIN stack, j < k
          PROVE  stack[j] # stack[k]
      <4>1. stack[j] \in Keeper /\ stack[j].id \in LiveCalls
        <5>1. depth # 0
          BY <3>2 DEF Pending, UpTo
        <5>2. /\ Nested /\ depth \in 1..depth
          BY <5>1 DEF PluginInv, Nested, IInv, TypeOK
        <5>3. PICK d \in 1..depth : stack[j] \in Entries("stack", frame[d])
          BY <3>2 DEF Pending, UpTo
        <5>4. stack[j].id = frame[d].id
          BY <5>3 DEF Entries
        <5> QED
          BY <3>1, <5>4 DEF Ruled, LiveCalls
      <4>2. Before(stack[j], stack[k])
        BY <3>1, <3>4, <4>1 DEF Ruled, InOrder
      <4>3. stack[j].id \in Nat /\ stack[j].p \in Nat
        BY <4>1 DEF Keeper
      <4> QED
        BY <4>2, <4>3 DEF Before
    <3>5. DOMAIN stack = 1..Len(stack) /\ Len(stack) \in Nat
      BY <3>1 DEF Ruled
    <3>6. \A j, k \in DOMAIN stack : j = k \/ j < k \/ k < j
      BY <3>5
    <3> QED
      BY <3>3, <3>4, <3>6
  <2>3. Pending("stack") = UNION {{[id |-> frame[d].id, p |-> p] : p \in Open(frame[d])} : d \in 1..depth}
    BY DEF Pending, UpTo, Entries, Of
  <2> QED
    BY <2>1, <2>2, <2>3 DEF StackOfCalls, PopsOwn
<1> QED
  BY <1>1, PluginInvariance, PTL

-----------------------------------------------------------------------------
(* The memory of arguments                                                 *)

(* What is not on the heap is a copy of a scalar.                          *)
Block == {b \in [heap : BOOLEAN, cells : Seq(Value), live : BOOLEAN] :
            b.heap \/ Len(b.cells) >= 1}

(* The variables of Arguments have their types: a block for each argument  *)
(* that was converted.                                                     *)
Typed ==
  /\ scalar \in [Scalar -> Value]
  /\ array \in [Array -> Seq(Value \cup {Frozen})]
  /\ sig \in Seq(Type) /\ arg \in [1..Len(sig) -> Referent]
  /\ block \in Seq(Block \cup {Null})
  /\ phase \in {"idle", "in", "native", "out", "result", "died", "killed"}
  /\ phase = "in" => at \in 1..Len(sig) /\ Len(block) = at - 1
  /\ phase \notin {"in", "killed"} => Len(block) = Len(sig)
  /\ phase = "out" => at \in 0..Len(sig)
  /\ phase = "result" => at = 0
  /\ returned \in 0..Len(sig)
  /\ returned # 0 => returned \in 1..Len(block) /\ block[returned] # Null
  /\ given \in Seq(Value) /\ result \in ResultType

(* Blocks are alive until they are freed, and those on the heap are freed  *)
(* before the result is read.                                              *)
Living ==
  /\ phase \in {"in", "native", "out"} =>
       \A k \in DOMAIN block : block[k] # Null => block[k].live
  /\ phase \in {"result", "idle"} =>
       \A k \in DOMAIN block : block[k] # Null /\ block[k].heap => ~ block[k].live
  /\ phase = "result" =>
       \A k \in DOMAIN block : block[k] # Null /\ ~ block[k].live => block[k].heap
  /\ "result" \in strayed =>
       phase = "idle" /\ ((returned # 0 /\ block[returned].heap) \/ Unbounded)

(* The type says how many elements the array has.                          *)
HasLength(k) == sig[k].shape = "array" /\ sig[k].count # 0

(* The block has what its type and its variable need, but in the cases of  *)
(* ReadsInside.                                                            *)
Fits(k) ==
  /\ arg[k] \in Scalar => Lengthless(k) \/ Len(block[k].cells) >= 1
  /\ arg[k] \in Array =>
       /\ Len(block[k].cells) <= Len(array[arg[k]])
       /\ IF HasLength(k) THEN Len(block[k].cells) = sig[k].count
          ELSE Len(block[k].cells) = Len(array[arg[k]]) \/ Outgrown(k)

Fitting ==
  ~ changed /\ phase \in {"in", "native", "out"} =>
    \A k \in DOMAIN block : block[k] # Null => Fits(k)

Straying ==
  /\ phase \in {"in", "native"} => strayed \subseteq {"in"}
  /\ "in" \in strayed => changed \/ \E k \in DOMAIN sig : Misread(k)
  /\ "out" \in strayed => changed \/ \E k \in DOMAIN sig : Lengthless(k) \/ Outgrown(k)

(* The arguments that were copied back.                                    *)
Back ==
  ~ changed /\ phase \in {"out", "result"} =>
    \A k \in at + 1..Len(sig) :
      block[k] # Null /\ (\A j \in at + 1..k - 1 : arg[j] # arg[k]) => Copied(k)

MemoryInv == Typed /\ Living /\ Fitting /\ Straying /\ Back


(* A NULL that is shown as undef is a number again when it is passed.      *)
Element == Value \cup {Frozen}

LEMMA NumberIs ==
  /\ \A v \in Element : Number(v) \in Value
  /\ \A v \in Value, old \in Element :
       /\ Shown(v, old) \in Element
       /\ Withheld(sig[at], v) \/ Number(Shown(v, old)) = v
BY ArgumentsAssumption
   DEF ArgumentsAssumption, Number, Shown, Withheld, Declared, Value, Element

(* An array that is extended keeps its elements.                           *)
LEMMA ExtendedIs ==
  ASSUME NEW e \in Seq(Element), NEW n \in Nat
  PROVE  /\ Extended(e, n) \in Seq(Element)
         /\ Len(Extended(e, n)) = IF n > Len(e) THEN n ELSE Len(e)
         /\ DOMAIN Extended(e, n) = 1..(IF n > Len(e) THEN n ELSE Len(e))
<1> DEFINE m == IF n > Len(e) THEN n ELSE Len(e)
<1>1. m \in Nat
  OBVIOUS
<1>2. \A k \in 1..m : (IF k <= Len(e) THEN e[k] ELSE 0) \in Element
  BY DEF Element, Value
<1>3. Extended(e, n) = [k \in 1..m |-> IF k <= Len(e) THEN e[k] ELSE 0]
  BY DEF Extended
<1> HIDE DEF m
<1>4. Extended(e, n) \in Seq(Element) /\ Len(Extended(e, n)) = m /\ DOMAIN Extended(e, n) = 1..m
  BY <1>1, <1>2, <1>3
<1> QED
  BY <1>4 DEF m

(* Memory that was handed to C is a block of its own.                      *)
LEMMA MemoryIs ==
  ASSUME NEW h \in BOOLEAN, NEW c \in Seq(Value), h \/ Len(c) >= 1
  PROVE  /\ Memory(h, c) \in Block /\ Memory(h, c).live
         /\ Memory(h, c).cells = c /\ Memory(h, c).heap = h
BY DEF Memory, Block

LEMMA NullIs == Null \notin Block
BY ArgumentsAssumption DEF ArgumentsAssumption, Block

(* An argument is converted: the array it refers to got no other length,   *)
(* but where its type is longer.                                           *)
LEMMA PassKeeps ==
  ASSUME MemoryInv, phase = "in", NEW b \in Block \cup {Null}, Pass(b),
         strayed' = strayed \/ (strayed' = strayed \cup {"in"} /\ Misread(at)),
         array' \in [Array -> Seq(Element)],
         \A a \in Array : \/ Len(array'[a]) = Len(array[a])
                          \/ /\ a = arg[at] /\ sig[at].shape = "array"
                             /\ Len(array'[a]) = sig[at].count
                             /\ Len(array'[a]) > Len(array[a]),
         b # Null =>
           /\ b.live
           /\ arg[at] \in Scalar => Lengthless(at) \/ Len(b.cells) >= 1
           /\ arg[at] \in Array =>
                /\ Len(b.cells) <= Len(array'[arg[at]])
                /\ Len(b.cells) = IF HasLength(at) THEN sig[at].count ELSE Len(array'[arg[at]])
  PROVE  MemoryInv'
<1>1. /\ at \in 1..Len(sig) /\ Len(block) = at - 1 /\ block \in Seq(Block \cup {Null})
      /\ sig \in Seq(Type) /\ Len(sig) \in Nat /\ strayed \subseteq {"in"}
  BY DEF MemoryInv, Typed, Straying
<1>2. /\ block' = Append(block, b) /\ at' = at + 1
      /\ phase' = IF at = Len(sig) THEN "native" ELSE "in"
      /\ sig' = sig /\ arg' = arg /\ scalar' = scalar /\ returned' = returned
      /\ changed' = changed /\ given' = given /\ result' = result /\ api' = api
  BY DEF Pass, ofCall
<1>3. /\ block' \in Seq(Block \cup {Null}) /\ Len(block') = at /\ DOMAIN block' = 1..at
      /\ block'[at] = b /\ DOMAIN block = 1..at - 1
      /\ \A k \in 1..at - 1 : block'[k] = block[k]
  BY <1>1, <1>2
<1>4. Typed'
  <2>1. /\ scalar \in [Scalar -> Value] /\ arg \in [1..Len(sig) -> Referent]
        /\ returned \in 0..Len(sig)
        /\ returned # 0 => returned \in 1..Len(block) /\ block[returned] # Null
    BY DEF MemoryInv, Typed
  <2>2. returned # 0 => returned \in 1..Len(block') /\ block'[returned] # Null
    BY <1>1, <1>3, <2>1
  <2>3. IF phase' = "in" THEN at' \in 1..Len(sig) /\ Len(block') = at' - 1
                         ELSE Len(block') = Len(sig)
    BY <1>1, <1>2, <1>3
  <2>4. given \in Seq(Value) /\ result \in ResultType
    BY DEF MemoryInv, Typed
  <2> QED
    BY <1>1, <1>2, <1>3, <2>1, <2>2, <2>3, <2>4 DEF Typed, Element
<1>5. Living'
  <2>1. \A k \in 1..at - 1 : block[k] # Null => block[k].live
    BY <1>3 DEF MemoryInv, Living
  <2>2. \A k \in 1..at : block'[k] # Null => block'[k].live
    BY <1>1, <1>3, <2>1
  <2>3. phase' \notin {"result", "idle"} /\ "result" \notin strayed'
    BY <1>1, <1>2
  <2> QED
    BY <1>3, <2>2, <2>3 DEF Living
<1>6. Straying' /\ Back'
  <2>1. \A k : Misread(k)' <=> Misread(k)
    BY <1>2 DEF Misread
  <2>2. "in" \in strayed' => changed \/ \E k \in DOMAIN sig : Misread(k)
    BY <1>1 DEF MemoryInv, Straying
  <2> QED
    BY <1>1, <1>2, <2>1, <2>2 DEF Straying, Back
<1>7. Fitting'
  <2> SUFFICES ASSUME ~ changed, NEW k \in 1..at, block'[k] # Null PROVE Fits(k)'
    BY <1>2, <1>3 DEF Fitting
  <2>1. CASE k = at
    BY <2>1, <1>1, <1>2, <1>3 DEF Fits, HasLength, Lengthless
  <2>2. CASE k # at
    <3>1. k \in 1..at - 1 /\ block'[k] = block[k]
      BY <1>1, <1>3, <2>2
    <3>2. Fits(k)
      BY <1>3, <3>1 DEF MemoryInv, Fitting
    <3>3. /\ Lengthless(k)' <=> Lengthless(k)
          /\ HasLength(k)' <=> HasLength(k)
          /\ Outgrown(k)' <=> Outgrown(k)
      BY <1>2, <3>1 DEF Lengthless, HasLength, Outgrown
    <3>4. arg[k] \in Scalar => Lengthless(k) \/ Len(block[k].cells) >= 1
      BY <3>2 DEF Fits
    <3>5. ASSUME arg[k] \in Array
          PROVE  /\ Len(block[k].cells) <= Len(array'[arg[k]])
                 /\ IF HasLength(k) THEN Len(block[k].cells) = sig[k].count
                    ELSE Len(block[k].cells) = Len(array'[arg[k]]) \/ Outgrown(k)
      <4>1. /\ Len(block[k].cells) <= Len(array[arg[k]])
            /\ IF HasLength(k) THEN Len(block[k].cells) = sig[k].count
               ELSE Len(block[k].cells) = Len(array[arg[k]]) \/ Outgrown(k)
        BY <3>2, <3>5 DEF Fits
      <4>2. CASE Len(array'[arg[k]]) = Len(array[arg[k]])
        BY <4>1, <4>2
      <4>3. CASE /\ arg[k] = arg[at] /\ sig[at].shape = "array"
                 /\ Len(array'[arg[k]]) = sig[at].count
                 /\ Len(array'[arg[k]]) > Len(array[arg[k]])
        <5>1. /\ Len(array[arg[k]]) \in Nat /\ Len(array'[arg[k]]) \in Nat
              /\ Len(block[k].cells) \in Nat
          <6>1. array[arg[k]] \in Seq(Element) /\ array'[arg[k]] \in Seq(Element)
            BY <3>5 DEF MemoryInv, Typed, Element
          <6>2. block[k].cells \in Seq(Value)
            BY <1>1, <1>3, <3>1 DEF Block
          <6> QED
            BY <6>1, <6>2
        <5>2. Len(block[k].cells) <= Len(array'[arg[k]]) /\ sig[at].count > Len(block[k].cells)
          BY <4>1, <4>3, <5>1
        <5>3. ~ HasLength(k) => Outgrown(k)
          <6>1. ~ HasLength(k) => sig[k].shape = "pointer" \/ sig[k].count = 0
            <7>1. k \in 1..Len(sig) /\ sig[k] \in Type
              BY <1>1, <3>1
            <7>2. sig[k].shape \in {"pointer", "array"}
              BY <7>1 DEF Type
            <7> QED
              BY <7>2 DEF HasLength
          <6>2. at \in k + 1..Len(sig) /\ arg[at] = arg[k]
            BY <1>1, <3>1, <4>3
          <6> QED
            BY <3>5, <4>3, <5>2, <6>1, <6>2 DEF Outgrown
        <5> QED
          BY <4>1, <5>2, <5>3
      <4> QED
        BY <3>5, <4>2, <4>3
    <3> QED
      BY <1>2, <3>1, <3>3, <3>4, <3>5 DEF Fits
  <2> QED
    BY <2>1, <2>2
<1> QED
  BY <1>4, <1>5, <1>6, <1>7 DEF MemoryInv

(* The arguments are converted.                                            *)
LEMMA InKeeps ==
  ASSUME MemoryInv, PointerIn \/ ArrayIn \/ WildIn \/ NullIn \/ ZerosIn
  PROVE  MemoryInv'
<1>1. /\ phase = "in" /\ at \in 1..Len(sig) /\ sig \in Seq(Type)
      /\ scalar \in [Scalar -> Value] /\ array \in [Array -> Seq(Element)]
      /\ sig[at] \in Type
  <2>1. phase = "in"
    BY DEF PointerIn, ArrayIn, WildIn, NullIn, ZerosIn
  <2>2. /\ at \in 1..Len(sig) /\ sig \in Seq(Type)
        /\ scalar \in [Scalar -> Value] /\ array \in [Array -> Seq(Element)]
    BY <2>1 DEF MemoryInv, Typed, Element
  <2> QED
    BY <2>1, <2>2
<1>2. sig[at].shape \in {"pointer", "array"} /\ sig[at].count \in Nat
  BY <1>1 DEF Type
<1>3. /\ Scalar \cap Array = {} /\ NotRef \notin Scalar \cup Array
      /\ Other \notin Scalar \cup Array /\ Alloca \in BOOLEAN /\ Wild \subseteq Seq(Value)
  BY ArgumentsAssumption DEF ArgumentsAssumption
<1>4. CASE PointerIn
  <2> DEFINE c == <<scalar[arg[at]]>>
             b == Memory(~ Alloca, c)
  <2>1. arg[at] \in Scalar /\ Pass(b) /\ array' = array /\ strayed' = strayed
    BY <1>4 DEF PointerIn, Declared, Passed
  <2>2. c \in Seq(Value) /\ Len(c) >= 1
    BY <1>1, <2>1
  <2> HIDE DEF c
  <2>3. b \in Block /\ b.live /\ b.cells = c
    BY <1>3, <2>2, MemoryIs
  <2>4. arg[at] \notin Array
    BY <1>3, <2>1
  <2> HIDE DEF b
  <2>5. Len(b.cells) >= 1
    BY <2>2, <2>3, Zenon
  <2>6. array' \in [Array -> Seq(Element)] /\ \A a \in Array : Len(array'[a]) = Len(array[a])
    BY <1>1, <2>1
  <2> QED
    BY <1>1, <2>1, <2>3, <2>4, <2>5, <2>6, PassKeeps
<1>5. CASE ArrayIn
  <2> DEFINE e == array[arg[at]]
             n == Count(sig[at], arg[at])
             all == Extended(e, n)
             c == [k \in 1..n |-> Number(all[k])]
             b == Memory(TRUE, c)
  <2>1. /\ arg[at] \in Array /\ array' = [array EXCEPT ![arg[at]] = all] /\ Pass(b)
        /\ strayed' = strayed
    BY <1>5 DEF ArrayIn, Declared, Passed
  <2>2. e \in Seq(Element)
    BY <1>1, <2>1
  <2>3. n = IF HasLength(at) THEN sig[at].count ELSE Len(e)
    BY DEF Count, HasLength
  <2>4. n \in Nat
    BY <1>2, <2>2, <2>3
  <2> HIDE DEF e, n
  <2>5. /\ all \in Seq(Element) /\ Len(all) = IF n > Len(e) THEN n ELSE Len(e)
        /\ DOMAIN all = 1..Len(all) /\ Len(e) \in Nat
    BY <2>2, <2>4, ExtendedIs
  <2> HIDE DEF all
  <2>6. c \in Seq(Value) /\ Len(c) = n
    <3>1. \A k \in 1..n : Number(all[k]) \in Value
      BY <2>4, <2>5, NumberIs
    <3> QED
      BY <2>4, <3>1
  <2> HIDE DEF c
  <2>7. b \in Block /\ b.live /\ b.cells = c
    BY <2>6, MemoryIs
  <2> HIDE DEF b
  <2>8. array' \in [Array -> Seq(Element)] /\ array'[arg[at]] = all
    BY <1>1, <2>1, <2>5
  <2>9. \A a \in Array : \/ Len(array'[a]) = Len(array[a])
                         \/ /\ a = arg[at] /\ sig[at].shape = "array"
                            /\ Len(array'[a]) = sig[at].count
                            /\ Len(array'[a]) > Len(array[a])
    <3> SUFFICES ASSUME NEW a \in Array, Len(array'[a]) # Len(array[a])
                 PROVE  /\ a = arg[at] /\ sig[at].shape = "array"
                        /\ Len(array'[a]) = sig[at].count
                        /\ Len(array'[a]) > Len(array[a])
      OBVIOUS
    <3>1. a = arg[at] /\ array[a] = e
      BY <1>1, <2>1 DEF e
    <3>2. Len(all) # Len(e)
      BY <2>8, <3>1
    <3>3. HasLength(at) /\ n = sig[at].count /\ n > Len(e) /\ Len(all) = n
      BY <2>3, <2>4, <2>5, <3>2
    <3> QED
      BY <2>8, <3>1, <3>3 DEF HasLength
  <2>10. /\ Len(b.cells) <= Len(array'[arg[at]])
         /\ Len(b.cells) = IF HasLength(at) THEN sig[at].count ELSE Len(array'[arg[at]])
    BY <2>3, <2>4, <2>5, <2>6, <2>7, <2>8
  <2>11. arg[at] \notin Scalar
    BY <1>3, <2>1
  <2> QED
    BY <1>1, <2>1, <2>7, <2>8, <2>9, <2>10, <2>11, PassKeeps
<1>6. CASE NullIn
  <2>1. Pass(Null) /\ array' = array /\ strayed' = strayed
    BY <1>6 DEF NullIn
  <2> QED
    BY <1>1, <2>1, PassKeeps
<1>7. CASE ZerosIn
  <2> DEFINE c == [n \in 1..sig[at].count |-> 0]
             b == Memory(TRUE, c)
  <2>1. /\ sig[at].shape = "array" /\ arg[at] \notin Array /\ Pass(b)
        /\ array' = array /\ strayed' = strayed
    BY <1>7 DEF ZerosIn, Declared, Passed
  <2>2. c \in Seq(Value) /\ Len(c) = sig[at].count
    BY <1>2 DEF Value
  <2> HIDE DEF c
  <2>3. b \in Block /\ b.live /\ b.cells = c
    BY <2>2, MemoryIs
  <2> HIDE DEF b
  <2>4. arg[at] \in Scalar => Lengthless(at) \/ Len(b.cells) >= 1
    <3>1. Len(b.cells) = sig[at].count
      BY <2>2, <2>3
    <3>2. sig[at].count = 0 \/ sig[at].count >= 1
      BY <1>2
    <3> QED
      BY <2>1, <3>1, <3>2 DEF Lengthless
  <2>5. array' \in [Array -> Seq(Element)] /\ \A a \in Array : Len(array'[a]) = Len(array[a])
    BY <1>1, <2>1
  <2> QED
    BY <1>1, <2>1, <2>3, <2>4, <2>5, PassKeeps
<1>8. CASE WildIn
  <2>1. PICK cells \in Wild : Pass(Memory(TRUE, cells))
    BY <1>8 DEF WildIn
  <2> DEFINE b == Memory(TRUE, cells)
  <2>2. /\ arg[at] \notin Scalar /\ arg[at] \notin Array /\ Misread(at)
        /\ array' = array /\ strayed' = strayed \cup {"in"}
    BY <1>3, <1>8 DEF WildIn, Misread, Declared, Passed
  <2>3. b \in Block /\ b.live
    BY <1>3, MemoryIs
  <2> HIDE DEF b
  <2>4. array' \in [Array -> Seq(Element)] /\ \A a \in Array : Len(array'[a]) = Len(array[a])
    BY <1>1, <2>2
  <2>5. Pass(b)
    BY <2>1 DEF b
  <2> QED
    BY <1>1, <2>2, <2>3, <2>4, <2>5, PassKeeps
<1> QED
  BY <1>4, <1>5, <1>6, <1>7, <1>8

(* The program is killed while it reads something that is no array.        *)
LEMMA KilledKeeps ==
  ASSUME MemoryInv, Killed
  PROVE  MemoryInv'
<1>1. /\ phase = "in" /\ phase' = "killed" /\ strayed' = strayed \cup {"in"}
      /\ UNCHANGED <<scalar, array, sig, arg, block, at, returned, given, result, api, changed>>
      /\ Misread(at) /\ at \in DOMAIN sig
  BY DEF Killed, perl, ofCall, Misread, Declared, Passed, MemoryInv, Typed
<1>2. Typed'
  BY <1>1 DEF MemoryInv, Typed
<1>3. Living' /\ Fitting' /\ Back'
  BY <1>1 DEF MemoryInv, Living, Straying, Fitting, Back
<1>4. Straying'
  <2>1. "out" \notin strayed'
    BY <1>1 DEF MemoryInv, Straying
  <2>2. Misread(at)'
    BY <1>1 DEF Misread
  <2> QED
    BY <1>1, <2>1, <2>2 DEF Straying, Misread
<1> QED
  BY <1>2, <1>3, <1>4 DEF MemoryInv

(* A call begins: nothing was converted yet.                               *)
LEMMA BeginKeeps ==
  ASSUME MemoryInv, NEW f \in Function,
         NEW args \in [DOMAIN f.args -> Referent], Begin(f, args)
  PROVE  MemoryInv'
<1> DEFINE s == f.args
<1>1. s \in Seq(Type) /\ f.result \in ResultType
  BY ArgumentsAssumption DEF ArgumentsAssumption
<1>2. /\ sig' = s /\ arg' = args /\ block' = << >> /\ at' = 1
      /\ returned' = 0 /\ given' = << >> /\ result' = f.result
      /\ phase' = (IF s = << >> THEN "native" ELSE "in")
      /\ changed' = FALSE /\ strayed' = {} /\ scalar' = scalar /\ array' = array
  BY DEF Begin, perl
<1>3. Len(block') = 0 /\ DOMAIN block' = {} /\ block' \in Seq(Block \cup {Null})
  BY <1>2
<1>4. DOMAIN s = 1..Len(s) /\ Len(s) \in Nat /\ (s = << >> <=> Len(s) = 0)
  BY <1>1
<1>5. Typed'
  <2>1. scalar' \in [Scalar -> Value] /\ array' \in [Array -> Seq(Value \cup {Frozen})]
    BY <1>2 DEF MemoryInv, Typed
  <2>2. IF phase' = "in" THEN at' \in 1..Len(sig') /\ Len(block') = at' - 1
                         ELSE Len(block') = Len(sig')
    BY <1>2, <1>3, <1>4
  <2>3. sig' \in Seq(Type) /\ arg' \in [1..Len(sig') -> Referent]
    BY <1>1, <1>2, <1>4
  <2>4. returned' = 0 /\ returned' \in 0..Len(sig') /\ phase' \in {"in", "native"}
    BY <1>2, <1>4
  <2>5. given' \in Seq(Value) /\ result' \in ResultType
    BY <1>1, <1>2
  <2> QED
    BY <1>3, <2>1, <2>2, <2>3, <2>4, <2>5 DEF Typed
<1>6. Living' /\ Fitting' /\ Straying' /\ Back'
  BY <1>2, <1>3 DEF Living, Fitting, Straying, Back
<1> QED
  BY <1>5, <1>6 DEF MemoryInv

(* C stores into the memory it was given: no block gets another length.    *)
LEMMA CStoreKeeps ==
  ASSUME MemoryInv, NEW k \in DOMAIN block, NEW n, NEW v \in Value, CStore(k, n, v)
  PROVE  MemoryInv'
<1>1. /\ phase = "native" /\ block[k] # Null /\ n \in DOMAIN block[k].cells
      /\ block' = [block EXCEPT ![k].cells[n] = v]
      /\ UNCHANGED <<scalar, array, sig, arg, phase, at, returned, given, result, api,
                     changed, strayed>>
  BY DEF CStore, Change, ofCall, perl
<1>2. block \in Seq(Block \cup {Null}) /\ block[k] \in Block
  BY <1>1 DEF MemoryInv, Typed
<1> DEFINE b == [heap |-> block[k].heap, cells |-> [block[k].cells EXCEPT ![n] = v],
                 live |-> block[k].live]
<1>3. b \in Block /\ Len(b.cells) = Len(block[k].cells)
  BY <1>1, <1>2 DEF Block
<1>4. block' = [block EXCEPT ![k] = b]
  <2>1. block' = [block EXCEPT ![k] = [block[k] EXCEPT !.cells = [block[k].cells EXCEPT ![n] = v]]]
    BY <1>1
  <2>2. ASSUME NEW e \in Block, NEW c
        PROVE  [e EXCEPT !.cells = c] = [heap |-> e.heap, cells |-> c, live |-> e.live]
    BY DEF Block
  <2> QED
    BY <1>2, <2>1, <2>2, Zenon
<1>5. b.heap = block[k].heap /\ b.live = block[k].live
  OBVIOUS
<1> HIDE DEF b
<1>6. /\ block' \in Seq(Block \cup {Null}) /\ Len(block') = Len(block)
      /\ DOMAIN block' = DOMAIN block /\ block'[k] = b /\ b # Null
      /\ \A j \in DOMAIN block : j # k => block'[j] = block[j]
  BY <1>2, <1>3, <1>4, NullIs
<1>7. /\ \A j \in DOMAIN block :
           /\ block'[j] # Null <=> block[j] # Null
           /\ block'[j].live = block[j].live /\ block'[j].heap = block[j].heap
           /\ Len(block'[j].cells) = Len(block[j].cells)
  BY <1>1, <1>3, <1>5, <1>6
<1>8. \A j \in DOMAIN block : Fits(j) => Fits(j)'
  BY <1>1, <1>7 DEF Fits, Lengthless, Outgrown, HasLength
<1>9. Typed'
  <2>1. returned # 0 => returned \in DOMAIN block
    BY <1>2 DEF MemoryInv, Typed
  <2> QED
    BY <1>1, <1>6, <1>7, <2>1 DEF MemoryInv, Typed
<1>10. Living'
  BY <1>1, <1>6, <1>7 DEF MemoryInv, Living, Straying
<1>11. Fitting'
  BY <1>1, <1>6, <1>7, <1>8 DEF MemoryInv, Fitting
<1>12. Straying' /\ Back'
  BY <1>1 DEF MemoryInv, Straying, Back, Misread, Lengthless
<1> QED
  BY <1>9, <1>10, <1>11, <1>12 DEF MemoryInv

(* A callback changes what was passed, and C returns.                      *)
LEMMA NativeKeeps ==
  ASSUME MemoryInv,
         \/ PerlChanges
         \/ \E k \in {0} \cup DOMAIN sig, mem \in OwnMemory \cup {<< >>} : CReturn(k, mem)
  PROVE  MemoryInv'
<1>1. /\ array \in [Array -> Seq(Element)] /\ sig \in Seq(Type)
      /\ arg \in [1..Len(sig) -> Referent] /\ block \in Seq(Block \cup {Null})
  BY DEF MemoryInv, Typed, Element
<1>2. ASSUME phase = "native", phase' = "native", changed' = TRUE,
             UNCHANGED <<scalar, sig, block, at, returned, given, result, strayed>>,
             array' \in [Array -> Seq(Element)], arg' \in [1..Len(sig) -> Referent]
      PROVE  MemoryInv'
  <2>1. Typed'
    BY <1>2 DEF MemoryInv, Typed, Element
  <2>2. Living' /\ Fitting' /\ Straying' /\ Back'
    BY <1>2 DEF MemoryInv, Living, Fitting, Straying, Back
  <2> QED
    BY <2>1, <2>2 DEF MemoryInv
<1>3. ASSUME NEW a \in Array, PerlPush(a, 1) \/ PerlShift(a)
      PROVE  MemoryInv'
  <2>1. /\ phase = "native" /\ phase' = phase /\ changed' = TRUE /\ arg' = arg
        /\ UNCHANGED <<scalar, sig, block, at, returned, given, result, strayed>>
    BY <1>3 DEF PerlPush, PerlShift, Change, ofCall
  <2>2. array[a] \in Seq(Element) /\ 1 \in Element
    BY <1>1 DEF Element, Value
  <2>3. CASE PerlPush(a, 1)
    <3>1. array' = [array EXCEPT ![a] = Append(array[a], 1)]
      BY <2>3 DEF PerlPush
    <3> QED
      BY <1>1, <1>2, <2>1, <2>2, <3>1
  <2>4. CASE PerlShift(a)
    <3>1. array[a] # << >> /\ array' = [array EXCEPT ![a] = Tail(array[a])]
      BY <2>4 DEF PerlShift
    <3> QED
      BY <1>1, <1>2, <2>1, <2>2, <3>1
  <2> QED
    BY <1>3, <2>3, <2>4
<1>4. ASSUME NEW k \in DOMAIN sig, NEW y \in Referent, PerlRebind(k, y)
      PROVE  MemoryInv'
  <2>1. /\ phase = "native" /\ phase' = phase /\ changed' = TRUE /\ array' = array
        /\ arg' = [arg EXCEPT ![k] = y]
        /\ UNCHANGED <<scalar, sig, block, at, returned, given, result, strayed>>
    BY <1>4 DEF PerlRebind, Change, ofCall, perl
  <2> QED
    BY <1>1, <1>2, <2>1
<1>5. ASSUME NEW k \in {0} \cup DOMAIN sig, NEW mem \in OwnMemory \cup {<< >>}, CReturn(k, mem)
      PROVE  MemoryInv'
  <2>1. /\ phase = "native" /\ (k # 0 => block[k] # Null)
        /\ returned' = k /\ given' = mem /\ phase' = "out" /\ at' = Len(sig)
        /\ UNCHANGED <<scalar, array, sig, arg, block, result, api, changed, strayed>>
    BY <1>5 DEF CReturn, Returns, perl
  <2>2. Len(sig) \in Nat /\ k \in 0..Len(sig) /\ (k # 0 => k \in 1..Len(sig))
    BY <1>1
  <2>3. Typed'
    <3>1. Len(block) = Len(sig)
      BY <2>1 DEF MemoryInv, Typed
    <3>2. mem \in Seq(Value)
      <4>1. CASE mem \in OwnMemory
        BY <4>1, ArgumentsAssumption DEF ArgumentsAssumption
      <4>2. CASE mem = << >>
        BY <4>2
      <4> QED
        BY <4>1, <4>2
    <3> QED
      BY <1>1, <2>1, <2>2, <3>1, <3>2 DEF MemoryInv, Typed
  <2>4. Living' /\ Straying'
    BY <2>1 DEF MemoryInv, Living, Straying, Misread, Lengthless
  <2>5. Fitting'
    BY <2>1 DEF MemoryInv, Fitting, Fits, Lengthless, Outgrown, HasLength
  <2>6. Back'
    <3>1. Len(sig) + 1..Len(sig) = {}
      BY <2>2
    <3> QED
      BY <2>1, <3>1 DEF Back
  <2> QED
    BY <2>3, <2>4, <2>5, <2>6 DEF MemoryInv
<1> QED
  BY <1>3, <1>4, <1>5 DEF PerlChanges

(* An argument is copied back.                                             *)
LEMMA OutKeeps ==
  ASSUME MemoryInv, OutStep, PreviousOut, NEW m, m = at,
         scalar' \in [Scalar -> Value], array' \in [Array -> Seq(Element)],
         \A s \in Scalar : s # arg[m] => scalar'[s] = scalar[s],
         \A a \in Array : a # arg[m] => array'[a] = array[a],
         ~ changed => \A a \in Array : Len(array'[a]) = Len(array[a]),
         ~ changed /\ block[m] # Null => Copied(m)',
         \/ strayed' = strayed
         \/ strayed' = strayed \cup {"out"} /\ (changed \/ Lengthless(m) \/ Outgrown(m))
  PROVE  MemoryInv'
<1>1. /\ phase = "out" /\ at > 0 /\ at' = at - 1 /\ phase' = "out"
      /\ UNCHANGED <<sig, arg, block, returned, given, result, api, changed>>
  BY DEF OutStep, PreviousOut, ofCall
<1>2. m \in 1..Len(sig) /\ Len(sig) \in Nat /\ at' = m - 1 /\ Len(block) = Len(sig)
  BY <1>1 DEF MemoryInv, Typed
<1>3. /\ DOMAIN block = 1..Len(sig) /\ DOMAIN sig = 1..Len(sig)
  BY <1>1, <1>2 DEF MemoryInv, Typed
<1>4. Typed'
  <2>1. at' \in 0..Len(sig)
    BY <1>2
  <2> QED
    BY <1>1, <1>2, <2>1 DEF MemoryInv, Typed, Element
<1>5. Living'
  BY <1>1 DEF MemoryInv, Living
<1>6. Fitting'
  <2> SUFFICES ASSUME ~ changed, NEW k \in DOMAIN block, block[k] # Null PROVE Fits(k)'
    BY <1>1 DEF Fitting
  <2>1. Fits(k)
    BY <1>1 DEF MemoryInv, Fitting
  <2>2. \A a \in Array : Len(array'[a]) = Len(array[a])
    OBVIOUS
  <2>3. /\ Lengthless(k)' <=> Lengthless(k)
        /\ HasLength(k)' <=> HasLength(k)
        /\ Outgrown(k)' <=> Outgrown(k)
    BY <1>1 DEF Lengthless, HasLength, Outgrown
  <2> QED
    BY <1>1, <2>1, <2>2, <2>3 DEF Fits
<1>7. Straying'
  <2>1. \A k : (Lengthless(k)' <=> Lengthless(k)) /\ (Outgrown(k)' <=> Outgrown(k))
    BY <1>1 DEF Lengthless, Outgrown
  <2>2. "out" \in strayed => changed \/ \E k \in DOMAIN sig : Lengthless(k) \/ Outgrown(k)
    BY DEF MemoryInv, Straying
  <2>3. "out" \in strayed' => changed \/ \E k \in DOMAIN sig : Lengthless(k) \/ Outgrown(k)
    BY <1>2, <1>3, <2>2
  <2>4. "in" \in strayed' => changed \/ \E k \in DOMAIN sig : Misread(k)
    BY DEF MemoryInv, Straying
  <2>5. \A k : Misread(k)' <=> Misread(k)
    BY <1>1 DEF Misread
  <2> QED
    BY <1>1, <2>1, <2>3, <2>4, <2>5 DEF Straying
<1>8. Back'
  <2> SUFFICES ASSUME ~ changed, NEW k \in m..Len(sig), block[k] # Null,
                      \A j \in m..k - 1 : arg[j] # arg[k]
               PROVE  Copied(k)'
    BY <1>1, <1>2 DEF Back
  <2>1. CASE k = m
    BY <2>1
  <2>2. CASE k # m
    <3>1. k \in m + 1..Len(sig) /\ m \in m..k - 1
      BY <1>2, <2>2
    <3>2. Copied(k)
      <4>1. \A j \in m + 1..k - 1 : arg[j] # arg[k]
        <5>1. ASSUME NEW j \in m + 1..k - 1 PROVE j \in m..k - 1
          BY ONLY <1>2, <3>1, <5>1
        <5> QED
          BY <5>1
      <4> QED
        BY <1>1, <3>1, <4>1 DEF MemoryInv, Back
    <3>3. arg[k] # arg[m]
      BY <3>1
    <3>4. /\ arg[k] \in Scalar => scalar'[arg[k]] = scalar[arg[k]]
          /\ arg[k] \in Array => array'[arg[k]] = array[arg[k]]
      BY <3>3
    <3> QED
      BY <1>1, <3>2, <3>4 DEF Copied
  <2> QED
    BY <2>1, <2>2
<1> QED
  BY <1>4, <1>5, <1>6, <1>7, <1>8 DEF MemoryInv

(* How many elements of an array are copied: none beyond its block, and    *)
(* the array has as many, but in the cases of ReadsInside.                 *)
LEMMA CountIs ==
  ASSUME MemoryInv, phase = "out", at > 0, block[at] # Null, arg[at] \in Array,
         NEW m, m = Count(sig[at], arg[at])
  PROVE  /\ m \in Nat /\ array[arg[at]] \in Seq(Element)
         /\ at \in 1..Len(sig) /\ block[at] \in Block
         /\ ~ changed => /\ m <= Len(array[arg[at]])
                         /\ Len(block[at].cells) <= m
         /\ m > Len(block[at].cells) => changed \/ Outgrown(at)
<1>1. /\ at \in 1..Len(sig) /\ sig \in Seq(Type) /\ block \in Seq(Block \cup {Null})
      /\ Len(block) = Len(sig) /\ array \in [Array -> Seq(Element)]
  BY DEF MemoryInv, Typed, Element
<1>2. /\ sig[at] \in Type /\ block[at] \in Block /\ array[arg[at]] \in Seq(Element)
      /\ at \in DOMAIN block
  BY <1>1
<1>3. sig[at].count \in Nat /\ Len(array[arg[at]]) \in Nat /\ Len(block[at].cells) \in Nat
  BY <1>2 DEF Type, Block
<1>4. m = IF HasLength(at) THEN sig[at].count ELSE Len(array[arg[at]])
  BY DEF Count, HasLength
<1>5. ASSUME ~ changed
      PROVE  /\ Len(block[at].cells) <= Len(array[arg[at]])
             /\ IF HasLength(at) THEN Len(block[at].cells) = sig[at].count
                ELSE Len(block[at].cells) = Len(array[arg[at]]) \/ Outgrown(at)
  BY <1>2, <1>5 DEF MemoryInv, Fitting, Fits
<1> QED
  BY <1>1, <1>2, <1>3, <1>4, <1>5

(* What is read from a block that is long enough is what is in it.         *)
LEMMA CellsAre ==
  ASSUME NEW n \in Nat, NEW c \in Cells(n)
  PROVE  /\ \A k \in 1..n : c[k] \in Value
         /\ \A k \in 1..n : k <= Len(block[at].cells) => c[k] = block[at].cells[k]
BY DEF Cells

LEMMA ScalarOutKeeps ==
  ASSUME MemoryInv, ScalarOut
  PROVE  MemoryInv'
<1> PICK m : m = at
  OBVIOUS
<1>1. /\ phase = "out" /\ at > 0 /\ OutStep /\ PreviousOut /\ UNCHANGED <<arg, sig, block, changed>>
      /\ block[at] # Null /\ arg[at] \in Scalar
      /\ strayed' = Overread(1) /\ array' = array
  BY DEF ScalarOut, OutStep, Passed, ofCall
<1>2. PICK c \in Cells(1) : scalar' = [scalar EXCEPT ![arg[at]] = c[1]]
  BY DEF ScalarOut, Passed
<1>3. /\ at \in 1..Len(sig) /\ block \in Seq(Block \cup {Null}) /\ Len(block) = Len(sig)
      /\ sig \in Seq(Type)
      /\ scalar \in [Scalar -> Value] /\ array \in [Array -> Seq(Element)]
  BY <1>1 DEF MemoryInv, Typed, Element
<1>4. block[at] \in Block /\ at \in DOMAIN block /\ Len(block[at].cells) \in Nat
  BY <1>1, <1>3 DEF Block
<1>5. c[1] \in Value /\ (1 <= Len(block[at].cells) => c[1] = block[at].cells[1])
  BY CellsAre
<1>6. ~ changed => Lengthless(at) \/ Len(block[at].cells) >= 1
  BY <1>1, <1>4 DEF MemoryInv, Fitting, Fits
<1>7. ~ changed => Copied(m)'
  <2> SUFFICES ASSUME ~ changed PROVE Copied(m)'
    OBVIOUS
  <2>1. arg[m] \notin Array
    BY <1>1, ArgumentsAssumption DEF ArgumentsAssumption
  <2>2. sig[m].shape = "pointer" => scalar'[arg[m]] = block[m].cells[1]
    BY <1>1, <1>2, <1>3, <1>4, <1>5, <1>6 DEF Lengthless
  <2> QED
    BY <1>1, <2>1, <2>2 DEF Copied
<1>8. \/ strayed' = strayed
      \/ strayed' = strayed \cup {"out"} /\ (changed \/ Lengthless(m) \/ Outgrown(m))
  BY <1>1, <1>4, <1>6 DEF Overread
<1>9. /\ scalar' \in [Scalar -> Value]
      /\ \A s \in Scalar : s # arg[m] => scalar'[s] = scalar[s]
  BY <1>1, <1>2, <1>3, <1>5
<1> QED
  BY <1>1, <1>3, <1>7, <1>8, <1>9, OutKeeps

LEMMA ArrayOutKeeps ==
  ASSUME MemoryInv, ArrayOut
  PROVE  MemoryInv'
<1> PICK m : m = at
  OBVIOUS
<1> DEFINE a == arg[at]
           n == Count(sig[at], a)
           all == Extended(array[a], n)
           new(c) == [k \in DOMAIN all |-> IF k <= n THEN Shown(c[k], all[k]) ELSE all[k]]
<1>1. /\ phase = "out" /\ at > 0 /\ OutStep /\ PreviousOut /\ UNCHANGED <<arg, sig, block, changed>>
      /\ block[m] # Null /\ a \in Array /\ arg[m] = a
      /\ n = Count(sig[at], arg[at])
      /\ strayed' = Overread(n) /\ scalar' = scalar
  BY DEF ArrayOut, OutStep, Passed, Declared, ofCall
<1>2. PICK c \in Cells(n) : array' = [array EXCEPT ![a] = new(c)]
  BY DEF ArrayOut, Passed, Declared
<1> HIDE DEF n, a
<1>3. /\ n \in Nat /\ array[a] \in Seq(Element)
      /\ m \in 1..Len(sig) /\ block[m] \in Block
      /\ ~ changed => n <= Len(array[a]) /\ Len(block[m].cells) <= n
      /\ n > Len(block[m].cells) => changed \/ Outgrown(m)
  BY <1>1, CountIs
<1>4. /\ scalar \in [Scalar -> Value] /\ array \in [Array -> Seq(Element)]
  BY DEF MemoryInv, Typed, Element
<1>5. /\ DOMAIN all = 1..Len(all) /\ Len(all) = IF n > Len(array[a]) THEN n ELSE Len(array[a])
      /\ all \in Seq(Element)
  BY <1>3, ExtendedIs
<1>6. /\ \A k \in 1..n : c[k] \in Value
      /\ \A k \in 1..n : k <= Len(block[m].cells) => c[k] = block[m].cells[k]
  BY <1>3, CellsAre
<1>7. Len(all) \in Nat /\ Len(array[a]) \in Nat
  BY <1>3, <1>5
<1> HIDE DEF all
<1>8. /\ array'[a] \in Seq(Element) /\ Len(array'[a]) = Len(all)
      /\ \A k \in 1..n : k <= Len(all) => array'[a][k] = Shown(c[k], all[k])
  <2> DEFINE cells == [k \in 1..Len(all) |-> IF k <= n THEN Shown(c[k], all[k]) ELSE all[k]]
  <2>1. array'[a] = cells
    BY <1>1, <1>2, <1>4, <1>5
  <2>2. \A k \in 1..Len(all) : (IF k <= n THEN Shown(c[k], all[k]) ELSE all[k]) \in Element
    <3> SUFFICES ASSUME NEW k \in 1..Len(all)
                 PROVE  (IF k <= n THEN Shown(c[k], all[k]) ELSE all[k]) \in Element
      OBVIOUS
    <3>1. all[k] \in Element
      BY <1>5
    <3>2. k <= n => c[k] \in Value
      BY <1>3, <1>6, <1>7
    <3> QED
      BY <3>1, <3>2, NumberIs
  <2>3. cells \in Seq(Element) /\ Len(cells) = Len(all)
    BY <1>7, <2>2
  <2>4. \A k \in 1..n : k <= Len(all) => cells[k] = Shown(c[k], all[k])
    BY <1>3, <1>7
  <2> HIDE DEF cells
  <2> QED
    BY <2>1, <2>3, <2>4
<1>9. /\ array' \in [Array -> Seq(Element)]
      /\ \A b \in Array : b # a => array'[b] = array[b]
      /\ ~ changed => \A b \in Array : Len(array'[b]) = Len(array[b])
  <2>1. \A b \in Array : b # a => array'[b] = array[b]
    BY <1>2, <1>4
  <2>2. DOMAIN array' = Array /\ array' = [b \in Array |-> array'[b]]
    BY <1>2, <1>4
  <2>3. ~ changed => Len(array'[a]) = Len(array[a])
    BY <1>3, <1>5, <1>7, <1>8
  <2> QED
    BY <1>4, <1>8, <2>1, <2>2, <2>3
<1>10. ~ changed => Copied(m)'
  <2> SUFFICES ASSUME ~ changed PROVE Copied(m)'
    OBVIOUS
  <2>1. arg[m] = a /\ a \notin Scalar
    BY <1>1, ArgumentsAssumption DEF ArgumentsAssumption
  <2>2. ASSUME NEW k \in DOMAIN block[m].cells
        PROVE  \/ Withheld(sig[m], block[m].cells[k])
               \/ Number(array'[a][k]) = block[m].cells[k]
    <3>1. /\ k \in 1..Len(block[m].cells) /\ block[m].cells[k] \in Value
          /\ Len(block[m].cells) \in Nat
      BY <1>3, <2>2 DEF Block
    <3>2. k \in 1..n /\ k <= Len(all)
      BY <1>3, <1>5, <1>7, <3>1
    <3>3. array'[a][k] = Shown(block[m].cells[k], all[k])
      BY <1>6, <1>8, <3>1, <3>2
    <3>4. all[k] \in Element
      BY <1>5, <1>7, <3>2
    <3> QED
      BY <3>1, <3>3, <3>4, NumberIs
  <2> QED
    BY <1>1, <2>1, <2>2 DEF Copied
<1>11. \/ strayed' = strayed
       \/ strayed' = strayed \cup {"out"} /\ (changed \/ Lengthless(m) \/ Outgrown(m))
  BY <1>1, <1>3 DEF Overread
<1> QED
  BY <1>1, <1>4, <1>9, <1>10, <1>11, OutKeeps

(* The copy back dies in the middle of an array.                           *)
LEMMA DiesKeeps ==
  ASSUME MemoryInv, ArrayOutDies
  PROVE  MemoryInv'
<1> DEFINE a == arg[at]
           n == Count(sig[at], a)
           new(c, k) == [j \in DOMAIN array[a] |-> IF j < k THEN Shown(c[j], array[a][j])
                                                ELSE array[a][j]]
<1>1. /\ phase = "out" /\ at > 0
      /\ UNCHANGED <<scalar, arg, sig, block, returned, given, result, api, changed>>
      /\ block[at] # Null /\ a \in Array /\ arg[at] = a
      /\ n = Count(sig[at], arg[at])
      /\ strayed' = Overread(n) /\ phase' = "died"
  BY DEF ArrayOutDies, OutStep, ofCall, Passed, Declared
<1>2. PICK c \in Cells(n), k \in 1..n : array' = [array EXCEPT ![a] = new(c, k)]
  BY DEF ArrayOutDies, Passed, Declared
<1> HIDE DEF n, a
<1>3. /\ n \in Nat /\ array[a] \in Seq(Element) /\ at \in 1..Len(sig)
      /\ n > Len(block[at].cells) => changed \/ Outgrown(at)
  BY <1>1, CountIs
<1>4. \A j \in 1..n : c[j] \in Value
  BY <1>3, CellsAre
<1>5. /\ scalar \in [Scalar -> Value] /\ array \in [Array -> Seq(Element)]
      /\ Len(block) = Len(sig) /\ DOMAIN sig = 1..Len(sig)
  BY <1>1 DEF MemoryInv, Typed, Element
<1>6. array' \in [Array -> Seq(Element)]
  <2> DEFINE e == array[a]
             cells == [j \in DOMAIN e |-> IF j < k THEN Shown(c[j], e[j]) ELSE e[j]]
  <2>1. \A j \in 1..Len(e) : (IF j < k THEN Shown(c[j], e[j]) ELSE e[j]) \in Element
    <3> SUFFICES ASSUME NEW j \in 1..Len(e) PROVE (IF j < k THEN Shown(c[j], e[j]) ELSE e[j]) \in Element
      OBVIOUS
    <3>1. j < k => j \in 1..n
      BY <1>3
    <3>2. e[j] \in Element
      BY <1>3
    <3> QED
      BY <1>4, <3>1, <3>2, NumberIs
  <2>2. cells \in Seq(Element)
    BY <1>3, <2>1
  <2>3. array' = [array EXCEPT ![a] = cells]
    BY <1>2
  <2> HIDE DEF cells
  <2> QED
    BY <1>5, <2>2, <2>3
<1>7. Typed'
  BY <1>1, <1>5, <1>6 DEF MemoryInv, Typed, Element
<1>8. Living' /\ Fitting' /\ Back'
  <2>1. "result" \notin strayed
    BY <1>1 DEF MemoryInv, Living
  <2>2. "result" \notin strayed'
    BY <1>1, <2>1 DEF Overread
  <2> QED
    BY <1>1, <2>2 DEF Living, Fitting, Back
<1>9. Straying'
  <2>1. \A j : (Lengthless(j)' <=> Lengthless(j)) /\ (Outgrown(j)' <=> Outgrown(j))
    BY <1>1 DEF Lengthless, Outgrown
  <2>2. "out" \in strayed => changed \/ \E j \in DOMAIN sig : Lengthless(j) \/ Outgrown(j)
    BY DEF MemoryInv, Straying
  <2>3. "out" \in strayed' => changed \/ \E j \in DOMAIN sig : Lengthless(j) \/ Outgrown(j)
    BY <1>1, <1>3, <1>5, <2>2 DEF Overread
  <2>4. "in" \in strayed' => changed \/ \E j \in DOMAIN sig : Misread(j)
    BY <1>1 DEF MemoryInv, Straying, Overread
  <2>5. \A j : Misread(j)' <=> Misread(j)
    BY <1>1 DEF Misread
  <2> QED
    BY <1>1, <2>1, <2>3, <2>4, <2>5 DEF Straying
<1> QED
  BY <1>7, <1>8, <1>9 DEF MemoryInv

(* An element of the result is looked at that is not in its memory.        *)
LEMMA LookedOutside ==
  ASSUME Pointed \in Seq(Value), returned # 0 => Len(Pointed) >= 1,
         returned # 0 \/ given # << >>, NEW n \in Looked, n \notin DOMAIN Pointed,
         given \in Seq(Value), result \in ResultType
  PROVE  Unbounded
<1>1. /\ DOMAIN Pointed = 1..Len(Pointed) /\ Len(Pointed) \in Nat
      /\ Len(Pointed) >= 1
  <2>1. returned = 0 => Pointed = given /\ given # << >>
    BY DEF Pointed
  <2>2. given # << >> => Len(given) >= 1
    OBVIOUS
  <2> QED
    BY <2>1, <2>2
<1>2. result.count \in Nat
  BY DEF ResultType
<1>3. CASE result.shape = "pointer"
  BY <1>1, <1>3 DEF Looked
<1>4. CASE result.shape = "array" /\ result.count # 0
  <2>1. n \in 1..result.count
    BY <1>4 DEF Looked
  <2> QED
    BY <1>1, <1>2, <1>4, <2>1 DEF Unbounded
<1>5. CASE result.shape = "array" /\ result.count = 0 /\ result.base # "number"
  <2>1. n \in 1..Len(Pointed) + 1 /\ \A j \in 1..n - 1 : Pointed[j] # 0
    BY <1>5 DEF Looked
  <2>2. n - 1 = Len(Pointed)
    BY <1>1, <2>1
  <2> QED
    BY <1>1, <1>5, <2>1, <2>2 DEF Unbounded
<1> QED
  BY <1>3, <1>4, <1>5 DEF Looked

(* The heap is freed, and the result is read.                              *)
LEMMA EndKeeps ==
  ASSUME MemoryInv, Free \/ ReadResult
  PROVE  MemoryInv'
<1>1. CASE Free
  <2> DEFINE freed(b) == IF b # Null /\ b.heap THEN [b EXCEPT !.live = FALSE] ELSE b
  <2>1. /\ phase = "out" /\ at = 0 /\ phase' = "result"
        /\ block' = [k \in DOMAIN block |-> freed(block[k])]
        /\ UNCHANGED <<scalar, array, sig, arg, at, returned, given, result, api, changed, strayed>>
    BY <1>1 DEF Free, perl, ofCall
  <2>2. block \in Seq(Block \cup {Null}) /\ DOMAIN block = 1..Len(block) /\ Len(block) \in Nat
    BY DEF MemoryInv, Typed
  <2>3. ASSUME NEW b \in Block \cup {Null}
        PROVE  /\ freed(b) \in Block \cup {Null} /\ (freed(b) = Null <=> b = Null)
               /\ freed(b).cells = b.cells /\ freed(b).heap = b.heap
               /\ b # Null => (freed(b).live <=> b.live /\ ~ b.heap)
    <3>1. CASE b = Null
      BY <3>1
    <3>2. CASE b \in Block
      <4>1. b # Null
        BY <3>2, NullIs
      <4>2. CASE b.heap
        <5>1. freed(b) = [heap |-> b.heap, cells |-> b.cells, live |-> FALSE]
          BY <3>2, <4>1, <4>2 DEF Block
        <5>2. freed(b) \in Block
          BY <3>2, <5>1 DEF Block
        <5>3. freed(b).cells = b.cells /\ freed(b).heap = b.heap /\ freed(b).live = FALSE
          BY <5>1
        <5> QED
          BY <4>1, <4>2, <5>2, <5>3, NullIs
      <4>3. CASE ~ b.heap
        BY <3>2, <4>1, <4>3
      <4> QED
        BY <4>2, <4>3
    <3> QED
      BY <2>3, <3>1, <3>2
  <2> HIDE DEF freed
  <2>4. /\ DOMAIN block' = DOMAIN block /\ Len(block') = Len(block)
        /\ block' \in Seq(Block \cup {Null})
        /\ \A k \in DOMAIN block :
             /\ block'[k] = Null <=> block[k] = Null
             /\ block'[k].cells = block[k].cells /\ block'[k].heap = block[k].heap
             /\ block[k] # Null => (block'[k].live <=> block[k].live /\ ~ block[k].heap)
    <3>1. \A k \in DOMAIN block : block[k] \in Block \cup {Null} /\ block'[k] = freed(block[k])
      BY <2>1, <2>2
    <3>2. \A k \in 1..Len(block) : freed(block[k]) \in Block \cup {Null}
      BY <2>2, <2>3, <3>1
    <3>3. block' \in Seq(Block \cup {Null}) /\ DOMAIN block' = DOMAIN block /\ Len(block') = Len(block)
      BY <2>1, <2>2, <3>2
    <3> QED
      BY <2>3, <3>1, <3>3
  <2>5. Typed'
    <3>1. /\ Len(block) = Len(sig) /\ (returned # 0 => returned \in 1..Len(block) /\ block[returned] # Null)
      BY <2>1 DEF MemoryInv, Typed
    <3>2. returned # 0 => returned \in 1..Len(block') /\ block'[returned] # Null
      BY <2>2, <2>4, <3>1
    <3> QED
      BY <2>1, <2>4, <3>1, <3>2 DEF MemoryInv, Typed
  <2>6. Living'
    <3>1. /\ \A k \in DOMAIN block : block[k] # Null => block[k].live
          /\ "result" \notin strayed
      BY <2>1 DEF MemoryInv, Living
    <3> QED
      BY <2>1, <2>4, <3>1 DEF Living
  <2>7. Fitting'
    BY <2>1 DEF Fitting
  <2>8. /\ \A k : Lengthless(k)' <=> Lengthless(k)
        /\ \A k \in DOMAIN block : (Outgrown(k)' <=> Outgrown(k)) /\ (Copied(k)' <=> Copied(k))
    BY <2>1, <2>4 DEF Lengthless, Outgrown, Copied
  <2>9. DOMAIN sig = DOMAIN block /\ DOMAIN block = 1..Len(sig)
    BY <2>1, <2>2 DEF MemoryInv, Typed
  <2>10. Straying'
    BY <2>1, <2>8, <2>9 DEF MemoryInv, Straying, Misread
  <2>11. Back'
    <3> SUFFICES ASSUME ~ changed, NEW k \in 0 + 1..Len(sig), block'[k] # Null,
                        \A j \in 0 + 1..k - 1 : arg[j] # arg[k]
                 PROVE  Copied(k)'
      BY <2>1 DEF Back
    <3>1. k \in DOMAIN block /\ block[k] # Null
      BY <2>4, <2>9
    <3>2. Copied(k)
      BY <2>1, <3>1 DEF MemoryInv, Back
    <3> QED
      BY <2>8, <3>1, <3>2
  <2> QED
    BY <2>5, <2>6, <2>7, <2>10, <2>11 DEF MemoryInv
<1>2. CASE ReadResult
  <2>1. /\ phase = "result" /\ phase' = "idle"
        /\ UNCHANGED <<scalar, array, sig, arg, block, at, returned, given, result, api, changed>>
    BY <1>2 DEF ReadResult, perl, ofCall
  <2>2. strayed' = strayed \cup {"result"} \/ strayed' = strayed
    BY <1>2 DEF ReadResult
  <2>3. Typed'
    BY <2>1 DEF MemoryInv, Typed
  <2>4. /\ \A k \in DOMAIN block : block[k] # Null /\ block[k].heap => ~ block[k].live
        /\ \A k \in DOMAIN block : block[k] # Null /\ ~ block[k].live => block[k].heap
        /\ "result" \notin strayed
    BY <2>1 DEF MemoryInv, Living
  <2>5. returned # 0 => returned \in DOMAIN block /\ block[returned] \in Block
    BY DEF MemoryInv, Typed
  <2>6. ASSUME "result" \in strayed'
        PROVE  (returned # 0 /\ block[returned].heap) \/ Unbounded
    <3>1. /\ returned # 0 \/ given # << >>
          /\ \E n \in Looked : n \notin DOMAIN Pointed \/ Gone
      BY <1>2, <2>4, <2>6 DEF ReadResult
    <3>2. CASE Gone
      BY <2>4, <2>5, <3>2, NullIs DEF Gone
    <3>3. CASE \E n \in Looked : n \notin DOMAIN Pointed
      <4>1. PICK n \in Looked : n \notin DOMAIN Pointed
        BY <3>3
      <4>2. Pointed \in Seq(Value) /\ result \in ResultType
        BY <2>5 DEF MemoryInv, Typed, Pointed, Block
      <4>3. given \in Seq(Value)
        BY DEF MemoryInv, Typed
      <4>4. CASE returned = 0
        BY <3>1, <4>1, <4>2, <4>3, <4>4, LookedOutside
      <4>5. CASE returned # 0 /\ ~ block[returned].heap
        <5>1. Len(Pointed) >= 1
          BY <2>5, <4>5 DEF Pointed, Block
        <5> QED
          BY <3>1, <4>1, <4>2, <4>3, <5>1, LookedOutside
      <4> QED
        BY <4>4, <4>5
    <3> QED
      BY <3>1, <3>2, <3>3
  <2>7. Living'
    BY <2>1, <2>4, <2>6 DEF Living, Unbounded, Pointed
  <2>8. Fitting' /\ Back'
    BY <2>1 DEF Fitting, Back
  <2>9. Straying'
    BY <2>1, <2>2 DEF MemoryInv, Straying, Lengthless, Outgrown, Misread
  <2> QED
    BY <2>3, <2>7, <2>8, <2>9 DEF MemoryInv
<1> QED
  BY <1>1, <1>2

(* The invariant of the arguments' memory holds in every reachable state.  *)
THEOREM ArgumentsInvariance == ArgumentsSpec => []MemoryInv
<1>1. ArgumentsInit => MemoryInv
  <2> SUFFICES ASSUME ArgumentsInit PROVE MemoryInv
    OBVIOUS
  <2>1. /\ scalar = [s \in Scalar |-> 0] /\ array \in [Array -> {<< >>, <<1>>}]
        /\ sig = << >> /\ arg = << >> /\ block = << >> /\ phase = "idle" /\ at = 0
        /\ returned = 0 /\ given = << >> /\ changed = FALSE /\ strayed = {}
        /\ result = [shape |-> "none", count |-> 0, base |-> "number"]
    BY DEF ArgumentsInit
  <2>2. scalar \in [Scalar -> Value] /\ array \in [Array -> Seq(Value \cup {Frozen})]
    <3>1. << >> \in Seq(Value \cup {Frozen}) /\ <<1>> \in Seq(Value \cup {Frozen})
      BY DEF Value
    <3>2. 0 \in Value
      BY DEF Value
    <3> QED
      BY <2>1, <3>1, <3>2
  <2>3. /\ sig \in Seq(Type) /\ Len(sig) = 0 /\ block \in Seq(Block \cup {Null}) /\ Len(block) = 0
        /\ arg \in [1..Len(sig) -> Referent] /\ DOMAIN block = {}
    BY <2>1
  <2>4. Typed
    BY <2>1, <2>2, <2>3 DEF Typed, ResultType
  <2>5. Living /\ Fitting /\ Straying /\ Back
    BY <2>1, <2>3 DEF Living, Fitting, Straying, Back
  <2> QED
    BY <2>4, <2>5 DEF MemoryInv
<1>2. MemoryInv /\ [ArgumentsNext]_argumentVars => MemoryInv'
  <2> SUFFICES ASSUME MemoryInv, [ArgumentsNext]_argumentVars PROVE MemoryInv'
    OBVIOUS
  <2>1. CASE UNCHANGED argumentVars
    BY <2>1 DEF argumentVars, MemoryInv, Typed, Living, Fitting, Straying, Back,
                Fits, HasLength, Lengthless, Outgrown, Misread, Unbounded, Pointed, Copied
  <2>2. CASE NothingOut
    <3> PICK m : m = at
      OBVIOUS
    <3>1. /\ OutStep /\ PreviousOut /\ (block[m] = Null \/ arg[m] \in {NotRef, Other})
          /\ UNCHANGED <<scalar, array, strayed, arg>>
      BY <2>2 DEF NothingOut, perl, Passed, OutStep
    <3>2. block[m] # Null => Copied(m)'
      BY <3>1, ArgumentsAssumption DEF ArgumentsAssumption, Copied
    <3>3. scalar \in [Scalar -> Value] /\ array \in [Array -> Seq(Element)]
      BY DEF MemoryInv, Typed, Element
    <3> QED
      BY <3>1, <3>2, <3>3, OutKeeps
  <2>3. ASSUME NEW k \in DOMAIN block, NEW n \in 1..2, NEW v \in Value, CStore(k, n, v)
        PROVE  MemoryInv'
    BY <2>3, CStoreKeeps
  <2> QED
    BY <2>1, <2>2, <2>3, BeginKeeps, InKeeps, KilledKeeps, NativeKeeps, ScalarOutKeeps,
       ArrayOutKeeps, DiesKeeps, EndKeeps DEF ArgumentsNext
<1> QED
  BY <1>1, <1>2, PTL DEF ArgumentsSpec

(* What C left in memory is in the variables when the call returns, the    *)
(* first of several arguments with the same variable, unless a callback    *)
(* changed them; but an element of an array that was passed where opaque*  *)
(* or string* is declared is only there when it is NULL.                   *)
THEOREM ArgumentsComeBack == ArgumentsSpec => []CopiedBack
<1>1. MemoryInv => CopiedBack
  <2> SUFFICES ASSUME MemoryInv, phase = "result", ~ changed, NEW k \in DOMAIN sig,
                      block[k] # Null, \A j \in 1..k - 1 : arg[j] # arg[k]
               PROVE  Copied(k)
    BY DEF CopiedBack
  <2>1. at = 0 /\ k \in 0 + 1..Len(sig) /\ 0 + 1 = 1
    BY DEF MemoryInv, Typed
  <2> QED
    BY <2>1 DEF MemoryInv, Back
<1> QED
  BY <1>1, ArgumentsInvariance, PTL

(* Memory is read outside a live block only in the cases that the property *)
(* names, for every function, array, result and use of callbacks.          *)
THEOREM ArgumentsReadInside == ArgumentsSpec => []ReadsInside
<1>1. MemoryInv => ReadsInside
  BY DEF MemoryInv, Straying, Living, ReadsInside
<1> QED
  BY <1>1, ArgumentsInvariance, PTL

(* C is given live memory, and a call that returned leaves nothing on the  *)
(* heap.                                                                   *)
THEOREM ArgumentsStayAlive == ArgumentsSpec => []BlocksLive
<1>1. MemoryInv => BlocksLive
  BY DEF MemoryInv, Living, BlocksLive
<1> QED
  BY <1>1, ArgumentsInvariance, PTL
=============================================================================
