-------------------------------- MODULE Call --------------------------------
(***************************************************************************)
(* Call dispatch: what an xsub made by FFI::Platypus does between being    *)
(* called from Perl and returning to Perl.                                 *)
(*                                                                         *)
(* The body of every such xsub is include/ffi_platypus_call.h: allocate    *)
(* the argument buffer, convert the arguments in order, call the native    *)
(* function, convert the arguments back in reverse order, convert the      *)
(* return value.  Perl code runs in the middle of it: the handlers of a    *)
(* custom type (perl_to_native, perl_to_native_post, native_to_perl), and  *)
(* the closures that the native function calls.  That Perl code may call   *)
(* other native functions, so calls nest; the calls in progress of one     *)
(* interpreter share MY_CXT.current_argv and MY_CXT.custom_keepers.        *)
(***************************************************************************)
EXTENDS Integers, Sequences, FiniteSets

CONSTANTS
  Fun,          (* the functions that have been created                    *)
  Args,         (* Args[f]: the argument types of f, one per Perl argument *)
  CustomReturn, (* CustomReturn[f]: native_to_perl is given the result     *)
  NoFun,        (* the function of an unused frame                         *)
  MaxDepth,     (* bound on the nesting of calls                           *)
  MaxCalls      (* bound on the number of calls of a behaviour             *)

(* What the dispatch looks at in an argument type.  A type that is not     *)
(* custom has extra = 0.                                                   *)
ArgType == [custom  : BOOLEAN,  (* FFI_PL_SHAPE_CUSTOM_PERL                *)
            extra   : Nat,      (* slots after the first: argument_count-1 *)
            p2n     : BOOLEAN,  (* it has a perl_to_native handler         *)
            empty   : BOOLEAN,  (* the handler may return the empty list   *)
            post    : BOOLEAN,  (* it has a perl_to_native_post handler    *)
            checked : BOOLEAN]  (* record value or object: may be refused  *)

ASSUME CallAssumption ==
  /\ Args \in [Fun -> Seq(ArgType)]
  /\ \A f \in Fun : \A p \in DOMAIN Args[f] :
        ~ Args[f][p].custom => Args[f][p].extra = 0
  /\ CustomReturn \in [Fun -> BOOLEAN]
  /\ NoFun \notin Fun
  /\ MaxDepth \in Nat
  /\ MaxCalls \in Nat

VARIABLES
  depth,    (* number of calls in progress                                 *)
  frame,    (* frame[d]: the C frame of the d-th of them, outermost first  *)
  calls,    (* number of calls made so far; a call is named by its number  *)
  argv,     (* MY_CXT.current_argv: the call whose buffer it is, or NULL   *)
  heap,     (* the calls whose heap list has not been freed                *)
  keepers,  (* MY_CXT.custom_keepers, the last entry is the top            *)
  aborted   (* history: the calls that an exception unwound                *)

vars == <<depth, frame, calls, argv, heap, keepers, aborted>>

NULL == 0

Pc == {"main", "in", "perl_to_native", "native", "callback", "out",
       "perl_to_native_post", "native_to_perl"}

(* The places where a handler of a custom type is running.                 *)
Handler == {"perl_to_native", "perl_to_native_post", "native_to_perl"}

(* i is the argument slot (from 0), p the Perl argument (from 1).  Frame 0 *)
(* stands for the main program; an unused frame looks like it.             *)
Main == [id |-> NULL, fn |-> NoFun, pc |-> "main", i |-> 0, p |-> 0]

Keeper == [id : Nat, p : Nat]

Top == frame[depth]

LiveCalls == {frame[d].id : d \in 1..depth}

-----------------------------------------------------------------------------
(* The slots of a function.  Function::new repeats a wide custom type in   *)
(* argument_types for each of its slots.                                   *)

SlotsBefore(f, p) == UNION {{q} \X (0..Args[f][q].extra) : q \in 1..p - 1}

FirstSlot(f, p) == Cardinality(SlotsBefore(f, p))

NArgs(f) == FirstSlot(f, Len(Args[f]) + 1)

TypeAt(f, i) ==
  Args[f][CHOOSE p \in DOMAIN Args[f] :
            FirstSlot(f, p) <= i /\ i < FirstSlot(f, p + 1)]

-----------------------------------------------------------------------------

Init ==
  /\ depth = 0
  /\ frame = [d \in 0..MaxDepth |-> Main]
  /\ calls = 0
  /\ argv = NULL
  /\ heap = {}
  /\ keepers = << >>
  /\ aborted = {}

(* Perl code is running: the main program, a handler or a closure.         *)
PerlRuns == Top.pc \in Handler \cup {"main", "callback"}

At(pc) == Top.pc = pc

TopType == TypeAt(Top.fn, Top.i)

Resume(fr) ==
  /\ frame' = [frame EXCEPT ![depth] = fr]
  /\ UNCHANGED <<depth, calls, aborted>>

(* Mutant of Leave: the caller's frame is unwound as well.                 *)
LeaveTwice ==
  /\ frame' = [frame EXCEPT ![depth] = Main]
  /\ depth' = depth - 2
  /\ UNCHANGED calls

Leave ==
  /\ frame' = [frame EXCEPT ![depth] = Main]
  /\ depth' = depth - 1
  /\ UNCHANGED calls

-----------------------------------------------------------------------------
(* ARGUMENT IN                                                             *)

(* Perl code calls a function made by Platypus.                            *)
Enter(f) ==
  /\ PerlRuns
  /\ depth < MaxDepth
  /\ calls < MaxCalls
  /\ calls' = calls + 1
  /\ depth' = depth + 1
  /\ frame' = [frame EXCEPT ![depth + 1] =
                 [id |-> calls + 1, fn |-> f, pc |-> "in", i |-> 0, p |-> 1]]
  /\ heap' = heap \cup {calls + 1}
  /\ argv' = calls + 1
  /\ UNCHANGED <<keepers, aborted>>

MoreIn == At("in") /\ Top.i < NArgs(Top.fn)

(* To the next Perl argument, over the slots this one fills.               *)
NextIn == [Top EXCEPT !.pc = "in", !.i = @ + 1 + TopType.extra, !.p = @ + 1]

(* ffi_pl_croak: free the heap list of this call and throw.                *)
Croak ==
  /\ Leave
  /\ heap' = heap \ {Top.id}
  /\ aborted' = aborted \cup {Top.id}
  /\ UNCHANGED argv

(* A record value or an object that is not of the class of the type.       *)
Refuse == TopType.checked /\ Croak

(* The switch over the type: anything else stores a value in the slot.     *)
Store ==
  \/ Resume(NextIn) /\ UNCHANGED <<argv, heap>>
  \/ Refuse

Keep == keepers' = Append(keepers, [id |-> Top.id, p |-> Top.p])

PlainIn ==
  /\ MoreIn
  /\ ~ TopType.custom
  /\ Store
  /\ UNCHANGED keepers

(* A custom type with no perl_to_native handler keeps a copy.              *)
CopyIn ==
  /\ MoreIn
  /\ TopType.custom /\ ~ TopType.p2n
  /\ Keep
  /\ Store

ConvertIn ==
  /\ MoreIn
  /\ TopType.custom /\ TopType.p2n
  /\ Resume([Top EXCEPT !.pc = "perl_to_native"])
  /\ UNCHANGED <<argv, heap, keepers>>

(* The handler returned a value: it is kept until perl_to_native_post.     *)
ConvertedIn ==
  /\ At("perl_to_native")
  /\ Keep
  /\ Store

(* The handler returned the empty list: it has filled the slots itself.    *)
ConvertedInEmpty ==
  /\ At("perl_to_native")
  /\ TopType.empty
  /\ Resume(NextIn)
  /\ UNCHANGED <<argv, heap, keepers>>

-----------------------------------------------------------------------------
(* CALL                                                                    *)

(* Mutant of CallNative: current_argv is left set during the call.         *)
CallNativeArgvSet ==
  /\ At("in")
  /\ Top.i = NArgs(Top.fn)
  /\ Resume([Top EXCEPT !.pc = "native"])
  /\ UNCHANGED <<argv, heap, keepers>>

CallNative ==
  /\ At("in")
  /\ Top.i = NArgs(Top.fn)
  /\ Resume([Top EXCEPT !.pc = "native"])
  /\ argv' = NULL
  /\ UNCHANGED <<heap, keepers>>

(* The native function calls a closure: Perl code runs inside the call.    *)
Callback ==
  /\ At("native")
  /\ Resume([Top EXCEPT !.pc = "callback"])
  /\ UNCHANGED <<argv, heap, keepers>>

(* The closure returns, or dies: ffi_pl_closure_call calls it with G_EVAL. *)
CallbackReturn ==
  /\ At("callback")
  /\ Resume([Top EXCEPT !.pc = "native"])
  /\ UNCHANGED <<argv, heap, keepers>>

NativeReturn ==
  /\ At("native")
  /\ Resume([Top EXCEPT !.pc = "out", !.i = NArgs(Top.fn) - 1, !.p = @ - 1])
  /\ argv' = Top.id
  /\ UNCHANGED <<heap, keepers>>

-----------------------------------------------------------------------------
(* ARGUMENT OUT                                                            *)

MoreOut == At("out") /\ Top.i >= 0

NextOut(i) == [Top EXCEPT !.pc = "out", !.i = i - 1, !.p = @ - 1]

(* Mutant of PopKeeper: av_shift instead of av_pop.                        *)
ShiftKeeper ==
  keepers' = IF keepers = << >> THEN keepers ELSE Tail(keepers)

(* av_pop of an empty array is harmless.                                   *)
PopKeeper ==
  keepers' = IF keepers = << >> THEN keepers
             ELSE SubSeq(keepers, 1, Len(keepers) - 1)

PlainOut ==
  /\ MoreOut
  /\ ~ TopType.custom
  /\ Resume(NextOut(Top.i))
  /\ UNCHANGED <<argv, heap, keepers>>

(* Mutant of PostOut: the extra slots are not stepped over.                *)
PostOutLastSlot ==
  /\ MoreOut
  /\ TopType.custom
  /\ \/ /\ TopType.post
        /\ Resume([Top EXCEPT !.pc = "perl_to_native_post"])
        /\ UNCHANGED keepers
     \/ /\ ~ TopType.post
        /\ Resume(NextOut(Top.i))
        /\ PopKeeper
  /\ UNCHANGED <<argv, heap>>

(* A custom type: back over the extra slots, then its post handler.        *)
PostOut ==
  /\ MoreOut
  /\ TopType.custom
  /\ LET i == Top.i - TopType.extra IN
       \/ /\ TopType.post
          /\ Resume([Top EXCEPT !.pc = "perl_to_native_post", !.i = i])
          /\ UNCHANGED keepers
       \/ /\ ~ TopType.post
          /\ Resume(NextOut(i))
          /\ PopKeeper
  /\ UNCHANGED <<argv, heap>>

PostReturn ==
  /\ At("perl_to_native_post")
  /\ Resume(NextOut(Top.i))
  /\ PopKeeper
  /\ UNCHANGED <<argv, heap>>

-----------------------------------------------------------------------------
(* RETURN VALUE                                                            *)

(* The heap list is freed, then the result converted and returned.         *)
Return ==
  /\ At("out")
  /\ Top.i < 0
  /\ ~ CustomReturn[Top.fn]
  /\ heap' = heap \ {Top.id}
  /\ argv' = NULL
  /\ Leave
  /\ UNCHANGED <<keepers, aborted>>

(* Mutant of ConvertReturn: the heap list is freed for every return type.  *)
ConvertReturnFreed ==
  /\ At("out")
  /\ Top.i < 0
  /\ CustomReturn[Top.fn]
  /\ Resume([Top EXCEPT !.pc = "native_to_perl"])
  /\ argv' = Top.id
  /\ heap' = heap \ {Top.id}
  /\ UNCHANGED keepers

(* The heap list is kept, and the arguments are visible to native_to_perl. *)
ConvertReturn ==
  /\ At("out")
  /\ Top.i < 0
  /\ CustomReturn[Top.fn]
  /\ Resume([Top EXCEPT !.pc = "native_to_perl"])
  /\ argv' = Top.id
  /\ UNCHANGED <<heap, keepers>>

ConvertedReturn ==
  /\ At("native_to_perl")
  /\ argv' = NULL
  /\ heap' = heap \ {Top.id}
  /\ Leave
  /\ UNCHANGED <<keepers, aborted>>

(* A handler dies.  It was called without G_EVAL, so the exception unwinds *)
(* the C frame of the call; the Perl code that made the call catches it or *)
(* dies in its turn (its next step).                                       *)
Die ==
  /\ Top.pc \in Handler
  /\ Leave
  /\ aborted' = aborted \cup {Top.id}
  /\ UNCHANGED <<argv, heap, keepers>>

Next ==
  \/ \E f \in Fun : Enter(f)
  \/ PlainIn \/ CopyIn \/ ConvertIn \/ ConvertedIn \/ ConvertedInEmpty
  \/ CallNative \/ Callback \/ CallbackReturn \/ NativeReturn
  \/ PlainOut \/ PostOut \/ PostReturn
  \/ Return \/ ConvertReturn \/ ConvertedReturn
  \/ Die

Spec == Init /\ [][Next]_vars

-----------------------------------------------------------------------------
(* Properties                                                              *)

Frame == [id : Nat, fn : Fun \cup {NoFun}, pc : Pc, i : Int, p : Int]

(* Every variable of the dispatch has its type.                            *)
TypeOK ==
  /\ depth \in 0..MaxDepth
  /\ frame \in [0..MaxDepth -> Frame]
  /\ calls \in Nat
  /\ argv \in Nat
  /\ heap \subseteq Nat
  /\ keepers \in Seq(Keeper)
  /\ aborted \subseteq Nat

(* The arguments_* functions never reach the slots of a call in progress   *)
(* other than the innermost one, and not even that one while its native    *)
(* function runs: however calls nest in handlers and closures and however  *)
(* they end, current_argv is not the buffer of an outer call.              *)
ArgvNeverForeign ==
  argv \in LiveCalls => argv = Top.id /\ Top.pc \notin {"native", "callback"}

(* current_argv never outlives a call that returned: what it may be left   *)
(* at is the buffer of a call that an exception unwound.                   *)
ArgvNoReturnedCall ==
  argv # NULL => argv \in LiveCalls \cup aborted

(* A handler may still find the buffer of a call that was unwound.  Then   *)
(* that call was nested in its own: one that began earlier, or that ended  *)
(* before the handler's own call began, never shows through.               *)
ArgvUnwound ==
  depth > 0 /\ argv # NULL /\ argv \notin LiveCalls => argv > Top.id

(* As long as no call was made since its own began, a handler has the      *)
(* buffer of its own call: on the way in, on the way out, for the result.  *)
ArgvGiven ==
  Top.pc \notin {"main", "native", "callback"} /\ Top.id = calls => argv = Top.id

(* What the arguments_* functions of the API reach in a handler: its own   *)
(* call's buffer when no call was made since that call began; after calls  *)
(* nested in its own it may be none, and when one of these was refused or  *)
(* died and the handler caught the exception, the buffer of that call,     *)
(* which is gone.  That it is not its own any more is not what the API     *)
(* says; the invariant bounds whose buffer it can be.                      *)
ArgvOwn == ArgvNeverForeign /\ ArgvNoReturnedCall /\ ArgvUnwound /\ ArgvGiven

(* Where a call stands: the slot that the C loops count and the argument   *)
(* that they count beside it belong together in every phase.               *)
Placed(fr) ==
  LET f == fr.fn
      n == Len(Args[f])
  IN  /\ f \in Fun
      /\ \/ /\ fr.pc = "in"
            /\ fr.p \in 1..n + 1
            /\ fr.i = FirstSlot(f, fr.p)
         \/ /\ fr.pc \in {"perl_to_native", "perl_to_native_post"}
            /\ fr.p \in 1..n
            /\ Args[f][fr.p].custom
            /\ fr.i = FirstSlot(f, fr.p)
         \/ /\ fr.pc \in {"native", "callback"}
            /\ fr.p = n + 1
            /\ fr.i = NArgs(f)
         \/ /\ fr.pc = "out"
            /\ fr.p \in 0..n
            /\ fr.i = FirstSlot(f, fr.p + 1) - 1
         \/ /\ fr.pc = "native_to_perl"
            /\ fr.p = 0
            /\ fr.i = -1

(* Every call in progress is placed so, whatever wide arguments it skips   *)
(* and whatever calls nest in it and are unwound; a call that nests in     *)
(* another began later, and nothing is left of those that ended.           *)
FramesPlaced ==
  /\ \A d \in 1..depth : Placed(frame[d]) /\ frame[d].id \in 1..calls
  /\ \A d \in 0..MaxDepth : d \notin 1..depth => frame[d] = Main
  /\ \A d, e \in 1..depth : d < e => frame[d].id < frame[e].id

(* perl_to_native and perl_to_native_post of an argument are given the     *)
(* first slot of that very argument, on the way in (slots counted up) and  *)
(* on the way out (counted down over the wide arguments).                  *)
HandlerSlot ==
  At("perl_to_native") \/ At("perl_to_native_post") =>
     /\ Top.p \in DOMAIN Args[Top.fn]
     /\ Top.i = FirstSlot(Top.fn, Top.p)
     /\ Args[Top.fn][Top.p].custom

(* The argument memory of a call in progress is not freed, in whatever     *)
(* phase the call is and whatever the calls nested in it did.              *)
ArgumentsLive == LiveCalls \subseteq heap

(* A call that was not unwound frees its heap list on every return path.   *)
NoSilentLeak == heap \subseteq LiveCalls \cup aborted

(* The heap lists are those of the calls in progress, but for what calls   *)
(* that were unwound leave.                                                *)
HeapOfCalls == ArgumentsLive /\ NoSilentLeak

(* The custom arguments of a call that have been converted and that the    *)
(* call has not let go of.  A handler that may return the empty list has   *)
(* nothing to keep.                                                        *)
Converted(fr) ==
  {p \in DOMAIN Args[fr.fn] :
     /\ Args[fr.fn][p].custom
     /\ ~ Args[fr.fn][p].empty
     /\ \/ fr.pc \in {"in", "perl_to_native"} /\ p < fr.p
        \/ fr.pc \in {"native", "callback"}
        \/ fr.pc \in {"out", "perl_to_native_post"} /\ p <= fr.p}

(* A converted custom argument is kept for the lifetime of the call, so    *)
(* that the native function may use the memory it points to (Changes,      *)
(* 1.23_01): no nested call pops it.                                       *)
KeptForLifetime ==
  \A d \in 1..depth : \A p \in Converted(frame[d]) :
     \E k \in DOMAIN keepers : keepers[k] = [id |-> frame[d].id, p |-> p]

(* Nothing stays in custom_keepers between calls, unless a call was        *)
(* unwound: pushes and pops balance over nested calls.                     *)
KeepersDrained ==
  depth = 0 /\ aborted = {} => keepers = << >>

=============================================================================
