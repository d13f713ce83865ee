------------------------------- MODULE Plugin -------------------------------
(***************************************************************************)
(* The custom type plugins that come with the program keep what they made  *)
(* for an argument (the buffer, its address and size) in a @stack of their *)
(* package from perl_to_native until perl_to_native_post.  It is one stack *)
(* for all the calls in progress, so what a post handler pops depends on   *)
(* the calls that nested in its own, and on how they ended.                *)
(*                                                                         *)
(* The calls are those of Call; here every type with a post handler is of  *)
(* one plugin.                                                             *)
(***************************************************************************)
EXTENDS Call

(* A post handler pops what perl_to_native of the same type has pushed: no *)
(* plugin has the one without the other.                                   *)
ASSUME PluginAssumption ==
  \A f \in Fun : \A p \in DOMAIN Args[f] :
     Args[f][p].post => Args[f][p].custom /\ Args[f][p].p2n

VARIABLES
  stack,  (* @stack, the last entry is the top                             *)
  popped, (* history: who popped in the last step, and what it got         *)
  emptied (* history: a handler returned the empty list since the outermost *)
          (* call in progress began                                        *)

pluginVars == <<vars, stack, popped, emptied>>

NoEntry == [id |-> NULL, p |-> 0]

NoPop == [own |-> NoEntry, got |-> NoEntry]

Own == [id |-> Top.id, p |-> Top.p]

PluginInit ==
  /\ Init
  /\ stack = << >>
  /\ popped = NoPop
  /\ emptied = FALSE

UsesStack == TopType.post

Elsewhere == popped' = NoPop /\ UNCHANGED <<stack, emptied>>

(* Mutant of Push: unshift.                                                *)
Unshift == stack' = <<Own>> \o stack

(* push @stack: the last thing that can fail is before it, so a handler    *)
(* that dies has pushed nothing; the call may still be refused after it.   *)
Push == stack' = Append(stack, Own)

ConvertedByPlugin ==
  /\ \/ ConvertedIn /\ UNCHANGED emptied
     \/ ConvertedInEmpty /\ emptied' = TRUE
  /\ IF UsesStack THEN Push ELSE UNCHANGED stack
  /\ popped' = NoPop

(* pop @stack, the first thing that the post handler does.                 *)
Pop ==
  /\ popped' = [own |-> Own,
                got |-> IF stack = << >> THEN NoEntry ELSE stack[Len(stack)]]
  /\ stack' = IF stack = << >> THEN stack ELSE SubSeq(stack, 1, Len(stack) - 1)

PostByPlugin ==
  /\ PostOut
  /\ IF UsesStack THEN Pop ELSE popped' = NoPop /\ UNCHANGED stack
  /\ UNCHANGED emptied

Begins(f) ==
  /\ Enter(f)
  /\ popped' = NoPop
  /\ emptied' = (emptied /\ depth # 0)
  /\ UNCHANGED stack

PluginNext ==
  \/ \E f \in Fun : Begins(f)
  \/ (PlainIn \/ CopyIn \/ ConvertIn) /\ Elsewhere
  \/ ConvertedByPlugin
  \/ (CallNative \/ Callback \/ CallbackReturn \/ NativeReturn) /\ Elsewhere
  \/ (PlainOut \/ PostReturn) /\ Elsewhere
  \/ PostByPlugin
  \/ (Return \/ ConvertReturn \/ ConvertedReturn \/ Die) /\ Elsewhere

PluginSpec == PluginInit /\ [][PluginNext]_pluginVars

-----------------------------------------------------------------------------
(* Properties                                                              *)

(* A converted custom argument is kept for the lifetime of the call, so    *)
(* that the native function may use the memory it points to (Changes,      *)
(* 1.23_01): no nested call pops it.  That is so until a handler of a call *)
(* nested in the same outermost one returns the empty list: nothing is     *)
(* pushed for it, and one is popped.  The calls of the next outermost one  *)
(* keep theirs again.  And nothing is kept after the calls, unless one was *)
(* unwound.                                                                *)
KeepersOfCalls ==
  /\ ~ emptied => KeptForLifetime
  /\ KeepersDrained

(* The arguments of a call that are converted and not converted back.      *)
Open(fr) ==
  {p \in DOMAIN Args[fr.fn] :
     /\ Args[fr.fn][p].post
     /\ \/ fr.pc \in {"in", "perl_to_native", "perl_to_native_post"} /\ p < fr.p
        \/ fr.pc \in {"native", "callback"}
        \/ fr.pc = "out" /\ p <= fr.p}

(* A post handler gets the entry that perl_to_native made for the same     *)
(* argument of the same call.  Only a call that began later and was        *)
(* unwound can have left an entry on top of it.  As long as no call is     *)
(* unwound, the stack holds one entry for each open argument of the calls  *)
(* in progress: what it keeps alive, it keeps as long as C may use it, and *)
(* no longer.                                                              *)
StackOfCalls ==
  /\ popped.got # popped.own => \E call \in aborted : call > popped.own.id
  /\ aborted = {} =>
       /\ {stack[k] : k \in DOMAIN stack} =
            UNION {{[id |-> frame[d].id, p |-> p] : p \in Open(frame[d])} : d \in 1..depth}
       /\ \A j, k \in DOMAIN stack : stack[j] = stack[k] => j = k

=============================================================================
