----------------------------- MODULE Arguments -----------------------------
(***************************************************************************)
(* Pointer and array arguments, from the point of view of memory: the      *)
(* dispatch copies what the Perl references refer to into blocks, C works  *)
(* on the blocks and may call back into Perl, and the dispatch copies the  *)
(* blocks back, last argument first, frees those on the heap and reads     *)
(* the memory that C returned.                                             *)
(*                                                                         *)
(* What Perl code the callbacks run may change the variables that were     *)
(* passed: the copy back looks at them again.                              *)
(***************************************************************************)
EXTENDS Integers, Sequences, FiniteSets

CONSTANTS
  Scalar,    (* Perl scalars that are referred to                          *)
  Array,     (* Perl arrays                                                *)
  NotRef,    (* an argument that is not a reference                        *)
  Other,     (* one that refers to neither: a hash, a code reference       *)
  Null,      (* the pointer NULL                                           *)
  Frozen,    (* &PL_sv_undef in an array: an element that is read-only     *)
  Function,  (* the functions: their argument types and result types       *)
  Api,       (* the values of platypus_api                                 *)
  Alloca,    (* whether memory for scalars is on the stack                 *)
  OwnMemory, (* memory of C's own that functions return                    *)
  Wild,      (* what something that is no array may be read as             *)
  MaxCall,   (* bound on the calls                                         *)
  MaxChange  (* bound on the stores of C and of its callbacks              *)

(* A value is 0, which is also undef, or 1; elements "address" are opaque  *)
(* or string, and 0 is a NULL.                                             *)
Value == {0, 1}

Type == [shape : {"pointer", "array"}, count : Nat, base : {"number", "address"}]

(* A result that is "wide" is a number of 64 bits: the test for opaque     *)
(* takes it for an address.                                                *)
ResultType ==
  [shape : {"none", "pointer", "array"}, count : Nat, base : {"number", "wide", "address"}]

ASSUME ArgumentsAssumption ==
  /\ Scalar \cap Array = {}
  /\ {NotRef, Other} \cap (Scalar \cup Array) = {} /\ NotRef # Other
  /\ Frozen \notin Value
  /\ Null \notin [heap : BOOLEAN, cells : Seq(Value), live : BOOLEAN]
  /\ Function \subseteq [args : Seq(Type), result : ResultType]
  /\ OwnMemory \subseteq Seq(Value) \ {<< >>} /\ Wild \subseteq Seq(Value)
  /\ Api \subseteq {1, 2} /\ Alloca \in BOOLEAN
  /\ MaxCall \in Nat /\ MaxChange \in Nat

VARIABLES
  scalar,  (* the values of the scalars                                    *)
  array,   (* the elements of the arrays                                   *)
  api,     (* platypus_api of the functions                                *)
  sig,     (* argument types of the function called                        *)
  result,  (* its result type                                              *)
  arg,     (* ST(n): what the n-th argument of the caller refers to        *)
  block,   (* the memory of each argument, as it was handed to C           *)
  phase, at, (* the phase of the call, and the argument it is at           *)
  returned,(* the argument whose memory C returned, or 0                   *)
  given,   (* the memory of C's own that it returned, or none              *)
  called, changes,
  changed, (* history: a callback changed what is passed                   *)
  strayed  (* history: reads outside live memory                           *)

argumentVars == <<scalar, array, api, sig, result, arg, block, phase, at, returned,
                  given, called, changes, changed, strayed>>
perl == <<scalar, array>>
ofCall == <<api, sig, result, returned, given, called>>

-----------------------------------------------------------------------------
ArgumentsInit ==
  /\ scalar = [s \in Scalar |-> 0]
  /\ array \in [Array -> {<< >>, <<1>>}]
  /\ api \in Api
  /\ sig = << >> /\ result = [shape |-> "none", count |-> 0, base |-> "number"]
  /\ arg = << >> /\ block = << >>
  /\ phase = "idle" /\ at = 0
  /\ returned = 0 /\ given = << >>
  /\ called = 0 /\ changes = 0
  /\ changed = FALSE /\ strayed = {}

Begin(f, args) ==
  /\ phase \in {"idle", "died"} /\ called < MaxCall
  /\ sig' = f.args /\ result' = f.result /\ arg' = args
  /\ block' = << >>
  /\ phase' = (IF f.args = << >> THEN "native" ELSE "in") /\ at' = 1
  /\ returned' = 0 /\ given' = << >>
  /\ called' = called + 1 /\ changes' = 0
  /\ changed' = FALSE /\ strayed' = {}
  /\ UNCHANGED <<perl, api>>

(* The type and the referent of the argument that the call is at.          *)
Declared == sig[at]
Passed == arg[at]

Pass(b) ==
  /\ block' = Append(block, b)
  /\ at' = at + 1
  /\ phase' = IF at = Len(sig) THEN "native" ELSE "in"
  /\ UNCHANGED <<ofCall, scalar, arg, changes, changed>>

Memory(heap, cells) == [heap |-> heap, cells |-> cells, live |-> TRUE]

(* A reference to a scalar: its value is copied, on the stack if possible. *)
PointerIn ==
  /\ phase = "in" /\ Declared.shape = "pointer" /\ Passed \in Scalar
  /\ Pass(Memory(~ Alloca, <<scalar[Passed]>>))
  /\ UNCHANGED <<array, strayed>>

Number(v) == IF v = Frozen THEN 0 ELSE v

Extended(elements, count) ==
  [n \in 1..(IF count > Len(elements) THEN count ELSE Len(elements)) |->
     IF n <= Len(elements) THEN elements[n] ELSE 0]

(* The number of elements: of the type, or if it has none of the array.    *)
Count(type, a) ==
  IF type.shape = "array" /\ type.count # 0 THEN type.count ELSE Len(array[a])

(* A reference to an array, from API 2 also where a pointer is declared.   *)
(* av_fetch extends an array that is shorter than its type.                *)
ArrayIn ==
  /\ phase = "in" /\ Passed \in Array
  /\ Declared.shape = "array" \/ api >= 2
  /\ LET all == Extended(array[Passed], Count(Declared, Passed))
     IN  /\ array' = [array EXCEPT ![Passed] = all]
         /\ Pass(Memory(TRUE, [n \in 1..Count(Declared, Passed) |-> Number(all[n])]))
         /\ UNCHANGED strayed

(* By the precedence of its condition, the branch for arrays takes from    *)
(* API 2 any other reference too where a pointer is declared, and reads a  *)
(* hash as if it were an array: the program is killed, or the memory holds *)
(* whatever was found there.                                               *)
WildIn ==
  /\ phase = "in" /\ Declared.shape = "pointer" /\ Passed = Other
  /\ api >= 2
  /\ \E cells \in Wild : Pass(Memory(TRUE, cells))
  /\ strayed' = strayed \cup {"in"}
  /\ UNCHANGED array

Killed ==
  /\ phase = "in" /\ Declared.shape = "pointer" /\ Passed = Other
  /\ api >= 2
  /\ phase' = "killed"
  /\ strayed' = strayed \cup {"in"}
  /\ UNCHANGED <<perl, ofCall, arg, block, at, changes, changed>>

(* Not a reference, or before API 2 one that is refused with a warning:    *)
(* NULL.                                                                   *)
NullIn ==
  /\ phase = "in" /\ Declared.shape = "pointer"
  /\ Passed = NotRef \/ (Passed \in Array \cup {Other} /\ api < 2)
  /\ Pass(Null)
  /\ UNCHANGED <<array, strayed>>

(* "passing non array reference": zeros, as many as the type has.          *)
ZerosIn ==
  /\ phase = "in" /\ Declared.shape = "array" /\ Passed \notin Array
  /\ Pass(Memory(TRUE, [n \in 1..Declared.count |-> 0]))
  /\ UNCHANGED <<array, strayed>>

-----------------------------------------------------------------------------
(* C and the Perl code that it calls back                                  *)

Change ==
  /\ phase = "native" /\ changes < MaxChange
  /\ changes' = changes + 1
  /\ UNCHANGED <<ofCall, phase, at, strayed>>

CStore(k, n, v) ==
  /\ Change
  /\ block[k] # Null /\ n \in DOMAIN block[k].cells
  /\ block' = [block EXCEPT ![k].cells[n] = v]
  /\ UNCHANGED <<perl, arg, changed>>

PerlPush(a, v) ==
  /\ Change
  /\ array' = [array EXCEPT ![a] = Append(@, v)]
  /\ changed' = TRUE
  /\ UNCHANGED <<scalar, arg, block>>

PerlShift(a) ==
  /\ Change
  /\ array[a] # << >>
  /\ array' = [array EXCEPT ![a] = Tail(@)]
  /\ changed' = TRUE
  /\ UNCHANGED <<scalar, arg, block>>

(* ST(n) is the caller's variable itself, which may get another reference. *)
PerlRebind(k, y) ==
  /\ Change
  /\ arg' = [arg EXCEPT ![k] = y]
  /\ changed' = TRUE
  /\ UNCHANGED <<perl, block>>

(* What C may return: NULL, the memory of an argument or its own.          *)
Returns(k, mem) ==
  /\ phase = "native"
  /\ k # 0 \/ mem # << >> => result.shape # "none"
  /\ k # 0 => mem = << >> /\ block[k] # Null /\ block[k].cells # << >>
  /\ returned' = k /\ given' = mem
  /\ phase' = "out"
  /\ UNCHANGED <<perl, api, sig, result, arg, block, called, changes, changed, strayed>>

(* Mutant of CReturn: the copy back starts one argument too low.           *)
CReturnShort(k, mem) == Returns(k, mem) /\ at' = Len(sig) - 1

CReturn(k, mem) == Returns(k, mem) /\ at' = Len(sig)

-----------------------------------------------------------------------------
(* Copying back                                                            *)

OutStep ==
  /\ phase = "out" /\ at > 0
  /\ UNCHANGED <<ofCall, arg, block, changes, changed>>

PreviousOut == at' = at - 1 /\ phase' = phase

(* NULL, or something that is not a reference to anything that can be      *)
(* assigned.                                                               *)
NothingOut ==
  /\ OutStep /\ PreviousOut
  /\ block[at] = Null \/ Passed \in {NotRef, Other}
  /\ UNCHANGED <<perl, strayed>>

(* The cells that are read; what is beyond a block may hold anything.      *)
Cells(count) ==
  {c \in [1..count -> Value] : \A n \in 1..count :
     n <= Len(block[at].cells) => c[n] = block[at].cells[n]}

Overread(count) ==
  IF count > Len(block[at].cells) THEN strayed \cup {"out"} ELSE strayed

(* A scalar gets the first cell.                                           *)
ScalarOut ==
  /\ OutStep /\ PreviousOut
  /\ block[at] # Null /\ Passed \in Scalar
  /\ \E c \in Cells(1) : scalar' = [scalar EXCEPT ![Passed] = c[1]]
  /\ strayed' = Overread(1)
  /\ UNCHANGED array

(* An address other than NULL comes back to an array only where an array   *)
(* type is declared: the element of a pointer's array is left as it was.   *)
Withheld(type, v) == type.shape = "pointer" /\ type.base = "address" /\ v # 0

(* The element that was `old' after the copy; a NULL is stored as          *)
(* &PL_sv_undef itself.                                                    *)
Shown(v, old) ==
  IF Withheld(Declared, v) THEN old
  ELSE IF Declared.base = "address" /\ v = 0 THEN Frozen ELSE v

(* Mutant of ArrayOut: the type is not asked for the number of elements.   *)
ArrayOutWhole ==
  /\ OutStep /\ PreviousOut
  /\ block[at] # Null /\ Passed \in Array
  /\ LET count == Len(array[Passed]) + 1
     IN  /\ \E c \in Cells(count) :
              array' = [array EXCEPT ![Passed] =
                LET all == Extended(@, count)
                IN  [n \in DOMAIN all |-> IF n <= count THEN Shown(c[n], all[n]) ELSE all[n]]]
         /\ strayed' = Overread(count)
  /\ UNCHANGED scalar

(* Every element of an array is looked at; an array that is longer than    *)
(* its type keeps the rest.                                                *)
ArrayOut ==
  /\ OutStep /\ PreviousOut
  /\ block[at] # Null /\ Passed \in Array
  /\ LET count == Count(Declared, Passed)
     IN  /\ \E c \in Cells(count) :
              array' = [array EXCEPT ![Passed] =
                LET all == Extended(@, count)
                IN  [n \in DOMAIN all |-> IF n <= count THEN Shown(c[n], all[n]) ELSE all[n]]]
         /\ strayed' = Overread(count)
  /\ UNCHANGED scalar

(* "Modification of a read-only value": where an earlier call left a NULL, *)
(* a recent Perl refuses the new value in the middle of the copy (an older *)
(* one makes a new element, which is ArrayOut).  The call is unwound.      *)
ArrayOutDies ==
  /\ OutStep
  /\ block[at] # Null /\ Passed \in Array
  /\ LET count == Count(Declared, Passed)
     IN  /\ strayed' = Overread(count)
         /\ \E c \in Cells(count) :
              \E k \in 1..count :
                /\ k <= Len(array[Passed]) /\ array[Passed][k] = Frozen
                /\ Shown(c[k], Frozen) # Frozen
                /\ array' = [array EXCEPT ![Passed] =
                     [n \in DOMAIN @ |-> IF n < k THEN Shown(c[n], @[n]) ELSE @[n]]]
  /\ phase' = "died" /\ at' = 0
  /\ UNCHANGED scalar

(* Mutant of Free: the list is forgotten.                                  *)
FreeNothing ==
  /\ phase = "out" /\ at = 0
  /\ phase' = "result"
  /\ UNCHANGED <<perl, ofCall, arg, block, at, changes, changed, strayed>>

(* ffi_pl_heap_free, before the result is looked at.                       *)
Free ==
  /\ phase = "out" /\ at = 0
  /\ block' = [k \in DOMAIN block |->
                 IF block[k] # Null /\ block[k].heap
                 THEN [block[k] EXCEPT !.live = FALSE] ELSE block[k]]
  /\ phase' = "result"
  /\ UNCHANGED <<perl, ofCall, arg, at, changes, changed, strayed>>

(* What the pointer that C returned points to.                             *)
Pointed == IF returned # 0 THEN block[returned].cells ELSE given

(* The elements that are read there.  An array without length is read up   *)
(* to the first NULL, the one beyond the memory included when it has none, *)
(* but one of small numbers not at all.                                    *)
Looked ==
  CASE result.shape = "pointer" -> {1}
    [] result.shape = "array" /\ result.count # 0 -> 1..result.count
    [] result.shape = "array" /\ result.count = 0 /\ result.base # "number" ->
         {n \in 1..Len(Pointed) + 1 : \A j \in 1..n - 1 : Pointed[j] # 0}
    [] OTHER -> {}

Gone == returned # 0 /\ ~ block[returned].live

ReadResult ==
  /\ phase = "result"
  /\ strayed' = IF /\ returned # 0 \/ given # << >>
                   /\ \E n \in Looked : n \notin DOMAIN Pointed \/ Gone
                THEN strayed \cup {"result"} ELSE strayed
  /\ phase' = "idle"
  /\ UNCHANGED <<perl, ofCall, arg, block, at, changes, changed>>

-----------------------------------------------------------------------------
Referent == Scalar \cup Array \cup {NotRef, Other}

PerlChanges ==
  \/ \E a \in Array : PerlPush(a, 1) \/ PerlShift(a)
  \/ \E k \in DOMAIN sig, y \in Referent : PerlRebind(k, y)

ArgumentsNext ==
  \/ \E f \in Function : \E args \in [DOMAIN f.args -> Referent] : Begin(f, args)
  \/ PointerIn \/ ArrayIn \/ WildIn \/ Killed \/ NullIn \/ ZerosIn
  \/ \E k \in DOMAIN block : \E n \in 1..2, v \in Value : CStore(k, n, v)
  \/ PerlChanges
  \/ \E k \in {0} \cup DOMAIN sig, mem \in OwnMemory \cup {<< >>} : CReturn(k, mem)
  \/ NothingOut \/ ScalarOut \/ ArrayOut \/ ArrayOutDies \/ Free \/ ReadResult

ArgumentsSpec == ArgumentsInit /\ [][ArgumentsNext]_argumentVars

-----------------------------------------------------------------------------
(* Properties                                                              *)

(* What C left in the memory of an argument is in its variable, but for    *)
(* the addresses that do not come back.                                    *)
Copied(k) ==
  /\ arg[k] \in Scalar /\ sig[k].shape = "pointer" => scalar[arg[k]] = block[k].cells[1]
  /\ arg[k] \in Array =>
       \A n \in DOMAIN block[k].cells :
         Withheld(sig[k], block[k].cells[n]) \/ Number(array[arg[k]][n]) = block[k].cells[n]

(* What C left in memory is in the variables when the call returns, unless *)
(* a callback changed them.  Where two arguments refer to the same         *)
(* variable, each had a block of its own, and the first one counts, since  *)
(* the copies are made from the last to the first.  Of the addresses in an *)
(* array that was passed where a pointer is declared, only the NULLs come  *)
(* back.                                                                   *)
CopiedBack ==
  phase = "result" /\ ~ changed =>
    \A k \in DOMAIN sig :
      block[k] # Null /\ (\A j \in 1..k - 1 : arg[j] # arg[k]) => Copied(k)

(* A type without length was given a scalar.                               *)
Lengthless(k) == sig[k].shape = "array" /\ sig[k].count = 0 /\ arg[k] \in Scalar

(* The block has the length that the array had, and a later argument with  *)
(* a type that is longer has the same array.                               *)
Outgrown(k) ==
  /\ sig[k].shape = "pointer" \/ sig[k].count = 0
  /\ arg[k] \in Array
  /\ \E j \in k + 1..Len(sig) :
       arg[j] = arg[k] /\ sig[j].shape = "array" /\ sig[j].count > Len(block[k].cells)

(* Something that is no array was read as one.                             *)
Misread(k) == api >= 2 /\ sig[k].shape = "pointer" /\ arg[k] = Other

(* C returned less than the array type says, or no NULL to stop at.        *)
Unbounded ==
  /\ result.shape = "array"
  /\ IF result.count # 0 THEN result.count > Len(Pointed)
     ELSE result.base # "number" /\ \A n \in DOMAIN Pointed : Pointed[n] # 0

(* Memory is read outside a block that is alive in these cases only.  As   *)
(* an argument: something else than an array was passed where a pointer is *)
(* declared.  In the copy back: a callback made the array longer or put    *)
(* another one in its place, a later argument made it longer, or a type    *)
(* without length was given a scalar.  As a result: C returned the address *)
(* of an argument that was on the heap, or an array that is shorter than   *)
(* its type or has no NULL at its end.                                     *)
ReadsInside ==
  /\ "in" \in strayed => changed \/ \E k \in DOMAIN sig : Misread(k)
  /\ "out" \in strayed => changed \/ \E k \in DOMAIN sig : Lengthless(k) \/ Outgrown(k)
  /\ "result" \in strayed => (returned # 0 /\ block[returned].heap) \/ Unbounded

(* While C runs all that it was given is alive, and a call that returned   *)
(* has left nothing on the heap; only one that died in the copy back has.  *)
BlocksLive ==
  /\ phase \in {"native", "out"} => \A k \in DOMAIN block : block[k] = Null \/ block[k].live
  /\ phase = "idle" => \A k \in DOMAIN block :
                      block[k] = Null \/ ~ block[k].heap \/ ~ block[k].live

=============================================================================
