------------------------------- MODULE Record -------------------------------
(***************************************************************************)
(* Record classes and their objects: record_layout gives every member an   *)
(* offset and an accessor; an object is a Perl string of bytes, which the  *)
(* accessors and C code read and write in place; the strings that rw       *)
(* members point to are on the heap of C and belong to the object.         *)
(*                                                                         *)
(* C code finds the members where its compiler puts them, and libffi       *)
(* copies a record passed by value by what it computes from the element    *)
(* types it is given: both have to agree with the offsets of Perl.         *)
(***************************************************************************)
EXTENDS Integers, Sequences, FiniteSets

CONSTANTS
  Base,      (* the number of values of a byte, 256                        *)
  Pointer,   (* the size of a pointer: 4, or 8                             *)
  Decl,      (* the lists of members given to record_layout                *)
  Rec,       (* record objects                                             *)
  None,      (* no answer                                                  *)
  Value,     (* the numbers stored in members                              *)
  Index,     (* the indexes given to array accessors                       *)
  Text,      (* the texts stored in fixed strings: sequences of bytes      *)
  String,    (* the addresses of heap strings                              *)
  MaxStore   (* bound on the stores of a behaviour                         *)

(* What record_layout and the accessors look at in a type.  kind "other"   *)
(* is a type that has no accessor, and that libffi is not told of.         *)
Kind == {"number", "opaque", "string_ro", "string_rw", "fixed", "other"}

AnyType == [kind : Kind, width : Nat \ {0}, align : Nat \ {0}, signed : BOOLEAN,
            array : BOOLEAN, count : Nat \ {0}]

(* The size of a C type is a multiple of its alignment; a fixed string is  *)
(* made of bytes; there are accessors for arrays of numbers and addresses. *)
Type == {t \in AnyType :
           /\ t.width % t.align = 0
           /\ t.kind = "fixed" => t.width = 1 /\ t.align = 1
           /\ t.kind \in {"opaque", "string_ro", "string_rw"} => t.width = Pointer /\ ~ t.signed
           /\ t.kind \in {"fixed", "string_ro", "string_rw"} => ~ t.array
           /\ t.array \/ t.kind = "fixed" \/ t.count = 1}

(* Pow[i] is the number of values of i bytes.                              *)
Pow[i \in Nat] == IF i = 0 THEN 1 ELSE Base * Pow[i - 1]

Pad == ":"

ASSUME RecordAssumption ==
  /\ Base \in Nat \ {0} /\ Base % 2 = 0 /\ Pointer \in Nat \ {0}
  /\ Decl \subseteq Seq([name : STRING, type : Type])
  /\ Value \subseteq Int /\ Index \subseteq Int
  /\ Text \subseteq Seq(0..Base - 1)
  /\ String \subseteq 1..Pow[Pointer] - 1
  /\ MaxStore \in Nat

VARIABLES
  phase,   (* of the class: no layout, in record_layout, laid out, broken  *)
  rest,    (* the members of the declaration still to be laid out          *)
  members, (* the members laid out, with their offsets                     *)
  offset,  (* $offset, in the end _ffi_record_size                         *)
  align,   (* $record_align                                                *)
  compiled,(* where the C compiler puts the members                        *)
  elements,(* @ffi_types: what libffi is told of the class                 *)
  methods, (* the names that have an accessor                              *)
  object,  (* the objects there are: their bytes, and if they are read-only *)
  strings, (* the heap strings allocated                                   *)
  stores,  (* the number of stores                                         *)
  event,   (* history: the last call and its answer                        *)
  strayed, (* history: how the last call reached memory that is not the member's *)
  shared,  (* history: C made a copy of a record with an rw string         *)
  corrupt  (* history: something that is not allocated was freed           *)

layoutVars == <<phase, rest, members, offset, align, compiled, elements, methods>>
vars == <<layoutVars, object, strings, stores, event, strayed, shared, corrupt>>

-----------------------------------------------------------------------------
(* The member types, by the accessors made for them (xs/record_*.c).       *)

Scalar(kind, w, s) == [kind |-> kind, width |-> w, align |-> w, signed |-> s,
                       array |-> FALSE, count |-> 1]

UInt8  == Scalar("number", 1, FALSE)
SInt8  == Scalar("number", 1, TRUE)
UInt16 == Scalar("number", 2, FALSE)
SInt16 == Scalar("number", 2, TRUE)
UInt32 == Scalar("number", 4, FALSE)
SInt32 == Scalar("number", 4, TRUE)
UInt64 == Scalar("number", 8, FALSE)
SInt64 == Scalar("number", 8, TRUE)

(* A representable number is named by its bit pattern.                     *)
Float  == Scalar("number", 4, FALSE)
Double == Scalar("number", 8, FALSE)

Opaque == Scalar("opaque", Pointer, FALSE)
StringRo == Scalar("string_ro", Pointer, FALSE)
StringRw == Scalar("string_rw", Pointer, FALSE)
LongDouble == Scalar("other", 16, FALSE)

Fixed(n) == [kind |-> "fixed", width |-> 1, align |-> 1, signed |-> FALSE,
             array |-> FALSE, count |-> n]
ArrayOf(t, n) == [t EXCEPT !.array = TRUE, !.count = n]

(* ffi_pl_sizeof                                                           *)
SizeOf(t) == t.width * t.count

-----------------------------------------------------------------------------
(* The C compiler puts each member at the first boundary of its type after *)
(* the member before it.                                                   *)

CAligned(o, a) == ((o + a - 1) \div a) * a

CEnd == IF members = << >> THEN 0
        ELSE compiled[Len(members)] + SizeOf(members[Len(members)].type)

(* libffi does the same for the element types: LibffiEnd(ts)[i] is where   *)
(* the i-th element ends.  The size is a multiple of the alignment.        *)
LibffiEnd(ts) ==
  LET end[i \in 0..Len(ts)] ==
        IF i = 0 THEN 0 ELSE CAligned(end[i - 1], ts[i].align) + ts[i].width
  IN  end

LibffiAlign(ts) == CHOOSE a \in {ts[i].align : i \in DOMAIN ts} \cup {0} :
                     \A i \in DOMAIN ts : ts[i].align <= a

LibffiSize(ts) == IF ts = << >> THEN 0
                  ELSE CAligned(LibffiEnd(ts)[Len(ts)], LibffiAlign(ts))

-----------------------------------------------------------------------------
(* record_layout                                                           *)

Init ==
  /\ phase = "none"
  /\ rest = << >>
  /\ members = << >>
  /\ offset = 0
  /\ align = 0
  /\ compiled = << >>
  /\ elements = << >>
  /\ methods = {}
  /\ object = [r \in {} |-> None]
  /\ strings = {}
  /\ stores = 0
  /\ event = [call |-> "none"]
  /\ strayed = {}
  /\ shared = FALSE
  /\ corrupt = FALSE

OnlyLayout == UNCHANGED <<object, strings, stores, strayed, shared, corrupt>>

RecordLayout(d) ==
  /\ phase \in {"none", "failed"}
  /\ phase' = "members"
  /\ rest' = d
  /\ members' = << >> /\ compiled' = << >> /\ elements' = << >>
  /\ offset' = 0 /\ align' = 0
  /\ UNCHANGED <<methods, event>>
  /\ OnlyLayout

(* $offset++ while $offset % $align                                        *)
Aligned(o, a) == CHOOSE n \in o..o + a - 1 : n % a = 0

(* Mutant of Elements: an array is one element.                            *)
ElementsOnce(t) == <<t>>

(* The element types of libffi: a fixed string is so many sint8.           *)
Elements(t) ==
  [i \in 1..t.count |->
     IF t.kind = "fixed" THEN SInt8
     ELSE [kind |-> t.kind, width |-> t.width, align |-> t.align, signed |-> t.signed,
           array |-> FALSE, count |-> 1]]

Supported(t) == t.kind # "other"

(* Mutant of AddMember: the size is added to the offset before alignment.   *)
AddMemberUnpadded ==
  /\ phase = "members" /\ rest # << >>
  /\ LET m == Head(rest)
         t == m.type
         o == Aligned(offset, t.align)
     IN  /\ m.name \notin methods
         /\ m.name = Pad \/ Supported(t)
         /\ members' = Append(members, [name |-> m.name, type |-> t, offset |-> o])
         /\ offset' = offset + SizeOf(t)
         /\ align' = IF t.align > align THEN t.align ELSE align
         /\ compiled' = Append(compiled, CAligned(CEnd, t.align))
         /\ elements' = elements \o Elements(t)
         /\ methods' = methods \cup ({m.name} \ {Pad})
  /\ rest' = Tail(rest)
  /\ UNCHANGED <<phase, event>>
  /\ OnlyLayout

(* A member gets its offset, and unless it is padding its accessor.        *)
AddMember ==
  /\ phase = "members" /\ rest # << >>
  /\ LET m == Head(rest)
         t == m.type
         o == Aligned(offset, t.align)
     IN  /\ m.name \notin methods
         /\ m.name = Pad \/ Supported(t)
         /\ members' = Append(members, [name |-> m.name, type |-> t, offset |-> o])
         /\ offset' = o + SizeOf(t)
         /\ align' = IF t.align > align THEN t.align ELSE align
         /\ compiled' = Append(compiled, CAligned(CEnd, t.align))
         /\ elements' = elements \o Elements(t)
         /\ methods' = methods \cup ({m.name} \ {Pad})
  /\ rest' = Tail(rest)
  /\ UNCHANGED <<phase, event>>
  /\ OnlyLayout

(* "accessor/method already exists", "type not supported": the accessors   *)
(* made so far stay, and the class may be laid out again.                  *)
MemberRefused ==
  /\ phase = "members" /\ rest # << >>
  /\ \/ Head(rest).name \in methods
     \/ Head(rest).name # Pad /\ ~ Supported(Head(rest).type)
  /\ phase' = "failed"
  /\ UNCHANGED <<rest, members, offset, align, compiled, elements, methods, event>>
  /\ OnlyLayout

(* The size is fixed and the subs of the class are made; Meta::new refuses *)
(* an element type that libffi is not told of, too late for another        *)
(* attempt: the class has a size and a constructor, but no DESTROY.        *)
Finish ==
  /\ phase = "members" /\ rest = << >>
  /\ phase' = IF \A i \in DOMAIN elements : Supported(elements[i])
              THEN "defined" ELSE "broken"
  /\ event' = [call |-> "declare"]
  /\ UNCHANGED <<rest, members, offset, align, compiled, elements, methods>>
  /\ OnlyLayout

-----------------------------------------------------------------------------
(* Memory.  A value is stored as C stores it: the low bytes, the lowest    *)
(* first, so a number too big for its member is cut down.                  *)

(* Mutant of Byte: the number is not cut.                                  *)
ByteUncut(n, i) == n \div Pow[i]

Byte(n, i) == (n \div Pow[i]) % Base

(* given[e] is stored at element e of a member of width w at offset o.     *)
Poke(bytes, o, w, given) ==
  [i \in DOMAIN bytes |->
     IF \E e \in DOMAIN given : i \in o + e * w .. o + (e + 1) * w - 1
     THEN LET e == (i - o) \div w IN Byte(given[e], i - o - e * w)
     ELSE bytes[i]]

(* The number that the bytes of an element are, the sign set aside.        *)
Number(bytes, o, w) ==
  LET n[i \in 0..w] == IF i = 0 THEN 0 ELSE Base * n[i - 1] + bytes[o + w - i]
  IN  n[w]

(* Mutant of Peek: the sign is lost.                                       *)
PeekUnsigned(bytes, o, t) == Number(bytes, o, t.width)

Peek(bytes, o, t) ==
  LET negative == t.signed /\ 2 * bytes[o + t.width - 1] >= Base
  IN  Number(bytes, o, t.width) - IF negative THEN Pow[t.width] ELSE 0

Element(r, k, e) ==
  LET t == members[k].type IN Peek(object[r].bytes, members[k].offset + e * t.width, t)

Indexes(k) == 0..members[k].type.count - 1

Live(r) == r \in DOMAIN object
Member(k) == k \in DOMAIN members /\ members[k].name # Pad
IsKind(k, kinds) == members[k].type.kind \in kinds

-----------------------------------------------------------------------------
(* Objects                                                                 *)

(* The accessors are written so that the index is checked by their callers *)
(* here: a store to an index that the member does not have strays.         *)
Stored(r, k, o, given) ==
  /\ stores < MaxStore
  /\ stores' = stores + 1
  /\ object' = [object EXCEPT ![r].bytes = Poke(@, o, members[k].type.width, given)]
  /\ strayed' = IF DOMAIN given \subseteq Indexes(k) THEN {} ELSE {"store"}
  /\ event' = [call |-> "set", rec |-> r, member |-> k, given |-> given]
  /\ UNCHANGED <<layoutVars, shared>>

Asked(r, k, e, a) ==
  /\ event' = [call |-> "get", rec |-> r, member |-> k, index |-> e, answer |-> a]
  /\ UNCHANGED <<layoutVars, object, strings, stores, shared>>

Made(r, o) == object' = [q \in DOMAIN object \cup {r} |-> IF q = r THEN o ELSE object[q]]

(* new: a string of zeros, blessed.  Arguments are calls of the accessors. *)
New(r) ==
  /\ phase \in {"defined", "broken"}
  /\ ~ Live(r)
  /\ Made(r, [bytes |-> [i \in 0..offset - 1 |-> 0], ro |-> FALSE])
  /\ event' = [call |-> "new", rec |-> r]
  /\ strayed' = {}
  /\ UNCHANGED <<layoutVars, strings, stores, shared, corrupt>>

(* A member that is not an array is given a number, or an address.         *)
SetScalar(r, k, v) ==
  /\ Live(r) /\ Member(k)
  /\ IsKind(k, {"number", "opaque"}) /\ ~ members[k].type.array
  /\ ~ object[r].ro
  /\ Stored(r, k, members[k].offset, [e \in {0} |-> v])
  /\ UNCHANGED <<strings, corrupt>>

(* Mutant of SetElement: the bound of the index is one too far.            *)
SetElementPast(r, k, e, v) ==
  /\ Live(r) /\ Member(k) /\ members[k].type.array
  /\ ~ object[r].ro
  /\ e >= 0 /\ e <= members[k].type.count
  /\ Stored(r, k, members[k].offset, [x \in {e} |-> v])
  /\ UNCHANGED <<strings, corrupt>>

(* One element of an array; another index only gets a warning.             *)
SetElement(r, k, e, v) ==
  /\ Live(r) /\ Member(k) /\ members[k].type.array
  /\ ~ object[r].ro
  /\ e >= 0 /\ e < members[k].type.count
  /\ Stored(r, k, members[k].offset, [x \in {e} |-> v])
  /\ UNCHANGED <<strings, corrupt>>

(* The whole array: what the list lacks is 0, what it has too much is cut. *)
SetList(r, k, list) ==
  /\ Live(r) /\ Member(k) /\ members[k].type.array
  /\ ~ object[r].ro
  /\ Stored(r, k, members[k].offset,
            [e \in Indexes(k) |-> IF e < Len(list) THEN list[e + 1] ELSE 0])
  /\ UNCHANGED <<strings, corrupt>>

(* A fixed string: a longer text is cut, a shorter one leaves the rest.    *)
SetFixed(r, k, text) ==
  /\ Live(r) /\ Member(k) /\ IsKind(k, {"fixed"})
  /\ ~ object[r].ro
  /\ Stored(r, k, members[k].offset,
            [e \in {x \in Indexes(k) : x < Len(text)} |-> text[e + 1]])
  /\ UNCHANGED <<strings, corrupt>>

(* Mutant of SetString: malloc in place of realloc.                        *)
SetStringFresh(r, k, new) ==
  /\ Live(r) /\ Member(k) /\ IsKind(k, {"string_rw"})
  /\ ~ object[r].ro
  /\ new \notin strings
  /\ strings' = strings \cup {new}
  /\ Stored(r, k, members[k].offset, [e \in {0} |-> new])
  /\ UNCHANGED corrupt

(* realloc: the string moves, or grows in place.                           *)
SetString(r, k, new) ==
  /\ Live(r) /\ Member(k) /\ IsKind(k, {"string_rw"})
  /\ ~ object[r].ro
  /\ LET old == Element(r, k, 0)
     IN  /\ new \notin strings \ {old}
         /\ strings' = (strings \ {old}) \cup {new}
         /\ corrupt' = (corrupt \/ old \notin strings \cup {0})
  /\ Stored(r, k, members[k].offset, [e \in {0} |-> new])

UnsetString(r, k) ==
  /\ Live(r) /\ Member(k) /\ IsKind(k, {"string_rw"})
  /\ ~ object[r].ro
  /\ LET old == Element(r, k, 0)
     IN  /\ strings' = strings \ {old}
         /\ corrupt' = (corrupt \/ old \notin strings \cup {0})
  /\ Stored(r, k, members[k].offset, [e \in {0} |-> 0])

(* The value of a member, or all elements of it, of which one is looked at *)
Get(r, k, e) ==
  /\ Live(r) /\ Member(k) /\ e \in Indexes(k)
  /\ Asked(r, k, e, Element(r, k, e))
  /\ strayed' = {} /\ UNCHANGED corrupt

(* One element of an array of numbers is asked for.                        *)
GetElement(r, k, e) ==
  /\ Live(r) /\ Member(k) /\ members[k].type.array /\ IsKind(k, {"number"})
  /\ ~ object[r].ro
  /\ Asked(r, k, e, IF e >= 0 /\ e < members[k].type.count THEN Element(r, k, e) ELSE None)
  /\ strayed' = {} /\ UNCHANGED corrupt

(* One element of an array of addresses: the test for an illegal index     *)
(* (i < 0 && i >= count) is never true.                                    *)
GetAddress(r, k, e) ==
  /\ Live(r) /\ Member(k) /\ members[k].type.array /\ IsKind(k, {"opaque"})
  /\ ~ object[r].ro
  /\ IF e < 0 /\ e >= members[k].type.count
     THEN Asked(r, k, e, None) /\ strayed' = {}
     ELSE IF e \in Indexes(k)
     THEN Asked(r, k, e, Element(r, k, e)) /\ strayed' = {}
     ELSE \E a \in Value : Asked(r, k, e, a) /\ strayed' = {"address"}
  /\ UNCHANGED corrupt

Nothing(call) ==
  /\ event' = [call |-> call]
  /\ UNCHANGED <<layoutVars, object, strings, stores, shared, corrupt>>

(* "record is read-only", also for one element of an array that is only    *)
(* read; "member is read only"; undef for a fixed string.                  *)
Refused(r, k) ==
  /\ Live(r) /\ Member(k)
  /\ object[r].ro \/ IsKind(k, {"string_ro", "fixed"})
  /\ Nothing("refused")
  /\ strayed' = {}

(* An accessor called on undef: "Null record error", for which the arrays  *)
(* of numbers have no test.                                                *)
NullRecord(k) ==
  /\ phase \in {"defined", "broken"} /\ Member(k)
  /\ Nothing("null")
  /\ strayed' = IF members[k].type.array /\ IsKind(k, {"number"})
                THEN {"null"} ELSE {}

(* C has the address of the bytes, and stores where its compiler put the   *)
(* member, padding that is named included.                                 *)
CStore(r, k, e, v) ==
  /\ Live(r) /\ k \in DOMAIN members /\ ~ IsKind(k, {"string_rw"}) /\ e \in Indexes(k)
  /\ Stored(r, k, compiled[k], [x \in {e} |-> v])
  /\ UNCHANGED <<strings, corrupt>>

(* libffi copies the bytes of a record that is passed by value, and those  *)
(* of one that is returned into a buffer of the size that Perl knows.      *)
Overrun == IF LibffiSize(elements) > offset THEN {"padding"} ELSE {}

PassByValue(r) ==
  /\ phase = "defined" /\ Live(r)
  /\ Nothing("passed")
  /\ strayed' = Overrun

HasString(b) ==
  \E k \in DOMAIN members :
    IsKind(k, {"string_rw"}) /\ members[k].name # Pad
      /\ Peek(b, members[k].offset, members[k].type) # 0

Copied(r, from, ro) ==
  /\ phase = "defined" /\ Live(from) /\ ~ Live(r)
  /\ Made(r, [bytes |-> object[from].bytes, ro |-> ro])
  /\ event' = [call |-> "copy", rec |-> r, from |-> from]
  /\ shared' = (shared \/ (~ ro /\ HasString(object[from].bytes)))
  /\ UNCHANGED <<layoutVars, strings, stores, corrupt>>

(* C returns the record that it was given.                                 *)
ReturnCopy(r, from) == Copied(r, from, FALSE) /\ strayed' = Overrun

(* C passes it to a closure, where it is read-only.                        *)
ClosureCopy(r, from) == Copied(r, from, TRUE) /\ strayed' = {}

Owned(r) ==
  {Element(r, k, 0) : k \in {j \in DOMAIN members : Member(j) /\ IsKind(j, {"string_rw"})}} \ {0}

(* DESTROY unsets the rw strings of an object that is not read-only.       *)
Freeing(r) == IF phase = "defined" /\ ~ object[r].ro THEN Owned(r) ELSE {}

Destroy(r) ==
  /\ Live(r)
  /\ strings' = strings \ Freeing(r)
  /\ corrupt' = (corrupt \/ ~ Freeing(r) \subseteq strings)
  /\ object' = [q \in DOMAIN object \ {r} |-> object[q]]
  /\ event' = [call |-> "destroy", rec |-> r]
  /\ strayed' = {}
  /\ UNCHANGED <<layoutVars, stores, shared>>

-----------------------------------------------------------------------------
Layout == (\E d \in Decl : RecordLayout(d)) \/ AddMember \/ MemberRefused \/ Finish

Accessor(r, k) ==
  \/ \E v \in Value : SetScalar(r, k, v)
  \/ \E e \in Index, v \in Value : SetElement(r, k, e, v)
  \/ \E list \in Text : SetList(r, k, list) \/ SetFixed(r, k, list)
  \/ \E new \in String : SetString(r, k, new)
  \/ UnsetString(r, k)
  \/ \E e \in Index : Get(r, k, e) \/ GetElement(r, k, e) \/ GetAddress(r, k, e)
  \/ Refused(r, k)
  \/ NullRecord(k)

Native(r, k) == \E e \in Index, v \in Value : CStore(r, k, e, v)

Whole(r) ==
  \/ New(r) \/ PassByValue(r) \/ Destroy(r)
  \/ \E from \in Rec : ReturnCopy(r, from) \/ ClosureCopy(r, from)

Next ==
  \/ Layout
  \/ \E r \in Rec : Whole(r)
  \/ \E r \in Rec : \E k \in DOMAIN members : Accessor(r, k) \/ Native(r, k)

Spec == Init /\ [][Next]_vars

-----------------------------------------------------------------------------
(* Properties                                                              *)

(* The variables have their types: bytes are bytes, and an object has as   *)
(* many as its class has.                                                  *)
TypeOK ==
  /\ phase \in {"none", "members", "failed", "defined", "broken"}
  /\ members \in Seq([name : STRING, type : Type, offset : Nat])
  /\ elements \in Seq(Type) /\ rest \in Seq([name : STRING, type : Type])
  /\ offset \in Nat /\ align \in Nat /\ methods \subseteq STRING
  /\ DOMAIN object \subseteq Rec
  /\ \A r \in DOMAIN object : object[r] \in [bytes : [0..offset - 1 -> 0..Base - 1], ro : BOOLEAN]
  /\ strings \subseteq String

(* The members of a class are where the C compiler puts them.              *)
OffsetsAgree == \A k \in DOMAIN members : members[k].offset = compiled[k]

(* The first element of each member, and the one after the last.           *)
FirstOf(ms) ==
  LET first[k \in 0..Len(ms)] == IF k = 0 THEN 1 ELSE first[k - 1] + ms[k].type.count
  IN  first

(* libffi, which is told the element types one by one, finds each member   *)
(* at its first element, and comes to the size and the alignment of the    *)
(* struct of C.                                                            *)
LibffiAgrees ==
  phase = "defined" =>
    LET first == FirstOf(members)
        end == LibffiEnd(elements)
    IN  /\ first[Len(members)] = Len(elements) + 1
        /\ \A k \in DOMAIN members :
             end[first[k - 1]] = compiled[k] + members[k].type.width
        /\ LibffiAlign(elements) = align
        /\ members # << >> => LibffiSize(elements) = CAligned(CEnd, align)

(* Members do not overlap, and all are inside the bytes of an object.      *)
MembersApart ==
  \A k \in DOMAIN members :
    /\ members[k].offset + SizeOf(members[k].type) <= offset
    /\ \A j \in DOMAIN members : j < k =>
         members[j].offset + SizeOf(members[j].type) <= members[k].offset

(* The layout of a class is that of the C compiler, at every step of its   *)
(* making and whichever layouts were refused before.                       *)
LayoutOfC == OffsetsAgree /\ MembersApart

(* An index that an array of addresses does not have is refused, as the    *)
(* warning of its accessor says (violated: the test joins the two bounds   *)
(* with "and").                                                            *)
IndexRefused == "address" \notin strayed

(* A byte of an object changes only when a call stores to the member that  *)
(* it belongs to, whether Perl or C makes the call.                        *)
StoresConfined ==
  [][\A r \in DOMAIN object \cap DOMAIN object' :
       \A i \in 0..offset - 1 : object'[r].bytes[i] # object[r].bytes[i] =>
         /\ event'.call = "set" /\ event'.rec = r
         /\ LET m == members[event'.member]
            IN  i \in m.offset .. m.offset + SizeOf(m.type) - 1]_vars

(* Every heap string belongs to an object that will free it, and none is   *)
(* freed or reallocated twice, as long as C has not returned a copy of a   *)
(* record that has rw strings: the copies that closures get are read-only  *)
(* and do not free what they point to.  A class that broke has no DESTROY, *)
(* so its objects leave their strings behind.                              *)
StringsOwned ==
  ~ shared =>
    /\ ~ corrupt
    /\ phase = "defined" =>
         strings = UNION {Owned(r) : r \in {o \in DOMAIN object : ~ object[o].ro}}

(* The objects are C structs: members are variables of their own, of the   *)
(* width and sign of their type, whoever stores, see Struct.               *)
ShapeOf ==
  [k \in DOMAIN members |->
     LET t == members[k].type
     IN  [count |-> t.count, width |-> t.width, signed |-> t.signed,
          loose |-> t.array /\ t.kind = "opaque"]]

S == INSTANCE Struct WITH
  shape <- IF phase \in {"defined", "broken"} THEN ShapeOf ELSE << >>,
  value <- [r \in DOMAIN object |-> [k \in DOMAIN members |->
                                      [e \in Indexes(k) |-> Element(r, k, e)]]]

IsStruct == S!Spec

=============================================================================
