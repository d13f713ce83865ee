------------------------------ MODULE TypeParser ------------------------------
(***************************************************************************)
(* The types of one FFI::Platypus object.                                  *)
(*                                                                         *)
(* The type parser files the types it makes under the names they were      *)
(* mentioned by, and finds them there the next time.  Unadorned names of   *)
(* the language plugin are filed too, as are aliases and custom types.     *)
(* What the file holds is all that keeps a type: functions and closure     *)
(* types have plain pointers to the types of their arguments.  Basic types *)
(* and pointers to them belong to the process and are never freed.         *)
(*                                                                         *)
(* The language and the abi may change between any two mentions.           *)
(***************************************************************************)
EXTENDS Naturals, FiniteSets

CONSTANTS
  Basic,       (* basic types                                              *)
  Word,        (* names that are not basic: of languages, and aliases      *)
  Mentioned,   (* the names of types that the program mentions             *)
  Member,      (* those of members of its record classes                   *)
  Alias,       (* the words that the program makes aliases of              *)
  Lang,        (* languages                                                *)
  DefaultLang, (* C                                                        *)
  NativeMap,   (* the basic type that a language makes of a word, or None  *)
  LangAbi,     (* the abi that a language sets, or None                    *)
  Abi,         (* calling conventions                                      *)
  DefaultAbi,
  None,
  Version,     (* of the type parser: 1 or 2                               *)
  MaxType,     (* bound on the types allocated at a time                   *)
  MaxFunction  (* bound on the functions that exist at a time              *)

(* The forms a type name may have, with the unit u:                        *)
(*   plain    u        pointer  u *       array    u[10]                   *)
(*   spaced   u [10], which is another name than u[10]                     *)
(*   open     u[]      closure  (u)->void                                  *)
(*   record   record(u)*                  fixed    string(u)               *)
(*   window   string(u) *                                                  *)
Form == {"plain", "pointer", "array", "spaced", "open", "closure", "record",
         "fixed", "window"}
Name == [form : Form, unit : Basic \cup Word]
Plain(u) == [form |-> "plain", unit |-> u]

ASSUME TypeParserAssumption ==
  /\ Basic \cap Word = {}
  /\ None \notin Basic \cup Word \cup Abi
  /\ Mentioned \subseteq Name /\ Member \subseteq Name
  /\ Alias \subseteq Word
  /\ DefaultLang \in Lang
  /\ NativeMap \in [Lang -> [Word -> Basic \cup {None}]]
  /\ LangAbi \in [Lang -> Abi \cup {None}]
  /\ DefaultAbi \in Abi
  /\ Version \in {1, 2}
  /\ MaxType \in Nat /\ MaxFunction \in Nat

VARIABLES
  types,    (* $self->{types}: the type filed under each name, or NoType   *)
  lang,     (* $ffi->{lang}, whose map is $self->{type_map}                *)
  abi,      (* $ffi->{abi} and $self->{abi}                                *)
  functions (* the types that functions point at                           *)

vars == <<types, lang, abi, functions>>

(* Types.  `id' tells apart the types that were allocated; 0 is a type of  *)
(* the process.  `inner' is the type a closure type points at.             *)
Type == [kind : {"basic", "pointer", "array", "open", "closure", "record", "custom"},
         unit : Basic \cup Word, abi : Abi \cup {None}, inner : 0..MaxType, id : 0..MaxType]
NoType == [kind |-> "none"]

Global(kind, b) == [kind |-> kind, unit |-> b, abi |-> None, inner |-> 0, id |-> 0]

TypeOK ==
  /\ types \in [Name -> Type \cup {NoType}]
  /\ lang \in Lang
  /\ abi \in Abi
  /\ functions \subseteq Type

Init ==
  /\ types = [n \in Name |-> NoType]
  /\ lang = DefaultLang
  /\ abi = DefaultAbi
  /\ functions = {}

-----------------------------------------------------------------------------
(* Allocation.                                                             *)

(* The types that are filed are those that are not freed.                  *)
Filed(ts) == {ts[n] : n \in {m \in Name : ts[m] # NoType}}

(* The ids in use, those that functions or closure types still point at    *)
(* included: a freed type and one allocated later are not the same.        *)
Taken(ts) == {t.id : t \in Filed(ts)} \cup {t.inner : t \in Filed(ts)}
             \cup {t.id : t \in functions} \cup {t.inner : t \in functions}
Room(ts) == \E i \in 1..MaxType : i \notin Taken(ts)
New(ts, kind, u, a, inner) ==
  [kind |-> kind, unit |-> u, abi |-> a, inner |-> inner,
   id |-> CHOOSE i \in 1..MaxType : i \notin Taken(ts)]

-----------------------------------------------------------------------------
(* parse: what it returns, and what it leaves filed.  It raises an         *)
(* exception after some types were filed.                                  *)

Got(t, ts) == [type |-> t, types |-> ts]
Refused(ts) == Got(NoType, ts)
Put(ts, n, t) == [ts EXCEPT ![n] = t]
GotFiled(ts, n, t) == Got(t, Put(ts, n, t))
Cached(ts, n) == ts[n] # NoType

(* Mutant of ParsePlain: the language is asked every time.                 *)
ParsePlainAfresh(ts, u) ==
  LET n == Plain(u) IN
  IF u \in Basic THEN Got(Global("basic", u), ts)
  ELSE IF NativeMap[lang][u] # None
       THEN GotFiled(ts, n, Global("basic", NativeMap[lang][u]))
  ELSE IF Cached(ts, n) THEN Got(ts[n], ts)
  ELSE Refused(ts)

ParsePlain(ts, u) ==
  LET n == Plain(u) IN
  IF Cached(ts, n) THEN Got(ts[n], ts)
  ELSE IF u \in Basic THEN Got(Global("basic", u), ts)
  ELSE IF NativeMap[lang][u] # None
       THEN GotFiled(ts, n, Global("basic", NativeMap[lang][u]))
  ELSE Refused(ts)

(* A pointer to a basic type, or an array of them.                         *)
ParseOfBasic(ts, form, b) ==
  LET n == [form |-> form, unit |-> b] IN
  IF Cached(ts, n) THEN Got(ts[n], ts)
  ELSE IF form = "pointer" THEN GotFiled(ts, n, Global("pointer", b))
  ELSE IF form = "open" THEN Got(Global("open", b), ts)
  ELSE GotFiled(ts, n, New(ts, "array", b, None, 0))

(* The name that a pointer or array has, spelled for the basic type.       *)
Spelled(form) == IF form = "array" THEN "spaced" ELSE form

(* The basic type that is meant: the one of the language first, then that  *)
(* of an alias.  A pointer to an alias of a record class, which is a new   *)
(* record type, is left out: ParseOf refuses it.                           *)
UnitOf(ts, u) ==
  IF NativeMap[lang][u] # None THEN Got(Global("basic", NativeMap[lang][u]), ts)
  ELSE ParsePlain(ts, u)

ParseOf(ts, form, u) ==
  LET n == [form |-> form, unit |-> u]
      unit == UnitOf(ts, u)
      made == ParseOfBasic(unit.types, Spelled(form), unit.type.unit)
  IN  IF Cached(ts, n) THEN Got(ts[n], ts)
      ELSE IF u \in Basic THEN ParseOfBasic(ts, form, u)
      ELSE IF unit.type.kind # "basic" THEN Refused(unit.types)
      ELSE GotFiled(made.types, n, made.type)

ParseClosure(ts, u) ==
  LET n == [form |-> "closure", unit |-> u]
      arg == ParsePlain(ts, u)
  IN  IF Cached(ts, n) THEN Got(ts[n], ts)
      ELSE IF arg.type.kind \notin {"basic", "record"} THEN Refused(arg.types)
      ELSE GotFiled(arg.types, n, New(arg.types, "closure", u, abi, arg.type.id))

(* A type that is made from nothing else, filed under the name `n'.        *)
(* Mutant of ParseRecord: it is made at every mention.                     *)
ParseRecordAfresh(ts, n) == GotFiled(ts, n, New(ts, "record", n.unit, None, 0))

ParseRecord(ts, n) ==
  IF Cached(ts, n) THEN Got(ts[n], ts)
  ELSE GotFiled(ts, n, New(ts, "record", n.unit, None, 0))

(* A fixed string is filed under the name of a pointer to it.              *)
FileFixed(ts, u) ==
  GotFiled(ts, [form |-> "window", unit |-> u], New(ts, "record", u, None, 0))

ParseFixed(ts, u) == IF Version = 1 THEN Refused(ts) ELSE FileFixed(ts, u)

Parse(ts, n) ==
  CASE n.form = "plain" -> ParsePlain(ts, n.unit)
    [] n.form \in {"pointer", "array", "spaced", "open"} -> ParseOf(ts, n.form, n.unit)
    [] n.form = "closure" -> ParseClosure(ts, n.unit)
    [] n.form \in {"record", "window"} -> ParseRecord(ts, n)
    [] n.form = "fixed" -> ParseFixed(ts, n.unit)

(* With the option `member', which is for the members of record classes,   *)
(* fixed strings are parsed in either version.                             *)
ParseMember(ts, n) ==
  IF n.form = "fixed" THEN FileFixed(ts, n.unit) ELSE Parse(ts, n)

-----------------------------------------------------------------------------
(* The methods of FFI::Platypus that mention types.                        *)

(* type, with one argument; also any other method that parses a type.      *)
Mention(n) ==
  /\ Room(types)
  /\ types' = Parse(types, n).types
  /\ UNCHANGED <<lang, abi, functions>>

(* record_layout_1 of a class, for one of its members.                     *)
RecordMember(n) ==
  /\ Room(types)
  /\ types' = ParseMember(types, n).types
  /\ UNCHANGED <<lang, abi, functions>>

(* An alias must not be the name of a type.                                *)
(* Mutant of CheckAlias: only the language's names are looked at.          *)
CheckAliasNative(w) == NativeMap[lang][w] = None

CheckAlias(w) ==
  /\ NativeMap[lang][w] = None
  /\ ~ Cached(types, Plain(w))

SetAlias(n, w) ==
  /\ Room(types)
  /\ CheckAlias(w)
  /\ LET r == Parse(types, n)
     IN  types' = IF r.type = NoType THEN r.types ELSE Put(r.types, Plain(w), r.type)
  /\ UNCHANGED <<lang, abi, functions>>

Customizable(t) == t.kind \in {"basic", "record"}

(* The handlers go with the type and the basis is copied.                  *)
CustomType(n, w) ==
  /\ CheckAlias(w)
  /\ LET r == Parse(types, n)
         t == New(r.types, "custom", w, None, 0)
     IN  /\ Room(types) /\ Room(r.types)
         /\ types' = IF Customizable(r.type) THEN Put(r.types, Plain(w), t) ELSE r.types
  /\ UNCHANGED <<lang, abi, functions>>

SetLang(l) ==
  /\ l # lang
  /\ lang' = l
  /\ abi' = IF LangAbi[l] = None THEN abi ELSE LangAbi[l]
  /\ UNCHANGED <<types, functions>>

SetAbi(a) ==
  /\ abi' = a
  /\ UNCHANGED <<types, lang, functions>>

(* A function whose argument has the type `n'.                             *)
(* Mutant of Function: an unknown type does not stop it.                   *)
FunctionUnknown(n) ==
  /\ Room(types)
  /\ Cardinality(functions) < MaxFunction
  /\ LET r == Parse(types, n)
     IN  /\ types' = r.types
         /\ functions' = functions \cup {r.type}
  /\ UNCHANGED <<lang, abi>>

Function(n) ==
  /\ Room(types)
  /\ Cardinality(functions) < MaxFunction
  /\ LET r == Parse(types, n)
     IN  /\ types' = r.types
         /\ functions' = IF r.type = NoType THEN functions
                         ELSE functions \cup {r.type}
  /\ UNCHANGED <<lang, abi>>

DropFunction(t) ==
  /\ functions' = functions \ {t}
  /\ UNCHANGED <<types, lang, abi>>

Next ==
  \/ \E n \in Mentioned : Mention(n) \/ Function(n)
  \/ \E n \in Member : RecordMember(n)
  \/ \E n \in Mentioned, w \in Alias : SetAlias(n, w) \/ CustomType(n, w)
  \/ \E l \in Lang : SetLang(l)
  \/ \E a \in Abi : SetAbi(a)
  \/ \E t \in functions : DropFunction(t)

Spec == Init /\ [][Next]_vars

-----------------------------------------------------------------------------
(* Properties.                                                             *)

Allocated(ts) == {0} \cup {t.id : t \in Filed(ts)}

(* The types that functions and closure types point at are not freed, as   *)
(* long as the object lives: the parser keeps what was mentioned.          *)
TypesOutlive ==
  /\ \A t \in functions : {t.id, t.inner} \subseteq Allocated(types)
  /\ \A t \in Filed(types) : t.inner \in Allocated(types)

(* A name means the same type for ever once it was mentioned, aliases and  *)
(* custom types included.                                                  *)
NamesStable ==
  [][\A n \in Name : types[n] # NoType => types'[n] = types[n]]_vars

(* A word and the pointers and arrays of it are of the same basic type, in *)
(* whatever order they were mentioned, made aliases of, and languages set. *)
(* They differ only where the program uses a language that has the word,   *)
(* and then the pointer or array is of the type of that language: it is    *)
(* the plain word that may be an alias made while another language was     *)
(* set, or have its meaning from there.                                    *)
UnitsAgree ==
  \A w \in Word, form \in {"pointer", "array", "spaced", "open"} :
    LET unit == types[Plain(w)]
        made == types[[form |-> form, unit |-> w]]
    IN  unit # NoType /\ made # NoType =>
          \/ unit.kind = "basic" /\ unit.unit = made.unit
          \/ \E l \in Lang : NativeMap[l][w] = made.unit
=============================================================================
