-------------------------- MODULE TypeParser_proofs --------------------------
(***************************************************************************)
(* Proofs about TypeParser: as long as no fixed string is parsed, types    *)
(* stay filed under their names, and so functions never point at a freed   *)
(* type.                                                                   *)
(***************************************************************************)
EXTENDS TypeParser, TLAPS

(* Version 1 refuses fixed strings, but for members of record classes.     *)
NoFixed ==
  /\ Version = 1 \/ \A n \in Mentioned : n.form # "fixed"
  /\ \A n \in Member : n.form # "fixed"

Table == [Name -> Type \cup {NoType}]

(* What is filed stays filed.                                              *)
Kept(ts, us) == \A n \in Name : ts[n] # NoType => us[n] = ts[n]

(* A basic type has the unit of one, and what a type points at is filed.   *)
HeldIn(ts, t) ==
  /\ {t.id, t.inner} \subseteq Allocated(ts)
  /\ t.kind = "basic" => t.unit \in Basic
Sound(ts) == \A n \in Name : ts[n] # NoType => HeldIn(ts, ts[n])

(* What parsing promises: the types it had are kept, the result is held.   *)
Good(ts, r) ==
  /\ r.types \in Table
  /\ Kept(ts, r.types)
  /\ Sound(r.types)
  /\ r.type \in Type \cup {NoType}
  /\ r.type # NoType => HeldIn(r.types, r.type)

IInv ==
  /\ TypeOK
  /\ Sound(types)
  /\ \A t \in functions : HeldIn(types, t)

-----------------------------------------------------------------------------
(* Types.                                                                  *)

(* A type is told apart from the lack of one.                              *)
LEMMA NoTypeIsNone == NoType \notin Type
<1> SUFFICES ASSUME NoType \in Type PROVE FALSE
  OBVIOUS
<1>1. DOMAIN NoType = {"kind"}
  BY DEF NoType
<1>2. "id" \in DOMAIN NoType
  BY DEF Type
<1> QED
  BY <1>1, <1>2

(* The types of the process.                                               *)
LEMMA GlobalFacts ==
  ASSUME NEW kind \in {"basic", "pointer", "open"}, NEW b \in Basic
  PROVE  /\ Global(kind, b) \in Type
         /\ Global(kind, b).id = 0 /\ Global(kind, b).inner = 0
         /\ Global(kind, b).unit = b /\ Global(kind, b).kind = kind
BY TypeParserAssumption DEF Global, Type

(* A type that is allocated.                                               *)
LEMMA NewFacts ==
  ASSUME NEW ts, Room(ts),
         NEW kind \in {"array", "closure", "record", "custom"}, NEW u \in Basic \cup Word,
         NEW a \in Abi \cup {None}, NEW inner \in 0..MaxType
  PROVE  /\ New(ts, kind, u, a, inner) \in Type
         /\ New(ts, kind, u, a, inner).inner = inner
         /\ New(ts, kind, u, a, inner).kind = kind
<1> DEFINE i == CHOOSE j \in 1..MaxType : j \notin Taken(ts)
<1>1. i \in 1..MaxType
  BY DEF Room
<1>2. i \in 0..MaxType
  BY <1>1, TypeParserAssumption
<1> HIDE DEF i
<1>3. New(ts, kind, u, a, inner) =
        [kind |-> kind, unit |-> u, abi |-> a, inner |-> inner, id |-> i]
  BY DEF New, i
<1> QED
  BY <1>2, <1>3 DEF Type

(* A type that is filed is allocated.                                      *)
LEMMA FiledAllocated ==
  ASSUME NEW ts, NEW n \in Name, ts[n] # NoType
  PROVE  ts[n].id \in Allocated(ts)
BY DEF Allocated, Filed

(* What is kept stays allocated.                                           *)
LEMMA KeptAllocated ==
  ASSUME NEW ts, NEW us, Kept(ts, us)
  PROVE  Allocated(ts) \subseteq Allocated(us)
<1> SUFFICES ASSUME NEW i \in Allocated(ts), i # 0 PROVE i \in Allocated(us)
  BY DEF Allocated
<1>1. PICK n \in Name : ts[n] # NoType /\ i = ts[n].id
  BY DEF Allocated, Filed
<1>2. us[n] = ts[n]
  BY <1>1 DEF Kept
<1> QED
  BY <1>1, <1>2, FiledAllocated

LEMMA KeptHeld ==
  ASSUME NEW ts, NEW us, Kept(ts, us), NEW t, HeldIn(ts, t)
  PROVE  HeldIn(us, t)
BY KeptAllocated DEF HeldIn

-----------------------------------------------------------------------------
(* Filing.                                                                 *)

(* A type is filed under a name that is new since `ts'.                    *)
LEMMA GoodFiled ==
  ASSUME NEW ts \in Table, NEW us \in Table, Kept(ts, us), Sound(us),
         NEW n \in Name, us[n] = NoType, NEW t \in Type,
         t.inner \in Allocated(us), t.kind = "basic" => t.unit \in Basic
  PROVE  Good(ts, GotFiled(us, n, t))
<1> DEFINE r == GotFiled(us, n, t)
           vs == Put(us, n, t)
<1>1. r.types = vs /\ r.type = t
  BY DEF GotFiled, Got
<1>2. vs \in Table /\ vs[n] = t /\ \A m \in Name \ {n} : vs[m] = us[m]
  BY DEF Put, Table
<1> HIDE DEF r, vs
<1>3. t # NoType
  BY NoTypeIsNone
<1>4. Kept(us, vs)
  BY <1>2 DEF Kept
<1>5. Kept(ts, vs)
  BY <1>2, <1>4 DEF Kept
<1>6. HeldIn(vs, t)
  BY <1>2, <1>3, <1>4, FiledAllocated, KeptAllocated DEF HeldIn
<1>7. Sound(vs)
  <2> SUFFICES ASSUME NEW m \in Name, vs[m] # NoType PROVE HeldIn(vs, vs[m])
    BY DEF Sound
  <2>1. CASE m = n
    BY <2>1, <1>2, <1>6
  <2>2. CASE m # n
    <3>1. HeldIn(us, us[m])
      BY <2>2, <1>2 DEF Sound
    <3> QED
      BY <3>1, <2>2, <1>2, <1>4, KeptHeld
  <2> QED
    BY <2>1, <2>2
<1> QED
  BY <1>1, <1>2, <1>3, <1>5, <1>6, <1>7 DEF Good, r

(* A type that was filed is found.                                         *)
LEMMA GoodCached ==
  ASSUME NEW ts \in Table, Sound(ts), NEW n \in Name, Cached(ts, n)
  PROVE  Good(ts, Got(ts[n], ts))
BY DEF Good, Got, Kept, Sound, Cached, Table

(* A type of the process is returned, and is not filed.                    *)
LEMMA GoodGlobal ==
  ASSUME NEW ts \in Table, Sound(ts),
         NEW kind \in {"basic", "pointer", "open"}, NEW b \in Basic
  PROVE  Good(ts, Got(Global(kind, b), ts))
BY GlobalFacts DEF Good, Got, Kept, HeldIn, Allocated

LEMMA GoodRefused ==
  ASSUME NEW ts \in Table, NEW us \in Table, Kept(ts, us), Sound(us)
  PROVE  Good(ts, Refused(us))
BY DEF Good, Refused, Got

(* Filing a type of the process needs no room.                             *)
LEMMA RoomPut ==
  ASSUME NEW us \in Table, Room(us), NEW n \in Name, NEW t \in Type,
         t.id = 0, t.inner = 0
  PROVE  Room(Put(us, n, t))
<1> DEFINE vs == Put(us, n, t)
<1>1. vs[n] = t /\ \A m \in Name \ {n} : vs[m] = us[m]
  BY DEF Put, Table
<1> HIDE DEF vs
<1>2. Filed(vs) \subseteq Filed(us) \cup {t}
  BY <1>1 DEF Filed
<1>3. Taken(vs) \subseteq Taken(us) \cup {0}
  BY <1>2 DEF Taken
<1>4. PICK i \in 1..MaxType : i \notin Taken(us)
  BY DEF Room
<1>5. i # 0
  BY <1>4
<1> QED
  BY <1>3, <1>4, <1>5 DEF Room, vs

-----------------------------------------------------------------------------
(* Parsing.                                                                *)

(* What ParsePlain and UnitOf promise.                                     *)
GoodUnit(ts, u, r) ==
  /\ Good(ts, r)
  /\ Room(r.types)
  /\ \A m \in Name : m.form # "plain" => r.types[m] = ts[m]

(* The basic type that the language makes of a word is filed or returned.  *)
LEMMA NativeFacts ==
  ASSUME NEW u \in Word, NativeMap[lang][u] # None, lang \in Lang
  PROVE  NativeMap[lang][u] \in Basic
BY TypeParserAssumption

LEMMA PlainName ==
  ASSUME NEW u \in Basic \cup Word
  PROVE  Plain(u) \in Name /\ Plain(u).form = "plain"
BY DEF Plain, Name, Form

LEMMA PlainGood ==
  ASSUME NEW ts \in Table, Sound(ts), Room(ts), lang \in Lang, NEW u \in Basic \cup Word
  PROVE  GoodUnit(ts, u, ParsePlain(ts, u))
<1> DEFINE n == Plain(u)
           r == ParsePlain(ts, u)
<1>0. n \in Name /\ n.form = "plain"
  BY PlainName
<1>a. Kept(ts, ts)
  BY DEF Kept
<1> HIDE DEF n
<1>1. CASE Cached(ts, n)
  <2>1. r = Got(ts[n], ts)
    BY <1>1 DEF ParsePlain, n
  <2>2. Good(ts, r)
    BY <2>1, <1>0, <1>1, GoodCached
  <2> QED
    BY <2>1, <2>2 DEF GoodUnit, Got
<1>2. CASE ~ Cached(ts, n) /\ u \in Basic
  <2>1. r = Got(Global("basic", u), ts)
    BY <1>2 DEF ParsePlain, n
  <2>2. Good(ts, r)
    BY <2>1, <1>2, GoodGlobal
  <2> QED
    BY <2>1, <2>2 DEF GoodUnit, Got
<1>3. CASE ~ Cached(ts, n) /\ u \notin Basic /\ NativeMap[lang][u] # None
  <2> DEFINE t == Global("basic", NativeMap[lang][u])
  <2>1. r = GotFiled(ts, n, t)
    BY <1>3 DEF ParsePlain, n
  <2>2. NativeMap[lang][u] \in Basic
    BY <1>3, NativeFacts
  <2>3. t \in Type /\ t.id = 0 /\ t.inner = 0 /\ t.unit \in Basic
    BY <2>2, GlobalFacts
  <2> HIDE DEF t, r
  <2>4. 0 \in Allocated(ts)
    BY DEF Allocated
  <2>5. ts[n] = NoType
    BY <1>3 DEF Cached
  <2>6. Good(ts, r)
    BY <2>1, <2>3, <2>4, <2>5, <1>0, <1>a, GoodFiled
  <2>7. r.types = Put(ts, n, t)
    BY <2>1 DEF GotFiled, Got
  <2>8. Room(r.types)
    BY <2>3, <2>7, <1>0, RoomPut
  <2>9. \A m \in Name : m.form # "plain" => r.types[m] = ts[m]
    BY <2>7, <1>0 DEF Put, Table
  <2> QED
    BY <2>6, <2>8, <2>9 DEF GoodUnit, r
<1>4. CASE ~ Cached(ts, n) /\ u \notin Basic /\ NativeMap[lang][u] = None
  <2>1. r = Refused(ts)
    BY <1>4 DEF ParsePlain, n
  <2>2. Good(ts, r)
    BY <2>1, <1>a, GoodRefused
  <2> QED
    BY <2>1, <2>2 DEF GoodUnit, Refused, Got
<1> QED
  BY <1>1, <1>2, <1>3, <1>4

LEMMA UnitGood ==
  ASSUME NEW ts \in Table, Sound(ts), Room(ts), lang \in Lang, NEW u \in Word
  PROVE  GoodUnit(ts, u, UnitOf(ts, u))
<1>1. CASE NativeMap[lang][u] = None
  BY <1>1, PlainGood DEF UnitOf
<1>2. CASE NativeMap[lang][u] # None
  <2>1. UnitOf(ts, u) = Got(Global("basic", NativeMap[lang][u]), ts)
    BY <1>2 DEF UnitOf
  <2>2. Good(ts, UnitOf(ts, u))
    BY <2>1, <1>2, NativeFacts, GoodGlobal
  <2> QED
    BY <2>1, <2>2 DEF GoodUnit, Got
<1> QED
  BY <1>1, <1>2
-----------------------------------------------------------------------------
(* The two names that a pointer or array is filed under, of a word and of  *)
(* the basic type it is, are different.                                    *)
Derived == {"pointer", "array", "spaced", "open"}

LEMMA OfBasicGood ==
  ASSUME NEW ts \in Table, Sound(ts), Room(ts), NEW form \in Derived, NEW b \in Basic
  PROVE  LET r == ParseOfBasic(ts, form, b) IN
         /\ Good(ts, r)
         /\ r.type # NoType
         /\ \A m \in Name : m.unit # b => r.types[m] = ts[m]
<1> DEFINE n == [form |-> form, unit |-> b]
           r == ParseOfBasic(ts, form, b)
<1>0. n \in Name /\ n.unit = b
  BY DEF Name, Form, Derived
<1>a. Kept(ts, ts)
  BY DEF Kept
<1>b. 0 \in Allocated(ts)
  BY DEF Allocated
<1> DEFINE Only(s) == s.type # NoType /\ \A m \in Name : m.unit # b => s.types[m] = ts[m]
<1> SUFFICES Good(ts, r) /\ Only(r)
  OBVIOUS
<1>p. ASSUME NEW t, ts[n] = NoType, r = GotFiled(ts, n, t), t \in Type, t.inner = 0,
             t.kind = "basic" => t.unit \in Basic
      PROVE  Good(ts, r) /\ Only(r)
  <2> HIDE DEF n, r
  <2>1. Good(ts, r)
    BY <1>p, <1>0, <1>a, <1>b, GoodFiled
  <2>2. r.types = Put(ts, n, t) /\ r.type = t
    BY <1>p DEF GotFiled, Got
  <2>3. t # NoType
    BY <1>p, NoTypeIsNone
  <2> QED
    BY <2>1, <2>2, <2>3, <1>0 DEF Put, Table
<1>1. CASE Cached(ts, n)
  <2>1. r = Got(ts[n], ts)
    BY <1>1 DEF ParseOfBasic
  <2> HIDE DEF n, r
  <2>2. Good(ts, r)
    BY <2>1, <1>0, <1>1, GoodCached
  <2> QED
    BY <2>1, <2>2, <1>1 DEF Got, Cached
<1>2. CASE ~ Cached(ts, n) /\ form = "pointer"
  <2>1. r = GotFiled(ts, n, Global("pointer", b)) /\ ts[n] = NoType
    BY <1>2 DEF ParseOfBasic, Cached
  <2> QED
    BY <2>1, <1>p, GlobalFacts
<1>3. CASE ~ Cached(ts, n) /\ form = "open"
  <2>1. r = Got(Global("open", b), ts)
    BY <1>3 DEF ParseOfBasic
  <2> HIDE DEF n, r
  <2>2. Good(ts, r)
    BY <2>1, GoodGlobal
  <2> QED
    BY <2>1, <2>2, GlobalFacts, NoTypeIsNone DEF Got
<1>4. CASE ~ Cached(ts, n) /\ form \notin {"pointer", "open"}
  <2> DEFINE t == New(ts, "array", b, None, 0)
  <2>1. r = GotFiled(ts, n, t) /\ ts[n] = NoType
    BY <1>4 DEF ParseOfBasic, Cached
  <2>2. 0 \in 0..MaxType
    BY TypeParserAssumption
  <2>3. t \in Type /\ t.inner = 0 /\ t.kind = "array"
    BY <2>2, NewFacts
  <2> QED
    BY <2>1, <2>3, <1>p
<1> QED
  BY <1>1, <1>2, <1>3, <1>4

LEMMA KeptTransitive ==
  ASSUME NEW ts, NEW us, NEW vs, Kept(ts, us), Kept(us, vs)
  PROVE  Kept(ts, vs)
BY DEF Kept

LEMMA OfGood ==
  ASSUME NEW ts \in Table, Sound(ts), Room(ts), lang \in Lang,
         NEW form \in Derived, NEW u \in Basic \cup Word
  PROVE  Good(ts, ParseOf(ts, form, u))
<1> DEFINE n == [form |-> form, unit |-> u]
           unit == UnitOf(ts, u)
           made == ParseOfBasic(unit.types, Spelled(form), unit.type.unit)
           r == ParseOf(ts, form, u)
<1>0. n \in Name /\ n.form # "plain" /\ n.unit = u
  BY DEF Name, Form, Derived
<1>1. CASE Cached(ts, n)
  <2>1. r = Got(ts[n], ts)
    BY <1>1 DEF ParseOf
  <2> QED
    BY <2>1, <1>0, <1>1, GoodCached
<1>2. CASE ~ Cached(ts, n) /\ u \in Basic
  <2>1. r = ParseOfBasic(ts, form, u)
    BY <1>2 DEF ParseOf
  <2> QED
    BY <2>1, <1>2, OfBasicGood
<1>3. CASE ~ Cached(ts, n) /\ u \notin Basic
  <2>1. GoodUnit(ts, u, unit)
    BY <1>3, UnitGood
  <2>2. r = IF unit.type.kind # "basic" THEN Refused(unit.types)
            ELSE GotFiled(made.types, n, made.type)
    BY <1>3 DEF ParseOf
  <2>3. ts[n] = NoType
    BY <1>3 DEF Cached
  <2>4. unit.types[n] = NoType
    BY <2>1, <2>3, <1>0 DEF GoodUnit
  <2>5. Good(ts, unit) /\ Room(unit.types)
    BY <2>1 DEF GoodUnit
  <2>6. unit.types \in Table /\ Sound(unit.types) /\ Kept(ts, unit.types)
    BY <2>5 DEF Good
  <2>7. CASE unit.type.kind # "basic"
    BY <2>2, <2>6, <2>7, GoodRefused
  <2>8. CASE unit.type.kind = "basic"
    <3> DEFINE b == unit.type.unit
    <3>1. ASSUME unit.type = NoType PROVE Good(ts, r)
      BY <3>1, <2>8 DEF NoType
    <3>2. ASSUME unit.type # NoType PROVE Good(ts, r)
      <4>1. b \in Basic
        BY <3>2, <2>5, <2>8 DEF Good, HeldIn
      <4>2. Spelled(form) \in Derived
        BY DEF Spelled, Derived
      <4>3. made = ParseOfBasic(unit.types, Spelled(form), b)
        OBVIOUS
      <4>4. r = GotFiled(made.types, n, made.type)
        BY <2>2, <2>8
      <4> HIDE DEF made, n, r, unit
      <4>5. Good(unit.types, made) /\ made.type # NoType /\ \A m \in Name : m.unit # b => made.types[m] = unit.types[m]
        BY <4>1, <4>2, <4>3, <2>5, <2>6, OfBasicGood
      <4>6. made.types[n] = NoType
        BY <4>1, <4>5, <2>4, <1>0, <1>3
      <4>7. made.types \in Table /\ Sound(made.types) /\ Kept(ts, made.types)
        BY <4>5, <2>6, KeptTransitive DEF Good
      <4> QED
        BY <4>4, <4>5, <4>6, <4>7, <1>0, GoodFiled DEF Good, HeldIn
    <3> QED
      BY <3>1, <3>2
  <2> QED
    BY <2>7, <2>8
<1> QED
  BY <1>1, <1>2, <1>3
LEMMA ClosureGood ==
  ASSUME NEW ts \in Table, Sound(ts), Room(ts), lang \in Lang, abi \in Abi,
         NEW u \in Basic \cup Word
  PROVE  Good(ts, ParseClosure(ts, u))
<1> DEFINE n == [form |-> "closure", unit |-> u]
           arg == ParsePlain(ts, u)
           t == New(arg.types, "closure", u, abi, arg.type.id)
           r == ParseClosure(ts, u)
<1>0. n \in Name /\ n.form # "plain"
  BY DEF Name, Form
<1>1. GoodUnit(ts, u, arg)
  BY PlainGood
<1>2. arg.types \in Table /\ Sound(arg.types) /\ Kept(ts, arg.types) /\ Room(arg.types)
  BY <1>1 DEF GoodUnit, Good
<1>3. CASE Cached(ts, n)
  <2>1. r = Got(ts[n], ts)
    BY <1>3 DEF ParseClosure
  <2> QED
    BY <2>1, <1>0, <1>3, GoodCached
<1>4. CASE ~ Cached(ts, n) /\ arg.type.kind \notin {"basic", "record"}
  <2>1. r = Refused(arg.types)
    BY <1>4 DEF ParseClosure
  <2> QED
    BY <2>1, <1>2, GoodRefused
<1>5. CASE ~ Cached(ts, n) /\ arg.type.kind \in {"basic", "record"}
  <2>1. r = GotFiled(arg.types, n, t)
    BY <1>5 DEF ParseClosure
  <2>2. arg.type # NoType
    BY <1>5 DEF NoType
  <2>3. arg.type \in Type /\ arg.type.id \in Allocated(arg.types)
    BY <1>1, <2>2 DEF GoodUnit, Good, HeldIn
  <2>4. arg.type.id \in 0..MaxType
    BY <2>3 DEF Type
  <2>5. arg.types[n] = NoType
    BY <1>0, <1>1, <1>5 DEF GoodUnit, Cached
  <2>6. abi \in Abi \cup {None}
    OBVIOUS
  <2> HIDE DEF arg, n
  <2>7. t \in Type /\ t.inner = arg.type.id /\ t.kind = "closure"
    BY <1>2, <2>4, <2>6, NewFacts
  <2> HIDE DEF t
  <2> QED
    BY <2>1, <2>3, <2>5, <2>7, <1>0, <1>2, GoodFiled
<1> QED
  BY <1>3, <1>4, <1>5

LEMMA RecordGood ==
  ASSUME NEW ts \in Table, Sound(ts), Room(ts), NEW n \in Name
  PROVE  Good(ts, ParseRecord(ts, n))
<1>1. CASE Cached(ts, n)
  BY <1>1, GoodCached DEF ParseRecord
<1>2. CASE ~ Cached(ts, n)
  <2> DEFINE t == New(ts, "record", n.unit, None, 0)
  <2>1. n.unit \in Basic \cup Word /\ 0 \in 0..MaxType
    BY TypeParserAssumption DEF Name
  <2>2. t \in Type /\ t.inner = 0 /\ t.kind = "record"
    BY <2>1, NewFacts
  <2>3. ParseRecord(ts, n) = GotFiled(ts, n, t) /\ ts[n] = NoType
    BY <1>2 DEF ParseRecord, Cached
  <2> HIDE DEF t
  <2>4. 0 \in Allocated(ts) /\ Kept(ts, ts)
    BY DEF Allocated, Kept
  <2> QED
    BY <2>2, <2>3, <2>4, GoodFiled
<1> QED
  BY <1>1, <1>2

(* Whatever is parsed but a fixed string, the types that were filed are    *)
(* kept.                                                                   *)
LEMMA ParseGood ==
  ASSUME NoFixed, TypeOK, Sound(types), Room(types), NEW n \in Mentioned \cup Member
  PROVE  Good(types, Parse(types, n))
<1>1. types \in Table /\ lang \in Lang /\ abi \in Abi
  BY DEF TypeOK, Table
<1>2. n \in Name /\ n.form \in Form /\ n.unit \in Basic \cup Word
  BY TypeParserAssumption DEF Name
<1>3. CASE n.form = "plain"
  <2>1. Parse(types, n) = ParsePlain(types, n.unit)
    BY <1>3 DEF Parse
  <2> QED
    BY <2>1, <1>1, <1>2, PlainGood DEF GoodUnit
<1>4. CASE n.form \in Derived
  <2>1. Parse(types, n) = ParseOf(types, n.form, n.unit)
    BY <1>4 DEF Parse, Derived
  <2> QED
    BY <2>1, <1>1, <1>2, <1>4, OfGood
<1>5. CASE n.form = "closure"
  <2>1. Parse(types, n) = ParseClosure(types, n.unit)
    BY <1>5 DEF Parse
  <2> QED
    BY <2>1, <1>1, <1>2, ClosureGood
<1>6. CASE n.form \in {"record", "window"}
  <2>1. Parse(types, n) = ParseRecord(types, n)
    BY <1>6 DEF Parse
  <2> QED
    BY <2>1, <1>1, <1>2, RecordGood
<1>7. CASE n.form = "fixed"
  <2>1. Version = 1
    BY <1>7 DEF NoFixed
  <2>2. Parse(types, n) = ParseFixed(types, n.unit)
    BY <1>7 DEF Parse
  <2>3. Parse(types, n) = Refused(types)
    BY <2>1, <2>2 DEF ParseFixed
  <2>4. Kept(types, types)
    BY DEF Kept
  <2> QED
    BY <2>3, <2>4, <1>1, GoodRefused
<1> QED
  BY <1>2, <1>3, <1>4, <1>5, <1>6, <1>7 DEF Form, Derived

(* Parsing files nothing under a word that is not of the language.         *)
Unnamed(w) == NativeMap[lang][w] = None

LEMMA PutElsewhere ==
  ASSUME NEW ts \in Table, NEW n \in Name, NEW t, NEW m \in Name, n # m
  PROVE  GotFiled(ts, n, t).types[m] = ts[m]
BY DEF GotFiled, Got, Put, Table

LEMMA PlainFrame ==
  ASSUME NEW ts \in Table, NEW w \in Word, Unnamed(w), NEW u \in Basic \cup Word
  PROVE  ParsePlain(ts, u).types[Plain(w)] = ts[Plain(w)]
<1>1. Plain(u) \in Name /\ Plain(w) \in Name
  BY PlainName
<1>2. CASE u = w
  <2>1. ParsePlain(ts, u).types = ts
    BY <1>2 DEF ParsePlain, Unnamed, Got, Refused
  <2> QED
    BY <2>1
<1>3. CASE u # w
  <2>1. Plain(u) # Plain(w)
    BY <1>3 DEF Plain
  <2>2. GotFiled(ts, Plain(u), Global("basic", NativeMap[lang][u])).types[Plain(w)] = ts[Plain(w)]
    BY <1>1, <2>1, PutElsewhere
  <2> QED
    BY <2>2 DEF ParsePlain, Got, Refused
<1> QED
  BY <1>2, <1>3

LEMMA OfFrame ==
  ASSUME NEW ts \in Table, Sound(ts), Room(ts), lang \in Lang, NEW w \in Word, Unnamed(w),
         NEW form \in Derived, NEW u \in Basic \cup Word
  PROVE  ParseOf(ts, form, u).types[Plain(w)] = ts[Plain(w)]
<1>0. Plain(w) \in Name /\ Plain(w).form = "plain"
  BY PlainName
<1>1. ASSUME NEW us \in Table, NEW g \in Derived, NEW b \in Basic
      PROVE  ParseOfBasic(us, g, b).types[Plain(w)] = us[Plain(w)]
  <2> DEFINE n == [form |-> g, unit |-> b]
  <2>1. n \in Name /\ n # Plain(w)
    BY <1>0 DEF Name, Form, Derived
  <2>2. \A t : GotFiled(us, n, t).types[Plain(w)] = us[Plain(w)]
    BY <1>0, <2>1, PutElsewhere
  <2> HIDE DEF n
  <2>3. ParseOfBasic(us, g, b) =
          IF Cached(us, n) THEN Got(us[n], us)
          ELSE IF g = "pointer" THEN GotFiled(us, n, Global("pointer", b))
          ELSE IF g = "open" THEN Got(Global("open", b), us)
          ELSE GotFiled(us, n, New(us, "array", b, None, 0))
    BY DEF ParseOfBasic, n
  <2> QED
    BY <2>2, <2>3 DEF Got
<1> DEFINE n == [form |-> form, unit |-> u]
           unit == UnitOf(ts, u)
           made == ParseOfBasic(unit.types, Spelled(form), unit.type.unit)
           r == ParseOf(ts, form, u)
<1>2. n \in Name /\ n # Plain(w)
  BY <1>0 DEF Name, Form, Derived
<1>3. CASE Cached(ts, n)
  BY <1>3 DEF ParseOf, Got
<1>4. CASE ~ Cached(ts, n) /\ u \in Basic
  BY <1>4, <1>1 DEF ParseOf
<1>5. CASE ~ Cached(ts, n) /\ u \notin Basic
  <2>1. GoodUnit(ts, u, unit)
    BY <1>5, UnitGood
  <2>2. unit.types \in Table /\ Sound(unit.types) /\ Room(unit.types)
    BY <2>1 DEF GoodUnit, Good
  <2>3. unit.types[Plain(w)] = ts[Plain(w)]
    BY PlainFrame DEF UnitOf, Got
  <2>4. r = IF unit.type.kind # "basic" THEN Refused(unit.types)
            ELSE GotFiled(made.types, n, made.type)
    BY <1>5 DEF ParseOf
  <2>5. CASE unit.type.kind # "basic"
    BY <2>3, <2>4, <2>5 DEF Refused, Got
  <2>6. CASE unit.type.kind = "basic"
    <3>1. unit.type # NoType
      BY <2>6 DEF NoType
    <3>2. unit.type.unit \in Basic
      BY <2>1, <2>6, <3>1 DEF GoodUnit, Good, HeldIn
    <3>3. Spelled(form) \in Derived
      BY DEF Spelled, Derived
    <3>4. r = GotFiled(made.types, n, made.type)
      BY <2>4, <2>6
    <3>5. made.types[Plain(w)] = unit.types[Plain(w)]
      BY <1>1, <2>2, <3>2, <3>3
    <3>6. made.types \in Table
      BY <2>2, <3>2, <3>3, OfBasicGood DEF Good
    <3> HIDE DEF made, n, unit
    <3> QED
      BY <2>3, <3>4, <3>5, <3>6, <1>0, <1>2, PutElsewhere
  <2> QED
    BY <2>5, <2>6
<1> QED
  BY <1>3, <1>4, <1>5

LEMMA ParseFrame ==
  ASSUME NoFixed, TypeOK, Sound(types), Room(types), NEW n \in Mentioned \cup Member,
         NEW w \in Word, Unnamed(w)
  PROVE  Parse(types, n).types[Plain(w)] = types[Plain(w)]
<1>0. types \in Table /\ lang \in Lang /\ Plain(w) \in Name /\ Plain(w).form = "plain"
  BY PlainName DEF TypeOK, Table
<1>1. n \in Name /\ n.form \in Form /\ n.unit \in Basic \cup Word
  BY TypeParserAssumption DEF Name
<1>2. CASE n.form = "plain"
  BY <1>0, <1>1, <1>2, PlainFrame DEF Parse
<1>3. CASE n.form \in Derived
  <2>1. Parse(types, n) = ParseOf(types, n.form, n.unit)
    BY <1>3 DEF Parse, Derived
  <2> QED
    BY <2>1, <1>0, <1>1, <1>3, OfFrame
<1>4. CASE n.form = "closure"
  <2> DEFINE arg == ParsePlain(types, n.unit)
             m == [form |-> "closure", unit |-> n.unit]
  <2>1. Parse(types, n) = ParseClosure(types, n.unit)
    BY <1>4 DEF Parse
  <2>2. arg.types[Plain(w)] = types[Plain(w)]
    BY <1>0, <1>1, PlainFrame
  <2>3. arg.types \in Table
    BY <1>0, <1>1, PlainGood DEF GoodUnit, Good
  <2>4. m \in Name /\ m # Plain(w)
    BY <1>0, <1>1 DEF Name, Form
  <2>5. \A t : GotFiled(arg.types, m, t).types[Plain(w)] = types[Plain(w)]
    BY <1>0, <2>2, <2>3, <2>4, PutElsewhere
  <2> QED
    BY <2>1, <2>2, <2>5 DEF ParseClosure, Got, Refused
<1>5. CASE n.form \in {"record", "window"}
  <2>1. Parse(types, n) = ParseRecord(types, n)
    BY <1>5 DEF Parse
  <2>2. \A t : GotFiled(types, n, t).types[Plain(w)] = types[Plain(w)]
    BY <1>0, <1>1, <1>5, PutElsewhere
  <2> QED
    BY <2>1, <2>2 DEF ParseRecord, Got
<1>6. CASE n.form = "fixed"
  <2>1. Version = 1
    BY <1>6 DEF NoFixed
  <2>2. Parse(types, n) = ParseFixed(types, n.unit)
    BY <1>6 DEF Parse
  <2> QED
    BY <2>1, <2>2 DEF ParseFixed, Refused, Got
<1> QED
  BY <1>1, <1>2, <1>3, <1>4, <1>5, <1>6 DEF Form, Derived

-----------------------------------------------------------------------------
(* The steps.                                                              *)

(* A step that keeps what was filed, and adds no function but such as      *)
(* point at types that are filed.                                          *)
LEMMA KeptStep ==
  ASSUME IInv, types' \in Table, Kept(types, types'), Sound(types'), lang' \in Lang, abi' \in Abi,
         \A t \in functions' \ functions : t \in Type /\ HeldIn(types', t)
  PROVE  IInv' /\ Kept(types, types')
<1>1. TypeOK'
  BY DEF IInv, TypeOK, Table
<1>2. Sound(types)'
  BY DEF Sound, HeldIn, Allocated, Filed
<1>3. ASSUME NEW t \in functions' PROVE HeldIn(types', t)
  BY KeptHeld DEF IInv
<1>4. (\A t \in functions : HeldIn(types, t))'
  BY <1>3 DEF HeldIn, Allocated, Filed
<1> QED
  BY <1>1, <1>2, <1>4 DEF IInv

(* An alias or custom type is filed under a name that meant nothing.       *)
LEMMA AliasGood ==
  ASSUME NoFixed, IInv, Room(types), NEW n \in Mentioned, NEW w \in Word, CheckAlias(w),
         NEW r, r = Parse(types, n), NEW t \in Type,
         t.inner \in Allocated(r.types), t.kind = "basic" => t.unit \in Basic
  PROVE  /\ Put(r.types, Plain(w), t) \in Table
         /\ Kept(types, Put(r.types, Plain(w), t))
         /\ Sound(Put(r.types, Plain(w), t))
<1>1. Good(types, r)
  BY ParseGood DEF IInv
<1>2. types \in Table
  BY DEF IInv, TypeOK, Table
<1>3. Plain(w) \in Name
  BY PlainName
<1>4. r.types[Plain(w)] = NoType
  BY ParseFrame DEF IInv, CheckAlias, Cached, Unnamed
<1>5. Good(types, GotFiled(r.types, Plain(w), t))
  BY <1>1, <1>2, <1>3, <1>4, GoodFiled DEF Good
<1> QED
  BY <1>5 DEF Good, GotFiled, Got

(* The inductive invariant holds initially.                                *)
LEMMA InitInv == Init => IInv
<1> SUFFICES ASSUME Init PROVE IInv
  OBVIOUS
<1>1. TypeOK
  BY TypeParserAssumption DEF Init, TypeOK
<1> QED
  BY <1>1 DEF Init, IInv, Sound

(* Every step keeps the invariant and what was filed.                      *)
LEMMA NextInv ==
  ASSUME NoFixed, IInv, [Next]_vars
  PROVE  IInv' /\ Kept(types, types')
<1>0. types \in Table /\ lang \in Lang /\ abi \in Abi /\ Sound(types) /\ TypeOK
  BY DEF IInv, TypeOK, Table
<1>k. Kept(types, types)
  BY DEF Kept
<1>1. ASSUME NEW n \in Mentioned \cup Member, Mention(n) \/ (n \in Member /\ RecordMember(n))
      PROVE  IInv' /\ Kept(types, types')
  <2>1. Good(types, Parse(types, n))
    BY <1>0, <1>1, ParseGood DEF Mention, RecordMember
  <2>2. types' = Parse(types, n).types /\ UNCHANGED <<lang, abi, functions>>
    BY <1>1 DEF Mention, RecordMember, ParseMember, NoFixed
  <2>3. types' \in Table /\ Kept(types, types') /\ Sound(types')
    BY <2>1, <2>2 DEF Good
  <2> QED
    BY <1>0, <2>2, <2>3, KeptStep
<1>2. ASSUME NEW n \in Mentioned, Function(n)
      PROVE  IInv' /\ Kept(types, types')
  <2> DEFINE r == Parse(types, n)
  <2>1. Good(types, r)
    BY <1>0, <1>2, ParseGood DEF Function
  <2>2. /\ types' = r.types
        /\ functions' = IF r.type = NoType THEN functions
                        ELSE functions \cup {r.type}
        /\ UNCHANGED <<lang, abi>>
    BY <1>2 DEF Function
  <2> HIDE DEF r
  <2>3. types' \in Table /\ Kept(types, types') /\ Sound(types')
    BY <2>1, <2>2 DEF Good
  <2>4. ASSUME NEW t \in functions', t \notin functions
        PROVE  t \in Type /\ HeldIn(types', t)
    <3>1. r.type # NoType /\ t = r.type
      BY <2>2, <2>4
    <3>2. r.type \in Type /\ HeldIn(types', r.type)
      BY <2>1, <2>2, <3>1 DEF Good
    <3> QED
      BY <1>0, <3>1, <3>2
  <2> QED
    BY <1>0, <2>2, <2>3, <2>4, KeptStep
<1>3. ASSUME NEW n \in Mentioned, NEW w \in Alias, SetAlias(n, w)
      PROVE  IInv' /\ Kept(types, types')
  <2> DEFINE r == Parse(types, n)
  <2>1. Good(types, r)
    BY <1>0, <1>3, ParseGood DEF SetAlias
  <2>2. /\ Room(types) /\ CheckAlias(w)
        /\ types' = IF r.type = NoType THEN r.types ELSE Put(r.types, Plain(w), r.type)
        /\ UNCHANGED <<lang, abi, functions>>
    BY <1>3 DEF SetAlias
  <2>3. w \in Word
    BY TypeParserAssumption
  <2>4. r = Parse(types, n)
    OBVIOUS
  <2> HIDE DEF r
  <2>5. CASE r.type = NoType
    <3>1. types' \in Table /\ Kept(types, types') /\ Sound(types')
      BY <2>1, <2>2, <2>5 DEF Good
    <3> QED
      BY <1>0, <2>2, <3>1, KeptStep
  <2>6. CASE r.type # NoType
    <3>1. r.type \in Type /\ HeldIn(r.types, r.type)
      BY <2>1, <2>6 DEF Good
    <3>2. r.type.inner \in Allocated(r.types) /\ (r.type.kind = "basic" => r.type.unit \in Basic)
      BY <3>1 DEF HeldIn
    <3>3. types' = Put(r.types, Plain(w), r.type)
      BY <2>2, <2>6
    <3>4. types' \in Table /\ Kept(types, types') /\ Sound(types')
      BY <2>2, <2>3, <2>4, <3>1, <3>2, <3>3, AliasGood
    <3> QED
      BY <1>0, <2>2, <3>4, KeptStep
  <2> QED
    BY <2>5, <2>6
<1>4. ASSUME NEW n \in Mentioned, NEW w \in Alias, CustomType(n, w)
      PROVE  IInv' /\ Kept(types, types')
  <2> DEFINE r == Parse(types, n)
             t == New(r.types, "custom", w, None, 0)
  <2>1. Good(types, r)
    BY <1>0, <1>4, ParseGood DEF CustomType
  <2>2. /\ Room(types) /\ Room(r.types) /\ CheckAlias(w)
        /\ types' = IF Customizable(r.type) THEN Put(r.types, Plain(w), t) ELSE r.types
        /\ UNCHANGED <<lang, abi, functions>>
    BY <1>4 DEF CustomType
  <2>3. w \in Word /\ 0 \in 0..MaxType
    BY TypeParserAssumption
  <2>4. r = Parse(types, n)
    OBVIOUS
  <2> HIDE DEF r
  <2>5. t \in Type /\ t.inner = 0 /\ t.kind = "custom"
    BY <2>2, <2>3, NewFacts
  <2>6. 0 \in Allocated(r.types)
    BY DEF Allocated
  <2> HIDE DEF t
  <2>7. CASE ~ Customizable(r.type)
    <3>1. types' \in Table /\ Kept(types, types') /\ Sound(types')
      BY <2>1, <2>2, <2>7 DEF Good
    <3> QED
      BY <1>0, <2>2, <3>1, KeptStep
  <2>8. CASE Customizable(r.type)
    <3>1. types' = Put(r.types, Plain(w), t)
      BY <2>2, <2>8
    <3>2. types' \in Table /\ Kept(types, types') /\ Sound(types')
      BY <2>2, <2>3, <2>4, <2>5, <2>6, <3>1, AliasGood
    <3> QED
      BY <1>0, <2>2, <3>2, KeptStep
  <2> QED
    BY <2>7, <2>8
<1>5. ASSUME NEW l \in Lang, SetLang(l)
      PROVE  IInv' /\ Kept(types, types')
  <2>1. UNCHANGED <<types, functions>> /\ lang' \in Lang /\ abi' \in Abi
    BY <1>0, <1>5, TypeParserAssumption DEF SetLang
  <2> QED
    BY <1>0, <1>k, <2>1, KeptStep
<1>6. ASSUME NEW a \in Abi, SetAbi(a)
      PROVE  IInv' /\ Kept(types, types')
  <2>1. UNCHANGED <<types, functions, lang>> /\ abi' \in Abi
    BY <1>6 DEF SetAbi
  <2> QED
    BY <1>0, <1>k, <2>1, KeptStep
<1>7. ASSUME NEW t \in functions, DropFunction(t)
      PROVE  IInv' /\ Kept(types, types')
  <2>1. UNCHANGED <<types, lang, abi>> /\ functions' \subseteq functions
    BY <1>7 DEF DropFunction
  <2> QED
    BY <1>0, <1>k, <2>1, KeptStep
<1>8. CASE UNCHANGED vars
  <2>1. UNCHANGED <<types, lang, abi, functions>>
    BY <1>8 DEF vars
  <2> QED
    BY <1>0, <1>k, <2>1, KeptStep
<1> QED
  BY <1>1, <1>2, <1>3, <1>4, <1>5, <1>6, <1>7, <1>8 DEF Next

-----------------------------------------------------------------------------
(* The theorems.  Each assumes that no fixed string is parsed, and holds   *)
(* for every set of types, names, languages and abis.                      *)

(* The inductive invariant holds in every reachable state.                 *)
THEOREM TypeParserInvariance ==
  ASSUME NoFixed
  PROVE  Spec => []IInv
<1>1. IInv /\ [Next]_vars => IInv'
  BY NextInv
<1> QED
  BY <1>1, InitInv, PTL DEF Spec

(* The variables keep their types: what is filed is a type or nothing.     *)
THEOREM TypeParserTypes ==
  ASSUME NoFixed
  PROVE  Spec => []TypeOK
<1>1. IInv => TypeOK
  BY DEF IInv
<1> QED
  BY <1>1, TypeParserInvariance, PTL

(* The types that functions and closure types point at (Function.xs holds  *)
(* plain pointers to them) are not freed while the object lives.           *)
THEOREM FunctionsHaveTheirTypes ==
  ASSUME NoFixed
  PROVE  Spec => []TypesOutlive
<1>1. IInv => TypesOutlive
  BY DEF IInv, TypesOutlive, Sound, HeldIn, Filed
<1> QED
  BY <1>1, TypeParserInvariance, PTL

(* A name that was mentioned means the same type for ever, whatever        *)
(* aliases, custom types, languages and abis are set later.                *)
THEOREM NamesKeepTheirMeaning ==
  ASSUME NoFixed
  PROVE  Spec => NamesStable
<1>1. IInv /\ [Next]_vars =>
        [\A n \in Name : types[n] # NoType => types'[n] = types[n]]_vars
  BY NextInv DEF Kept
<1> QED
  BY <1>1, TypeParserInvariance, PTL DEF Spec, NamesStable

-----------------------------------------------------------------------------
(* The units of pointers and arrays.                                       *)

Of(form, u) == [form |-> form, unit |-> u]

(* The word has the unit, or a language says so.                           *)
Agrees(ts, w, u) ==
  \/ ts[Plain(w)].kind = "basic" /\ ts[Plain(w)].unit = u
  \/ \E l \in Lang : NativeMap[l][w] = u

(* A pointer or an array of a basic type has it for a unit; one of a word  *)
(* is filed when the word is, and with its unit, or with the type that a   *)
(* language makes of it.                                                   *)
Agreeing(ts) ==
  /\ \A form \in Derived, b \in Basic :
       ts[Of(form, b)] # NoType => ts[Of(form, b)].unit = b
  /\ \A form \in Derived, w \in Word :
       ts[Of(form, w)] # NoType => Agrees(ts, w, ts[Of(form, w)].unit)

(* The name of a form of a word is the word and the form.                  *)
LEMMA OfName ==
  ASSUME NEW form \in Derived, NEW u \in Basic \cup Word
  PROVE  /\ Of(form, u) \in Name
         /\ \A v : Of(form, u) # Plain(v)
         /\ \A n \in Name : n = Of(form, u) <=> n.form = form /\ n.unit = u
BY DEF Of, Plain, Name, Form, Derived

(* A basic type is no word.                                                *)
LEMMA Words == \A b \in Basic : b \notin Word
BY TypeParserAssumption

(* A type is filed where there was none.                                   *)
LEMMA AgreeFiled ==
  ASSUME NEW us \in Table, Agreeing(us), NEW n \in Name, us[n] = NoType, NEW t,
         n.form \in Derived /\ n.unit \in Basic => t.unit = n.unit,
         n.form \in Derived /\ n.unit \in Word => Agrees(us, n.unit, t.unit)
  PROVE  Agreeing(Put(us, n, t)) /\ Agreeing(GotFiled(us, n, t).types)
<1> DEFINE vs == Put(us, n, t)
<1>1. vs[n] = t /\ \A m \in Name \ {n} : vs[m] = us[m]
  BY DEF Put, Table
<1>2. GotFiled(us, n, t).types = vs
  BY DEF GotFiled, Got
<1> HIDE DEF vs
<1>3. ASSUME NEW form \in Derived, NEW b \in Basic, vs[Of(form, b)] # NoType
      PROVE  vs[Of(form, b)].unit = b
  <2>1. Of(form, b) \in Name /\ (n = Of(form, b) <=> n.form = form /\ n.unit = b)
    BY OfName
  <2>2. CASE n = Of(form, b)
    BY <1>1, <2>1, <2>2
  <2>3. CASE n # Of(form, b)
    BY <1>1, <1>3, <2>1, <2>3 DEF Agreeing
  <2> QED
    BY <2>2, <2>3
<1>4. ASSUME NEW form \in Derived, NEW w \in Word, vs[Of(form, w)] # NoType
      PROVE  Agrees(vs, w, vs[Of(form, w)].unit)
  <2>1. Plain(w) \in Name
    BY PlainName
  <2>2. /\ Of(form, w) \in Name /\ Of(form, w) # Plain(w)
        /\ (n = Of(form, w) <=> n.form = form /\ n.unit = w)
    BY OfName
  <2>3. CASE n = Of(form, w)
    <3>1. Agrees(us, w, t.unit)
      BY <2>2, <2>3
    <3>2. vs[Plain(w)] = us[Plain(w)] /\ vs[Of(form, w)] = t
      BY <1>1, <2>1, <2>2, <2>3
    <3> QED
      BY <3>1, <3>2 DEF Agrees
  <2>4. CASE n # Of(form, w)
    <3>1. us[Of(form, w)] = vs[Of(form, w)]
      BY <1>1, <2>2, <2>4
    <3>2. Agrees(us, w, us[Of(form, w)].unit)
      BY <1>4, <3>1 DEF Agreeing
    <3>3. us[Plain(w)].kind = "basic" => vs[Plain(w)] = us[Plain(w)]
      BY <1>1, <2>1 DEF NoType
    <3> QED
      BY <3>1, <3>2, <3>3 DEF Agrees
  <2> QED
    BY <2>3, <2>4
<1> QED
  BY <1>2, <1>3, <1>4 DEF Agreeing, vs

(* A name of another form is filed.                                        *)
LEMMA AgreeOther ==
  ASSUME NEW us \in Table, Agreeing(us), NEW n \in Name, us[n] = NoType, NEW t,
         n.form \notin Derived
  PROVE  Agreeing(Put(us, n, t)) /\ Agreeing(GotFiled(us, n, t).types)
BY AgreeFiled

(* A word is parsed,                                                      *)
LEMMA PlainAgree ==
  ASSUME NEW ts \in Table, Agreeing(ts), NEW u \in Basic \cup Word
  PROVE  /\ Agreeing(ParsePlain(ts, u).types)
         /\ u \in Word /\ NativeMap[lang][u] = None =>
              /\ ParsePlain(ts, u).types = ts
              /\ ParsePlain(ts, u).type = ts[Plain(u)]
<1> DEFINE n == Plain(u)
           t == Global("basic", NativeMap[lang][u])
<1>1. n \in Name /\ n.form \notin Derived
  BY PlainName DEF Derived
<1>2. ParsePlain(ts, u) =
        IF Cached(ts, n) THEN Got(ts[n], ts)
        ELSE IF u \in Basic THEN Got(Global("basic", u), ts)
        ELSE IF NativeMap[lang][u] # None THEN GotFiled(ts, n, t)
        ELSE Refused(ts)
  BY DEF ParsePlain
<1> HIDE DEF n, t
<1>3. ~ Cached(ts, n) => Agreeing(GotFiled(ts, n, t).types)
  BY <1>1, AgreeOther DEF Cached
<1>4. Agreeing(ParsePlain(ts, u).types)
  BY <1>2, <1>3 DEF Got, Refused
<1>5. ASSUME u \in Word, NativeMap[lang][u] = None
      PROVE  ParsePlain(ts, u).types = ts /\ ParsePlain(ts, u).type = ts[n]
  <2>1. u \notin Basic
    BY <1>5, Words
  <2>2. Refused(ts) = Got(NoType, ts)
    BY DEF Refused
  <2> QED
    BY <1>2, <1>5, <2>1, <2>2 DEF Got, Cached
<1> QED
  BY <1>4, <1>5 DEF n

(* a pointer or an array of a basic type,                                  *)
LEMMA OfBasicAgree ==
  ASSUME NEW ts \in Table, Agreeing(ts), NEW form \in Derived, NEW b \in Basic
  PROVE  /\ Agreeing(ParseOfBasic(ts, form, b).types)
         /\ ParseOfBasic(ts, form, b).type.unit = b
<1> DEFINE n == Of(form, b)
           r == ParseOfBasic(ts, form, b)
           array == New(ts, "array", b, None, 0)
<1> SUFFICES Agreeing(r.types) /\ r.type.unit = b
  OBVIOUS
<1>1. n \in Name /\ n.unit = b /\ n.unit \notin Word
  BY OfName, Words DEF Of
<1>2. r = IF Cached(ts, n) THEN Got(ts[n], ts)
          ELSE IF form = "pointer" THEN GotFiled(ts, n, Global("pointer", b))
          ELSE IF form = "open" THEN Got(Global("open", b), ts)
          ELSE GotFiled(ts, n, array)
  BY DEF ParseOfBasic, Of
<1>3. array.unit = b /\ \A kind : Global(kind, b).unit = b
  BY DEF New, Global
<1>4. Cached(ts, n) => ts[n].unit = b
  BY DEF Cached, Agreeing
<1> HIDE DEF n, r, array
<1>5. ASSUME NEW t, t.unit = b, ~ Cached(ts, n)
      PROVE  Agreeing(GotFiled(ts, n, t).types) /\ GotFiled(ts, n, t).type = t
  <2>1. Agreeing(GotFiled(ts, n, t).types)
    BY <1>1, <1>5, AgreeFiled DEF Cached
  <2> QED
    BY <2>1 DEF GotFiled, Got
<1>6. CASE Cached(ts, n)
  BY <1>2, <1>4, <1>6 DEF Got
<1>7. CASE ~ Cached(ts, n) /\ form = "pointer"
  <2>1. r = GotFiled(ts, n, Global("pointer", b))
    BY <1>2, <1>7
  <2> QED
    BY <1>3, <1>5, <1>7, <2>1
<1>8. CASE ~ Cached(ts, n) /\ form = "open"
  BY <1>2, <1>3, <1>8 DEF Got
<1>9. CASE ~ Cached(ts, n) /\ form \notin {"pointer", "open"}
  <2>1. r = GotFiled(ts, n, array)
    BY <1>2, <1>9
  <2> QED
    BY <1>3, <1>5, <1>9, <2>1
<1> QED
  BY <1>6, <1>7, <1>8, <1>9

(* one of a word, which is filed before it,                                *)
LEMMA OfAgree ==
  ASSUME NEW ts \in Table, Sound(ts), Room(ts), lang \in Lang, Agreeing(ts),
         NEW form \in Derived, NEW u \in Basic \cup Word
  PROVE  Agreeing(ParseOf(ts, form, u).types)
<1> DEFINE n == Of(form, u)
           unit == UnitOf(ts, u)
           made == ParseOfBasic(unit.types, Spelled(form), unit.type.unit)
           r == ParseOf(ts, form, u)
<1> SUFFICES Agreeing(r.types)
  OBVIOUS
<1>1. n \in Name /\ n.form = form /\ n.unit = u
  BY OfName DEF Of
<1>2. r = IF Cached(ts, n) THEN Got(ts[n], ts)
          ELSE IF u \in Basic THEN ParseOfBasic(ts, form, u)
          ELSE IF unit.type.kind # "basic" THEN Refused(unit.types)
          ELSE GotFiled(made.types, n, made.type)
  BY DEF ParseOf, Of
<1>3. CASE Cached(ts, n) \/ u \in Basic
  <2>1. u \in Basic => Agreeing(ParseOfBasic(ts, form, u).types)
    BY OfBasicAgree
  <2> QED
    BY <1>2, <1>3, <2>1 DEF Got
<1>4. CASE ~ Cached(ts, n) /\ u \notin Basic
  <2>1. GoodUnit(ts, u, unit)
    BY <1>4, UnitGood
  <2>2. /\ unit.types \in Table /\ Sound(unit.types) /\ Room(unit.types)
        /\ unit.type # NoType => HeldIn(unit.types, unit.type)
        /\ unit.types[n] = ts[n]
    BY <1>1, <2>1 DEF GoodUnit, Good, Derived
  <2>3. unit = ParsePlain(ts, u) \/ unit = Got(Global("basic", NativeMap[lang][u]), ts)
    BY DEF UnitOf
  <2>4. Agreeing(unit.types)
    BY <2>3, PlainAgree DEF Got
  <2>5. \/ unit.type = unit.types[Plain(u)]
        \/ \E l \in Lang : NativeMap[l][u] = unit.type.unit
    <3>1. CASE NativeMap[lang][u] = None
      <4>1. unit = ParsePlain(ts, u)
        BY <3>1 DEF UnitOf
      <4> QED
        BY <1>4, <3>1, <4>1, PlainAgree
    <3>2. CASE NativeMap[lang][u] # None
      <4>1. unit.type.unit = NativeMap[lang][u]
        BY <3>2 DEF UnitOf, Got, Global
      <4> QED
        BY <4>1
    <3> QED
      BY <3>1, <3>2
  <2>6. CASE unit.type.kind # "basic"
    BY <1>2, <1>4, <2>4, <2>6 DEF Refused, Got
  <2>7. CASE unit.type.kind = "basic"
    <3> DEFINE b == unit.type.unit
    <3>1. unit.type # NoType
      BY <2>7 DEF NoType
    <3>2. b \in Basic
      BY <2>2, <2>7, <3>1 DEF HeldIn
    <3>3. Spelled(form) \in Derived
      BY DEF Spelled, Derived
    <3>4. made = ParseOfBasic(unit.types, Spelled(form), b)
      OBVIOUS
    <3>5. r = GotFiled(made.types, n, made.type)
      BY <1>2, <1>4, <2>7
    <3> HIDE DEF made, n, r, unit
    <3>6. /\ Good(unit.types, made) /\ \A m \in Name : m.unit # b => made.types[m] = unit.types[m]
      BY <2>2, <3>2, <3>3, <3>4, OfBasicGood
    <3>7. Agreeing(made.types) /\ made.type.unit = b
      BY <2>2, <2>4, <3>2, <3>3, <3>4, OfBasicAgree
    <3>8. made.types[n] = NoType /\ made.types \in Table
      BY <1>1, <1>4, <2>2, <3>2, <3>6 DEF Good, Cached
    <3>9. Agrees(made.types, u, b)
      <4>1. Plain(u) \in Name /\ Plain(u).unit = u /\ u # b
        BY <1>4, <3>2, PlainName DEF Plain
      <4>2. made.types[Plain(u)] = unit.types[Plain(u)]
        BY <3>6, <4>1
      <4> QED
        BY <2>5, <2>7, <4>2 DEF Agrees
    <3>10. Agreeing(GotFiled(made.types, n, made.type).types)
      BY <1>1, <1>4, <3>7, <3>8, <3>9, AgreeFiled
    <3> QED
      BY <3>5, <3>10
  <2> QED
    BY <2>6, <2>7
<1> QED
  BY <1>3, <1>4

(* and any name.                                                           *)
LEMMA ParseAgree ==
  ASSUME NoFixed, TypeOK, Sound(types), Room(types), Agreeing(types), NEW n \in Mentioned \cup Member
  PROVE  Agreeing(Parse(types, n).types)
<1>1. types \in Table /\ lang \in Lang
  BY DEF TypeOK, Table
<1>2. n \in Name /\ n.form \in Form /\ n.unit \in Basic \cup Word
  BY TypeParserAssumption DEF Name
<1>3. CASE n.form = "plain"
  <2>1. Parse(types, n) = ParsePlain(types, n.unit)
    BY <1>3 DEF Parse
  <2> QED
    BY <1>1, <1>2, <2>1, PlainAgree
<1>4. CASE n.form \in Derived
  <2>1. Parse(types, n) = ParseOf(types, n.form, n.unit)
    BY <1>4 DEF Parse, Derived
  <2> QED
    BY <1>1, <1>2, <1>4, <2>1, OfAgree
<1>5. CASE n.form = "closure"
  <2> DEFINE arg == ParsePlain(types, n.unit)
             m == [form |-> "closure", unit |-> n.unit]
             t == New(arg.types, "closure", n.unit, abi, arg.type.id)
  <2>1. Parse(types, n) = ParseClosure(types, n.unit)
    BY <1>5 DEF Parse
  <2>2. m \in Name /\ m.form = "closure"
    BY <1>2 DEF Name, Form
  <2>3. arg.types \in Table /\ Agreeing(arg.types) /\ arg.types[m] = types[m]
    BY <1>1, <1>2, <2>2, PlainGood, PlainAgree DEF GoodUnit, Good
  <2>4. ParseClosure(types, n.unit) =
          IF Cached(types, m) THEN Got(types[m], types)
          ELSE IF arg.type.kind \notin {"basic", "record"} THEN Refused(arg.types)
          ELSE GotFiled(arg.types, m, t)
    BY DEF ParseClosure
  <2> HIDE DEF arg, m, t
  <2>5. ~ Cached(types, m) => Agreeing(GotFiled(arg.types, m, t).types)
    BY <2>2, <2>3, AgreeOther DEF Cached, Derived
  <2> QED
    BY <2>1, <2>3, <2>4, <2>5 DEF Got, Refused
<1>6. CASE n.form \in {"record", "window"}
  <2> DEFINE t == New(types, "record", n.unit, None, 0)
  <2>1. Parse(types, n) =
          IF Cached(types, n) THEN Got(types[n], types) ELSE GotFiled(types, n, t)
    BY <1>6 DEF Parse, ParseRecord
  <2> HIDE DEF t
  <2>2. ~ Cached(types, n) => Agreeing(GotFiled(types, n, t).types)
    BY <1>1, <1>2, <1>6, AgreeOther DEF Cached, Derived
  <2> QED
    BY <2>1, <2>2 DEF Got
<1>7. CASE n.form = "fixed"
  <2>1. Parse(types, n) = Refused(types)
    BY <1>7 DEF NoFixed, Parse, ParseFixed
  <2> QED
    BY <2>1 DEF Refused, Got
<1> QED
  BY <1>2, <1>3, <1>4, <1>5, <1>6, <1>7 DEF Form, Derived

(* What an alias or a custom type is filed under meant nothing, and so no  *)
(* pointer or array of it is filed.                                        *)
LEMMA AgreeNext ==
  ASSUME NoFixed, IInv, Agreeing(types), [Next]_vars
  PROVE  Agreeing(types')
<1>1. types \in Table /\ Sound(types) /\ TypeOK
  BY DEF IInv, TypeOK, Table
<1>2. ASSUME NEW n \in Mentioned, Mention(n) \/ Function(n)
      PROVE  Agreeing(types')
  BY <1>1, <1>2, ParseAgree DEF Mention, Function
<1>5. ASSUME NEW n \in Member, RecordMember(n)
      PROVE  Agreeing(types')
  BY <1>1, <1>5, ParseAgree DEF RecordMember, ParseMember, NoFixed
<1>3. ASSUME NEW n \in Mentioned, NEW w \in Alias, SetAlias(n, w) \/ CustomType(n, w)
      PROVE  Agreeing(types')
  <2> DEFINE r == Parse(types, n)
  <2>1. Room(types) /\ CheckAlias(w) /\ w \in Word
    BY <1>3, TypeParserAssumption DEF SetAlias, CustomType
  <2>2. types' = r.types \/ \E t : types' = Put(r.types, Plain(w), t)
    BY <1>3 DEF SetAlias, CustomType
  <2>3. Agreeing(r.types)
    BY <1>1, <2>1, ParseAgree
  <2>4. r.types[Plain(w)] = NoType
    BY <1>1, <2>1, ParseFrame DEF CheckAlias, Cached, Unnamed
  <2>5. r.types \in Table
    BY <1>1, <2>1, ParseGood DEF Good
  <2>6. Plain(w) \in Name /\ Plain(w).form \notin Derived
    BY <2>1, PlainName DEF Derived
  <2> HIDE DEF r
  <2>7. \A t : Agreeing(Put(r.types, Plain(w), t))
    BY <2>3, <2>4, <2>5, <2>6, AgreeOther
  <2> QED
    BY <2>2, <2>3, <2>7
<1>4. CASE \/ \E l \in Lang : SetLang(l)
           \/ \E a \in Abi : SetAbi(a)
           \/ \E t \in functions : DropFunction(t)
           \/ UNCHANGED vars
  <2>1. types' = types
    BY <1>4 DEF SetLang, SetAbi, DropFunction, vars
  <2> QED
    BY <2>1
<1> QED
  BY <1>2, <1>3, <1>4, <1>5 DEF Next

(* A pointer or an array of a word is of the basic type that the word is   *)
(* of, in whatever order they were mentioned and made, or else of the type *)
(* that one of the program's languages makes of the word; so for a word    *)
(* that is in none of them, an alias, always of the first.                 *)
THEOREM UnitsOfAliases ==
  ASSUME NoFixed
  PROVE  Spec => []UnitsAgree
<1> DEFINE All == IInv /\ Agreeing(types)
<1>1. Init => All
  <2> SUFFICES ASSUME Init PROVE Agreeing(types)
    BY InitInv
  <2>1. \A form \in Derived, u \in Basic \cup Word : types[Of(form, u)] = NoType
    BY OfName DEF Init
  <2> QED
    BY <2>1 DEF Agreeing
<1>2. All /\ [Next]_vars => All'
  <2> SUFFICES ASSUME All, [Next]_vars PROVE IInv' /\ Agreeing(types')
    BY DEF Agreeing
  <2> QED
    BY NextInv, AgreeNext
<1>3. All => UnitsAgree
  BY DEF Agreeing, Agrees, UnitsAgree, Of, Derived
<1> HIDE DEF All
<1> QED
  BY <1>1, <1>2, <1>3, PTL DEF Spec
=============================================================================
