---------------------------- MODULE Build_proofs ----------------------------
(***************************************************************************)
(* The library that FFI::Build returns is up to date, and what it makes is *)
(* made for a reason, for any list of sources and headers, any edits and   *)
(* any builds that failed or were killed before.                           *)
(***************************************************************************)
EXTENDS Build, TLAPS

(* The sources that the build in progress has an object of.                *)
Built == IF pc \in {"item", "compile"} THEN {Source[i] : i \in 1..(item - 1)}
         ELSE IF pc \in {"objects", "link", "done"} THEN Src ELSE {}

IsObject(s, x) == x \in Made(Versioned(Needs(s)))

(* What the types leave open: the objects of the build in progress are     *)
(* there, and what a compiler or a linker reads is versions.               *)
BuiltThere == \A s \in Built : IsObject(s, object[s])
ReadTyped ==
  /\ pc = "compile" => read \in Versioned(Needs(Current))
  /\ pc = "link" => \A s \in Src : read[s] \in Versioned(Needs(s))

(* The edits that a correct build has to have.                             *)
Counted(s) == settled \cap Deps(s)

(* An object that missed such an edit is older than it, and so is the      *)
(* library: the comparison of times will tell.                             *)
ObjectsCurrent ==
  \A s \in Src : \A f \in Counted(s) :
    object[s] # None => object[s].of[f] = version[f] \/ object[s].time < mtime[f]
LibraryCurrent ==
  library # None =>
    \A s \in Src : \A f \in Counted(s) :
      library.of[s][f] = version[f] \/ library.time < mtime[f]

(* What the build has passed has all of them.                              *)
BuiltCurrent ==
  \A s \in Built : \A f \in Counted(s) :
    object[s].of[f] = version[f] /\ object[s].time >= mtime[f]
ReadCurrent ==
  /\ pc = "compile" => \A f \in Counted(Current) : read[f] = version[f]
  /\ pc = "link" => \A s \in Src : \A f \in Counted(s) : read[s][f] = version[f]
Returned ==
  pc = "done" => \A s \in Src : \A f \in Counted(s) : library.of[s][f] = version[f]

(* Only a kill leaves part of a file.                                      *)
LibraryWhole ==
  ~ torn => /\ library # None => library.whole
            /\ pc = "done" => library.whole

TypeInv == TypeOK /\ BuiltThere /\ ReadTyped

Inv ==
  /\ TypeInv
  /\ ObjectsCurrent /\ LibraryCurrent /\ BuiltCurrent
  /\ ReadCurrent /\ Returned /\ LibraryWhole

-----------------------------------------------------------------------------

LEMMA Items == /\ Len(Source) \in Nat \ {0}
               /\ DOMAIN Source = 1..Len(Source)
               /\ \A i \in 1..Len(Source) : Source[i] \in Src
BY BuildAssumption DEF Src

(* The build goes on to the next item, or has passed all of them.          *)
LEMMA ItemPassed ==
  ASSUME TypeOK, pc \in {"item", "compile"}, NextItem
  PROVE  /\ Current \in Src
         /\ pc' \in {"item", "objects"}
         /\ item' \in 1..Len(Source)
         /\ Built' \subseteq Built \cup {Current}
<1>1. item \in 1..Len(Source)
  BY Items DEF TypeOK
<1>2. Current \in Src
  BY <1>1, Items DEF Current
<1>3. CASE item < Len(Source)
  <2>1. pc' = "item" /\ item' = item + 1
    BY <1>3 DEF NextItem
  <2>2. Built' = {Source[i] : i \in 1..item}
    BY <1>1, <2>1 DEF Built
  <2>3. Built = {Source[i] : i \in 1..(item - 1)}
    BY DEF Built
  <2>4. \A i \in 1..item : i \in 1..(item - 1) \/ i = item
    BY <1>1
  <2> QED
    BY <1>1, <1>2, <1>3, <2>1, <2>2, <2>3, <2>4, Items DEF Current
<1>4. CASE ~ (item < Len(Source))
  <2>1. pc' = "objects" /\ item' = item
    BY <1>4 DEF NextItem
  <2>2. item = Len(Source)
    <3>1. Len(Source) \in Nat /\ item \in Nat /\ item <= Len(Source)
      BY <1>1, Items
    <3> QED
      BY <3>1, <1>4
  <2>3. Built' = Src
    BY <2>1 DEF Built
  <2>4. Built = {Source[i] : i \in 1..(item - 1)}
    BY DEF Built
  <2>5. \A i \in 1..Len(Source) : i \in 1..(item - 1) \/ i = item
    BY <1>1, <2>2
  <2> QED
    BY <1>1, <1>2, <2>1, <2>3, <2>4, <2>5, Items DEF Current, Src
<1> QED
  BY <1>3, <1>4

(* The object of an item that is not compiled is there and not older than  *)
(* anything that it depends on.                                            *)
LEMMA ReusedObject ==
  ASSUME TypeOK, NEW s \in Src, ~ OldObject(s)
  PROVE  /\ IsObject(s, object[s])
         /\ object[s] # None
         /\ \A f \in Deps(s) : object[s].time >= mtime[f]
<1>1. object[s] # None /\ IsObject(s, object[s])
  BY DEF OldObject, TypeOK, IsObject
<1>2. Deps(s) \subseteq File
  BY BuildAssumption DEF Deps, Needs, File
<1>3. object[s].time \in Int
  BY <1>1 DEF IsObject, Made
<1>4. \A f \in Deps(s) : mtime[f] \in Int
  BY <1>2 DEF TypeOK
<1> QED
  BY <1>1, <1>3, <1>4 DEF OldObject, Newer

(* What a source needs is known, and a compiler that reads it now gets a   *)
(* version of each file.                                                   *)
LEMMA Needed ==
  ASSUME TypeOK, NEW s \in Src
  PROVE  /\ Needs(s) \subseteq File
         /\ Deps(s) \subseteq Needs(s)
         /\ Versions(s) \in Versioned(Needs(s))
<1>1. Needs(s) \subseteq File
  BY BuildAssumption DEF Needs, File
<1>2. Deps(s) \subseteq Needs(s)
  BY DEF Deps, Needs
<1>3. Versions(s) \in Versioned(Needs(s))
  BY <1>1 DEF Versions, Versioned, TypeOK
<1> QED
  BY <1>1, <1>2, <1>3

(* What compilers write has the type of an object.                         *)
LEMMA Written ==
  ASSUME TypeOK, NEW s \in Src, NEW of \in Versioned(Needs(s)), NEW b \in BOOLEAN
  PROVE  IsObject(s, [time |-> now, of |-> of, whole |-> b])
BY DEF IsObject, Made, TypeOK

LEMMA TypeStep == TypeInv /\ [Next]_vars => TypeInv'
<1> SUFFICES ASSUME TypeInv, [Next]_vars PROVE TypeInv'
  OBVIOUS
<1> USE DEF TypeInv
<1>1. CASE UNCHANGED vars
  BY <1>1 DEF vars, files, TypeOK, BuiltThere, Built, ReadTyped, Current
<1>2. CASE Tick
  <2>1. TypeOK'
    <3>1. now \in Int /\ MaxTime \in Int /\ 0..now \subseteq 0..(now + 1)
      BY BuildAssumption DEF TypeOK
    <3>2. now' \in 1..MaxTime
      BY <1>2, <3>1 DEF Tick, TypeOK
    <3>3. mtime' \in [File -> 0..now']
      BY <1>2, <3>1 DEF Tick, TypeOK, files
    <3> QED
      BY <1>2, <3>2, <3>3 DEF Tick, TypeOK, files
  <2> QED
    BY <1>2, <2>1 DEF Tick, files, BuiltThere, Built, ReadTyped, Current
<1>3. ASSUME NEW f \in File, Edit(f) PROVE TypeInv'
  <2>1. TypeOK'
    <3>1. edits' \in 0..MaxEdit /\ now \in 0..now
      BY <1>3, BuildAssumption DEF Edit, TypeOK
    <3>2. version' \in Versioned(File) /\ mtime' \in [File -> 0..now']
      BY <1>3, <3>1 DEF Edit, TypeOK, Versioned
    <3>3. settled' \subseteq File
      BY <1>3 DEF Edit, TypeOK
    <3> QED
      BY <1>3, <3>1, <3>2, <3>3 DEF Edit, TypeOK
  <2> QED
    BY <1>3, <2>1 DEF Edit, BuiltThere, Built, ReadTyped, Current
<1>4. CASE Begin
  <2>1. TypeOK'
    BY <1>4, Items DEF Begin, TypeOK, files
  <2>2. Built' = {}
    BY <1>4 DEF Begin, Built
  <2> QED
    BY <1>4, <2>1, <2>2 DEF Begin, BuiltThere, ReadTyped
<1>5. CASE Reuse
  <2>1. /\ Current \in Src /\ pc' \in {"item", "objects"} /\ item' \in 1..Len(Source)
        /\ Built' \subseteq Built \cup {Current}
    BY <1>5, ItemPassed DEF Reuse
  <2>2. IsObject(Current, object[Current])
    BY <1>5, <2>1, ReusedObject DEF Reuse
  <2>3. TypeOK'
    BY <1>5, <2>1, Items DEF Reuse, TypeOK, files
  <2>4. BuiltThere'
    BY <1>5, <2>1, <2>2 DEF Reuse, BuiltThere
  <2> QED
    BY <2>1, <2>3, <2>4 DEF ReadTyped
<1>6. CASE Compile
  <2>1. item \in 1..Len(Source) /\ Current \in Src
    BY <1>6, Items DEF Compile, TypeOK, Current
  <2>2. TypeOK'
    BY <1>6 DEF Compile, TypeOK, files
  <2>3. BuiltThere'
    BY <1>6 DEF Compile, BuiltThere, Built, files
  <2>4. read' \in Versioned(Needs(Current)) /\ Current' = Current
    BY <1>6, <2>1, Needed DEF Compile, Current
  <2> QED
    BY <1>6, <2>2, <2>3, <2>4 DEF Compile, ReadTyped
<1>7. CASE Compiled
  <2>1. /\ Current \in Src /\ pc' \in {"item", "objects"} /\ item' \in 1..Len(Source)
        /\ Built' \subseteq Built \cup {Current}
    BY <1>7, ItemPassed DEF Compiled
  <2>2. /\ IsObject(Current, object'[Current])
        /\ \A s \in Src : s # Current => object'[s] = object[s]
    <3>1. IsObject(Current, [time |-> now, of |-> read, whole |-> TRUE])
      BY <1>7, <2>1, Written DEF Compiled, ReadTyped
    <3> QED
      BY <1>7, <2>1, <3>1 DEF Compiled, TypeOK
  <2>3. \A s \in Src : object'[s] \in {None} \cup Made(Versioned(Needs(s)))
    BY <2>1, <2>2 DEF TypeOK, IsObject
  <2>4. TypeOK'
    <3>1. object' = [s \in Src |-> object'[s]]
      BY <1>7 DEF Compiled, TypeOK
    <3>2. item' \in 0..Len(Source) /\ item' # 0
      BY <2>1, Items
    <3> QED
      BY <1>7, <2>1, <2>3, <3>1, <3>2 DEF Compiled, TypeOK, files
  <2>5. Built \subseteq Src
    BY <1>7, Items DEF Compiled, Built, TypeOK
  <2>6. BuiltThere'
    BY <2>1, <2>2, <2>5 DEF BuiltThere
  <2> QED
    BY <2>1, <2>4, <2>6 DEF ReadTyped
<1>8. CASE Kept
  BY <1>8 DEF Kept, TypeOK, BuiltThere, Built, ReadTyped, files
<1>9. CASE Link
  <2>1. Built = Src
    BY <1>9 DEF Link, Built
  <2>2. \A s \in Src : object[s].of \in Versioned(Needs(s))
    BY <2>1 DEF BuiltThere, IsObject, Made
  <2> QED
    BY <1>9, <2>2 DEF Link, TypeOK, BuiltThere, Built, ReadTyped, files
<1>10. CASE Linked
  <2>1. library'.time = now /\ library'.whole = TRUE /\ library'.of = read
    BY <1>10 DEF Linked
  <2>2. TypeOK'
    BY <1>10, <2>1 DEF Linked, TypeOK, ReadTyped, files
  <2> QED
    BY <1>10, <2>2 DEF Linked, BuiltThere, Built, ReadTyped
<1>11. CASE Done \/ Killed \/ Clean
  <2>1. TypeOK'
    <3>1. CASE Done \/ Killed
      BY <3>1 DEF Done, Killed, Idle, TypeOK, files
    <3>2. CASE Clean
      BY <3>2 DEF Clean, TypeOK
    <3> QED
      BY <1>11, <3>1, <3>2
  <2>2. pc' = "idle"
    BY <1>11 DEF Done, Killed, Clean, Idle
  <2> QED
    BY <2>1, <2>2 DEF BuiltThere, Built, ReadTyped
<1>12. CASE Error
  <2>1. TypeOK'
    <3>1. \/ UNCHANGED object
          \/ object' = [object EXCEPT ![Current] = None]
      BY <1>12 DEF Error
    <3>2. object' = [s \in Src |-> object'[s]]
      BY <3>1 DEF TypeOK
    <3>3. \A s \in Src : object'[s] \in {None} \cup Made(Versioned(Needs(s)))
      BY <3>1 DEF TypeOK
    <3>4. library' = None \/ library' = library
      BY <1>12 DEF Error
    <3> QED
      BY <1>12, <3>2, <3>3, <3>4 DEF Error, Idle, TypeOK, files
  <2>2. pc' = "idle"
    BY <1>12 DEF Error, Idle
  <2> QED
    BY <2>1, <2>2 DEF BuiltThere, Built, ReadTyped
<1>13. CASE Torn
  <2> DEFINE part == [time |-> now, of |-> read, whole |-> FALSE]
  <2>1. pc' = "idle" /\ item' = 0 /\ torn' = TRUE /\ UNCHANGED <<now, files, mm>>
    BY <1>13 DEF Torn, Idle
  <2>2. CASE pc = "compile"
    <3>1. Current \in Src
      BY <2>2, Items DEF TypeOK, Current
    <3>2. IsObject(Current, part)
      BY <2>2, <3>1, Written DEF ReadTyped
    <3>3. object' = [object EXCEPT ![Current] = part] /\ UNCHANGED library
      BY <1>13, <2>2 DEF Torn
    <3>4. \A s \in Src : object'[s] \in {None} \cup Made(Versioned(Needs(s)))
      BY <3>1, <3>2, <3>3 DEF TypeOK, IsObject
    <3>5. object' = [s \in Src |-> object'[s]]
      BY <3>3 DEF TypeOK
    <3> HIDE DEF part
    <3>6. TypeOK'
      BY <2>1, <3>3, <3>4, <3>5 DEF TypeOK, files
    <3> QED
      BY <2>1, <3>6 DEF BuiltThere, Built, ReadTyped
  <2>3. CASE pc # "compile"
    <3>1. pc = "link" /\ library' = part /\ UNCHANGED object
      BY <1>13, <2>3 DEF Torn
    <3>2. TypeOK'
      BY <2>1, <3>1 DEF TypeOK, ReadTyped, files
    <3> QED
      BY <2>1, <3>2 DEF BuiltThere, Built, ReadTyped
  <2> QED
    BY <2>2, <2>3
<1> QED
  BY <1>1, <1>2, <1>3, <1>4, <1>5, <1>6, <1>7, <1>8, <1>9, <1>10, <1>11, <1>12, <1>13
  DEF Next

-----------------------------------------------------------------------------

(* An edit counts only if nothing is being built and everything that was   *)
(* made from the file is older.                                            *)
LEMMA Edited ==
  ASSUME TypeOK, NEW f \in File, Edit(f)
  PROVE  /\ \A g \in settled' : g # f =>
              g \in settled /\ version'[g] = version[g] /\ mtime'[g] = mtime[g]
         /\ f \in settled' =>
              /\ pc = "idle" /\ mtime'[f] = now
              /\ Before(library, now)
              /\ \A s \in Src : f \in Needs(s) => Before(object[s], now)
<1>1. settled' \subseteq File
  BY DEF Edit, TypeOK
<1>2. \A g \in settled' : g # f =>
        g \in settled /\ version'[g] = version[g] /\ mtime'[g] = mtime[g]
  BY <1>1 DEF Edit, TypeOK, Versioned
<1>3. ASSUME f \in settled'
      PROVE  /\ pc = "idle"
             /\ Before(library, now)
             /\ \A s \in Src : f \in Needs(s) => Before(object[s], now)
  BY <1>3 DEF Edit
<1>4. mtime'[f] = now
  BY DEF Edit, TypeOK
<1> QED
  BY <1>2, <1>3, <1>4

(* An object gets the versions that the compiler has read, and they are    *)
(* current, unless they were edited during the build.                      *)
LEMMA ObjectsStep ==
  ASSUME TypeInv, ObjectsCurrent, ReadCurrent, Next
  PROVE  ObjectsCurrent'
<1> USE DEF TypeInv
<1>1. CASE \/ Tick \/ Begin \/ Reuse \/ Compile \/ Kept \/ Link \/ Linked
           \/ Done \/ Killed
  BY <1>1 DEF Tick, Begin, Reuse, Compile, Kept, Link, Linked, Done, Killed,
              files, ObjectsCurrent, Counted, Deps
<1>2. ASSUME NEW f \in File, Edit(f) PROVE ObjectsCurrent'
  <2> SUFFICES ASSUME NEW s \in Src, NEW g \in Counted(s)', object[s] # None
               PROVE  \/ object[s].of[g] = version'[g]
                      \/ object[s].time < mtime'[g]
    BY <1>2 DEF Edit, ObjectsCurrent
  <2>1. g \in settled' /\ g \in Deps(s)
    BY <1>2 DEF Edit, Counted, Deps
  <2>2. CASE g = f
    BY <1>2, <2>1, <2>2, Edited, Needed DEF Before
  <2>3. CASE g # f
    BY <1>2, <2>1, <2>3, Edited DEF ObjectsCurrent, Counted
  <2> QED
    BY <2>2, <2>3
<1>3. CASE Compiled
  <2>1. \A s \in Src : s # Current => object'[s] = object[s]
    BY <1>3 DEF Compiled, TypeOK
  <2>2. Current \in Src => object'[Current].of = read
    BY <1>3 DEF Compiled, TypeOK
  <2>3. \A s \in Src : Counted(s)' = Counted(s)
    BY <1>3 DEF Compiled, files, Counted, Deps
  <2> QED
    BY <1>3, <2>1, <2>2, <2>3 DEF Compiled, files, ObjectsCurrent, ReadCurrent
<1>4. CASE Error
  <2>1. \A s \in Src : object'[s] = None \/ object'[s] = object[s]
    BY <1>4 DEF Error, TypeOK
  <2> QED
    BY <1>4, <2>1 DEF Error, files, ObjectsCurrent, Counted, Deps
<1>5. CASE Torn
  <2>1. \A s \in Src : s # Current => object'[s] = object[s]
    BY <1>5 DEF Torn, TypeOK
  <2>2. Current \in Src /\ pc = "compile" => object'[Current].of = read
    BY <1>5 DEF Torn, TypeOK
  <2>3. pc # "compile" => object' = object
    BY <1>5 DEF Torn
  <2>4. \A s \in Src : Counted(s)' = Counted(s)
    BY <1>5 DEF Torn, files, Counted, Deps
  <2> QED
    BY <1>5, <2>1, <2>2, <2>3, <2>4 DEF Torn, files, ObjectsCurrent, ReadCurrent
<1>6. CASE Clean
  BY <1>6 DEF Clean, ObjectsCurrent
<1> QED
  BY <1>1, <1>2, <1>3, <1>4, <1>5, <1>6 DEF Next

(* The same for the library and the linker.                                *)
LEMMA LibraryStep ==
  ASSUME TypeInv, LibraryCurrent, ReadCurrent, Next
  PROVE  LibraryCurrent'
<1> USE DEF TypeInv
<1>1. CASE \/ Tick \/ Begin \/ Reuse \/ Compile \/ Compiled \/ Kept \/ Link
           \/ Done \/ Killed
  BY <1>1 DEF Tick, Begin, Reuse, Compile, Compiled, Kept, Link, Done, Killed,
              files, LibraryCurrent, Counted, Deps
<1>2. ASSUME NEW f \in File, Edit(f) PROVE LibraryCurrent'
  <2> SUFFICES ASSUME NEW s \in Src, NEW g \in Counted(s)', library # None
               PROVE  \/ library.of[s][g] = version'[g]
                      \/ library.time < mtime'[g]
    BY <1>2 DEF Edit, LibraryCurrent
  <2>1. g \in settled' /\ g \in Deps(s)
    BY <1>2 DEF Edit, Counted, Deps
  <2>2. CASE g = f
    BY <1>2, <2>1, <2>2, Edited DEF Before
  <2>3. CASE g # f
    BY <1>2, <2>1, <2>3, Edited DEF LibraryCurrent, Counted
  <2> QED
    BY <2>2, <2>3
<1>3. CASE Linked
  <2>1. library'.of = read /\ pc = "link"
    BY <1>3 DEF Linked
  <2> QED
    BY <1>3, <2>1 DEF Linked, files, LibraryCurrent, ReadCurrent, Counted, Deps
<1>4. CASE Error
  BY <1>4 DEF Error, files, LibraryCurrent, Counted, Deps
<1>5. CASE Torn
  <2>1. (pc = "link" /\ library'.of = read) \/ library' = library
    BY <1>5 DEF Torn
  <2> QED
    BY <1>5, <2>1 DEF Torn, files, LibraryCurrent, ReadCurrent, Counted, Deps
<1>6. CASE Clean
  BY <1>6 DEF Clean, LibraryCurrent
<1> QED
  BY <1>1, <1>2, <1>3, <1>4, <1>5, <1>6 DEF Next

(* The build has the last versions of what it passed.                      *)
LEMMA BuiltStep ==
  ASSUME TypeInv, ObjectsCurrent, BuiltCurrent, ReadCurrent, Next
  PROVE  BuiltCurrent'
<1> USE DEF TypeInv
<1>1. CASE Tick \/ Compile \/ Kept \/ Link \/ Linked
  BY <1>1 DEF Tick, Compile, Kept, Link, Linked, files, BuiltCurrent, Built,
              Counted, Deps
<1>2. ASSUME NEW f \in File, Edit(f) PROVE BuiltCurrent'
  <2>1. Built' = Built /\ UNCHANGED <<object, mm>>
    BY <1>2 DEF Edit, Built
  <2>2. f \in settled' => Built = {}
    BY <1>2, Edited DEF Built
  <2> QED
    BY <1>2, <2>1, <2>2, Edited DEF BuiltCurrent, Counted, Deps
<1>3. CASE Begin \/ Done \/ Error \/ Killed \/ Torn \/ Clean
  <2>1. Built' = {}
    BY <1>3 DEF Begin, Done, Error, Killed, Torn, Clean, Idle, Built
  <2> QED
    BY <2>1 DEF BuiltCurrent
<1>4. CASE Reuse
  <2>1. Current \in Src /\ Built' \subseteq Built \cup {Current}
    BY <1>4, ItemPassed DEF Reuse
  <2>2. /\ IsObject(Current, object[Current]) /\ object[Current] # None
        /\ \A f \in Deps(Current) : object[Current].time >= mtime[f]
    BY <1>4, <2>1, ReusedObject DEF Reuse
  <2>3. ASSUME NEW f \in Counted(Current)
        PROVE  object[Current].of[f] = version[f] /\ object[Current].time >= mtime[f]
    <3>1. object[Current].time >= mtime[f]
      BY <2>2 DEF Counted
    <3>2. object[Current].time \in Int /\ mtime[f] \in Int
      BY <2>1, <2>2, Needed DEF IsObject, Made, Counted, TypeOK
    <3> QED
      BY <2>1, <2>2, <3>1, <3>2 DEF ObjectsCurrent
  <2> QED
    BY <1>4, <2>1, <2>3 DEF Reuse, files, BuiltCurrent, Counted, Deps
<1>5. CASE Compiled
  <2>1. Current \in Src /\ Built' \subseteq Built \cup {Current}
    BY <1>5, ItemPassed DEF Compiled
  <2>2. object'[Current].of = read /\ object'[Current].time = now
    BY <1>5, <2>1 DEF Compiled, TypeOK
  <2>3. \A s \in Src : s # Current => object'[s] = object[s]
    BY <1>5 DEF Compiled, TypeOK
  <2>4. \A f \in Counted(Current) : read[f] = version[f] /\ now >= mtime[f]
    <3>1. \A f \in Counted(Current) : mtime[f] \in 0..now
      BY <2>1, Needed DEF Counted, TypeOK
    <3> QED
      BY <1>5, <3>1 DEF Compiled, ReadCurrent
  <2>5. Built \subseteq Src
    BY <1>5, Items DEF Compiled, Built, TypeOK
  <2>6. \A s : Counted(s)' = Counted(s)
    BY <1>5 DEF Compiled, files, Counted, Deps
  <2> QED
    BY <1>5, <2>1, <2>2, <2>3, <2>4, <2>5, <2>6 DEF Compiled, files, BuiltCurrent
<1> QED
  BY <1>1, <1>2, <1>3, <1>4, <1>5 DEF Next

(* A compiler reads what is there, a linker the objects of the build.      *)
LEMMA ReadStep ==
  ASSUME TypeInv, BuiltCurrent, ReadCurrent, Next
  PROVE  ReadCurrent'
<1> USE DEF TypeInv
<1>1. CASE Tick
  BY <1>1 DEF Tick, files, ReadCurrent, Current, Counted, Deps
<1>2. ASSUME NEW f \in File, Edit(f) PROVE ReadCurrent'
  <2>1. UNCHANGED <<pc, read, item, mm>>
    BY <1>2 DEF Edit
  <2>2. pc # "idle" => f \notin settled'
    BY <1>2, Edited
  <2> QED
    BY <1>2, <2>1, <2>2, Edited DEF ReadCurrent, Current, Counted, Deps
<1>3. CASE Compile
  <2>1. Current \in Src /\ Current' = Current
    BY <1>3, Items DEF Compile, TypeOK, Current
  <2>2. \A f \in Counted(Current) : read'[f] = version[f]
    BY <1>3, <2>1, Needed DEF Compile, Versions, Counted
  <2> QED
    BY <1>3, <2>1, <2>2 DEF Compile, files, ReadCurrent, Counted, Deps
<1>4. CASE Link
  <2>1. Built = Src
    BY <1>4 DEF Link, Built
  <2>2. \A s \in Src : read'[s] = object[s].of
    BY <1>4 DEF Link
  <2> QED
    BY <1>4, <2>1, <2>2 DEF Link, files, ReadCurrent, BuiltCurrent, Counted, Deps
<1>5. CASE Reuse \/ Compiled
  BY <1>5, ItemPassed DEF Reuse, Compiled, ReadCurrent
<1>6. CASE \/ Begin \/ Kept \/ Linked \/ Done \/ Error \/ Killed \/ Torn \/ Clean
  <2>1. pc' \in {"idle", "item", "done"}
    BY <1>6 DEF Begin, Kept, Linked, Done, Error, Killed, Torn, Clean, Idle
  <2> QED
    BY <2>1 DEF ReadCurrent
<1> QED
  BY <1>1, <1>2, <1>3, <1>4, <1>5, <1>6 DEF Next

(* A library that is kept is not older than an object, and so missed       *)
(* nothing that the objects have.                                          *)
LEMMA ReturnedStep ==
  ASSUME TypeInv, LibraryCurrent, BuiltCurrent, ReadCurrent, Returned, Next
  PROVE  Returned'
<1> USE DEF TypeInv
<1>1. CASE Tick
  BY <1>1 DEF Tick, files, Returned, Counted, Deps
<1>2. ASSUME NEW f \in File, Edit(f) PROVE Returned'
  <2>1. UNCHANGED <<pc, library, mm>>
    BY <1>2 DEF Edit
  <2>2. pc # "idle" => f \notin settled'
    BY <1>2, Edited
  <2> QED
    BY <1>2, <2>1, <2>2, Edited DEF Returned, Counted, Deps
<1>3. CASE Kept
  <2>1. Built = Src
    BY <1>3 DEF Kept, Built
  <2>2. library # None /\ \A s \in Src : ~ (object[s].time > library.time)
    BY <1>3 DEF Kept, OldLibrary, Newer
  <2>3. ASSUME NEW s \in Src, NEW f \in Counted(s)
        PROVE  library.of[s][f] = version[f]
    <3>1. object[s].time \in Int /\ library.time \in Int /\ mtime[f] \in Int
      BY <2>1, <2>2, Needed DEF BuiltThere, IsObject, Made, Counted, TypeOK
    <3>2. object[s].time >= mtime[f]
      BY <2>1 DEF BuiltCurrent
    <3>3. ~ (library.time < mtime[f])
      BY <2>2, <3>1, <3>2
    <3> QED
      BY <2>2, <3>3 DEF LibraryCurrent
  <2> QED
    BY <1>3, <2>3 DEF Kept, files, Returned, Counted, Deps
<1>4. CASE Linked
  <2>1. library'.of = read /\ pc = "link"
    BY <1>4 DEF Linked
  <2> QED
    BY <1>4, <2>1 DEF Linked, files, Returned, ReadCurrent, Counted, Deps
<1>5. CASE Reuse \/ Compiled
  BY <1>5, ItemPassed DEF Reuse, Compiled, Returned
<1>6. CASE \/ Begin \/ Compile \/ Link \/ Done \/ Error \/ Killed \/ Torn \/ Clean
  <2>1. pc' # "done"
    BY <1>6 DEF Begin, Compile, Link, Done, Error, Killed, Torn, Clean, Idle
  <2> QED
    BY <2>1 DEF Returned
<1> QED
  BY <1>1, <1>2, <1>3, <1>4, <1>5, <1>6 DEF Next

(* The linker has written the library to the end, unless it was killed.    *)
LEMMA WholeStep ==
  ASSUME TypeInv, LibraryWhole, Next
  PROVE  LibraryWhole'
<1> USE DEF TypeInv, LibraryWhole
<1>1. ASSUME NEW f \in File, Edit(f) PROVE LibraryWhole'
  BY <1>1 DEF Edit
<1>2. CASE Tick \/ Begin \/ Compile \/ Link \/ Done \/ Killed
  BY <1>2 DEF Tick, Begin, Compile, Link, Done, Killed, Idle
<1>3. CASE Reuse \/ Compiled
  BY <1>3, ItemPassed DEF Reuse, Compiled
<1>4. CASE Kept
  BY <1>4 DEF Kept, OldLibrary
<1>5. CASE Linked
  BY <1>5 DEF Linked
<1>6. CASE Error \/ Torn \/ Clean
  BY <1>6 DEF Error, Torn, Clean, Idle
<1> QED
  BY <1>1, <1>2, <1>3, <1>4, <1>5, <1>6 DEF Next

-----------------------------------------------------------------------------

LEMMA TypeInit == Init => TypeInv
<1> SUFFICES ASSUME Init PROVE TypeInv
  OBVIOUS
<1>1. now \in 1..MaxTime /\ edits \in 0..MaxEdit /\ 0 \in 0..MaxEdit /\ 0 \in 0..now
  BY BuildAssumption DEF Init
<1>2. version \in Versioned(File) /\ mtime \in [File -> 0..now]
  BY <1>1 DEF Init, Versioned
<1>3. item \in 0..Len(Source)
  BY Items DEF Init
<1> QED
  BY <1>1, <1>2, <1>3 DEF Init, TypeInv, TypeOK, BuiltThere, Built, ReadTyped

(* Every variable has its type.                                            *)
THEOREM TypeCorrect == Spec => []TypeOK
<1>1. TypeInv => TypeOK
  BY DEF TypeInv
<1> QED
  BY <1>1, TypeInit, TypeStep, PTL DEF Spec

(* The library that build returns is of the last version of every file     *)
(* whose last edit was made while nothing was built and later, by the      *)
(* clock, than everything that was made from the file, whatever builds     *)
(* failed or were killed.  It is whole, unless a build was killed while it *)
(* wrote a file and nothing was cleaned since.                             *)
THEOREM ReturnedUpToDate == Spec => []UpToDate
<1>1. Init => Inv
  <2>1. ASSUME Init PROVE Built = {}
    BY <2>1 DEF Init, Built
  <2> QED
    BY <2>1, TypeInit
    DEF Init, Inv, ObjectsCurrent, LibraryCurrent, BuiltCurrent, ReadCurrent,
        Returned, LibraryWhole
<1>2. Inv /\ [Next]_vars => Inv'
  <2> SUFFICES ASSUME Inv, [Next]_vars PROVE Inv'
    OBVIOUS
  <2>1. TypeInv'
    BY TypeStep DEF Inv
  <2>2. CASE Next
    BY <2>1, <2>2, ObjectsStep, LibraryStep, BuiltStep, ReadStep, ReturnedStep,
       WholeStep DEF Inv
  <2>3. CASE UNCHANGED vars
    BY <2>1, <2>3
    DEF vars, files, Inv, ObjectsCurrent, LibraryCurrent, BuiltCurrent, Built,
        ReadCurrent, Returned, LibraryWhole, Counted, Deps, Current
  <2> QED
    BY <2>2, <2>3
<1>3. Inv => UpToDate
  BY DEF Inv, Returned, LibraryWhole, UpToDate, Counted
<1> QED
  BY <1>1, <1>2, <1>3, PTL DEF Spec

-----------------------------------------------------------------------------
(* The numbers of versions grow: what a has of s is no later than what b   *)
(* has, and some of it is earlier.                                         *)
NotAfter(s, a, b) == \A f \in Needs(s) : a[f] <= b[f]
Behind(s, a, b) == \E f \in Needs(s) : a[f] < b[f]

(* Everything was made of versions that there have been, and what was made *)
(* of the last version of a file is not older than that file.              *)
MadeBefore ==
  /\ \A f \in File : version[f] <= edits
  /\ \A s \in Src : object[s] # None =>
       /\ NotAfter(s, object[s].of, version) /\ object[s].time <= now
       /\ \A f \in Needs(s) : object[s].of[f] = version[f] => mtime[f] <= object[s].time
  /\ library # None => \A s \in Src : NotAfter(s, library.of[s], version)
  /\ pc = "compile" => NotAfter(Current, read, version)

(* An object that is newer than the library, or is gone because it could   *)
(* not be compiled, has or had a version that the library does not have.   *)
NewerDiffers ==
  ~ torn /\ library # None =>
    \A s \in Src :
      IF object[s] = None THEN Behind(s, library.of[s], version)
      ELSE /\ NotAfter(s, library.of[s], object[s].of)
           /\ object[s].time > library.time => Behind(s, library.of[s], object[s].of)

(* The compiler has read a version that neither the object nor the library *)
(* has, the linker one that the library does not have.                     *)
ReadNew ==
  /\ pc = "compile" =>
       /\ object[Current] # None => Behind(Current, object[Current].of, read)
       /\ ~ torn /\ library # None =>
            /\ NotAfter(Current, library.of[Current], read)
            /\ Behind(Current, library.of[Current], read)
  /\ pc = "link" =>
       /\ read = [s \in Src |-> object[s].of]
       /\ library = None \/ library.of # read \/ torn


(* What is behind is behind everything that is later, and so is what is    *)
(* earlier.                                                                *)
LEMMA BehindLater ==
  ASSUME NEW s, NEW a \in Versioned(Needs(s)), NEW b \in Versioned(Needs(s)),
         NEW c \in Versioned(Needs(s)), NotAfter(s, b, c), Behind(s, a, b)
  PROVE  Behind(s, a, c)
<1>1. \A f \in Needs(s) : a[f] \in Int /\ b[f] \in Int /\ c[f] \in Int
  BY BuildAssumption DEF Versioned
<1> QED
  BY <1>1 DEF NotAfter, Behind

LEMMA BehindEarlier ==
  ASSUME NEW s, NEW a \in Versioned(Needs(s)), NEW b \in Versioned(Needs(s))
  PROVE  /\ Behind(s, a, b) => a # b
         /\ \A c \in Versioned(Needs(s)) :
              NotAfter(s, a, b) /\ Behind(s, b, c) => Behind(s, a, c)
<1>1. \A f \in Needs(s) : a[f] \in Int /\ b[f] \in Int
  BY BuildAssumption DEF Versioned
<1>2. \A c \in Versioned(Needs(s)) : \A f \in Needs(s) : c[f] \in Int
  BY BuildAssumption DEF Versioned
<1> QED
  BY <1>1, <1>2 DEF NotAfter, Behind

(* An object is not the lack of one.                                       *)
LEMMA Objects ==
  ASSUME NEW s \in Src, NEW x, IsObject(s, x)
  PROVE  x # None
<1>1. x \in [time : Nat, of : [Needs(s) -> Nat], whole : BOOLEAN]
  BY BuildAssumption DEF IsObject, Made, Versioned
<1>2. Needs(s) \in SUBSET File
  BY BuildAssumption DEF Needs, File
<1> QED
  BY <1>1, <1>2, BuildAssumption

(* A build links when it has every object.                                 *)
LEMMA AllThere ==
  ASSUME TypeInv, pc \in {"objects", "link"}, NEW s \in Src
  PROVE  object[s] # None
BY Objects DEF TypeInv, BuiltThere, Built

(* The versions of what a source needs, now and after a step.              *)
LEMMA VersionsOf ==
  ASSUME TypeOK, NEW s \in Src, NEW a
  PROVE  /\ Versions(s) \in Versioned(Needs(s))
         /\ NotAfter(s, a, Versions(s)) <=> NotAfter(s, a, version)
         /\ Behind(s, a, Versions(s)) <=> Behind(s, a, version)
BY Needed DEF Versions, NotAfter, Behind

(* What an object or the library was made of.                              *)
LEMMA MadeOf ==
  ASSUME TypeOK, NEW s \in Src
  PROVE  /\ object[s] # None => object[s].of \in Versioned(Needs(s)) /\ object[s].time \in Int
         /\ library # None => library.of[s] \in Versioned(Needs(s)) /\ library.time \in Int
BY DEF TypeOK, Made

(* An edit makes a version that nothing has yet.                           *)
LEMMA EditedLater ==
  ASSUME TypeOK, MadeBefore, NEW f \in File, Edit(f), NEW s \in Src,
         NEW a \in Versioned(Needs(s))
  PROVE  /\ NotAfter(s, a, version) => NotAfter(s, a, version')
         /\ Behind(s, a, version) => Behind(s, a, version')
         /\ \A g \in Needs(s) : NotAfter(s, a, version) /\ a[g] = version'[g] =>
              a[g] = version[g] /\ mtime'[g] = mtime[g]
<1>1. Needs(s) \subseteq File
  BY Needed
<1>2. edits \in Int /\ \A g \in File : version[g] \in Int /\ version[g] <= edits
  BY BuildAssumption DEF TypeOK, Versioned, MadeBefore
<1>3. \A g \in Needs(s) : a[g] \in Int
  BY BuildAssumption DEF Versioned
<1>4. version' = [version EXCEPT ![f] = edits + 1] /\ mtime' = [mtime EXCEPT ![f] = now]
  BY DEF Edit
<1>5. \A g \in File : version'[g] = IF g = f THEN edits + 1 ELSE version[g]
  BY <1>4 DEF TypeOK, Versioned
<1>6. \A g \in File : g # f => mtime'[g] = mtime[g]
  BY <1>4 DEF TypeOK
<1>7. \A g \in Needs(s) : version[g] <= version'[g] /\ version'[g] \in Int
  BY <1>1, <1>2, <1>5
<1>8. NotAfter(s, a, version) => NotAfter(s, a, version')
  BY <1>1, <1>2, <1>3, <1>7 DEF NotAfter
<1>9. Behind(s, a, version) => Behind(s, a, version')
  BY <1>1, <1>2, <1>3, <1>7 DEF Behind
<1>10. ASSUME NEW g \in Needs(s), NotAfter(s, a, version), a[g] = version'[g]
       PROVE  g # f
  <2>1. a[g] <= version[g]
    BY <1>10 DEF NotAfter
  <2> QED
    BY <1>1, <1>2, <1>3, <1>5, <1>10, <2>1
<1> QED
  BY <1>1, <1>5, <1>6, <1>8, <1>9, <1>10

(* Nobody writes a file with versions to come, or a time to come.          *)
LEMMA MadeStep ==
  ASSUME TypeInv, MadeBefore, ReadNew, Next
  PROVE  MadeBefore'
<1> USE DEF TypeInv
<1>1. \A f \in File : mtime[f] \in Int /\ mtime[f] <= now
  BY DEF TypeOK
<1>2. now \in Int
  BY DEF TypeOK
<1>3. CASE Tick
  <2>1. now' = now + 1 /\ UNCHANGED <<files, object, library, pc, item, read>>
    BY <1>3 DEF Tick
  <2>2. \A s \in Src : object[s] # None => object[s].time <= now'
    BY <1>2, <2>1, MadeOf DEF MadeBefore
  <2> QED
    BY <2>1, <2>2 DEF MadeBefore, files, Current, NotAfter
<1>4. ASSUME NEW f \in File, Edit(f) PROVE MadeBefore'
  <2>1. UNCHANGED <<now, object, library, pc, item, read>> /\ edits' = edits + 1
    BY <1>4 DEF Edit
  <2>2. \A g \in File : version'[g] <= edits'
    <3>1. \A g \in File : version[g] \in Int /\ version[g] <= edits /\ edits \in Int
      BY BuildAssumption DEF TypeOK, Versioned, MadeBefore
    <3>2. \A g \in File : version'[g] = IF g = f THEN edits + 1 ELSE version[g]
      BY <1>4 DEF Edit, TypeOK, Versioned
    <3> QED
      BY <2>1, <3>1, <3>2
  <2>3. ASSUME NEW s \in Src, object[s] # None
        PROVE  /\ NotAfter(s, object[s].of, version')
               /\ \A g \in Needs(s) : object[s].of[g] = version'[g] => mtime'[g] <= object[s].time
    <3>1. object[s].of \in Versioned(Needs(s)) /\ NotAfter(s, object[s].of, version)
      BY <2>3, MadeOf DEF MadeBefore
    <3>2. \A g \in Needs(s) : object[s].of[g] = version[g] => mtime[g] <= object[s].time
      BY <2>3 DEF MadeBefore
    <3> QED
      BY <1>4, <3>1, <3>2, EditedLater
  <2>4. library # None => \A s \in Src : NotAfter(s, library.of[s], version')
    BY <1>4, MadeOf, EditedLater DEF MadeBefore
  <2>5. ASSUME pc = "compile" PROVE NotAfter(Current, read, version')
    <3>1. Current \in Src /\ read \in Versioned(Needs(Current))
      BY <2>5, Items DEF TypeOK, Current, ReadTyped
    <3> QED
      BY <1>4, <2>5, <3>1, EditedLater DEF MadeBefore
  <2> QED
    BY <2>1, <2>2, <2>3, <2>4, <2>5 DEF MadeBefore, Current, NotAfter
<1>5. CASE Begin \/ Reuse \/ Kept \/ Link \/ Done \/ Killed
  <2>1. UNCHANGED <<now, files, object, library>>
    BY <1>5 DEF Begin, Reuse, Kept, Link, Done, Killed
  <2>2. pc' # "compile"
    BY <1>5, ItemPassed DEF Begin, Reuse, Kept, Link, Done, Killed, Idle
  <2> QED
    BY <2>1, <2>2 DEF MadeBefore, files, NotAfter
<1>6. CASE Compile
  <2>1. /\ UNCHANGED <<now, files, object, library, item>>
        /\ read' = Versions(Current) /\ Current \in Src
    BY <1>6, Items DEF Compile, TypeOK, Current
  <2>2. NotAfter(Current, read', version)
    <3>1. \A f \in Needs(Current) : version[f] \in Int
      BY <2>1, BuildAssumption, Needed DEF TypeOK, Versioned
    <3>2. \A f \in Needs(Current) : read'[f] = version[f]
      BY <2>1 DEF Versions
    <3> QED
      BY <3>1, <3>2 DEF NotAfter
  <2> QED
    BY <2>1, <2>2 DEF MadeBefore, files, NotAfter, Current
<1>7. ASSUME NEW b \in BOOLEAN, pc = "compile",
             object' = [object EXCEPT ![Current] = [time |-> now, of |-> read, whole |-> b]],
             UNCHANGED <<now, files, library>>, pc' # "compile"
      PROVE  MadeBefore'
  <2>1. Current \in Src
    BY <1>7, Items DEF TypeOK, Current
  <2>2. object'[Current].of = read /\ object'[Current].time = now
    BY <1>7, <2>1 DEF TypeOK
  <2>3. \A s \in Src : s # Current => object'[s] = object[s]
    BY <1>7 DEF TypeOK
  <2>4. \A f \in Needs(Current) : mtime[f] <= now
    BY <1>1, <2>1, Needed
  <2> QED
    BY <1>2, <1>7, <2>1, <2>2, <2>3, <2>4 DEF MadeBefore, files, NotAfter
<1>8. CASE Compiled
  BY <1>7, <1>8, ItemPassed DEF Compiled
<1>9. CASE Torn /\ pc = "compile"
  BY <1>7, <1>9 DEF Torn, Idle
<1>10. ASSUME pc = "link", pc' # "compile",
              library'.of = read, UNCHANGED <<now, files, object>>
       PROVE  MadeBefore'
  <2>1. \A s \in Src : object[s] # None
    BY <1>10, AllThere
  <2>2. \A s \in Src : library'.of[s] = object[s].of
    BY <1>10 DEF ReadNew
  <2> QED
    BY <1>10, <2>1, <2>2 DEF MadeBefore, files, NotAfter
<1>11. CASE Linked
  BY <1>10, <1>11 DEF Linked
<1>12. CASE Torn /\ pc # "compile"
  BY <1>10, <1>12 DEF Torn, Idle
<1>13. CASE Error
  <2>1. \A s \in Src : object'[s] = None \/ object'[s] = object[s]
    BY <1>13 DEF Error, TypeOK
  <2>2. library' = None \/ library' = library
    BY <1>13 DEF Error
  <2>3. UNCHANGED <<now, files>> /\ pc' = "idle"
    BY <1>13 DEF Error, Idle
  <2> QED
    BY <2>1, <2>2, <2>3 DEF MadeBefore, files, NotAfter
<1>14. CASE Clean
  BY <1>14 DEF Clean, MadeBefore
<1> QED
  BY <1>3, <1>4, <1>5, <1>6, <1>8, <1>9, <1>11, <1>12, <1>13, <1>14 DEF Next

(* An object that is written has what the library does not have, one that  *)
(* is removed was to be compiled from it.                                  *)
LEMMA NewerStep ==
  ASSUME TypeInv, MadeBefore, NewerDiffers, ReadNew, Next
  PROVE  NewerDiffers'
<1> USE DEF TypeInv
<1>1. CASE Tick \/ Begin \/ Reuse \/ Compile \/ Kept \/ Link \/ Done \/ Killed
  BY <1>1 DEF Tick, Begin, Reuse, Compile, Kept, Link, Done, Killed, files,
              NewerDiffers, NotAfter, Behind
<1>2. ASSUME NEW f \in File, Edit(f) PROVE NewerDiffers'
  <2>1. UNCHANGED <<object, library, torn>>
    BY <1>2 DEF Edit
  <2>2. ASSUME NEW s \in Src, library # None, Behind(s, library.of[s], version)
        PROVE  Behind(s, library.of[s], version')
    BY <1>2, <2>2, MadeOf, EditedLater
  <2> QED
    BY <2>1, <2>2 DEF NewerDiffers, NotAfter, Behind
<1>3. CASE Compiled
  <2>1. Current \in Src /\ pc = "compile" /\ UNCHANGED <<files, library, torn>>
    BY <1>3, ItemPassed DEF Compiled
  <2>2. object'[Current] = [time |-> now, of |-> read, whole |-> TRUE]
    BY <1>3, <2>1 DEF Compiled, TypeOK
  <2>3. object'[Current] # None /\ object'[Current].of = read
    <3>1. read \in Versioned(Needs(Current))
      BY <2>1 DEF ReadTyped
    <3>2. IsObject(Current, [time |-> now, of |-> read, whole |-> TRUE])
      BY <2>1, <3>1, Written
    <3>3. object'[Current] # None
      BY <2>1, <2>2, <3>2, Objects
    <3> QED
      BY <2>2, <3>3
  <2>4. \A s \in Src : s # Current => object'[s] = object[s]
    BY <1>3 DEF Compiled, TypeOK
  <2> QED
    BY <2>1, <2>3, <2>4 DEF NewerDiffers, ReadNew, files, NotAfter, Behind
<1>4. CASE Linked
  <2>1. /\ library'.time = now /\ library'.of = read /\ UNCHANGED <<files, object, torn>>
        /\ pc = "link"
    BY <1>4 DEF Linked
  <2>2. \A s \in Src : object[s] # None
    BY <2>1, AllThere
  <2>3. \A s \in Src : library'.of[s] = object[s].of
    BY <2>1 DEF ReadNew
  <2>4. \A s \in Src : ~ (object[s].time > library'.time)
    BY <2>1, <2>2, MadeOf DEF MadeBefore, TypeOK
  <2>5. \A s \in Src : NotAfter(s, object[s].of, object[s].of)
    BY <2>2, MadeOf, BuildAssumption DEF NotAfter, Versioned
  <2>6. \A s \in Src : NotAfter(s, library'.of[s], object[s].of)
    BY <2>3, <2>5
  <2> QED
    BY <2>1, <2>2, <2>4, <2>6 DEF NewerDiffers, NotAfter
<1>5. CASE Error
  <2>1. UNCHANGED <<files, torn>>
    BY <1>5 DEF Error
  <2>2. CASE library' = None
    BY <2>2 DEF NewerDiffers
  <2>3. CASE UNCHANGED <<object, library>>
    BY <2>1, <2>3 DEF NewerDiffers, files, NotAfter, Behind
  <2>4. CASE /\ pc = "compile" /\ UNCHANGED library
             /\ object' = [object EXCEPT ![Current] = None]
    <3>1. Current \in Src /\ read \in Versioned(Needs(Current))
      BY <2>4, Items DEF TypeOK, Current, ReadTyped
    <3>2. object'[Current] = None /\ \A s \in Src : s # Current => object'[s] = object[s]
      BY <2>4, <3>1 DEF TypeOK
    <3>3. ASSUME ~ torn, library # None PROVE Behind(Current, library.of[Current], version)
      <4>1. Behind(Current, library.of[Current], read)
        BY <2>4, <3>3 DEF ReadNew
      <4>2. NotAfter(Current, read, Versions(Current))
        BY <2>4, <3>1, VersionsOf DEF MadeBefore
      <4>3. library.of[Current] \in Versioned(Needs(Current))
        BY <3>1, <3>3, MadeOf
      <4>4. Behind(Current, library.of[Current], Versions(Current))
        BY <3>1, <4>1, <4>2, <4>3, VersionsOf, BehindLater
      <4> QED
        BY <3>1, <4>4, VersionsOf
    <3> QED
      BY <2>1, <2>4, <3>2, <3>3 DEF NewerDiffers, files, NotAfter, Behind
  <2> QED
    BY <1>5, <2>2, <2>3, <2>4 DEF Error
<1>6. CASE Torn
  BY <1>6 DEF Torn, NewerDiffers
<1>7. CASE Clean
  BY <1>7 DEF Clean, NewerDiffers
<1> QED
  BY <1>1, <1>2, <1>3, <1>4, <1>5, <1>6, <1>7 DEF Next

(* What is compiled was edited since, what is linked has a newer object.   *)
LEMMA ReadNewStep ==
  ASSUME TypeInv, MadeBefore, NewerDiffers, ReadNew, Next
  PROVE  ReadNew'
<1> USE DEF TypeInv
<1>1. CASE Tick
  BY <1>1 DEF Tick, ReadNew, Current, NotAfter, Behind
<1>2. ASSUME NEW f \in File, Edit(f) PROVE ReadNew'
  BY <1>2 DEF Edit, ReadNew, Current, NotAfter, Behind
<1>3. CASE Compile
  <2>1. /\ UNCHANGED <<files, object, library, item, torn>> /\ pc' = "compile"
        /\ read' = Versions(Current) /\ Current \in Src /\ Current' = Current
    BY <1>3, Items DEF Compile, TypeOK, Current
  <2> DEFINE s == Current
  <2>2. ASSUME object[s] # None PROVE Behind(s, object[s].of, Versions(s))
    <3>1. PICK f \in Deps(s) : mtime[f] > object[s].time
      BY <1>3, <2>1, <2>2 DEF Compile, OldObject, Newer
    <3>2. f \in Needs(s) /\ f \in File
      BY <2>1, <3>1, Needed
    <3>3. mtime[f] \in Int /\ object[s].time \in Int
      BY <2>1, <2>2, <3>2, MadeOf DEF TypeOK
    <3>4. object[s].of[f] <= version[f] /\ (object[s].of[f] = version[f] => mtime[f] <= object[s].time)
      BY <2>1, <2>2, <3>2 DEF MadeBefore, NotAfter
    <3>5. object[s].of[f] \in Int /\ version[f] \in Int
      BY <2>1, <2>2, <3>2, MadeOf, BuildAssumption DEF TypeOK, Versioned
    <3>6. object[s].of[f] < version[f]
      BY <3>1, <3>3, <3>4, <3>5
    <3> QED
      BY <3>2, <3>6 DEF Behind, Versions
  <2>3. ASSUME ~ torn, library # None
        PROVE  NotAfter(s, library.of[s], Versions(s)) /\ Behind(s, library.of[s], Versions(s))
    <3>1. NotAfter(s, library.of[s], Versions(s))
      BY <2>1, <2>3, VersionsOf DEF MadeBefore
    <3>2. CASE object[s] = None
      BY <2>1, <2>3, <3>1, <3>2, VersionsOf DEF NewerDiffers
    <3>3. CASE object[s] # None
      <4>1. library.of[s] \in Versioned(Needs(s)) /\ object[s].of \in Versioned(Needs(s))
        BY <2>1, <2>3, <3>3, MadeOf
      <4>2. NotAfter(s, library.of[s], object[s].of)
        BY <2>1, <2>3, <3>3 DEF NewerDiffers
      <4>3. Versions(s) \in Versioned(Needs(s))
        BY <2>1, VersionsOf
      <4>4. NotAfter(s, object[s].of, Versions(s))
        BY <2>1, <3>3, VersionsOf DEF MadeBefore
      <4>5. Behind(s, object[s].of, Versions(s))
        BY <2>2, <3>3
      <4> HIDE DEF s
      <4> QED
        BY <3>1, <4>1, <4>2, <4>3, <4>4, <4>5, BehindEarlier
    <3> QED
      BY <3>2, <3>3
  <2> QED
    BY <2>1, <2>2, <2>3 DEF ReadNew, NotAfter, Behind
<1>4. CASE Link
  <2>1. /\ UNCHANGED <<object, library, torn>> /\ pc' = "link" /\ pc = "objects"
        /\ read' = [s \in Src |-> object[s].of]
    BY <1>4 DEF Link
  <2>2. ASSUME library # None, ~ torn PROVE library.of # read'
    <3>1. PICK s \in Src : object[s].time > library.time
      BY <1>4, <2>2 DEF Link, OldLibrary, Newer
    <3>2. object[s] # None
      BY <2>1, AllThere
    <3>3. Behind(s, library.of[s], object[s].of)
      BY <2>2, <3>1, <3>2 DEF NewerDiffers
    <3>4. library.of[s] # object[s].of
      BY <2>2, <3>2, <3>3, MadeOf, BehindEarlier
    <3> QED
      BY <2>1, <3>4
  <2> QED
    BY <2>1, <2>2 DEF ReadNew
<1>5. CASE Reuse \/ Compiled
  BY <1>5, ItemPassed DEF Reuse, Compiled, ReadNew
<1>6. CASE \/ Begin \/ Kept \/ Linked \/ Done \/ Error \/ Killed \/ Torn \/ Clean
  <2>1. pc' \in {"idle", "item", "done"}
    BY <1>6 DEF Begin, Kept, Linked, Done, Error, Killed, Torn, Clean, Idle
  <2> QED
    BY <2>1 DEF ReadNew
<1> QED
  BY <1>1, <1>2, <1>3, <1>4, <1>5, <1>6 DEF Next

(* What is compiled is missing, was compiled from another version, or has  *)
(* the time of something it needs; what is linked is missing, has other    *)
(* objects, or the time of one, or a file that is torn is about.  (What    *)
(* the invariant says is that the code never needs the cases of the same   *)
(* time.)                                                                  *)
THEOREM MadeForAReason == Spec => []NothingTwice
<1> DEFINE All == TypeInv /\ MadeBefore /\ NewerDiffers /\ ReadNew
<1>1. Init => All
  BY TypeInit, BuildAssumption
  DEF Init, MadeBefore, NewerDiffers, ReadNew
<1>2. All /\ [Next]_vars => All'
  <2> SUFFICES ASSUME All, [Next]_vars PROVE All'
    OBVIOUS
  <2>1. TypeInv'
    BY TypeStep
  <2>2. CASE Next
    BY <2>1, <2>2, MadeStep, NewerStep, ReadNewStep
  <2>3. CASE UNCHANGED vars
    BY <2>1, <2>3
    DEF vars, files, MadeBefore, NewerDiffers, ReadNew, Current, NotAfter, Behind
  <2> QED
    BY <2>2, <2>3
<1>3. All => NothingTwice
  <2> SUFFICES ASSUME All PROVE NothingTwice
    OBVIOUS
  <2>1. ASSUME pc = "compile", object[Current] # None
        PROVE  \E f \in Needs(Current) : object[Current].of[f] # version[f]
    <3>1. Current \in Src /\ read \in Versioned(Needs(Current))
      BY <2>1, Items DEF TypeInv, TypeOK, Current, ReadTyped
    <3>2. PICK f \in Needs(Current) : object[Current].of[f] < read[f]
      BY <2>1 DEF ReadNew, Behind
    <3>3. read[f] <= version[f]
      BY <2>1 DEF MadeBefore, NotAfter
    <3>4. object[Current].of[f] \in Int /\ read[f] \in Int /\ version[f] \in Int
      <4>1. object[Current].of \in Versioned(Needs(Current)) /\ f \in File
        BY <2>1, <3>1, MadeOf, Needed DEF TypeInv
      <4>2. version \in Versioned(File)
        BY DEF TypeInv, TypeOK
      <4> QED
        BY <3>1, <4>1, <4>2, BuildAssumption DEF Versioned
    <3> QED
      BY <3>2, <3>3, <3>4
  <2> QED
    BY <2>1 DEF NothingTwice, ReadNew
<1> HIDE DEF All
<1> QED
  BY <1>1, <1>2, <1>3, PTL DEF Spec

=============================================================================
