---------------------------- MODULE Library_proofs ----------------------------
(* Theorems about the libraries of an FFI::Platypus object, for every set  *)
(* of libraries, symbols and languages.                                    *)
EXTENDS Library, WellFoundedInduction, TLAPS

(* A set of positions that is not empty has a first one.                   *)
LEMMA FirstPosition ==
  ASSUME NEW S \in SUBSET Nat, S # {}
  PROVE  Min(S) \in S /\ \A k \in S : Min(S) <= k
<1> DEFINE R == {ss \in Nat \X Nat : ss[1] < ss[2]}
<1>1. IsWellFoundedOn(R, Nat)
  BY NatLessThanWellFounded, Zenon DEF OpToRel
<1> HIDE DEF R
<1>2. \E x \in S : \A y \in S : ~ (<<y, x>> \in R)
  BY <1>1, WFMin
<1>3. \A x \in S, y \in S : ~ (<<y, x>> \in R) => x <= y
  BY DEF R
<1>4. PICK x \in S : \A y \in S : x <= y
  BY <1>2, <1>3
<1> QED
  BY <1>4 DEF Min

(* What one search does: it files the library it finds the symbol in, and  *)
(* leaves every library open as often as it was, but for the one that it   *)
(* found and that was not filed.                                           *)
Searched(r, hs, open) ==
  /\ r.path \in Path \cup {None}
  /\ r.handles = hs \cup ({r.path} \ {None})
  /\ r.opened \in [Path -> Nat]
  /\ \A p \in Path : r.opened[p] = IF p = r.path /\ p \notin hs /\ r.path # None
                                   THEN open[p] + 1 ELSE open[p]

LEMMA SearchEffect ==
  ASSUME NEW paths \in Seq(Path), NEW hs \in SUBSET Path, NEW open \in [Path -> Nat],
         NEW sym, NEW loads, NEW r, r = Search(paths, hs, open, sym, loads)
  PROVE  Searched(r, hs, open)
<1> DEFINE usable == hs \cup loads
           hits == {i \in DOMAIN paths : paths[i] \in usable /\ sym \in Exports[paths[i]]}
           hit == IF hits = {} THEN None ELSE paths[Min(hits)]
           searched == {paths[i] : i \in {j \in DOMAIN paths : \A k \in hits : j <= k}} \cap usable
           opens(p) == IF p \in searched /\ p \notin hs THEN 1 ELSE 0
           closes(p) == IF p \in searched /\ open[p] + opens(p) > 0 /\ Closes(p, hit, hs) THEN 1 ELSE 0
<1>1. r = [path |-> hit, handles |-> hs \cup ({hit} \ {None}),
           opened |-> [p \in Path |-> open[p] + opens(p) - closes(p)]]
  BY DEF Search
<1>2. ASSUME hits # {}
      PROVE  hit \in Path /\ hit \in searched
  <2>1. hits \in SUBSET Nat
    OBVIOUS
  <2>2. Min(hits) \in hits /\ \A k \in hits : Min(hits) <= k
    BY <1>2, <2>1, FirstPosition
  <2>3. /\ Min(hits) \in DOMAIN paths
        /\ paths[Min(hits)] \in usable
    BY <2>2
  <2>4. paths[Min(hits)] \in searched
    BY <2>2, <2>3
  <2>5. hit = paths[Min(hits)]
    BY <1>2
  <2>6. paths[Min(hits)] \in Path
    BY <2>3
  <2> HIDE DEF hits, hit, searched
  <2> QED
    BY <2>4, <2>5, <2>6
<1>3. hit \in Path \cup {None} /\ (hit # None => hit \in searched)
  BY <1>2
<1> HIDE DEF hits, hit, searched, usable
<1>4. \A p \in Path : /\ open[p] + opens(p) - closes(p) \in Nat
                      /\ open[p] + opens(p) - closes(p)
                           = IF p = hit /\ p \notin hs /\ hit # None
                             THEN open[p] + 1 ELSE open[p]
  BY <1>3, LibraryAssumption DEF Closes
<1> QED
  BY <1>1, <1>3, <1>4 DEF Searched

-----------------------------------------------------------------------------
(* The books                                                               *)

(* A library is open once for its handle, and once more for each bundle    *)
(* that opened it again.                                                   *)
Balanced(hs, open, bs) ==
  \A p \in Path : open[p] = bs[p] + (IF p \in hs THEN 1 ELSE 0)

(* A search keeps the books balanced, and files what it found.             *)
Kept(r, hs, bs) ==
  /\ r.path # None => r.path \in Path /\ r.path \in r.handles
  /\ hs \subseteq r.handles /\ r.handles \in SUBSET Path
  /\ r.opened \in [Path -> Nat]
  /\ Balanced(r.handles, r.opened, bs)

LEMMA SearchBalanced ==
  ASSUME NEW paths \in Seq(Path), NEW hs \in SUBSET Path, NEW open \in [Path -> Nat],
         NEW bs \in [Path -> Nat], NEW sym, NEW loads, Balanced(hs, open, bs),
         NEW r, r = Search(paths, hs, open, sym, loads)
  PROVE  Kept(r, hs, bs)
<1>0. Searched(r, hs, open)
  BY SearchEffect
<1>1. /\ r.path \in Path \cup {None}
      /\ r.handles = hs \cup ({r.path} \ {None})
      /\ r.opened \in [Path -> Nat]
      /\ \A p \in Path : r.opened[p] = IF p = r.path /\ p \notin hs /\ r.path # None
                                       THEN open[p] + 1 ELSE open[p]
  BY <1>0 DEF Searched
<1>2. None \notin Path
  BY LibraryAssumption
<1>3. Balanced(r.handles, r.opened, bs)
  <2> SUFFICES ASSUME NEW p \in Path
               PROVE  r.opened[p] = bs[p] + (IF p \in r.handles THEN 1 ELSE 0)
    BY DEF Balanced
  <2>1. /\ open[p] \in Nat /\ bs[p] \in Nat
        /\ open[p] = bs[p] + (IF p \in hs THEN 1 ELSE 0)
    BY DEF Balanced
  <2>2. CASE p \in hs
    BY <1>1, <2>1, <2>2
  <2>3. CASE p \notin hs
    BY <1>1, <1>2, <2>1, <2>3
  <2> QED
    BY <2>2, <2>3
<1>4. /\ r.path # None => r.path \in Path /\ r.path \in r.handles
      /\ hs \subseteq r.handles /\ r.handles \in SUBSET Path
  BY <1>1
<1> QED
  BY <1>1, <1>3, <1>4 DEF Kept

LEMMA ManglerTypes == NoMangler \in Mangler /\ OwnMangler \in Mangler
<1>1. <<>> \in Seq(Path)
  OBVIOUS
<1> QED
  BY <1>1 DEF NoMangler, OwnMangler, Mangler

Working == [by : Lang \cup {Own}, libs : Seq(Path)]

(* The mangler that find_symbol uses is the program's, the cached one or   *)
(* one made for the libraries.                                             *)
ForUse(u, m, paths) ==
  /\ u \in Working
  /\ \/ u = m
     \/ u = mymangler
     \/ mymangler = NoMangler /\ u.by \in Lang /\ u.libs = paths

LEMMA ManglerForType ==
  ASSUME TypeOK, ManglerCurrent, NEW m \in {mangler, NoMangler},
         CanMangle(m), NEW paths \in Seq(Path),
         NEW u, u = ManglerFor(m, paths)
  PROVE  ForUse(u, m, paths)
<1>0. OwnMangler \in Working
  BY DEF OwnMangler, Working
<1>1. CASE m # NoMangler
  <2>1. u = m /\ m = mangler
    BY <1>1 DEF ManglerFor
  <2>2. CASE mangler = mymangler
    BY <1>0, <1>1, <2>1, <2>2 DEF TypeOK, ForUse
  <2>3. CASE mangler.by \in Lang
    BY <2>1, <2>3 DEF TypeOK, Mangler, Working, ForUse
  <2> QED
    BY <1>1, <2>1, <2>2, <2>3 DEF ManglerCurrent
<1>2. CASE m = NoMangler /\ mymangler # NoMangler
  BY <1>0, <1>2 DEF ManglerFor, TypeOK, ForUse
<1>3. CASE m = NoMangler /\ mymangler = NoMangler
  BY <1>3 DEF ManglerFor, CanMangle, Working, ForUse
<1> QED
  BY <1>1, <1>2, <1>3 DEF ForUse

(* A mangler makes symbols of symbols.                                     *)
LEMMA MangleSymbol ==
  ASSUME NEW m \in Working, NEW name \in Symbol
  PROVE  Mangle(m, name) \in Symbol
<1>1. m.by \in Lang \cup {Own}
  BY DEF Working
<1>2. CASE m.by = Own
  BY <1>2, LibraryAssumption DEF Mangle
<1>3. CASE m.by \in Lang /\ m.by # Own
  <2>1. LangMangled[m.by][name] \in Symbol
    BY <1>3, LibraryAssumption
  <2> QED
    BY <1>3, <2>1 DEF Mangle
<1> QED
  BY <1>1, <1>2, <1>3

-----------------------------------------------------------------------------
(* The invariant                                                           *)

(* The books are balanced, at the end too; every address that something    *)
(* calls is of a library whose handle is filed; and when the object is     *)
(* gone nothing calls anything and no handle is filed.                     *)
Accounts ==
  /\ Balanced(handles, opened, again)
  /\ gone => ~ held /\ Callable = {} /\ handles = {}
  /\ \A a \in Callable : a.lib \in handles

IInv == TypeOK /\ ManglerCurrent /\ Accounts

(* A step that leaves the libraries and what is called alone.              *)
LEMMA AccountsKept ==
  ASSUME Accounts, UNCHANGED <<handles, opened, again, fini, functions, attached, held, gone>>
  PROVE  Accounts'
  BY DEF Accounts, Callable, Balanced

LEMMA InitInv == Init => IInv
<1> SUFFICES ASSUME Init PROVE IInv
  OBVIOUS
<1> USE LibraryAssumption DEF Init
<1>1. TypeOK
  <2>1. lib \in Seq(Path) /\ fini \in Seq(Address)
    OBVIOUS
  <2>2. mangler \in Mangler /\ mymangler \in {NoMangler, OwnMangler}
    BY ManglerTypes
  <2>3. opened \in [Path -> Nat] /\ bundled \in [Path -> Nat] /\ again \in [Path -> Nat]
    OBVIOUS
  <2> QED
    BY <2>1, <2>2, <2>3 DEF TypeOK
<1>2. ManglerCurrent
  BY DEF ManglerCurrent
<1>3. Callable = {}
  BY DEF Callable, ToSet
<1>4. Balanced(handles, opened, again)
  BY DEF Balanced
<1> QED
  BY <1>1, <1>2, <1>3, <1>4 DEF IInv, Accounts

LEMMA LibInv ==
  ASSUME IInv, NEW p \in Path, Lib(p)
  PROVE  IInv'
<1>1. TypeOK'
  BY ManglerTypes DEF IInv, TypeOK, Lib, bundles, uses
<1>2. ManglerCurrent'
  BY DEF Lib, ManglerCurrent
<1>3. Accounts'
  BY AccountsKept DEF IInv, Lib, bundles, uses
<1> QED
  BY <1>1, <1>2, <1>3 DEF IInv

LEMMA SetManglerInv ==
  ASSUME IInv, NEW m \in {NoMangler, OwnMangler}, SetMangler(m)
  PROVE  IInv'
<1>1. TypeOK'
  BY ManglerTypes DEF IInv, TypeOK, SetMangler, settings, bundles, uses
<1>2. ManglerCurrent'
  BY DEF SetMangler, ManglerCurrent
<1>3. Accounts'
  BY AccountsKept DEF IInv, SetMangler, bundles, uses
<1> QED
  BY <1>1, <1>2, <1>3 DEF IInv

LEMMA SetLangInv ==
  ASSUME IInv, NEW l \in Lang \cup BadLang, SetLang(l)
  PROVE  IInv'
<1>1. TypeOK'
  BY DEF IInv, TypeOK, SetLang, bundles, uses
<1>2. ManglerCurrent'
  BY DEF IInv, SetLang, ManglerCurrent
<1>3. Accounts'
  BY AccountsKept DEF IInv, SetLang, bundles, uses
<1> QED
  BY <1>1, <1>2, <1>3 DEF IInv

-----------------------------------------------------------------------------
(* Functions                                                               *)

(* find_symbol keeps the books, and the address it returns is of a library *)
(* that is filed.                                                          *)
LEMMA FindInv ==
  ASSUME IInv, NEW name \in Name, NEW loads, FindSymbol(name, loads),
         NEW f, f = Find(name, loads)
  PROVE  /\ f.path \in SUBSET Address
         /\ \A a \in f.path : a.lib \in handles'
         /\ handles \subseteq handles'
         /\ handles' \in SUBSET Path
         /\ opened' \in [Path -> Nat]
         /\ Balanced(handles', opened', again)
         /\ mangler' \in Mangler
         /\ ManglerCurrent'
<1> DEFINE m == ManglerFor(mangler, lib)
           sym == Mangle(m, name)
           found == Search(lib, handles, opened, sym, loads)
<1>0. /\ TypeOK /\ ManglerCurrent /\ ~ gone /\ CanMangle(mangler)
      /\ lib \in Seq(Path) /\ handles \in SUBSET Path /\ opened \in [Path -> Nat]
      /\ again \in [Path -> Nat] /\ Balanced(handles, opened, again)
  BY DEF IInv, Accounts, TypeOK, FindSymbol
<1>1. m \in Working /\ ForUse(m, mangler, lib)
  BY <1>0, ManglerForType DEF ForUse
<1>2. sym \in Symbol
  BY <1>1, MangleSymbol, LibraryAssumption
<1> HIDE DEF m, sym
<1>3. /\ found.path # None => found.path \in Path /\ found.path \in found.handles
      /\ handles \subseteq found.handles /\ found.handles \in SUBSET Path
      /\ found.opened \in [Path -> Nat]
      /\ Balanced(found.handles, found.opened, again)
  BY <1>0, SearchBalanced DEF Kept
<1>4. found = [path |-> found.path, handles |-> found.handles, opened |-> found.opened]
  BY DEF Search
<1>5. f = [found EXCEPT !.path = IF @ = None THEN {} ELSE {[lib |-> @, sym |-> sym]}]
  BY DEF Find, m, sym
<1> HIDE DEF found
<1>6. /\ f.path = IF found.path = None THEN {} ELSE {[lib |-> found.path, sym |-> sym]}
      /\ f.handles = found.handles /\ f.opened = found.opened
  BY <1>4, <1>5
<1>7. handles' = found.handles /\ opened' = found.opened /\ mangler' = m
  BY <1>6 DEF FindSymbol, m
<1>8. f.path \in SUBSET Address /\ \A a \in f.path : a.lib \in handles'
  BY <1>2, <1>3, <1>6, <1>7 DEF Address
<1>9. mangler' \in Mangler
  BY <1>1, <1>7 DEF Working, Mangler
<1>10. UNCHANGED <<lib, mymangler>>
  BY DEF FindSymbol, settings
<1>11. ManglerCurrent'
  BY <1>0, <1>1, <1>7, <1>10 DEF ManglerCurrent, ForUse
<1> QED
  BY <1>3, <1>7, <1>8, <1>9, <1>11

LEMMA FunctionInv ==
  ASSUME IInv, NEW name \in Name, NEW loads, Function(name, loads) \/ Attach(name, loads)
  PROVE  IInv'
<1> DEFINE f == Find(name, loads)
<1>0. FindSymbol(name, loads)
  BY DEF Function, Attach
<1>1. /\ f.path \in SUBSET Address
      /\ \A a \in f.path : a.lib \in handles'
      /\ handles \subseteq handles'
      /\ handles' \in SUBSET Path
      /\ opened' \in [Path -> Nat]
      /\ Balanced(handles', opened', again)
      /\ mangler' \in Mangler
      /\ ManglerCurrent'
  BY <1>0, FindInv
<1>2. /\ functions' \in {functions, functions \cup f.path}
      /\ attached' \in {attached, attached \cup f.path}
  BY DEF Function, Attach
<1> HIDE DEF f
<1>3. /\ held /\ UNCHANGED <<lang, lib, mymangler, fini, bundled, again, inited, held, gone>>
  BY <1>0 DEF FindSymbol, settings, bundles
<1>4. TypeOK'
  BY <1>1, <1>2, <1>3 DEF IInv, TypeOK
<1>5. Accounts'
  <2>1. ~ gone'
    BY <1>3 DEF IInv, Accounts
  <2>2. \A a \in Callable' : a.lib \in handles'
    BY <1>1, <1>2, <1>3 DEF IInv, Accounts, Callable
  <2>3. Balanced(handles', opened', again')
    BY <1>1, <1>3
  <2> QED
    BY <2>1, <2>2, <2>3 DEF Accounts, Balanced
<1> QED
  BY <1>1, <1>4, <1>5 DEF IInv

-----------------------------------------------------------------------------
(* Bundles                                                                 *)

(* The books of the handles `hs', the counts `open' and the counts `bs'.   *)
Books(hs, open, bs) ==
  /\ hs \in SUBSET Path /\ open \in [Path -> Nat] /\ bs \in [Path -> Nat]
  /\ Balanced(hs, open, bs)

(* The counts `more' are the counts `count', with one more of p.           *)
OneMore(more, count, p) ==
  /\ more \in [Path -> Nat] /\ more[p] = count[p] + 1
  /\ \A q \in Path : q # p => more[q] = count[q]

(* A library that is opened once more and filed: the books say whether it  *)
(* was filed before.                                                       *)
LEMMA Loaded ==
  ASSUME NEW hs, NEW open, NEW bs, NEW p \in Path, Books(hs, open, bs),
         NEW filed, filed = hs \cup {p},
         NEW more, OneMore(more, open, p),
         NEW new, IF p \in hs THEN OneMore(new, bs, p) ELSE new = bs
  PROVE  Books(filed, more, new)
<1>0. hs \in SUBSET Path /\ open \in [Path -> Nat] /\ bs \in [Path -> Nat]
  BY DEF Books
<1>1. CASE p \in hs
  BY <1>0, <1>1 DEF Books, Balanced, OneMore
<1>2. CASE p \notin hs
  BY <1>0, <1>2 DEF Books, Balanced, OneMore
<1> QED
  BY <1>1, <1>2

(* The exit functions after one more.                                      *)
LEMMA FiniAppended ==
  ASSUME NEW s \in Seq(Address), NEW a \in Address
  PROVE  /\ Append(s, a) \in Seq(Address)
         /\ ToSet(Append(s, a)) = ToSet(s) \cup {a}
<1>1. /\ Len(Append(s, a)) = Len(s) + 1
      /\ \A i \in 1..Len(s) : Append(s, a)[i] = s[i]
      /\ Append(s, a)[Len(s) + 1] = a
  OBVIOUS
<1>2. DOMAIN s = 1..Len(s) /\ DOMAIN Append(s, a) = 1..Len(s) + 1
  OBVIOUS
<1>3. 1..Len(s) + 1 = 1..Len(s) \cup {Len(s) + 1}
  OBVIOUS
<1> QED
  BY <1>1, <1>2, <1>3 DEF ToSet

LEMMA BundleInv ==
  ASSUME IInv, NEW p \in Path, NEW loads, Bundle(p, loads)
  PROVE  IInv'
<1> DEFINE paths == Append(lib, p)
           m == ManglerFor(NoMangler, paths)
           bs == IF p \in handles THEN [again EXCEPT ![p] = @ + 1] ELSE again
           Entry(sym, s) == Search(paths, s.handles, s.opened, Mangle(m, sym), loads)
           loaded == [handles |-> handles \cup {p}, opened |-> [opened EXCEPT ![p] = @ + 1]]
           init == Entry(InitSym, loaded)
           constant == Entry(ConstantSym, init)
           exit == Entry(FiniSym, constant)
           Fine(s) == /\ s.handles \in SUBSET Path /\ s.opened \in [Path -> Nat]
                      /\ Balanced(s.handles, s.opened, bs)
<1>0. /\ TypeOK /\ ManglerCurrent /\ ~ gone /\ CanMangle(NoMangler)
      /\ paths \in Seq(Path) /\ handles \in SUBSET Path /\ opened \in [Path -> Nat]
      /\ again \in [Path -> Nat] /\ Balanced(handles, opened, again)
  BY DEF IInv, Accounts, TypeOK, Bundle, BundleStart
<1>1. m \in Working /\ ForUse(m, NoMangler, paths)
  BY <1>0, ManglerForType DEF ForUse
<1>2. /\ mangler' = m /\ handles' = exit.handles /\ opened' = exit.opened
      /\ lib' = paths /\ again' = bs /\ held
      /\ bundled' = [bundled EXCEPT ![p] = @ + 1]
      /\ UNCHANGED <<lang, mymangler, functions, attached, held, gone>>
      /\ inited' = IF init.path = None THEN inited
                   ELSE inited \cup {[package |-> p,
                                      address |-> [lib |-> init.path, sym |-> Mangle(m, InitSym)]]}
      /\ fini' = IF exit.path = None THEN fini
                 ELSE Append(fini, [lib |-> exit.path, sym |-> Mangle(m, FiniSym)])
  BY DEF Bundle, BundleStart, uses
<1>3. Mangle(m, InitSym) \in Symbol /\ Mangle(m, FiniSym) \in Symbol
  BY <1>1, MangleSymbol, LibraryAssumption
<1> HIDE DEF m, paths
<1>4. bs \in [Path -> Nat] /\ Fine(loaded)
  <2>1. Books(handles, opened, again)
    BY <1>0 DEF Books
  <2>2. loaded.handles = handles \cup {p} /\ OneMore(loaded.opened, opened, p)
    BY <1>0 DEF OneMore
  <2>3. IF p \in handles THEN OneMore(bs, again, p) ELSE bs = again
    BY <1>0 DEF OneMore
  <2> HIDE DEF bs, loaded
  <2>4. Books(loaded.handles, loaded.opened, bs)
    BY <2>1, <2>2, <2>3, Loaded
  <2> QED
    BY <2>4 DEF Books
<1> HIDE DEF bs, loaded
<1>5. Kept(init, loaded.handles, bs)
  <2>1. init = Search(paths, loaded.handles, loaded.opened, Mangle(m, InitSym), loads)
    OBVIOUS
  <2> QED
    BY <1>0, <1>4, <2>1, SearchBalanced
<1> HIDE DEF init
<1>6. Kept(constant, init.handles, bs)
  <2>1. constant = Search(paths, init.handles, init.opened, Mangle(m, ConstantSym), loads)
    OBVIOUS
  <2>2. Fine(init)
    BY <1>5 DEF Kept
  <2> QED
    BY <1>0, <1>4, <2>1, <2>2, SearchBalanced
<1> HIDE DEF constant
<1>7. Kept(exit, constant.handles, bs)
  <2>1. exit = Search(paths, constant.handles, constant.opened, Mangle(m, FiniSym), loads)
    OBVIOUS
  <2>2. Fine(constant)
    BY <1>6 DEF Kept
  <2> QED
    BY <1>0, <1>4, <2>1, <2>2, SearchBalanced
<1> HIDE DEF exit
<1> USE DEF Kept
<1>8. handles \subseteq handles'
  BY <1>2, <1>5, <1>6, <1>7 DEF loaded
<1>9. fini' \in Seq(Address) /\ \A a \in ToSet(fini') : a \in ToSet(fini) \/ a.lib \in handles'
  <2>1. CASE exit.path = None
    BY <1>0, <1>2, <2>1 DEF TypeOK
  <2>2. CASE exit.path # None
    <3>1. [lib |-> exit.path, sym |-> Mangle(m, FiniSym)] \in Address
      BY <1>3, <1>7, <2>2 DEF Address
    <3>2. /\ fini \in Seq(Address) /\ exit.path \in handles'
          /\ fini' = Append(fini, [lib |-> exit.path, sym |-> Mangle(m, FiniSym)])
      BY <1>0, <1>2, <1>7, <2>2 DEF TypeOK
    <3> QED
      BY <3>1, <3>2, FiniAppended
  <2> QED
    BY <2>1, <2>2
<1>10. TypeOK'
  <2>1. mangler' \in Mangler
    BY <1>1, <1>2 DEF Working, Mangler
  <2>2. inited' \subseteq [package : Path, address : Address]
    BY <1>0, <1>2, <1>3, <1>5 DEF TypeOK, Address
  <2>3. bundled' \in [Path -> Nat] /\ again' \in [Path -> Nat]
    <3>1. bundled \in [Path -> Nat]
      BY <1>0 DEF TypeOK
    <3>2. [bundled EXCEPT ![p] = @ + 1] \in [Path -> Nat]
      BY <3>1
    <3> QED
      BY <1>2, <1>4, <3>2
  <2>4. handles' \in SUBSET Path /\ opened' \in [Path -> Nat]
    BY <1>2, <1>7
  <2>5. lib' \in Seq(Path) /\ fini' \in Seq(Address)
    BY <1>0, <1>2, <1>9
  <2>6. /\ lang' \in Lang \cup BadLang /\ mymangler' \in {NoMangler, OwnMangler}
        /\ functions' \subseteq Address /\ attached' \subseteq Address
        /\ held' \in BOOLEAN /\ gone' \in BOOLEAN
    BY <1>0, <1>2 DEF TypeOK
  <2> QED
    BY <2>1, <2>2, <2>3, <2>4, <2>5, <2>6 DEF TypeOK
<1>11. ManglerCurrent'
  BY <1>1, <1>2 DEF ForUse, ManglerCurrent
<1>12. Accounts'
  <2>1. ~ gone'
    BY <1>0, <1>2
  <2>2. \A a \in Callable' : a.lib \in handles'
    BY <1>2, <1>8, <1>9 DEF IInv, Accounts, Callable
  <2>3. Balanced(handles', opened', again')
    BY <1>2, <1>7
  <2> QED
    BY <2>1, <2>2, <2>3 DEF Accounts, Balanced
<1> QED
  BY <1>10, <1>11, <1>12 DEF IInv

LEMMA BundleRaisesInv ==
  ASSUME IInv, NEW p \in Path, BundleRaises(p)
  PROVE  IInv'
<1>1. /\ TypeOK /\ Balanced(handles, opened, again) /\ ~ gone
      /\ handles \in SUBSET Path /\ opened \in [Path -> Nat] /\ again \in [Path -> Nat]
      /\ bundled \in [Path -> Nat]
  BY DEF IInv, Accounts, TypeOK, BundleRaises, BundleStart
<1>2. /\ handles' = handles \cup {p} /\ handles' \in SUBSET Path
      /\ opened' \in [Path -> Nat] /\ again' \in [Path -> Nat]
      /\ Balanced(handles', opened', again')
  <2>1. Books(handles, opened, again)
    BY <1>1 DEF Books
  <2>2. handles' = handles \cup {p} /\ OneMore(opened', opened, p)
    BY <1>1 DEF BundleRaises, BundleStart, OneMore
  <2>3. IF p \in handles THEN OneMore(again', again, p) ELSE again' = again
    BY <1>1 DEF BundleRaises, BundleStart, OneMore
  <2>4. Books(handles', opened', again')
    BY <2>1, <2>2, <2>3, Loaded
  <2> QED
    BY <2>2, <2>4 DEF Books
<1>3. /\ lib' = Append(lib, p) /\ mangler' = NoMangler
      /\ UNCHANGED <<lang, mymangler, fini, inited, functions, attached, held, gone>>
  BY DEF BundleRaises, BundleStart, uses
<1>4. TypeOK'
  <2>1. lib' \in Seq(Path) /\ bundled' \in [Path -> Nat]
    BY <1>1 DEF TypeOK, BundleRaises, BundleStart
  <2> QED
    BY <1>1, <1>2, <1>3, <2>1, ManglerTypes DEF TypeOK
<1>5. ManglerCurrent'
  BY <1>3 DEF ManglerCurrent
<1>6. \A a \in Callable' : a.lib \in handles'
  BY <1>2, <1>3 DEF IInv, Accounts, Callable
<1>7. Accounts'
  BY <1>1, <1>2, <1>3, <1>6 DEF Accounts, Balanced
<1> QED
  BY <1>4, <1>5, <1>7 DEF IInv

-----------------------------------------------------------------------------
(* The end of the object                                                   *)

LEMMA DropFunctionInv ==
  ASSUME IInv, NEW a \in functions, DropFunction(a)
  PROVE  IInv'
<1> USE DEF DropFunction, settings, bundles
<1>1. TypeOK'
  BY DEF IInv, TypeOK
<1>2. ManglerCurrent'
  BY DEF IInv, ManglerCurrent
<1>3. Accounts'
  BY DEF IInv, Accounts, Callable, Balanced
<1> QED
  BY <1>1, <1>2, <1>3 DEF IInv

LEMMA DropInv ==
  ASSUME IInv, Drop
  PROVE  IInv'
<1> USE DEF Drop, settings, bundles
<1>1. TypeOK'
  BY DEF IInv, TypeOK
<1>2. ManglerCurrent'
  BY DEF IInv, ManglerCurrent
<1>3. Accounts'
  BY DEF IInv, Accounts, Callable, Balanced
<1> QED
  BY <1>1, <1>2, <1>3 DEF IInv

LEMMA CallFiniInv ==
  ASSUME IInv, CallFini
  PROVE  IInv'
<1>0. UNCHANGED <<lang, lib, mangler, mymangler, handles, opened,
                  bundled, again, inited, functions, attached, held, gone>>
  BY DEF CallFini, settings, uses
<1>1. fini' \in Seq(Address) /\ ToSet(fini') \subseteq ToSet(fini)
  <2>1. fini \in Seq(Address) /\ fini # <<>> /\ fini' = Tail(fini)
    BY DEF IInv, TypeOK, CallFini
  <2>2. /\ fini' \in Seq(Address) /\ Len(fini') = Len(fini) - 1
        /\ \A i \in 1..Len(fini') : fini'[i] = fini[i + 1] /\ i + 1 \in 1..Len(fini)
    BY <2>1
  <2>3. DOMAIN fini = 1..Len(fini) /\ DOMAIN fini' = 1..Len(fini')
    BY <2>1, <2>2
  <2> QED
    BY <2>2, <2>3 DEF ToSet
<1>2. TypeOK'
  BY <1>0, <1>1 DEF IInv, TypeOK
<1>3. ManglerCurrent'
  BY <1>0 DEF IInv, ManglerCurrent
<1>4. Accounts'
  BY <1>0, <1>1 DEF IInv, Accounts, Callable, Balanced
<1> QED
  BY <1>2, <1>3, <1>4 DEF IInv

LEMMA CloseHandlesInv ==
  ASSUME IInv, CloseHandles
  PROVE  IInv'
<1>0. /\ UNCHANGED <<lang, lib, mangler, mymangler, fini, bundled, again, inited,
                     functions, attached, held>>
      /\ gone' /\ ~ gone /\ handles' = {} /\ Unreferenced /\ fini = <<>>
      /\ opened' = [p \in Path |-> IF p \in handles THEN opened[p] - 1 ELSE opened[p]]
  BY DEF CloseHandles, settings, bundles
<1>1. /\ handles \in SUBSET Path /\ opened \in [Path -> Nat] /\ again \in [Path -> Nat]
      /\ Balanced(handles, opened, again)
  BY <1>0 DEF IInv, Accounts, TypeOK
<1>2. \A p \in Path : opened'[p] \in Nat /\ opened'[p] = again[p]
  BY <1>0, <1>1 DEF Balanced
<1>3. opened' \in [Path -> Nat]
  BY <1>0, <1>2
<1>4. TypeOK'
  BY <1>0, <1>3 DEF IInv, TypeOK
<1>5. ManglerCurrent'
  BY <1>0 DEF IInv, ManglerCurrent
<1>6. Callable' = {}
  BY <1>0 DEF Callable, Unreferenced, ToSet
<1>7. Accounts'
  BY <1>0, <1>2, <1>6 DEF Accounts, Balanced, Unreferenced
<1> QED
  BY <1>4, <1>5, <1>7 DEF IInv

-----------------------------------------------------------------------------
(* Theorems                                                                *)

LEMMA NextInv == IInv /\ [Next]_vars => IInv'
<1> SUFFICES ASSUME IInv, [Next]_vars PROVE IInv'
  OBVIOUS
<1>1. ASSUME NEW p \in Path, Lib(p) \/ BundleRaises(p) PROVE IInv'
  BY <1>1, LibInv, BundleRaisesInv
<1>2. ASSUME NEW m \in {NoMangler, OwnMangler}, SetMangler(m) PROVE IInv'
  BY <1>2, SetManglerInv
<1>3. ASSUME NEW l \in Lang \cup BadLang, SetLang(l) PROVE IInv'
  BY <1>3, SetLangInv
<1>4. ASSUME NEW name \in Name, NEW loads \in Loads,
             Function(name, loads) \/ Attach(name, loads)
      PROVE  IInv'
  BY <1>4, FunctionInv
<1>5. ASSUME NEW p \in Path, NEW loads \in Loads, Bundle(p, loads) PROVE IInv'
  BY <1>5, BundleInv
<1>6. ASSUME NEW a \in functions, DropFunction(a) PROVE IInv'
  BY <1>6, DropFunctionInv
<1>7. ASSUME Drop \/ CallFini \/ CloseHandles PROVE IInv'
  BY <1>7, DropInv, CallFiniInv, CloseHandlesInv
<1>8. CASE UNCHANGED vars
  <2>1. TypeOK'
    BY <1>8 DEF vars, IInv, TypeOK
  <2>2. ManglerCurrent'
    BY <1>8 DEF vars, IInv, ManglerCurrent
  <2>3. Accounts'
    BY <1>8, AccountsKept DEF vars, IInv
  <2> QED
    BY <2>1, <2>2, <2>3 DEF IInv
<1> QED
  BY <1>1, <1>2, <1>3, <1>4, <1>5, <1>6, <1>7, <1>8 DEF Next

(* Whatever is set, looked for, bundled and dropped, in any order: the     *)
(* invariant holds.                                                        *)
THEOREM LibraryInvariance == Spec => []IInv
<1>1. Init => IInv
  BY InitInv
<1>2. IInv /\ [Next]_vars => IInv'
  BY NextInv
<1> QED
  BY <1>1, <1>2, PTL DEF Spec

(* The variables of Library keep their types.                              *)
THEOREM LibraryTypes == Spec => []TypeOK
<1>1. IInv => TypeOK
  BY DEF IInv
<1> QED
  BY <1>1, LibraryInvariance, PTL

(* find_symbol and DESTROY: every address that can still be called is of   *)
(* an open library.                                                        *)
THEOREM AddressesStayMapped == Spec => []AddressesMapped
<1>1. IInv => AddressesMapped
  <2> SUFFICES ASSUME IInv, NEW a \in Callable PROVE opened[a.lib] > 0
    BY DEF AddressesMapped
  <2>1. a.lib \in handles /\ ~ gone
    BY DEF IInv, Accounts
  <2> QED
    BY <2>1 DEF IInv, Accounts, Balanced, TypeOK
<1> QED
  BY <1>1, LibraryInvariance, PTL

(* find_symbol, bundle and DESTROY: every library is open exactly once for *)
(* its handle and once for each bundle that opened it when it was filed.   *)
THEOREM HandlesDoNotLeak == Spec => []NoHandleLeak
<1>1. IInv => NoHandleLeak
  BY DEF IInv, Accounts, Balanced, NoHandleLeak
<1> QED
  BY <1>1, LibraryInvariance, PTL

(* Both together: libraries are open as long as they are needed.           *)
THEOREM LibrariesOpenAsNeeded == Spec => []OpenAsNeeded
<1>1. AddressesMapped /\ NoHandleLeak => OpenAsNeeded
  BY DEF OpenAsNeeded
<1> QED
  BY <1>1, AddressesStayMapped, HandlesDoNotLeak, PTL

(* lib, bundle, mangler and find_symbol: the cached mangler is the one     *)
(* that the program gave, or one for the libraries now in the list.        *)
THEOREM ManglerStaysCurrent == Spec => []ManglerCurrent
<1>1. IInv => ManglerCurrent
  BY DEF IInv
<1> QED
  BY <1>1, LibraryInvariance, PTL
=============================================================================
