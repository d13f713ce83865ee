------------------------------- MODULE Library -------------------------------
(***************************************************************************)
(* The libraries of one FFI::Platypus object, and how it finds symbols.    *)
(*                                                                         *)
(* The object keeps a list of paths.  find_symbol opens them in order      *)
(* until one has the symbol, and files the handle of that one; the others  *)
(* are closed again, unless they were filed before.  A name goes through a *)
(* mangler first: the one the program gave, or else one made by the        *)
(* language plugin for the libraries in the list, or else none.  The       *)
(* mangler is cached.  bundle adds a library and calls its entry points.   *)
(* When the object goes, the exit functions of the bundles are called and  *)
(* the handles that are filed are closed.                                  *)
(*                                                                         *)
(* A function object keeps a reference on the FFI::Platypus object; an     *)
(* attached function does so forever.  The addresses they call are of      *)
(* libraries the object must have open.                                    *)
(***************************************************************************)
EXTENDS Naturals, FiniteSetsExt, SequencesExt

CONSTANTS
  Path,        (* paths of libraries; also names the package of a bundle   *)
  Symbol,      (* symbols, and names of symbols before they are mangled    *)
  Name,        (* the names that the program looks for                     *)
  Exports,     (* the symbols of each library                              *)
  MayFail,     (* the libraries that dlopen may fail to load               *)
  InitSym, ConstantSym, FiniSym,  (* ffi_pl_bundle_init, _constant, _fini  *)
  Lang,        (* languages whose plugin loads                             *)
  BadLang,     (* languages whose plugin does not load                     *)
  DefaultLang, (* C                                                        *)
  LangMangled, (* what the mangler of a language makes of a name           *)
  OwnMangled,  (* what the program's mangler makes of a name               *)
  Own,         (* the program's mangler                                    *)
  None,        (* no mangler, no path                                      *)
  MaxLib,      (* bound on the list of paths                               *)
  MaxFunction, (* bound on the functions that exist at a time              *)
  MaxBundle    (* bound on the bundles                                     *)

ASSUME LibraryAssumption ==
  /\ Exports \in [Path -> SUBSET Symbol]
  /\ {InitSym, ConstantSym, FiniSym} \subseteq Symbol
  /\ Name \subseteq Symbol
  /\ MayFail \subseteq Path
  /\ DefaultLang \in Lang
  /\ Lang \cap BadLang = {}
  /\ Own \notin Lang \cup BadLang
  /\ None \notin Path
  /\ LangMangled \in [Lang -> [Symbol -> Symbol]]
  /\ OwnMangled \in [Symbol -> Symbol]
  /\ MaxLib \in Nat /\ MaxFunction \in Nat /\ MaxBundle \in Nat

VARIABLES
  lang,      (* $self->{lang}                                              *)
  lib,       (* $self->{lib}                                               *)
  mangler,   (* $self->{mangler}                                           *)
  mymangler, (* $self->{mymangler}                                         *)
  handles,   (* the paths with a handle in $self->{handles}                *)
  opened,    (* how often each library is open                             *)
  fini,      (* $self->{fini}: the addresses of exit functions, in order   *)
  bundled,   (* history: how often each library was bundled                *)
  again,     (* history: how often bundle opened one that was filed then   *)
  inited,    (* history: the init functions called, and for which package  *)
  functions, (* addresses that function objects call                       *)
  attached,  (* addresses that attached functions call                     *)
  held,      (* the program refers to the FFI::Platypus object             *)
  gone       (* the object was destroyed                                   *)

vars == <<lang, lib, mangler, mymangler, handles, opened, fini,
          bundled, again, inited, functions, attached, held, gone>>

settings == <<lang, lib>>
uses     == <<functions, attached, held, gone>>
bundles  == <<fini, bundled, again, inited>>

Address == [lib : Path, sym : Symbol]

NoMangler  == [by |-> None, libs |-> <<>>]
OwnMangler == [by |-> Own, libs |-> <<>>]
Mangler    == [by : Lang \cup {Own, None}, libs : Seq(Path)]

TypeOK ==
  /\ lang \in Lang \cup BadLang
  /\ lib \in Seq(Path)
  /\ mangler \in Mangler
  /\ mymangler \in {NoMangler, OwnMangler}
  /\ handles \subseteq Path
  /\ opened \in [Path -> Nat]
  /\ fini \in Seq(Address)
  /\ bundled \in [Path -> Nat] /\ again \in [Path -> Nat]
  /\ inited \subseteq [package : Path, address : Address]
  /\ functions \subseteq Address /\ attached \subseteq Address
  /\ held \in BOOLEAN /\ gone \in BOOLEAN

Init ==
  /\ lang = DefaultLang
  /\ lib = <<>>
  /\ mangler = NoMangler /\ mymangler = NoMangler
  /\ handles = {} /\ opened = [p \in Path |-> 0]
  /\ fini = <<>> /\ inited = {}
  /\ bundled = [p \in Path |-> 0] /\ again = [p \in Path |-> 0]
  /\ functions = {} /\ attached = {}
  /\ held = TRUE /\ gone = FALSE

-----------------------------------------------------------------------------
(* Settings.                                                               *)

(* Mutant of Lib: the mangler stays.                                       *)
LibKeepsMangler(p) ==
  /\ held
  /\ Len(lib) < MaxLib
  /\ lib' = Append(lib, p)
  /\ UNCHANGED <<lang, mangler, mymangler, handles, opened, bundles, uses>>

Lib(p) ==
  /\ held
  /\ Len(lib) < MaxLib
  /\ lib' = Append(lib, p)
  /\ mangler' = NoMangler
  /\ UNCHANGED <<lang, mymangler, handles, opened, bundles, uses>>

SetMangler(m) ==
  /\ held
  /\ mangler' = m /\ mymangler' = m
  /\ UNCHANGED <<settings, handles, opened, bundles, uses>>

(* The language is set before its plugin is loaded, and stays when that    *)
(* fails.                                                                  *)
SetLang(l) ==
  /\ held
  /\ lang' = l
  /\ UNCHANGED <<lib, mangler, mymangler, handles, opened, bundles, uses>>

-----------------------------------------------------------------------------
(* find_symbol.                                                            *)

(* The mangler of a language knows the symbols of the libraries it was     *)
(* made for; a name that is none of theirs stays what it is.               *)
Mangle(m, name) ==
  IF m.by = Own THEN OwnMangled[name]
  ELSE LET sym == LangMangled[m.by][name]
       IN  IF \E p \in ToSet(m.libs) : sym \in Exports[p] THEN sym ELSE name

CanMangle(m) == m # NoMangler \/ mymangler # NoMangler \/ lang \in Lang

(* The mangler that find_symbol uses, when `m' is cached and the list of   *)
(* libraries is `paths'.                                                   *)
ManglerFor(m, paths) ==
  IF m # NoMangler THEN m
  ELSE IF mymangler # NoMangler THEN mymangler
  ELSE [by |-> lang, libs |-> paths]

(* One search for a symbol, with the handles `hs' filed and the libraries  *)
(* open as often as `open' says; dlopen loads the libraries in `loads'.    *)
(* A library without the symbol is closed, unless its handle is filed.     *)
(* Mutant of Closes: filed ones are closed too.                            *)
ClosesFiled(p, hit, hs) == p # hit

Closes(p, hit, hs) == p # hit /\ p \notin hs

Search(paths, hs, open, sym, loads) ==
  LET usable   == hs \cup loads
      hits     == {i \in DOMAIN paths : paths[i] \in usable /\ sym \in Exports[paths[i]]}
      hit      == IF hits = {} THEN None ELSE paths[Min(hits)]
      searched == {paths[i] : i \in {j \in DOMAIN paths : \A k \in hits : j <= k}} \cap usable
      opens(p)  == IF p \in searched /\ p \notin hs THEN 1 ELSE 0
      closes(p) == IF p \in searched /\ open[p] + opens(p) > 0 /\ Closes(p, hit, hs) THEN 1 ELSE 0
  IN  [path |-> hit,
       handles |-> hs \cup ({hit} \ {None}),
       opened |-> [p \in Path |-> open[p] + opens(p) - closes(p)]]

Loads == {Path \ failed : failed \in SUBSET MayFail}

Find(name, loads) ==
  LET m == ManglerFor(mangler, lib)
      sym == Mangle(m, name)
      found == Search(lib, handles, opened, sym, loads)
  IN  [found EXCEPT !.path = IF @ = None THEN {} ELSE {[lib |-> @, sym |-> sym]}]

FindSymbol(name, loads) ==
  /\ held
  /\ Cardinality(functions) + Cardinality(attached) < MaxFunction
  /\ CanMangle(mangler)
  /\ mangler' = ManglerFor(mangler, lib)
  /\ handles' = Find(name, loads).handles
  /\ opened' = Find(name, loads).opened
  /\ UNCHANGED <<settings, mymangler, bundles, held, gone>>

Function(name, loads) ==
  /\ FindSymbol(name, loads)
  /\ functions' = functions \cup Find(name, loads).path
  /\ UNCHANGED attached

Attach(name, loads) ==
  /\ FindSymbol(name, loads)
  /\ attached' = attached \cup Find(name, loads).path
  /\ UNCHANGED functions

-----------------------------------------------------------------------------
(* bundle: the library is opened, filed and added to the list; then its    *)
(* entry points are looked for, like any other symbol.                     *)

BundleStart(p) ==
  /\ held
  /\ Len(lib) < MaxLib
  /\ SumFunction(bundled) < MaxBundle
  /\ lib' = Append(lib, p)
  /\ bundled' = [bundled EXCEPT ![p] = @ + 1]
  /\ again' = IF p \in handles THEN [again EXCEPT ![p] = @ + 1] ELSE again
  /\ UNCHANGED <<lang, mymangler, uses>>

Bundle(p, loads) ==
  /\ BundleStart(p)
  /\ CanMangle(NoMangler)
  /\ LET paths == Append(lib, p)
         m     == ManglerFor(NoMangler, paths)
         Entry(sym, s) == Search(paths, s.handles, s.opened, Mangle(m, sym), loads)
         loaded   == [handles |-> handles \cup {p}, opened |-> [opened EXCEPT ![p] = @ + 1]]
         init     == Entry(InitSym, loaded)
         constant == Entry(ConstantSym, init)
         exit     == Entry(FiniSym, constant)
     IN  /\ mangler' = m
         /\ handles' = exit.handles
         /\ opened' = exit.opened
         /\ inited' = IF init.path = None THEN inited
                      ELSE inited \cup {[package |-> p,
                                         address |-> [lib |-> init.path, sym |-> Mangle(m, InitSym)]]}
         /\ fini' = IF exit.path = None THEN fini
                    ELSE Append(fini, [lib |-> exit.path, sym |-> Mangle(m, FiniSym)])

(* With a language whose plugin does not load, the searches for the first  *)
(* two entry points fail silently, and the third one raises an exception.  *)
BundleRaises(p) ==
  /\ BundleStart(p)
  /\ ~ CanMangle(NoMangler)
  /\ mangler' = NoMangler
  /\ handles' = handles \cup {p}
  /\ opened' = [opened EXCEPT ![p] = @ + 1]
  /\ UNCHANGED <<fini, inited>>

-----------------------------------------------------------------------------
(* The end of the object: nothing refers to it any more.                   *)

DropFunction(a) ==
  /\ a \in functions
  /\ functions' = functions \ {a}
  /\ UNCHANGED <<settings, mangler, mymangler, handles, opened, bundles, attached, held, gone>>

Drop ==
  /\ held
  /\ held' = FALSE
  /\ UNCHANGED <<settings, mangler, mymangler, handles, opened, bundles, functions, attached, gone>>

Unreferenced == ~ held /\ functions = {} /\ attached = {}

(* Mutant of CallFini: the function object that calls it is stored in the  *)
(* object, which it refers to.                                             *)
CallFiniKept ==
  /\ Unreferenced
  /\ fini # <<>>
  /\ fini' = Tail(fini)
  /\ functions' = functions \cup {Head(fini)}
  /\ UNCHANGED <<settings, mangler, mymangler, handles, opened, bundled, again, inited, attached, held, gone>>

CallFini ==
  /\ Unreferenced
  /\ fini # <<>>
  /\ fini' = Tail(fini)
  /\ UNCHANGED <<settings, mangler, mymangler, handles, opened, bundled, again, inited, uses>>

(* Mutant of CloseHandles: the libraries of the list are closed instead of *)
(* the handles.                                                            *)
CloseLibraries ==
  /\ Unreferenced
  /\ ~ gone
  /\ fini = <<>>
  /\ opened' = [p \in Path |-> IF p \in ToSet(lib) THEN opened[p] - 1 ELSE opened[p]]
  /\ handles' = {}
  /\ gone' = TRUE
  /\ UNCHANGED <<settings, mangler, mymangler, bundles, functions, attached, held>>

CloseHandles ==
  /\ Unreferenced
  /\ ~ gone
  /\ fini = <<>>
  /\ opened' = [p \in Path |-> IF p \in handles THEN opened[p] - 1 ELSE opened[p]]
  /\ handles' = {}
  /\ gone' = TRUE
  /\ UNCHANGED <<settings, mangler, mymangler, bundles, functions, attached, held>>

Next ==
  \/ \E p \in Path : Lib(p) \/ BundleRaises(p)
  \/ \E m \in {NoMangler, OwnMangler} : SetMangler(m)
  \/ \E l \in Lang \cup BadLang : SetLang(l)
  \/ \E name \in Name, loads \in Loads : Function(name, loads) \/ Attach(name, loads)
  \/ \E p \in Path, loads \in Loads : p \in loads /\ Bundle(p, loads)
  \/ \E a \in functions : DropFunction(a)
  \/ Drop
  \/ CallFini
  \/ CloseHandles

(* Perl destroys an object as soon as nothing refers to it.                *)
Spec == Init /\ [][Next]_vars /\ WF_vars(CallFini) /\ WF_vars(CloseHandles)

-----------------------------------------------------------------------------
(* Properties.                                                             *)

Callable == functions \cup attached \cup ToSet(fini)

(* An address that a function object, an attached function or a pending    *)
(* exit function calls is of a library that is still open, whatever other  *)
(* searches did to that library in the meantime.                           *)
AddressesMapped == \A a \in Callable : opened[a.lib] > 0

(* A library is open once for the handle that is filed, and once more for  *)
(* each bundle that opened it although it was filed: its handle took the   *)
(* place of the one before, which nothing can close any more.  A search,   *)
(* whichever libraries it tries, leaves nothing open besides, and the end  *)
(* of the object closes all that is filed, bundles too.                    *)
NoHandleLeak ==
  \A p \in Path : opened[p] = again[p] + (IF p \in handles THEN 1 ELSE 0)

(* Libraries are open as long as they are needed, and no longer.           *)
OpenAsNeeded == AddressesMapped /\ NoHandleLeak

(* The mangler that is cached is the program's when there is one, or was   *)
(* made for the libraries now in the list, so find_symbol never misses the *)
(* mangled names of a library that was added later.                        *)
ManglerCurrent ==
  \/ mangler = NoMangler
  \/ mangler = mymangler
  \/ mymangler = NoMangler /\ mangler.by \in Lang /\ mangler.libs = lib

(* An object that nothing refers to calls its exit functions and closes    *)
(* the libraries it opened, those it bundled too; open stay only those     *)
(* that bundle opened when they were filed already, as often as it did.    *)
Unloads == Unreferenced ~> (fini = <<>> /\ \A p \in Path : opened[p] = again[p])

(* When all the libraries are bundles, the init function of each of them   *)
(* that has one was called with its package.                               *)
BundleInitialised ==
  (\A p \in ToSet(lib) : bundled[p] > 0) =>
    \A p \in ToSet(lib) : InitSym \in Exports[p] =>
      \E i \in inited : i.package = p /\ i.address.lib = p
=============================================================================
