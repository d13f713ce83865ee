-------------------------------- MODULE Build --------------------------------
(***************************************************************************)
(* FFI::Build: build compiles each source file whose object is older than  *)
(* what it depends on, and links a library unless it has one that is no    *)
(* older than the objects.  The modification times have the resolution of  *)
(* stat, a second.  Somebody edits the files meanwhile, and a build may be *)
(* killed at any point, also while the compiler or the linker writes.      *)
(***************************************************************************)
EXTENDS Integers, Sequences

CONSTANTS
  Source,   (* the sequence of source files                                *)
  Header,   (* headers                                                     *)
  Includes, (* the headers that each source includes                       *)
  None,     (* no such file                                                *)
  MaxTime,  (* bound on the clock                                          *)
  MaxEdit   (* bound on the edits of a behaviour                           *)

Src == {Source[i] : i \in DOMAIN Source}
File == Src \cup Header

ASSUME BuildAssumption ==
  /\ Source \in Seq(Src) /\ Source # << >>
  /\ Includes \in [Src -> SUBSET Header]
  /\ MaxTime \in Nat \ {0} /\ MaxEdit \in Nat
  /\ \A fs \in SUBSET File : None \notin [time : Nat, of : [fs -> Nat], whole : BOOLEAN]

VARIABLES
  now,      (* the clock, in seconds                                       *)
  edits,    (* the number of edits                                         *)
  version,  (* the number that the last edit of each file had              *)
  mtime,    (* when each file was last edited                              *)
  object,   (* object[s]: None, or its time, what it was compiled from,    *)
            (* and whether it was written to the end                       *)
  library,  (* the same, of all objects                                    *)
  mm,       (* cc_mm_works: the compiler tells what a source includes      *)
  pc,       (* where the build is, "idle" when there is none               *)
  item,     (* the index of the source it is at                            *)
  read,     (* what the compiler or the linker that runs has read          *)
  settled,  (* history: the files whose last edit was later, by the clock, *)
            (* than everything made from them, while nothing was built     *)
  torn      (* history: a file that was not written to the end was left    *)

files == <<edits, version, mtime, settled>>
vars == <<now, files, object, library, mm, pc, item, read, torn>>

Needs(s) == {s} \cup Includes[s]

Versions(s) == [f \in Needs(s) |-> version[f]]

Init ==
  /\ now = 1
  /\ edits = 0
  /\ version = [f \in File |-> 0]
  /\ mtime = [f \in File |-> 0]
  /\ object = [s \in Src |-> None]
  /\ library = None
  /\ mm \in BOOLEAN
  /\ pc = "idle"
  /\ item = 0
  /\ read = None
  /\ settled = File
  /\ torn = FALSE

Tick ==
  /\ now < MaxTime
  /\ now' = now + 1
  /\ UNCHANGED <<files, object, library, mm, pc, item, read, torn>>

(* x, an object or the library, was written before the second t.           *)
Before(x, t) == x = None \/ x.time < t

Edit(f) ==
  /\ edits < MaxEdit
  /\ edits' = edits + 1
  /\ version' = [version EXCEPT ![f] = edits + 1]
  /\ mtime' = [mtime EXCEPT ![f] = now]
  /\ settled' = IF /\ pc = "idle" /\ Before(library, now)
                   /\ \A s \in Src : f \in Needs(s) => Before(object[s], now)
                THEN settled \cup {f} ELSE settled \ {f}
  /\ UNCHANGED <<now, object, library, mm, pc, item, read, torn>>

-----------------------------------------------------------------------------
(* FFI::Build::File::C                                                     *)

Current == Source[item]

(* Mutant of Deps: what the compiler tells of one source counts for all.   *)
DepsOfAll(s) == IF mm THEN {s} \cup Header ELSE {s}

(* _deps                                                                   *)
Deps(s) == IF mm THEN Needs(s) ELSE {s}

Newer(t, than) == t > than

(* needs_rebuild of Base                                                   *)
OldObject(s) ==
  object[s] # None => \E f \in Deps(s) : Newer(mtime[f], object[s].time)

Begin ==
  /\ pc = "idle"
  /\ pc' = "item"
  /\ item' = 1
  /\ UNCHANGED <<now, files, object, library, mm, read, torn>>

(* Mutant of NextItem: one item too many.                                  *)
NextItemPast ==
  IF item <= Len(Source) THEN pc' = "item" /\ item' = item + 1
                         ELSE pc' = "objects" /\ UNCHANGED item

NextItem ==
  IF item < Len(Source) THEN pc' = "item" /\ item' = item + 1
                        ELSE pc' = "objects" /\ UNCHANGED item

Reuse ==
  /\ pc = "item" /\ ~ OldObject(Current)
  /\ NextItem
  /\ UNCHANGED <<now, files, object, library, mm, read, torn>>

(* The compiler has read its input.                                        *)
Compile ==
  /\ pc = "item" /\ OldObject(Current)
  /\ pc' = "compile"
  /\ read' = Versions(Current)
  /\ UNCHANGED <<now, files, object, library, mm, item, torn>>

Compiled ==
  /\ pc = "compile"
  /\ object' = [object EXCEPT ![Current] = [time |-> now, of |-> read, whole |-> TRUE]]
  /\ NextItem
  /\ read' = None
  /\ UNCHANGED <<now, files, library, mm, torn>>

-----------------------------------------------------------------------------
(* The link                                                                *)

(* Mutant of OldLibrary: an object that was compiled does not count.       *)
NoLibrary == library = None

(* $needs_rebuild                                                          *)
OldLibrary == library # None => \E s \in Src : Newer(object[s].time, library.time)

Kept ==
  /\ pc = "objects" /\ ~ OldLibrary
  /\ pc' = "done"
  /\ UNCHANGED <<now, files, object, library, mm, item, read, torn>>

Link ==
  /\ pc = "objects" /\ OldLibrary
  /\ pc' = "link"
  /\ read' = [s \in Src |-> object[s].of]
  /\ UNCHANGED <<now, files, object, library, mm, item, torn>>

Linked ==
  /\ pc = "link"
  /\ \A s \in Src : object[s].whole
  /\ library' = [time |-> now, of |-> read, whole |-> TRUE]
  /\ pc' = "done"
  /\ read' = None
  /\ UNCHANGED <<now, files, object, mm, item, torn>>

-----------------------------------------------------------------------------
(* The end of a build                                                      *)

Idle == pc' = "idle" /\ item' = 0 /\ read' = None

Done ==
  /\ pc = "done"
  /\ Idle
  /\ UNCHANGED <<now, files, object, library, mm, torn>>

(* The compiler or the linker fails, as the linker does for an object that *)
(* is not whole, and build dies; what it had to make stays as it was, or   *)
(* is removed.                                                             *)
Error ==
  /\ pc \in {"compile", "link"}
  /\ Idle
  /\ \/ UNCHANGED <<object, library>>
     \/ /\ pc = "compile"
        /\ object' = [object EXCEPT ![Current] = None]
        /\ UNCHANGED library
     \/ /\ pc = "link"
        /\ library' = None
        /\ UNCHANGED object
  /\ UNCHANGED <<now, files, mm, torn>>

Killed ==
  /\ pc # "idle"
  /\ Idle
  /\ UNCHANGED <<now, files, object, library, mm, torn>>

(* Killed while the compiler or the linker writes.                         *)
Torn ==
  /\ pc \in {"compile", "link"}
  /\ LET part == [time |-> now, of |-> read, whole |-> FALSE]
     IN  IF pc = "compile"
         THEN object' = [object EXCEPT ![Current] = part] /\ UNCHANGED library
         ELSE library' = part /\ UNCHANGED object
  /\ torn' = TRUE
  /\ Idle
  /\ UNCHANGED <<now, files, mm>>

Clean ==
  /\ pc = "idle"
  /\ object' = [s \in Src |-> None]
  /\ library' = None
  /\ torn' = FALSE
  /\ settled' = File
  /\ UNCHANGED <<now, edits, version, mtime, mm, pc, item, read>>

Next ==
  \/ Tick \/ \E f \in File : Edit(f)
  \/ Begin \/ Reuse \/ Compile \/ Compiled
  \/ Kept \/ Link \/ Linked
  \/ Done \/ Error \/ Killed \/ Torn \/ Clean

Spec == Init /\ [][Next]_vars

-----------------------------------------------------------------------------
(* Properties                                                              *)

Versioned(fs) == [fs -> 0..MaxEdit]

Made(of) == [time : 1..MaxTime, of : of, whole : BOOLEAN]

(* The variables have their types, the item is one of the list.            *)
TypeOK ==
  /\ now \in 1..MaxTime /\ edits \in 0..MaxEdit
  /\ version \in Versioned(File) /\ mtime \in [File -> 0..now]
  /\ object = [s \in Src |-> object[s]]
  /\ \A s \in Src : object[s] \in {None} \cup Made(Versioned(Needs(s)))
  /\ library # None =>
       /\ library.time \in 1..MaxTime /\ library.whole \in BOOLEAN
       /\ \A s \in Src : library.of[s] \in Versioned(Needs(s))
  /\ mm \in BOOLEAN /\ torn \in BOOLEAN /\ settled \subseteq File
  /\ pc \in {"idle", "item", "compile", "objects", "link", "done"}
  /\ item \in 0..Len(Source) /\ (item = 0 <=> pc = "idle")

(* The library that build returns has every edit that is later, by the     *)
(* clock, than the files it was built from, and was made while nothing was *)
(* being built, whichever builds failed or were killed since; an edit of a *)
(* header, if the compiler tells of it.  Edits in the second of the last   *)
(* build, or during one, may be missed, though build is documented to      *)
(* reuse only what is newer.  And the library is whole, but where a build  *)
(* was killed while it wrote a file: what it left is trusted until clean.  *)
UpToDate ==
  pc = "done" =>
    /\ torn \/ library.whole
    /\ \A s \in Src : \A f \in (settled \cap Deps(s)) : library.of[s][f] = version[f]

(* Nothing is made again without need: an object that is compiled is       *)
(* missing or was compiled from another version of something it needs, and *)
(* the library that is linked is missing or has other objects.  What has   *)
(* the time of a file it was made from may be made again, too: build is    *)
(* documented to reuse only what is newer.  The code reuses that as well,  *)
(* see UpToDate.                                                           *)
NothingTwice ==
  /\ pc = "compile" =>
       \/ object[Current] = None
       \/ \E f \in Needs(Current) : \/ object[Current].of[f] # version[f]
                                    \/ object[Current].time = mtime[f]
  /\ pc = "link" =>
       \/ library = None
       \/ library.of # read
       \/ \E s \in Src : object[s].time = library.time
       \/ torn

=============================================================================
