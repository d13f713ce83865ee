------------------------------- MODULE MCCall -------------------------------
(* An instance of Call and Plugin for TLC: the argument types of the       *)
(* shipped plugins and of the tests, in signatures that put them next to   *)
(* each other.                                                             *)
EXTENDS Plugin

(* An integer, a string, a pointer: nothing the dispatch looks at.         *)
Plain == [custom |-> FALSE, extra |-> 0, p2n |-> FALSE, empty |-> FALSE,
          post |-> FALSE, checked |-> FALSE]

(* An object of a class.                                                   *)
Object == [Plain EXCEPT !.checked = TRUE]

(* A record passed by value through a handler, as in t/type_custom.t.      *)
CustomRecord == [Plain EXCEPT !.custom = TRUE, !.p2n = TRUE, !.checked = TRUE]

(* FFI::Platypus::Type::WideString: one slot and a post handler.           *)
WideString == [Plain EXCEPT !.custom = TRUE, !.p2n = TRUE, !.post = TRUE]

(* The same shape over two slots, with a value to keep.                    *)
WidePair == [WideString EXCEPT !.extra = 1]

(* FFI::Platypus::Type::PointerSizeBuffer: two slots, nothing to keep.     *)
Buffer == [WidePair EXCEPT !.empty = TRUE]

(* A custom type with native_to_perl only.                                 *)
Copied == [Plain EXCEPT !.custom = TRUE]

ReturnsCustom == [f \in Fun |-> f = "make"]

(* Handlers that keep values over wide arguments, one that fills its slots *)
(* itself, and arguments of both sorts that may be refused.                *)
MCFun == {"mixed", "make", "fill"}
MCArgs ==
  [f \in MCFun |->
     CASE f = "mixed" -> <<WidePair, Object, CustomRecord>>
       [] f = "make"  -> <<Copied>>
       [] f = "fill"  -> <<Buffer, WideString>>]
=============================================================================
