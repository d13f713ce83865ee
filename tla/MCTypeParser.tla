----------------------------- MODULE MCTypeParser -----------------------------
EXTENDS TypeParser

N(form, unit) == [form |-> form, unit |-> unit]

(* The native types of the languages: `foo_t', as in the plugin of         *)
(* t/ffi_platypus_lang.t, is a word of two, but not of C.                  *)
MCNativeMap == [l \in Lang |-> [w \in Word |->
  IF w # "foo_t" \/ l = DefaultLang THEN None
  ELSE IF l = "Bar" THEN "sint32" ELSE "sint16"]]
MCLangAbi == [l \in Lang |-> IF l = DefaultLang THEN None ELSE "stdcall"]

(* Pointers, arrays, closures and records of words and basic types.        *)
MCMentioned == {N("plain", "foo_t"), N("pointer", "foo_t"), N("array", "foo_t"),
                N("plain", "a"), N("array", "a"), N("closure", "a"), N("record", "a")}

MCMember == {N("array", "a")}

(* Names of fixed strings, too.                                            *)
MCMentionedFixed == {N("fixed", "a"), N("window", "a"), N("plain", "a")}
=============================================================================
