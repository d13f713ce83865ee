------------------------------ MODULE MCLibrary ------------------------------
(* Two libraries.  `f' is in both; `g' is what the language makes of `f',  *)
(* and the program's mangler too; only the second library has it.  Both    *)
(* have the entry points of a bundle.                                      *)
EXTENDS Library

MCExports == [p \in Path |->
  {InitSym, FiniSym} \cup IF p = "one" THEN {"f"} ELSE {"f", "g", ConstantSym}]

ToG == [s \in Symbol |-> IF s = "f" THEN "g" ELSE s]
MCLangMangled == [l \in Lang |-> IF l = DefaultLang THEN [s \in Symbol |-> s] ELSE ToG]
=============================================================================
