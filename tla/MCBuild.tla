------------------------------ MODULE MCBuild -------------------------------
(* Two sources, one of which includes a header.                            *)
EXTENDS Build, TLC

MCSource == <<"a.c", "b.c">>
MCHeader == {"x.h"}
MCIncludes == ("a.c" :> {"x.h"}) @@ ("b.c" :> {})
=============================================================================
