--------------------------- MODULE MCNamedParams ----------------------------
(* An instance of NamedParams for TLC: no parameters, one, and two of which *)
(* one has a brace in its name, which a placeholder may have as well.       *)
EXTENDS NamedParams

MCMaps == {<<>>, <<"a">> :> 1, <<"a">> :> 2 @@ <<"a", "lbrace">> :> 3}
=============================================================================
