------------------------------ MODULE MCTrace ------------------------------
(* A buffer of four characters, and texts shorter and longer than it.      *)
EXTENDS Trace

MCChars == {"f", "g", "p", "t"}

MCName(fn) == CASE fn = "f" -> <<"f">>
                [] fn = "g" -> <<"g", "g", "g", "g", "g">>
                [] OTHER    -> <<"p", "p">>

MCBodies == {<<>>, <<"t", "t", "t">>, <<"t", "t", "t", "t">>}
=============================================================================
