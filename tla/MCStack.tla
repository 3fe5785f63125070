------------------------------- MODULE MCStack -------------------------------
(* Small instances of Stack.  The addresses are words apart, so that a     *)
(* moved block gets canaries that differ from the old ones.                *)
EXTENDS Stack

MCAddrs == {100, 140}
MCBytes == {-1, 3}
MCSizes == {0, 1, 3}
MCElemSizes == {0, 1, 2}
=============================================================================
