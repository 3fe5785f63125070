------------------------------- MODULE MCList -------------------------------
(* Small instances of List: the constructor's 16 and 32 become 2 and 3, or *)
(* 3 and 4, so that lists have 2 to 4 elements and the ghost.              *)
EXTENDS List

MCCaps == {0, MinCapacity}
MCVals == {5, 6}
MCInitLists == {<<5>>, <<5, 6, 6>>}
MCJunkNodes == {[val |-> 9, next |-> -1, prev |-> -1]}
=============================================================================
