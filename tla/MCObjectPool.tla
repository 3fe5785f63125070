---------------------------- MODULE MCObjectPool ----------------------------
(* Small pools of small constants for ObjectPool.                          *)
EXTENDS ObjectPool

CONSTANT Vals

MCObjects == [tag : {"INT", "DEC"}, val : Vals]
=============================================================================
