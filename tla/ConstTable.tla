----------------------------- MODULE ConstTable -----------------------------
(***************************************************************************)
(* What WM/src/ObjectPool/obj_pool.h is for: a table of constants in which *)
(* equal objects have one index, that stays theirs until the table is      *)
(* given up.                                                               *)
(***************************************************************************)
CONSTANTS Objects, Indices, NoIdx, NoObj

VARIABLES open, index, ret

vars == <<open, index, ret>>

Init == open = FALSE /\ index = [obj \in {} |-> NoIdx] /\ ret = [op |-> "none", idx |-> NoIdx, obj |-> NoObj]

Result(op, idx, obj) == ret' = [op |-> op, idx |-> idx, obj |-> obj]

Open ==
    /\ ~open
    /\ open' \in BOOLEAN
    /\ Result("init", NoIdx, NoObj)
    /\ UNCHANGED index

Close == open' = FALSE /\ index' = [obj \in {} |-> NoIdx] /\ Result("free", NoIdx, NoObj)

Known == DOMAIN index

Taken == {index[obj] : obj \in Known}

(* A new object gets an index of its own.                                  *)
Add(obj) ==
    /\ open /\ obj \notin Known
    /\ \E idx \in Indices \ Taken :
          /\ index' = [o \in Known \cup {obj} |-> IF o = obj THEN idx ELSE index[o]]
          /\ Result("insert", idx, obj)
    /\ UNCHANGED open

(* Inserted again or looked up by its index.                               *)
Find(obj) ==
    /\ open /\ obj \in Known
    /\ \E op \in {"insert", "get"} : Result(op, index[obj], obj)
    /\ UNCHANGED <<open, index>>

(* There is no room for a new object.                                      *)
Refuse(obj) ==
    /\ open /\ obj \notin Known
    /\ Result("insert", NoIdx, obj)
    /\ UNCHANGED <<open, index>>

Next ==
    \/ Open
    \/ Close
    \/ \E obj \in Objects : Add(obj) \/ Find(obj) \/ Refuse(obj)

Spec == Init /\ [][Next]_vars
=============================================================================
