------------------------------- MODULE RefList -------------------------------
(***************************************************************************)
(* What CacheFriendlyList/ListLib/list.h promises: a sequence of values,   *)
(* each under a reference of its own that stays the same while other       *)
(* values come in before and after it.  `end' is the place before the      *)
(* first and after the last one.                                           *)
(***************************************************************************)
EXTENDS Naturals, Sequences, SequencesExt

CONSTANTS Refs, Vals, NoRef

VARIABLES items, made, ret

vars == <<items, made, ret>>

Init == items = <<>> /\ made = FALSE /\ ret = [op |-> "none", at |-> NoRef, ref |-> NoRef]

Used == {items[i].ref : i \in 1..Len(items)}

Result(op, at, ref) == ret' = [op |-> op, at |-> at, ref |-> ref]

Create ==
    /\ ~made /\ made'
    /\ items' \in Seq([ref : Refs, val : Vals])
    /\ \A i, j \in 1..Len(items') : items'[i].ref = items'[j].ref => i = j
    /\ Result("ctor", NoRef, NoRef)

(* The value goes to place i of the sequence.                              *)
Insert(op, at, i) ==
    /\ \E ref \in Refs \ Used, val \in Vals :
          /\ items' = InsertAt(items, i, [ref |-> ref, val |-> val])
          /\ Result(op, at, ref)
    /\ UNCHANGED made

InsertFront == Insert("insert_front", NoRef, 1)
InsertBack  == Insert("insert_back", NoRef, Len(items) + 1)

InsertAfter(i)  == Insert("insert_after", items[i].ref, i + 1)
InsertBefore(i) == Insert("insert_before", items[i].ref, i)

InsertAtEnd(end) ==
    \/ Insert("insert_after", end, 1)
    \/ Insert("insert_before", end, Len(items) + 1)

Refuse(op) == Result(op, NoRef, NoRef) /\ UNCHANGED <<items, made>>

Assign(i) ==
    /\ \E val \in Vals : items' = [items EXCEPT ![i].val = val]
    /\ Result("get", items[i].ref, items[i].ref)
    /\ UNCHANGED made

(* A caller that erases gives the sequence up: what stays of it are        *)
(* references, in no order.  Erasing NoRef does nothing.                   *)
GiveUp(op) == items' = <<>> /\ ~made' /\ Result(op, NoRef, NoRef)

Next ==
    \/ Create
    \/ /\ made
       /\ \/ InsertFront
          \/ InsertBack
          \/ \E i \in 1..Len(items) : InsertAfter(i) \/ InsertBefore(i) \/ Assign(i)
          \/ \E end \in Refs \ Used : InsertAtEnd(end)
          \/ \E op \in {"insert_after", "insert_before", "erase"} : Refuse(op)
          \/ GiveUp("erase")
    \/ GiveUp("dtor")

Spec == Init /\ [][Next]_vars
=============================================================================
