------------------------------ MODULE LifoStack ------------------------------
(***************************************************************************)
(* What the interface of ProtectedStack/Stack.h promises a client: a last  *)
(* in, first out stack of values, each call of which either takes effect   *)
(* and returns STACK_OK (`ok') or returns something else and changes       *)
(* nothing.  Whether a stack is usable is settled when it is created.      *)
(***************************************************************************)
EXTENDS Naturals, Sequences

CONSTANTS Values, NoValue

VARIABLES items, state, ret

vars == <<items, state, ret>>

Init ==
    /\ items = <<>>
    /\ state = "none"
    /\ ret = [op |-> "none", ok |-> TRUE, val |-> NoValue]

Result(op, ok, val) == ret' = [op |-> op, ok |-> ok, val |-> val]

Create ==
    /\ state = "none"
    /\ \/ state' = "none" /\ Result("ctor", FALSE, NoValue)
       \/ state' \in {"usable", "refusing"} /\ Result("ctor", TRUE, NoValue)
    /\ items' = <<>>

Refuse(op) ==
    /\ state = "refusing"
    /\ Result(op, FALSE, NoValue)
    /\ UNCHANGED <<items, state>>

Push(v) ==
    /\ state = "usable"
    /\ \/ items' = Append(items, v) /\ Result("push", TRUE, NoValue)
       \/ items' = items /\ Result("push", FALSE, NoValue)
    /\ UNCHANGED state

Pop ==
    /\ state = "usable"
    /\ IF items = <<>>
       THEN items' = items /\ Result("pop", FALSE, NoValue)
       ELSE items' = SubSeq(items, 1, Len(items) - 1) /\ Result("pop", TRUE, NoValue)
    /\ UNCHANGED state

Top ==
    /\ state = "usable"
    /\ IF items = <<>>
       THEN Result("top", FALSE, NoValue)
       ELSE Result("top", TRUE, items[Len(items)])
    /\ UNCHANGED <<items, state>>

Other(op) ==
    /\ state = "usable"
    /\ Result(op, TRUE, NoValue)
    /\ UNCHANGED <<items, state>>

Destroy ==
    /\ state = "usable"
    /\ state' = "none"
    /\ items' = <<>>
    /\ Result("dtor", TRUE, NoValue)

Others == {"verify", "dump", "dump_to_log", "set_elem_printer"}

Next ==
    \/ Create
    \/ \E v \in Values : Push(v)
    \/ Pop
    \/ Top
    \/ \E op \in Others : Other(op)
    \/ \E op \in Others \cup {"push", "pop", "top", "dtor"} : Refuse(op)
    \/ Destroy

Spec == Init /\ [][Next]_vars
=============================================================================
