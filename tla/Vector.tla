------------------------------- MODULE Vector -------------------------------
(***************************************************************************)
(* Onegin/buffer.cpp and the vector of Onegin/vector.h on top of it.       *)
(*                                                                         *)
(* A vector is its struct and what is in its buffer; the element size is   *)
(* left out.  The operators return the vector and the error code of the C  *)
(* function, or the element.  `ok' is whether the allocator has memory; a  *)
(* block of no bytes is a block.                                           *)
(***************************************************************************)
EXTENDS Integers

CONSTANTS
    T,      \* the elements
    Junk    \* what realloc leaves in new memory

NoVector == [cells |-> [i \in {} |-> Junk], capacity |-> 0, size |-> 0]

(* The vector has room for its elements.                                   *)
IsVector(v) ==
    /\ v.capacity \in Nat /\ v.size \in 0..v.capacity
    /\ v.cells \in [0..(v.capacity - 1) -> T \cup {Junk}]

-----------------------------------------------------------------------------
(* buffer.cpp.                                                             *)

(* Nobody but the file reader asks for a buffer with room.                 *)
buf_ctor(v) == [v EXCEPT !.cells = [i \in {} |-> Junk], !.capacity = 0]

buf_dtor(v) == [v EXCEPT !.cells = [i \in {} |-> Junk], !.capacity = 0]

buf_offset_fails(v, idx) == v.capacity <= idx

buf_resize(v, nelems) ==
    [v EXCEPT !.cells    = [i \in 0..(nelems - 1) |-> IF i < v.capacity THEN v.cells[i] ELSE Junk],
              !.capacity = nelems]

-----------------------------------------------------------------------------
(* vector.h.                                                               *)

vec_ctor(v, ok) ==
    IF ok THEN [vec |-> [buf_ctor(v) EXCEPT !.size = 0], err |-> "VEC_SUCCESS"] ELSE [vec |-> v, err |-> "VEC_ALLOCATION_FAILED"]

vec_reserve(v, cap, ok) ==
    IF ok THEN [vec |-> buf_resize(v, cap), err |-> "VEC_SUCCESS"] ELSE [vec |-> v, err |-> "VEC_RESIZING_FAILED"]

(* Room for one more element, if there is none.                            *)
Grown(v) == IF v.size = v.capacity THEN buf_resize(v, (IF v.size = 0 THEN 1 ELSE v.size) * 2) ELSE v

(* Mutant of vec_push_back: stores the element at the new size.            *)
vec_push_back_after(v, val, ok) ==
    [vec |-> [Grown(v) EXCEPT !.cells = [i \in DOMAIN @ |-> IF i = v.size + 1 THEN val ELSE @[i]], !.size = @ + 1],
     err |-> "VEC_SUCCESS"]

(* Mutant of vec_push_back: counts the element before there is room.       *)
vec_push_back_early(v, val, ok) ==
    IF v.size = v.capacity /\ ~ok
    THEN [vec |-> [v EXCEPT !.size = @ + 1], err |-> "VEC_RESIZING_FAILED"]
    ELSE [vec |-> [Grown(v) EXCEPT !.cells[v.size] = val, !.size = @ + 1], err |-> "VEC_SUCCESS"]

vec_push_back(v, val, ok) ==
    IF v.size = v.capacity /\ ~ok
    THEN [vec |-> v, err |-> "VEC_RESIZING_FAILED"]
    ELSE IF buf_offset_fails(Grown(v), v.size)
    THEN [vec |-> Grown(v), err |-> "VEC_LOGIC_ERROR"]
    ELSE [vec |-> [Grown(v) EXCEPT !.cells[v.size] = val, !.size = @ + 1], err |-> "VEC_SUCCESS"]

(* The index is compared with the capacity, not with the size.             *)
vec_get_elem(v, idx) ==
    IF buf_offset_fails(v, idx) THEN [err |-> "VEC_OUT_OF_RANGE", val |-> Junk]
    ELSE [err |-> "VEC_SUCCESS", val |-> v.cells[idx]]

vec_dtor(v) == buf_dtor([v EXCEPT !.size = 0])
=============================================================================
