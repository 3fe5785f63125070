------------------------------- MODULE Memory -------------------------------
(***************************************************************************)
(* ProtectedStack/Memory.cpp: a block of heap memory with its size.  The   *)
(* block's content travels with the struct: `cells' maps every offset that *)
(* belongs to the block to what is stored there.  Callers in this          *)
(* repository pass el_size == 1, so offsets are plain cells.               *)
(*                                                                         *)
(* Each operator is one function of the file.  Those that may fail return  *)
(* [mem |-> the struct afterwards, err |-> the code].  The address the     *)
(* allocator hands out is an argument, NULL when it has no memory to give. *)
(***************************************************************************)
EXTENDS Integers

CONSTANT Junk       \* what the allocator leaves in cells it does not clear

ASSUME JunkAssumption == Junk \in Int

NULL == 0

MEM_SUCCESS             == 0
MEM_ALLOCATION_FAILED   == 256
MEM_REALLOCATION_FAILED == 257
MEM_APPEAL_OUT_OF_RANGE == 258
MEM_INVALID_ARGUMENTS   == 259
MEM_VERIFY_FAILED       == 260

EmptyMemory == [data |-> NULL, capacity |-> 0, cells |-> [i \in {} |-> 0]]

WithCells(mem, cells) == [data |-> mem.data, capacity |-> mem.capacity, cells |-> cells]

mem_verify(mem) == mem.data # NULL /\ mem.capacity # 0

mem_allocate(at, n_elems) ==
    IF at = NULL
    THEN [mem |-> EmptyMemory, err |-> MEM_ALLOCATION_FAILED]
    ELSE [mem |-> [data |-> at, capacity |-> n_elems, cells |-> [i \in 0..(n_elems - 1) |-> 0]],
          err |-> MEM_SUCCESS]

mem_deallocate(mem) ==
    IF mem_verify(mem)
    THEN [mem |-> EmptyMemory, err |-> MEM_SUCCESS]
    ELSE [mem |-> mem, err |-> MEM_VERIFY_FAILED]

(* Mutant of mem_reallocate: a new block that is not given the content.    *)
mem_reallocate_fresh(mem, at, n_elems) ==
    IF ~mem_verify(mem) THEN [mem |-> mem, err |-> MEM_VERIFY_FAILED]
    ELSE IF at = NULL   THEN [mem |-> mem, err |-> MEM_REALLOCATION_FAILED]
    ELSE [mem |-> [data |-> at, capacity |-> n_elems, cells |-> [i \in 0..(n_elems - 1) |-> Junk]],
          err |-> MEM_SUCCESS]

(* realloc keeps what fits of the old content and clears nothing.          *)
mem_reallocate(mem, at, n_elems) ==
    IF ~mem_verify(mem) THEN [mem |-> mem, err |-> MEM_VERIFY_FAILED]
    ELSE IF at = NULL   THEN [mem |-> mem, err |-> MEM_REALLOCATION_FAILED]
    ELSE [mem |-> [data     |-> at,
                   capacity |-> n_elems,
                   cells    |-> [i \in 0..(n_elems - 1) |->
                                    IF i < mem.capacity THEN mem.cells[i] ELSE Junk]],
          err |-> MEM_SUCCESS]

(* Cells from..to-1 receive `byte'.                                        *)
mem_fill(mem, byte, from, to) ==
    IF ~mem_verify(mem)       THEN [mem |-> mem, err |-> MEM_VERIFY_FAILED]
    ELSE IF to <= from        THEN [mem |-> mem, err |-> MEM_INVALID_ARGUMENTS]
    ELSE IF mem.capacity < to THEN [mem |-> mem, err |-> MEM_APPEAL_OUT_OF_RANGE]
    ELSE [mem |-> WithCells(mem, [i \in DOMAIN mem.cells |->
                                     IF i \in from..(to - 1) THEN byte ELSE mem.cells[i]]),
          err |-> MEM_SUCCESS]

(* mem_set_data copies data_sz bytes to offset el_offset without asking    *)
(* whether they fit.  `new_data' is a function on 0..data_sz-1; a null     *)
(* pointer is NullData, which points at nothing.                           *)
NullData == [i \in {} |-> 0]

mem_set_data(mem, el_offset, new_data, data_sz) ==
    IF ~mem_verify(mem) THEN [mem |-> mem, err |-> MEM_VERIFY_FAILED]
    ELSE IF DOMAIN new_data = {} \/ data_sz = 0 THEN [mem |-> mem, err |-> MEM_INVALID_ARGUMENTS]
    ELSE [mem |-> WithCells(mem, [i \in DOMAIN mem.cells |->
                                     IF i \in el_offset..(el_offset + data_sz - 1)
                                     THEN new_data[i - el_offset] ELSE mem.cells[i]]),
          err |-> MEM_SUCCESS]
=============================================================================
