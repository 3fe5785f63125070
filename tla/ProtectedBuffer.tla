--------------------------- MODULE ProtectedBuffer ---------------------------
(***************************************************************************)
(* ProtectedStack/ProtectedBuffer.cpp and Canary.cpp: an array of elements *)
(* on the heap between two canaries, with every protection of the Makefile *)
(* compiled in ($CANARIES_PROTECTION, $MEMORY_CLEAN_UPS,                   *)
(* $STRUCT_VERIFICATION).                                                  *)
(*                                                                         *)
(* A cell of the block holds one byte of an element or one whole canary    *)
(* (sizeof (canary_t) == 8 shrinks to CANARY == 1).  A canary is valid     *)
(* when it holds its own address.                                          *)
(***************************************************************************)
EXTENDS Memory

CONSTANT Poison     \* g_pbuff_poison_byte: part of a literal's address

ASSUME PoisonAssumption == Poison \in Int

CANARY == 1

PBUFF_OK                    == 0
PBUFF_BAD_MEMORY            == 1
PBUFF_BAD_ELEM_SIZE         == 2
PBUFF_BAD_DATA_FRONT_CANARY == 4
PBUFF_BAD_DATA_BACK_CANARY  == 8

WithMem(buff, mem) == [mem |-> mem, elem_sz |-> buff.elem_sz]

front_canary_at(buff) == 0
back_canary_at(buff)  == buff.mem.capacity - CANARY

is_valid_canary(buff, at) == buff.mem.cells[at] = buff.mem.data + at

Flag(cond, flag) == IF cond THEN flag ELSE 0

(* protected_buff_state looks at the canaries whatever mem_verify said:    *)
(* without a block it dereferences a wild pointer for the back canary.     *)
StateFaults(buff) == buff.mem.data = NULL

protected_buff_state(buff) ==
    Flag(~mem_verify(buff.mem), PBUFF_BAD_MEMORY)
  + Flag(buff.elem_sz = 0, PBUFF_BAD_ELEM_SIZE)
  + Flag(~is_valid_canary(buff, front_canary_at(buff)), PBUFF_BAD_DATA_FRONT_CANARY)
  + Flag(~is_valid_canary(buff, back_canary_at(buff)), PBUFF_BAD_DATA_BACK_CANARY)

(* SET_CANARIES: each of the two cells receives its own address.           *)
SetCanaries(buff) ==
    WithMem(buff, WithCells(buff.mem,
        [i \in DOMAIN buff.mem.cells |->
            IF i \in {front_canary_at(buff), back_canary_at(buff)}
            THEN buff.mem.data + i ELSE buff.mem.cells[i]]))

(* Mutant of fill_poison_all_after: starts one element late.               *)
fill_poison_late(buff, n_el) ==
    WithMem(buff, mem_fill(buff.mem, Poison, (n_el + 1) * buff.elem_sz + CANARY,
                           buff.mem.capacity - CANARY).mem)

(* fill_poison_all_after drops the code mem_fill returns: with no cell     *)
(* after element n_el nothing happens.                                     *)
fill_poison_all_after(buff, n_el) ==
    WithMem(buff, mem_fill(buff.mem, Poison, n_el * buff.elem_sz + CANARY,
                           buff.mem.capacity - CANARY).mem)

(* The VERIFY macro of protected_buff_size returns the state code where    *)
(* the caller expects a number of elements.                                *)
protected_buff_size(buff) ==
    LET state == protected_buff_state(buff) IN
    IF state # PBUFF_OK THEN state
    ELSE (buff.mem.capacity - 2 * CANARY) \div buff.elem_sz

(* Operations that may fail return [buff, err].                            *)
protected_buff_allocate(at, n_elems, el_sz) ==
    LET new == mem_allocate(at, n_elems * el_sz + 2 * CANARY)
    IN  [buff |-> IF new.err # MEM_SUCCESS
                  THEN [mem |-> new.mem, elem_sz |-> 0]
                  ELSE SetCanaries(fill_poison_all_after([mem |-> new.mem, elem_sz |-> el_sz], 0)),
         err |-> new.err]

protected_buff_deallocate(buff) ==
    LET state == protected_buff_state(buff)
        freed == mem_deallocate(fill_poison_all_after(buff, 0).mem)
    IN  IF state # PBUFF_OK THEN [buff |-> buff, err |-> state]
        ELSE [buff |-> [mem |-> freed.mem, elem_sz |-> 0], err |-> freed.err]

protected_buff_reallocate(buff, at, n_elems) ==
    LET state == protected_buff_state(buff)
        old_n_elems == protected_buff_size(buff)
        moved == mem_reallocate(buff.mem, at, n_elems * buff.elem_sz + 2 * CANARY)
        grown == WithMem(buff, moved.mem)
    IN  IF state # PBUFF_OK THEN [buff |-> buff, err |-> state]
        ELSE IF moved.err # MEM_SUCCESS THEN [buff |-> grown, err |-> moved.err]
        ELSE [buff |-> SetCanaries(IF old_n_elems < n_elems
                                   THEN fill_poison_all_after(grown, old_n_elems)
                                   ELSE grown),
              err |-> MEM_SUCCESS]

protected_buff_set_data(buff, el_pos, new_data) ==
    LET state == protected_buff_state(buff)
        set == mem_set_data(buff.mem, el_pos * buff.elem_sz + CANARY, new_data, buff.elem_sz)
    IN  IF state # PBUFF_OK THEN [buff |-> buff, err |-> state]
        ELSE [buff |-> WithMem(buff, set.mem), err |-> set.err]

(* The elem_sz cells protected_buff_get_data points at, as a function; it  *)
(* returns NULL (no cells) for a buffer that does not verify.              *)
Element(buff, el_pos) ==
    [i \in 0..(buff.elem_sz - 1) |-> buff.mem.cells[el_pos * buff.elem_sz + CANARY + i]]
=============================================================================
