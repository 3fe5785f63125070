-------------------------------- MODULE Stack --------------------------------
(***************************************************************************)
(* ProtectedStack/Stack.cpp: a stack of fixed-size elements that guards    *)
(* itself with canaries around its struct, canaries around its elements, a *)
(* checksum of each, and poison in every element that is not in use.       *)
(*                                                                         *)
(* One stack and one client.  An API call is one step: the library holds   *)
(* no locks and calls back into nothing that changes the stack.  A call    *)
(* first runs stack_state, which makes three cases: the check itself       *)
(* crashes, the check fails and its code is returned, the call goes on.    *)
(***************************************************************************)
EXTENDS ProtectedBuffer, Hash, Sequences

CONSTANTS
    ThisAddr,       \* the address calloc gives the struct
    Addrs,          \* the addresses the allocator may give the elements
    Sizes,          \* the sizes a client passes to stack_ctor
    ElemSizes,      \* the element sizes a client passes to stack_ctor
    Bytes,          \* the bytes a client's elements consist of
    Printer,        \* the address of the client's print function
    MaxElems        \* bound: the client pushes no more elements than this

ASSUME StackAssumption ==
    /\ ThisAddr \in Nat \ {NULL}
    /\ Addrs \subseteq Nat \ {NULL}
    /\ Sizes \subseteq Nat
    /\ ElemSizes \subseteq Nat
    /\ Bytes \subseteq Int
    /\ Printer \in Nat \ {NULL}
    /\ MaxElems \in Nat

VARIABLES
    stk,            \* the struct, with the block its buffer points at
    held,           \* the client holds a pointer to the struct
    live,           \* heap blocks allocated and not yet freed
    ret,            \* the last call: its name, its code, what it stored in dest
    crashed         \* the process died of a segmentation fault

vars == <<stk, held, live, ret, crashed>>

STACK_OK                       == 0
STK_BAD_FRONT_CANARY           == 1
STK_BAD_BACK_CANARY            == 2
STK_HASH_MISMATCH              == 4
STK_DATA_HASH_MISMATCH         == 8
STK_POPPING_EMPTY_STACK        == 16
STK_PEEKING_EMPTY_STACK        == 32
STK_BUFFER_VERIFICATION_FAILED == 64

GROW_COEFF == 2

CtorFailed == -1    \* stands for the NULL that stack_ctor returns

(* The struct as calloc leaves it.                                         *)
ZeroStack == [front_canary |-> 0, buff |-> [mem |-> EmptyMemory, elem_sz |-> 0],
              curr_pos |-> 0, print_elem |-> NULL,
              data_hash |-> 0, stack_hash |-> 0, back_canary |-> 0]

Elements(elem_sz) == [0..(elem_sz - 1) -> Bytes]

-----------------------------------------------------------------------------
(* Verification.                                                           *)

FrontCanaryAddr == ThisAddr
BackCanaryAddr  == ThisAddr + 8     \* eight words further

(* For a buffer that does not verify, compute_hash is given a null pointer *)
(* and the state code times elem_sz as the size to read from it.           *)
BuffHashFaults(s) ==
    protected_buff_state(s.buff) # PBUFF_OK /\ s.buff.elem_sz # 0

(* Mutant of compute_buff_hash: leaves out the last element.               *)
compute_buff_hash_short(s) ==
    LET size == (protected_buff_size(s.buff) - 1) * s.buff.elem_sz
    IN  ComputeHash([i \in 0..(size - 1) |-> s.buff.mem.cells[CANARY + i]], size)

compute_buff_hash(s) ==
    LET size == protected_buff_size(s.buff) * s.buff.elem_sz
    IN  ComputeHash([i \in 0..(size - 1) |-> s.buff.mem.cells[CANARY + i]], size)

compute_stack_hash(s) ==
    ComputeWordsHash(<<s.front_canary, s.buff.mem.data, s.buff.mem.capacity, s.buff.elem_sz,
                       s.curr_pos, s.print_elem, s.data_hash, s.stack_hash, s.back_canary>>)

update_hashes(s) ==
    LET hashed == [s EXCEPT !.data_hash = compute_buff_hash(s), !.stack_hash = 0]
    IN  [hashed EXCEPT !.stack_hash = compute_stack_hash(hashed)]

check_stack_hash(s) == s.stack_hash = compute_stack_hash([s EXCEPT !.stack_hash = 0])

check_data_hash(s) == s.data_hash = compute_buff_hash(s)

StackStateFaults(s) == StateFaults(s.buff) \/ BuffHashFaults(s)

(* Mutant of stack_state: leaves the data hash unchecked.                  *)
stack_state_blind(s) ==
    Flag(s.front_canary # FrontCanaryAddr, STK_BAD_FRONT_CANARY)
  + Flag(s.back_canary # BackCanaryAddr, STK_BAD_BACK_CANARY)
  + Flag(protected_buff_state(s.buff) # PBUFF_OK, STK_BUFFER_VERIFICATION_FAILED)
  + Flag(~check_stack_hash(s), STK_HASH_MISMATCH)

stack_state(s) ==
    Flag(s.front_canary # FrontCanaryAddr, STK_BAD_FRONT_CANARY)
  + Flag(s.back_canary # BackCanaryAddr, STK_BAD_BACK_CANARY)
  + Flag(protected_buff_state(s.buff) # PBUFF_OK, STK_BUFFER_VERIFICATION_FAILED)
  + Flag(~check_stack_hash(s), STK_HASH_MISMATCH)
  + Flag(~check_data_hash(s), STK_DATA_HASH_MISMATCH)

-----------------------------------------------------------------------------
(* What the operations do to the struct, once it has verified.             *)

(* Mutant of stack_ctor: keeps the struct when its elements get no block.  *)
stack_ctor_leaky(this, at, size, elem_sz) ==
    LET new == protected_buff_allocate(at, size, elem_sz)
    IN  IF this = NULL           THEN [stk |-> ZeroStack, held |-> FALSE, live |-> 0]
        ELSE IF new.err # 0      THEN [stk |-> ZeroStack, held |-> FALSE, live |-> 1]
        ELSE [stk  |-> update_hashes([ZeroStack EXCEPT !.buff = new.buff,
                                                       !.front_canary = FrontCanaryAddr,
                                                       !.back_canary = BackCanaryAddr]),
              held |-> TRUE,
              live |-> 2]

(* [stk, held, live]: the struct is freed again when its elements do not   *)
(* get a block.  `at' is where calloc puts the elements.                   *)
stack_ctor(this, at, size, elem_sz) ==
    LET new == protected_buff_allocate(at, size, elem_sz)
    IN  IF this = NULL           THEN [stk |-> ZeroStack, held |-> FALSE, live |-> 0]
        ELSE IF new.err # 0      THEN [stk |-> ZeroStack, held |-> FALSE, live |-> 0]
        ELSE [stk  |-> update_hashes([ZeroStack EXCEPT !.buff = new.buff,
                                                       !.front_canary = FrontCanaryAddr,
                                                       !.back_canary = BackCanaryAddr]),
              held |-> TRUE,
              live |-> 2]

(* Mutant of stack_push: counts the element whether or not there was room. *)
stack_push_uncared(s, data, at) ==
    LET n_elems == (s.curr_pos + (IF s.curr_pos = 0 THEN 1 ELSE 0)) * GROW_COEFF
        room == IF protected_buff_size(s.buff) = s.curr_pos
                THEN protected_buff_reallocate(s.buff, at, n_elems)
                ELSE [buff |-> s.buff, err |-> 0]
        set == protected_buff_set_data(room.buff, s.curr_pos, data)
        pushed == [s EXCEPT !.buff = IF room.err # 0 THEN room.buff ELSE set.buff, !.curr_pos = @ + 1]
    IN  [stk |-> update_hashes(pushed), err |-> room.err]

(* [stk, err].  The err of protected_buff_set_data is a variable of its    *)
(* own in the code, which the returned one hides.                          *)
stack_push(s, data, at) ==
    LET n_elems == (s.curr_pos + (IF s.curr_pos = 0 THEN 1 ELSE 0)) * GROW_COEFF
        room == IF protected_buff_size(s.buff) = s.curr_pos
                THEN protected_buff_reallocate(s.buff, at, n_elems)
                ELSE [buff |-> s.buff, err |-> 0]
        set == protected_buff_set_data(room.buff, s.curr_pos, data)
        pushed == IF room.err # 0 THEN [s EXCEPT !.buff = room.buff]
                  ELSE [s EXCEPT !.buff = set.buff,
                                 !.curr_pos = IF set.err = 0 THEN @ + 1 ELSE @]
    IN  [stk |-> update_hashes(pushed), err |-> room.err]

clean_elem(s, n) ==
    LET elem == (n * s.buff.elem_sz + CANARY)..((n + 1) * s.buff.elem_sz + CANARY - 1)
        mem  == s.buff.mem
    IN  [s EXCEPT !.buff = WithMem(s.buff, WithCells(mem,
            [i \in DOMAIN mem.cells |-> IF i \in elem THEN Poison ELSE mem.cells[i]]))]

(* Mutant of stack_pop: the hashes before the poison.                      *)
stack_pop_hash_first(s) ==
    clean_elem(update_hashes([s EXCEPT !.curr_pos = @ - 1]), s.curr_pos - 1)

stack_pop(s) ==
    update_hashes(clean_elem([s EXCEPT !.curr_pos = @ - 1], s.curr_pos - 1))

-----------------------------------------------------------------------------
(* The calls.                                                              *)

Init ==
    /\ stk = ZeroStack
    /\ held = FALSE
    /\ live = 0
    /\ ret = [op |-> "none", code |-> 0, val |-> NullData]
    /\ crashed = FALSE

Return(op, code, val) == ret' = [op |-> op, code |-> code, val |-> val]

Ctor(this, at, size, elem_sz) ==
    /\ ~held /\ ~crashed
    /\ LET new == stack_ctor(this, at, size, elem_sz)
       IN  /\ stk' = new.stk
           /\ held' = new.held
           /\ live' = live + new.live
           /\ Return("ctor", IF new.held THEN STACK_OK ELSE CtorFailed, NullData)
    /\ UNCHANGED crashed

Callable == held /\ ~crashed

(* STACK_VERIFY crashes.                                                   *)
VerifyCrash ==
    /\ Callable
    /\ StackStateFaults(stk)
    /\ crashed' = TRUE
    /\ UNCHANGED <<stk, held, live, ret>>

(* STACK_VERIFY returns the state.                                         *)
Reject(op) ==
    /\ Callable
    /\ ~StackStateFaults(stk)
    /\ stack_state(stk) # STACK_OK
    /\ Return(op, stack_state(stk), NullData)
    /\ UNCHANGED <<stk, held, live, crashed>>

(* STACK_VERIFY lets the call go on.                                       *)
Verified ==
    /\ Callable
    /\ ~StackStateFaults(stk)
    /\ stack_state(stk) = STACK_OK

Push(data, at) ==
    /\ Verified
    /\ stk.curr_pos < MaxElems
    /\ LET push == stack_push(stk, data, at)
       IN  stk' = push.stk /\ Return("push", push.err, NullData)
    /\ UNCHANGED <<held, live, crashed>>

PopEmpty ==
    /\ Verified
    /\ stk.curr_pos = 0
    /\ Return("pop", STK_POPPING_EMPTY_STACK, NullData)
    /\ UNCHANGED <<stk, held, live, crashed>>

Pop ==
    /\ Verified
    /\ stk.curr_pos # 0
    /\ stk' = stack_pop(stk)
    /\ Return("pop", STACK_OK, NullData)
    /\ UNCHANGED <<held, live, crashed>>

TopEmpty ==
    /\ Verified
    /\ stk.curr_pos = 0
    /\ Return("top", STK_PEEKING_EMPTY_STACK, NullData)
    /\ UNCHANGED <<stk, held, live, crashed>>

Top ==
    /\ Verified
    /\ stk.curr_pos # 0
    /\ Return("top", STACK_OK, Element(stk.buff, stk.curr_pos - 1))
    /\ UNCHANGED <<stk, held, live, crashed>>

(* stack_verify, stack_dump and stack_dump_to_log only read.               *)
Inspect(op) ==
    /\ Verified
    /\ Return(op, STACK_OK, NullData)
    /\ UNCHANGED <<stk, held, live, crashed>>

(* Mutant of SetElemPrinter: goes on whatever the state.                   *)
SetElemPrinterUnverified ==
    /\ Callable
    /\ ~StackStateFaults(stk)
    /\ stk' = update_hashes([stk EXCEPT !.print_elem = Printer])
    /\ Return("set_elem_printer", STACK_OK, NullData)
    /\ UNCHANGED <<held, live, crashed>>

SetElemPrinter ==
    /\ Verified
    /\ stk' = update_hashes([stk EXCEPT !.print_elem = Printer])
    /\ Return("set_elem_printer", STACK_OK, NullData)
    /\ UNCHANGED <<held, live, crashed>>

(* Mutant of Dtor: frees the elements twice.                               *)
DtorTwice ==
    /\ Verified
    /\ LET freed == protected_buff_deallocate(stk.buff)
       IN  /\ live' = live - 1 - (IF freed.err = 0 THEN 2 ELSE 0)
           /\ Return("dtor", freed.err, NullData)
    /\ stk' = ZeroStack
    /\ held' = FALSE
    /\ UNCHANGED crashed

(* The struct is freed whether or not the elements could be.               *)
Dtor ==
    /\ Verified
    /\ LET freed == protected_buff_deallocate(stk.buff)
       IN  /\ live' = live - 1 - (IF freed.err = 0 THEN 1 ELSE 0)
           /\ Return("dtor", freed.err, NullData)
    /\ stk' = ZeroStack
    /\ held' = FALSE
    /\ UNCHANGED crashed

Readers == {"verify", "dump", "dump_to_log"}
Ops == Readers \cup {"push", "pop", "top", "set_elem_printer", "dtor"}

(* A client in a process where only the library writes to the stack.  No   *)
(* verification crashes there (NoFalseAlarm): VerifyCrash is a step of     *)
(* StackFaults only.                                                       *)
Next ==
    \/ \E this \in {NULL, ThisAddr}, at \in Addrs \cup {NULL}, size \in Sizes, elem_sz \in ElemSizes :
          Ctor(this, at, size, elem_sz)
    \/ \E op \in Ops : Reject(op)
    \/ \E data \in Elements(stk.buff.elem_sz), at \in Addrs \cup {NULL} : Push(data, at)
    \/ PopEmpty
    \/ Pop
    \/ TopEmpty
    \/ Top
    \/ \E op \in Readers : Inspect(op)
    \/ SetElemPrinter
    \/ Dtor

Spec == Init /\ [][Next]_vars

-----------------------------------------------------------------------------
(* Properties.                                                             *)

(* The block has as many cells as the struct says, the printer is null or  *)
(* the client's, results are elements of a size the client asked for       *)
(* (struct Stack, Stack.cpp:42).  The two hashes are left to NoFalseAlarm, *)
(* which says what they are.                                               *)
TypeOK ==
    /\ stk \in [front_canary : Int,
                buff : [mem : [data : Addrs \cup {NULL}, capacity : Nat, cells : {stk.buff.mem.cells}],
                        elem_sz : Nat],
                curr_pos : Nat, print_elem : {NULL, Printer},
                data_hash : {stk.data_hash}, stack_hash : {stk.stack_hash}, back_canary : Int]
    /\ stk.buff.mem.cells \in [0..(stk.buff.mem.capacity - 1) -> Int]
    /\ held \in BOOLEAN
    /\ live \in Nat
    /\ ret \in [op : Ops \cup {"none", "ctor"}, code : Int, val : {ret.val}]
    /\ ret.val = NullData \/ \E n \in ElemSizes : ret.val \in [0..(n - 1) -> Int]
    /\ crashed \in BOOLEAN

(* No false alarm: as long as only the library writes to it, a stack that  *)
(* stack_ctor returned verifies before every call, after any sequence of   *)
(* pushes with their reallocations, pops and failures, so that no call is  *)
(* refused and none crashes (STACK_VERIFY, Stack.cpp:75).  Only a stack of *)
(* elements of size 0, which stack_ctor does not refuse, never verifies.   *)
NoFalseAlarm ==
    held => /\ ~StackStateFaults(stk)
            /\ stk.buff.elem_sz # 0 => stack_state(stk) = STACK_OK

(* The block holds a whole number of elements between two canaries, and    *)
(* the top never points past them, so that a push never writes over the    *)
(* back canary (stack_push, Stack.cpp:104).                                *)
RoomForElements ==
    held /\ stk.buff.elem_sz # 0 =>
        LET n == protected_buff_size(stk.buff)
        IN  /\ stk.buff.mem.capacity = n * stk.buff.elem_sz + 2 * CANARY
            /\ stk.curr_pos <= n

(* Every cell above the top is poison, whether it was never used, popped,  *)
(* or handed out by a realloc that clears nothing                          *)
(* (fill_poison_all_after and clean_elem).                                 *)
TailPoisoned ==
    held /\ stk.buff.elem_sz # 0 =>
        \A i \in (stk.curr_pos * stk.buff.elem_sz + CANARY)..(stk.buff.mem.capacity - CANARY - 1) :
            stk.buff.mem.cells[i] = Poison

(* A client that holds a stack holds both of its blocks, one that holds    *)
(* none has left none behind, neither after stack_dtor nor after a         *)
(* stack_ctor that ran out of memory half way (Stack.cpp:84, 147).         *)
NoLeak == live = IF held THEN 2 ELSE 0

(* The elements on the stack, bottom first.                                *)
Contents == [i \in 1..stk.curr_pos |-> Element(stk.buff, i - 1)]

Lifo == INSTANCE LifoStack WITH
    Values  <- UNION {Elements(n) : n \in ElemSizes},
    NoValue <- NullData,
    items   <- Contents,
    state   <- IF ~held THEN "none" ELSE IF stk.buff.elem_sz # 0 THEN "usable" ELSE "refusing",
    ret     <- [op |-> ret.op, ok |-> ret.code = STACK_OK, val |-> ret.val]

(* Bytes between canaries, moved, grown and poisoned, behave as the LIFO   *)
(* stack of Stack.h: top returns what the last push still standing stored, *)
(* and a call that returns an error has changed nothing.                   *)
ImplementsLifo == Lifo!Spec
=============================================================================
