----------------------------- MODULE StackFaults -----------------------------
(***************************************************************************)
(* The stack of Stack.tla in a process that also writes to the stack's     *)
(* memory behind its back, which is what the canaries, checksums and the   *)
(* verification before every call are for: Stack.cpp:281 and 283 name the  *)
(* cases, and main.cpp:46-49 tries some by hand.  `view' is what a client  *)
(* believes is on the stack from the codes its calls returned.  `alike'    *)
(* records that some outside write could not have been told from what was  *)
(* there by any checksum of this kind: it is no state of the program.      *)
(***************************************************************************)
EXTENDS Stack

CONSTANTS
    FaultBytes,     \* what an outside write leaves in a cell of the block
    FaultWords,     \* what it leaves in a word of the struct
    MaxFaults       \* bound: outside writes in a behaviour

ASSUME FaultAssumption == FaultBytes \subseteq Int /\ FaultWords \subseteq Int

VARIABLES view, faults, alike

fvars == <<stk, held, live, ret, crashed, view, faults, alike>>

FInit == Init /\ view = <<>> /\ faults = 0 /\ alike = FALSE

-----------------------------------------------------------------------------
(* Calls, and the client's bookkeeping.                                    *)

CtorCall ==
    /\ \E this \in {NULL, ThisAddr}, at \in Addrs \cup {NULL},
          size \in Sizes, elem_sz \in ElemSizes : Ctor(this, at, size, elem_sz)
    /\ view' = <<>>

PushCall ==
    \E data \in Elements(stk.buff.elem_sz), at \in Addrs \cup {NULL} :
        /\ Push(data, at)
        /\ view' = IF ret'.code = STACK_OK THEN Append(view, data) ELSE view

PopCall ==
    /\ Pop
    /\ view' = SubSeq(view, 1, Len(view) - 1)

OtherCall ==
    /\ \/ PopEmpty
       \/ TopEmpty
       \/ Top
       \/ SetElemPrinter
       \/ \E op \in Readers : Inspect(op)
       \/ \E op \in Ops : Reject(op)
       \/ VerifyCrash
    /\ UNCHANGED view

DtorCall == Dtor /\ view' = <<>>

-----------------------------------------------------------------------------
(* Outside writes.  One changes a cell of the block or a word of the       *)
(* struct; the pointer to the block only becomes NULL, since for any other *)
(* pointer or capacity the check reads memory that is not the stack's.     *)

(* Two terms of a checksum that it does not tell apart: equal ones, and,   *)
(* because the modulo of compute_hash (hash.cpp:11) makes the sums -1 and  *)
(* 0 one, neighbours when the checksum is 0.                               *)
Like(old, new, hash) == old = new \/ (hash = 0 /\ old - new \in {-1, 1})

MarkLike(like) == alike' = (alike \/ like)

WriteCell(i, v) ==
    LET mem == stk.buff.mem IN
    /\ stk' = [stk EXCEPT !.buff.mem.cells[i] = v]
    /\ MarkLike(i \notin {0, mem.capacity - CANARY}
                  /\ Like(roll(mem.cells[i], i - CANARY), roll(v, i - CANARY), stk.data_hash))

(* A word that is compared with what it must be.                           *)
WriteGuard(v) ==
    /\ \/ stk' = [stk EXCEPT !.front_canary = v]
       \/ stk' = [stk EXCEPT !.buff.mem.data = NULL]
       \/ stk' = [stk EXCEPT !.data_hash = v]
       \/ stk' = [stk EXCEPT !.stack_hash = v]
       \/ stk' = [stk EXCEPT !.back_canary = v]
    /\ UNCHANGED alike

(* A word that only the checksum of the struct knows.                      *)
WriteField(v) ==
    LET Instead(old) == MarkLike(Like(WordHash(old), WordHash(v), stk.stack_hash)) IN
    \/ stk' = [stk EXCEPT !.buff.elem_sz = v] /\ Instead(stk.buff.elem_sz)
    \/ stk' = [stk EXCEPT !.curr_pos = v] /\ Instead(stk.curr_pos)
    \/ stk' = [stk EXCEPT !.print_elem = v] /\ Instead(stk.print_elem)

OutsideWrite ==
    /\ Callable
    /\ faults < MaxFaults
    /\ faults' = faults + 1
    /\ \/ \E i \in DOMAIN stk.buff.mem.cells, v \in FaultBytes : WriteCell(i, v)
       \/ \E v \in FaultWords : WriteGuard(v) \/ WriteField(v)
    /\ stk' # stk
    /\ UNCHANGED <<held, live, ret, crashed, view>>

FNext ==
    \/ (CtorCall \/ PushCall \/ PopCall \/ OtherCall \/ DtorCall) /\ UNCHANGED <<faults, alike>>
    \/ OutsideWrite

FSpec == FInit /\ [][FNext]_fvars

-----------------------------------------------------------------------------
(* Properties.                                                             *)

(* stack_verify, and with it STACK_VERIFY, sees something wrong.           *)
Noticed == StackStateFaults(stk) \/ stack_state(stk) # STACK_OK

(* One outside write, of any byte or word to any cell or word and at any   *)
(* moment, is noticed by the next call, unless its term of the checksum is *)
(* like the one it replaces (stack_state, Stack.cpp:223).                  *)
WriteNoticed == faults = 1 /\ held /\ ~alike => Noticed

(* No laundering: a stack that does not verify stays as it is. No call     *)
(* repairs a canary, recomputes a hash over foreign data, frees it, or     *)
(* reports success on it (STACK_VERIFY, Stack.cpp:75).                     *)
NoLaundering ==
    [][held /\ Noticed /\ faults' = faults
          => stk' = stk /\ held' /\ (crashed' \/ ret'.code # STACK_OK)]_fvars

(* What stack_top delivers with STACK_OK is the element of the last push   *)
(* that returned STACK_OK and was not popped, even while foreign writes    *)
(* happen, as long as none was like what it replaced (stack_top,           *)
(* Stack.cpp:134).                                                         *)
TopTruthful ==
    ~alike /\ ret.op = "top" /\ ret.code = STACK_OK => view # <<>> /\ ret.val = view[Len(view)]

(* stack_state describes a damaged buffer by a code, which the caller gets *)
(* to see: STK_BUFFER_VERIFICATION_FAILED, "Buffer verifying failed"       *)
(* (Stack.h:17, Stack.cpp:277).                                            *)
DamageReported == ~crashed
=============================================================================
