-------------------------------- MODULE Code --------------------------------
(***************************************************************************)
(* WM/src/WASM/code.cpp: a buffer of instructions that doubles, and        *)
(* WM/src/Instruction/instr.cpp: the formats of their arguments and the    *)
(* names of the commands.                                                  *)
(*                                                                         *)
(* Of the buffer, instr_ is what was written, so that pos_ is its length,  *)
(* and block the pointer.  code_size and code_dump, which go by size_, and *)
(* code_write_D, which nothing calls, are left out.  An opcode is the name *)
(* of its command.                                                         *)
(***************************************************************************)
EXTENDS Naturals, Sequences

CONSTANTS
    G_INSTR_ARG_R_MAX,      \* 2^6
    G_INSTR_ARG_A_MAX,      \* 2^10
    G_INSTR_ARG_B_MAX,      \* 2^10
    G_INSTR_ARG_C_MAX,      \* 2^20
    ArgValues,              \* 2^32, the values of an arg_t
    Shortened               \* commands cut short, each with those it may stand for

G_INSTR_N_REGISTERS == G_INSTR_ARG_R_MAX
G_INSTR_ARG_INVALID == ArgValues - 1

Arithmetic == {"add", "sub", "mul", "div"}
Commands   == Arithmetic \cup {"print", "move"}

ASSUME CodeAssumption ==
    /\ G_INSTR_ARG_R_MAX \in Nat \ {0} /\ ArgValues \in Nat
    /\ {G_INSTR_ARG_A_MAX, G_INSTR_ARG_B_MAX, G_INSTR_ARG_C_MAX} \subseteq G_INSTR_N_REGISTERS..(ArgValues - 1)
    /\ \A name \in DOMAIN Shortened : name \notin Commands /\ Shortened[name] \subseteq Commands

-----------------------------------------------------------------------------
(* instr.cpp.                                                              *)

(* The comparison accepts every beginning of a command, and where several  *)
(* begin alike, which one bsearch meets first is its own affair.           *)
find_reserved_command(name) ==
    IF name \in DOMAIN Shortened THEN Shortened[name] ELSE {name} \cap Commands

Fit(arg, max) == IF arg < max THEN arg ELSE G_INSTR_ARG_INVALID

arg_to_R(arg) == Fit(arg, G_INSTR_ARG_R_MAX)

(* Mutant of arg_to_A: does not set constants off from registers.          *)
arg_to_A_plain(arg) == Fit(arg, G_INSTR_ARG_A_MAX)

arg_to_A(arg) == Fit(arg + G_INSTR_N_REGISTERS, G_INSTR_ARG_A_MAX)
arg_to_B(arg) == Fit(arg + G_INSTR_N_REGISTERS, G_INSTR_ARG_B_MAX)

(* Mutant of arg_to_C: one constant more than the field has room for.      *)
arg_to_C_wide(arg) == Fit(arg + G_INSTR_N_REGISTERS, G_INSTR_ARG_C_MAX + 1)

arg_to_C(arg) == Fit(arg + G_INSTR_N_REGISTERS, G_INSTR_ARG_C_MAX)

-----------------------------------------------------------------------------
(* code.cpp.                                                               *)

NULL == "null"

code_destroyable == [block |-> NULL, instr_ |-> <<>>, size_ |-> 0]

code_init(block, size) == [block |-> block, instr_ |-> <<>>, size_ |-> size]

code_grow(code) == [code EXCEPT !.size_ = 2 * @]

full(code) == code.size_ <= Len(code.instr_)

(* There is memory to grow, if it has to.                                  *)
code_push(code, instr) ==
    LET room == IF full(code) THEN code_grow(code) ELSE code
    IN  [room EXCEPT !.instr_ = Append(@, instr)]

RAB(opcode, R, A, B) == [form |-> "RAB", opcode |-> opcode, R |-> R, A |-> A, B |-> B]
RC(opcode, R, C)     == [form |-> "RC", opcode |-> opcode, R |-> R, C |-> C]

Instructions ==
    LET Below(max) == 0..(max - 1)
    IN  [form : {"RAB"}, opcode : Commands, R : Below(G_INSTR_ARG_R_MAX),
         A : Below(G_INSTR_ARG_A_MAX), B : Below(G_INSTR_ARG_B_MAX)]
        \cup [form : {"RC"}, opcode : Commands, R : Below(G_INSTR_ARG_R_MAX), C : Below(G_INSTR_ARG_C_MAX)]
=============================================================================
