----------------------------- MODULE Assembler -----------------------------
(***************************************************************************)
(* WM/src/WASM/asm.cpp: an assembler of one pass over the tokens of its    *)
(* source, on top of Lexer, ObjectPool, Code and WMLog, and a program that *)
(* assembles one source after another.                                     *)
(*                                                                         *)
(* A source is a sequence of lines, a line one of words.  A word is the    *)
(* characters the lexer sees, the letters it begins with and the number in *)
(* it.  asm.cpp does not compile; where arguments are missing in a call    *)
(* (asm.cpp:196, 225), the evident ones are meant.  Assertions are         *)
(* compiled in, the macros that log are not (DO_LOGS, log.h:41), so that   *)
(* only errors reach the log.                                              *)
(***************************************************************************)
EXTENDS Integers, FiniteSets, SequencesExt, Code, WMLog

CONSTANTS
    Sources,                    \* what a program assembles
    RNames,                     \* the names that begin with an R
    G_OBJ_TABLE_INITIAL_SIZE,   \* 32
    G_CODE_INITIAL_SIZE,        \* 512
    OBJ_SIZE, BAD_IDX           \* as in ObjectPool

VARIABLES
    assm,       \* the Assembler: lex_, obj_pool_ and code_
    log,        \* the log of the process
    src,        \* the source, its text, and the word at each place of it
    phase,      \* where the program is
    heap,       \* the blocks the assembler has from the allocator
    origin,     \* for each instruction, the position of the command it is for
    reports     \* the errors reported, with the command or token they are about

vars == <<assm, log, src, phase, heap, origin, reports>>

Lex  == INSTANCE Lexer WITH
            Sources <- {}, lex <- assm.lex_, read <- {}, skipped <- {}, fresh <- FALSE
Pool == INSTANCE ObjectPool WITH
            Objects <- {}, Sizes <- {}, pool <- assm.obj_pool_, given <- <<>>,
            errors <- FALSE, overrun <- FALSE, ret <- <<>>

SourceWords == UNION {ToSet(line) : line \in UNION {ToSet(lines) : lines \in Sources}}

ASSUME AssemblerAssumption ==
    /\ Sources \subseteq Seq(Seq(SourceWords)) /\ "R" \in RNames
    /\ \A word \in SourceWords : word.sym \in Seq(Lex!Classes) /\ word.num \in Int
    /\ G_OBJ_TABLE_INITIAL_SIZE \in Nat \ {0} /\ G_CODE_INITIAL_SIZE \in Nat \ {0}

(* A word is one that the lexer makes one token of, or refuses at its      *)
(* first character, or it begins a comment.                                *)
IsName(sym)   == sym # <<>> /\ sym[1] \in Lex!IsAlpha /\ ToSet(sym) \subseteq Lex!Word
IsNumber(sym) ==
    /\ sym # <<>> /\ sym[1] \in {"digit", "sign"} /\ \A i \in 2..Len(sym) : sym[i] \in {"digit", "dot"}
    /\ \A i, j \in DOMAIN sym : sym[i] = "dot" /\ sym[j] = "dot" => i = j

ASSUME WordAssumption ==
    \A word \in SourceWords :
        /\ word.sym \in {<<"hash">>, <<"colon">>, <<"dot">>, <<"other">>} \/ IsName(word.sym) \/ IsNumber(word.sym)
        /\ word.name # "" <=> IsName(word.sym)
        /\ word.num < 0 => word.sym[1] = "sign"

-----------------------------------------------------------------------------
(* The text of a source, with a blank after each word, the word that each  *)
(* character of it belongs to, and where the lines begin.                  *)

Newline == [sym |-> <<"newline">>, name |-> "", num |-> 0]

Words(lines) == FlattenSeq([k \in DOMAIN lines |-> Append(lines[k], Newline)])

Source(lines) ==
    LET words    == Words(lines)
        Chars(n) == Append(words[n].sym, "blank")
        place[n \in 1..(Len(words) + 1)] == IF n = 1 THEN 1 ELSE place[n - 1] + Len(Chars(n - 1))
    IN  [lines |-> lines,
         text  |-> FlattenSeq([n \in DOMAIN words |-> Chars(n)]),
         at    |-> FlattenSeq([n \in DOMAIN words |-> [i \in DOMAIN Chars(n) |-> words[n]]]),
         begin |-> [k \in DOMAIN lines |-> place[1 + Len(Words(SubSeq(lines, 1, k - 1)))]]]

Rendered == {Source(lines) : lines \in Sources}

NoSource == [lines |-> <<>>, text |-> <<>>, at |-> <<>>, begin |-> <<>>]

-----------------------------------------------------------------------------
(* One round of asm_translate works on a record: the assembler, the log,   *)
(* the notes, the token the round is about, what the environment answers   *)
(* in this round, the arguments read so far, what the handler returns, and *)
(* whether the process has ended.  A step of the round returns the record. *)

Round(tok, mem, opens) ==
    [assm |-> assm, log |-> log, origin |-> origin, reports |-> reports, at |-> tok.beg,
     mem |-> mem, opens |-> opens, args |-> <<>>, ok |-> TRUE, over |-> FALSE]

Tok(w) == w.assm.lex_.tok_

Return(w, arg) == [w EXCEPT !.args = Append(@, arg)]

error(w, kind) ==
    [w EXCEPT !.log = log_msg_varg(@, w.opens), !.reports = @ \cup {[at |-> w.at, kind |-> kind]}]

(* The process ends in log_msg_varg.                                       *)
fatal(w) == [w EXCEPT !.log = log_msg_varg(@, w.opens), !.over = TRUE]

get_tok(w)   == [w EXCEPT !.assm.lex_ = Lex!lex_get_tok(@, FALSE)]
skip_line(w) == [w EXCEPT !.assm.lex_ = Lex!lex_skip_line(@)]

tok_is_identifier(tok) == tok.type = "IDENTIFIER"
tok_is_const(tok)      == tok.type \in Lex!Consts

code_write(w, instr) ==
    IF full(w.assm.code_) /\ ~w.mem THEN [fatal(w) EXCEPT !.ok = FALSE]
    ELSE [w EXCEPT !.assm.code_ = code_push(@, instr), !.origin = Append(@, w.at), !.ok = TRUE]

(* What strtol makes of the text at place p: the number in the word there, *)
(* or, past spaces, in the next one; and where it stops.                   *)
strtol(p) ==
    LET s     == src.text
        q     == Lex!RunEnd(s, p, Lex!IsSpace)
        first == IF Lex!Sym(s, q) = "sign" THEN q + 1 ELSE q
        stop  == Lex!RunEnd(s, first, {"digit"})
    IN  IF stop = first THEN [num |-> 0, nend |-> p]
        ELSE [num |-> src.at[q].num, nend |-> stop]

(* Extra characters are reported after every register, for no character is *)
(* both a space and the end.                                               *)
Extra(w, c) == IF c \notin Lex!IsSpace \/ c # "end" THEN error(w, "extra") ELSE w

(* A register with too large a number is not reported, for R is never the  *)
(* number of registers.                                                    *)
Register(w, R) == IF R = G_INSTR_N_REGISTERS THEN error(w, "wrong") ELSE w

handle_register(w) ==
    LET read == strtol(Tok(w).beg + 1)
        R    == arg_to_R(read.num % ArgValues)
    IN  IF src.at[Tok(w).beg].name \notin RNames THEN Return(error(w, "no register"), G_INSTR_ARG_INVALID)
        ELSE Return(Extra(Register(w, R), Lex!Sym(src.text, read.nend)), R)

make_object(tok) == [tag |-> IF tok.type = "INT_NUMBER" THEN "INT" ELSE "DEC", val |-> src.at[tok.beg].num]

load_const_in_reg(w, cnst, reg) ==
    LET Loaded(v) == Return(v, IF v.ok THEN reg ELSE G_INSTR_ARG_INVALID)
    IN  IF arg_to_C(cnst) = G_INSTR_ARG_INVALID THEN Return(error(w, "too many"), G_INSTR_ARG_INVALID)
        ELSE Loaded(code_write(w, RC("move", reg, arg_to_C(cnst))))

Constants(w, idx, ref) ==
    IF ref = G_INSTR_ARG_INVALID THEN load_const_in_reg(w, idx, G_INSTR_N_REGISTERS - 1) ELSE Return(w, ref)

arg_formatter(operand, idx) == IF operand = "A" THEN arg_to_A(idx) ELSE arg_to_B(idx)

(* obj_pool_insert, and what becomes of the place it finds.  A pool that   *)
(* grows is written past its block (object_pool_grow): here the process is *)
(* over.                                                                   *)
handle_constant(w, operand) ==
    LET obj   == make_object(Tok(w))
        pool  == w.assm.obj_pool_
        found == Pool!obj_pool_look_up(pool, obj).idx
        At(v, idx) == Constants(v, idx, arg_formatter(operand, idx))
    IN  CASE found # BAD_IDX             -> At(w, found)
          [] found = BAD_IDX /\ pool.nobjs < pool.capacity ->
                At([w EXCEPT !.assm.obj_pool_ = Pool!Store(@, obj)], pool.nobjs)
          [] OTHER -> IF w.mem THEN [w EXCEPT !.over = TRUE]
                      ELSE Return(error(w, "no memory"), G_INSTR_ARG_INVALID)

(* Mutant of R_of: takes a token of another kind for register 0.           *)
R_of_quiet(w) == IF tok_is_identifier(Tok(w)) THEN handle_register(w) ELSE Return(w, 0)

(* An argument: after a token of another kind it is 0.                     *)
R_of(w) == IF tok_is_identifier(Tok(w)) THEN handle_register(w) ELSE Return(error(w, "expected"), 0)

Ref_of(w, operand) == IF tok_is_const(Tok(w)) THEN handle_constant(w, operand) ELSE R_of(w)

handle_arithmetic(w0, ar_code) ==
    LET First(w)  == R_of(get_tok(w))
        Second(w) == Ref_of(get_tok(w), "A")
        Third(w)  == IF w.over THEN w ELSE Ref_of(get_tok(w), "B")
        Write(w)  == IF w.over THEN w
                     ELSE IF G_INSTR_ARG_INVALID \in ToSet(w.args) THEN [w EXCEPT !.ok = FALSE]
                     ELSE code_write(w, RAB(ar_code, w.args[1], w.args[2], w.args[3]))
    IN  Write(Third(Second(First(w0))))

(* The handlers of move and print return nothing: anything.                *)
call_handler(w, opcode, anything) ==
    IF opcode \in Arithmetic THEN handle_arithmetic(w, opcode) ELSE [w EXCEPT !.ok = anything]

-----------------------------------------------------------------------------
(* The program.                                                            *)

obj_pool_init(size) ==
    [objs |-> [room |-> size, cells |-> [i \in 0..(size - 1) |-> Pool!Zero]], nobjs |-> 0, capacity |-> size]

asm_destroyable == [lex_ |-> Lex!lex_init(<<>>), obj_pool_ |-> Pool!obj_pool_destroyable, code_ |-> code_destroyable]

(* The blocks an assembler has pointers to.                                *)
Owned(a) == (IF Pool!Live(a.obj_pool_) THEN {"objs"} ELSE {}) \cup ({a.code_.block} \ {NULL})

Init ==
    /\ assm = asm_destroyable
    /\ log = LogAtStart
    /\ src = NoSource
    /\ phase = "none"
    /\ heap = {}
    /\ origin = <<>> /\ reports = {}

(* Mutant of asm_free: keeps the pointers to what it freed.                *)
asm_free_kept(a, blocks) ==
    /\ assm' = [a EXCEPT !.obj_pool_ = Pool!obj_pool_destroyable]
    /\ heap' = blocks \ Owned(a)
    /\ phase' = IF Owned(a) \subseteq blocks THEN "none" ELSE "crashed"

(* Freeing a block twice is the end of the process.                        *)
asm_free(a, blocks) ==
    /\ assm' = asm_destroyable
    /\ heap' = blocks \ Owned(a)
    /\ phase' = IF Owned(a) \subseteq blocks THEN "none" ELSE "crashed"

AsmFree ==
    /\ phase \in {"none", "ready", "done"}
    /\ asm_free(assm, heap)
    /\ src' = NoSource /\ origin' = <<>> /\ reports' = {}
    /\ UNCHANGED log

AsmInit(source) ==
    /\ phase = "none"
    /\ src' = source
    /\ assm' = [lex_      |-> Lex!lex_init(source.text),
                obj_pool_ |-> obj_pool_init(G_OBJ_TABLE_INITIAL_SIZE),
                code_     |-> code_init("instr", G_CODE_INITIAL_SIZE)]
    /\ heap' = heap \cup Owned(assm')
    /\ phase' = "ready"
    /\ UNCHANGED <<log, origin, reports>>

(* There is no memory for the pool, or for the code.                       *)
AsmInitFails(pool) ==
    LET made == [asm_destroyable EXCEPT !.obj_pool_ = pool] IN
    /\ phase = "none"
    /\ asm_free(made, heap \cup Owned(made))
    /\ UNCHANGED <<log, src, origin, reports>>

Translate == phase = "ready" /\ phase' = "translating" /\ UNCHANGED <<assm, log, src, heap, origin, reports>>

(* The round is over; a process that ended has no state to speak of.       *)
Concludes(w, next) ==
    /\ assm' = w.assm /\ log' = w.log /\ origin' = w.origin /\ reports' = w.reports
    /\ phase' = IF w.over THEN "over" ELSE next
    /\ UNCHANGED <<src, heap>>

(* The token a round of asm_translate begins with.                         *)
Next_tok == Lex!lex_get_tok(assm.lex_, FALSE).tok_

Final == phase = "translating" /\ Next_tok.type = "FINAL" /\ Concludes(get_tok(Round(Next_tok, FALSE, FALSE)), "done")

Command(opcode, mem, opens, anything) ==
    LET After(w) == IF w.ok \/ w.over THEN w ELSE skip_line(w)
    IN  /\ phase = "translating" /\ Next_tok.type = "IDENTIFIER"
        /\ opcode \in find_reserved_command(src.at[Next_tok.beg].name)
        /\ Concludes(After(call_handler(get_tok(Round(Next_tok, mem, opens)), opcode, anything)), "translating")

(* assert (false && "Unreserved identifyier will be later")                *)
Unreserved ==
    /\ phase = "translating" /\ Next_tok.type = "IDENTIFIER"
    /\ find_reserved_command(src.at[Next_tok.beg].name) = {}
    /\ Concludes(get_tok(Round(Next_tok, FALSE, FALSE)), "over")

(* Mutant of Unexpected: does not skip the rest of the line.               *)
UnexpectedStay(opens) ==
    /\ phase = "translating" /\ Next_tok.type \notin {"IDENTIFIER", "FINAL"}
    /\ Concludes(error(get_tok(Round(Next_tok, FALSE, opens)), "unexpected"), "translating")

Unexpected(opens) ==
    /\ phase = "translating" /\ Next_tok.type \notin {"IDENTIFIER", "FINAL"}
    /\ Concludes(skip_line(error(get_tok(Round(Next_tok, FALSE, opens)), "unexpected")), "translating")

(* Between its calls of the assembler the program sets up the log and      *)
(* writes to it.                                                           *)
Calls(newlog) ==
    /\ phase \in {"none", "done"}
    /\ log' = newlog
    /\ UNCHANGED <<assm, src, phase, heap, origin, reports>>

SetUpLog ==
    \/ \E fmt \in Formats : Calls(log_set_context_format(log, fmt))
    \/ \E lvl \in {"ERROR"} : Calls(log_set_context_lvl(log, lvl))
    \/ \E file_name \in LogFiles : Calls(log_set_context_file_name(log, file_name))

WriteLog == \E type \in {"INFO", "ERROR"}, opens \in BOOLEAN : Calls(log_msg(log, type, opens))

(* The process has ended.                                                  *)
Ended == phase \in {"over", "crashed"} /\ UNCHANGED vars

Rounds ==
    \/ Final
    \/ \E opcode \in Commands, mem, opens, anything \in BOOLEAN : Command(opcode, mem, opens, anything)
    \/ Unreserved
    \/ \E opens \in BOOLEAN : Unexpected(opens)

Next ==
    \/ \E source \in Rendered : AsmInit(source)
    \/ \E pool \in {Pool!obj_pool_destroyable, obj_pool_init(G_OBJ_TABLE_INITIAL_SIZE)} : AsmInitFails(pool)
    \/ Translate
    \/ Rounds
    \/ AsmFree
    \/ SetUpLog
    \/ WriteLog
    \/ Ended

Spec == Init /\ [][Next]_vars

-----------------------------------------------------------------------------
(* Properties.                                                             *)

(* Types; every value fits the field of the instruction it is stored in    *)
(* (struct Instruction, instr.h:65), and one instruction more than the     *)
(* buffer has room for is never written.                                   *)
TypeOK ==
    /\ phase \in {"none", "ready", "translating", "done", "over", "crashed"}
    /\ assm.code_.instr_ \in Seq(Instructions)
    /\ Len(assm.code_.instr_) <= assm.code_.size_
    /\ DOMAIN origin = DOMAIN assm.code_.instr_
    /\ heap \subseteq {"objs", "instr"}
    /\ log.instance = NoLogger => log.out = {}

(* The words of a line that mean something.                                *)
Meant(line) == SubSeq(line, 1, Cardinality({i \in DOMAIN line : \A j \in 1..i : line[j].sym # <<"hash">>}))

IsRegister(word) == word.sym = <<"letter", "digit">> /\ word.name = "R" /\ word.num < G_INSTR_N_REGISTERS
IsConstant(word) == word.sym[1] \in {"digit", "sign"} /\ \E i \in DOMAIN word.sym : word.sym[i] = "digit"

(* add R1 R2 5 (instr.h:13)                                                *)
WellFormed(line) ==
    /\ Len(line) = 4
    /\ line[1].name \in Arithmetic
    /\ IsRegister(line[2])
    /\ \A i \in 3..4 : IsRegister(line[i]) \/ IsConstant(line[i])

Obj(word) == [tag |-> IF \E i \in DOMAIN word.sym : word.sym[i] = "dot" THEN "DEC" ELSE "INT", val |-> word.num]

Instr(n) == assm.code_.instr_[n]
LastReg  == G_INSTR_N_REGISTERS - 1

Constant(field) == Pool!obj_pool_get(assm.obj_pool_, field - G_INSTR_N_REGISTERS, Pool!Void)

(* What an operand of instruction n stands for: a register, a constant, or *)
(* the constant that the instruction before it moves into the last         *)
(* register.                                                               *)
Denotes(n, field, word) ==
    IF IsRegister(word) THEN field = word.num
    ELSE \/ field >= G_INSTR_N_REGISTERS /\ Constant(field) = Obj(word)
         \/ /\ field = LastReg /\ n > 1 /\ origin[n - 1] = origin[n]
            /\ Instr(n - 1).form = "RC" /\ Instr(n - 1).R = LastReg
            /\ Constant(Instr(n - 1).C) = Obj(word)

(* The arithmetic instructions of the command that begins at place p.      *)
Translated(p) == {n \in DOMAIN origin : origin[n] = p /\ Instr(n).form = "RAB"}

Loads(p) == {n \in DOMAIN origin : origin[n] = p /\ Instr(n).form = "RC"}

(* An instruction means its line: it has the command and the registers of  *)
(* it and, looked up in the pool at any later time, the constants, however *)
(* many came before.  Of two constants loaded into the last register only  *)
(* the second is there, and a register operand that names the last one     *)
(* finds a constant of the line in it (handle_constant, asm.cpp:248).      *)
OperandsMeant ==
    phase # "over" => \A k \in DOMAIN src.lines :
        LET line == Meant(src.lines[k])
            p    == src.begin[k]
        IN  WellFormed(line) =>
                \A n \in Translated(p) :
                   /\ Instr(n).opcode = line[1].name
                   /\ Instr(n).R = line[2].num
                   /\ Cardinality(Loads(p)) <= 1 => Denotes(n, Instr(n).A, line[3])
                   /\ Denotes(n, Instr(n).B, line[4])

(* A line that takes no words of the next one: an empty one, one of four   *)
(* words that does not begin with a command that reads none of them, one   *)
(* that does not begin with a command or has a token in it that the lexer  *)
(* does not pass.                                                          *)
Closed(line) ==
    \/ Len(line) = 0
    \/ Len(line) = 4 /\ find_reserved_command(line[1].name) \subseteq Arithmetic
    \/ \E i \in 1..Len(line) : line[i].sym \in {<<"other">>, <<"dot">>}
    \/ Len(line) > 0 /\ line[1].name = ""

Reported(p, kinds) == \E report \in reports : report.at = p /\ report.kind \in kinds

(* In the end a well-formed line has one instruction, in the place of its  *)
(* line among the others, or its constants are too many, as long as all    *)
(* lines before it kept to themselves, right or wrong: the skip after an   *)
(* error ends where the line does, and a line without one ends with its    *)
(* fourth word (lex_skip_line, asm.cpp:97 and 105).                        *)
LinesKept ==
    phase = "done" =>
        /\ \A k \in DOMAIN src.lines :
              LET p == src.begin[k] IN
              WellFormed(Meant(src.lines[k])) /\ (\A j \in 1..(k - 1) : Closed(Meant(src.lines[j]))) =>
                  \/ Cardinality(Translated(p)) = 1
                  \/ Translated(p) = {} /\ Reported(p, {"too many", "no memory"})
        /\ \A m, n \in DOMAIN origin : m < n => origin[m] <= origin[n]

(* No wrong operand of an arithmetic command is taken in silence.  A line  *)
(* of four words or more, or one that keeps to itself, after lines that    *)
(* kept to themselves, is well-formed and has its instruction, or else an  *)
(* error says so, even when an instruction was written with 0 for what is  *)
(* missing (asm.cpp:178, 188 and 198).  That there are extra characters    *)
(* does not count as one, for it is said of every register; it is all that *)
(* is said of a word that begins as one and is none: too large a number is *)
(* refused in silence, and none at all taken for 0 (asm.cpp:219).          *)
WrongRegister(word) == word.name \in RNames /\ ~IsRegister(word)

NothingSilent ==
    phase = "done" =>
        \A k \in DOMAIN src.lines :
           LET line == Meant(src.lines[k])
               p    == src.begin[k]
           IN  /\ Len(line) >= 4 \/ Closed(line)
               /\ line # <<>> /\ line[1].name \in Arithmetic
               /\ \A j \in 1..(k - 1) : Closed(Meant(src.lines[j]))
               => \/ WellFormed(SubSeq(line, 1, 4)) /\ Translated(p) # {}
                  \/ \E report \in reports : report.at = p /\ report.kind # "extra"
                  \/ \E i \in DOMAIN line \cap 2..4 : WrongRegister(line[i])

(* The assembler has the blocks it points to and no other, whichever       *)
(* allocation failed and however often it is freed (asm_free is called by  *)
(* asm_init and by the program, asm.cpp:67).                               *)
HeapClean == phase # "crashed" /\ heap = Owned(assm) /\ (phase = "none" => heap = {})

(* The log has one format and one stream from its first line to its last,  *)
(* whatever is set up later, and a header if and only if it is HTML        *)
(* (const LoggerContext context, log.h:22).                                *)
OneVoice ==
    /\ \A piece \in log.out :
          piece.format = log.instance.context.format /\ piece.to = log.instance.output
    /\ log.instance # NoLogger =>
          (log.instance.context.format = "HTML" <=> \E piece \in log.out : piece.what = "header")

(* asm_translate comes to its end on every source: each round leaves more  *)
(* of the text behind, though a token that is incorrect stays in the       *)
(* lexer's way (asm.cpp:89).                                               *)
RoundsMoveOn ==
    [][phase = "translating" /\ phase' = "translating" => assm'.lex_.curr_sym_ > assm.lex_.curr_sym_]_vars
=============================================================================
