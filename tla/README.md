# A verification of the system-programming exercises

TLA+ models of the programs in `src/`, TLC configurations that check them on small instances, and TLAPS
proofs of what matters most for every instance. File and line references are to `src/`.

## 1. The system

The repository is a set of C++ libraries and programs with little in common but their author and their
style: data structures that keep their own invariants and check them at run time. Nothing is concurrent:
there are no threads, no signal handlers, no locks. What is hard in this code is *sequences* (of legal calls,
with allocation failures in between), *boundaries* (empty, full, off by one), *partial failure* (one of several
steps of a call fails) and *foreign writes* (the subject of `ProtectedStack`).

| Component | State | Operations | Talks to | Hard behaviour | What makes it correct |
|---|---|---|---|---|---|
| ProtectedStack/hash | – | `compute_hash` | – | integer widths, collisions | what a change of the data does to the sum |
| ProtectedStack/Memory | a heap block and its size | allocate, deallocate, reallocate, set, fill, verify | the allocator | every allocation may fail; `realloc` moves and clears nothing | size and block agree, failures leave both alone |
| ProtectedStack/ProtectedBuffer, Canary | a block, an element size | allocate, deallocate, reallocate, get, set, size, state | Memory | canaries hold their own address, so a moved block needs new ones; unused elements are poison | canaries in place, tail poisoned, whole elements only |
| ProtectedStack/Stack | struct with canaries, buffer, top, printer, two checksums; a static error handler | ctor, push, pop, top, verify, dump, set printer, dtor | ProtectedBuffer, hash, Log | each call verifies first; foreign writes; growth at the boundary; failures half way | it is a LIFO stack; no false alarm; no damage overlooked, none laundered |
| CacheFriendlyList/List | an array of nodes, ghost, free chain, size | construct, insert ×4, erase, get, next, prev | – | four links per insertion, slot reuse, growth when full | it is a sequence; references stay good |
| CacheFriendlyList/Log, graphviz | an open file | log, image, graph | file system, `dot` | I/O | – |
| Utilities/Log, gcc_trace | message buffer and offset; trace file, indentation, `do_trace` | log_msg, entry and exit hooks, START/STOP_DUMPING | every function of every program (`-finstrument-functions`) | a switch and an indentation shared by all hooks, buffer offset | indentation matches the calls, offset within the buffer |
| Utilities/stdlib_addition, StringView, c_dangeon | – | read a file, views, casts | file system | missing terminator | – |
| WM/Lexer | text, position, line, current token | next, skip line | Log, Error, `strtod` | an incorrect token does not advance; lines are counted in one place and skipped in two | reaches the end; each character once; lines right; one error a line |
| WM/Object, ObjectPool | array of objects, count, capacity | init, look up, insert, get, dump, free | Error, file | growth, the index just past the end | a table: equal constants have one index, and it stays good |
| WM/WASM (asm, Code), Instruction | code buffer, lexer, pool | one pass over the tokens, a handler per command; append, encode | Lexer, ObjectPool, Error | handlers that fail half way, growth, argument ranges; does not compile | each instruction means its line, or the line is reported; an error costs its line only; nothing leaks |
| WM/Log, Error | a context that is set up, a logger made from it at first use | set, log, error, fatal | a file or stderr | what is set too late; a logger made by an error | one format and one stream from the first line to the last |
| Onegin/buffer, vector, text, onegin_text, main | file buffer, vector of tokens | read, count, tokenize, sort, print lines, verses and text | file, `qsort`, `rand` | no terminator, growth, indices modulo a size, loops that move by something else than they read | every line once, verses made of lines, the original in the end |
| Akinator | – | stubs; does not compile | – | – | – |

`PROJECT.json` lists the same components with their status, and under "hazards" each place where this code
could go wrong unnoticed.

## 2. Modules

| Module | Models | Kind |
|---|---|---|
| `Hash` | `hash.cpp` | operators |
| `Memory` | `Memory.cpp` | operators, one per function: struct in, struct and code out |
| `ProtectedBuffer` | `ProtectedBuffer.cpp`, `Canary.cpp` | operators on top of `Memory` |
| `Stack` | `Stack.cpp` | state machine: one action per call |
| `LifoStack` | what `Stack.h` promises | abstract specification |
| `StackFaults` | a process that also writes to the stack's memory | composition of `Stack` with an environment |
| `StackProofs` | – | theorems about `Stack` and `StackFaults` |
| `List` | `list.cpp` | state machine with three kinds of client |
| `RefList` | what `list.h` promises | abstract specification |
| `ListProofs` | – | theorems about `List` |
| `Lexer` | `lex.cpp`, `tok.cpp` and the loop of `asm.cpp` that calls them | state machine |
| `LexerProofs` | – | theorems about `Lexer` |
| `ObjectPool` | `obj_pool.cpp`, `obj.cpp` | state machine with two kinds of client |
| `ConstTable` | what `obj_pool.h` is for | abstract specification |
| `ObjectPoolProofs` | – | theorems about `ObjectPool` |
| `Code` | `code.cpp`, `instr.cpp`, `instr.h` | operators: the code buffer, argument formats, commands |
| `WMLog` | `WM/src/Log`, the part of `WM/src/Error` that logs | operators |
| `Assembler` | `asm.cpp` and a program that uses it | state machine; composition of `Lexer`, `ObjectPool`, `Code` and `WMLog` |
| `AssemblerProofs` | – | theorems about `Assembler` |
| `Vector` | `buffer.cpp`, `vector.h` | operators |
| `LineOrder` | the comparators of `Onegin/main.cpp`, and `qsort` | operators |
| `Onegin` | `main.cpp`, `text.cpp`, `onegin_text.cpp` | state machine: the steps of `main` |
| `OneginProofs` | – | theorems about `Onegin` |
| `LogBuffer` | the message buffer of `Utilities/Log/log.cpp` | operators |
| `Trace` | `gcc_trace.cpp`, the macros of `log.h` | state machine: an instrumented program |
| `TraceProofs` | – | theorems about `Trace` |
| `NumberLemmas` | – | facts about numbers and finite sets that several of the proofs use |
| `MCStack`, `MCStackFaults`, `MCList`, `MCLexer`, `MCObjectPool`, `MCAssembler`, `MCOnegin`, `MCTrace` | – | small instances |

**Stack.** `stk` is the struct with the content of the block its buffer points at; `held` says whether the client
has a stack, `live` counts the heap blocks not yet freed, `ret` is the last call with its code and, for
`stack_top`, the element delivered, `crashed` a segmentation fault. Every call begins with the macro `STACK_VERIFY`
(Stack.cpp:75), which makes three cases of every operation: the verification dereferences a bad pointer
(`VerifyCrash`, a step of `StackFaults` only), returns its code (`Reject`), or lets the call go on (`Verified`, a conjunct of every other
action). Where the allocator puts a block, or that it has none to give, is chosen by the environment (`at`,
which may be `NULL`), so every allocation and every growth can fail and every growth can move the block.

The data keep what the properties tell apart. A cell of a block is one byte of an element, or one canary: the
eight bytes of a canary are one cell (`CANARY == 1`), addresses are counted in these units. A canary's value is its
address, as in the code. The bytes go through the checksum as they do in the code, with its signed shifts, its
64-bit sum and its modulus; `Hash` says how the widths are represented. `realloc` fills new cells with `Junk`, so a
cell that the library forgets to poison shows. All protections of the Makefile are compiled in. The result of
`stack_verify`, a `bool`, is represented by the state it is computed from.

**StackFaults.** Adds one kind of step: a cell of the block or a word of the struct changes while no call is running.
`view` is the stack the client believes in, from the codes its calls returned; `alike` notes a write that no checksum of this kind could tell from what was there, which is no state of the program.

**List.** `list` is the object, a record with the members of the class; `held` maps the references the client got to
the values it stored there. The operators are the methods, with the order of their assignments; reading through
an unchecked neighbour happens in the places where the code does it. A write through `BAD_REF` is outside the array
and leaves the list as it is. Three clients: `Spec` stays within the capacity and inserts everywhere until it erases for the first time; from
then on it inserts only after what it still has, for the neighbours of an element, and with them head and tail, may have been erased. `SpecOverfull` has no regard to
the capacity and does not erase, `SpecErasing` goes on to insert anywhere. `RefList` promises a sequence until the first erasure; what holds after it is `FreeChain` and `RefsKeepValues`.

**Lexer.** `lex` is the struct; a text is a sequence of character classes, as many as the lexer tells apart. `read` and
`skipped` record what the caller saw, `fresh` that it has a token to deal with. The scanning loops are one operator,
`RunEnd`; `strtod` is modelled by where it stops. The caller skips the line of every incorrect token, as
`asm_translate` does, and may skip any other line; one that did not skip would get an incorrect token for ever (lex.cpp:123). What the
handlers of the assembler do between two rounds of its loop is in `Assembler`; they go on after an incorrect token
(asm.cpp:188), so that `NoTiedErrors` is a claim about the loop and not about them.

**ObjectPool.** `pool` is the struct with its block, which is as many whole objects as fit in it, and their values. `given` is
what the client knows: the objects it inserted and the indices it got. Reading past the block gives any object (`beyond`);
writing past it is undefined behaviour, sets `overrun` and ends `Spec`. Two clients: `SpecWithin` has at most as many
constants as it asked room for, unless there is no memory to grow anyway, and reads indices it was given; `Spec` does neither.
Every client keeps the assertions of the code: sizes are positive and no index is `OBJ_POOL_BAD_IDX`.

**Assembler.** `assm` is the struct, made of the records of `Lexer`, `ObjectPool` and `Code`; `log` is the log of the process, `heap` the blocks taken from the allocator. A source is
lines of words; `Source` makes the text of it, which the lexer reads as in its own module, and remembers which word each character belongs to, for names and numbers. One action is one round of
`asm_translate`: it gets a token and calls the handler, which gets up to three more. The functions it calls pass on one record (`Round`) with all they change and what they return, in the order
of the code. Three answers of the environment are chosen per round: whether there is memory (`mem`), whether the log file opens (`opens`), and what a handler without a return statement returns
(`anything`: `move_handler` and `print_handler`). `origin` and `reports` note for which command an instruction was written or an error reported; nothing reads them but the properties.

asm.cpp does not compile: a call lacks an argument (asm.cpp:196, `pCODE`), another names a variable that is not there (asm.cpp:225, `sv`). The evident ones are taken. The process is
over (`over`) after a fatal error, after an identifier that is no command, which runs into an assertion (asm.cpp:100), and after the pool had to grow, for it is then written past its block
(`MCObjectPoolGrow.cfg`). The program around it initialises, translates, frees as often as it likes, and sets up the log and logs in between.

**WMLog.** The context that the setters change and the logger that `log_instance` makes of it once. What is written is kept as a set of pieces, each with its kind, its markup and its stream.

**Onegin.** A text is a sequence of six kinds of characters, the two delimiters, those a chapter title may consist of, a capital letter of ASCII and a blank, and two letters outside ASCII, whose bytes are negative. `isgraph` and `isprint` of
a negative number, which the comparators call, are undefined; taken is what the C library does in the C locale: neither. `mem` is the
block it is read into, longer than the text by what the allocator gives more than it was asked for. `pc` is the place in `main`; the loops of
`count_tokens`, `text_tokenize` and `print_rhymes` are one action per round. Where the code divides by zero, reads or writes past the block or prints a token
nobody stored, the program stops in the model (`wild`, `overrun`); it does, too, where a comparator reads outside the block (`astray`). `LineOrder` has the two comparators, character by character, the indices of one of which pass
below zero. `qsort` makes any order the comparator allows, and any order at all if what it says of the tokens is no order; that order, the numbers `rand` draws and
whether an allocation succeeds are chosen by the environment. Opening the output may fail, too.

**Trace.** `frames` are the functions that are open in the program, `tracer` and `buf` the static structures of `gcc_trace.cpp` and `log.cpp`,
`file` the lines written so far, with the indentation they got. The bodies of the hooks are `Enter` and `Exit`; a call or a return of the
program includes its hook. A message is a sequence of characters, cut and terminated as `snprintf` does; the test for quotes around it is translated
with the codes of the letters, which make it false for every type. A hook formats its message and prints it in one step (`Write`); that no other hook runs between the two is not checked. A program ends with a FATAL message, and in the model with a write behind the buffer.

Operators called "Mutant of ..." are plausible errors in the code; no specification uses them. Put in place of the
operator they stand before, each makes the property that `PROJECT.json` names for it fail, which shows that the
property looks at that part of the code.

## 3. Runs

Every run is exhaustive on its instance.

| Run | Specification | Shows |
|---|---|---|
| `MCStack.cfg` | `Spec` | `TypeOK`; `NoFalseAlarm`: no sequence of calls and failed allocations makes a stack refuse itself; `RoomForElements`: the top stays before the back canary; `TailPoisoned`; `NoLeak`; `ImplementsLifo`: it implements `LifoStack` |
| `MCStackFaults.cfg` | `FSpec` | `WriteNoticed`: the next verification sees any one foreign write whose term of the checksum is not like the one it replaces; `NoLaundering`: while verification sees something wrong nothing changes and no call succeeds; `TopTruthful`: what `stack_top` delivers is what was pushed, with the same exception |
| `MCList.cfg` | `Spec` | `TypeOK`; `RingWellFormed`; `FreeChain` and `RefsKeepValues`: slot reuse never touches a slot in use; `ImplementsRefList`: until the first erasure it implements `RefList` |
| `MCLexer.cfg` | `Spec` | `TypeOK`: the lexer stays within the text; `LinesRight`; `EachCharacterOnce`, and no word is cut in two; `NoTiedErrors`; `Terminates`: it reaches the final token |
| `MCTrace.cfg` | `Spec` | `CallTree`: the trace reads as the tree of the calls; `MessageWhole`: messages are whole or cut, and which of them leave the buffer |
| `MCAssembler.cfg` | `Spec` | `TypeOK`: every value fits its field; `OperandsMeant`: the instruction of a well-formed line means it, but for the first of two loaded constants; `LinesKept`: after lines that keep to themselves, right or wrong, a well-formed line is written, once and in its place; `NothingSilent`: after such lines no wrong or missing operand of an arithmetic command goes without an error, but for a word that begins as a register and is none; `HeapClean`: nothing is leaked or freed twice; `OneVoice`: the log has one format and one stream; `RoundsMoveOn`: every round leaves more of the text behind |
| `MCOnegin.cfg` | `Spec` | `TypeOK`; `EveryLineOnce`: the lines that are no titles are printed once each; `LinesAscend`: in order, where the comparator makes one, and when comparators leave the block; `OriginalKept`; `InsideBlock`: how much room the tokenizer needs; `VersesWhole`: with three lines or more, verses are made of lines; `Terminates` |
| `MCObjectPool.cfg` | `SpecWithin` | `TypeOK`; `IndicesStayGood`; `StoredOnce`; `NoFalseErrors`; `ImplementsConstTable`: it implements `ConstTable` |

Four runs each show a disagreement between the code and what is said about it; the counterexamples are one to five
calls long.

| Run | Property | What happens |
|---|---|---|
| `MCStackDamage.cfg` | `DamageReported` | a damaged buffer canary crashes the verification in `compute_hash (NULL, ...)` instead of being reported |
| `MCListOverfull.cfg` | `RefsKeepValues` | inserting into a full list is refused and destroys the element in the last slot |
| `MCListErasedChain.cfg` | `FreeChain` | after two erasures `insert_before` ties a slot in use into the free chain |
| `MCObjectPoolGrow.cfg` | `IndicesStayGood` | growth cuts the block to `2*CAPACITY` bytes |

Some things seen while modelling are in the models but have no run: `stack_ctor (n, 0)` returns a stack that never verifies, so that it cannot
be destroyed (`NoFalseAlarm` makes the exception); a carriage return is an incorrect token, although the tests (test_lex.cpp:34) and
`make_number` take it for a separator; `stack_push (stk, NULL)` pushes nothing and returns `STACK_OK` (Stack.cpp:114 declares a second `err`); `obj_pool_get` accepts the index `NOBJS`; an erased head is still the head of its list, so that
`RingWellFormed` is checked without erasures only. After a shift every negative byte is -1 (hash.cpp:21), so that the checksum cannot tell
such elements apart. `Onegin` needs one character after its text, or two, which it gets from the allocator's rounding or not at all (`InsideBlock`); it never ends on a text of one line
without an end (`Terminates`), divides by zero on two lines, and on one line reads tokens nobody stored; and a `'\r'` that ended a line is printed as `'\n'` with the original (`OriginalKept`).

The forward comparator of `Onegin` passes every graphic character of ASCII (main.cpp:79), so that lines of ASCII letters are all alike to it and stay as they are;
a line comes after those it begins, for their `'\0'` is greater than a byte outside ASCII. The reverse comparator goes back over all printable characters to the first that is not, and if the line has none, into the
lines before it and out of the block; it is no strict weak order (lines with equal endings of different length). `LinesAscend` says what is left, of the order and of the block.

In the assembler "extra characters" are reported behind every register, right or wrong, as no character is both a space and the end (asm.cpp:224); a register with too large a number refused
without a word of that (asm.cpp:219 compares with a value that is never returned): the false alarm is all there is, and as right registers have it too, `NothingSilent` does not count it and makes the exception (`WrongRegister`). A register is
known by the first character of its word (asm.cpp:214), so that `Rx1` is taken for register 0; `RNames` are the names that begin so. A line with too few words takes those of the next: `add`, an empty line and `add R1 R2 R0` make
no instruction, for the first takes the words of the third for its operands; this is why `LinesKept` and `NothingSilent` speak of lines after those that are `Closed`. A `move` or `print` line may be dropped without instruction or report, so they speak of arithmetic
commands only. `strtol` reads past a bare `R` into the next word. A number is truncated to 32 bits before it is checked. A command may be cut short to any beginning (instr.cpp:36). A line of four words keeps to itself
only if its command reads them: the handlers of `move` and `print` read none, and as they return nothing (asm.cpp:302), whether the rest of the line is skipped is left to chance; if it is not, the `add` of `move add R1 R2` begins a command of its own and takes a word of the next line (`Closed`). Two
constants of a line that are both out of reach go through the same register, the second over the first (asm.cpp:248); `OperandsMeant` makes the exception. Once the log is in use, its setters have no effect (`OneVoice`).

**Bounds and why they are enough.** `MCStack`: element sizes 0, 1 and 2, initial sizes 0, 1 and 3, at most 3 elements:
a stack starts empty, full after one push, or large enough; it grows from 0 to 2 and from 2 to 4, and from 1 to 2;
two addresses, so a block moves or stays. Two byte values, one of them negative, differ in every position of the checksum.
`MCStackFaults`: one foreign write (`MaxFaults`) of a byte -5 or 1 over bytes 1 and 3, poison and canaries, of a word 0 or 3. After seven turns of `roll` the byte 0 gives 0, 1 gives -128 and every other -1, so that the instance has writes that a checksum tells and writes that it
cannot (`alike`); `NoLaundering` is checked of both. The buffer pointer is only ever overwritten by `NULL` and the capacity not at all: any other
value makes the verification read memory that is not the stack's. `MCList`: the thresholds 16 and 32 of the constructor
become 2 and 3, which keeps the three cases (below the threshold, at it, an initializer list as long as the capacity) and
makes full lists of 2 and 3 elements; with three elements there is a head, a tail and one between, and free chains of
every length and order. Two values suffice to tell a changed value. `MCListOverfull` and `MCListErasedChain` have their own, of at most 4.

`MCLexer`: all texts of at most four characters of all classes the lexer tells apart (other characters are treated as a '.' at the
start of a token is). Four characters hold two tokens with a separator or comment between them, a token on each side of a skipped line,
and the longest number that needs more than one look ahead, a digit, an exponent, its sign and a digit; what comes after a token depends on nothing before it but the line, so longer texts
repeat these cases. `MCObjectPool`: pools for one to three objects, four constants, two values of either type: full and not full, equal values of
different types, a fourth constant for a full pool of three; an object has 16 bytes, as on the machines the code is for.

`MCAssembler`: four registers and fields for one constant (A, B) and two (C) instead of 64, 960 and 2^20 - 64: constants of the first index are within reach, of the second are loaded, of the third are
too many; a pool for three, so that a fourth constant finds no room; a code buffer for one instruction instead of 512, which grows twice or more; numbers of registers modulo 32 instead of 2^32. Sources of two lines, the second well-formed, of three
lines with a bad one in the middle, and one of four lines with four constants; 6 well-formed lines, one with a negative number, and 15 others: too few and too many words, a `move` that another command follows, a bad register, a bare `R`, an `Rx1`, tokens the lexer refuses, a command cut short or unknown, a
number or a colon for a command, a command in place of an argument, comments and nothing. Each error is followed by a good line, and after a good line, which is where one could see it do harm.

`MCOnegin`: all texts of at most five characters out of four kinds, which hold up to three lines with delimiters of either kind before, between and after them, or a
title and a line, each with none, one or two characters of slack; and texts of 4, 5, 14 and 15 lines, over which the vector grows up to three times after what
was reserved and a verse ends in each of the four ways (after 4, 8, 12 and 14 lines). For the comparators there are pairs of lines of at most two characters of the other kinds, and three lines of one or two. Up to three tokens are sorted in every order, more in two; all indices are drawn.

`MCTrace`: at most three functions open (`MaxDepth`), the innermost, one that dumps and one around it, and six lines of trace (`MaxLines`), enough for two calls with their returns and two messages. A
buffer of four characters, names and texts that are shorter, just fit, just do not and are longer: all cases of its offsets.

**Deadlock** is checked in all runs but those of `MCStackFaults`, where a crashed process is over, `MCLexer`, where the loop of
the caller ends with the final token, `MCOnegin`, where the program ends, and `MCTrace`, which ends with its bound. `Assembler` states how its process ends (`Ended`).

**Fairness** is assumed of the caller of the lexer and of `Onegin` only: `WF_vars(Next)`. Both are
sequential programs that wait for nothing, so they go on to their next step; which step that is, is not
assumed. The other libraries do nothing unless called, a client may stop at any time, and every call ends, so they
have no liveness property. That `asm_translate` ends is `RoundsMoveOn`: every round leaves characters behind, of which a text has finitely many; a property under fairness would say the same at many times the cost.

## 4. Proofs

What TLC checks on one instance, these theorems state for every value of the constants. Each module of theorems has one inductive
invariant, `IInv`, proved as `Inductive`; the properties follow from it. None of the properties is inductive by itself, and what must be
added is what is worth knowing of the component.

| Module | Theorems | Properties | For every |
|---|---|---|---|
| `StackProofs` | `TypeCorrect`, `NeverFalselyAlarmed`, `AlwaysRoom`, `AlwaysPoisoned`, `NeverLeaks` | the five invariants of `MCStack.cfg` | allocator, size, element size, byte and bound |
| | `StackImplementsLifo` | `ImplementsLifo` | the same |
| | `DamageIsNeverLaundered` | `NoLaundering` | number of foreign writes |
| | `OneWriteIsNoticed`, `TopIsTruthful` | `WriteNoticed`, `TopTruthful` of `MCStackFaults.cfg` | byte and word written, place and moment, but for terms alike |
| `ListProofs` | `TypeCorrect`, `RingIsWellFormed`, `FreeChainIsRight`, `ReferencesKeepValues` | the four invariants of `MCList.cfg` | capacity, initializer list and sequence of calls of that client |
| | `ListImplementsRefList` | `ImplementsRefList` | the same |
| `LexerProofs` | `TypeCorrect`, `LinesAreRight`, `EachCharacterIsReadOnce`, `ErrorsAreNotTied` | the four invariants of `MCLexer.cfg` | text |
| `ObjectPoolProofs` | `TypeCorrect`, `IndicesGood`, `EachStoredOnce`, `NeverFalseError` | the four invariants of `MCObjectPool.cfg` | set of objects, size and number of constants |
| | `ImplementsTable` | `ImplementsConstTable` | the same |
| `AssemblerProofs` | `TypeCorrect`, `HeapIsClean`, `LogHasOneVoice` | `TypeOK`, `HeapClean`, `OneVoice` of `MCAssembler.cfg` | source, limit of a field, capacity and answer of the environment |
| | `RoundsMakeProgress` | `RoundsMoveOn` | the same |
| | `OperandsAreMeant`, `LinesAreKept`, `NothingIsSilent` | `OperandsMeant`, `LinesKept`, `NothingSilent` of `MCAssembler.cfg` | the same, sources of any length |
| `TraceProofs` | `TraceIsCallTree`, `MessagesAreWhole` | the two invariants of `MCTrace.cfg` | program, depth, text and size of the buffer |
| `OneginProofs` | `TypeCorrect`, `LinesArePrintedOnce`, `LinesAreAscending`, `OriginalIsKept`, `TokenizerStaysInside`, `VersesAreWhole` | the six invariants of `MCOnegin.cfg` | text, slack of the block, order made by `qsort` and number drawn |

**Stack.** `NoFalseAlarm` says that verification succeeds; that it still does after a push needs the canaries at both ends of the *new* block, the
size of the block as a whole number of elements, and the stored checksums being those of the current contents. `IInv` says so: a held
stack is `WellFormed` (the struct has its types, its own canaries and the buffer's hold their addresses, everything above the top is
poison, and for some n the block has exactly n elements and the top is at most n) and `Sealed` (both checksums are right); a stack
that is not held is zero. The argument goes bottom up, one lemma per function of the code: `Overlay...` about maps from offsets to contents,
`CanariesSet`, `PoisonFills` and `ElementWritten` about a block, `Allocates`, `Reallocates`, `SetsData` and `Deallocates` about
the buffer, `CtorMakes`, `PushKeeps` and `PopKeeps` about the stack; `NextInv` has one step per action. The multiplication
`n_elems * elem_sz` makes the arithmetic nonlinear; the lemmas of the first section confine it. The checksum stays opaque: these
proofs use only that it is a function of the contents (`UpdateSeals`), so they hold for any other one.

For the refinement the same lemmas are read for what they leave alone: `ItemsSame`, `ItemAdded` and `ItemRemoved` say what the elements are
after a call, one `...Step` lemma per call maps it to the step of `LifoStack`, through moves of the block and growths that fail. `NoLaundering` needs no more
than that nothing but a foreign write makes a stack verify that did not (`DamageStays`), so it holds for any number of writes.

Whether a write is noticed does depend on the checksum, which has collisions. A checksum is a sum of terms, one for each byte or word, and a write replaces one of them: the only writes it cannot tell are those whose term is equal
to the one replaced, or next to it while the checksum is 0, as the modulus is the greatest of the 64-bit numbers, so that the sums 0 and -1 have the same remainder and no two others. `Like` says so, and `alike` notes that such a write has happened; of every other write, whatever the bytes and words of the instance,
`OneWriteIsNoticed` and `TopIsTruthful` are proved without any condition on the constants. `HashIsSum` brings the sum into a form out of which one term can be taken; the section "What one outside write leaves" goes through the cells and the words,
where a canary or a stored checksum that is hit gives itself away. `FInv` adds to `IInv` that the client's `view` is what is on the stack until the write and that the write stays noticed after it, unless it was alike. `TopTruthful` is proved
up to one write, which is all the run allows; two can make up for each other.

**List.** In `List`, `RingWellFormed` and `FreeChain` count steps along the links, which no single insertion can be followed through. `Sound` states
them locally: there is a sequence `q` without repetitions that begins at the end of the free chain, goes back along its links to the free head and holds exactly the slots that no
reference is held for, and, until the first erasure, one `p` that follows the ring of the others and starts at the ghost. So `p` and `q` divide the array. An insertion takes the last of `q` and puts it into `p`
behind the reference given; an erasure puts a slot back there. The section "Following the links" shows that counting steps
comes to the same, "What the invariant says of the properties" derives each of the four from it. In the refinement the value of the abstract list is `p` read through the values.

**Lexer.** The text before the position is divided into tokens, skipped characters and separators, and the number of the line is one more than the newlines in it. That this stays so after a token
needs that the position is never inside a comment but at its end (`CleanStart`) and never between two characters of a word, unless a refused number left it there (`Break`, `Loose`),
for the separators are not remembered. Tokens do not overlap because each ends before the position (`Behind`) or is one of those; `ErrorsPast` and `Earlier` are what `NoTiedErrors` needs, that
after an error and its skipped line no token has that number again. Each function of `lex.cpp` has its lemmas, about which characters it passes.

**ObjectPool.** `IndicesStayGood` is not inductive: that an insertion finds an old index needs that a constant is in the slot of its index and in no other, and
that a new one gets a new slot needs that the slots in use are exactly the indices given away. `IInv` says both (`Holds`, `StoredOnce`), and that the
block has `capacity` objects, one of the sizes asked for. `LooksUp` is the central lemma: looking up succeeds exactly for the constants inserted,
gives their index, and reports no error. With it each call is a step of `ConstTable` (`NextRefines`).

**Assembler.** The blocks in the heap are those that the struct has (`Owned`), in every phase; the lexer reads the text of the source it was made for (`Reads`); what is in the log agrees with the
logger, and its header is there if and only if the format wants one (`Voice`). These go through a round function by function (`Going`): what `get_tok`, `skip_line`, `error` and each handler do with the record they pass on
keeps the text and the blocks and moves the position forward. `Filled` is inductive on top of `IInv` and gives `TypeOK`: the code fits its buffer, whatever the growth, there is a command in `origin` for each instruction, and
every character of the text has its word (`Marked`), so that a register or a number read at a token of the text is one of the source. The arguments of an instruction are within their
fields because of what the conversions return (`ArgsFit`): `TokenInText`, that a token other than the last lies in the text, is taken from `LexerProofs`.

The other three properties compare what was written with the words of a source line, so they need that the lexer finds these words again. The section "Where the words of a source are" lays them out over the text (`Wrd`, `Plc`), line by line
(`Fst`, `LineStop`, and `MeanEnd`, where a comment begins). A lexer that stands `Before` a word makes the token of the next word that `Means` something (`TokenRead`), unless that word `IsStuck`: then it makes an incorrect
token and stays before it. `SkipRead` says what it passes when it skips a line. On this a round (`RoundOf`) is followed handler by handler: `Turned` is what every round that goes on leaves, `Went` and `Did` are what `handle_arithmetic` reads and
writes, `Passed` is a token that begins no command. There are three more invariants, each on top of the one before:

* `Standing`: the lexer is before a word where a round may begin, and the origins of the instructions rise and lie before the last round's place.
* `Meaning`: each complete instruction of a well-formed line means what its words say, but for the first of two constants loaded (`MeansIn`). A constant is meant by its index in the pool, so this needs that the pool only grows (`Kept`). `OperandsFollow` leads from there to the property.
* `Arrive`: a line that is `Due`, which begins with an arithmetic command after lines that all keep to themselves, is either ahead, the lexer on its way to its first word (`Track`), or behind, with its instruction or its error (`Settled`); `AnsweredNew` says that a command whose words were all taken for operands had the operands of its line. `LinesKept` and
  `NothingSilent` are read off it at the end.

**Trace.** `CallTree` reads the file line by line; `TraceRight` says what has been read so far and what the tracer knows: reading the file gives the functions shown as open (`ShownOf`, those that are instrumented, down to the one that dumps), the indentation is their number,
and the hooks are on exactly if no dump is going on. That a hook writes one line more and the reading goes on from there is the section "Reading the trace". `MessagesRight` is about the buffer:
it holds the last message up to its terminator, and `overrun` is not set while the program runs.

**Onegin.** The tokenizer stands at the beginning of a line (`Tokenizing`), what it has passed is the text with terminators, what it has not is the text as it was read (`Unwritten`), and the vector holds the
lines before it, each once (`TokensAre`, `LinesBefore`). `TokensIn` keeps the number of tokens within that of the characters, which bounds the vector; its growth keeps the tokens. From then on the set of tokens is that of all
lines, whatever `qsort` makes of their order (`AllRead`, `Dumped`).

`LinesAscend` takes a second invariant on top of that one: each token ends before a `'\0'` of the block (`Ending`), the tokens are in the order of their bytes once they are sorted, if the lines are plain (`Ascending`), and a comparator that left the block met a line
that is not (`Astray`). The comparators are recursive over places in the block. A loop that has a variant defines what it returns (`Loop`, `LoopGives`), by the least place from which it would not; so each is followed up to where it stops. `ForwardInside`: as its lines end
in a `'\0'`, the forward one never leaves the block, whatever is in them. On plain lines it compares byte by byte (`ForwardOrders`), which is an order (`LexSplits`), so `qsort` must make one (`SortAscends`); and the
reverse one stays inside (`BackwardPlain`). For other lines nothing is claimed of the order, as nothing holds.

For the verses, `Rhyming` keeps both indices so far from the end that two more are in range, and the number of lines printed in one of the four
residues of 14 in which the loop goes on.

**Induction.** Where a proof is by induction over a number (a counted newline, a followed link, a line of a trace), it takes the least counterexample (`LeastNumber` of `NumberLemmas`), since an
induction theorem with an operator for a parameter cannot be used.

**Assumptions** are those on the constants, and no other: `JunkAssumption`, `PoisonAssumption` (both values are integers), `StackAssumption` (addresses are positive, sizes natural), `FaultAssumption` (what is written over is written by integers), `ListAssumption` (the threshold is positive and not above the default
capacity, an uninitialised node has its three fields), `LexerAssumption` (texts are sequences of characters), `PoolAssumption` (objects are INTs and DECs with integer values, sizes are positive, the bad index is no index),
`CodeAssumption` (the fields are ranges of registers and constants, and a shortened command is no command itself and stands for commands), `AssemblerAssumption` (sources are lines of words, capacities are positive), `WordAssumption` (a word is one that the lexer makes one token of, or refuses at its first character, or that begins a comment; names are
the words with a letter first, and a negative number has a sign; only the last three theorems of `AssemblerProofs` use it), `TraceAssumption` (names and texts are
sequences of characters, none of which is the terminator; the buffer has room for one), `OneginAssumption` (texts are sequences of characters, an unused cell is no token, what `qsort` makes is a permutation). TLC evaluates each on its instance.

**Only model-checked:**

* `Terminates` of `MCLexer.cfg` and `MCOnegin.cfg`: liveness is out of the prover's reach.
* The runs that show a disagreement, of course; each is a counterexample.

## 5. Not modelled

* The error handlers of `Memory`, `ProtectedBuffer` and `Stack` and the `*_handled` wrappers: no program installs a handler, and
  `stack_handle` is declared and defined with different parameters, so that the wrappers do not link.
* Log messages and the text of dumps.
* Overflow of `n_elems * elem_sz` (ProtectedBuffer.cpp:72).
* Erasing through a reference that is no longer the client's, and assigning through the result of a refused insertion: the list accepts any number
  but `BAD_REF` (list.cpp:182).
* The value of a number token, and with it the conversions from double to decimal64 to a 64-bit integer (lex.cpp:48, :66); hexadecimal numbers, `inf` and `nan`.
* Of Onegin the frames around titles, a `'\0'` in the text, and functions of the
  vector and the buffer that nothing calls.
* Of the assembler `asm_create_executable_file`, which calls `obj_pool_dump` and `code_dump` without their arguments, writes no header and returns nothing, and with it these two and `code_size` (the latter go by the
  capacity instead of the instructions written); `get_reg_num`, `handle_constant_A`, `arg_to_D` and `code_write_D`, which nothing calls; `instr_to_str`.
* Of `WM/src/Error` the stream and the counters, which nothing reads, `warning`, which nothing calls, and the texts of the log: `err.cpp` hands on an argument list it has used already (err.cpp:30), so that they may be anything.
* Objects of the types STR and VOID in a pool: nothing makes them.
* The components marked `not_modelled` in `PROJECT.json`, for the reasons given there or because they come later in the plan.

## 6. Plan

1. `Stack` with its parts, `StackFaults`, `StackProofs`, with the refinement of `LifoStack` and `NoLaundering` — done.
2. `List`, `RefList`, `ListProofs` — done.
3. `ObjectPool`, `ConstTable`, `ObjectPoolProofs` — done.
4. `Lexer` with its callers, `LexerProofs` — done.
5. `Code`, `WMLog`, `Assembler`, `AssemblerProofs`, with `OperandsMeant`, `LinesKept` and `NothingSilent` — done.
6. `LogBuffer`, `Trace`, `TraceProofs` — done.
7. `Vector`, `LineOrder`, `Onegin`, `OneginProofs`, with `LinesAscend` — done.
8. `WriteNoticed` and `TopTruthful` for every write whose term of the checksum is not like the one it replaces — done.
