------------------------------- MODULE Trace -------------------------------
(***************************************************************************)
(* The trace of an instrumented program (Utilities/Log): the compiler puts *)
(* a call of a hook at the beginning and the end of every function         *)
(* (gcc_trace.cpp), LOG_MSG writes messages, and START_DUMPING and         *)
(* STOP_DUMPING switch the hooks off and on (log.h).                       *)
(*                                                                         *)
(* The program calls functions, some of which are not instrumented, and    *)
(* returns; it logs, and it dumps as stack_dump_to_log does (Stack.cpp:205): *)
(* a function that starts dumping stops it before it returns, and no dump  *)
(* begins in another.  FATAL messages and messages behind the buffer end   *)
(* it.                                                                     *)
(***************************************************************************)
EXTENDS Integers, Sequences, SequencesExt

CONSTANTS
    Chars,      \* the characters of names and texts
    Fns,        \* the functions
    Plain,      \* those of them that are not instrumented
    Name(_),    \* the name of a function, a sequence of characters
    Bodies,     \* the texts that are logged
    msg_sz, Nul,
    MaxDepth, MaxLines      \* bounds of the calls open and of the lines written

VARIABLES
    frames,     \* the functions that are open, and whether they dump
    tracer,     \* the trace controller
    buf,        \* the message buffer
    file,       \* the lines of the trace file
    printed,    \* the message printed last: what it was to be, what it was
    running     \* whether the program is

vars == <<frames, tracer, buf, file, printed, running>>

Log == INSTANCE LogBuffer

(* Names and texts end before their '\0'.                                  *)
ASSUME TraceAssumption ==
    /\ Plain \subseteq Fns
    /\ \A fn \in Fns : Name(fn) \in Seq(Chars)
    /\ Bodies \subseteq Seq(Chars)
    /\ Nul \notin Chars \cup Log!MSG_TYPE \cup {"quote", "location"}
    /\ msg_sz \in Nat \ {0} /\ MaxDepth \in Nat /\ MaxLines \in Nat

Dumping == \E k \in DOMAIN frames : frames[k].dumping

Line(kind, fn, indent) == [kind |-> kind, fn |-> fn, indent |-> indent]

-----------------------------------------------------------------------------
(* The hooks.                                                              *)

Init ==
    /\ frames = <<>>
    /\ tracer = [indent |-> 0, do_trace |-> TRUE]
    /\ buf = Log!NoMessage
    /\ file = <<>>
    /\ printed = [meant |-> <<>>, is |-> <<>>]
    /\ running = TRUE

(* A message, formatted in b, is written as a line of the trace.           *)
Write(b, meant, line) ==
    /\ buf' = b
    /\ printed' = [meant |-> meant, is |-> IF b.overrun THEN <<>> ELSE Log!Printed(b)]
    /\ file' = Append(file, line)

Silent == UNCHANGED <<tracer, buf, file, printed>>

Quit(fn, indent) ==
    /\ Write(Log!logger_get_formated_msg(buf, "QUIT", Name(fn)), <<"QUIT">> \o Name(fn), Line("QUIT", fn, indent))
    /\ tracer' = [tracer EXCEPT !.indent = @ - 1]

(* __cyg_profile_func_enter.                                               *)
Enter(fn) ==
    IF tracer.do_trace /\ fn \notin Plain
    THEN /\ Write(Log!logger_get_formated_msg(buf, "CALL", Name(fn)), <<"CALL">> \o Name(fn), Line("CALL", fn, tracer.indent))
         /\ tracer' = [tracer EXCEPT !.indent = @ + 1]
    ELSE Silent

(* Mutant of Exit: the indentation goes back after QUIT is written.        *)
ExitLate(fn) == IF tracer.do_trace /\ fn \notin Plain THEN Quit(fn, tracer.indent) ELSE Silent

(* __cyg_profile_func_exit.                                                *)
Exit(fn) == IF tracer.do_trace /\ fn \notin Plain THEN Quit(fn, tracer.indent - 1) ELSE Silent

-----------------------------------------------------------------------------
(* The program.                                                            *)

(* It goes on, up to the bound.                                            *)
Running == running /\ Len(file) < MaxLines

Call(fn) ==
    /\ Running /\ Len(frames) < MaxDepth
    /\ frames' = Append(frames, [fn |-> fn, dumping |-> FALSE])
    /\ Enter(fn)
    /\ running' = ~buf'.overrun

Return ==
    /\ Running /\ frames # <<>> /\ ~Last(frames).dumping
    /\ frames' = Front(frames)
    /\ Exit(Last(frames).fn)
    /\ running' = ~buf'.overrun

(* LOG_MSG.                                                                *)
LogMsg(type, body) ==
    /\ Running /\ frames # <<>>
    /\ Write(Log!logger_get_formated_msg_localized(buf, type, body), <<type>> \o body \o <<"location">>,
             Line("message", type, tracer.indent))
    /\ running' = (type # "FATAL" /\ ~buf'.overrun)
    /\ UNCHANGED <<frames, tracer>>

(* START_DUMPING.                                                          *)
StartDumping(title) ==
    /\ Running /\ frames # <<>> /\ ~Dumping
    /\ tracer' = [tracer EXCEPT !.do_trace = FALSE]
    /\ Write(Log!logger_get_formated_msg(buf, "DUMP", title), <<"DUMP">> \o title, Line("message", "DUMP", tracer.indent))
    /\ frames' = [frames EXCEPT ![Len(frames)].dumping = TRUE]
    /\ running' = ~buf'.overrun

(* STOP_DUMPING.                                                           *)
StopDumping ==
    /\ Running /\ frames # <<>> /\ Last(frames).dumping
    /\ tracer' = [tracer EXCEPT !.do_trace = TRUE]
    /\ frames' = [frames EXCEPT ![Len(frames)].dumping = FALSE]
    /\ UNCHANGED <<buf, file, printed, running>>

Next ==
    \/ \E fn \in Fns : Call(fn)
    \/ Return
    \/ \E type \in {"LOG", "ERROR", "FATAL"}, body \in Bodies : LogMsg(type, body)
    \/ \E title \in Bodies : StartDumping(title)
    \/ StopDumping

Spec == Init /\ [][Next]_vars

-----------------------------------------------------------------------------
(* Properties.                                                             *)

(* Reading a line of the trace: the calls that are open then, and whether  *)
(* all lines so far were where they belong.                                *)
ReadLine(acc, line) ==
    CASE line.kind = "CALL" ->
            [open |-> Append(acc.open, line.fn), ok |-> acc.ok /\ line.indent = Len(acc.open)]
      [] line.kind = "QUIT" ->
            [open |-> IF acc.open = <<>> THEN <<>> ELSE Front(acc.open),
             ok   |-> acc.ok /\ acc.open # <<>> /\ Last(acc.open) = line.fn /\ line.indent = Len(acc.open) - 1]
      [] OTHER ->
            [acc EXCEPT !.ok = @ /\ line.indent = Len(acc.open)]

Reading(lines) ==
    LET read[k \in 0..Len(lines)] ==
            IF k = 0 THEN [open |-> <<>>, ok |-> TRUE] ELSE ReadLine(read[k - 1], lines[k])
    IN  read[Len(lines)]

(* The instrumented functions among fs.                                    *)
Traced(fs) ==
    LET traced[k \in 0..Len(fs)] ==
            IF k = 0 THEN <<>>
            ELSE IF fs[k].fn \in Plain THEN traced[k - 1] ELSE Append(traced[k - 1], fs[k].fn)
    IN  traced[Len(fs)]

(* The functions that are open, but for those not instrumented and those   *)
(* called in a dump.                                                       *)
Shown ==
    LET last == IF Dumping THEN CHOOSE k \in DOMAIN frames : frames[k].dumping ELSE Len(frames)
    IN  Traced(SubSeq(frames, 1, last))

(* The trace reads as a tree of calls: every line is indented by the calls *)
(* that are open in it, every QUIT is that of the last open CALL, and what *)
(* is open in it is open in the program, through dumps and functions that  *)
(* have no hooks (the hooks, gcc_trace.cpp:59).                            *)
CallTree ==
    LET read == Reading(file) IN read.ok /\ read.open = Shown

(* A message is printed whole or cut at the size of the buffer, and has    *)
(* nothing of the messages before it, which were in the same static buffer *)
(* (get_formated_msg, log.cpp:39).  Only one that is to have a location    *)
(* and fills the buffer without it writes behind the buffer: a call of a   *)
(* function with a name of any length does not (log.cpp:24, :54).          *)
MessageWhole ==
    IF buf.overrun
    THEN Last(printed.meant) = "location" /\ Len(printed.meant) > msg_sz + 1
    ELSE printed.is = SubSeq(printed.meant, 1, IF Len(printed.meant) < msg_sz THEN Len(printed.meant) ELSE msg_sz - 1)
=============================================================================
