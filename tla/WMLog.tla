------------------------------- MODULE WMLog -------------------------------
(***************************************************************************)
(* WM/src/Log/log.cpp: a logger that is made at its first use from the     *)
(* context of that moment, and WM/src/Error/err.cpp, whose messages go to  *)
(* it at any level.                                                        *)
(*                                                                         *)
(* A record [context, instance, out]: the static CONTEXT, the static       *)
(* instance of log_instance, and what was written, the kind of markup and  *)
(* the stream of each piece.  Whether fopen succeeds is a parameter.  The  *)
(* texts, and what err.cpp writes to its own stream, are left out.         *)
(***************************************************************************)
EXTENDS Naturals

CONSTANT LogFiles       \* the names a program gives to its log

Types == <<"INFO", "WARNING", "ERROR", "FATAL">>        \* LOG_MSG_TYPE

AtLeast(type, lvl) == \E i, j \in DOMAIN Types : Types[i] = type /\ Types[j] = lvl /\ j <= i

Formats == {"RAW", "HTML"}

stderr == "stderr"
NoFile == "no file"

CONTEXT  == [lvl |-> "INFO", file_name |-> NoFile, format |-> "RAW"]
NoLogger == [context |-> CONTEXT, output |-> "none"]

LogAtStart == [context |-> CONTEXT, instance |-> NoLogger, out |-> {}]

log_set_context_format(log, fmt)          == [log EXCEPT !.context.format = fmt]
log_set_context_lvl(log, lvl)             == [log EXCEPT !.context.lvl = lvl]
log_set_context_file_name(log, file_name) == [log EXCEPT !.context.file_name = file_name]

Written(log, what, format) == [log EXCEPT !.out = @ \cup {[what |-> what, format |-> format, to |-> log.instance.output]}]

new_output_stream(context, opens) ==
    IF context.file_name # NoFile /\ opens THEN context.file_name ELSE stderr

(* A logger that writes HTML begins with "<pre>".                          *)
log_instance(log, opens) ==
    LET made == [log EXCEPT !.instance = [context |-> log.context, output |-> new_output_stream(log.context, opens)]]
    IN  IF log.instance # NoLogger THEN log
        ELSE IF log.context.format = "HTML" THEN Written(made, "header", "HTML") ELSE made

(* Mutant of log_msg_varg: in the format set last.                         *)
log_msg_varg_current(log, opens) == LET made == log_instance(log, opens) IN Written(made, "line", made.context.format)

(* A line in the format of the logger.  After a FATAL one the process      *)
(* ends, which is up to the caller of this operator.                       *)
log_msg_varg(log, opens) == LET made == log_instance(log, opens) IN Written(made, "line", made.instance.context.format)

log_msg(log, type, opens) ==
    LET made == log_instance(log, opens)
    IN  IF AtLeast(type, made.instance.context.lvl) THEN log_msg_varg(made, opens) ELSE made
=============================================================================
