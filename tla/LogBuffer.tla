----------------------------- MODULE LogBuffer -----------------------------
(***************************************************************************)
(* The message buffer of Utilities/Log/log.cpp.                            *)
(*                                                                         *)
(* A buffer is the bytes of msg_buff and the offset where the next part of *)
(* the message goes; `overrun' says that something was written behind the  *)
(* bytes.  Of a message its parts are kept, not their wording: it is a     *)
(* sequence of characters, a type and a location are one character each.   *)
(***************************************************************************)
EXTENDS Integers, Sequences

CONSTANTS
    msg_sz,     \* the size of the buffer; it has one byte more
    Nul         \* '\0'

(* The message types, whose codes are letters.                             *)
Code == [CALL |-> 67, QUIT |-> 81, DUMP |-> 68, LOG |-> 76, WARNING |-> 87, ERROR |-> 69, FATAL |-> 70]

MSG_TYPE == DOMAIN Code

NoMessage == [bytes |-> [i \in 0..msg_sz |-> Nul], msg_off |-> 0, overrun |-> FALSE]

(* MSG_AVAILABLE, which is as much as one likes behind the end, where the  *)
(* unsigned difference is huge; n is how much would be liked.              *)
Available(off, n) == IF off <= msg_sz THEN msg_sz - off ELSE n + 1

(* snprintf (MSG_END, MSG_AVAILABLE, ...): as many characters as fit, and  *)
(* a '\0'.                                                                 *)
snprintf(b, s) ==
    LET room == Available(b.msg_off, Len(s))
        end  == b.msg_off + (IF Len(s) < room THEN Len(s) ELSE room - 1)
    IN  IF room = 0 THEN b
        ELSE [b EXCEPT !.bytes   = [i \in 0..msg_sz |-> CASE i = end -> Nul
                                                          [] i >= b.msg_off /\ i < end -> s[i - b.msg_off + 1]
                                                          [] OTHER -> @[i]],
                       !.overrun = @ \/ end > msg_sz]

(* msg_off += snprintf (...), which returns what it would have written.    *)
Appended(b, s) == [snprintf(b, s) EXCEPT !.msg_off = @ + Len(s)]

(* Whether the text of a message is quoted; 'L' is greater than 'F', so    *)
(* that it never is.                                                       *)
Quoted(type) == Code["LOG"] <= Code[type] /\ Code[type] <= Code["FATAL"]

(* Mutant of get_formated_msg: goes on behind the last message.            *)
get_formated_msg_after(b, type, body) == Appended(Appended(b, <<type>>), body)

get_formated_msg(b, type, body) ==
    LET typed == Appended([b EXCEPT !.msg_off = 0], <<type>>)
    IN  IF Quoted(type) THEN Appended(Appended(Appended(typed, <<"quote">>), body), <<"quote">>)
        ELSE Appended(typed, body)

logger_get_formated_msg(b, type, body) == get_formated_msg(b, type, body)

logger_get_formated_msg_localized(b, type, body) == snprintf(get_formated_msg(b, type, body), <<"location">>)

(* What is printed of the buffer: all before the first '\0'.               *)
Printed(b) ==
    LET end == CHOOSE i \in 0..msg_sz : b.bytes[i] = Nul /\ \A k \in 0..(i - 1) : b.bytes[k] # Nul
    IN  [k \in 1..end |-> b.bytes[k - 1]]
=============================================================================
