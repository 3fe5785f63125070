----------------------------- MODULE LineOrder -----------------------------
(***************************************************************************)
(* Onegin/main.cpp: the comparators that main gives to qsort, and qsort.   *)
(*                                                                         *)
(* They read a block m of characters, whose places are counted from 0, and *)
(* compare two tokens of it.  A comparison returns the difference, and     *)
(* whether all it read was inside the block.  Beyond Onegin's "cap",       *)
(* characters are "blank", which is printable and no graphic character,    *)
(* and "low" and "mid", two bytes of letters outside ASCII, which are      *)
(* neither, and negative.                                                  *)
(***************************************************************************)
EXTENDS Integers, Sequences

isgraph == {"cap"}
isprint == {"cap", "blank"}
isspace == {"nl", "cr", "blank"}

Value == [low |-> -2, mid |-> -1, nul |-> 0, nl |-> 10, cr |-> 13, blank |-> 32, cap |-> 65, outside |-> 0]

Char(m, p) == IF p \in 0..(Len(m) - 1) THEN m[p + 1] ELSE "outside"

Compared(m, p, q) ==
    [diff |-> Value[Char(m, p)] - Value[Char(m, q)], inside |-> "outside" \notin {Char(m, p), Char(m, q)}]

Same(m, p, q) == Char(m, p) = Char(m, q) /\ Char(m, p) # "outside"

-----------------------------------------------------------------------------

(* A graphic character is passed, and a space after it.                    *)
Passed(m, p) ==
    IF Char(m, p) \notin isgraph THEN p
    ELSE IF Char(m, p + 1) \in isspace THEN p + 2 ELSE p + 1

(* The loop, from places p and q that are compared, and what is compared   *)
(* after it.                                                               *)
Forwards(m, l, r, After(_, _)) ==
    LET min_sz == IF l.size < r.size THEN l.size ELSE r.size
        From[at \in Nat \X Nat] ==
            LET p == at[1]
                q == at[2]
            IN  IF ~Same(m, p, q) THEN Compared(m, p, q)
                ELSE IF p + 1 - l.beg >= min_sz \/ q + 1 - r.beg >= min_sz THEN After(p + 1, q + 1)
                ELSE From[<<Passed(m, p + 1), Passed(m, q + 1)>>]
    IN  From[<<Passed(m, l.beg), Passed(m, r.beg)>>]

(* Mutant of custom_line_comparator: lines that agree as far as both go    *)
(* are equal.                                                              *)
custom_line_comparator_prefix(m, l, r) == Forwards(m, l, r, LAMBDA p, q : [diff |-> 0, inside |-> TRUE])

custom_line_comparator(m, l, r) == Forwards(m, l, r, LAMBDA p, q : Compared(m, p, q))

(* Back over what is printable, be it in the line or before it.            *)
Back(m, p) == CHOOSE q \in -1..p : Char(m, q) \notin isprint /\ \A r \in (q + 1)..p : Char(m, r) \in isprint

(* The loop goes on until `stop'.  The indices have no sign: one that gets *)
(* below 0 is above it again, and the scan is in the lines before.         *)
Backwards(m, l, r, stop(_, _)) ==
    LET From[at \in Int \X Int] ==
            LET p == at[1]
                q == at[2]
            IN  IF ~Same(m, p, q) THEN Compared(m, p, q)
                ELSE IF stop(p - 1 - l.beg, q - 1 - r.beg) THEN Compared(m, p - 1, q - 1)
                ELSE From[<<Back(m, p - 1), Back(m, q - 1)>>]
    IN  From[<<Back(m, l.beg + l.size), Back(m, r.beg + r.size)>>]

(* Mutant of custom_reverse_line_comparator: || for &&.                    *)
custom_reverse_line_comparator_both(m, l, r) == Backwards(m, l, r, LAMBDA i, j : i = 0 /\ j = 0)

custom_reverse_line_comparator(m, l, r) == Backwards(m, l, r, LAMBDA i, j : i = 0 \/ j = 0)

-----------------------------------------------------------------------------
(* qsort of the tokens s[k], k \in K.                                       *)

(* What a comparator says of each two of them: the pairs of which the      *)
(* first is less, is greater, or is compared outside the block.            *)
Comparisons(s, K, cmp(_, _)) ==
    LET Pairs(Is(_)) == {ab \in {<<a, b>> : a, b \in K} : ab[1] # ab[2] /\ Is(cmp(s[ab[1]], s[ab[2]]))}
    IN  [less    |-> Pairs(LAMBDA res : res.diff < 0),
         greater |-> Pairs(LAMBDA res : res.diff > 0),
         outside |-> Pairs(LAMBDA res : ~res.inside)]

(* It orders them, as qsort requires.                                      *)
IsOrder(K, said) ==
    /\ said.less = {<<ab[2], ab[1]>> : ab \in said.greater}
    /\ \A ac \in said.greater, b \in K : <<ac[1], b>> \in said.greater \/ <<b, ac[2]>> \in said.greater

(* The orders qsort may put them in: any, if the comparator orders nothing.*)
Sorting(K, orders, said) ==
    IF IsOrder(K, said) THEN {order \in orders : \A a, b \in K : a < b => <<order[a], order[b]>> \notin said.greater}
    ELSE orders
=============================================================================
