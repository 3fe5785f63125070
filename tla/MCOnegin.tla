------------------------------ MODULE MCOnegin ------------------------------
(* Onegin on short texts of every form and on texts of many short lines.   *)
EXTENDS Onegin, SequencesExt, Functions

CONSTANTS Length, ManyLines

(* Lines of one character, the last one with an end or without, and as     *)
(* many lines with a title and "\r\n" between them.                        *)
Repeated(s, k) == FlattenSeq([m \in 1..k |-> s])

(* Lines for the comparators.                                              *)
ShortLines == SeqOf({"low", "mid", "cap", "blank"}, 2)
ThreeOf    == {<<"low">>, <<"mid">>, <<"low", "mid">>, <<"mid", "low">>, <<"cap", "low">>, <<"low", "cap">>}

MCTexts ==
    SeqOf({"nl", "cr", "cap", "low"}, Length)
    \cup {l \o <<"nl">> \o k : l, k \in ShortLines}
    \cup {j \o <<"nl">> \o l \o <<"nl">> \o k \o <<"nl">> : j, l, k \in ThreeOf}
    \cup UNION {{Repeated(<<"low", "nl">>, k),
                 Repeated(<<"low", "nl">>, k) \o <<"low">>,
                 <<"cap", "cr", "nl">> \o Repeated(<<"low", "cr", "nl">>, k)} : k \in ManyLines}

MCSlacks == 0..2

(* All orders of three tokens; of more, which here are all alike, the same *)
(* and the reverse.                                                        *)
MCOrders(k) ==
    LET places == 0..(k - 1) IN
    IF k <= 3 THEN Bijection(places, places)
    ELSE {[a \in places |-> a], [a \in places |-> k - 1 - a]}
=============================================================================
