---------------------------- MODULE MCAssembler ----------------------------
(* Small sources for Assembler: four registers, of which R3 is the last,   *)
(* one constant within reach of an operand and two of a load.              *)
EXTENDS Assembler

Letters(n)  == [i \in 1..n |-> "letter"]
Cmd(name)   == [sym |-> Letters(3), name |-> name, num |-> 0]
R(n)        == [sym |-> <<"letter", "digit">>, name |-> "R", num |-> n]
Num(n)      == [sym |-> <<"digit">>, name |-> "", num |-> n]
Dec(n)      == [sym |-> <<"digit", "dot", "digit">>, name |-> "", num |-> n]
Sign(sym)   == [sym |-> <<sym>>, name |-> "", num |-> 0]
BareR       == [sym |-> <<"letter">>, name |-> "R", num |-> 0]
Rx(n)       == [sym |-> <<"letter", "letter", "digit">>, name |-> "Rx", num |-> n]
Minus(n)    == [sym |-> <<"sign", "digit">>, name |-> "", num |-> -n]
Move        == [sym |-> Letters(4), name |-> "move", num |-> 0]
Short(name) == [sym |-> <<"letter">>, name |-> name, num |-> 0]

MCShortened == [m |-> {"mul", "move"}, x |-> {}]

Good == {<<Cmd("add"), R(1), R(2), R(0)>>,
         <<Cmd("sub"), R(2), R(1), Num(5)>>,
         <<Cmd("add"), R(0), Num(5), R(1), Sign("hash"), Cmd("sub")>>,
         <<Cmd("div"), R(2), R(1), Minus(7)>>,
         <<Cmd("div"), R(0), Num(7), Dec(5)>>,
         <<Cmd("mul"), R(1), Num(8), R(2)>>}

Bad == {<<>>,
        <<Cmd("add"), R(1), R(2)>>,
        <<Cmd("add"), R(9), R(1), Num(6)>>,
        <<Cmd("add"), Sign("other"), R(1), R(2)>>,
        <<Cmd("add"), R(1), R(2), R(3), Num(4)>>,
        <<Cmd("sub"), BareR, Num(1), Num(5)>>,
        <<Cmd("sub"), BareR, Minus(1), R(1)>>,
        <<Short("m"), R(1), R(2), R(0)>>,
        <<Num(5), Cmd("add")>>,
        <<Sign("colon"), R(1)>>,
        <<Move, R(1), Num(5)>>,
        <<Move, Cmd("add"), R(1), R(2)>>,
        <<Cmd("sub"), Num(5), Cmd("add"), R(1)>>,
        <<Cmd("sub"), Num(5), R(1), R(2)>>,
        <<Cmd("mul"), R(1), Rx(1), R(2)>>}

Lines == Good \cup Bad

Subtract == <<Cmd("sub"), R(2), R(1), Num(5)>>

(* A line before a good one, a bad one between two, and one constant more  *)
(* than the pool has room for.                                             *)
MCSources ==
    {<<a, b>> : a \in Lines, b \in Good}
    \cup {<<Subtract, b, c>> : b \in Bad, c \in {Subtract, <<Cmd("div"), R(0), Num(7), Dec(5)>>}}
    \cup {<<<<Cmd("add"), R(1), Num(5), Num(6)>>, <<Cmd("sub"), R(2), R(1), Num(7)>>,
            <<Cmd("mul"), R(0), Dec(5), R(2)>>, Subtract>>}
=============================================================================
