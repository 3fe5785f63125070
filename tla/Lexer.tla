------------------------------- MODULE Lexer -------------------------------
(***************************************************************************)
(* WM/src/Lexer/lex.cpp and the loop that calls it, which reads to the     *)
(* final token and skips the line of a token it cannot use (asm_translate, *)
(* asm.cpp:89).                                                            *)
(*                                                                         *)
(* A text is a sequence of characters, and a character is the class the    *)
(* lexer tells apart: "return" stands for '\r' and the other characters    *)
(* that isspace accepts and lex_get_tok does not, "exp" for 'e' and 'E',   *)
(* which are letters and also part of numbers, "letter" for the other      *)
(* letters and '_'.  Left out are hexadecimal numbers, "inf" and "nan",    *)
(* which strtod reads too.  The value of a number is not modelled, only    *)
(* whether it is out of range, which here takes an exponent.               *)
(***************************************************************************)
EXTENDS Integers, Sequences, FiniteSets

CONSTANT Sources        \* the texts

Classes == {"newline", "blank", "return", "colon", "hash", "digit", "sign", "dot", "exp", "letter", "other"}

ASSUME LexerAssumption == Sources \subseteq Seq(Classes)

VARIABLES
    lex,        \* the Lexer
    read,       \* the tokens the caller got
    skipped,    \* the characters it passed with lex_skip_line
    fresh       \* it got a token and has not dealt with it

vars == <<lex, read, skipped, fresh>>

IsSpace   == {"newline", "blank", "return"}
IsAlpha   == {"exp", "letter"}
Word      == IsAlpha \cup {"digit"}
Consts    == {"INT_NUMBER", "DEC_NUMBER"}
TokenType == Consts \cup {"IDENTIFIER", "COLON", "FINAL", "INCORRECT"}

(* The character at place p; "end" is the terminating '\0'.                *)
Sym(s, p) == IF p <= Len(s) THEN s[p] ELSE "end"

(* The end of the run of characters of classes C that begins at place p.   *)
RunEnd(s, p, C) ==
    CHOOSE q \in p..(Len(s) + 1) : Sym(s, q) \notin C /\ \A r \in p..(q - 1) : Sym(s, r) \in C

Newlines(s, from, to) == Cardinality({p \in from..to : Sym(s, p) = "newline"})

-----------------------------------------------------------------------------
(* lex.cpp.                                                                *)

NoToken == [type |-> "INT_NUMBER", beg |-> 0, size |-> 0, nline |-> 0]     \* Token{}

lex_init(src) == [source_ |-> src, curr_sym_ |-> 1, tok_ |-> NoToken, nline_ |-> 1]

advance(l, n) == [l EXCEPT !.curr_sym_ = @ + n]

make_token(l, type, size) ==
    [l EXCEPT !.tok_ = [type |-> type, beg |-> l.curr_sym_, size |-> size, nline |-> l.nline_]]

(* Where strtod stops: sign, digits with at most one dot among them, and   *)
(* an exponent if it has digits of its own; where it began without digits. *)
Mantissa(s, p) ==
    LET first == IF Sym(s, p) = "sign" THEN p + 1 ELSE p
        point == RunEnd(s, first, {"digit"})
        end   == IF Sym(s, point) = "dot" THEN RunEnd(s, point + 1, {"digit"}) ELSE point
    IN  IF \E q \in first..(end - 1) : s[q] = "digit" THEN end ELSE p

strtod(s, p) ==
    LET m    == Mantissa(s, p)
        from == IF Sym(s, m + 1) = "sign" THEN m + 2 ELSE m + 1
    IN  IF m > p /\ Sym(s, m) = "exp" /\ Sym(s, from) = "digit" THEN RunEnd(s, from, {"digit"}) ELSE m

make_number(l, erange) ==
    LET s    == l.source_
        p    == l.curr_sym_
        nend == strtod(s, p)
        type == IF Sym(s, nend) \notin IsSpace \cup {"end"} \/ (erange /\ nend > Mantissa(s, p))
                THEN "INCORRECT"
                ELSE IF \E q \in p..(nend - 1) : s[q] = "dot" THEN "DEC_NUMBER" ELSE "INT_NUMBER"
    IN  advance(make_token(l, type, nend - p), nend - p)

(* Mutant of make_identifier: digits do not belong to words.               *)
make_identifier_alpha(l) ==
    LET nsize == RunEnd(l.source_, l.curr_sym_, IsAlpha) - l.curr_sym_
    IN  advance(make_token(l, "IDENTIFIER", nsize), nsize)

make_identifier(l) ==
    LET nsize == RunEnd(l.source_, l.curr_sym_, Word) - l.curr_sym_
    IN  advance(make_token(l, "IDENTIFIER", nsize), nsize)

(* Mutant of make_final: goes past the terminating '\0'.                   *)
make_final_past(l) == advance(make_token(l, "FINAL", 1), 1)

make_colon(l)     == advance(make_token(l, "COLON", 1), 1)
make_final(l)     == make_token(l, "FINAL", 1)
make_incorrect(l) == make_token(l, "INCORRECT", 1)

(* Mutant of lex_skip_line: the last line is not skipped.                  *)
lex_skip_line_inner(l) ==
    LET end == RunEnd(l.source_, l.curr_sym_, Classes \ {"newline"})
    IN  IF Sym(l.source_, end) = "newline" THEN [l EXCEPT !.curr_sym_ = end] ELSE l

(* Mutant of lex_skip_line: skips one character.                           *)
lex_skip_line_short(l) ==
    IF Sym(l.source_, l.curr_sym_) \in {"newline", "end"} THEN l ELSE advance(l, 1)

(* Mutant of lex_skip_line: passes the newline as well.                    *)
lex_skip_line_past(l) ==
    LET end == RunEnd(l.source_, l.curr_sym_, Classes \ {"newline"})
    IN  [l EXCEPT !.curr_sym_ = IF Sym(l.source_, end) = "newline" THEN end + 1 ELSE end]

lex_skip_line(l) == [l EXCEPT !.curr_sym_ = RunEnd(l.source_, @, Classes \ {"newline"})]

(* The loop of lex_get_tok: over blanks, newlines, which are counted, and  *)
(* from each '#' to the end of its line.                                   *)
pass_blanks(l) ==
    LET s          == l.source_
        from       == l.curr_sym_
        Comment(q) == \E h \in from..q : Sym(s, h) = "hash" /\ Newlines(s, h, q) = 0
        Passed(q)  == Sym(s, q) # "end" /\ (Sym(s, q) \in {"newline", "blank"} \/ Comment(q))
        to         == CHOOSE p \in from..(Len(s) + 1) : ~Passed(p) /\ \A q \in from..(p - 1) : Passed(q)
    IN  [l EXCEPT !.curr_sym_ = to, !.nline_ = @ + Newlines(s, from, to - 1)]

lex_get_tok(lx, erange) ==
    LET l == pass_blanks(lx)
        c == Sym(l.source_, l.curr_sym_)
    IN  CASE c = "colon"             -> make_colon(l)
          [] c \in {"digit", "sign"} -> make_number(l, erange)
          [] c = "end"               -> make_final(l)
          [] c \in IsAlpha           -> make_identifier(l)
          [] OTHER                   -> make_incorrect(l)

-----------------------------------------------------------------------------
(* The caller.  What the assembler reads for the arguments of a command    *)
(* is not modelled: in each round of its loop it gets one token.           *)

Init ==
    /\ lex \in {lex_init(src) : src \in Sources}
    /\ read = {} /\ skipped = {} /\ fresh = FALSE

Reading == lex.tok_.type # "FINAL"

GetTok ==
    /\ Reading /\ ~fresh
    /\ \E erange \in BOOLEAN : lex' = lex_get_tok(lex, erange)
    /\ read' = read \cup {lex'.tok_}
    /\ fresh' = TRUE
    /\ UNCHANGED skipped

(* The token suits the caller.                                             *)
UseTok ==
    /\ Reading /\ fresh
    /\ fresh' = FALSE
    /\ UNCHANGED <<lex, read, skipped>>

SkipLine ==
    /\ Reading /\ fresh
    /\ lex' = lex_skip_line(lex)
    /\ skipped' = skipped \cup lex.curr_sym_..(lex'.curr_sym_ - 1)
    /\ fresh' = FALSE
    /\ UNCHANGED read

(* A caller that skips the line of every incorrect token, and of any other *)
(* that does not suit it.                                                  *)
Next ==
    \/ GetTok
    \/ lex.tok_.type # "INCORRECT" /\ UseTok
    \/ SkipLine

(* The caller is a loop to the final token and waits for nothing.         *)
Spec == Init /\ [][Next]_vars /\ WF_vars(Next)

-----------------------------------------------------------------------------
(* Properties.                                                             *)

Source == lex.source_

Token == [type : TokenType, beg : Nat, size : Nat, nline : Nat]

(* Types; the lexer stays within the text and its terminating '\0'         *)
(* (curr_sym_, lex.h:9).                                                   *)
TypeOK ==
    /\ Source \in Sources
    /\ lex.curr_sym_ \in 1..(Len(Source) + 1)
    /\ lex.nline_ \in 1..(Len(Source) + 1)
    /\ lex.tok_ \in Token
    /\ read \subseteq Token
    /\ skipped \subseteq 1..Len(Source)
    /\ fresh \in BOOLEAN

(* Every token names the line it is on, whatever comments, empty lines and *)
(* skipped lines come before it (inc_line, lex.cpp:34, is called in one    *)
(* place only).                                                            *)
LinesRight == \A tok \in read : tok.nline = 1 + Newlines(Source, 1, tok.beg - 1)

Extent(tok) == tok.beg..(tok.beg + tok.size - 1)

(* Blanks, newlines and comments mean nothing.                             *)
Meaningless(p) ==
    \/ Sym(Source, p) \in {"newline", "blank"}
    \/ \E h \in 1..p : Sym(Source, h) = "hash" /\ Newlines(Source, h, p) = 0

(* An identifier touches no other letter or digit, before or after it.     *)
WholeWords ==
    \A tok \in read : tok.type = "IDENTIFIER" =>
        /\ Sym(Source, tok.beg + tok.size) \notin Word
        /\ tok.beg > 1 => Sym(Source, tok.beg - 1) \notin Word

(* No character is read twice or lost: every one before the current        *)
(* position that means something is in a token or was skipped, in no two   *)
(* tokens, and one that means nothing is in no token (advance in each      *)
(* make_... of lex.cpp, and strtod, agree with the extent of the token).   *)
(* Neither a number nor a word is cut in two: make_number refuses what it  *)
(* stops in front of (lex.cpp:57).                                         *)
EachCharacterOnce ==
    /\ \A p \in 1..(lex.curr_sym_ - 1) \ skipped :
          Meaningless(p) <=> \A tok \in read : p \notin Extent(tok)
    /\ \A t, u \in read : t # u => Extent(t) \cap Extent(u) = {}
    /\ WholeWords

(* lex.h:16: a caller that skips the line of an incorrect token has no     *)
(* second error from the same line.                                        *)
NoTiedErrors ==
    \A t, u \in read : t # u /\ t.type = "INCORRECT" /\ u.type = "INCORRECT" => t.nline # u.nline

(* Every text comes to its final token: each round of the loop moves on,   *)
(* though make_incorrect and a sign without digits do not (lex.cpp:123).   *)
Terminates == <>(lex.tok_.type = "FINAL")
=============================================================================
