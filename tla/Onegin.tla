------------------------------- MODULE Onegin -------------------------------
(***************************************************************************)
(* Onegin: main reads a text, cuts it into lines (text.cpp), sorts and     *)
(* prints them, prints verses made of them and prints the text             *)
(* (onegin_text.cpp).                                                      *)
(*                                                                         *)
(* A character is "nl" or "cr", which end lines, "cap" or "blank", what a  *)
(* chapter title may consist of, or "low" or "mid", which it may not;      *)
(* "nul" is '\0'.  Places in the text are counted from 0.  The text has no *)
(* '\0' of its own: after its last character the block has as many as the  *)
(* allocator gave more than it was asked for, `slack'.  A program that     *)
(* reads or writes past them has "overrun" its block; one that divides by  *)
(* zero or prints a token nobody stored is "wild", and one whose           *)
(* comparators read outside the block "astray".  After each of them        *)
(* anything may happen.                                                    *)
(***************************************************************************)
EXTENDS Integers, Sequences, LineOrder

CONSTANTS
    Texts,          \* the texts that are read
    Slacks,         \* how much longer than the text its block may be
    Orders(_),      \* the orders qsort may put that many tokens in
    Junk            \* a token nobody stored

Delims == {"nl", "cr"}
Chars  == Delims \cup {"cap", "blank", "low", "mid"}

ASSUME OneginAssumption ==
    /\ Texts \subseteq Seq(Chars) /\ Slacks \subseteq Nat
    /\ Junk \notin [beg : Nat, size : Nat]
    /\ \A t \in Texts : \A k \in 0..Len(t) : \A order \in Orders(k) :
          order \in [0..(k - 1) -> 0..(k - 1)] /\ \A a \in 0..(k - 1) : \E b \in 0..(k - 1) : order[b] = a

VARIABLES
    pc,         \* where main is
    text,       \* the file
    mem,        \* the block it was read into
    tokens,     \* the vector of tokens
    cur,        \* the token the tokenizer is at
    count,      \* what count_tokens has counted
    verse,      \* of print_rhymes: the indices i and j, and str_num
    out         \* the lines and the text that were printed

vars == <<pc, text, mem, tokens, cur, count, verse, out>>

(* Where main is when there is nothing left for it to do.                  *)
Over == {"done", "failed", "overrun", "wild", "astray"}

Token == [beg : Nat, size : Nat]

Vec == INSTANCE Vector WITH T <- Token

n == Len(text)

(* The character at place p of the block.                                  *)
At(p) == mem[p + 1]

(* The place at or after p where the characters in C end; the end of the   *)
(* block if it takes reading past it.                                      *)
SpanEnd(m, p, C) ==
    CHOOSE q \in p..Len(m) : (q = Len(m) \/ m[q + 1] \notin C) /\ \A r \in p..(q - 1) : m[r + 1] \in C

-----------------------------------------------------------------------------
(* text.cpp, and the function of Utilities that reads the file.            *)

file_size(file) == Len(file)

(* Mutant of read_buff: the block is not cleared.                          *)
read_buff_raw(file, slack) == file \o [k \in 1..slack |-> "low"]

(* The block is asked for the size of the file.                            *)
read_buff(file, slack) == file \o [k \in 1..slack |-> "nul"]

(* An empty file counts as one there is no memory for.                     *)
buf_ctor_by_file(file, slack, ok) ==
    IF file_size(file) > 0 /\ ok
    THEN [data |-> read_buff(file, slack), err |-> "BUFF_SUCCESS"]
    ELSE [data |-> <<>>, err |-> "BUFF_ALLOCATION_FAILED"]

(* The block and the vector are given back.                                *)
text_dtor == mem' = <<>> /\ tokens' = Vec!vec_dtor(tokens)

get_token(m, p) ==
    LET beg == SpanEnd(m, p, Delims)
    IN  [beg |-> beg, size |-> SpanEnd(m, beg, Chars \ Delims) - beg]

(* Finding the token took reading past the block.                          *)
Overrun(tok, m) == tok.beg + tok.size >= Len(m)

(* main.cpp: a chapter title consists of certain characters only.          *)
verify_line(m, tok) == \E p \in tok.beg..(tok.beg + tok.size - 1) : m[p + 1] \in {"low", "mid"}

-----------------------------------------------------------------------------
(* The steps of main.                                                      *)

Init ==
    /\ pc = "read"
    /\ text \in Texts
    /\ mem = <<>>
    /\ tokens = Vec!NoVector
    /\ cur = [beg |-> 0, size |-> 0] /\ count = 0
    /\ verse = [i |-> 0, j |-> 0, str_num |-> 0, err |-> FALSE]
    /\ out = [lines |-> <<>>, raw |-> <<>>]

(* text_ctor_by_file, and the beginning of count_tokens.                   *)
Read ==
    /\ pc = "read"
    /\ \E slack \in Slacks, file_ok, vec_ok \in BOOLEAN :
          LET buff == buf_ctor_by_file(text, slack, file_ok)
              vec  == Vec!vec_ctor(tokens, vec_ok)
          IN  /\ mem' = buff.data
              /\ IF buff.err # "BUFF_SUCCESS"
                 THEN pc' = "failed" /\ UNCHANGED <<tokens, cur, count>>
                 ELSE IF vec.err # "VEC_SUCCESS"
                 THEN pc' = "failed" /\ tokens' = vec.vec /\ UNCHANGED <<cur, count>>
                 ELSE /\ tokens' = vec.vec
                      /\ cur' = get_token(mem', 0)
                      /\ count' = 1
                      /\ pc' = IF Overrun(cur', mem') THEN "overrun" ELSE "count"
    /\ UNCHANGED <<text, verse, out>>

(* One round of count_tokens: the beginning of the token moves on by the   *)
(* number of delimiters after it.  Only a loop that never ends counts      *)
(* further than there are characters, and is not counted.                  *)
CountMore ==
    /\ pc = "count" /\ At(cur.beg) # "nul" /\ cur.size # 0
    /\ LET after == cur.beg + cur.size
           beg   == cur.beg + SpanEnd(mem, after, Delims) - after
       IN  IF SpanEnd(mem, after, Delims) = Len(mem)
           THEN pc' = "overrun" /\ UNCHANGED <<cur, count>>
           ELSE /\ cur' = [beg |-> beg, size |-> SpanEnd(mem, beg, Chars \ Delims) - beg]
                /\ pc' = IF Overrun(cur', mem) THEN "overrun" ELSE "count"
                /\ count' = IF count > n THEN count ELSE count + 1
    /\ UNCHANGED <<text, mem, tokens, verse, out>>

(* The end of count_tokens; that there was no memory is ignored.           *)
Reserve ==
    /\ pc = "count" /\ (At(cur.beg) = "nul" \/ cur.size = 0)
    /\ \E ok \in BOOLEAN : tokens' = Vec!vec_reserve(tokens, count, ok).vec
    /\ cur' = get_token(mem, 0)
    /\ pc' = IF Overrun(cur', mem) THEN "overrun" ELSE "tokenize"
    /\ UNCHANGED <<text, mem, count, verse, out>>

(* One round of text_tokenize, with the '\0' put at place p: the line that *)
(* is not a chapter title gets its place in the vector.                    *)
TokenizeWith(p) ==
    /\ pc = "tokenize" /\ At(cur.beg) # "nul"
    /\ mem' = [mem EXCEPT ![p + 1] = "nul"]
    /\ \E ok \in BOOLEAN :
          LET res == IF verify_line(mem', cur) THEN Vec!vec_push_back(tokens, cur, ok)
                     ELSE [vec |-> tokens, err |-> "VEC_SUCCESS"]
          IN  /\ tokens' = res.vec
              /\ IF res.err # "VEC_SUCCESS"
                 THEN pc' = "failed" /\ UNCHANGED cur
                 ELSE /\ cur' = get_token(mem', cur.beg + cur.size + 1)
                      /\ pc' = IF Overrun(cur', mem') THEN "overrun" ELSE "tokenize"
    /\ UNCHANGED <<text, count, verse, out>>

(* Mutant of Tokenize: cuts off the last character of the line.            *)
TokenizeCut == TokenizeWith(cur.beg + cur.size - 1)

Tokenize == TokenizeWith(cur.beg + cur.size)

Tokenized ==
    /\ pc = "tokenize" /\ At(cur.beg) = "nul"
    /\ pc' = "sort"
    /\ UNCHANGED <<text, mem, tokens, cur, count, verse, out>>

(* The vector after qsort.                                                 *)
Sorted(order) ==
    [tokens EXCEPT !.cells = [k \in DOMAIN @ |-> IF k < tokens.size THEN @[order[k]] ELSE @[k]]]

(* What the two comparators say of the tokens.                             *)
LineComparisons ==
    Comparisons(tokens.cells, 0..(tokens.size - 1), LAMBDA l, r : custom_line_comparator(mem, l, r))

ReverseComparisons ==
    Comparisons(tokens.cells, 0..(tokens.size - 1), LAMBDA l, r : custom_reverse_line_comparator(mem, l, r))

(* qsort of all tokens, after which main is at next.                       *)
qsort(comparisons, next) ==
    \E said \in {comparisons} :
        \/ said.outside # {} /\ pc' = "astray" /\ UNCHANGED tokens
        \/ /\ \E order \in Sorting(0..(tokens.size - 1), Orders(tokens.size), said) : tokens' = Sorted(order)
           /\ pc' = next

(* onegin_text_sort.                                                       *)
Sort ==
    /\ pc = "sort"
    /\ qsort(LineComparisons, "dump")
    /\ UNCHANGED <<text, mem, cur, count, verse, out>>

(* One line for each token there is.                                       *)
write_nlines_to_file(vec, n_lines) == [k \in 1..(IF n_lines < vec.size THEN n_lines ELSE vec.size) |-> Vec!vec_get_elem(vec, k - 1).val]

onegin_text_dump == [out EXCEPT !.lines = write_nlines_to_file(tokens, tokens.size)]

(* main opens the output and prints the sorted lines, or gives up.         *)
Dump ==
    /\ pc = "dump"
    /\ \/ /\ out' = onegin_text_dump
          /\ pc' = "resort"
          /\ UNCHANGED <<mem, tokens>>
       \/ /\ text_dtor
          /\ pc' = "failed"
          /\ UNCHANGED out
    /\ UNCHANGED <<text, cur, count, verse>>

(* Mutant of Drawn: the last index is one too high.                        *)
DrawnHigh(size, cap) == IF size > 2 THEN 0..(size - 2) ELSE 0..cap

(* rand() % (size - 2).  With less than two tokens the difference is huge, *)
(* and from the capacity on all indices are alike.                         *)
Drawn(size, cap) == IF size > 2 THEN 0..(size - 3) ELSE 0..cap

(* onegin_text_rhymes_dump sorts anew.                                     *)
SortAnew ==
    /\ pc = "resort"
    /\ qsort(ReverseComparisons, "draw")
    /\ UNCHANGED <<text, mem, cur, count, verse, out>>

(* The first indices of print_rhymes; with two tokens it divides by zero.  *)
Draw ==
    /\ pc = "draw"
    /\ IF tokens.size = 2
       THEN pc' = "wild" /\ UNCHANGED verse
       ELSE /\ \E i, j \in Drawn(tokens.size, tokens.capacity) : verse' = [verse EXCEPT !.i = i, !.j = j]
            /\ pc' = "rhyme"
    /\ UNCHANGED <<text, mem, tokens, cur, count, out>>

step == 14

(* Mutant of Rhymes: the last pair of lines is not reached.                *)
RhymesLate(i, j, str_num) ==
    CASE str_num % step = 0  -> <<i, j, i + 2, j + 2>>
      [] str_num % step = 4  -> <<i, i + 2, j, j + 2>>
      [] str_num % step = 8  -> <<i, j, j + 2, i + 2>>
      [] str_num % step = 13 -> <<i, i + 2>>
      [] OTHER               -> <<>>

(* The tokens of the next verse.                                           *)
Rhymes(i, j, str_num) ==
    CASE str_num % step = 0  -> <<i, j, i + 2, j + 2>>
      [] str_num % step = 4  -> <<i, i + 2, j, j + 2>>
      [] str_num % step = 8  -> <<i, j, j + 2, i + 2>>
      [] str_num % step = 12 -> <<i, i + 2>>
      [] OTHER               -> <<>>

(* How many lines print_4_lines wrote: it leaves out tokens without text,  *)
(* which only stand in for those a pair of lines has not got.              *)
print_4_lines(lines) == Len(lines)

(* One round of print_rhymes.                                              *)
Rhyme ==
    LET size  == tokens.size
        lines == Rhymes(verse.i, verse.j, verse.str_num)
        got   == {Vec!vec_get_elem(tokens, lines[k]) : k \in DOMAIN lines}
        i     == (verse.i * verse.j + size \div step) % (size - 2)
        j     == (i * verse.j + size \div step) % (size - 2)
    IN  /\ pc = "rhyme" /\ verse.str_num < size
        /\ IF \E res \in got : res.err # "VEC_SUCCESS"
           THEN pc' = "raw" /\ verse' = [verse EXCEPT !.err = TRUE]
           ELSE IF \E res \in got : res.val = Junk
           THEN pc' = "wild" /\ UNCHANGED verse
           ELSE pc' = "rhyme" /\ verse' = [verse EXCEPT !.i = i, !.j = j, !.str_num = @ + print_4_lines(lines)]
        /\ UNCHANGED <<text, mem, tokens, cur, count, out>>

Rhymed ==
    /\ pc = "rhyme" /\ verse.str_num >= tokens.size
    /\ pc' = "raw"
    /\ UNCHANGED <<text, mem, tokens, cur, count, verse, out>>

(* onegin_text_raw_dump and onegin_text_dtor.                              *)
RawDump ==
    /\ pc = "raw"
    /\ out' = [out EXCEPT !.raw = [k \in 1..n |-> IF mem[k] = "nul" THEN "nl" ELSE mem[k]]]
    /\ text_dtor
    /\ pc' = "done"
    /\ UNCHANGED <<text, cur, count, verse>>

Next ==
    \/ Read \/ CountMore \/ Reserve \/ Tokenize \/ Tokenized
    \/ Sort \/ Dump \/ SortAnew \/ Draw \/ Rhyme \/ Rhymed \/ RawDump

(* A program that waits for nothing.                                       *)
Spec == Init /\ [][Next]_vars /\ WF_vars(Next)

-----------------------------------------------------------------------------
(* Properties.                                                             *)

(* Types; the vector has room for its tokens (VEC_VERIFY, vector.h:36),    *)
(* and they are in the text.                                               *)
TypeOK ==
    /\ pc \in {"read", "count", "tokenize", "sort", "dump", "resort", "draw", "rhyme", "raw"} \cup Over
    /\ mem \in Seq(Chars \cup {"nul"})
    /\ Vec!IsVector(tokens)
    /\ \A k \in 0..(tokens.size - 1) : tokens.cells[k] # Junk /\ tokens.cells[k].beg + tokens.cells[k].size <= n
    /\ cur \in Token /\ count \in 0..(n + 1)
    /\ verse \in [i : Nat, j : Nat, str_num : Nat, err : BOOLEAN]

(* The lines of the text, titles apart.                                    *)
IsLine(p, q) ==
    /\ \A r \in p..q : text[r] \notin Delims
    /\ p > 1 => text[p - 1] \in Delims
    /\ q < n => text[q + 1] \in Delims

Lines ==
    {tok \in [beg : 0..(n - 1), size : 1..n] :
        /\ tok.beg + tok.size <= n
        /\ IsLine(tok.beg + 1, tok.beg + tok.size)
        /\ \E r \in (tok.beg + 1)..(tok.beg + tok.size) : text[r] \in {"low", "mid"}}

(* Every line that is not a title is printed, once, whatever delimiters    *)
(* there are before, between and after lines and however the vector grew   *)
(* (text_tokenize, text.cpp:47; count_tokens, which counts something else, *)
(* only makes the first room).                                             *)
EveryLineOnce ==
    pc = "resort" =>
        /\ {out.lines[k] : k \in DOMAIN out.lines} = Lines
        /\ \A k, l \in DOMAIN out.lines : k # l => out.lines[k] # out.lines[l]

PlainLine(tok) == \A p \in tok.beg..(tok.beg + tok.size - 1) : text[p + 1] \notin isprint

(* Byte d of a line, or the '\0' behind it.                                *)
Byte(tok, d) == IF d < tok.size THEN Value[text[tok.beg + d + 1]] ELSE 0

(* The sorted lines ascend, as the title above them says (main.cpp:49), if *)
(* they have no printable character of ASCII in them, which the comparator *)
(* passes: where two first differ the lesser byte comes first.  A line     *)
(* comes after those it begins, for '\0' is greater than a byte outside    *)
(* ASCII.  On the way the comparators, one of which scans back with no     *)
(* regard for where its line begins (main.cpp:115), leave the block only   *)
(* if a line has a printable character in it, and only beyond its          *)
(* beginning: at its end it has the room that the tokenizer had.           *)
LinesAscend ==
    /\ pc = "resort" /\ (\A tok \in Lines : PlainLine(tok)) =>
          \A k, l \in DOMAIN out.lines : \A d \in 0..n :
              k < l /\ (\A e \in 0..(d - 1) : Byte(out.lines[k], e) = Byte(out.lines[l], e)) =>
                  Byte(out.lines[k], d) <= Byte(out.lines[l], d)
    /\ pc = "astray" => out.lines # <<>> /\ \E tok \in Lines : ~PlainLine(tok)

(* The third part of the output is the original (main.cpp:51), but for     *)
(* ends of lines: the '\0' that the tokenizer left there is printed as     *)
(* '\n' even where it replaced a '\r' (onegin_text.cpp:79).                *)
OriginalKept == pc = "done" => \A k \in 1..n : out.raw[k] # text[k] => text[k] = "cr" /\ out.raw[k] = "nl"

(* The text is read and written within its block if the block has one      *)
(* character more than the text, or two if the text does not end with a    *)
(* delimiter; read_buff asks for none (stdlib_addition.cpp:23), so it      *)
(* takes the allocator's rounding.                                         *)
InsideBlock == pc = "overrun" => Len(mem) - n < (IF text[n] \in Delims THEN 1 ELSE 2)

(* With at least three lines every verse is made of lines, no index is out *)
(* of range, and there are as many lines of verse as lines of text or up   *)
(* to three more (print_rhymes, onegin_text.cpp:177).                      *)
VersesWhole ==
    tokens.size > 2 =>
        /\ pc # "wild"
        /\ ~verse.err
        /\ pc = "raw" => verse.str_num \in tokens.size..(tokens.size + 3)

(* The first line of the text, if there is one, has an end.                *)
FirstLineEnds ==
    \A p \in 1..n :
        text[p] \notin Delims /\ (\A r \in 1..(p - 1) : text[r] \in Delims) => \E q \in p..n : text[q] \in Delims

(* The program ends if the first line of the text does: without that       *)
(* count_tokens stays where it is (text.cpp:102).                          *)
Terminates == FirstLineEnds => <>(pc \in Over)
=============================================================================
