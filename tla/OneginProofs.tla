---------------------------- MODULE OneginProofs ----------------------------
(***************************************************************************)
(* Theorems about Onegin, for all texts, all lengths of the block and all  *)
(* orders qsort may produce; but for LinesAreAscending, which is about the *)
(* comparators, they hold whatever these answer.                           *)
(***************************************************************************)
EXTENDS Onegin, NumberLemmas, SequenceTheorems, TLAPS

-----------------------------------------------------------------------------
(* The invariant.                                                          *)

Block == Seq(Chars \cup {"nul"})

(* The block is the text, with a '\0' for some ends of lines and from its  *)
(* end on.                                                                 *)
IsBlock(m) ==
    /\ m \in Block /\ Len(m) >= n /\ n > 0
    /\ \A k \in 1..n : m[k] = text[k] \/ (m[k] = "nul" /\ text[k] \in Delims)
    /\ \A k \in (n + 1)..Len(m) : m[k] = "nul"

(* From place p on it is as it was read.                                   *)
Unwritten(m, p) == \A k \in 1..n : k > p => m[k] = text[k]

(* A token of the block: no end of line in it, and one behind it.          *)
TokenIn(m, tok) ==
    /\ tok \in Token /\ tok.beg + tok.size < Len(m)
    /\ \A r \in tok.beg..(tok.beg + tok.size - 1) : m[r + 1] \in Chars \ Delims
    /\ m[tok.beg + tok.size + 1] \notin Chars \ Delims

(* A vector with tokens up to its size and nothing behind.                 *)
VecOK(v) ==
    /\ v = [cells |-> v.cells, capacity |-> v.capacity, size |-> v.size]
    /\ v.capacity \in Nat /\ v.size \in 0..v.capacity
    /\ v.cells \in [0..(v.capacity - 1) -> Token \cup {Junk}]
    /\ \A k \in 0..(v.size - 1) : v.cells[k] \in Token
    /\ \A k \in v.size..(v.capacity - 1) : v.cells[k] = Junk

(* Its tokens are in the text, and all different.                          *)
TokensIn(v) ==
    /\ v.size <= n
    /\ \A k \in 0..(v.size - 1) : v.cells[k].beg + v.cells[k].size <= n
    /\ \A k, l \in 0..(v.size - 1) : k # l => v.cells[k] # v.cells[l]

(* Its tokens are those lines.                                             *)
TokensAre(v, L) ==
    /\ \A k \in 0..(v.size - 1) : v.cells[k] \in L
    /\ \A tok \in L : \E k \in 0..(v.size - 1) : v.cells[k] = tok

LinesBefore(p) == {tok \in Lines : tok.beg < p}

NoVerse == [i |-> 0, j |-> 0, str_num |-> 0, err |-> FALSE]

Typed ==
    /\ text \in Texts /\ mem \in Block /\ VecOK(tokens) /\ TokensIn(tokens)
    /\ cur \in Token /\ count \in 0..(n + 1)
    /\ verse \in [i : Nat, j : Nat, str_num : Nat, err : BOOLEAN]
    /\ pc \in {"read", "count", "tokenize", "sort", "dump", "resort", "draw", "rhyme", "raw"} \cup Over
    /\ out = [lines |-> out.lines, raw |-> out.raw]
    /\ pc = "read" => tokens = Vec!NoVector
    /\ pc \in {"read", "count", "tokenize", "sort", "dump", "resort", "draw"} => verse = NoVerse

Counting == pc = "count" => IsBlock(mem) /\ Unwritten(mem, 0) /\ TokenIn(mem, cur) /\ tokens.size = 0

(* The tokenizer is at a beginning of a line, or behind the text; the      *)
(* lines before it are in the vector.                                      *)
Tokenizing ==
    pc = "tokenize" =>
        /\ IsBlock(mem) /\ Unwritten(mem, cur.beg) /\ TokenIn(mem, cur) /\ mem[cur.beg + 1] \notin Delims
        /\ cur.beg \in 1..n => text[cur.beg] \in Delims
        /\ tokens.size <= cur.beg
        /\ TokensAre(tokens, LinesBefore(cur.beg))

AllRead ==
    pc \in {"sort", "dump", "resort", "draw", "rhyme", "raw"} => IsBlock(mem) /\ TokensAre(tokens, Lines)

Dumped == pc = "resort" => out.lines = [k \in 1..tokens.size |-> tokens.cells[k - 1]]

Versed == tokens.size > 2 => ~verse.err /\ verse.str_num <= tokens.size + 3

(* The indices of the verses are those of tokens.                          *)
Rhyming ==
    /\ pc = "rhyme" => Versed
    /\ pc = "rhyme" /\ tokens.size > 2 =>
          /\ verse.i \in 0..(tokens.size - 3) /\ verse.j \in 0..(tokens.size - 3)
          /\ verse.str_num % step \in {0, 4, 8, 12}
    /\ pc = "rhyme" /\ tokens.size <= 2 => verse.str_num = 0
    /\ pc = "raw" /\ tokens.size > 2 => ~verse.err /\ verse.str_num \in tokens.size..(tokens.size + 3)
    /\ pc = "wild" => tokens.size <= 2
    /\ pc \notin {"rhyme", "raw"} /\ tokens.size > 2 => ~verse.err

IInv ==
    /\ Typed /\ Counting /\ Tokenizing /\ AllRead /\ Dumped /\ Rhyming
    /\ InsideBlock /\ OriginalKept

-----------------------------------------------------------------------------
(* The vector.                                                             *)

V(cells, capacity, size) == [cells |-> cells, capacity |-> capacity, size |-> size]

NoCells == [i \in {} |-> Junk]

(* The fields of a vector are all there is of it.                          *)
IsV(v) == v = V(v.cells, v.capacity, v.size)

LEMMA PutSize ==
    ASSUME NEW v, IsV(v), NEW x
    PROVE  [v EXCEPT !.size = x] = V(v.cells, v.capacity, x)
BY DEF V, IsV

LEMMA PutCellsAndCapacity ==
    ASSUME NEW v, IsV(v), NEW x, NEW y
    PROVE  [v EXCEPT !.cells = x, !.capacity = y] = V(x, y, v.size)
<1> DEFINE u == [v EXCEPT !.cells = x]
<1>1. [v EXCEPT !.cells = x, !.capacity = y] = [u EXCEPT !.capacity = y]
    OBVIOUS
<1>2. u = V(x, v.capacity, v.size)
    BY DEF V, IsV
<1> HIDE DEF u
<1>3. [u EXCEPT !.capacity = y] = V(x, y, v.size)
    BY <1>2 DEF V
<1> QED BY <1>1, <1>3

LEMMA PutCellsAndSize ==
    ASSUME NEW v, IsV(v), NEW x, NEW y
    PROVE  [v EXCEPT !.cells = x, !.size = y] = V(x, v.capacity, y)
<1> DEFINE u == [v EXCEPT !.cells = x]
<1>1. [v EXCEPT !.cells = x, !.size = y] = [u EXCEPT !.size = y]
    OBVIOUS
<1>2. u = V(x, v.capacity, v.size)
    BY DEF V, IsV
<1> HIDE DEF u
<1>3. [u EXCEPT !.size = y] = V(x, v.capacity, y)
    BY <1>2 DEF V
<1> QED BY <1>1, <1>3

LEMMA VecIsV ==
    ASSUME NEW v, VecOK(v)
    PROVE  IsV(v)
BY DEF VecOK, V, IsV

LEMMA EmptyVec == VecOK(V(NoCells, 0, 0)) /\ V(NoCells, 0, 0).size = 0 /\ Vec!NoVector = V(NoCells, 0, 0)
BY DEF VecOK, V, NoCells, Vec!NoVector

LEMMA Constructs ==
    ASSUME NEW v, VecOK(v), v.size = 0, NEW ok \in BOOLEAN
    PROVE  VecOK(Vec!vec_ctor(v, ok).vec) /\ Vec!vec_ctor(v, ok).vec.size = 0
<1> DEFINE u == Vec!buf_ctor(v)
<1>1. u = V(NoCells, 0, v.size)
    <2>1. u = [v EXCEPT !.cells = NoCells, !.capacity = 0]
        BY Zenon DEF Vec!buf_ctor, NoCells
    <2> QED BY <2>1, VecIsV, PutCellsAndCapacity
<1> HIDE DEF u
<1>2. [u EXCEPT !.size = 0] = V(NoCells, 0, 0)
    BY <1>1 DEF V
<1>3. Vec!vec_ctor(v, ok).vec = IF ok THEN [u EXCEPT !.size = 0] ELSE v
    BY DEF Vec!vec_ctor, u
<1> QED BY <1>2, <1>3, EmptyVec

LEMMA Destroys ==
    ASSUME NEW v, VecOK(v)
    PROVE  Vec!vec_dtor(v) = V(NoCells, 0, 0)
<1> DEFINE u == [v EXCEPT !.size = 0]
<1>1. u = V(v.cells, v.capacity, 0)
    BY VecIsV, PutSize
<1>2. Vec!vec_dtor(v) = [u EXCEPT !.cells = NoCells, !.capacity = 0]
    BY Zenon DEF Vec!vec_dtor, Vec!buf_dtor, NoCells
<1> HIDE DEF u
<1>3. IsV(u) /\ u.size = 0
    BY <1>1 DEF V, IsV
<1> QED BY <1>2, <1>3, PutCellsAndCapacity

Resized(v, m) == [i \in 0..(m - 1) |-> IF i < v.capacity THEN v.cells[i] ELSE Junk]

LEMMA Resizes ==
    ASSUME NEW v, VecOK(v), NEW m \in Nat, v.size <= m
    PROVE  /\ Vec!buf_resize(v, m) = V(Resized(v, m), m, v.size)
           /\ VecOK(V(Resized(v, m), m, v.size))
           /\ \A k \in 0..(v.size - 1) : Resized(v, m)[k] = v.cells[k]
<1>2. Vec!buf_resize(v, m) = V(Resized(v, m), m, v.size)
    <2>1. Vec!buf_resize(v, m) = [v EXCEPT !.cells = Resized(v, m), !.capacity = m]
        BY Zenon DEF Vec!buf_resize, Resized
    <2> QED BY <2>1, VecIsV, PutCellsAndCapacity
<1>3. \A k \in 0..(v.size - 1) : Resized(v, m)[k] = v.cells[k]
    BY DEF VecOK, Resized
<1>4. VecOK(V(Resized(v, m), m, v.size))
    <2> DEFINE c == Resized(v, m)
               w == V(c, m, v.size)
    <2>1. w.cells = c /\ w.capacity = m /\ w.size = v.size /\ w = [cells |-> w.cells, capacity |-> w.capacity, size |-> w.size]
        BY DEF V
    <2>2. c \in [0..(m - 1) -> Token \cup {Junk}]
        BY DEF VecOK, Resized
    <2>3. \A k \in 0..(v.size - 1) : c[k] \in Token
        BY <1>3 DEF VecOK
    <2>4. \A k \in v.size..(m - 1) : c[k] = Junk
        BY DEF VecOK, Resized
    <2>5. v.size \in 0..m
        BY DEF VecOK
    <2> HIDE DEF c, w
    <2> QED BY <2>1, <2>2, <2>3, <2>4, <2>5 DEF VecOK, w, c
<1> QED BY <1>2, <1>3, <1>4

LEMMA Reserves ==
    ASSUME NEW v, VecOK(v), v.size = 0, NEW cap \in Nat, NEW ok \in BOOLEAN
    PROVE  VecOK(Vec!vec_reserve(v, cap, ok).vec) /\ Vec!vec_reserve(v, cap, ok).vec.size = 0
<1>1. VecOK(Vec!buf_resize(v, cap)) /\ Vec!buf_resize(v, cap).size = 0
    <2>1. v.size <= cap
        OBVIOUS
    <2>2. Vec!buf_resize(v, cap) = V(Resized(v, cap), cap, v.size) /\ VecOK(V(Resized(v, cap), cap, v.size))
        BY <2>1, Resizes
    <2> QED BY <2>2 DEF V
<1>2. Vec!vec_reserve(v, cap, ok).vec = IF ok THEN Vec!buf_resize(v, cap) ELSE v
    BY DEF Vec!vec_reserve
<1> QED BY <1>1, <1>2

(* A vector with one token more.                                           *)
Pushed(w, v, val) ==
    /\ VecOK(w) /\ w.size = v.size + 1 /\ w.cells[v.size] = val
    /\ \A k \in 0..(v.size - 1) : w.cells[k] = v.cells[k]

LEMMA Pushes ==
    ASSUME NEW v, VecOK(v), NEW val \in Token, NEW ok \in BOOLEAN
    PROVE  LET res == Vec!vec_push_back(v, val, ok)
           IN  \/ res.err = "VEC_SUCCESS" /\ Pushed(res.vec, v, val)
               \/ res.err # "VEC_SUCCESS" /\ res.vec = v
<1> DEFINE m == (IF v.size = 0 THEN 1 ELSE v.size) * 2
           g == Vec!Grown(v)
           res == Vec!vec_push_back(v, val, ok)
<1>1. v.size \in Nat /\ m \in Nat /\ v.size < m
    BY DEF VecOK
<1>2. VecOK(g) /\ g.size = v.size /\ g.capacity > v.size /\ \A k \in 0..(v.size - 1) : g.cells[k] = v.cells[k]
    <2>1. CASE v.size = v.capacity
        <3>1. g = Vec!buf_resize(v, m)
            BY <2>1 DEF Vec!Grown
        <3>2. g = V(Resized(v, m), m, v.size) /\ VecOK(V(Resized(v, m), m, v.size))
              /\ \A k \in 0..(v.size - 1) : Resized(v, m)[k] = v.cells[k]
            <4>1. v.size <= m
                BY <1>1
            <4> HIDE DEF m, g
            <4> QED BY <1>1, <3>1, <4>1, Resizes
        <3> HIDE DEF g, m
        <3>3. g.cells = Resized(v, m) /\ g.capacity = m /\ g.size = v.size
            BY <3>2 DEF V
        <3> QED BY <1>1, <3>2, <3>3
    <2>2. CASE v.size # v.capacity
        <3>1. g = v
            BY <2>2 DEF Vec!Grown
        <3> QED BY <2>2, <3>1 DEF VecOK
    <2> QED BY <2>1, <2>2
<1> HIDE DEF g, m
<1> DEFINE c == [g.cells EXCEPT ![v.size] = val]
           w == V(c, g.capacity, v.size + 1)
<1>3. CASE v.size = v.capacity /\ ~ok
    BY <1>3 DEF Vec!vec_push_back
<1>4. CASE ~(v.size = v.capacity /\ ~ok)
    <2>1. ~Vec!buf_offset_fails(g, v.size)
        BY <1>1, <1>2 DEF Vec!buf_offset_fails, VecOK
    <2>2. res = [vec |-> [g EXCEPT !.cells[v.size] = val, !.size = @ + 1], err |-> "VEC_SUCCESS"]
        BY <1>4, <2>1 DEF Vec!vec_push_back, g
    <2>3. [g EXCEPT !.cells[v.size] = val, !.size = @ + 1] = w
        <3>1. IsV(g)
            BY <1>2, VecIsV
        <3>2. [g EXCEPT !.cells[v.size] = val, !.size = @ + 1] = [g EXCEPT !.cells = c, !.size = g.size + 1]
            OBVIOUS
        <3>3. [g EXCEPT !.cells = c, !.size = g.size + 1] = V(c, g.capacity, g.size + 1)
            <4> HIDE DEF c
            <4> QED BY <3>1, PutCellsAndSize
        <3> QED BY <1>2, <3>2, <3>3
    <2>4. Pushed(w, v, val)
        <3>1. w.cells = c /\ w.capacity = g.capacity /\ w.size = v.size + 1
              /\ w = [cells |-> w.cells, capacity |-> w.capacity, size |-> w.size]
            BY DEF V
        <3>2. /\ g.capacity \in Nat /\ g.cells \in [0..(g.capacity - 1) -> Token \cup {Junk}]
              /\ v.size \in 0..(g.capacity - 1)
            BY <1>1, <1>2 DEF VecOK
        <3>3. /\ c \in [0..(g.capacity - 1) -> Token \cup {Junk}] /\ c[v.size] = val
              /\ \A k \in 0..(g.capacity - 1) : k # v.size => c[k] = g.cells[k]
            BY <3>2
        <3> HIDE DEF c
        <3>4. \A k \in 0..(v.size - 1) : c[k] = v.cells[k] /\ c[k] \in Token
            BY <1>1, <1>2, <3>2, <3>3 DEF VecOK
        <3>5. \A k \in (v.size + 1)..(g.capacity - 1) : c[k] = Junk
            BY <1>1, <1>2, <3>2, <3>3 DEF VecOK
        <3>6. \A k \in 0..(v.size + 1 - 1) : c[k] \in Token
            BY <1>1, <3>3, <3>4
        <3>7. v.size + 1 \in 0..g.capacity
            BY <3>2
        <3> HIDE DEF w
        <3> QED BY <3>1, <3>2, <3>3, <3>4, <3>5, <3>6, <3>7 DEF Pushed, VecOK
    <2> HIDE DEF w
    <2> QED BY <2>2, <2>3, <2>4
<1> QED BY <1>3, <1>4

-----------------------------------------------------------------------------
(* Tokens.                                                                 *)

LEMMA SpanEndIs ==
    ASSUME NEW m, Len(m) \in Nat, NEW p \in 0..Len(m), NEW C
    PROVE  /\ SpanEnd(m, p, C) \in p..Len(m)
           /\ SpanEnd(m, p, C) = Len(m) \/ m[SpanEnd(m, p, C) + 1] \notin C
           /\ \A r \in p..(SpanEnd(m, p, C) - 1) : m[r + 1] \in C
<1> DEFINE Ends(q) == q = Len(m) \/ m[q + 1] \notin C
           T == {q \in p..Len(m) : Ends(q)}
           Is(q) == Ends(q) /\ \A r \in p..(q - 1) : m[r + 1] \in C
<1>1. PICK x \in T : \A y \in T : x <= y
    <2>1. T \in SUBSET Nat /\ T # {}
        <3>1. Len(m) \in T
            OBVIOUS
        <3>2. T \in SUBSET Nat
            OBVIOUS
        <3> QED BY <3>1, <3>2
    <2> HIDE DEF T
    <2> QED BY <2>1, LeastNumber
<1>2. Is(x) /\ x \in p..Len(m)
    <2>1. ASSUME NEW r \in p..(x - 1), m[r + 1] \notin C PROVE FALSE
        <3>1. r \in T
            BY <2>1
        <3> QED BY <1>1, <3>1
    <2> QED BY <1>1, <2>1
<1>3. SpanEnd(m, p, C) = CHOOSE q \in p..Len(m) : Is(q)
    BY DEF SpanEnd
<1> HIDE DEF Is
<1>4. Is(SpanEnd(m, p, C)) /\ SpanEnd(m, p, C) \in p..Len(m)
    BY <1>2, <1>3
<1> QED BY <1>4 DEF Is

LEMMA GetToken ==
    ASSUME NEW m \in Block, NEW p \in 0..Len(m), NEW tok, tok = get_token(m, p)
    PROVE  /\ tok \in Token /\ tok.beg \in p..Len(m) /\ tok.beg + tok.size <= Len(m)
           /\ \A r \in p..(tok.beg - 1) : m[r + 1] \in Delims
           /\ \A r \in tok.beg..(tok.beg + tok.size - 1) : m[r + 1] \in Chars \ Delims
           /\ ~Overrun(tok, m) => TokenIn(m, tok) /\ m[tok.beg + 1] \notin Delims
<1> DEFINE beg == SpanEnd(m, p, Delims)
           end == SpanEnd(m, beg, Chars \ Delims)
<1>1. Len(m) \in Nat
    BY LenProperties DEF Block
<1>2. beg \in p..Len(m) /\ (beg = Len(m) \/ m[beg + 1] \notin Delims) /\ \A r \in p..(beg - 1) : m[r + 1] \in Delims
    BY <1>1, SpanEndIs
<1>3. tok = [beg |-> beg, size |-> end - beg]
    BY DEF get_token
<1> HIDE DEF beg
<1>4. /\ end \in beg..Len(m) /\ (end = Len(m) \/ m[end + 1] \notin Chars \ Delims)
      /\ \A r \in beg..(end - 1) : m[r + 1] \in Chars \ Delims
    <2>1. beg \in 0..Len(m)
        BY <1>1, <1>2
    <2> QED BY <1>1, <2>1, SpanEndIs
<1> HIDE DEF end
<1>5. tok.beg = beg /\ tok.size = end - beg /\ tok \in Token /\ tok.beg + tok.size = end
    BY <1>1, <1>2, <1>3, <1>4 DEF Token
<1>6. ~Overrun(tok, m) => end < Len(m) /\ beg < Len(m)
    BY <1>1, <1>2, <1>4, <1>5 DEF Overrun
<1> QED BY <1>1, <1>2, <1>4, <1>5, <1>6 DEF TokenIn

LEMMA Letters == "nul" \notin Chars /\ Delims \subseteq Chars /\ "low" \in Chars \ Delims /\ "mid" \in Chars \ Delims
BY DEF Chars, Delims

LEMMA BlockCells ==
    ASSUME NEW m, IsBlock(m), text \in Seq(Chars)
    PROVE  /\ Len(m) \in Nat /\ n \in Nat /\ n > 0 /\ Len(m) >= n
           /\ \A k \in (n + 1)..Len(m) : m[k] = "nul"
           /\ \A k \in 1..n : m[k] = text[k] \/ (m[k] = "nul" /\ text[k] \in Delims)
<1>1. m \in Seq(Chars \cup {"nul"})
    BY DEF IsBlock, Block
<1>2. Len(m) \in Nat
    BY <1>1, LenProperties
<1>3. n \in Nat
    BY LenProperties DEF n
<1> QED BY <1>2, <1>3 DEF IsBlock

(* What begins before a '\0' behind the text ends before it.               *)
LEMMA EndsInText ==
    ASSUME NEW m, IsBlock(m), text \in Seq(Chars), NEW b \in Nat, n <= b, b < Len(m), NEW p \in 0..b, NEW C \in SUBSET Chars
    PROVE  SpanEnd(m, p, C) \in p..b
<1>1. Len(m) \in Nat /\ n \in Nat /\ m[b + 1] = "nul"
    BY BlockCells
<1>2. p \in 0..Len(m)
    BY <1>1
<1>3. SpanEnd(m, p, C) \in p..Len(m) /\ \A r \in p..(SpanEnd(m, p, C) - 1) : m[r + 1] \in C
    BY <1>1, <1>2, SpanEndIs
<1>4. m[b + 1] \notin C
    BY <1>1, Letters
<1> QED BY <1>1, <1>3, <1>4

LEMMA NoOverrun ==
    ASSUME NEW m, IsBlock(m), text \in Seq(Chars), NEW b \in Nat, n <= b, b < Len(m), NEW p \in 0..b
    PROVE  ~Overrun(get_token(m, p), m)
<1> DEFINE beg == SpanEnd(m, p, Delims)
           end == SpanEnd(m, beg, Chars \ Delims)
<1>0. Len(m) \in Nat /\ n \in Nat
    BY BlockCells
<1>1. beg \in p..b
    BY Letters, EndsInText
<1> HIDE DEF beg
<1>2. end \in beg..b
    <2>1. beg \in 0..b /\ Chars \ Delims \in SUBSET Chars
        BY <1>0, <1>1
    <2> QED BY <2>1, EndsInText
<1>3. get_token(m, p) = [beg |-> beg, size |-> end - beg]
    BY DEF get_token, beg
<1> HIDE DEF end
<1> QED BY <1>0, <1>1, <1>2, <1>3 DEF Overrun

(* The next token begins a line, behind delimiters.                        *)
LEMMA NextToken ==
    ASSUME NEW m, IsBlock(m), text \in Seq(Chars), NEW p \in 0..Len(m), Unwritten(m, p), p \in 1..n => text[p] \in Delims,
           NEW tok, tok = get_token(m, p)
    PROVE  /\ tok \in Token /\ tok.beg >= p
           /\ \A k \in (p + 1)..tok.beg : k <= n => text[k] \in Delims
           /\ ~Overrun(tok, m) =>
                 /\ TokenIn(m, tok) /\ m[tok.beg + 1] \notin Delims /\ Unwritten(m, tok.beg)
                 /\ tok.beg \in 1..n => text[tok.beg] \in Delims
<1>1. /\ tok \in Token /\ tok.beg \in p..Len(m) /\ \A r \in p..(tok.beg - 1) : m[r + 1] \in Delims
      /\ ~Overrun(tok, m) => TokenIn(m, tok) /\ m[tok.beg + 1] \notin Delims
    <2>1. m \in Block
        BY DEF IsBlock
    <2> QED BY <2>1, GetToken
<1>2. Len(m) \in Nat /\ n \in Nat
    BY BlockCells
<1>3. ASSUME NEW k \in (p + 1)..tok.beg, k <= n PROVE text[k] \in Delims
    <2>1. k - 1 \in p..(tok.beg - 1) /\ k - 1 + 1 = k /\ k \in 1..n /\ k > p
        BY <1>1, <1>2, <1>3
    <2>2. m[k - 1 + 1] \in Delims
        BY <1>1, <2>1
    <2>3. m[k] = text[k]
        BY <2>1 DEF Unwritten
    <2> QED BY <2>1, <2>2, <2>3
<1>4. tok.beg \in 1..n => text[tok.beg] \in Delims
    <2> SUFFICES ASSUME tok.beg \in 1..n PROVE text[tok.beg] \in Delims
        OBVIOUS
    <2>1. tok.beg = p \/ tok.beg \in (p + 1)..tok.beg
        BY <1>1
    <2> QED BY <1>3, <2>1
<1>5. Unwritten(m, tok.beg)
    BY <1>1 DEF Unwritten
<1> QED BY <1>1, <1>3, <1>4, <1>5

(* A token that the tokenizer has found.                                   *)
Found(m, tok) ==
    /\ IsBlock(m) /\ Unwritten(m, tok.beg) /\ TokenIn(m, tok) /\ m[tok.beg + 1] \notin Delims
    /\ tok.beg \in 1..n => text[tok.beg] \in Delims
    /\ m[tok.beg + 1] # "nul"

LEMMA FoundInText ==
    ASSUME NEW m, NEW tok, Found(m, tok), text \in Seq(Chars)
    PROVE  /\ tok.beg \in Nat /\ tok.size \in Nat /\ tok.size > 0 /\ tok.beg + tok.size <= n /\ n \in Nat
           /\ \A k \in (tok.beg + 1)..(tok.beg + tok.size) : text[k] \in Chars \ Delims /\ m[k] = text[k]
           /\ tok.beg + tok.size < n => text[tok.beg + tok.size + 1] \in Delims
<1>1. /\ tok.beg \in Nat /\ tok.size \in Nat /\ n \in Nat /\ Len(m) \in Nat
      /\ \A k \in (n + 1)..Len(m) : m[k] = "nul"
    BY BlockCells DEF Found, TokenIn, Token
<1>2. \A k \in 1..n : text[k] \in Chars
    BY ElementOfSeq DEF n
<1>3. m[tok.beg + 1] \in Chars \ Delims
    <2>1. tok.beg + 1 \in 1..Len(m)
        BY <1>1 DEF Found, TokenIn
    <2>2. m \in Seq(Chars \cup {"nul"})
        BY DEF Found, IsBlock, Block
    <2>3. m[tok.beg + 1] \in Chars \cup {"nul"}
        BY <2>1, <2>2, ElementOfSeq
    <2> QED BY <2>3 DEF Found
<1>4. tok.size > 0
    <2>1. m[tok.beg + tok.size + 1] \notin Chars \ Delims
        BY DEF Found, TokenIn
    <2> QED BY <1>1, <1>3, <2>1
<1>5. \A k \in (tok.beg + 1)..(tok.beg + tok.size) : m[k] \in Chars \ Delims
    <2> SUFFICES ASSUME NEW k \in (tok.beg + 1)..(tok.beg + tok.size) PROVE m[k] \in Chars \ Delims
        OBVIOUS
    <2>1. k - 1 \in tok.beg..(tok.beg + tok.size - 1) /\ k - 1 + 1 = k
        BY <1>1
    <2>2. m[k - 1 + 1] \in Chars \ Delims
        BY <2>1 DEF Found, TokenIn
    <2> QED BY <2>1, <2>2
<1>6. tok.beg + tok.size <= n
    <2> SUFFICES ASSUME tok.beg + tok.size > n PROVE FALSE
        BY <1>1
    <2>1. tok.beg + tok.size \in (n + 1)..Len(m)
        BY <1>1 DEF Found, TokenIn
    <2>2. m[tok.beg + tok.size] = "nul"
        BY <1>1, <2>1
    <2>3. m[tok.beg + tok.size] \in Chars
        BY <1>1, <1>4, <1>5
    <2> QED BY <2>2, <2>3, Letters
<1>7. \A k \in 1..n : k > tok.beg => m[k] = text[k]
    BY DEF Found, Unwritten
<1>8. \A k \in (tok.beg + 1)..(tok.beg + tok.size) : m[k] = text[k]
    BY <1>1, <1>6, <1>7
<1>9. ASSUME tok.beg + tok.size < n PROVE text[tok.beg + tok.size + 1] \in Delims
    <2>1. tok.beg + tok.size + 1 \in 1..n /\ tok.beg + tok.size + 1 > tok.beg
        BY <1>1, <1>9
    <2>2. m[tok.beg + tok.size + 1] = text[tok.beg + tok.size + 1]
        BY <1>7, <2>1
    <2>3. m[tok.beg + tok.size + 1] \notin Chars \ Delims
        BY DEF Found, TokenIn
    <2> QED BY <1>2, <2>1, <2>2, <2>3
<1> QED BY <1>1, <1>4, <1>5, <1>6, <1>8, <1>9

(* It is a line of the text unless it is a title.                          *)
LEMMA FoundIsLine ==
    ASSUME NEW m, NEW tok, Found(m, tok), text \in Seq(Chars)
    PROVE  verify_line(m, tok) <=> tok \in Lines
<1> DEFINE first == tok.beg + 1
           last == tok.beg + tok.size
<1>1. /\ tok.beg \in Nat /\ tok.size \in Nat /\ tok.size > 0 /\ last <= n /\ n \in Nat
      /\ \A k \in first..last : text[k] \in Chars \ Delims /\ m[k] = text[k]
      /\ last < n => text[last + 1] \in Delims
    BY FoundInText
<1>2. tok \in [beg : 0..(n - 1), size : 1..n]
    <2>1. tok \in [beg : Nat, size : Nat]
        BY DEF Found, TokenIn, Token
    <2> QED BY <1>1, <2>1
<1>3. IsLine(first, last)
    <2>1. first > 1 => text[first - 1] \in Delims
        <3>1. first > 1 => tok.beg \in 1..n /\ first - 1 = tok.beg
            BY <1>1
        <3> QED BY <3>1 DEF Found
    <2> QED BY <1>1, <2>1 DEF IsLine
<1>4. verify_line(m, tok) <=> \E r \in first..last : text[r] \in {"low", "mid"}
    <2>1. ASSUME NEW s \in tok.beg..(tok.beg + tok.size - 1), m[s + 1] \in {"low", "mid"} PROVE \E r \in first..last : text[r] \in {"low", "mid"}
        <3>1. s + 1 \in first..last
            BY <1>1
        <3> QED BY <1>1, <2>1, <3>1
    <2>2. ASSUME NEW r \in first..last, text[r] \in {"low", "mid"} PROVE \E s \in tok.beg..(tok.beg + tok.size - 1) : m[s + 1] \in {"low", "mid"}
        <3>1. r - 1 \in tok.beg..(tok.beg + tok.size - 1) /\ r - 1 + 1 = r
            BY <1>1
        <3> QED BY <1>1, <2>2, <3>1
    <2>3. verify_line(m, tok) <=> \E s \in tok.beg..(tok.beg + tok.size - 1) : m[s + 1] \in {"low", "mid"}
        BY Zenon DEF verify_line
    <2> HIDE DEF last, first
    <2> QED BY <2>1, <2>2, <2>3
<1> QED BY <1>1, <1>2, <1>3, <1>4 DEF Lines

(* It is the only one that begins between it and the next token.           *)
LEMMA LinesUpTo ==
    ASSUME NEW m, NEW tok, Found(m, tok), text \in Seq(Chars), NEW q \in Nat, q > tok.beg,
           \A k \in (tok.beg + tok.size + 2)..q : k <= n => text[k] \in Delims
    PROVE  LinesBefore(q) = LinesBefore(tok.beg) \cup (Lines \cap {tok})
<1> DEFINE end == tok.beg + tok.size
<1>1. /\ tok.beg \in Nat /\ tok.size \in Nat /\ tok.size > 0 /\ end <= n /\ n \in Nat
      /\ \A k \in (tok.beg + 1)..end : text[k] \in Chars \ Delims
      /\ end < n => text[end + 1] \in Delims
    BY FoundInText
<1>2. ASSUME NEW line \in Lines, line.beg < q PROVE line.beg < tok.beg \/ line = tok
    <2>1. /\ line \in [beg : 0..(n - 1), size : 1..n] /\ line.beg + line.size <= n
          /\ \A r \in (line.beg + 1)..(line.beg + line.size) : text[r] \notin Delims
          /\ line.beg + 1 > 1 => text[line.beg + 1 - 1] \in Delims
          /\ line.beg + line.size < n => text[line.beg + line.size + 1] \in Delims
        BY DEF Lines, IsLine
    <2>2. line.beg \in Nat /\ line.size \in Nat /\ line.size > 0
        BY <1>1, <2>1
    <2>3. CASE line.beg = tok.beg
        <3>1. ~(line.size < tok.size)
            <4> SUFFICES ASSUME line.size < tok.size PROVE FALSE
                OBVIOUS
            <4>1. line.beg + line.size + 1 \in (tok.beg + 1)..end /\ line.beg + line.size < n
                BY <1>1, <2>2, <2>3
            <4> QED BY <1>1, <2>1, <4>1
        <3>2. ~(tok.size < line.size)
            <4> SUFFICES ASSUME tok.size < line.size PROVE FALSE
                OBVIOUS
            <4>1. end + 1 \in (line.beg + 1)..(line.beg + line.size) /\ end < n
                BY <1>1, <2>1, <2>2, <2>3
            <4> QED BY <1>1, <2>1, <4>1
        <3>3. line.size = tok.size
            BY <1>1, <2>2, <3>1, <3>2
        <3>4. tok \in [beg : Nat, size : Nat]
            BY DEF Found, TokenIn, Token
        <3> QED BY <2>1, <2>3, <3>3, <3>4
    <2>4. CASE line.beg > tok.beg
        <3>1. text[line.beg] \in Delims
            BY <2>1, <2>2, <2>4, <1>1
        <3>2. line.beg \notin (tok.beg + 1)..end
            BY <1>1, <3>1
        <3>3. line.beg + 1 \in (tok.beg + tok.size + 2)..q /\ line.beg + 1 <= n
            <4>1. line.beg > end
                BY <1>1, <2>2, <2>4, <3>2
            <4>2. line.beg + 1 <= n
                BY <1>1, <2>1
            <4> QED BY <1>1, <1>2, <2>2, <4>1, <4>2
        <3>4. text[line.beg + 1] \in Delims
            BY <3>3
        <3>5. line.beg + 1 \in (line.beg + 1)..(line.beg + line.size)
            BY <2>2
        <3> QED BY <2>1, <3>4, <3>5
    <2> QED BY <1>1, <2>2, <2>3, <2>4
<1>3. ASSUME NEW line \in Lines, line.beg < tok.beg PROVE line.beg < q
    <2>1. line.beg \in Int
        BY DEF Lines
    <2> QED BY <1>1, <1>3, <2>1
<1> QED BY <1>2, <1>3 DEF LinesBefore
(* Nothing begins before the first line.                                   *)
LEMMA NoLineBefore ==
    ASSUME text \in Seq(Chars), NEW q \in Nat, \A k \in 1..q : k <= n => text[k] \in Delims
    PROVE  LinesBefore(q) = {}
<1> SUFFICES ASSUME NEW line \in Lines, line.beg < q PROVE FALSE
    BY DEF LinesBefore
<1>1. n \in Nat
    BY LenProperties DEF n
<1>2. /\ line \in [beg : 0..(n - 1), size : 1..n] /\ line.beg + line.size <= n
      /\ \A r \in (line.beg + 1)..(line.beg + line.size) : text[r] \notin Delims
    BY DEF Lines, IsLine
<1>3. line.beg + 1 \in 1..q /\ line.beg + 1 <= n /\ line.beg + 1 \in (line.beg + 1)..(line.beg + line.size)
    BY <1>1, <1>2
<1> QED BY <1>2, <1>3

(* Each begins before the end of the text.                                 *)
LEMMA AllLinesBefore ==
    ASSUME text \in Seq(Chars), NEW q \in Nat, q >= n
    PROVE  LinesBefore(q) = Lines
<1>1. n \in Nat
    BY LenProperties DEF n
<1>2. \A line \in Lines : line.beg \in 0..(n - 1)
    BY DEF Lines
<1> QED BY <1>1, <1>2 DEF LinesBefore

(* What the tokenizer leaves of the block when it ends a line.             *)
LEMMA EndPut ==
    ASSUME NEW m, NEW tok, Found(m, tok), text \in Seq(Chars),
           NEW mm, mm = [m EXCEPT ![tok.beg + tok.size + 1] = "nul"]
    PROVE  /\ IsBlock(mm) /\ Len(mm) = Len(m) /\ Unwritten(mm, tok.beg + tok.size + 1)
           /\ verify_line(mm, tok) <=> verify_line(m, tok)
<1> DEFINE e == tok.beg + tok.size + 1
<1>1. /\ tok.beg \in Nat /\ tok.size \in Nat /\ tok.beg + tok.size <= n /\ n \in Nat
      /\ tok.beg + tok.size < n => text[tok.beg + tok.size + 1] \in Delims
    BY FoundInText
<1>2. /\ m \in Seq(Chars \cup {"nul"}) /\ Len(m) \in Nat /\ Len(m) >= n /\ n > 0 /\ e \in 1..Len(m)
      /\ \A k \in (n + 1)..Len(m) : m[k] = "nul"
      /\ \A k \in 1..n : m[k] = text[k] \/ (m[k] = "nul" /\ text[k] \in Delims)
      /\ \A k \in 1..n : k > tok.beg => m[k] = text[k]
    <2>1. IsBlock(m) /\ tok.beg + tok.size < Len(m) /\ Unwritten(m, tok.beg)
        BY DEF Found, TokenIn
    <2>2. Len(m) \in Nat
        BY <2>1, BlockCells
    <2> QED BY <1>1, <2>1, <2>2 DEF IsBlock, Block, Unwritten
<1>3. mm \in Seq(Chars \cup {"nul"}) /\ Len(mm) = Len(m)
      /\ mm[e] = "nul" /\ \A k \in 1..Len(m) : k # e => mm[k] = m[k]
    <2>1. mm = [m EXCEPT ![e] = "nul"]
        OBVIOUS
    <2> HIDE DEF e
    <2>2. "nul" \in Chars \cup {"nul"}
        OBVIOUS
    <2>3. mm \in Seq(Chars \cup {"nul"}) /\ Len(mm) = Len(m)
        <3>1. /\ [m EXCEPT ![e] = "nul"] \in Seq(Chars \cup {"nul"})
              /\ Len([m EXCEPT ![e] = "nul"]) = Len(m)
            BY ONLY <1>2, <2>2, ExceptSeq
        <3> QED BY <2>1, <3>1
    <2>4. m \in [1..Len(m) -> Chars \cup {"nul"}]
        BY <1>2, LenProperties
    <2> QED BY <1>2, <2>1, <2>3, <2>4
<1>4. IsBlock(mm)
    <2>1. \A k \in 1..n : mm[k] = text[k] \/ (mm[k] = "nul" /\ text[k] \in Delims)
        BY <1>1, <1>2, <1>3
    <2>2. \A k \in (n + 1)..Len(mm) : mm[k] = "nul"
        BY <1>1, <1>2, <1>3
    <2> QED BY <1>2, <1>3, <2>1, <2>2 DEF IsBlock, Block
<1>5. Unwritten(mm, e)
    BY <1>1, <1>2, <1>3 DEF Unwritten
<1>6. \A s \in tok.beg..(tok.beg + tok.size - 1) : mm[s + 1] = m[s + 1]
    BY <1>1, <1>2, <1>3
<1>7. verify_line(mm, tok) <=> verify_line(m, tok)
    BY <1>6 DEF verify_line
<1> QED BY <1>3, <1>4, <1>5, <1>7
-----------------------------------------------------------------------------
(* Sorting.                                                                *)

LEMMA OrderIsOneToOne ==
    ASSUME NEW k \in Nat, NEW order \in [0..(k - 1) -> 0..(k - 1)], \A a \in 0..(k - 1) : \E b \in 0..(k - 1) : order[b] = a
    PROVE  \A a, b \in 0..(k - 1) : a # b => order[a] # order[b]
<1> DEFINE K == 0..(k - 1)
<1>1. IsFiniteSet(K)
    BY FS_Interval
<1>2. order \in Surjection(K, K)
    BY DEF Surjection
<1> HIDE DEF K
<1>3. order \in Injection(K, K)
    BY <1>1, <1>2, FS_SurjSameCardinalityImpliesInj
<1> QED BY <1>3 DEF Injection, IsInjective, K

Permuted(v, order) == [v EXCEPT !.cells = [k \in DOMAIN @ |-> IF k < v.size THEN @[order[k]] ELSE @[k]]]

(* The tokens of w are those of v, in that order.                          *)
CellsAre(w, v, order) == \A k \in 0..(v.size - 1) : w.cells[k] = v.cells[order[k]]

LEMMA Permutes ==
    ASSUME NEW v, VecOK(v), TokensIn(v), NEW order \in [0..(v.size - 1) -> 0..(v.size - 1)],
           \A a \in 0..(v.size - 1) : \E b \in 0..(v.size - 1) : order[b] = a,
           NEW w, w = Permuted(v, order)
    PROVE  /\ VecOK(w) /\ w.size = v.size /\ TokensIn(w)
           /\ \A L : TokensAre(v, L) => TokensAre(w, L)
           /\ CellsAre(w, v, order)
<1> DEFINE c == [k \in DOMAIN v.cells |-> IF k < v.size THEN v.cells[order[k]] ELSE v.cells[k]]
<1>1. /\ v.capacity \in Nat /\ v.size \in 0..v.capacity /\ v.size \in Nat
      /\ v.cells \in [0..(v.capacity - 1) -> Token \cup {Junk}]
      /\ \A k \in 0..(v.size - 1) : v.cells[k] \in Token
      /\ \A k \in v.size..(v.capacity - 1) : v.cells[k] = Junk
    BY DEF VecOK
<1>2. w = V(c, v.capacity, v.size)
    <2>1. w = [v EXCEPT !.cells = c]
        BY DEF Permuted
    <2> HIDE DEF c
    <2> QED BY <2>1, VecIsV DEF IsV, V
<1>3. /\ \A k \in 0..(v.size - 1) : c[k] = v.cells[order[k]] /\ order[k] \in 0..(v.size - 1)
      /\ \A k \in v.size..(v.capacity - 1) : c[k] = v.cells[k]
      /\ DOMAIN c = 0..(v.capacity - 1)
    <2>1. DOMAIN v.cells = 0..(v.capacity - 1)
        BY <1>1
    <2>2. \A k \in 0..(v.size - 1) : order[k] \in 0..(v.size - 1) /\ k < v.size /\ k \in 0..(v.capacity - 1)
        <3>1. \A k \in 0..(v.size - 1) : k < v.size /\ k \in 0..(v.capacity - 1)
            BY ONLY <1>1
        <3>2. \A k \in 0..(v.size - 1) : order[k] \in 0..(v.size - 1)
            OBVIOUS
        <3> QED BY ONLY <3>1, <3>2
    <2>3. \A k \in v.size..(v.capacity - 1) : ~(k < v.size) /\ k \in 0..(v.capacity - 1)
        BY <1>1
    <2>4. DOMAIN c = DOMAIN v.cells
        OBVIOUS
    <2>5. \A k \in DOMAIN v.cells : c[k] = IF k < v.size THEN v.cells[order[k]] ELSE v.cells[k]
        OBVIOUS
    <2> HIDE DEF c
    <2> QED BY <2>1, <2>2, <2>3, <2>4, <2>5
<1>4. c \in [0..(v.capacity - 1) -> Token \cup {Junk}]
    <2>1. \A k \in 0..(v.capacity - 1) : c[k] \in Token \cup {Junk}
        <3> SUFFICES ASSUME NEW k \in 0..(v.capacity - 1) PROVE c[k] \in Token \cup {Junk}
            OBVIOUS
        <3>1. k \in 0..(v.size - 1) \/ k \in v.size..(v.capacity - 1)
            BY <1>1
        <3> HIDE DEF c
        <3> QED BY <1>1, <1>3, <3>1
    <2> QED BY <1>3, <2>1
<1> HIDE DEF c
<1>5. w.cells = c /\ w.capacity = v.capacity /\ w.size = v.size
      /\ w = [cells |-> w.cells, capacity |-> w.capacity, size |-> w.size]
    BY ONLY <1>2 DEF V
<1>6. VecOK(w)
    <2>1. \A k \in 0..(v.size - 1) : c[k] \in Token
        BY <1>1, <1>3
    <2>2. \A k \in v.size..(v.capacity - 1) : c[k] = Junk
        BY <1>1, <1>3
    <2> QED BY ONLY <1>1, <1>4, <1>5, <2>1, <2>2 DEF VecOK
<1>7. \A a, b \in 0..(v.size - 1) : a # b => order[a] # order[b]
    BY <1>1, OrderIsOneToOne
<1>8. TokensIn(w)
    <2>1. /\ v.size <= n
          /\ \A k \in 0..(v.size - 1) : v.cells[k].beg + v.cells[k].size <= n
          /\ \A k, l \in 0..(v.size - 1) : k # l => v.cells[k] # v.cells[l]
        BY DEF TokensIn
    <2>2. \A k \in 0..(v.size - 1) : c[k].beg + c[k].size <= n
        BY ONLY <1>3, <2>1
    <2>3. \A k, l \in 0..(v.size - 1) : k # l => c[k] # c[l]
        BY ONLY <1>3, <1>7, <2>1
    <2> QED BY ONLY <1>5, <2>1, <2>2, <2>3 DEF TokensIn
<1>9. ASSUME NEW L, TokensAre(v, L) PROVE TokensAre(w, L)
    <2>1. \A k \in 0..(v.size - 1) : c[k] \in L
        BY <1>3, <1>9 DEF TokensAre
    <2>2. ASSUME NEW tok \in L PROVE \E k \in 0..(v.size - 1) : c[k] = tok
        <3>1. PICK k \in 0..(v.size - 1) : v.cells[k] = tok
            BY <1>9 DEF TokensAre
        <3>2. PICK b \in 0..(v.size - 1) : order[b] = k
            OBVIOUS
        <3> QED BY <1>3, <3>1, <3>2
    <2> QED BY <1>5, <2>1, <2>2 DEF TokensAre
<1>10. CellsAre(w, v, order)
    BY ONLY <1>3, <1>5 DEF CellsAre
<1> QED BY <1>5, <1>6, <1>8, <1>9, <1>10

-----------------------------------------------------------------------------
(* The comparators.                                                        *)

(* A loop with a variant, that gives a value where it stops.               *)
IsLoop(S, Stop, next, variant, bound) ==
    /\ \A x \in S : variant[x] \in 0..(bound - 1)
    /\ \A x \in S \ Stop : next[x] \in S /\ variant[next[x]] < variant[x]

Terminating(S, Stop, next) == \E v, b : b \in Nat /\ IsLoop(S, Stop, next, v, b)

Loop(f, S, Stop, val, next) == f = [x \in S |-> IF x \in Stop THEN val[x] ELSE f[next[x]]]

(* It defines a function.                                                  *)
LEMMA LoopEnds ==
    ASSUME NEW S, NEW Stop, NEW val, NEW next, Terminating(S, Stop, next)
    PROVE  \E f : Loop(f, S, Stop, val, next)
<1>0. PICK variant, bound : bound \in Nat /\ IsLoop(S, Stop, next, variant, bound)
    BY DEF Terminating
<1> DEFINE Body(f, x) == IF x \in Stop THEN val[x] ELSE f[next[x]]
           Right(f, i) == \A x \in S : variant[x] < i => f[x] = Body(f, x)
           T == {i \in Nat : ~ \E f : f = [x \in S |-> f[x]] /\ Right(f, i)}
<1>1. T = {}
    <2> SUFFICES ASSUME T # {} PROVE FALSE
        OBVIOUS
    <2>1. PICK i \in T : \A j \in T : i <= j
        <3>1. T \in SUBSET Nat
            OBVIOUS
        <3> HIDE DEF T
        <3> QED BY <3>1, LeastNumber
    <2>2. i \in Nat /\ ~ \E f : f = [x \in S |-> f[x]] /\ Right(f, i)
        BY <2>1
    <2>3. i # 0
        <3> SUFFICES ASSUME i = 0 PROVE FALSE
            OBVIOUS
        <3> DEFINE f == [x \in S |-> val[x]]
        <3>1. Right(f, i)
            BY <1>0 DEF IsLoop
        <3>2. f = [x \in S |-> f[x]]
            OBVIOUS
        <3> QED BY <2>2, <3>1, <3>2
    <2>4. i - 1 \in Nat /\ i - 1 \notin T
        BY <2>1, <2>2, <2>3
    <2>5. PICK f : f = [x \in S |-> f[x]] /\ Right(f, i - 1)
        BY <2>4
    <2> DEFINE g == [x \in S |-> Body(f, x)]
    <2>6. ASSUME NEW x \in S, variant[x] < i PROVE g[x] = Body(g, x)
        <3>1. CASE x \in Stop
            BY <3>1
        <3>2. CASE x \notin Stop
            <4>1. next[x] \in S /\ variant[next[x]] < i - 1
                BY <1>0, <2>2, <2>6, <3>2 DEF IsLoop
            <4>2. f[next[x]] = Body(f, next[x]) /\ g[next[x]] = Body(f, next[x])
                BY <2>5, <4>1
            <4> QED BY <3>2, <4>2
        <3> QED BY <3>1, <3>2
    <2>7. Right(g, i)
        BY <2>6
    <2>8. g = [x \in S |-> g[x]]
        OBVIOUS
    <2> QED BY <2>2, <2>7, <2>8
<1>2. \A i \in Nat : \E f : f = [x \in S |-> f[x]] /\ Right(f, i)
    BY <1>1
<1>3. PICK f : f = [x \in S |-> f[x]] /\ Right(f, bound)
    BY <1>0, <1>2
<1>4. \A x \in S : f[x] = Body(f, x)
    BY <1>0, <1>3 DEF IsLoop
<1>5. f = [x \in S |-> Body(f, x)]
    BY <1>3, <1>4
<1> QED BY <1>5 DEF Loop

(* From G it stays in G, and gives a value in R where it stops.            *)
Leads(G, R, Stop, val, next) ==
    /\ \A x \in G \cap Stop : val[x] \in R
    /\ \A x \in G \ Stop : next[x] \in G

LEMMA LoopGives ==
    ASSUME NEW S, NEW Stop, NEW val, NEW next, Terminating(S, Stop, next),
           NEW f, Loop(f, S, Stop, val, next), NEW G, G \subseteq S, NEW R, Leads(G, R, Stop, val, next)
    PROVE  \A x \in G : f[x] \in R
<1>0. PICK variant, bound : bound \in Nat /\ IsLoop(S, Stop, next, variant, bound)
    BY DEF Terminating
<1> DEFINE T == {i \in Nat : \E x \in G : variant[x] = i /\ f[x] \notin R}
<1>1. \A x \in S : f[x] = IF x \in Stop THEN val[x] ELSE f[next[x]]
    BY DEF Loop
<1>2. T = {}
    <2> SUFFICES ASSUME T # {} PROVE FALSE
        OBVIOUS
    <2>1. PICK i \in T : \A j \in T : i <= j
        <3>1. T \in SUBSET Nat
            OBVIOUS
        <3> HIDE DEF T
        <3> QED BY <3>1, LeastNumber
    <2>2. PICK x \in G : variant[x] = i /\ f[x] \notin R
        BY <2>1
    <2>3. x \notin Stop /\ next[x] \in G /\ f[next[x]] \notin R
        BY <1>1, <2>2 DEF Leads
    <2>4. variant[next[x]] \in Nat /\ variant[next[x]] < i
        BY <1>0, <2>2, <2>3 DEF IsLoop
    <2> QED BY <2>1, <2>3, <2>4
<1> QED BY <1>0, <1>2 DEF IsLoop

(* The loop of custom_line_comparator, from each two places: where it      *)
(* stops, what it returns there, and where it goes on.                     *)
FStop(m, l, r) ==
    LET min_sz == IF l.size < r.size THEN l.size ELSE r.size
    IN  {at \in Nat \X Nat : ~Same(m, at[1], at[2]) \/ at[1] + 1 - l.beg >= min_sz \/ at[2] + 1 - r.beg >= min_sz}

FVal(m) ==
    [at \in Nat \X Nat |->
        IF ~Same(m, at[1], at[2]) THEN Compared(m, at[1], at[2]) ELSE Compared(m, at[1] + 1, at[2] + 1)]

FNext(m) == [at \in Nat \X Nat |-> <<Passed(m, at[1] + 1), Passed(m, at[2] + 1)>>]

LEMMA PassedIs ==
    ASSUME NEW m, NEW p \in Nat
    PROVE  /\ Passed(m, p) \in Nat /\ Passed(m, p) >= p
           /\ Char(m, p) # "cap" => Passed(m, p) = p
BY DEF Passed, isgraph

LEMMA SameInside ==
    ASSUME NEW m, Len(m) \in Nat, NEW p, NEW q, Same(m, p, q)
    PROVE  p \in 0..(Len(m) - 1) /\ q \in 0..(Len(m) - 1)
BY DEF Same, Char

LEMMA ForwardIsLoop ==
    ASSUME NEW m, Len(m) \in Nat, NEW l, NEW r
    PROVE  Terminating(Nat \X Nat, FStop(m, l, r), FNext(m))
<1> DEFINE S == Nat \X Nat
           variant == [at \in S |-> IF at[1] <= Len(m) THEN Len(m) - at[1] ELSE 0]
<1>1. \A at \in S : variant[at] \in 0..(Len(m) + 1 - 1)
    OBVIOUS
<1>2. ASSUME NEW at \in S \ FStop(m, l, r) PROVE FNext(m)[at] \in S /\ variant[FNext(m)[at]] < variant[at]
    <2>1. Same(m, at[1], at[2])
        BY <1>2 DEF FStop
    <2>2. at[1] \in 0..(Len(m) - 1) /\ at[2] \in 0..(Len(m) - 1)
        BY <2>1, SameInside
    <2> DEFINE to == <<Passed(m, at[1] + 1), Passed(m, at[2] + 1)>>
    <2>3. /\ Passed(m, at[1] + 1) \in Nat /\ Passed(m, at[1] + 1) >= at[1] + 1
          /\ Passed(m, at[2] + 1) \in Nat
        <3>1. at[1] + 1 \in Nat /\ at[2] + 1 \in Nat
            BY <2>2
        <3> QED BY <3>1, PassedIs
    <2>4. FNext(m)[at] = to /\ to \in S /\ to[1] = Passed(m, at[1] + 1)
        BY <2>3 DEF FNext
    <2> HIDE DEF to
    <2> QED BY <2>2, <2>3, <2>4
<1> HIDE DEF variant
<1>3. IsLoop(S, FStop(m, l, r), FNext(m), variant, Len(m) + 1)
    BY <1>1, <1>2 DEF IsLoop
<1>4. Len(m) + 1 \in Nat
    OBVIOUS
<1> QED BY <1>3, <1>4 DEF Terminating

(* What a comparison gives, shown along the loop.                          *)
LEMMA Forward ==
    ASSUME NEW m, Len(m) \in Nat, NEW l, NEW r, NEW G \in SUBSET (Nat \X Nat), NEW R,
           <<Passed(m, l.beg), Passed(m, r.beg)>> \in G,
           Leads(G, R, FStop(m, l, r), FVal(m), FNext(m))
    PROVE  custom_line_comparator(m, l, r) \in R
<1> DEFINE S == Nat \X Nat
           min_sz == IF l.size < r.size THEN l.size ELSE r.size
           Body(f, p, q) ==
               IF ~Same(m, p, q) THEN Compared(m, p, q)
               ELSE IF p + 1 - l.beg >= min_sz \/ q + 1 - r.beg >= min_sz THEN Compared(m, p + 1, q + 1)
               ELSE f[<<Passed(m, p + 1), Passed(m, q + 1)>>]
           Eq(f) == f = [at \in S |-> Body(f, at[1], at[2])]
           F == CHOOSE f : Eq(f)
<1>1. custom_line_comparator(m, l, r) = F[<<Passed(m, l.beg), Passed(m, r.beg)>>]
    BY DEF custom_line_comparator, Forwards
<1>2. ASSUME NEW f PROVE Eq(f) <=> Loop(f, S, FStop(m, l, r), FVal(m), FNext(m))
    <2>1. \A at \in S : Body(f, at[1], at[2]) = IF at \in FStop(m, l, r) THEN FVal(m)[at] ELSE f[FNext(m)[at]]
       BY DEF FStop, FVal, FNext
    <2> HIDE DEF Body
    <2> QED BY <2>1, Zenon DEF Loop
<1>3. Terminating(S, FStop(m, l, r), FNext(m))
    BY ForwardIsLoop
<1> HIDE DEF Eq, S
<1>5. \E f : Loop(f, S, FStop(m, l, r), FVal(m), FNext(m))
    BY <1>3, LoopEnds
<1>6. Loop(F, S, FStop(m, l, r), FVal(m), FNext(m))
    <2>1. Eq(F)
        BY <1>2, <1>5
    <2> QED BY <1>2, <2>1
<1> HIDE DEF F
<1>7. \A x \in G : F[x] \in R
    <2>1. G \subseteq S
        BY DEF S
    <2>2. Leads(G, R, FStop(m, l, r), FVal(m), FNext(m))
        OBVIOUS
    <2> QED BY ONLY <1>3, <1>6, <2>1, <2>2, LoopGives
<1> QED BY <1>1, <1>7

(* The same of custom_reverse_line_comparator.                             *)
BStop(m, l, r) == {at \in Int \X Int : ~Same(m, at[1], at[2]) \/ at[1] - 1 - l.beg = 0 \/ at[2] - 1 - r.beg = 0}

BVal(m) ==
    [at \in Int \X Int |->
        IF ~Same(m, at[1], at[2]) THEN Compared(m, at[1], at[2]) ELSE Compared(m, at[1] - 1, at[2] - 1)]

BNext(m) == [at \in Int \X Int |-> <<Back(m, at[1] - 1), Back(m, at[2] - 1)>>]

LEMMA BackIs ==
    ASSUME NEW m, Len(m) \in Nat, NEW p \in Int, p >= -1
    PROVE  /\ Back(m, p) \in -1..p
           /\ Char(m, p) \notin isprint => Back(m, p) = p
<1> DEFINE T == {k \in 0..(p + 1) : Char(m, p - k) \notin isprint}
           Is(q) == Char(m, q) \notin isprint /\ \A r \in (q + 1)..p : Char(m, r) \in isprint
<1>1. PICK x \in T : \A y \in T : x <= y
    <2>1. p + 1 \in T
        <3>1. p - (p + 1) = -1 /\ p + 1 \in 0..(p + 1)
            OBVIOUS
        <3>2. Char(m, -1) \notin isprint
            BY DEF Char, isprint
        <3> QED BY <3>1, <3>2
    <2>2. T \in SUBSET Nat
        OBVIOUS
    <2> HIDE DEF T
    <2> QED BY <2>1, <2>2, LeastNumber
<1>2. p - x \in -1..p /\ Is(p - x)
    <2>1. ASSUME NEW r \in (p - x + 1)..p, Char(m, r) \notin isprint PROVE FALSE
        <3>1. p - r \in 0..(p + 1) /\ p - (p - r) = r /\ p - r < x
            BY <1>1
        <3>2. p - r \in T
            BY <2>1, <3>1
        <3> QED BY <1>1, <3>1, <3>2
    <2> QED BY <1>1, <2>1
<1>3. Back(m, p) = CHOOSE q \in -1..p : Is(q)
    BY DEF Back
<1> HIDE DEF Is
<1>4. Back(m, p) \in -1..p /\ Is(Back(m, p))
    BY <1>2, <1>3
<1>5. ASSUME Char(m, p) \notin isprint PROVE Back(m, p) = p
    <2> SUFFICES ASSUME Back(m, p) # p PROVE FALSE
        OBVIOUS
    <2>1. p \in (Back(m, p) + 1)..p
        BY <1>4
    <2> QED BY <1>4, <1>5, <2>1 DEF Is
<1> QED BY <1>4, <1>5

LEMMA BackwardIsLoop ==
    ASSUME NEW m, Len(m) \in Nat, NEW l, NEW r
    PROVE  Terminating(Int \X Int, BStop(m, l, r), BNext(m))
<1> DEFINE S == Int \X Int
           variant == [at \in S |-> IF at[1] \in 0..(Len(m) - 1) THEN at[1] + 1 ELSE 0]
<1>1. \A at \in S : variant[at] \in 0..(Len(m) + 1 - 1)
    OBVIOUS
<1>2. ASSUME NEW at \in S \ BStop(m, l, r) PROVE BNext(m)[at] \in S /\ variant[BNext(m)[at]] < variant[at]
    <2>1. Same(m, at[1], at[2])
        BY <1>2 DEF BStop
    <2>2. at[1] \in 0..(Len(m) - 1) /\ at[2] \in 0..(Len(m) - 1)
        BY <2>1, SameInside
    <2> DEFINE to == <<Back(m, at[1] - 1), Back(m, at[2] - 1)>>
    <2>3. Back(m, at[1] - 1) \in -1..(at[1] - 1) /\ Back(m, at[2] - 1) \in Int
        <3>1. at[1] - 1 \in Int /\ at[1] - 1 >= -1 /\ at[2] - 1 \in Int /\ at[2] - 1 >= -1
            BY <2>2
        <3>2. Back(m, at[1] - 1) \in -1..(at[1] - 1)
            BY <3>1, BackIs
        <3>3. Back(m, at[2] - 1) \in -1..(at[2] - 1)
            BY <3>1, BackIs
        <3> QED BY <3>2, <3>3
    <2>4. BNext(m)[at] = to /\ to \in S /\ to[1] = Back(m, at[1] - 1)
        BY <2>3 DEF BNext
    <2> HIDE DEF to
    <2> QED BY <2>2, <2>3, <2>4
<1> HIDE DEF variant
<1>3. IsLoop(S, BStop(m, l, r), BNext(m), variant, Len(m) + 1)
    BY <1>1, <1>2 DEF IsLoop
<1>4. Len(m) + 1 \in Nat
    OBVIOUS
<1> QED BY <1>3, <1>4 DEF Terminating

LEMMA Backward ==
    ASSUME NEW m, Len(m) \in Nat, NEW l, NEW r, NEW G \in SUBSET (Int \X Int), NEW R,
           <<Back(m, l.beg + l.size), Back(m, r.beg + r.size)>> \in G,
           Leads(G, R, BStop(m, l, r), BVal(m), BNext(m))
    PROVE  custom_reverse_line_comparator(m, l, r) \in R
<1> DEFINE S == Int \X Int
           Body(f, p, q) ==
               IF ~Same(m, p, q) THEN Compared(m, p, q)
               ELSE IF p - 1 - l.beg = 0 \/ q - 1 - r.beg = 0 THEN Compared(m, p - 1, q - 1)
               ELSE f[<<Back(m, p - 1), Back(m, q - 1)>>]
           Eq(f) == f = [at \in S |-> Body(f, at[1], at[2])]
           F == CHOOSE f : Eq(f)
<1>1. custom_reverse_line_comparator(m, l, r) = F[<<Back(m, l.beg + l.size), Back(m, r.beg + r.size)>>]
    BY DEF custom_reverse_line_comparator, Backwards
<1>2. ASSUME NEW f PROVE Eq(f) <=> Loop(f, S, BStop(m, l, r), BVal(m), BNext(m))
    <2>1. \A at \in S : Body(f, at[1], at[2]) = IF at \in BStop(m, l, r) THEN BVal(m)[at] ELSE f[BNext(m)[at]]
       BY DEF BStop, BVal, BNext
    <2> HIDE DEF Body
    <2> QED BY <2>1, Zenon DEF Loop
<1>3. Terminating(S, BStop(m, l, r), BNext(m))
    BY BackwardIsLoop
<1> HIDE DEF Eq, S
<1>5. \E f : Loop(f, S, BStop(m, l, r), BVal(m), BNext(m))
    BY <1>3, LoopEnds
<1>6. Loop(F, S, BStop(m, l, r), BVal(m), BNext(m))
    <2>1. Eq(F)
        BY <1>2, <1>5
    <2> QED BY <1>2, <2>1
<1> HIDE DEF F
<1>7. \A x \in G : F[x] \in R
    <2>1. G \subseteq S
        BY DEF S
    <2>2. Leads(G, R, BStop(m, l, r), BVal(m), BNext(m))
        OBVIOUS
    <2> QED BY ONLY <1>3, <1>6, <2>1, <2>2, LoopGives
<1> QED BY <1>1, <1>7

(* A line that the tokenizer has ended, with room behind its '\0'.         *)
Ended(m, tok) ==
    /\ tok \in Token /\ tok.size > 0 /\ tok.beg + tok.size + 1 < Len(m)
    /\ \A r \in tok.beg..(tok.beg + tok.size - 1) : m[r + 1] = text[r + 1] /\ m[r + 1] \in Chars \ Delims
    /\ m[tok.beg + tok.size + 1] = "nul"

LEMMA EndedChars ==
    ASSUME NEW m, m \in Block, NEW tok, Ended(m, tok)
    PROVE  /\ Len(m) \in Nat /\ tok.beg \in Nat /\ tok.size \in Nat /\ tok.size > 0
           /\ tok.beg + tok.size + 1 < Len(m)
           /\ Char(m, tok.beg + tok.size) = "nul"
           /\ \A p \in 0..(Len(m) - 1) : Char(m, p) = m[p + 1] /\ Char(m, p) # "outside"
<1>1. Len(m) \in Nat /\ m \in Seq(Chars \cup {"nul"})
    BY LenProperties DEF Block
<1>2. tok.beg \in Nat /\ tok.size \in Nat /\ tok.size > 0 /\ tok.beg + tok.size + 1 < Len(m) /\ m[tok.beg + tok.size + 1] = "nul"
    BY DEF Ended, Token
<1>3. ASSUME NEW p \in 0..(Len(m) - 1) PROVE Char(m, p) = m[p + 1] /\ Char(m, p) # "outside"
    <2>1. p + 1 \in 1..Len(m)
        BY <1>1
    <2>2. m[p + 1] \in Chars \cup {"nul"}
        BY <1>1, <2>1, ElementOfSeq
    <2> QED BY <2>2 DEF Char, Chars, Delims
<1>4. tok.beg + tok.size \in 0..(Len(m) - 1)
    BY <1>1, <1>2
<1> QED BY <1>1, <1>2, <1>3, <1>4

(* The forward comparator stays in the block: it gets at most one place    *)
(* behind the '\0' of a line.                                              *)
LEMMA PassedInLine ==
    ASSUME NEW m, m \in Block, NEW tok, Ended(m, tok), NEW p \in tok.beg..(tok.beg + tok.size)
    PROVE  Passed(m, p) \in tok.beg..(tok.beg + tok.size)
<1>1. /\ tok.beg \in Nat /\ tok.size \in Nat /\ Char(m, tok.beg + tok.size) = "nul"
    BY EndedChars
<1>2. CASE p = tok.beg + tok.size
    BY <1>1, <1>2 DEF Passed, isgraph
<1>3. CASE p + 1 = tok.beg + tok.size
    BY <1>1, <1>3 DEF Passed, isgraph, isspace
<1>4. CASE p + 1 < tok.beg + tok.size
    BY <1>1, <1>4 DEF Passed
<1> QED BY <1>1, <1>2, <1>3, <1>4

LEMMA ForwardInside ==
    ASSUME NEW m, m \in Block, NEW l, NEW r, Ended(m, l), Ended(m, r)
    PROVE  custom_line_comparator(m, l, r).inside
<1> DEFINE G == (l.beg..(l.beg + l.size)) \X (r.beg..(r.beg + r.size))
           R == {Compared(m, p, q) : p, q \in 0..(Len(m) - 1)}
<1>1. /\ Len(m) \in Nat /\ l.beg \in Nat /\ l.size \in Nat /\ l.size > 0 /\ l.beg + l.size + 1 < Len(m)
      /\ r.beg \in Nat /\ r.size \in Nat /\ r.size > 0 /\ r.beg + r.size + 1 < Len(m)
    BY EndedChars
<1>0. l.beg \in Nat /\ l.size \in Nat /\ r.beg \in Nat /\ r.size \in Nat
    BY <1>1
<1>2. G \in SUBSET (Nat \X Nat)
    BY <1>1
<1>3. <<Passed(m, l.beg), Passed(m, r.beg)>> \in G
    <2>1. l.beg \in l.beg..(l.beg + l.size) /\ r.beg \in r.beg..(r.beg + r.size)
        BY <1>1
    <2>2. Passed(m, l.beg) \in l.beg..(l.beg + l.size)
        BY <2>1, PassedInLine
    <2>3. Passed(m, r.beg) \in r.beg..(r.beg + r.size)
        BY <2>1, PassedInLine
    <2> QED BY <2>2, <2>3
<1>4. ASSUME NEW at, at \in G \cap FStop(m, l, r) PROVE FVal(m)[at] \in R
    <2>1. PICK p \in l.beg..(l.beg + l.size), q \in r.beg..(r.beg + r.size) : at[1] = p /\ at[2] = q
        BY <1>4
    <2>2. p \in 0..(Len(m) - 1) /\ q \in 0..(Len(m) - 1) /\ p + 1 \in 0..(Len(m) - 1) /\ q + 1 \in 0..(Len(m) - 1)
        BY ONLY <1>1, <2>1
    <2>3. FVal(m)[at] = Compared(m, p, q) \/ FVal(m)[at] = Compared(m, p + 1, q + 1)
        BY <1>2, <1>4, <2>1 DEF FVal
    <2> QED BY <2>2, <2>3
<1>5. ASSUME NEW at, at \in G \ FStop(m, l, r) PROVE FNext(m)[at] \in G
    <2>1. PICK p \in l.beg..(l.beg + l.size), q \in r.beg..(r.beg + r.size) : at[1] = p /\ at[2] = q
        BY <1>5
    <2>2. at \in Nat \X Nat
        BY <1>2, <1>5
    <2>3. /\ ~(p + 1 - l.beg >= IF l.size < r.size THEN l.size ELSE r.size)
          /\ ~(q + 1 - r.beg >= IF l.size < r.size THEN l.size ELSE r.size)
        BY <1>5, <2>1, <2>2 DEF FStop
    <2>4. p + 1 \in l.beg..(l.beg + l.size) /\ q + 1 \in r.beg..(r.beg + r.size)
        <3>1. p + 1 \in l.beg..(l.beg + l.size)
            BY ONLY <1>0, <2>3
        <3>2. q + 1 \in r.beg..(r.beg + r.size)
            BY ONLY <1>0, <2>3
        <3> QED BY <3>1, <3>2
    <2>5. Passed(m, p + 1) \in l.beg..(l.beg + l.size)
        BY <2>4, PassedInLine
    <2>6. Passed(m, q + 1) \in r.beg..(r.beg + r.size)
        BY <2>4, PassedInLine
    <2>7. FNext(m)[at] = <<Passed(m, p + 1), Passed(m, q + 1)>>
        BY <2>1, <2>2 DEF FNext
    <2> QED BY <2>5, <2>6, <2>7
<1>6. Leads(G, R, FStop(m, l, r), FVal(m), FNext(m))
    BY <1>4, <1>5 DEF Leads
<1> HIDE DEF G, R
<1>7. custom_line_comparator(m, l, r) \in R
    BY <1>1, <1>2, <1>3, <1>6, Forward
<1>8. PICK p, q : p \in 0..(Len(m) - 1) /\ q \in 0..(Len(m) - 1) /\ custom_line_comparator(m, l, r) = Compared(m, p, q)
    BY <1>7 DEF R
<1>9. "outside" \notin {Char(m, p), Char(m, q)}
    BY <1>8, EndedChars
<1>10. Compared(m, p, q).inside
    BY <1>9, Zenon DEF Compared
<1> QED BY <1>8, <1>10

(* The bytes of a line without printable characters.                       *)
LEMMA PlainChars ==
    ASSUME NEW m, m \in Block, NEW tok, Ended(m, tok), PlainLine(tok)
    PROVE  /\ \A d \in 0..(tok.size - 1) : Char(m, tok.beg + d) \in {"low", "mid"}
           /\ \A d \in 0..tok.size : /\ Char(m, tok.beg + d) \in {"low", "mid", "nul"}
                                     /\ Value[Char(m, tok.beg + d)] = Byte(tok, d)
           /\ \A d \in Nat : d < tok.size => Byte(tok, d) \in {-2, -1}
           /\ \A d \in Nat : d >= tok.size => Byte(tok, d) = 0
<1>1. /\ Len(m) \in Nat /\ tok.beg \in Nat /\ tok.size \in Nat /\ tok.beg + tok.size + 1 < Len(m)
      /\ Char(m, tok.beg + tok.size) = "nul"
      /\ \A p \in 0..(Len(m) - 1) : Char(m, p) = m[p + 1]
    BY EndedChars
<1>2. \A c \in Chars \ Delims : c \notin isprint => c \in {"low", "mid"}
    BY DEF Chars, isprint
<1>3. Value["low"] = -2 /\ Value["mid"] = -1 /\ Value["nul"] = 0
    BY DEF Value
<1>4. ASSUME NEW d \in 0..(tok.size - 1)
      PROVE  Char(m, tok.beg + d) \in {"low", "mid"} /\ Char(m, tok.beg + d) = text[tok.beg + d + 1]
    <2>1. tok.beg + d \in tok.beg..(tok.beg + tok.size - 1) /\ tok.beg + d \in 0..(Len(m) - 1)
        BY <1>1
    <2>2. m[tok.beg + d + 1] = text[tok.beg + d + 1] /\ m[tok.beg + d + 1] \in Chars \ Delims
        BY <2>1 DEF Ended
    <2>3. text[tok.beg + d + 1] \notin isprint
        BY <2>1 DEF PlainLine
    <2>4. Char(m, tok.beg + d) = m[tok.beg + d + 1]
        BY <1>1, <2>1
    <2> QED BY <1>2, <2>2, <2>3, <2>4
<1>5. \A d \in Nat : d >= tok.size => Byte(tok, d) = 0
    BY <1>1 DEF Byte
<1>6. \A d \in 0..(tok.size - 1) : Byte(tok, d) = Value[Char(m, tok.beg + d)]
    BY <1>1, <1>4 DEF Byte
<1>7. \A d \in 0..tok.size : d = tok.size \/ d \in 0..(tok.size - 1)
    BY <1>1
<1>8. \A d \in 0..tok.size : /\ Char(m, tok.beg + d) \in {"low", "mid", "nul"}
                             /\ Value[Char(m, tok.beg + d)] = Byte(tok, d)
    <2>1. tok.size >= tok.size /\ Byte(tok, tok.size) = 0
        BY <1>1, <1>5
    <2> QED BY <1>1, <1>3, <1>4, <1>6, <1>7, <2>1
<1>9. \A d \in Nat : d < tok.size => d \in 0..(tok.size - 1)
    BY <1>1
<1>10. \A d \in Nat : d < tok.size => Byte(tok, d) \in {-2, -1}
    BY <1>3, <1>4, <1>6, <1>9
<1> QED BY <1>4, <1>5, <1>8, <1>10

(* Two lines agree before byte e.                                          *)
Agree(l, r, e) == \A f \in 0..(e - 1) : Byte(l, f) = Byte(r, f)

AllAgree(l, r) == \A f \in Nat : Byte(l, f) = Byte(r, f)

(* Of lines without printable characters the forward comparator compares   *)
(* the first bytes that differ, if there are any.                          *)
LEMMA ForwardPlain ==
    ASSUME NEW m, m \in Block, NEW l, NEW r, Ended(m, l), Ended(m, r), PlainLine(l), PlainLine(r)
    PROVE  \E e \in Nat : /\ Agree(l, r, e) /\ Byte(l, e) \in Int /\ Byte(r, e) \in Int
                          /\ custom_line_comparator(m, l, r).diff = Byte(l, e) - Byte(r, e)
                          /\ Byte(l, e) = Byte(r, e) => AllAgree(l, r)
<1> DEFINE min_sz == IF l.size < r.size THEN l.size ELSE r.size
           G == {<<l.beg + d, r.beg + d>> : d \in {d \in 0..(min_sz - 1) : Agree(l, r, d)}}
           Tells(e) == Agree(l, r, e) /\ (Byte(l, e) = Byte(r, e) => AllAgree(l, r))
           R == {Compared(m, l.beg + e, r.beg + e) : e \in {e \in 0..min_sz : Tells(e)}}
<1>1. /\ Len(m) \in Nat /\ l.beg \in Nat /\ l.size \in Nat /\ l.size > 0
      /\ r.beg \in Nat /\ r.size \in Nat /\ r.size > 0
    BY EndedChars
<1>2. /\ min_sz \in Nat /\ min_sz > 0 /\ min_sz <= l.size /\ min_sz <= r.size
      /\ min_sz = l.size \/ min_sz = r.size
    BY <1>1
<1> HIDE DEF min_sz
<1>3. /\ \A d \in 0..(l.size - 1) : Char(m, l.beg + d) \in {"low", "mid"}
      /\ \A d \in 0..l.size : Char(m, l.beg + d) \in {"low", "mid", "nul"} /\ Value[Char(m, l.beg + d)] = Byte(l, d)
      /\ \A d \in Nat : d < l.size => Byte(l, d) \in {-2, -1}
      /\ \A d \in Nat : d >= l.size => Byte(l, d) = 0
    BY PlainChars
<1>4. /\ \A d \in 0..(r.size - 1) : Char(m, r.beg + d) \in {"low", "mid"}
      /\ \A d \in 0..r.size : Char(m, r.beg + d) \in {"low", "mid", "nul"} /\ Value[Char(m, r.beg + d)] = Byte(r, d)
      /\ \A d \in Nat : d < r.size => Byte(r, d) \in {-2, -1}
      /\ \A d \in Nat : d >= r.size => Byte(r, d) = 0
    BY PlainChars
<1>5. Value["low"] = -2 /\ Value["mid"] = -1
    BY DEF Value
<1>6. ASSUME NEW d \in 0..(min_sz - 1)
      PROVE  /\ d \in 0..(l.size - 1) /\ d \in 0..(r.size - 1) /\ d \in 0..l.size /\ d \in 0..r.size /\ d \in Nat
             /\ Passed(m, l.beg + d) = l.beg + d /\ Passed(m, r.beg + d) = r.beg + d
             /\ Same(m, l.beg + d, r.beg + d) <=> Byte(l, d) = Byte(r, d)
    <2>1. d \in 0..(l.size - 1) /\ d \in 0..(r.size - 1) /\ d \in 0..l.size /\ d \in 0..r.size /\ d \in Nat
        BY <1>1, <1>2
    <2>2. l.beg + d \in Nat /\ r.beg + d \in Nat
        BY <1>1, <2>1
    <2>3. Char(m, l.beg + d) \in {"low", "mid"} /\ Char(m, r.beg + d) \in {"low", "mid"}
        BY <1>3, <1>4, <2>1
    <2>4. Passed(m, l.beg + d) = l.beg + d /\ Passed(m, r.beg + d) = r.beg + d
        BY <2>2, <2>3, PassedIs
    <2>5. Value[Char(m, l.beg + d)] = Byte(l, d) /\ Value[Char(m, r.beg + d)] = Byte(r, d)
        BY <1>3, <1>4, <2>1
    <2>6. Same(m, l.beg + d, r.beg + d) <=> Byte(l, d) = Byte(r, d)
        BY <1>5, <2>3, <2>5 DEF Same
    <2> QED BY <2>1, <2>4, <2>6
<1>7. ASSUME NEW d \in 0..(min_sz - 1), Agree(l, r, d), Byte(l, d) = Byte(r, d) PROVE Agree(l, r, d + 1)
    <2>1. d + 1 - 1 = d /\ \A f \in 0..d : f = d \/ f \in 0..(d - 1)
        BY <1>2
    <2> QED BY <1>7, <2>1 DEF Agree
<1>8. ASSUME NEW at, at \in G PROVE \E d \in 0..(min_sz - 1) : at = <<l.beg + d, r.beg + d>> /\ Agree(l, r, d)
    BY <1>8
<1>9. G \in SUBSET (Nat \X Nat)
    BY <1>1, <1>6
<1>10. <<Passed(m, l.beg), Passed(m, r.beg)>> \in G
    <2>1. 0 \in 0..(min_sz - 1) /\ l.beg + 0 = l.beg /\ r.beg + 0 = r.beg
        BY <1>1, <1>2
    <2>2. Agree(l, r, 0)
        BY DEF Agree
    <2>3. Passed(m, l.beg) = l.beg + 0 /\ Passed(m, r.beg) = r.beg + 0
        BY <1>6, <2>1
    <2> QED BY <2>1, <2>2, <2>3
<1>11. ASSUME NEW at, at \in G \cap FStop(m, l, r) PROVE FVal(m)[at] \in R
    <2>1. PICK d \in 0..(min_sz - 1) : at = <<l.beg + d, r.beg + d>> /\ Agree(l, r, d)
        BY <1>8, <1>11
    <2>2. at[1] = l.beg + d /\ at[2] = r.beg + d /\ at \in Nat \X Nat
        BY <1>9, <1>11, <2>1
    <2>3. CASE Byte(l, d) # Byte(r, d)
        <3>1. FVal(m)[at] = Compared(m, l.beg + d, r.beg + d)
            BY <1>6, <2>2, <2>3 DEF FVal
        <3>2. Tells(d) /\ d \in 0..min_sz
            BY <1>2, <2>1, <2>3
        <3> QED BY <3>1, <3>2
    <2>4. CASE Byte(l, d) = Byte(r, d)
        <3>1. Same(m, l.beg + d, r.beg + d)
            BY <1>6, <2>4
        <3>2. FVal(m)[at] = Compared(m, l.beg + d + 1, r.beg + d + 1)
            BY <2>2, <3>1 DEF FVal
        <3>3. d + 1 = min_sz
            <4>1. l.beg + d + 1 - l.beg >= min_sz \/ r.beg + d + 1 - r.beg >= min_sz
                BY <1>11, <2>2, <3>1 DEF FStop, min_sz
            <4> QED BY ONLY <1>1, <1>2, <4>1
        <3>4. Agree(l, r, min_sz)
            BY <1>7, <2>1, <2>4, <3>3
        <3>5. ASSUME Byte(l, min_sz) = Byte(r, min_sz) PROVE AllAgree(l, r)
            <4>1. l.size = min_sz /\ r.size = min_sz
                BY <1>1, <1>2, <1>3, <1>4, <3>5
            <4>2. ASSUME NEW f \in Nat PROVE Byte(l, f) = Byte(r, f)
                <5>1. f < min_sz => f \in 0..(min_sz - 1)
                    BY <1>2
                <5>2. f < min_sz \/ f >= min_sz
                    BY <1>2
                <5> QED BY <1>3, <1>4, <3>4, <4>1, <5>1, <5>2 DEF Agree
            <4> QED BY <4>2 DEF AllAgree
        <3>6. Tells(min_sz) /\ min_sz \in 0..min_sz
            BY <1>2, <3>4, <3>5
        <3>7. l.beg + d + 1 = l.beg + min_sz /\ r.beg + d + 1 = r.beg + min_sz
            BY <1>1, <3>3
        <3> QED BY <3>2, <3>6, <3>7
    <2> QED BY <2>3, <2>4
<1>12. ASSUME NEW at, at \in G \ FStop(m, l, r) PROVE FNext(m)[at] \in G
    <2>1. PICK d \in 0..(min_sz - 1) : at = <<l.beg + d, r.beg + d>> /\ Agree(l, r, d)
        BY <1>8, <1>12
    <2>2. at[1] = l.beg + d /\ at[2] = r.beg + d /\ at \in Nat \X Nat
        BY <1>9, <1>12, <2>1
    <2>3. Same(m, l.beg + d, r.beg + d) /\ ~(l.beg + d + 1 - l.beg >= min_sz)
        BY <1>12, <2>2 DEF FStop, min_sz
    <2>4. Byte(l, d) = Byte(r, d)
        BY <1>6, <2>3
    <2>5. d + 1 \in 0..(min_sz - 1)
        BY ONLY <1>1, <1>2, <2>3
    <2>6. Agree(l, r, d + 1)
        BY <1>7, <2>1, <2>4
    <2>7. /\ l.beg + d + 1 = l.beg + (d + 1) /\ r.beg + d + 1 = r.beg + (d + 1)
          /\ Passed(m, l.beg + (d + 1)) = l.beg + (d + 1) /\ Passed(m, r.beg + (d + 1)) = r.beg + (d + 1)
        <3>1. l.beg + d + 1 = l.beg + (d + 1) /\ r.beg + d + 1 = r.beg + (d + 1)
            BY ONLY <1>1, <1>2
        <3>2. Passed(m, l.beg + (d + 1)) = l.beg + (d + 1) /\ Passed(m, r.beg + (d + 1)) = r.beg + (d + 1)
            BY ONLY <1>6, <2>5
        <3> QED BY ONLY <3>1, <3>2
    <2>8. FNext(m)[at] = <<l.beg + (d + 1), r.beg + (d + 1)>>
        BY <2>2, <2>7 DEF FNext
    <2> QED BY <2>5, <2>6, <2>8
<1>13. Leads(G, R, FStop(m, l, r), FVal(m), FNext(m))
    BY <1>11, <1>12 DEF Leads
<1> HIDE DEF G, R
<1>14. custom_line_comparator(m, l, r) \in R
    BY <1>1, <1>9, <1>10, <1>13, Forward
<1>15. PICK e \in 0..min_sz : Tells(e) /\ custom_line_comparator(m, l, r) = Compared(m, l.beg + e, r.beg + e)
    BY <1>14 DEF R
<1>16. e \in 0..l.size /\ e \in 0..r.size /\ e \in Nat
    BY <1>1, <1>2
<1>17. Byte(l, e) \in Int /\ Byte(r, e) \in Int
    <2>1. (e < l.size \/ e >= l.size) /\ (e < r.size \/ e >= r.size)
        BY <1>1, <1>16
    <2> QED BY <1>3, <1>4, <1>16, <2>1
<1>18. custom_line_comparator(m, l, r).diff = Byte(l, e) - Byte(r, e)
    BY <1>3, <1>4, <1>15, <1>16 DEF Compared
<1> QED BY <1>15, <1>16, <1>17, <1>18

LEMMA PlainBytes ==
    ASSUME NEW m, m \in Block, NEW tok, Ended(m, tok), PlainLine(tok)
    PROVE  \A f \in Nat : Byte(tok, f) \in Int
<1>1. /\ \A f \in Nat : f < tok.size => Byte(tok, f) \in {-2, -1}
      /\ \A f \in Nat : f >= tok.size => Byte(tok, f) = 0
    BY PlainChars
<1>2. tok.size \in Nat
    BY EndedChars
<1> QED BY <1>1, <1>2

(* No printable character is passed backwards in such a line.              *)
LEMMA BackInPlain ==
    ASSUME NEW m, m \in Block, NEW tok, Ended(m, tok), PlainLine(tok), NEW p \in tok.beg..(tok.beg + tok.size)
    PROVE  Back(m, p) = p
<1>1. Len(m) \in Nat /\ tok.beg \in Nat /\ tok.size \in Nat
    BY EndedChars
<1>2. p - tok.beg \in 0..tok.size /\ tok.beg + (p - tok.beg) = p /\ p \in Int /\ p >= -1
    BY <1>1
<1>3. Char(m, tok.beg + (p - tok.beg)) \in {"low", "mid", "nul"}
    BY <1>2, PlainChars
<1>4. Char(m, p) \notin isprint
    BY <1>2, <1>3 DEF isprint
<1> QED BY <1>1, <1>2, <1>4, BackIs

(* The first is less than the second: the first byte that differs is.      *)
LexLess(l, r) == \E e \in Nat : Agree(l, r, e) /\ Byte(l, e) < Byte(r, e)

LEMMA ForwardOrders ==
    ASSUME NEW m, m \in Block, NEW l, NEW r, Ended(m, l), Ended(m, r), PlainLine(l), PlainLine(r)
    PROVE  /\ custom_line_comparator(m, l, r).diff < 0 <=> LexLess(l, r)
           /\ custom_line_comparator(m, l, r).diff > 0 <=> LexLess(r, l)
<1> DEFINE diff == custom_line_comparator(m, l, r).diff
<1>1. PICK e \in Nat : /\ Agree(l, r, e) /\ Byte(l, e) \in Int /\ Byte(r, e) \in Int
                       /\ diff = Byte(l, e) - Byte(r, e)
                       /\ Byte(l, e) = Byte(r, e) => AllAgree(l, r)
    BY ForwardPlain
<1> HIDE DEF diff
<1>2. \A f \in Nat : Agree(l, r, f) <=> Agree(r, l, f)
    BY DEF Agree
<1>3. ASSUME NEW f \in Nat, Agree(l, r, f), Byte(l, f) # Byte(r, f) PROVE f = e
    <2>1. ~(e < f)
        <3> SUFFICES ASSUME e < f PROVE FALSE
            OBVIOUS
        <3>1. e \in 0..(f - 1)
            BY <1>1
        <3>2. Byte(l, e) = Byte(r, e)
            BY <1>3, <3>1 DEF Agree
        <3> QED BY <1>1, <1>3, <3>2 DEF AllAgree
    <2>2. ~(f < e)
        <3> SUFFICES ASSUME f < e PROVE FALSE
            OBVIOUS
        <3>1. f \in 0..(e - 1)
            BY <1>1
        <3> QED BY <1>1, <1>3, <3>1 DEF Agree
    <2> QED BY <1>1, <2>1, <2>2
<1>4. \A f \in Nat : Byte(l, f) \in Int /\ Byte(r, f) \in Int
    BY PlainBytes
<1>5. diff < 0 => LexLess(l, r)
    BY <1>1 DEF LexLess
<1>6. diff > 0 => LexLess(r, l)
    BY <1>1, <1>2 DEF LexLess
<1>7. ASSUME LexLess(l, r) PROVE diff < 0
    <2>1. PICK f \in Nat : Agree(l, r, f) /\ Byte(l, f) < Byte(r, f)
        BY <1>7 DEF LexLess
    <2>2. f = e
        BY <1>3, <1>4, <2>1
    <2> QED BY <1>1, <2>1, <2>2
<1>8. ASSUME LexLess(r, l) PROVE diff > 0
    <2>1. PICK f \in Nat : Agree(r, l, f) /\ Byte(r, f) < Byte(l, f)
        BY <1>8 DEF LexLess
    <2>2. f = e
        BY <1>2, <1>3, <1>4, <2>1
    <2> QED BY <1>1, <2>1, <2>2
<1> QED BY <1>5, <1>6, <1>7, <1>8 DEF diff

(* A line between two others, wherever it differs from them.               *)
LEMMA LexSplits ==
    ASSUME NEW a, NEW b, NEW c, \A f \in Nat : Byte(a, f) \in Int /\ Byte(b, f) \in Int /\ Byte(c, f) \in Int,
           LexLess(c, a)
    PROVE  LexLess(b, a) \/ LexLess(c, b)
<1>1. PICK e \in Nat : Agree(c, a, e) /\ Byte(c, e) < Byte(a, e)
    BY DEF LexLess
<1>2. CASE Agree(b, c, e)
    <2>1. Agree(b, a, e) /\ Agree(c, b, e)
        BY <1>1, <1>2 DEF Agree
    <2>2. Byte(b, e) < Byte(a, e) \/ Byte(c, e) < Byte(b, e)
        BY <1>1
    <2> QED BY <2>1, <2>2 DEF LexLess
<1>3. CASE ~Agree(b, c, e)
    <2> DEFINE T == {f \in 0..(e - 1) : Byte(b, f) # Byte(c, f)}
    <2>1. PICK f \in T : \A g \in T : f <= g
        <3>1. T \in SUBSET Nat /\ T # {}
            BY <1>3 DEF Agree
        <3> HIDE DEF T
        <3> QED BY <3>1, LeastNumber
    <2>2. f \in Nat /\ f \in 0..(e - 1) /\ Byte(b, f) # Byte(c, f)
        BY <1>1, <2>1
    <2>3. ASSUME NEW g \in 0..(f - 1) PROVE Byte(b, g) = Byte(c, g) /\ Byte(c, g) = Byte(a, g)
        <3>1. g \in 0..(e - 1) /\ ~(f <= g)
            BY <2>2
        <3>2. g \notin T
            BY <2>1, <3>1
        <3> QED BY <1>1, <3>1, <3>2 DEF Agree
    <2>4. Byte(c, f) = Byte(a, f)
        BY <1>1, <2>2 DEF Agree
    <2>5. Agree(b, a, f) /\ Agree(c, b, f)
        BY <2>3 DEF Agree
    <2>6. Byte(b, f) < Byte(c, f) \/ Byte(c, f) < Byte(b, f)
        BY <2>2
    <2>7. Byte(b, f) < Byte(a, f) \/ Byte(c, f) < Byte(b, f)
        BY <2>4, <2>6
    <2> QED BY <2>2, <2>5, <2>7 DEF LexLess
<1> QED BY <1>2, <1>3

(* The reverse comparator stays inside lines without printable characters: *)
(* it compares the same bytes of both from their ends on, down to the      *)
(* first of one of them.                                                   *)
LEMMA BackwardPlain ==
    ASSUME NEW m, m \in Block, NEW l, NEW r, Ended(m, l), Ended(m, r), PlainLine(l), PlainLine(r)
    PROVE  custom_reverse_line_comparator(m, l, r).inside
<1> DEFINE G == ((l.beg + 1)..(l.beg + l.size)) \X ((r.beg + 1)..(r.beg + r.size))
           R == {Compared(m, p, q) : p, q \in 0..(Len(m) - 1)}
<1>1. /\ Len(m) \in Nat /\ l.beg \in Nat /\ l.size \in Nat /\ l.size > 0 /\ l.beg + l.size + 1 < Len(m)
      /\ r.beg \in Nat /\ r.size \in Nat /\ r.size > 0 /\ r.beg + r.size + 1 < Len(m)
    BY EndedChars
<1>0. l.beg \in Nat /\ l.size \in Nat /\ l.size > 0 /\ r.beg \in Nat /\ r.size \in Nat /\ r.size > 0
    BY <1>1
<1>2. G \in SUBSET (Int \X Int)
    BY <1>1
<1>3. \A p \in (l.beg + 1)..(l.beg + l.size) : Back(m, p) = p
    <2> SUFFICES ASSUME NEW p \in (l.beg + 1)..(l.beg + l.size) PROVE Back(m, p) = p
        OBVIOUS
    <2>1. p \in l.beg..(l.beg + l.size)
        BY <1>1
    <2> QED BY <2>1, BackInPlain
<1>4. \A q \in (r.beg + 1)..(r.beg + r.size) : Back(m, q) = q
    <2> SUFFICES ASSUME NEW q \in (r.beg + 1)..(r.beg + r.size) PROVE Back(m, q) = q
        OBVIOUS
    <2>1. q \in r.beg..(r.beg + r.size)
        BY <1>1
    <2> QED BY <2>1, BackInPlain
<1>5. <<Back(m, l.beg + l.size), Back(m, r.beg + r.size)>> \in G
    <2>1. l.beg + l.size \in (l.beg + 1)..(l.beg + l.size)
        BY ONLY <1>0
    <2>2. r.beg + r.size \in (r.beg + 1)..(r.beg + r.size)
        BY ONLY <1>0
    <2> QED BY <1>3, <1>4, <2>1, <2>2
<1>6. ASSUME NEW at, at \in G PROVE \E p \in (l.beg + 1)..(l.beg + l.size), q \in (r.beg + 1)..(r.beg + r.size) : at = <<p, q>>
    BY <1>6
<1>7. ASSUME NEW at, at \in G \cap BStop(m, l, r) PROVE BVal(m)[at] \in R
    <2>1. PICK p \in (l.beg + 1)..(l.beg + l.size), q \in (r.beg + 1)..(r.beg + r.size) : at = <<p, q>>
        BY <1>6, <1>7
    <2>2. /\ p \in 0..(Len(m) - 1) /\ p - 1 \in 0..(Len(m) - 1)
          /\ q \in 0..(Len(m) - 1) /\ q - 1 \in 0..(Len(m) - 1)
        <3>1. p \in Int /\ p >= 1 /\ p <= l.beg + l.size /\ q \in Int /\ q >= 1 /\ q <= r.beg + r.size
            BY ONLY <1>0, <2>1
        <3>2. p < Len(m) /\ q < Len(m)
            BY ONLY <1>1, <3>1
        <3> QED BY ONLY <1>1, <3>1, <3>2
    <2>3. BVal(m)[at] = Compared(m, p, q) \/ BVal(m)[at] = Compared(m, p - 1, q - 1)
        BY <1>2, <1>7, <2>1 DEF BVal
    <2> QED BY <2>2, <2>3
<1>8. ASSUME NEW at, at \in G \ BStop(m, l, r) PROVE BNext(m)[at] \in G
    <2>1. PICK p \in (l.beg + 1)..(l.beg + l.size), q \in (r.beg + 1)..(r.beg + r.size) : at = <<p, q>>
        BY <1>6, <1>8
    <2>2. at \in Int \X Int
        BY <1>2, <1>8
    <2>3. ~(p - 1 - l.beg = 0) /\ ~(q - 1 - r.beg = 0)
        BY <1>8, <2>1, <2>2 DEF BStop
    <2>4. p - 1 \in (l.beg + 1)..(l.beg + l.size) /\ q - 1 \in (r.beg + 1)..(r.beg + r.size)
        <3>1. p - 1 \in (l.beg + 1)..(l.beg + l.size)
            BY ONLY <1>0, <2>3
        <3>2. q - 1 \in (r.beg + 1)..(r.beg + r.size)
            BY ONLY <1>0, <2>3
        <3> QED BY <3>1, <3>2
    <2>5. BNext(m)[at] = <<p - 1, q - 1>>
        BY <1>3, <1>4, <2>1, <2>2, <2>4 DEF BNext
    <2> QED BY <2>4, <2>5
<1>9. Leads(G, R, BStop(m, l, r), BVal(m), BNext(m))
    BY <1>7, <1>8 DEF Leads
<1> HIDE DEF G, R
<1>10. custom_reverse_line_comparator(m, l, r) \in R
    BY <1>1, <1>2, <1>5, <1>9, Backward
<1>11. PICK p, q : p \in 0..(Len(m) - 1) /\ q \in 0..(Len(m) - 1) /\ custom_reverse_line_comparator(m, l, r) = Compared(m, p, q)
    BY <1>10 DEF R
<1>12. "outside" \notin {Char(m, p), Char(m, q)}
    BY <1>11, EndedChars
<1>13. Compared(m, p, q).inside
    BY <1>12, Zenon DEF Compared
<1> QED BY <1>11, <1>13

(* What the comparators say of each two tokens.                            *)
LEMMA SaidOfLines ==
    ASSUME NEW K, K = 0..(tokens.size - 1), NEW said, said = LineComparisons
    PROVE  /\ \A a, b \in K : a # b =>
                  /\ <<a, b>> \in said.less <=> custom_line_comparator(mem, tokens.cells[a], tokens.cells[b]).diff < 0
                  /\ <<a, b>> \in said.greater <=> custom_line_comparator(mem, tokens.cells[a], tokens.cells[b]).diff > 0
           /\ \A ab \in said.less \cup said.greater : \E a, b \in K : ab = <<a, b>> /\ a # b
           /\ \A ab \in said.outside :
                  \E a, b \in K : ab = <<a, b>> /\ ~custom_line_comparator(mem, tokens.cells[a], tokens.cells[b]).inside
<1> DEFINE cmp(a, b) == custom_line_comparator(mem, tokens.cells[a], tokens.cells[b])
           KK == {<<a, b>> : a, b \in K}
           less == {ab \in KK : ab[1] # ab[2] /\ cmp(ab[1], ab[2]).diff < 0}
           greater == {ab \in KK : ab[1] # ab[2] /\ cmp(ab[1], ab[2]).diff > 0}
           outside == {ab \in KK : ab[1] # ab[2] /\ ~cmp(ab[1], ab[2]).inside}
<1>1. said = [less |-> less, greater |-> greater, outside |-> outside]
    BY DEF LineComparisons, Comparisons
<1> HIDE DEF cmp
<1>2. \A a, b \in K : a # b => /\ <<a, b>> \in less <=> cmp(a, b).diff < 0
                               /\ <<a, b>> \in greater <=> cmp(a, b).diff > 0
    OBVIOUS
<1>3. \A ab \in less \cup greater : \E a, b \in K : ab = <<a, b>> /\ a # b
    OBVIOUS
<1>4. \A ab \in outside : \E a, b \in K : ab = <<a, b>> /\ ~cmp(a, b).inside
    OBVIOUS
<1> HIDE DEF less, greater, outside
<1>5. said.less = less /\ said.greater = greater /\ said.outside = outside
    BY <1>1
<1> QED BY <1>2, <1>3, <1>4, <1>5 DEF cmp

LEMMA SaidInReverse ==
    ASSUME NEW K, K = 0..(tokens.size - 1), NEW said, said = ReverseComparisons
    PROVE  \A ab \in said.outside :
               \E a, b \in K : ab = <<a, b>> /\ ~custom_reverse_line_comparator(mem, tokens.cells[a], tokens.cells[b]).inside
<1> DEFINE cmp(a, b) == custom_reverse_line_comparator(mem, tokens.cells[a], tokens.cells[b])
           KK == {<<a, b>> : a, b \in K}
           less == {ab \in KK : ab[1] # ab[2] /\ cmp(ab[1], ab[2]).diff < 0}
           greater == {ab \in KK : ab[1] # ab[2] /\ cmp(ab[1], ab[2]).diff > 0}
           outside == {ab \in KK : ab[1] # ab[2] /\ ~cmp(ab[1], ab[2]).inside}
<1>1. said = [less |-> less, greater |-> greater, outside |-> outside]
    BY DEF ReverseComparisons, Comparisons
<1> HIDE DEF cmp
<1>2. \A ab \in outside : \E a, b \in K : ab = <<a, b>> /\ ~cmp(a, b).inside
    OBVIOUS
<1> HIDE DEF less, greater, outside
<1>3. said.outside = outside
    BY <1>1
<1> QED BY <1>2, <1>3 DEF cmp

(* The tokens are lines that have been ended.                              *)
AllEnded(m, v) == \A k \in 0..(v.size - 1) : Ended(m, v.cells[k])

AllPlain(v) == \A k \in 0..(v.size - 1) : PlainLine(v.cells[k])

(* The forward comparator orders lines without printable characters, so    *)
(* that qsort puts none behind a greater one.                              *)
LEMMA SortAscends ==
    ASSUME mem \in Block, tokens.size \in Nat, AllEnded(mem, tokens), AllPlain(tokens),
           NEW K, K = 0..(tokens.size - 1), NEW order \in [K -> K], NEW orders, order \in Sorting(K, orders, LineComparisons)
    PROVE  \A a, b \in K : a < b => ~LexLess(tokens.cells[order[b]], tokens.cells[order[a]])
<1> DEFINE said == LineComparisons
           line(k) == tokens.cells[k]
<1>1. \A k \in K : Ended(mem, line(k)) /\ PlainLine(line(k))
    BY DEF AllEnded, AllPlain
<1>2. \A k \in K : \A f \in Nat : Byte(line(k), f) \in Int
    <2> SUFFICES ASSUME NEW k \in K PROVE \A f \in Nat : Byte(line(k), f) \in Int
        OBVIOUS
    <2>1. Ended(mem, line(k)) /\ PlainLine(line(k)) /\ mem \in Block
        BY <1>1
    <2> QED BY ONLY <2>1, PlainBytes
<1>3. ASSUME NEW a \in K, NEW b \in K, a # b
      PROVE  /\ <<a, b>> \in said.less <=> LexLess(line(a), line(b))
             /\ <<a, b>> \in said.greater <=> LexLess(line(b), line(a))
    <2>1. Ended(mem, line(a)) /\ PlainLine(line(a)) /\ Ended(mem, line(b)) /\ PlainLine(line(b)) /\ mem \in Block
        BY <1>1
    <2>2. /\ custom_line_comparator(mem, line(a), line(b)).diff < 0 <=> LexLess(line(a), line(b))
          /\ custom_line_comparator(mem, line(a), line(b)).diff > 0 <=> LexLess(line(b), line(a))
        BY ONLY <2>1, ForwardOrders
    <2>3. /\ <<a, b>> \in said.less <=> custom_line_comparator(mem, line(a), line(b)).diff < 0
          /\ <<a, b>> \in said.greater <=> custom_line_comparator(mem, line(a), line(b)).diff > 0
        BY <1>3, SaidOfLines
    <2> QED BY ONLY <2>2, <2>3
<1>4. \A ab \in said.less \cup said.greater : \E a, b \in K : ab = <<a, b>> /\ a # b
    BY SaidOfLines
<1> HIDE DEF said, line
<1>5. said.less = {<<ab[2], ab[1]>> : ab \in said.greater}
    <2>1. ASSUME NEW x \in said.less PROVE x \in {<<ab[2], ab[1]>> : ab \in said.greater}
        <3>1. PICK a \in K, b \in K : x = <<a, b>> /\ a # b
            BY <1>4
        <3>2. <<b, a>> \in said.greater
            BY <1>3, <3>1
        <3> QED BY <3>1, <3>2
    <2>2. ASSUME NEW ab \in said.greater PROVE <<ab[2], ab[1]>> \in said.less
        <3>1. PICK a \in K, b \in K : ab = <<a, b>> /\ a # b
            BY <1>4
        <3>2. <<b, a>> \in said.less
            BY <1>3, <3>1
        <3> QED BY <3>1, <3>2
    <2> QED BY <2>1, <2>2
<1>6. ASSUME NEW ac \in said.greater, NEW b \in K PROVE <<ac[1], b>> \in said.greater \/ <<b, ac[2]>> \in said.greater
    <2>1. PICK a \in K, c \in K : ac = <<a, c>> /\ a # c
        BY <1>4
    <2>2. CASE b = a \/ b = c
        BY <2>1, <2>2
    <2>3. CASE b # a /\ b # c
        <3>1. LexLess(line(c), line(a))
            BY <1>3, <2>1
        <3>2. \A f \in Nat : Byte(line(a), f) \in Int /\ Byte(line(b), f) \in Int /\ Byte(line(c), f) \in Int
            BY <1>2
        <3>3. LexLess(line(b), line(a)) \/ LexLess(line(c), line(b))
            BY ONLY <3>1, <3>2, LexSplits
        <3> QED BY <1>3, <2>1, <2>3, <3>3
    <2> QED BY <2>2, <2>3
<1>7. IsOrder(K, said)
    BY <1>5, <1>6 DEF IsOrder
<1>8. \A a, b \in K : a < b => <<order[a], order[b]>> \notin said.greater
    BY <1>7 DEF Sorting, said
<1>9. ASSUME NEW a \in K, NEW b \in K, a < b PROVE ~LexLess(line(order[b]), line(order[a]))
    <2>0. PICK i \in K, j \in K : order[a] = i /\ order[b] = j
        OBVIOUS
    <2>1. CASE i = j
        <3>1. \A f \in Nat : Byte(line(i), f) \in Int
            BY <1>2
        <3>2. ~LexLess(line(i), line(i))
            BY ONLY <3>1 DEF LexLess
        <3> QED BY <2>0, <2>1, <3>2
    <2>2. CASE i # j
        <3>1. <<i, j>> \notin said.greater
            BY <1>8, <1>9, <2>0
        <3>2. ~LexLess(line(j), line(i))
            BY <1>3, <2>2, <3>1
        <3> QED BY <2>0, <3>2
    <2> QED BY <2>1, <2>2
<1> QED BY <1>9 DEF line

-----------------------------------------------------------------------------
(* The steps.                                                              *)

LEMMA TextIs ==
    ASSUME text \in Texts
    PROVE  text \in Seq(Chars) /\ n \in Nat
BY OneginAssumption, LenProperties DEF n

(* What the predicates say after a step, which leaves the text alone.      *)
LEMMA Afterwards ==
    ASSUME text' = text
    PROVE  /\ IsBlock(mem)' <=> IsBlock(mem')
           /\ Unwritten(mem, 0)' <=> Unwritten(mem', 0)
           /\ Unwritten(mem, cur.beg)' <=> Unwritten(mem', cur'.beg)
           /\ TokenIn(mem, cur)' <=> TokenIn(mem', cur')
           /\ VecOK(tokens)' <=> VecOK(tokens')
           /\ TokensIn(tokens)' <=> TokensIn(tokens')
           /\ TokensAre(tokens, Lines)' <=> TokensAre(tokens', Lines)
           /\ TokensAre(tokens, LinesBefore(cur.beg))' <=> TokensAre(tokens', LinesBefore(cur'.beg))
           /\ n' = n
<1>1. n' = n
    BY DEF n
<1>2. (IsBlock(mem)' <=> IsBlock(mem')) /\ (Unwritten(mem, 0)' <=> Unwritten(mem', 0))
      /\ (Unwritten(mem, cur.beg)' <=> Unwritten(mem', cur'.beg))
    BY DEF n, IsBlock, Unwritten
<1>3. (TokenIn(mem, cur)' <=> TokenIn(mem', cur')) /\ (VecOK(tokens)' <=> VecOK(tokens'))
    BY DEF TokenIn, VecOK
<1>4. TokensIn(tokens)' <=> TokensIn(tokens')
    BY DEF TokensIn, n
<1>5. Lines' = Lines
    BY DEF Lines, IsLine, n
<1>6. LinesBefore(cur.beg)' = LinesBefore(cur'.beg)
    BY <1>5 DEF LinesBefore
<1>7. (TokensAre(tokens, Lines)' <=> TokensAre(tokens', Lines))
      /\ (TokensAre(tokens, LinesBefore(cur.beg))' <=> TokensAre(tokens', LinesBefore(cur'.beg)))
    BY <1>5, <1>6 DEF TokensAre
<1> QED BY <1>1, <1>2, <1>3, <1>4, <1>7

(* A vector without tokens.                                                *)
LEMMA NoTokens ==
    ASSUME NEW v, VecOK(v), v.size = 0, n \in Nat
    PROVE  TokensIn(v) /\ TokensAre(v, {})
BY DEF TokensIn, TokensAre

Places == {"read", "count", "tokenize", "sort", "dump", "resort", "draw", "rhyme", "raw"} \cup Over

(* The places before those of print_rhymes.                                *)
Early == {"count", "tokenize", "sort", "dump", "resort", "draw"}

LEMMA TypedAgain ==
    ASSUME Typed, text' = text, mem' \in Block, VecOK(tokens'), TokensIn(tokens'), cur' \in Token, count' \in 0..(n + 1),
           verse' \in [i : Nat, j : Nat, str_num : Nat, err : BOOLEAN],
           out' = [lines |-> out'.lines, raw |-> out'.raw],
           pc' \in Places \ {"read"}, pc' \in Early => verse' = NoVerse
    PROVE  Typed'
<1>1. VecOK(tokens)' /\ TokensIn(tokens)' /\ n' = n
    BY Afterwards
<1>2. text \in Texts
    BY DEF Typed
<1> QED BY <1>1, <1>2 DEF Typed, Places, Early

(* The block and the token that reading starts with.                       *)
LEMMA Start ==
    ASSUME text \in Texts, NEW m, IsBlock(m), Unwritten(m, 0), NEW tok, tok = get_token(m, 0)
    PROVE  /\ tok \in Token
           /\ Overrun(tok, m) => Len(m) = n
           /\ ~Overrun(tok, m) =>
                 /\ TokenIn(m, tok) /\ m[tok.beg + 1] \notin Delims /\ Unwritten(m, tok.beg)
                 /\ tok.beg \in 1..n => text[tok.beg] \in Delims
                 /\ LinesBefore(tok.beg) = {}
<1>1. text \in Seq(Chars) /\ n \in Nat /\ Len(m) \in Nat /\ Len(m) >= n
    BY TextIs, BlockCells
<1>2. 0 \in 0..Len(m) /\ 0 \in 0..n /\ (0 \in 1..n => text[0] \in Delims)
    BY <1>1
<1>3. /\ tok \in Token /\ tok.beg >= 0
      /\ \A k \in (0 + 1)..tok.beg : k <= n => text[k] \in Delims
      /\ ~Overrun(tok, m) =>
            /\ TokenIn(m, tok) /\ m[tok.beg + 1] \notin Delims /\ Unwritten(m, tok.beg)
            /\ tok.beg \in 1..n => text[tok.beg] \in Delims
    BY <1>1, <1>2, NextToken
<1>4. LinesBefore(tok.beg) = {}
    <2>1. tok.beg \in Nat /\ \A k \in 1..tok.beg : k <= n => text[k] \in Delims
        BY <1>3 DEF Token
    <2> QED BY <1>1, <2>1, NoLineBefore
<1>5. ASSUME Overrun(tok, m) PROVE Len(m) = n
    <2> SUFFICES ASSUME n < Len(m) PROVE FALSE
        BY <1>1
    <2>1. ~Overrun(get_token(m, 0), m)
        BY <1>1, <1>2, NoOverrun
    <2> QED BY <1>5, <2>1
<1> QED BY <1>3, <1>4, <1>5

LEMMA ReadBuff ==
    ASSUME text \in Texts, n > 0, NEW slack \in Nat
    PROVE  IsBlock(read_buff(text, slack)) /\ Unwritten(read_buff(text, slack), 0)
<1> DEFINE z == [k \in 1..slack |-> "nul"]
           m == text \o z
<1>1. text \in Seq(Chars) /\ n \in Nat
    BY TextIs
<1>2. z \in Seq(Chars \cup {"nul"}) /\ Len(z) = slack
    <2>1. z \in [1..slack -> Chars \cup {"nul"}]
        OBVIOUS
    <2> HIDE DEF z
    <2>2. z \in Seq(Chars \cup {"nul"})
        BY <2>1
    <2> QED BY <2>1, <2>2, LenProperties
<1>3. \A k \in 1..slack : z[k] = "nul"
    OBVIOUS
<1>4. text \in Seq(Chars \cup {"nul"})
    BY <1>1
<1> HIDE DEF z
<1>5. /\ m \in Seq(Chars \cup {"nul"}) /\ Len(m) = n + slack
      /\ \A k \in 1..(n + slack) : m[k] = IF k <= n THEN text[k] ELSE z[k - n]
    BY <1>2, <1>4, ConcatProperties DEF n
<1> HIDE DEF m
<1>6. \A k \in 1..n : m[k] = text[k]
    BY <1>1, <1>5
<1>7. \A k \in (n + 1)..Len(m) : m[k] = "nul"
    <2> SUFFICES ASSUME NEW k \in (n + 1)..Len(m) PROVE m[k] = "nul"
        OBVIOUS
    <2>1. k \in 1..(n + slack) /\ ~(k <= n) /\ k - n \in 1..slack
        BY <1>1, <1>5
    <2> QED BY <1>3, <1>5, <2>1
<1>8. read_buff(text, slack) = m
    BY DEF read_buff, m, z
<1> QED BY <1>1, <1>5, <1>6, <1>7, <1>8 DEF IsBlock, Block, Unwritten

LEMMA ReadKeeps ==
    ASSUME IInv, Read
    PROVE  IInv'
<1>1. /\ text' = text /\ verse' = verse /\ out' = out /\ pc = "read"
      /\ text \in Texts /\ VecOK(tokens) /\ tokens.size = 0 /\ verse = NoVerse /\ cur \in Token /\ count \in 0..(n + 1)
      /\ out = [lines |-> out.lines, raw |-> out.raw]
      /\ verse \in [i : Nat, j : Nat, str_num : Nat, err : BOOLEAN]
    BY EmptyVec DEF IInv, Typed, Read
<1>2. text \in Seq(Chars) /\ n \in Nat
    BY <1>1, TextIs
<1>3. PICK slack \in Slacks, file_ok, vec_ok \in BOOLEAN :
          LET buff == buf_ctor_by_file(text, slack, file_ok)
              vec  == Vec!vec_ctor(tokens, vec_ok)
          IN  /\ mem' = buff.data
              /\ IF buff.err # "BUFF_SUCCESS"
                 THEN pc' = "failed" /\ UNCHANGED <<tokens, cur, count>>
                 ELSE IF vec.err # "VEC_SUCCESS"
                 THEN pc' = "failed" /\ tokens' = vec.vec /\ UNCHANGED <<cur, count>>
                 ELSE /\ tokens' = vec.vec
                      /\ cur' = get_token(mem', 0)
                      /\ count' = 1
                      /\ pc' = IF Overrun(cur', mem') THEN "overrun" ELSE "count"
    BY DEF Read
<1> DEFINE buff == buf_ctor_by_file(text, slack, file_ok)
           v    == Vec!vec_ctor(tokens, vec_ok).vec
<1>4. VecOK(v) /\ v.size = 0
    BY <1>1, Constructs
<1>5. /\ mem' = buff.data
      /\ \/ pc' = "failed" /\ (tokens' = tokens \/ tokens' = v) /\ cur' = cur /\ count' = count
         \/ /\ buff.err = "BUFF_SUCCESS" /\ tokens' = v /\ cur' = get_token(mem', 0) /\ count' = 1
            /\ pc' = IF Overrun(cur', mem') THEN "overrun" ELSE "count"
    BY <1>3
<1>6. \/ buff.err = "BUFF_SUCCESS" /\ n > 0 /\ buff.data = read_buff(text, slack)
      \/ buff.err # "BUFF_SUCCESS" /\ buff.data = <<>>
    BY <1>2 DEF buf_ctor_by_file, file_size, n
<1> HIDE DEF buff, v
<1>7. slack \in Nat
    BY OneginAssumption
<1>8. VecOK(tokens') /\ tokens'.size = 0
    BY <1>1, <1>4, <1>5
<1>9. TokensIn(tokens') /\ TokensAre(tokens', {})
    BY <1>2, <1>8, NoTokens
<1>10. buff.err = "BUFF_SUCCESS" => IsBlock(mem') /\ Unwritten(mem', 0) /\ n > 0
    BY <1>1, <1>5, <1>6, <1>7, ReadBuff
<1>11. mem' \in Block
    <2>1. <<>> \in Block
        BY DEF Block
    <2> QED BY <1>5, <1>6, <1>10, <2>1 DEF IsBlock
<1>12. CASE pc' = "failed" /\ cur' = cur /\ count' = count
    <2>1. Typed'
        <3>1. pc' \in Places \ {"read"} /\ pc' \notin Early
            BY <1>12 DEF Places, Early, Over
        <3>2. Typed
            BY DEF IInv
        <3> QED BY <1>1, <1>8, <1>9, <1>11, <1>12, <3>1, <3>2, TypedAgain
    <2>2. Counting' /\ Tokenizing' /\ AllRead' /\ Dumped'
        BY <1>12 DEF Counting, Tokenizing, AllRead, Dumped
    <2>3. Rhyming'
        BY <1>8, <1>12 DEF Rhyming
    <2>4. InsideBlock' /\ OriginalKept'
        BY <1>12 DEF InsideBlock, OriginalKept
    <2> QED BY <2>1, <2>2, <2>3, <2>4 DEF IInv
<1>13. CASE /\ buff.err = "BUFF_SUCCESS" /\ cur' = get_token(mem', 0) /\ count' = 1
            /\ pc' = IF Overrun(cur', mem') THEN "overrun" ELSE "count"
    <2>1. /\ cur' \in Token /\ (Overrun(cur', mem') => Len(mem') = n)
          /\ ~Overrun(cur', mem') => TokenIn(mem', cur')
        BY <1>1, <1>10, <1>13, Start
    <2>2. Typed'
        <3>1. pc' \in Places \ {"read"} /\ count' \in 0..(n + 1)
            BY <1>2, <1>13 DEF Places, Over
        <3>2. Typed
            BY DEF IInv
        <3> QED BY <1>1, <1>8, <1>9, <1>11, <2>1, <3>1, <3>2, TypedAgain
    <2>3. Counting'
        <3>1. pc' = "count" => ~Overrun(cur', mem')
            BY <1>13
        <3>2. IsBlock(mem') /\ Unwritten(mem', 0)
            BY <1>10, <1>13
        <3> QED BY <1>1, <1>8, <2>1, <3>1, <3>2, Afterwards DEF Counting
    <2>4. Tokenizing' /\ AllRead' /\ Dumped'
        BY <1>13 DEF Tokenizing, AllRead, Dumped
    <2>5. Rhyming'
        BY <1>8, <1>13 DEF Rhyming
    <2>6. InsideBlock'
        <3>1. pc' = "overrun" => Len(mem') - n < 1
            BY <1>2, <1>13, <2>1
        <3>2. n' = n
            BY <1>1, Afterwards
        <3> QED BY <1>2, <3>1, <3>2, BlockCells, <1>10, <1>13 DEF InsideBlock
    <2>7. OriginalKept'
        BY <1>13 DEF OriginalKept
    <2> QED BY <2>2, <2>3, <2>4, <2>5, <2>6, <2>7 DEF IInv
<1> QED BY <1>5, <1>12, <1>13

LEMMA CountMoreKeeps ==
    ASSUME IInv, CountMore
    PROVE  IInv'
<1> DEFINE after == cur.beg + cur.size
           e     == SpanEnd(mem, after, Delims)
           beg   == cur.beg + e - after
           last  == SpanEnd(mem, beg, Chars \ Delims)
           tok   == [beg |-> beg, size |-> last - beg]
<1>1. /\ text' = text /\ mem' = mem /\ tokens' = tokens /\ verse' = verse /\ out' = out
      /\ pc = "count" /\ mem[cur.beg + 1] # "nul" /\ cur.size # 0
      /\ \/ e = Len(mem) /\ pc' = "overrun" /\ cur' = cur /\ count' = count
         \/ /\ e # Len(mem) /\ cur' = tok
            /\ pc' = IF Overrun(cur', mem) THEN "overrun" ELSE "count"
            /\ count' = IF count > n THEN count ELSE count + 1
    BY DEF CountMore, At
<1>2. /\ text \in Texts /\ VecOK(tokens) /\ TokensIn(tokens) /\ verse = NoVerse /\ cur \in Token /\ count \in 0..(n + 1)
      /\ out = [lines |-> out.lines, raw |-> out.raw] /\ mem \in Block
      /\ verse \in [i : Nat, j : Nat, str_num : Nat, err : BOOLEAN]
      /\ IsBlock(mem) /\ Unwritten(mem, 0) /\ TokenIn(mem, cur) /\ tokens.size = 0
    BY <1>1 DEF IInv, Typed, Counting
<1>3. text \in Seq(Chars) /\ n \in Nat /\ Len(mem) \in Nat /\ Len(mem) >= n
    BY <1>2, TextIs, BlockCells
<1>4. /\ cur.beg \in Nat /\ cur.size \in Nat /\ cur.size > 0 /\ after < Len(mem) /\ after \in 0..Len(mem)
      /\ after = cur.beg + cur.size
    BY <1>1, <1>2, <1>3 DEF TokenIn, Token
<1>5. after <= n
    <2> SUFFICES ASSUME after > n PROVE FALSE
        BY <1>3, <1>4
    <2>1. after - 1 \in cur.beg..(cur.beg + cur.size - 1) /\ after - 1 + 1 = after /\ after \in (n + 1)..Len(mem)
        BY <1>3, <1>4
    <2>2. mem[after - 1 + 1] \in Chars
        BY <1>2, <2>1 DEF TokenIn
    <2>3. mem[after] = "nul"
        BY <1>2, <1>3, <2>1, BlockCells
    <2> QED BY <2>1, <2>2, <2>3, Letters
<1> HIDE DEF after
<1>6. e \in after..Len(mem) /\ (Len(mem) > n => e \in after..n)
    <2>1. e \in after..Len(mem)
        BY <1>3, <1>4, SpanEndIs
    <2>2. ASSUME Len(mem) > n PROVE e \in after..n
        <3>1. after \in 0..n /\ n <= n
            BY <1>3, <1>4, <1>5
        <3>2. n < Len(mem)
            BY <1>3, <2>2
        <3> QED BY <1>2, <1>3, <3>1, <3>2, Letters, EndsInText
    <2> QED BY <2>1, <2>2
<1> HIDE DEF e
<1>7. beg \in 0..Len(mem) /\ (Len(mem) > n => beg \in 0..n)
    BY <1>3, <1>4, <1>6
<1> HIDE DEF beg
<1>8. /\ last \in beg..Len(mem) /\ (last = Len(mem) \/ mem[last + 1] \notin Chars \ Delims)
      /\ \A r \in beg..(last - 1) : mem[r + 1] \in Chars \ Delims
      /\ Len(mem) > n => last \in beg..n
    <2>1. /\ last \in beg..Len(mem) /\ (last = Len(mem) \/ mem[last + 1] \notin Chars \ Delims)
          /\ \A r \in beg..(last - 1) : mem[r + 1] \in Chars \ Delims
        BY <1>3, <1>7, SpanEndIs
    <2>2. ASSUME Len(mem) > n PROVE last \in beg..n
        <3>1. beg \in 0..n /\ n <= n /\ n < Len(mem) /\ Chars \ Delims \in SUBSET Chars
            BY <1>3, <1>7, <2>2
        <3> QED BY <1>2, <1>3, <3>1, EndsInText
    <2> QED BY <2>1, <2>2
<1> HIDE DEF last
<1>9. tok \in Token /\ tok.beg = beg /\ tok.size = last - beg /\ tok.beg + tok.size = last
    BY <1>3, <1>7, <1>8 DEF Token
<1> HIDE DEF tok
<1>10. ~Overrun(tok, mem) => TokenIn(mem, tok)
    <2> SUFFICES ASSUME ~Overrun(tok, mem) PROVE TokenIn(mem, tok)
        OBVIOUS
    <2>1. last < Len(mem)
        BY <1>3, <1>8, <1>9 DEF Overrun
    <2>2. tok.beg..(tok.beg + tok.size - 1) = beg..(last - 1)
        BY <1>3, <1>7, <1>8, <1>9
    <2>3. \A r \in tok.beg..(tok.beg + tok.size - 1) : mem[r + 1] \in Chars \ Delims
        BY <1>8, <2>2
    <2>4. mem[tok.beg + tok.size + 1] \notin Chars \ Delims
        BY <1>8, <1>9, <2>1
    <2> QED BY <1>9, <2>1, <2>3, <2>4 DEF TokenIn
<1>11. Overrun(tok, mem) \/ e = Len(mem) => Len(mem) = n
    <2> SUFFICES ASSUME Len(mem) > n PROVE ~Overrun(tok, mem) /\ e # Len(mem)
        BY <1>3
    <2> QED BY <1>3, <1>4, <1>6, <1>8, <1>9 DEF Overrun
<1>12. cur' \in Token /\ count' \in 0..(n + 1)
    BY <1>1, <1>2, <1>3, <1>9
<1>13. pc' \in {"count", "overrun"}
    BY <1>1
<1>14. Typed'
    <2>1. pc' \in Places \ {"read"}
        BY <1>13 DEF Places, Over
    <2>2. Typed
        BY DEF IInv
    <2> QED BY <1>1, <1>2, <1>12, <2>1, <2>2, TypedAgain
<1>15. Counting'
    <2>1. pc' = "count" => TokenIn(mem', cur')
        BY <1>1, <1>10
    <2> QED BY <1>1, <1>2, <2>1, Afterwards DEF Counting
<1>16. Tokenizing' /\ AllRead' /\ Dumped'
    BY <1>13 DEF Tokenizing, AllRead, Dumped
<1>17. Rhyming'
    BY <1>1, <1>2, <1>13 DEF Rhyming
<1>18. InsideBlock'
    <2>1. pc' = "overrun" => Len(mem') - n < 1
        BY <1>1, <1>3, <1>11
    <2>2. n' = n
        BY <1>1, Afterwards
    <2> QED BY <1>1, <1>3, <2>1, <2>2 DEF InsideBlock
<1>19. OriginalKept'
    BY <1>13 DEF OriginalKept
<1> QED BY <1>14, <1>15, <1>16, <1>17, <1>18, <1>19 DEF IInv

LEMMA ReserveKeeps ==
    ASSUME IInv, Reserve
    PROVE  IInv'
<1>1. /\ text' = text /\ mem' = mem /\ count' = count /\ verse' = verse /\ out' = out
      /\ pc = "count" /\ cur' = get_token(mem, 0)
      /\ pc' = IF Overrun(cur', mem) THEN "overrun" ELSE "tokenize"
      /\ \E ok \in BOOLEAN : tokens' = Vec!vec_reserve(tokens, count, ok).vec
    BY DEF Reserve
<1>2. /\ text \in Texts /\ VecOK(tokens) /\ verse = NoVerse /\ count \in 0..(n + 1)
      /\ out = [lines |-> out.lines, raw |-> out.raw] /\ mem \in Block
      /\ verse \in [i : Nat, j : Nat, str_num : Nat, err : BOOLEAN]
      /\ IsBlock(mem) /\ Unwritten(mem, 0) /\ tokens.size = 0
    BY <1>1 DEF IInv, Typed, Counting
<1>3. n \in Nat /\ Len(mem) \in Nat
    BY <1>2, TextIs, BlockCells
<1>4. VecOK(tokens') /\ tokens'.size = 0
    <2>1. count \in Nat
        BY <1>2, <1>3
    <2> QED BY <1>1, <1>2, <2>1, Reserves
<1>5. TokensIn(tokens') /\ TokensAre(tokens', {})
    BY <1>3, <1>4, NoTokens
<1>6. /\ cur' \in Token
      /\ Overrun(cur', mem) => Len(mem) = n
      /\ ~Overrun(cur', mem) =>
            /\ TokenIn(mem, cur') /\ mem[cur'.beg + 1] \notin Delims /\ Unwritten(mem, cur'.beg)
            /\ cur'.beg \in 1..n => text[cur'.beg] \in Delims
            /\ LinesBefore(cur'.beg) = {}
    BY <1>1, <1>2, Start
<1>7. pc' \in {"tokenize", "overrun"}
    BY <1>1
<1>8. Typed'
    <2>1. pc' \in Places \ {"read"}
        BY <1>7 DEF Places, Over
    <2>2. Typed
        BY DEF IInv
    <2> QED BY <1>1, <1>2, <1>4, <1>5, <1>6, <2>1, <2>2, TypedAgain
<1>9. Tokenizing'
    <2> SUFFICES ASSUME pc' = "tokenize" PROVE Tokenizing'
        BY DEF Tokenizing
    <2>1. /\ IsBlock(mem') /\ Unwritten(mem', cur'.beg) /\ TokenIn(mem', cur') /\ mem'[cur'.beg + 1] \notin Delims
          /\ cur'.beg \in 1..n => text[cur'.beg] \in Delims
          /\ TokensAre(tokens', LinesBefore(cur'.beg))
        BY <1>1, <1>2, <1>5, <1>6
    <2>2. tokens'.size <= cur'.beg
        BY <1>4, <1>6 DEF Token
    <2> QED BY <1>1, <2>1, <2>2, Afterwards DEF Tokenizing
<1>10. Counting' /\ AllRead' /\ Dumped'
    BY <1>7 DEF Counting, AllRead, Dumped
<1>11. Rhyming'
    BY <1>4, <1>7 DEF Rhyming
<1>12. InsideBlock'
    <2>1. pc' = "overrun" => Len(mem') - n < 1
        BY <1>1, <1>3, <1>6
    <2>2. n' = n
        BY <1>1, Afterwards
    <2> QED BY <1>1, <1>3, <2>1, <2>2 DEF InsideBlock
<1>13. OriginalKept'
    BY <1>7 DEF OriginalKept
<1> QED BY <1>8, <1>9, <1>10, <1>11, <1>12, <1>13 DEF IInv

(* The vector after a round of the tokenizer.                              *)
LEMMA LinePushed ==
    ASSUME NEW m, NEW tok, Found(m, tok), text \in Seq(Chars), NEW v, NEW w, VecOK(v), TokensIn(v),
           v.size <= tok.beg, TokensAre(v, LinesBefore(tok.beg)),
           IF tok \in Lines THEN Pushed(w, v, tok) ELSE w = v
    PROVE  /\ VecOK(w) /\ TokensIn(w) /\ w.size <= tok.beg + 1
           /\ TokensAre(w, LinesBefore(tok.beg) \cup (Lines \cap {tok}))
<1>1. /\ tok.beg \in Nat /\ tok.size \in Nat /\ tok.size > 0 /\ tok.beg + tok.size <= n /\ n \in Nat
    BY FoundInText
<1>2. v.size \in Nat
    BY DEF VecOK
<1>3. CASE tok \notin Lines
    BY <1>1, <1>2, <1>3 DEF TokensAre
<1>4. CASE tok \in Lines
    <2>1. /\ VecOK(w) /\ w.size = v.size + 1 /\ w.cells[v.size] = tok
          /\ \A k \in 0..(v.size - 1) : w.cells[k] = v.cells[k]
        BY <1>4 DEF Pushed
    <2>2. \A k \in 0..(v.size - 1) : v.cells[k] \in LinesBefore(tok.beg) /\ v.cells[k].beg + v.cells[k].size <= n
        BY DEF TokensAre, TokensIn
    <2>3. tok \notin LinesBefore(tok.beg)
        BY <1>1 DEF LinesBefore
    <2>4. \A k \in 0..(w.size - 1) : k = v.size \/ k \in 0..(v.size - 1)
        BY <1>2, <2>1
    <2>5. TokensIn(w)
        <3>1. w.size <= n
            BY <1>1, <1>2, <2>1
        <3>2. \A k \in 0..(w.size - 1) : w.cells[k].beg + w.cells[k].size <= n
            BY <1>1, <2>1, <2>2, <2>4
        <3>3. \A k, l \in 0..(v.size - 1) : k # l => w.cells[k] # w.cells[l]
            BY <2>1 DEF TokensIn
        <3>4. \A k \in 0..(v.size - 1) : w.cells[k] # w.cells[v.size]
            BY <2>1, <2>2, <2>3
        <3>5. \A k, l \in 0..(w.size - 1) : k # l => w.cells[k] # w.cells[l]
            BY <2>4, <3>3, <3>4
        <3> QED BY <3>1, <3>2, <3>5 DEF TokensIn
    <2>6. TokensAre(w, LinesBefore(tok.beg) \cup (Lines \cap {tok}))
        <3> DEFINE L == LinesBefore(tok.beg)
        <3>1. \A k \in 0..(w.size - 1) : w.cells[k] \in L \cup (Lines \cap {tok})
            BY <1>4, <2>1, <2>2, <2>4
        <3>2. ASSUME NEW t \in L \cup (Lines \cap {tok}) PROVE \E k \in 0..(w.size - 1) : w.cells[k] = t
            <4>1. CASE t = tok
                <5>1. v.size \in 0..(w.size - 1)
                    BY <1>2, <2>1
                <5> QED BY <2>1, <4>1, <5>1
            <4>2. CASE t \in L
                <5>1. PICK k \in 0..(v.size - 1) : v.cells[k] = t
                    BY <4>2 DEF TokensAre
                <5>2. k \in 0..(w.size - 1)
                    BY <1>2, <2>1
                <5> QED BY <2>1, <5>1, <5>2
            <4> QED BY <4>1, <4>2
        <3> HIDE DEF L
        <3> QED BY <3>1, <3>2 DEF TokensAre, L
    <2> QED BY <1>1, <1>2, <2>1, <2>5, <2>6
<1> QED BY <1>3, <1>4

(* One round: the token gets its '\0' and its place in the vector, or     *)
(* there is no memory for it.                                              *)
LEMMA TokenizeRound ==
    ASSUME IInv, Tokenize
    PROVE  /\ Found(mem, cur) /\ text \in Seq(Chars) /\ mem' = [mem EXCEPT ![cur.beg + cur.size + 1] = "nul"]
           /\ IsBlock(mem') /\ Len(mem') = Len(mem) /\ Unwritten(mem', cur.beg + cur.size + 1)
           /\ verify_line(mem', cur) <=> cur \in Lines
           /\ \/ /\ IF cur \in Lines THEN Pushed(tokens', tokens, cur) ELSE tokens' = tokens
                 /\ cur' = get_token(mem', cur.beg + cur.size + 1)
                 /\ pc' = IF Overrun(cur', mem') THEN "overrun" ELSE "tokenize"
              \/ tokens' = tokens /\ cur' = cur /\ pc' = "failed"
<1> DEFINE e == cur.beg + cur.size
<1>1. /\ text' = text /\ count' = count /\ verse' = verse /\ out' = out
      /\ pc = "tokenize" /\ mem[cur.beg + 1] # "nul" /\ mem' = [mem EXCEPT ![e + 1] = "nul"]
    BY DEF Tokenize, TokenizeWith, At
<1>2. PICK ok \in BOOLEAN :
          LET res == IF verify_line(mem', cur) THEN Vec!vec_push_back(tokens, cur, ok)
                     ELSE [vec |-> tokens, err |-> "VEC_SUCCESS"]
          IN  /\ tokens' = res.vec
              /\ IF res.err # "VEC_SUCCESS"
                 THEN pc' = "failed" /\ UNCHANGED cur
                 ELSE /\ cur' = get_token(mem', e + 1)
                      /\ pc' = IF Overrun(cur', mem') THEN "overrun" ELSE "tokenize"
    BY DEF Tokenize, TokenizeWith
<1>3. /\ text \in Texts /\ VecOK(tokens) /\ TokensIn(tokens) /\ verse = NoVerse /\ cur \in Token /\ count \in 0..(n + 1)
      /\ out = [lines |-> out.lines, raw |-> out.raw] /\ mem \in Block
      /\ verse \in [i : Nat, j : Nat, str_num : Nat, err : BOOLEAN]
      /\ IsBlock(mem) /\ Unwritten(mem, cur.beg) /\ TokenIn(mem, cur) /\ mem[cur.beg + 1] \notin Delims
      /\ cur.beg \in 1..n => text[cur.beg] \in Delims
      /\ tokens.size <= cur.beg /\ TokensAre(tokens, LinesBefore(cur.beg))
    BY <1>1 DEF IInv, Typed, Tokenizing
<1>4. Found(mem, cur) /\ text \in Seq(Chars)
    BY <1>1, <1>3, TextIs DEF Found
<1>5. /\ cur.beg \in Nat /\ cur.size \in Nat /\ cur.size > 0 /\ e <= n /\ n \in Nat /\ n > 0
      /\ \A k \in (cur.beg + 1)..e : text[k] \in Chars \ Delims
      /\ e < n => text[e + 1] \in Delims
    <2>1. n > 0
        BY <1>3 DEF IsBlock
    <2> QED BY <1>4, <2>1, FoundInText
<1>6. /\ IsBlock(mem') /\ Len(mem') = Len(mem) /\ Unwritten(mem', e + 1)
      /\ verify_line(mem', cur) <=> cur \in Lines
    <2>1. mem' = [mem EXCEPT ![cur.beg + cur.size + 1] = "nul"]
        BY <1>1
    <2>2. /\ IsBlock(mem') /\ Len(mem') = Len(mem) /\ Unwritten(mem', cur.beg + cur.size + 1)
          /\ verify_line(mem', cur) <=> verify_line(mem, cur)
        <3>1. /\ IsBlock([mem EXCEPT ![cur.beg + cur.size + 1] = "nul"])
              /\ Len([mem EXCEPT ![cur.beg + cur.size + 1] = "nul"]) = Len(mem)
              /\ Unwritten([mem EXCEPT ![cur.beg + cur.size + 1] = "nul"], cur.beg + cur.size + 1)
              /\ verify_line([mem EXCEPT ![cur.beg + cur.size + 1] = "nul"], cur) <=> verify_line(mem, cur)
            BY ONLY <1>4, EndPut
        <3> QED BY ONLY <2>1, <3>1
    <2>3. verify_line(mem, cur) <=> cur \in Lines
        BY <1>4, FoundIsLine
    <2> QED BY <2>2, <2>3
<1>7. Len(mem) \in Nat /\ Len(mem) >= n /\ e < Len(mem)
    BY <1>3, <1>4, BlockCells DEF TokenIn
<1> HIDE DEF e
<1>8. \/ /\ IF cur \in Lines THEN Pushed(tokens', tokens, cur) ELSE tokens' = tokens
         /\ cur' = get_token(mem', e + 1)
         /\ pc' = IF Overrun(cur', mem') THEN "overrun" ELSE "tokenize"
      \/ tokens' = tokens /\ cur' = cur /\ pc' = "failed"
    <2>1. \/ Vec!vec_push_back(tokens, cur, ok).err = "VEC_SUCCESS" /\ Pushed(Vec!vec_push_back(tokens, cur, ok).vec, tokens, cur)
          \/ Vec!vec_push_back(tokens, cur, ok).err # "VEC_SUCCESS" /\ Vec!vec_push_back(tokens, cur, ok).vec = tokens
        BY <1>3, Pushes
    <2> QED BY <1>2, <1>6, <2>1
<1>9. mem' = [mem EXCEPT ![cur.beg + cur.size + 1] = "nul"]
    BY <1>1 DEF e
<1>10. Unwritten(mem', cur.beg + cur.size + 1)
    BY <1>6 DEF e
<1>11. get_token(mem', e + 1) = get_token(mem', cur.beg + cur.size + 1)
    BY DEF e
<1> QED BY <1>4, <1>6, <1>8, <1>9, <1>10, <1>11

LEMMA TokenizeKeeps ==
    ASSUME IInv, Tokenize
    PROVE  IInv'
<1> DEFINE e == cur.beg + cur.size
<1>1. /\ text' = text /\ count' = count /\ verse' = verse /\ out' = out
      /\ pc = "tokenize" /\ mem[cur.beg + 1] # "nul" /\ mem' = [mem EXCEPT ![e + 1] = "nul"]
    BY DEF Tokenize, TokenizeWith, At
<1>3. /\ text \in Texts /\ VecOK(tokens) /\ TokensIn(tokens) /\ verse = NoVerse /\ cur \in Token /\ count \in 0..(n + 1)
      /\ out = [lines |-> out.lines, raw |-> out.raw] /\ mem \in Block
      /\ verse \in [i : Nat, j : Nat, str_num : Nat, err : BOOLEAN]
      /\ IsBlock(mem) /\ Unwritten(mem, cur.beg) /\ TokenIn(mem, cur) /\ mem[cur.beg + 1] \notin Delims
      /\ cur.beg \in 1..n => text[cur.beg] \in Delims
      /\ tokens.size <= cur.beg /\ TokensAre(tokens, LinesBefore(cur.beg))
    BY <1>1 DEF IInv, Typed, Tokenizing
<1>4. Found(mem, cur) /\ text \in Seq(Chars)
    BY TokenizeRound
<1>5. /\ cur.beg \in Nat /\ cur.size \in Nat /\ cur.size > 0 /\ e <= n /\ n \in Nat /\ n > 0
      /\ \A k \in (cur.beg + 1)..e : text[k] \in Chars \ Delims
      /\ e < n => text[e + 1] \in Delims
    <2>1. n > 0
        BY <1>3 DEF IsBlock
    <2> QED BY <1>4, <2>1, FoundInText
<1>6. /\ IsBlock(mem') /\ Len(mem') = Len(mem) /\ Unwritten(mem', e + 1)
      /\ verify_line(mem', cur) <=> cur \in Lines
    BY TokenizeRound
<1>7. Len(mem) \in Nat /\ Len(mem) >= n /\ e < Len(mem)
    BY <1>3, <1>4, BlockCells DEF TokenIn
<1> HIDE DEF e
<1>8. \/ /\ IF cur \in Lines THEN Pushed(tokens', tokens, cur) ELSE tokens' = tokens
         /\ cur' = get_token(mem', e + 1)
         /\ pc' = IF Overrun(cur', mem') THEN "overrun" ELSE "tokenize"
      \/ tokens' = tokens /\ cur' = cur /\ pc' = "failed"
    BY TokenizeRound DEF e
<1>9. mem' \in Block
    BY <1>6 DEF IsBlock
<1>10. CASE tokens' = tokens /\ cur' = cur /\ pc' = "failed"
    <2>1. Typed'
        <3>1. pc' \in Places \ {"read"} /\ pc' \notin Early
            BY <1>10 DEF Places, Early, Over
        <3>2. Typed
            BY DEF IInv
        <3> QED BY <1>1, <1>3, <1>9, <1>10, <3>1, <3>2, TypedAgain
    <2>2. Counting' /\ Tokenizing' /\ AllRead' /\ Dumped'
        BY <1>10 DEF Counting, Tokenizing, AllRead, Dumped
    <2>3. Rhyming'
        BY <1>1, <1>3, <1>10 DEF Rhyming, NoVerse
    <2>4. InsideBlock' /\ OriginalKept'
        BY <1>10 DEF InsideBlock, OriginalKept
    <2> QED BY <2>1, <2>2, <2>3, <2>4 DEF IInv
<1>11. CASE /\ IF cur \in Lines THEN Pushed(tokens', tokens, cur) ELSE tokens' = tokens
            /\ cur' = get_token(mem', e + 1)
            /\ pc' = IF Overrun(cur', mem') THEN "overrun" ELSE "tokenize"
    <2>1. /\ VecOK(tokens') /\ TokensIn(tokens') /\ tokens'.size <= cur.beg + 1
          /\ TokensAre(tokens', LinesBefore(cur.beg) \cup (Lines \cap {cur}))
        BY <1>3, <1>4, <1>11, LinePushed
    <2>2. /\ cur' \in Token /\ cur'.beg >= e + 1
          /\ \A k \in (e + 1 + 1)..cur'.beg : k <= n => text[k] \in Delims
          /\ ~Overrun(cur', mem') =>
                 /\ TokenIn(mem', cur') /\ mem'[cur'.beg + 1] \notin Delims /\ Unwritten(mem', cur'.beg)
                 /\ cur'.beg \in 1..n => text[cur'.beg] \in Delims
        <3>1. e + 1 \in 0..Len(mem') /\ (e + 1 \in 1..n => text[e + 1] \in Delims)
            BY <1>5, <1>6, <1>7 DEF e
        <3> QED BY <1>4, <1>6, <1>11, <3>1, NextToken
    <2>3. cur'.beg \in Nat
        BY <2>2 DEF Token
    <2>4. LinesBefore(cur'.beg) = LinesBefore(cur.beg) \cup (Lines \cap {cur})
        <3>1. cur'.beg > cur.beg
            BY <1>5, <2>2, <2>3 DEF e
        <3>2. \A k \in (cur.beg + cur.size + 2)..cur'.beg : k <= n => text[k] \in Delims
            <4>1. e + 1 + 1 = cur.beg + cur.size + 2
                BY <1>5 DEF e
            <4> QED BY <2>2, <4>1
        <3> QED BY <1>4, <2>3, <3>1, <3>2, LinesUpTo
    <2>5. pc' \in {"tokenize", "overrun"}
        BY <1>11
    <2>6. Typed'
        <3>1. pc' \in Places \ {"read"}
            BY <2>5 DEF Places, Over
        <3>2. Typed
            BY DEF IInv
        <3> QED BY <1>1, <1>3, <1>9, <2>1, <2>2, <3>1, <3>2, TypedAgain
    <2>7. Tokenizing'
        <3> SUFFICES ASSUME pc' = "tokenize" PROVE Tokenizing'
            BY DEF Tokenizing
        <3>1. /\ IsBlock(mem') /\ Unwritten(mem', cur'.beg) /\ TokenIn(mem', cur') /\ mem'[cur'.beg + 1] \notin Delims
              /\ cur'.beg \in 1..n => text[cur'.beg] \in Delims
              /\ TokensAre(tokens', LinesBefore(cur'.beg))
            BY <1>6, <1>11, <2>1, <2>2, <2>4
        <3>2. tokens'.size <= cur'.beg
            <4>1. tokens'.size \in Nat
                BY <2>1 DEF VecOK
            <4> QED BY <1>5, <2>1, <2>2, <2>3, <4>1 DEF e
        <3> QED BY <1>1, <3>1, <3>2, Afterwards DEF Tokenizing
    <2>8. Counting' /\ AllRead' /\ Dumped'
        BY <2>5 DEF Counting, AllRead, Dumped
    <2>9. Rhyming'
        BY <1>1, <1>3, <2>5 DEF Rhyming, NoVerse
    <2>10. InsideBlock'
        <3> SUFFICES ASSUME pc' = "overrun" PROVE InsideBlock'
            BY DEF InsideBlock
        <3>1. Overrun(get_token(mem', e + 1), mem')
            BY <1>11
        <3>2. Len(mem') \in Nat /\ e \in Nat
            BY <1>5, <1>6, <1>7 DEF e
        <3>3. e < n => ~(n < Len(mem'))
            <4> SUFFICES ASSUME e < n, n < Len(mem') PROVE FALSE
                OBVIOUS
            <4>1. e + 1 \in 0..n /\ n <= n
                BY <1>5, <3>2
            <4> QED BY <1>4, <1>5, <1>6, <3>1, <4>1, NoOverrun
        <3>4. ~(n + 1 < Len(mem'))
            <4> SUFFICES ASSUME n + 1 < Len(mem') PROVE FALSE
                OBVIOUS
            <4>1. e + 1 \in 0..(n + 1) /\ n <= n + 1 /\ n + 1 \in Nat
                BY <1>5, <3>2
            <4> QED BY <1>4, <1>6, <3>1, <4>1, NoOverrun
        <3>5. text[n] \in Delims => e < n
            <4>1. e = n => n \in (cur.beg + 1)..e
                BY <1>5 DEF e
            <4> QED BY <1>5, <3>2, <4>1
        <3>6. n' = n
            BY <1>1, Afterwards
        <3>7. Len(mem') - n < (IF text[n] \in Delims THEN 1 ELSE 2)
            BY <1>5, <3>2, <3>3, <3>4, <3>5
        <3> QED BY <1>1, <3>6, <3>7 DEF InsideBlock
    <2>11. OriginalKept'
        BY <2>5 DEF OriginalKept
    <2> QED BY <2>6, <2>7, <2>8, <2>9, <2>10, <2>11 DEF IInv
<1> QED BY <1>8, <1>10, <1>11

LEMMA TokenizedKeeps ==
    ASSUME IInv, Tokenized
    PROVE  IInv'
<1>1. /\ text' = text /\ mem' = mem /\ tokens' = tokens /\ cur' = cur /\ count' = count /\ verse' = verse /\ out' = out
      /\ pc = "tokenize" /\ pc' = "sort" /\ mem[cur.beg + 1] = "nul"
    BY DEF Tokenized, At
<1>2. /\ text \in Texts /\ VecOK(tokens) /\ TokensIn(tokens) /\ verse = NoVerse /\ cur \in Token /\ count \in 0..(n + 1)
      /\ out = [lines |-> out.lines, raw |-> out.raw] /\ mem \in Block
      /\ verse \in [i : Nat, j : Nat, str_num : Nat, err : BOOLEAN]
      /\ IsBlock(mem) /\ Unwritten(mem, cur.beg)
      /\ TokensAre(tokens, LinesBefore(cur.beg))
    BY <1>1 DEF IInv, Typed, Tokenizing
<1>3. text \in Seq(Chars) /\ n \in Nat /\ cur.beg \in Nat
    BY <1>2, TextIs DEF Token
<1>4. cur.beg >= n
    <2> SUFFICES ASSUME cur.beg < n PROVE FALSE
        BY <1>3
    <2>1. cur.beg + 1 \in 1..n /\ cur.beg + 1 > cur.beg
        BY <1>3
    <2>2. text[cur.beg + 1] \in Chars
        BY <1>3, <2>1, ElementOfSeq DEF n
    <2>3. mem[cur.beg + 1] = text[cur.beg + 1]
        BY <1>2, <2>1 DEF Unwritten
    <2> QED BY <1>1, <2>2, <2>3, Letters
<1>5. TokensAre(tokens, Lines)
    BY <1>2, <1>3, <1>4, AllLinesBefore
<1>6. Typed'
    <2>1. pc' \in Places \ {"read"}
        BY <1>1 DEF Places
    <2>2. Typed
        BY DEF IInv
    <2> QED BY <1>1, <1>2, <2>1, <2>2, TypedAgain
<1>7. AllRead'
    BY <1>1, <1>2, <1>5, Afterwards DEF AllRead
<1>8. Counting' /\ Tokenizing' /\ Dumped' /\ InsideBlock' /\ OriginalKept'
    BY <1>1 DEF Counting, Tokenizing, Dumped, InsideBlock, OriginalKept
<1>9. Rhyming'
    BY <1>1, <1>2 DEF Rhyming, NoVerse
<1> QED BY <1>6, <1>7, <1>8, <1>9 DEF IInv

(* qsort leaves the block alone and the same tokens in the vector.         *)
LEMMA QsortKeeps ==
    ASSUME IInv, pc \in {"sort", "resort"}, NEW comparisons, NEW next \in {"dump", "draw"}, qsort(comparisons, next),
           UNCHANGED <<text, mem, cur, count, verse, out>>
    PROVE  IInv'
<1>1. /\ text' = text /\ mem' = mem /\ cur' = cur /\ count' = count /\ verse' = verse /\ out' = out
    OBVIOUS
<1>2. /\ text \in Texts /\ VecOK(tokens) /\ TokensIn(tokens) /\ verse = NoVerse /\ cur \in Token /\ count \in 0..(n + 1)
      /\ out = [lines |-> out.lines, raw |-> out.raw] /\ mem \in Block
      /\ verse \in [i : Nat, j : Nat, str_num : Nat, err : BOOLEAN]
      /\ IsBlock(mem) /\ TokensAre(tokens, Lines)
    BY DEF IInv, Typed, AllRead
<1>3. \/ pc' = "astray" /\ tokens' = tokens
      \/ pc' = next /\ \E order \in Sorting(0..(tokens.size - 1), Orders(tokens.size), comparisons) : tokens' = Sorted(order)
    BY DEF qsort
<1>4. /\ VecOK(tokens') /\ TokensIn(tokens') /\ TokensAre(tokens', Lines)
    <2>1. CASE tokens' = tokens
        BY <1>2, <2>1
    <2>2. ASSUME NEW order \in Sorting(0..(tokens.size - 1), Orders(tokens.size), comparisons), tokens' = Sorted(order)
          PROVE  /\ VecOK(tokens') /\ TokensIn(tokens') /\ TokensAre(tokens', Lines)
        <3>1. order \in Orders(tokens.size)
            BY <2>2 DEF Sorting
        <3>2. tokens.size \in 0..Len(text)
            BY <1>2, TextIs DEF VecOK, TokensIn, n
        <3>3. /\ order \in [0..(tokens.size - 1) -> 0..(tokens.size - 1)]
              /\ \A a \in 0..(tokens.size - 1) : \E b \in 0..(tokens.size - 1) : order[b] = a
            BY <1>2, <3>1, <3>2, OneginAssumption
        <3>4. tokens' = Permuted(tokens, order)
            BY <2>2 DEF Sorted, Permuted
        <3>5. /\ VecOK(Permuted(tokens, order)) /\ TokensIn(Permuted(tokens, order))
              /\ \A L : TokensAre(tokens, L) => TokensAre(Permuted(tokens, order), L)
            <4>1. VecOK(tokens) /\ TokensIn(tokens)
                BY <1>2
            <4> QED BY ONLY <3>3, <4>1, Permutes
        <3> QED BY ONLY <1>2, <3>4, <3>5
    <2> QED BY <1>3, <2>1, <2>2
<1>5. pc' \in {"astray", "dump", "draw"}
    BY <1>3
<1>6. Typed'
    <2>1. pc' \in Places \ {"read"}
        BY <1>5 DEF Places, Over
    <2>2. Typed
        BY DEF IInv
    <2> QED BY <1>1, <1>2, <1>4, <2>1, <2>2, TypedAgain
<1>7. AllRead'
    BY <1>1, <1>2, <1>4, Afterwards DEF AllRead
<1>8. Counting' /\ Tokenizing' /\ Dumped' /\ InsideBlock' /\ OriginalKept'
    BY <1>5 DEF Counting, Tokenizing, Dumped, InsideBlock, OriginalKept
<1>9. Rhyming'
    BY <1>1, <1>2, <1>5 DEF Rhyming, NoVerse
<1> QED BY <1>6, <1>7, <1>8, <1>9 DEF IInv

LEMMA DumpKeeps ==
    ASSUME IInv, Dump
    PROVE  IInv'
<1>1. /\ text' = text /\ cur' = cur /\ count' = count /\ verse' = verse /\ pc = "dump"
      /\ \/ out' = onegin_text_dump /\ pc' = "resort" /\ mem' = mem /\ tokens' = tokens
         \/ mem' = <<>> /\ tokens' = Vec!vec_dtor(tokens) /\ pc' = "failed" /\ out' = out
    BY DEF Dump, text_dtor
<1>2. /\ text \in Texts /\ VecOK(tokens) /\ TokensIn(tokens) /\ verse = NoVerse /\ cur \in Token /\ count \in 0..(n + 1)
      /\ out = [lines |-> out.lines, raw |-> out.raw] /\ mem \in Block
      /\ verse \in [i : Nat, j : Nat, str_num : Nat, err : BOOLEAN]
      /\ IsBlock(mem) /\ TokensAre(tokens, Lines)
    BY <1>1 DEF IInv, Typed, AllRead
<1>3. n \in Nat /\ tokens.size \in Nat /\ tokens.size <= tokens.capacity /\ tokens.capacity \in Nat
    BY <1>2, TextIs DEF VecOK
<1>4. CASE out' = onegin_text_dump /\ pc' = "resort" /\ mem' = mem /\ tokens' = tokens
    <2> DEFINE lines == [k \in 1..tokens.size |-> tokens.cells[k - 1]]
    <2>1. write_nlines_to_file(tokens, tokens.size) = lines
        <3>1. write_nlines_to_file(tokens, tokens.size) = [k \in 1..tokens.size |-> Vec!vec_get_elem(tokens, k - 1).val]
            BY Zenon DEF write_nlines_to_file
        <3>2. \A k \in 1..tokens.size : Vec!vec_get_elem(tokens, k - 1).val = tokens.cells[k - 1]
            BY <1>3 DEF Vec!vec_get_elem, Vec!buf_offset_fails
        <3> QED BY <3>1, <3>2
    <2>2. out' = [out EXCEPT !.lines = lines]
        BY <1>4, <2>1 DEF onegin_text_dump
    <2> HIDE DEF lines
    <2>3. out' = [lines |-> lines, raw |-> out.raw]
        BY <1>2, <2>2
    <2>4. out'.lines = lines /\ out' = [lines |-> out'.lines, raw |-> out'.raw]
        BY <2>3
    <2>5. Typed'
        <3>1. pc' \in Places \ {"read"}
            BY <1>4 DEF Places
        <3>2. Typed
            BY DEF IInv
        <3> QED BY <1>1, <1>2, <1>4, <2>4, <3>1, <3>2, TypedAgain
    <2>6. AllRead'
        BY <1>1, <1>2, <1>4, Afterwards DEF AllRead
    <2>7. Dumped'
        BY <1>4, <2>4 DEF Dumped, lines
    <2>8. Counting' /\ Tokenizing' /\ InsideBlock' /\ OriginalKept'
        BY <1>4 DEF Counting, Tokenizing, InsideBlock, OriginalKept
    <2>9. Rhyming'
        BY <1>1, <1>2, <1>4 DEF Rhyming, NoVerse
    <2> QED BY <2>5, <2>6, <2>7, <2>8, <2>9 DEF IInv
<1>5. CASE mem' = <<>> /\ tokens' = Vec!vec_dtor(tokens) /\ pc' = "failed" /\ out' = out
    <2>1. VecOK(tokens') /\ tokens'.size = 0
        BY <1>2, <1>5, Destroys, EmptyVec
    <2>2. TokensIn(tokens')
        BY <1>3, <2>1, NoTokens
    <2>3. Typed'
        <3>1. pc' \in Places \ {"read"} /\ pc' \notin Early /\ mem' \in Block
            BY <1>5 DEF Places, Early, Over, Block
        <3>2. Typed
            BY DEF IInv
        <3> QED BY <1>1, <1>2, <1>5, <2>1, <2>2, <3>1, <3>2, TypedAgain
    <2>4. Counting' /\ Tokenizing' /\ AllRead' /\ Dumped' /\ InsideBlock' /\ OriginalKept'
        BY <1>5 DEF Counting, Tokenizing, AllRead, Dumped, InsideBlock, OriginalKept
    <2>5. Rhyming'
        BY <1>5, <2>1 DEF Rhyming
    <2> QED BY <2>3, <2>4, <2>5 DEF IInv
<1> QED BY <1>1, <1>4, <1>5

LEMMA RawDumpKeeps ==
    ASSUME IInv, RawDump
    PROVE  IInv'
<1> DEFINE raw == [k \in 1..n |-> IF mem[k] = "nul" THEN "nl" ELSE mem[k]]
<1>1. /\ text' = text /\ cur' = cur /\ count' = count /\ verse' = verse /\ pc = "raw"
      /\ out' = [out EXCEPT !.raw = raw]
      /\ mem' = <<>> /\ tokens' = Vec!vec_dtor(tokens) /\ pc' = "done"
    BY DEF RawDump, text_dtor
<1>2. /\ text \in Texts /\ VecOK(tokens) /\ cur \in Token /\ count \in 0..(n + 1)
      /\ out = [lines |-> out.lines, raw |-> out.raw]
      /\ verse \in [i : Nat, j : Nat, str_num : Nat, err : BOOLEAN]
      /\ IsBlock(mem)
    BY <1>1 DEF IInv, Typed, AllRead
<1>3. n \in Nat /\ text \in Seq(Chars) /\ \A k \in 1..n : mem[k] = text[k] \/ (mem[k] = "nul" /\ text[k] \in Delims)
    BY <1>2, TextIs, BlockCells
<1>4. \A k \in 1..n : raw[k] # text[k] => text[k] = "cr" /\ raw[k] = "nl"
    <2>1. \A k \in 1..n : text[k] \in Chars
        BY <1>3, ElementOfSeq DEF n
    <2> QED BY <1>3, <2>1, Letters DEF Delims
<1> HIDE DEF raw
<1>5. out' = [lines |-> out.lines, raw |-> raw]
    BY <1>1, <1>2
<1>6. out'.raw = raw /\ out' = [lines |-> out'.lines, raw |-> out'.raw]
    BY <1>5
<1>7. VecOK(tokens') /\ tokens'.size = 0
    BY <1>1, <1>2, Destroys, EmptyVec
<1>8. TokensIn(tokens')
    BY <1>3, <1>7, NoTokens
<1>9. Typed'
    <2>1. pc' \in Places \ {"read"} /\ pc' \notin Early /\ mem' \in Block
        BY <1>1 DEF Places, Early, Over, Block
    <2>2. Typed
        BY DEF IInv
    <2> QED BY <1>1, <1>2, <1>6, <1>7, <1>8, <2>1, <2>2, TypedAgain
<1>10. Counting' /\ Tokenizing' /\ AllRead' /\ Dumped' /\ InsideBlock'
    BY <1>1 DEF Counting, Tokenizing, AllRead, Dumped, InsideBlock
<1>11. Rhyming'
    BY <1>1, <1>7 DEF Rhyming
<1>12. OriginalKept'
    <2>1. n' = n
        BY <1>1, Afterwards
    <2> QED BY <1>1, <1>4, <1>6, <2>1 DEF OriginalKept
<1> QED BY <1>9, <1>10, <1>11, <1>12 DEF IInv

(* A step of print_rhymes, which changes the verse only.                   *)
LEMMA VerseKeeps ==
    ASSUME IInv, pc \in {"draw", "rhyme"}, UNCHANGED <<text, mem, tokens, cur, count, out>>,
           pc' \in {"rhyme", "raw", "wild"},
           verse' \in [i : Nat, j : Nat, str_num : Nat, err : BOOLEAN], Rhyming'
    PROVE  IInv'
<1>1. /\ text \in Texts /\ VecOK(tokens) /\ TokensIn(tokens) /\ cur \in Token /\ count \in 0..(n + 1)
      /\ out = [lines |-> out.lines, raw |-> out.raw] /\ mem \in Block
      /\ IsBlock(mem) /\ TokensAre(tokens, Lines)
    BY DEF IInv, Typed, AllRead
<1>2. Typed'
    <2>1. pc' \in Places \ {"read"} /\ pc' \notin Early
        BY DEF Places, Over, Early
    <2>2. Typed
        BY DEF IInv
    <2> QED BY <1>1, <2>1, <2>2, TypedAgain
<1>3. AllRead'
    BY <1>1, Afterwards DEF AllRead
<1>4. Counting' /\ Tokenizing' /\ Dumped' /\ InsideBlock' /\ OriginalKept'
    BY DEF Counting, Tokenizing, Dumped, InsideBlock, OriginalKept
<1> QED BY <1>2, <1>3, <1>4 DEF IInv

LEMMA PutIndices ==
    \A i, j : [NoVerse EXCEPT !.i = i, !.j = j] = [i |-> i, j |-> j, str_num |-> 0, err |-> FALSE]
<1> SUFFICES ASSUME NEW i, NEW j
             PROVE  [NoVerse EXCEPT !.i = i, !.j = j] = [i |-> i, j |-> j, str_num |-> 0, err |-> FALSE]
    OBVIOUS
<1>2. \A x : [[i |-> 0, j |-> 0, str_num |-> 0, err |-> x] EXCEPT !.i = i] = [i |-> i, j |-> 0, str_num |-> 0, err |-> x]
    OBVIOUS
<1>3. \A x : [[i |-> i, j |-> 0, str_num |-> 0, err |-> x] EXCEPT !.j = j] = [i |-> i, j |-> j, str_num |-> 0, err |-> x]
    OBVIOUS
<1>4. [NoVerse EXCEPT !.i = i] = [i |-> i, j |-> 0, str_num |-> 0, err |-> FALSE]
    BY ONLY <1>2, Zenon DEF NoVerse
<1> DEFINE u == [NoVerse EXCEPT !.i = i]
<1>5. [NoVerse EXCEPT !.i = i, !.j = j] = [u EXCEPT !.j = j]
    OBVIOUS
<1>6. u = [i |-> i, j |-> 0, str_num |-> 0, err |-> FALSE]
    BY <1>4
<1> HIDE DEF u
<1>7. [u EXCEPT !.j = j] = [i |-> i, j |-> j, str_num |-> 0, err |-> FALSE]
    BY ONLY <1>3, <1>6, Zenon
<1> QED BY <1>5, <1>7

LEMMA DrawKeeps ==
    ASSUME IInv, Draw
    PROVE  IInv'
<1>1. /\ pc = "draw" /\ UNCHANGED <<text, mem, tokens, cur, count, out>>
      /\ \/ tokens.size = 2 /\ pc' = "wild" /\ verse' = verse
         \/ /\ tokens.size # 2 /\ pc' = "rhyme"
            /\ \E i, j \in Drawn(tokens.size, tokens.capacity) : verse' = [verse EXCEPT !.i = i, !.j = j]
    BY DEF Draw
<1>2. /\ VecOK(tokens) /\ verse = NoVerse /\ verse \in [i : Nat, j : Nat, str_num : Nat, err : BOOLEAN]
    BY <1>1 DEF IInv, Typed
<1>3. tokens.size \in Nat /\ tokens.capacity \in Nat
    BY <1>2 DEF VecOK
<1>4. CASE tokens.size = 2 /\ pc' = "wild" /\ verse' = verse
    <2>1. Rhyming'
        BY <1>1, <1>2, <1>4 DEF Rhyming, NoVerse
    <2> QED BY <1>1, <1>2, <1>4, <2>1, VerseKeeps
<1>5. CASE /\ tokens.size # 2 /\ pc' = "rhyme"
           /\ \E i, j \in Drawn(tokens.size, tokens.capacity) : verse' = [verse EXCEPT !.i = i, !.j = j]
    <2>1. PICK i, j \in Drawn(tokens.size, tokens.capacity) : verse' = [verse EXCEPT !.i = i, !.j = j]
        BY <1>5
    <2>2. verse' = [i |-> i, j |-> j, str_num |-> 0, err |-> FALSE]
        <3>1. [NoVerse EXCEPT !.i = i, !.j = j] = [i |-> i, j |-> j, str_num |-> 0, err |-> FALSE]
            BY PutIndices
        <3> QED BY <1>2, <2>1, <3>1
    <2>3. i \in Nat /\ j \in Nat /\ (tokens.size > 2 => i \in 0..(tokens.size - 3) /\ j \in 0..(tokens.size - 3))
        BY <1>3 DEF Drawn
    <2>4. verse'.i = i /\ verse'.j = j /\ verse'.str_num = 0 /\ ~verse'.err
          /\ verse' \in [i : Nat, j : Nat, str_num : Nat, err : BOOLEAN]
        BY <2>2, <2>3
    <2>5. Rhyming'
        <3>1. 0 % step = 0
            BY DEF step
        <3>2. tokens' = tokens
            BY <1>1
        <3> QED BY <1>3, <1>5, <2>3, <2>4, <3>1, <3>2 DEF Rhyming, Versed
    <2> QED BY <1>1, <1>5, <2>4, <2>5, VerseKeeps
<1> QED BY <1>1, <1>4, <1>5

LEMMA RhymedKeeps ==
    ASSUME IInv, Rhymed
    PROVE  IInv'
<1>1. /\ pc = "rhyme" /\ pc' = "raw" /\ UNCHANGED <<text, mem, tokens, cur, count, verse, out>>
      /\ verse.str_num >= tokens.size
    BY DEF Rhymed
<1>2. /\ VecOK(tokens) /\ verse \in [i : Nat, j : Nat, str_num : Nat, err : BOOLEAN] /\ Rhyming
    BY <1>1 DEF IInv, Typed
<1>3. tokens.size \in Nat
    BY <1>2 DEF VecOK
<1>4. tokens.size > 2 => ~verse.err /\ verse.str_num \in tokens.size..(tokens.size + 3)
    BY <1>1, <1>2, <1>3 DEF Rhyming, Versed
<1>5. Rhyming'
    BY <1>1, <1>4 DEF Rhyming
<1> QED BY <1>1, <1>2, <1>5, VerseKeeps

LEMMA Remainders ==
    ASSUME NEW d \in Nat, d > 0, NEW x \in Nat
    PROVE  x % d \in 0..(d - 1)
OBVIOUS

LEMMA NextNumber ==
    ASSUME NEW k \in Nat, NEW l \in {2, 4},
           (l = 4 /\ k % step \in {0, 4, 8}) \/ (l = 2 /\ k % step = 12)
    PROVE  (k + l) % step \in {0, 4, 8, 12}
<1>1. CASE l = 4 /\ k % 14 = 0
    BY <1>1 DEF step
<1>2. CASE l = 4 /\ k % 14 = 4
    BY <1>2 DEF step
<1>3. CASE l = 4 /\ k % 14 = 8
    BY <1>3 DEF step
<1>4. CASE l = 2 /\ k % 14 = 12
    BY <1>4 DEF step
<1> QED BY <1>1, <1>2, <1>3, <1>4 DEF step

(* The next verse of a text with more than two lines.                      *)
LEMMA VerseOfMany ==
    ASSUME IInv, Rhyme, tokens.size > 2
    PROVE  IInv'
<1> DEFINE size  == tokens.size
           lines == Rhymes(verse.i, verse.j, verse.str_num)
           got   == {Vec!vec_get_elem(tokens, lines[k]) : k \in DOMAIN lines}
           i     == (verse.i * verse.j + size \div step) % (size - 2)
           j     == (i * verse.j + size \div step) % (size - 2)
           num   == verse.str_num + Len(lines)
<1>1. /\ pc = "rhyme" /\ UNCHANGED <<text, mem, tokens, cur, count, out>> /\ verse.str_num < size
      /\ IF \E res \in got : res.err # "VEC_SUCCESS"
         THEN pc' = "raw" /\ verse' = [verse EXCEPT !.err = TRUE]
         ELSE IF \E res \in got : res.val = Junk
         THEN pc' = "wild" /\ UNCHANGED verse
         ELSE pc' = "rhyme" /\ verse' = [verse EXCEPT !.i = i, !.j = j, !.str_num = @ + print_4_lines(lines)]
    BY Zenon DEF Rhyme
<1>2. /\ VecOK(tokens) /\ verse \in [i : Nat, j : Nat, str_num : Nat, err : BOOLEAN] /\ ~verse.err
      /\ verse.i \in 0..(size - 3) /\ verse.j \in 0..(size - 3) /\ verse.str_num % step \in {0, 4, 8, 12}
    BY <1>1 DEF IInv, Typed, Rhyming, Versed
<1>3. size \in Nat /\ size > 2 /\ size <= tokens.capacity /\ tokens.capacity \in Nat
    BY <1>2 DEF VecOK
<1>4. \A idx \in 0..(size - 1) : Vec!vec_get_elem(tokens, idx).err = "VEC_SUCCESS" /\ Vec!vec_get_elem(tokens, idx).val # Junk
    <2> SUFFICES ASSUME NEW idx \in 0..(size - 1)
                 PROVE  Vec!vec_get_elem(tokens, idx).err = "VEC_SUCCESS" /\ Vec!vec_get_elem(tokens, idx).val # Junk
        OBVIOUS
    <2>1. Vec!vec_get_elem(tokens, idx) = [err |-> "VEC_SUCCESS", val |-> tokens.cells[idx]]
        BY <1>3 DEF Vec!vec_get_elem, Vec!buf_offset_fails
    <2>2. tokens.cells[idx] \in Token
        BY <1>2 DEF VecOK
    <2> QED BY <2>1, <2>2, OneginAssumption DEF Token
<1>5. /\ \A k \in DOMAIN lines : lines[k] \in 0..(size - 1)
      /\ \/ Len(lines) = 4 /\ verse.str_num % step \in {0, 4, 8}
         \/ Len(lines) = 2 /\ verse.str_num % step = 12
    <2>1. verse.i \in 0..(size - 1) /\ verse.j \in 0..(size - 1) /\ verse.i + 2 \in 0..(size - 1) /\ verse.j + 2 \in 0..(size - 1)
        BY <1>2, <1>3
    <2> HIDE DEF size
    <2>2. CASE verse.str_num % step = 0
        BY <2>1, <2>2 DEF Rhymes
    <2>3. CASE verse.str_num % step = 4
        BY <2>1, <2>3 DEF Rhymes
    <2>4. CASE verse.str_num % step = 8
        BY <2>1, <2>4 DEF Rhymes
    <2>5. CASE verse.str_num % step = 12
        BY <2>1, <2>5 DEF Rhymes
    <2> QED BY <1>2, <2>2, <2>3, <2>4, <2>5
<1> HIDE DEF lines
<1>6. /\ \A res \in got : res.err = "VEC_SUCCESS" /\ res.val # Junk
    BY <1>4, <1>5
<1>7. num \in Nat /\ num <= size + 3 /\ num % step \in {0, 4, 8, 12}
    <2>1. verse.str_num \in Nat /\ verse.str_num < size
        BY <1>1, <1>2
    <2> DEFINE l == Len(lines)
    <2>2. num = verse.str_num + l
        OBVIOUS
    <2>3. (l = 4 /\ verse.str_num % step \in {0, 4, 8}) \/ (l = 2 /\ verse.str_num % step = 12)
        BY <1>5
    <2> HIDE DEF num, l
    <2>4. num % step \in {0, 4, 8, 12}
        BY <2>1, <2>2, <2>3, NextNumber
    <2> QED BY <1>3, <2>1, <2>2, <2>3, <2>4
<1>8. i \in 0..(size - 3) /\ i \in Nat
    <2>1. size - 2 \in Nat /\ size - 2 > 0 /\ size \div step \in Nat
        BY <1>3 DEF step
    <2>2. verse.i * verse.j \in Nat
        BY <1>2
    <2>3. verse.i * verse.j + size \div step \in Nat
        BY <2>1, <2>2
    <2>4. \A x \in Nat : x % (size - 2) \in 0..(size - 3)
        <3>1. size - 3 = size - 2 - 1
            BY <1>3
        <3> DEFINE d == size - 2
        <3>2. d \in Nat /\ d > 0
            BY <2>1
        <3> HIDE DEF d
        <3>3. \A x \in Nat : x % d \in 0..(d - 1)
            BY <3>2, Remainders
        <3> QED BY <3>1, <3>3 DEF d
    <2> QED BY <2>3, <2>4
<1> HIDE DEF i
<1>9. j \in 0..(size - 3) /\ j \in Nat
    <2>1. size - 2 \in Nat /\ size - 2 > 0 /\ size \div step \in Nat
        BY <1>3 DEF step
    <2>2. i * verse.j \in Nat
        BY <1>2, <1>8
    <2>3. i * verse.j + size \div step \in Nat
        BY <2>1, <2>2
    <2>4. \A x \in Nat : x % (size - 2) \in 0..(size - 3)
        <3>1. size - 3 = size - 2 - 1
            BY <1>3
        <3> DEFINE d == size - 2
        <3>2. d \in Nat /\ d > 0
            BY <2>1
        <3> HIDE DEF d
        <3>3. \A x \in Nat : x % d \in 0..(d - 1)
            BY <3>2, Remainders
        <3> QED BY <3>1, <3>3 DEF d
    <2> QED BY <2>3, <2>4
<1> HIDE DEF j
<1>10. pc' = "rhyme" /\ verse' = [verse EXCEPT !.i = i, !.j = j, !.str_num = num]
    BY <1>1, <1>6 DEF print_4_lines
<1> HIDE DEF num, got
<1>11. verse'.i = i /\ verse'.j = j /\ verse'.str_num = num /\ ~verse'.err
       /\ verse' \in [i : Nat, j : Nat, str_num : Nat, err : BOOLEAN]
    BY <1>2, <1>7, <1>8, <1>9, <1>10
<1>12. Rhyming'
    <2>1. tokens' = tokens
        BY <1>1
    <2> QED BY <1>3, <1>7, <1>8, <1>9, <1>10, <1>11, <2>1 DEF Rhyming, Versed
<1> QED BY <1>1, <1>10, <1>11, <1>12, VerseKeeps

(* With one line or two print_rhymes prints no whole verse.                *)
LEMMA VerseOfFew ==
    ASSUME IInv, Rhyme, tokens.size <= 2
    PROVE  IInv'
<1> DEFINE size  == tokens.size
           lines == Rhymes(verse.i, verse.j, verse.str_num)
           got   == {Vec!vec_get_elem(tokens, lines[k]) : k \in DOMAIN lines}
<1>1. /\ pc = "rhyme" /\ UNCHANGED <<text, mem, tokens, cur, count, out>> /\ verse.str_num < size
      /\ IF \E res \in got : res.err # "VEC_SUCCESS"
         THEN pc' = "raw" /\ verse' = [verse EXCEPT !.err = TRUE]
         ELSE (\E res \in got : res.val = Junk) => pc' = "wild" /\ UNCHANGED verse
    BY Zenon DEF Rhyme
<1>2. /\ VecOK(tokens) /\ verse \in [i : Nat, j : Nat, str_num : Nat, err : BOOLEAN]
      /\ verse.str_num = 0
    BY <1>1 DEF IInv, Typed, Rhyming
<1>3. lines = <<verse.i, verse.j, verse.i + 2, verse.j + 2>>
    <2>1. 0 % step = 0
        BY DEF step
    <2> QED BY <1>2, <2>1 DEF Rhymes
<1>4. Vec!vec_get_elem(tokens, verse.i + 2) \in got
    <2>1. 3 \in DOMAIN lines /\ lines[3] = verse.i + 2
        BY <1>3
    <2> HIDE DEF lines
    <2> QED BY <2>1
<1>5. LET res == Vec!vec_get_elem(tokens, verse.i + 2) IN res.err # "VEC_SUCCESS" \/ res.val = Junk
    <2>1. \A k \in tokens.size..(tokens.capacity - 1) : tokens.cells[k] = Junk
        BY <1>2 DEF VecOK
    <2>2. tokens.size \in Nat /\ tokens.capacity \in Nat
        BY <1>2 DEF VecOK
    <2> QED BY <1>2, <2>1, <2>2 DEF Vec!vec_get_elem, Vec!buf_offset_fails
<1> HIDE DEF lines, got
<1>6. \/ pc' = "raw" /\ verse' = [verse EXCEPT !.err = TRUE]
      \/ pc' = "wild" /\ verse' = verse
    BY <1>1, <1>4, <1>5
<1>7. verse' \in [i : Nat, j : Nat, str_num : Nat, err : BOOLEAN]
    BY <1>2, <1>6
<1>8. Rhyming'
    <2>1. tokens' = tokens /\ ~(tokens.size > 2)
        <3>1. tokens.size \in Nat
            BY <1>2 DEF VecOK
        <3> QED BY <1>1, <3>1
    <2> QED BY <1>6, <2>1 DEF Rhyming
<1> QED BY <1>1, <1>6, <1>7, <1>8, VerseKeeps

LEMMA InitHolds == Init => IInv
<1> SUFFICES ASSUME Init PROVE IInv
    OBVIOUS
<1>1. /\ pc = "read" /\ text \in Texts /\ mem = <<>> /\ tokens = Vec!NoVector
      /\ cur = [beg |-> 0, size |-> 0] /\ count = 0 /\ verse = NoVerse /\ out = [lines |-> <<>>, raw |-> <<>>]
    BY DEF Init, NoVerse
<1>2. n \in Nat
    BY <1>1, TextIs
<1>3. VecOK(tokens) /\ tokens.size = 0
    BY <1>1, EmptyVec
<1>4. TokensIn(tokens)
    BY <1>2, <1>3, NoTokens
<1>5. /\ mem \in Block /\ cur \in Token /\ count \in 0..(n + 1)
      /\ verse \in [i : Nat, j : Nat, str_num : Nat, err : BOOLEAN] /\ out = [lines |-> out.lines, raw |-> out.raw]
    BY <1>1, <1>2 DEF Block, Token, NoVerse
<1>6. Typed
    BY <1>1, <1>3, <1>4, <1>5 DEF Typed
<1>7. Counting /\ Tokenizing /\ AllRead /\ Dumped /\ InsideBlock /\ OriginalKept
    BY <1>1 DEF Counting, Tokenizing, AllRead, Dumped, InsideBlock, OriginalKept
<1>8. Rhyming
    BY <1>1, <1>3 DEF Rhyming
<1> QED BY <1>6, <1>7, <1>8 DEF IInv

LEMMA Stutters == IInv /\ UNCHANGED vars => IInv'
<1> SUFFICES ASSUME IInv, UNCHANGED vars PROVE IInv'
    OBVIOUS
<1>1. /\ pc' = pc /\ text' = text /\ mem' = mem /\ tokens' = tokens /\ cur' = cur /\ count' = count
      /\ verse' = verse /\ out' = out
    BY DEF vars
<1>2. Typed' /\ Counting' /\ Tokenizing' /\ AllRead'
    BY <1>1, Afterwards DEF IInv, Typed, Counting, Tokenizing, AllRead
<1>3. Dumped' /\ Rhyming' /\ InsideBlock' /\ OriginalKept'
    BY <1>1, Afterwards DEF IInv, Dumped, Rhyming, Versed, InsideBlock, OriginalKept
<1> QED BY <1>2, <1>3 DEF IInv

-----------------------------------------------------------------------------
(* The order of the lines.                                                 *)

(* No line stands behind a greater one.                                    *)
InOrder(v) == \A a, b \in 0..(v.size - 1) : a < b => ~LexLess(v.cells[b], v.cells[a])

LinesPlain == \A tok \in Lines : PlainLine(tok)

(* The lines in the vector have their '\0', and are all before the token   *)
(* that comes next.                                                        *)
Ending ==
    /\ pc \in {"tokenize", "sort", "dump", "resort"} => AllEnded(mem, tokens)
    /\ pc = "tokenize" => \A k \in 0..(tokens.size - 1) : tokens.cells[k].beg + tokens.cells[k].size < cur.beg

Ascending == pc \in {"dump", "resort"} /\ LinesPlain => InOrder(tokens)

Astray == pc = "astray" => out.lines # <<>> /\ ~LinesPlain

LEMMA AfterwardsToo ==
    ASSUME text' = text
    PROVE  /\ AllEnded(mem, tokens)' <=> AllEnded(mem', tokens')
           /\ InOrder(tokens)' <=> InOrder(tokens')
           /\ LinesPlain' <=> LinesPlain
<1>1. AllEnded(mem, tokens)' <=> AllEnded(mem', tokens')
    BY DEF AllEnded, Ended
<1>2. InOrder(tokens)' <=> InOrder(tokens')
    BY DEF InOrder, LexLess, Agree, Byte
<1>3. LinesPlain' <=> LinesPlain
    <2>1. Lines' = Lines
        BY DEF Lines, IsLine, n
    <2> QED BY <2>1 DEF LinesPlain, PlainLine
<1> QED BY <1>1, <1>2, <1>3

(* A line that is ended stays so when a later one is.                      *)
LEMMA EndedStays ==
    ASSUME NEW m, m \in Block, NEW tok, Ended(m, tok), NEW p, p \in Nat, p < Len(m), p > tok.beg + tok.size,
           NEW mm, mm = [m EXCEPT ![p + 1] = "nul"], Len(mm) = Len(m)
    PROVE  Ended(mm, tok)
<1>1. Len(m) \in Nat /\ tok.beg \in Nat /\ tok.size \in Nat
    BY EndedChars
<1>2. DOMAIN m = 1..Len(m)
    BY LenProperties DEF Block
<1>3. \A r \in tok.beg..(tok.beg + tok.size) : mm[r + 1] = m[r + 1]
    <2> SUFFICES ASSUME NEW r \in tok.beg..(tok.beg + tok.size) PROVE mm[r + 1] = m[r + 1]
        OBVIOUS
    <2>1. r + 1 # p + 1 /\ r + 1 \in 1..Len(m)
        BY <1>1
    <2> QED BY <1>2, <2>1
<1>4. /\ \A r \in tok.beg..(tok.beg + tok.size - 1) : r \in tok.beg..(tok.beg + tok.size)
      /\ tok.beg + tok.size \in tok.beg..(tok.beg + tok.size)
    BY <1>1
<1> QED BY <1>3, <1>4 DEF Ended

LEMMA EndedNow ==
    ASSUME NEW m, NEW tok, Found(m, tok), text \in Seq(Chars), tok.beg + tok.size + 1 < Len(m),
           NEW mm, mm = [m EXCEPT ![tok.beg + tok.size + 1] = "nul"], Len(mm) = Len(m)
    PROVE  Ended(mm, tok)
<1> DEFINE e == tok.beg + tok.size
<1>1. /\ tok.beg \in Nat /\ tok.size \in Nat /\ tok.size > 0 /\ e <= n /\ n \in Nat
      /\ \A k \in (tok.beg + 1)..e : text[k] \in Chars \ Delims /\ m[k] = text[k]
    BY FoundInText
<1>2. m \in Seq(Chars \cup {"nul"}) /\ tok \in Token /\ e < Len(m)
    BY DEF Found, IsBlock, Block, TokenIn
<1>3. DOMAIN m = 1..Len(m) /\ Len(m) \in Nat
    BY <1>2, LenProperties
<1>4. e + 1 \in DOMAIN m /\ mm = [m EXCEPT ![e + 1] = "nul"]
    BY <1>1, <1>2, <1>3
<1> HIDE DEF e
<1>5. mm[e + 1] = "nul"
    BY <1>4
<1>6. ASSUME NEW r \in tok.beg..(tok.beg + tok.size - 1) PROVE mm[r + 1] = text[r + 1] /\ mm[r + 1] \in Chars \ Delims
    <2>1. r + 1 \in (tok.beg + 1)..e /\ r + 1 # e + 1 /\ r + 1 \in DOMAIN m
        BY <1>1, <1>2, <1>3 DEF e
    <2> QED BY <1>1, <1>4, <2>1
<1> QED BY <1>1, <1>2, <1>5, <1>6 DEF Ended, e

LEMMA TokenizeEnds ==
    ASSUME IInv, Ending, Tokenize
    PROVE  Ending' /\ Ascending' /\ Astray'
<1>1. text' = text /\ pc = "tokenize"
    BY DEF Tokenize, TokenizeWith
<1>2. /\ Found(mem, cur) /\ text \in Seq(Chars) /\ mem' = [mem EXCEPT ![cur.beg + cur.size + 1] = "nul"]
      /\ Len(mem') = Len(mem)
      /\ \/ /\ IF cur \in Lines THEN Pushed(tokens', tokens, cur) ELSE tokens' = tokens
            /\ cur' = get_token(mem', cur.beg + cur.size + 1)
            /\ pc' = IF Overrun(cur', mem') THEN "overrun" ELSE "tokenize"
         \/ tokens' = tokens /\ cur' = cur /\ pc' = "failed"
      /\ IsBlock(mem')
    BY TokenizeRound
<1>3. pc' \notin {"sort", "dump", "resort", "astray"}
    BY <1>2
<1>4. Ascending' /\ Astray'
    BY <1>3 DEF Ascending, Astray
<1>5. ASSUME pc' = "tokenize"
      PROVE  AllEnded(mem', tokens') /\ \A k \in 0..(tokens'.size - 1) : tokens'.cells[k].beg + tokens'.cells[k].size < cur'.beg
    <2>1. /\ IF cur \in Lines THEN Pushed(tokens', tokens, cur) ELSE tokens' = tokens
          /\ cur' = get_token(mem', cur.beg + cur.size + 1) /\ ~Overrun(cur', mem')
        BY <1>2, <1>5
    <2>2. /\ VecOK(tokens) /\ AllEnded(mem, tokens) /\ mem \in Block /\ mem' \in Block
          /\ \A k \in 0..(tokens.size - 1) : tokens.cells[k].beg + tokens.cells[k].size < cur.beg
        BY <1>1, <1>2 DEF IInv, Typed, Ending, IsBlock
    <2>3. /\ cur.beg \in Nat /\ cur.size \in Nat /\ cur.size > 0
        BY <1>2, FoundInText
    <2>4. Len(mem) \in Nat /\ cur.beg + cur.size < Len(mem)
        BY <1>2, <2>2, LenProperties DEF Block, Found, TokenIn
    <2>5. cur' \in Token /\ cur'.beg >= cur.beg + cur.size + 1
        <3>1. cur.beg + cur.size + 1 \in 0..Len(mem')
            BY <1>2, <2>3, <2>4
        <3>2. cur' \in Token /\ cur'.beg \in (cur.beg + cur.size + 1)..Len(mem')
            BY <2>1, <2>2, <3>1, GetToken
        <3> QED BY <1>2, <2>3, <2>4, <3>2
    <2>6. cur.beg + cur.size + 1 < Len(mem)
        <3>1. cur'.beg \in Nat /\ cur'.size \in Nat
            BY <2>5 DEF Token
        <3> QED BY <1>2, <2>1, <2>3, <2>4, <2>5, <3>1 DEF Overrun
    <2>7. Ended(mem', cur) /\ cur.beg + cur.size < cur'.beg
        <3>1. Ended(mem', cur)
            BY ONLY <1>2, <2>6, EndedNow
        <3> QED BY <2>3, <2>5, <3>1 DEF Token
    <2>8. ASSUME NEW k \in 0..(tokens.size - 1)
          PROVE  Ended(mem', tokens.cells[k]) /\ tokens.cells[k].beg + tokens.cells[k].size < cur'.beg
        <3>1. Ended(mem, tokens.cells[k]) /\ tokens.cells[k].beg + tokens.cells[k].size < cur.beg
            BY <2>2 DEF AllEnded
        <3>2. tokens.cells[k].beg \in Nat /\ tokens.cells[k].size \in Nat
            BY <3>1 DEF Ended, Token
        <3>3. cur.beg + cur.size \in Nat /\ cur.beg + cur.size < Len(mem) /\ cur.beg + cur.size > tokens.cells[k].beg + tokens.cells[k].size
            BY <2>3, <2>4, <3>1, <3>2
        <3>4. Ended(mem', tokens.cells[k])
            BY ONLY <1>2, <2>2, <3>1, <3>3, EndedStays
        <3>5. tokens.cells[k].beg + tokens.cells[k].size < cur'.beg
            BY <2>3, <2>5, <3>1, <3>2 DEF Token
        <3> QED BY <3>4, <3>5
    <2>9. CASE tokens' = tokens
        BY <2>8, <2>9 DEF AllEnded
    <2>10. CASE Pushed(tokens', tokens, cur)
        <3>1. /\ tokens.size \in Nat /\ tokens'.size = tokens.size + 1 /\ tokens'.cells[tokens.size] = cur
              /\ \A k \in 0..(tokens.size - 1) : tokens'.cells[k] = tokens.cells[k]
            BY <2>2, <2>10 DEF Pushed, VecOK
        <3>2. \A k \in 0..(tokens'.size - 1) : k = tokens.size \/ k \in 0..(tokens.size - 1)
            BY <3>1
        <3> QED BY <2>7, <2>8, <3>1, <3>2 DEF AllEnded
    <2> QED BY <2>1, <2>9, <2>10
<1>6. Ending'
    BY <1>1, <1>3, <1>5, AfterwardsToo DEF Ending
<1> QED BY <1>4, <1>6


(* What qsort leaves in the vector.                                        *)
LEMMA QsortGives ==
    ASSUME IInv, pc \in {"sort", "resort"}, NEW said, NEW next, qsort(said, next)
    PROVE  \/ said.outside # {} /\ pc' = "astray" /\ tokens' = tokens
           \/ /\ pc' = next /\ tokens'.size = tokens.size
              /\ \E order \in Sorting(0..(tokens.size - 1), Orders(tokens.size), said) :
                    /\ order \in [0..(tokens.size - 1) -> 0..(tokens.size - 1)]
                    /\ \A k \in 0..(tokens.size - 1) : tokens'.cells[k] = tokens.cells[order[k]]
<1>1. text \in Texts /\ VecOK(tokens) /\ TokensIn(tokens)
    BY DEF IInv, Typed
<1>2. \/ said.outside # {} /\ pc' = "astray" /\ tokens' = tokens
      \/ pc' = next /\ \E order \in Sorting(0..(tokens.size - 1), Orders(tokens.size), said) : tokens' = Sorted(order)
    BY DEF qsort
<1>3. ASSUME NEW order \in Sorting(0..(tokens.size - 1), Orders(tokens.size), said), tokens' = Sorted(order)
      PROVE  /\ order \in [0..(tokens.size - 1) -> 0..(tokens.size - 1)]
             /\ tokens'.size = tokens.size
             /\ \A k \in 0..(tokens.size - 1) : tokens'.cells[k] = tokens.cells[order[k]]
    <2>1. order \in Orders(tokens.size)
        BY <1>3 DEF Sorting
    <2>2. tokens.size \in 0..Len(text)
        BY <1>1, TextIs DEF VecOK, TokensIn, n
    <2>3. /\ order \in [0..(tokens.size - 1) -> 0..(tokens.size - 1)]
          /\ \A a \in 0..(tokens.size - 1) : \E b \in 0..(tokens.size - 1) : order[b] = a
        BY <1>1, <2>1, <2>2, OneginAssumption
    <2>4. tokens' = Permuted(tokens, order)
        BY <1>3 DEF Sorted, Permuted
    <2>5. /\ Permuted(tokens, order).size = tokens.size
          /\ \A k \in 0..(tokens.size - 1) : Permuted(tokens, order).cells[k] = tokens.cells[order[k]]
        <3>1. VecOK(tokens) /\ TokensIn(tokens)
            BY <1>1
        <3> DEFINE w == Permuted(tokens, order)
        <3>2. w = Permuted(tokens, order)
            OBVIOUS
        <3> HIDE DEF w
        <3>3. w.size = tokens.size
            BY ONLY <2>3, <3>1, <3>2, Permutes
        <3>4. CellsAre(w, tokens, order)
            BY ONLY <2>3, <3>1, <3>2, Permutes
        <3> QED BY ONLY <3>2, <3>3, <3>4 DEF CellsAre
    <2> QED BY ONLY <2>3, <2>4, <2>5
<1> QED BY <1>2, <1>3

(* No comparison of the first sort leaves the block.                       *)
LEMMA SortOrders ==
    ASSUME IInv, Ending, Sort
    PROVE  Ending' /\ Ascending' /\ Astray'
<1> DEFINE K == 0..(tokens.size - 1)
<1>1. text' = text /\ mem' = mem /\ pc = "sort" /\ qsort(LineComparisons, "dump")
    BY DEF Sort
<1>2. /\ VecOK(tokens) /\ mem \in Block /\ AllEnded(mem, tokens) /\ TokensAre(tokens, Lines) /\ tokens.size \in Nat
    BY <1>1 DEF IInv, Typed, AllRead, Ending, VecOK
<1>3. ASSUME LineComparisons.outside # {} PROVE FALSE
    <2>1. PICK ab \in LineComparisons.outside : TRUE
        BY <1>3
    <2>2. PICK a \in K, b \in K : ~custom_line_comparator(mem, tokens.cells[a], tokens.cells[b]).inside
        BY SaidOfLines
    <2>3. Ended(mem, tokens.cells[a]) /\ Ended(mem, tokens.cells[b]) /\ mem \in Block
        BY <1>2 DEF AllEnded
    <2>4. custom_line_comparator(mem, tokens.cells[a], tokens.cells[b]).inside
        BY ONLY <2>3, ForwardInside
    <2> QED BY <2>2, <2>4
<1>4. /\ pc' = "dump" /\ tokens'.size = tokens.size
      /\ \E order \in Sorting(K, Orders(tokens.size), LineComparisons) :
            order \in [K -> K] /\ \A k \in K : tokens'.cells[k] = tokens.cells[order[k]]
    BY <1>1, <1>3, QsortGives
<1>5. PICK order \in Sorting(K, Orders(tokens.size), LineComparisons) :
            order \in [K -> K] /\ \A k \in K : tokens'.cells[k] = tokens.cells[order[k]]
    BY <1>4
<1>6. AllEnded(mem', tokens')
    BY <1>1, <1>2, <1>4, <1>5 DEF AllEnded
<1>7. ASSUME LinesPlain PROVE InOrder(tokens')
    <2>1. AllPlain(tokens)
        BY <1>2, <1>7 DEF LinesPlain, TokensAre, AllPlain
    <2>2. \A a, b \in K : a < b => ~LexLess(tokens.cells[order[b]], tokens.cells[order[a]])
        BY <1>2, <1>5, <2>1, SortAscends
    <2> QED BY <1>4, <1>5, <2>2 DEF InOrder
<1>8. Ending' /\ Ascending' /\ Astray'
    BY <1>1, <1>4, <1>6, <1>7, AfterwardsToo DEF Ending, Ascending, Astray
<1> QED BY <1>8

(* One of the second sort may, if a line has printable characters.         *)
LEMMA SortAnewStays ==
    ASSUME IInv, Ending, SortAnew
    PROVE  Ending' /\ Ascending' /\ Astray'
<1> DEFINE K == 0..(tokens.size - 1)
<1>1. text' = text /\ mem' = mem /\ out' = out /\ pc = "resort" /\ qsort(ReverseComparisons, "draw")
    BY DEF SortAnew
<1>2. /\ VecOK(tokens) /\ mem \in Block /\ AllEnded(mem, tokens) /\ TokensAre(tokens, Lines) /\ tokens.size \in Nat
      /\ out.lines = [k \in 1..tokens.size |-> tokens.cells[k - 1]]
    BY <1>1 DEF IInv, Typed, AllRead, Ending, Dumped, VecOK
<1>3. \/ ReverseComparisons.outside # {} /\ pc' = "astray"
      \/ pc' = "draw"
    BY <1>1, QsortGives
<1>4. ASSUME ReverseComparisons.outside # {} PROVE out.lines # <<>> /\ ~LinesPlain
    <2>1. PICK a \in K, b \in K : ~custom_reverse_line_comparator(mem, tokens.cells[a], tokens.cells[b]).inside
        <3>1. PICK ab \in ReverseComparisons.outside : TRUE
            BY <1>4
        <3> QED BY SaidInReverse
    <2>2. ASSUME LinesPlain PROVE FALSE
        <3>1. PlainLine(tokens.cells[a]) /\ PlainLine(tokens.cells[b])
            BY <1>2, <2>2 DEF LinesPlain, TokensAre
        <3>2. Ended(mem, tokens.cells[a]) /\ Ended(mem, tokens.cells[b]) /\ mem \in Block
            BY <1>2 DEF AllEnded
        <3>3. custom_reverse_line_comparator(mem, tokens.cells[a], tokens.cells[b]).inside
            BY ONLY <3>1, <3>2, BackwardPlain
        <3> QED BY <2>1, <3>3
    <2>3. 1 \in DOMAIN out.lines
        BY <1>2
    <2> QED BY <2>2, <2>3
<1>5. Ending' /\ Ascending'
    BY <1>3 DEF Ending, Ascending
<1>6. Astray'
    BY <1>1, <1>3, <1>4, AfterwardsToo DEF Astray
<1> QED BY <1>5, <1>6

(* The other steps that are about lines leave them alone.                  *)
LEMMA OrderStays ==
    ASSUME IInv, Ending, Ascending, Astray, Reserve \/ Tokenized \/ Dump \/ UNCHANGED vars
    PROVE  Ending' /\ Ascending' /\ Astray'
<1>1. CASE Reserve
    <2>1. /\ text' = text /\ pc' \in {"tokenize", "overrun"} /\ pc = "count"
          /\ \E ok \in BOOLEAN : tokens' = Vec!vec_reserve(tokens, count, ok).vec
        BY <1>1 DEF Reserve
    <2>2. VecOK(tokens) /\ tokens.size = 0 /\ count \in Nat
        BY <2>1, TextIs DEF IInv, Typed, Counting
    <2>3. tokens'.size = 0
        BY <2>1, <2>2, Reserves
    <2>4. AllEnded(mem', tokens')
        BY <2>3 DEF AllEnded
    <2>5. Ending'
        BY <2>1, <2>3, <2>4, AfterwardsToo DEF Ending
    <2> QED BY <2>1, <2>5 DEF Ascending, Astray
<1>2. CASE Tokenized
    <2>1. text' = text /\ mem' = mem /\ tokens' = tokens /\ pc = "tokenize" /\ pc' = "sort"
        BY <1>2 DEF Tokenized
    <2> QED BY <2>1, AfterwardsToo DEF Ending, Ascending, Astray
<1>3. CASE Dump
    <2>1. /\ text' = text /\ pc = "dump"
          /\ (mem' = mem /\ tokens' = tokens /\ pc' = "resort") \/ pc' = "failed"
        BY <1>3 DEF Dump
    <2> QED BY <2>1, AfterwardsToo DEF Ending, Ascending, Astray
<1>4. CASE UNCHANGED vars
    <2>1. text' = text /\ mem' = mem /\ tokens' = tokens /\ pc' = pc /\ out' = out /\ cur' = cur
        BY <1>4 DEF vars
    <2> QED BY <2>1, AfterwardsToo DEF Ending, Ascending, Astray
<1> QED BY <1>1, <1>2, <1>3, <1>4

-----------------------------------------------------------------------------
(* The theorems.                                                           *)

(* Whatever the text, the block it is read into and the orders that qsort  *)
(* produces, main keeps the block, the vector and its own variables as     *)
(* IInv says.                                                              *)
THEOREM Inductive == Spec => []IInv
<1>1. IInv /\ [Next]_vars => IInv'
    <2> SUFFICES ASSUME IInv, [Next]_vars PROVE IInv'
        OBVIOUS
    <2>1. CASE Read
        BY <2>1, ReadKeeps
    <2>2. CASE CountMore
        BY <2>2, CountMoreKeeps
    <2>3. CASE Reserve
        BY <2>3, ReserveKeeps
    <2>4. CASE Tokenize
        BY <2>4, TokenizeKeeps
    <2>5. CASE Tokenized
        BY <2>5, TokenizedKeeps
    <2>6. CASE Sort
        <3>1. pc = "sort" /\ qsort(LineComparisons, "dump") /\ UNCHANGED <<text, mem, cur, count, verse, out>>
            BY <2>6 DEF Sort
        <3> QED BY <3>1, QsortKeeps
    <2>7. CASE Dump
        BY <2>7, DumpKeeps
    <2>8. CASE SortAnew
        <3>1. pc = "resort" /\ qsort(ReverseComparisons, "draw") /\ UNCHANGED <<text, mem, cur, count, verse, out>>
            BY <2>8 DEF SortAnew
        <3> QED BY <3>1, QsortKeeps
    <2>9. CASE Draw
        BY <2>9, DrawKeeps
    <2>10. CASE Rhyme
        <3>1. tokens.size > 2 \/ tokens.size <= 2
            BY DEF IInv, Typed, VecOK
        <3> QED BY <2>10, <3>1, VerseOfMany, VerseOfFew
    <2>11. CASE Rhymed
        BY <2>11, RhymedKeeps
    <2>12. CASE RawDump
        BY <2>12, RawDumpKeeps
    <2>13. CASE UNCHANGED vars
        BY <2>13, Stutters
    <2> QED BY <2>1, <2>2, <2>3, <2>4, <2>5, <2>6, <2>7, <2>8, <2>9, <2>10, <2>11, <2>12, <2>13 DEF Next
<1> QED BY <1>1, InitHolds, PTL DEF Spec

(* The variables have their types, the vector has room for its tokens and  *)
(* the tokens are in the text.                                             *)
THEOREM TypeCorrect == Spec => []TypeOK
<1>1. IInv => TypeOK
    <2> SUFFICES ASSUME IInv PROVE TypeOK
        OBVIOUS
    <2>1. Typed /\ VecOK(tokens) /\ TokensIn(tokens)
        BY DEF IInv, Typed
    <2>2. Vec!IsVector(tokens)
        BY <2>1 DEF VecOK, Vec!IsVector
    <2>3. \A k \in 0..(tokens.size - 1) : tokens.cells[k] # Junk /\ tokens.cells[k].beg + tokens.cells[k].size <= n
        BY <2>1, OneginAssumption DEF VecOK, TokensIn, Token
    <2> QED BY <2>1, <2>2, <2>3 DEF Typed, TypeOK, Block
<1> QED BY <1>1, Inductive, PTL

(* The lines that are printed sorted are those of the text, titles apart,  *)
(* each once, for every text and every way the vector grows                *)
(* (text_tokenize, text.cpp:47; vec_push_back, vector.h:137).              *)
THEOREM LinesArePrintedOnce == Spec => []EveryLineOnce
<1>1. IInv => EveryLineOnce
    <2> SUFFICES ASSUME IInv, pc = "resort" PROVE EveryLineOnce
        BY DEF EveryLineOnce
    <2> DEFINE lines == [k \in 1..tokens.size |-> tokens.cells[k - 1]]
    <2>1. /\ TokensAre(tokens, Lines) /\ TokensIn(tokens) /\ VecOK(tokens) /\ out.lines = lines
        BY DEF IInv, Typed, AllRead, Dumped
    <2>2. tokens.size \in Nat
        BY <2>1 DEF VecOK
    <2>3. DOMAIN lines = 1..tokens.size /\ \A k \in 1..tokens.size : lines[k] = tokens.cells[k - 1] /\ k - 1 \in 0..(tokens.size - 1)
        BY <2>2
    <2> HIDE DEF lines
    <2>4. {lines[k] : k \in DOMAIN lines} = Lines
        <3>1. ASSUME NEW k \in DOMAIN lines PROVE lines[k] \in Lines
            BY <2>1, <2>3 DEF TokensAre
        <3>2. ASSUME NEW line \in Lines PROVE \E k \in DOMAIN lines : lines[k] = line
            <4>1. PICK k \in 0..(tokens.size - 1) : tokens.cells[k] = line
                BY <2>1 DEF TokensAre
            <4>2. k + 1 \in DOMAIN lines /\ k + 1 - 1 = k
                BY <2>2, <2>3
            <4> QED BY <2>3, <4>1, <4>2
        <3> QED BY <3>1, <3>2
    <2>5. \A k, l \in DOMAIN lines : k # l => lines[k] # lines[l]
        <3> SUFFICES ASSUME NEW k \in DOMAIN lines, NEW l \in DOMAIN lines, k # l PROVE lines[k] # lines[l]
            OBVIOUS
        <3>1. k - 1 # l - 1
            BY <2>2, <2>3
        <3> QED BY <2>1, <2>3, <3>1 DEF TokensIn
    <2> QED BY <2>1, <2>4, <2>5 DEF EveryLineOnce
<1> QED BY <1>1, Inductive, PTL

(* The third part of the output is the original, but for ends of lines,    *)
(* for every text (onegin_text_raw_dump, onegin_text.cpp:79).              *)
THEOREM OriginalIsKept == Spec => []OriginalKept
<1>1. IInv => OriginalKept
    BY DEF IInv
<1> QED BY <1>1, Inductive, PTL

(* The tokenizer leaves no block that has one character more than the      *)
(* text, two if the text does not end with a delimiter (read_buff,         *)
(* stdlib_addition.cpp:23).                                                *)
THEOREM TokenizerStaysInside == Spec => []InsideBlock
<1>1. IInv => InsideBlock
    BY DEF IInv
<1> QED BY <1>1, Inductive, PTL

(* With at least three lines every verse is made of lines of the text and  *)
(* print_rhymes stops at most three lines late, for any number of lines    *)
(* and any indices rand() gives (print_rhymes, onegin_text.cpp:177).       *)
THEOREM VersesAreWhole == Spec => []VersesWhole
<1>1. IInv => VersesWhole
    <2> SUFFICES ASSUME IInv, tokens.size > 2 PROVE VersesWhole
        BY DEF VersesWhole
    <2>1. Rhyming /\ tokens.size \in Nat
        BY DEF IInv, Typed, VecOK
    <2>2. pc # "wild"
        BY <2>1 DEF Rhyming
    <2>3. ~verse.err /\ (pc = "raw" => verse.str_num \in tokens.size..(tokens.size + 3))
        BY <2>1 DEF Rhyming, Versed
    <2> QED BY <2>2, <2>3 DEF VersesWhole
<1> QED BY <1>1, Inductive, PTL

(* The lines that main prints sorted ascend if no line has a printable     *)
(* character, for every text, every order qsort may produce from what the  *)
(* comparator says, and every block; the comparators leave the block only  *)
(* if a line has one (custom_line_comparator, main.cpp:66;                 *)
(* custom_reverse_line_comparator, main.cpp:115).                          *)
THEOREM LinesAreAscending == Spec => []LinesAscend
<1>1. Init => Ending /\ Ascending /\ Astray
    BY DEF Init, Ending, Ascending, Astray
<1>2. IInv /\ Ending /\ Ascending /\ Astray /\ [Next]_vars => (Ending /\ Ascending /\ Astray)'
    <2> SUFFICES ASSUME IInv, Ending, Ascending, Astray, [Next]_vars PROVE Ending' /\ Ascending' /\ Astray'
        OBVIOUS
    <2>1. CASE Tokenize
        BY <2>1, TokenizeEnds
    <2>2. CASE Sort
        BY <2>2, SortOrders
    <2>3. CASE SortAnew
        BY <2>3, SortAnewStays
    <2>4. CASE Reserve \/ Tokenized \/ Dump \/ UNCHANGED vars
        BY <2>4, OrderStays
    <2>5. CASE Read
        <3>1. pc' \in {"failed", "overrun", "count"}
            BY <2>5 DEF Read
        <3> QED BY <3>1 DEF Ending, Ascending, Astray
    <2>6. CASE CountMore
        <3>1. pc' \in {"overrun", "count"}
            BY <2>6 DEF CountMore
        <3> QED BY <3>1 DEF Ending, Ascending, Astray
    <2>7. CASE Draw \/ Rhyme \/ Rhymed \/ RawDump
        <3>1. pc' \in {"wild", "rhyme", "raw", "done"}
            BY <2>7 DEF Draw, Rhyme, Rhymed, RawDump
        <3> QED BY <3>1 DEF Ending, Ascending, Astray
    <2> QED BY <2>1, <2>2, <2>3, <2>4, <2>5, <2>6, <2>7 DEF Next
<1>3. IInv /\ Ending /\ Ascending /\ Astray => LinesAscend
    <2> SUFFICES ASSUME IInv, Ending, Ascending, Astray PROVE LinesAscend
        OBVIOUS
    <2>1. pc = "astray" => out.lines # <<>> /\ \E tok \in Lines : ~PlainLine(tok)
        BY DEF Astray, LinesPlain
    <2>2. ASSUME pc = "resort", \A tok \in Lines : PlainLine(tok),
                 NEW k \in DOMAIN out.lines, NEW l \in DOMAIN out.lines, NEW d \in 0..n, k < l,
                 \A e \in 0..(d - 1) : Byte(out.lines[k], e) = Byte(out.lines[l], e)
          PROVE  Byte(out.lines[k], d) <= Byte(out.lines[l], d)
        <3>1. /\ out.lines = [i \in 1..tokens.size |-> tokens.cells[i - 1]] /\ tokens.size \in Nat /\ mem \in Block /\ n \in Nat
              /\ AllEnded(mem, tokens) /\ TokensAre(tokens, Lines) /\ InOrder(tokens)
            BY <2>2, TextIs DEF IInv, Typed, VecOK, Dumped, AllRead, Ending, Ascending, LinesPlain
        <3> DEFINE a == k - 1
                   b == l - 1
        <3>2. a \in 0..(tokens.size - 1) /\ b \in 0..(tokens.size - 1) /\ a < b /\ d \in Nat
            BY <2>2, <3>1
        <3>3. out.lines[k] = tokens.cells[a] /\ out.lines[l] = tokens.cells[b]
            BY <3>1
        <3> HIDE DEF a, b
        <3>4. ~LexLess(tokens.cells[b], tokens.cells[a])
            BY <3>1, <3>2 DEF InOrder
        <3>5. Agree(tokens.cells[b], tokens.cells[a], d)
            BY <2>2, <3>3 DEF Agree
        <3>6. /\ Ended(mem, tokens.cells[a]) /\ PlainLine(tokens.cells[a])
              /\ Ended(mem, tokens.cells[b]) /\ PlainLine(tokens.cells[b])
              /\ mem \in Block
            BY <2>2, <3>1, <3>2 DEF AllEnded, TokensAre
        <3>7. Byte(tokens.cells[a], d) \in Int
            BY ONLY <3>2, <3>6, PlainBytes
        <3>8. Byte(tokens.cells[b], d) \in Int
            BY ONLY <3>2, <3>6, PlainBytes
        <3>9. ~(Byte(tokens.cells[b], d) < Byte(tokens.cells[a], d))
            BY <3>2, <3>4, <3>5 DEF LexLess
        <3> QED BY <3>3, <3>7, <3>8, <3>9
    <2> QED BY <2>1, <2>2 DEF LinesAscend
<1> QED BY <1>1, <1>2, <1>3, Inductive, PTL DEF Spec
=============================================================================
