----------------------------- MODULE LexerProofs -----------------------------
(***************************************************************************)
(* Theorems about Lexer: for every set of texts, of any length, and every  *)
(* caller of the loop.                                                     *)
(***************************************************************************)
EXTENDS Lexer, NumberLemmas, FiniteSetTheorems, TLAPS

-----------------------------------------------------------------------------
(* Texts.                                                                  *)

LEMMA SymIs ==
    ASSUME NEW s \in Seq(Classes)
    PROVE  /\ Len(s) \in Nat
           /\ \A p \in 1..Len(s) : Sym(s, p) = s[p] /\ Sym(s, p) \in Classes /\ Sym(s, p) # "end"
           /\ \A p \in Nat : p > Len(s) => Sym(s, p) = "end"
<1>1. Len(s) \in Nat /\ \A p \in 1..Len(s) : s[p] \in Classes
    OBVIOUS
<1> QED BY <1>1 DEF Sym, Classes

(* A run ends where it should.                                             *)
LEMMA RunEndIs ==
    ASSUME NEW s \in Seq(Classes), NEW p \in 1..(Len(s) + 1), NEW C, "end" \notin C
    PROVE  /\ RunEnd(s, p, C) \in p..(Len(s) + 1)
           /\ Sym(s, RunEnd(s, p, C)) \notin C
           /\ \A r \in p..(RunEnd(s, p, C) - 1) : Sym(s, r) \in C
<1> DEFINE T == {q \in p..(Len(s) + 1) : Sym(s, q) \notin C}
           P(q) == Sym(s, q) \notin C /\ \A r \in p..(q - 1) : Sym(s, r) \in C
<1>1. Len(s) \in Nat /\ Sym(s, Len(s) + 1) = "end"
    BY SymIs
<1>2. T \in SUBSET Nat /\ Len(s) + 1 \in T
    BY <1>1
<1>3. PICK q \in T : \A r \in T : q <= r
    <2> HIDE DEF T
    <2> QED BY <1>2, LeastNumber
<1>4. q \in p..(Len(s) + 1) /\ P(q)
    BY <1>1, <1>3
<1>5. RunEnd(s, p, C) = CHOOSE x \in p..(Len(s) + 1) : P(x)
    BY DEF RunEnd
<1> HIDE DEF P
<1>6. RunEnd(s, p, C) \in p..(Len(s) + 1) /\ P(RunEnd(s, p, C))
    BY <1>4, <1>5
<1> QED BY <1>6 DEF P

(* Newlines add up, and are not more than places.                          *)
LEMMA NewlinesBound ==
    ASSUME NEW s, NEW a \in Nat, NEW c \in Nat
    PROVE  /\ IsFiniteSet({p \in a..c : Sym(s, p) = "newline"})
           /\ Newlines(s, a, c) \in Nat
           /\ Newlines(s, a, c) <= (IF a > c THEN 0 ELSE c - a + 1)
           /\ Newlines(s, a, c) = 0 <=> \A p \in a..c : Sym(s, p) # "newline"
<1> DEFINE N == {p \in a..c : Sym(s, p) = "newline"}
<1>1. IsFiniteSet(a..c) /\ Cardinality(a..c) = IF a > c THEN 0 ELSE c - a + 1
    BY FS_Interval
<1>2. N \in SUBSET (a..c)
    OBVIOUS
<1>3. Newlines(s, a, c) = Cardinality(N)
    BY DEF Newlines
<1>4. N = {} <=> \A p \in a..c : Sym(s, p) # "newline"
    OBVIOUS
<1> HIDE DEF N
<1>5. IsFiniteSet(N) /\ Cardinality(N) \in Nat /\ Cardinality(N) <= Cardinality(a..c)
    BY <1>1, <1>2, FS_Subset, FS_CardinalityType
<1>6. Cardinality(N) = 0 <=> N = {}
    BY <1>5, FS_EmptySet
<1> QED BY <1>1, <1>3, <1>4, <1>5, <1>6 DEF N

LEMMA NewlinesAdd ==
    ASSUME NEW s, NEW a \in Nat, NEW b \in Nat, NEW c \in Nat, a <= b + 1, b <= c
    PROVE  Newlines(s, a, c) = Newlines(s, a, b) + Newlines(s, b + 1, c)
<1> DEFINE N(f, t) == {p \in f..t : Sym(s, p) = "newline"}
<1>1. IsFiniteSet(N(a, b)) /\ IsFiniteSet(N(b + 1, c))
    <2>1. b + 1 \in Nat
        OBVIOUS
    <2> QED BY <2>1, NewlinesBound
<1>2. N(a, c) = N(a, b) \cup N(b + 1, c) /\ N(a, b) \cap N(b + 1, c) = {}
    OBVIOUS
<1>3. /\ Newlines(s, a, c) = Cardinality(N(a, c)) /\ Newlines(s, a, b) = Cardinality(N(a, b))
      /\ Newlines(s, b + 1, c) = Cardinality(N(b + 1, c))
    BY DEF Newlines
<1> HIDE DEF N
<1>4. Cardinality(N(a, b) \cup N(b + 1, c)) = Cardinality(N(a, b)) + Cardinality(N(b + 1, c))
    BY <1>1, <1>2, DisjointAdd
<1> QED BY <1>2, <1>3, <1>4

-----------------------------------------------------------------------------
(* The functions of lex.cpp.                                               *)

Lexers == {l \in [source_ : Seq(Classes), curr_sym_ : Nat, tok_ : Token, nline_ : Nat] :
              l.curr_sym_ \in 1..(Len(l.source_) + 1)}

(* Place q is in a comment that begins at place `from' or behind it.       *)
InComment(s, from, q) == \E h \in from..q : Sym(s, h) = "hash" /\ Newlines(s, h, q) = 0

IsPassed(s, from, q) ==
    Sym(s, q) # "end" /\ (Sym(s, q) \in {"newline", "blank"} \/ InComment(s, from, q))

(* What comes before a token is passed and the token is not.               *)
LEMMA BlanksPass ==
    ASSUME NEW l \in Lexers
    PROVE  LET s == l.source_
               r == pass_blanks(l)
           IN  /\ r \in Lexers
               /\ r.source_ = s /\ r.tok_ = l.tok_
               /\ r.curr_sym_ \in l.curr_sym_..(Len(s) + 1)
               /\ r.nline_ = l.nline_ + Newlines(s, l.curr_sym_, r.curr_sym_ - 1)
               /\ \A q \in l.curr_sym_..(r.curr_sym_ - 1) : IsPassed(s, l.curr_sym_, q)
               /\ ~IsPassed(s, l.curr_sym_, r.curr_sym_)
<1> DEFINE s == l.source_
           from == l.curr_sym_
           P(x) == ~IsPassed(s, from, x) /\ \A q \in from..(x - 1) : IsPassed(s, from, q)
           T == {x \in from..(Len(s) + 1) : ~IsPassed(s, from, x)}
           to == CHOOSE x \in from..(Len(s) + 1) : P(x)
<1>1. s \in Seq(Classes) /\ Len(s) \in Nat /\ from \in 1..(Len(s) + 1) /\ l.nline_ \in Nat
      /\ Sym(s, Len(s) + 1) = "end"
    BY SymIs DEF Lexers
<1>2. T \in SUBSET Nat /\ Len(s) + 1 \in T
    BY <1>1 DEF IsPassed
<1>3. PICK x \in T : \A r \in T : x <= r
    <2> HIDE DEF T
    <2> QED BY <1>2, LeastNumber
<1>4. x \in from..(Len(s) + 1) /\ P(x)
    BY <1>1, <1>3
<1> HIDE DEF P
<1>5. to \in from..(Len(s) + 1) /\ P(to)
    BY <1>4
<1>6. pass_blanks(l) = [l EXCEPT !.curr_sym_ = to, !.nline_ = @ + Newlines(s, from, to - 1)]
    BY DEF pass_blanks, P, IsPassed, InComment
<1> HIDE DEF to
<1>7. Newlines(s, from, to - 1) \in Nat
    <2>1. from \in Nat /\ to - 1 \in Nat
        BY <1>1, <1>5
    <2> QED BY <2>1, NewlinesBound
<1>8. pass_blanks(l) = [source_ |-> s, curr_sym_ |-> to, tok_ |-> l.tok_, nline_ |-> l.nline_ + Newlines(s, from, to - 1)]
    BY <1>6 DEF Lexers
<1>9. pass_blanks(l) \in Lexers
    BY <1>1, <1>5, <1>7, <1>8 DEF Lexers
<1> QED BY <1>5, <1>8, <1>9 DEF P

(* The characters a number may have.                                       *)
NumberChars == {"sign", "digit", "dot", "exp"}

LEMMA MantissaIs ==
    ASSUME NEW s \in Seq(Classes), NEW p \in 1..(Len(s) + 1)
    PROVE  /\ Mantissa(s, p) \in p..(Len(s) + 1)
           /\ \A q \in p..(Mantissa(s, p) - 1) : Sym(s, q) \in NumberChars
<1> DEFINE first == IF Sym(s, p) = "sign" THEN p + 1 ELSE p
           point == RunEnd(s, first, {"digit"})
           end   == IF Sym(s, point) = "dot" THEN RunEnd(s, point + 1, {"digit"}) ELSE point
<1>1. Len(s) \in Nat /\ \A q \in Nat : q > Len(s) => Sym(s, q) = "end"
    BY SymIs
<1>2. first \in p..(Len(s) + 1) /\ \A q \in p..(first - 1) : Sym(s, q) \in NumberChars
    BY <1>1 DEF NumberChars
<1> HIDE DEF first
<1>3. point \in first..(Len(s) + 1) /\ \A q \in first..(point - 1) : Sym(s, q) \in NumberChars
    BY <1>1, <1>2, RunEndIs DEF NumberChars
<1> HIDE DEF point
<1>4. end \in point..(Len(s) + 1) /\ \A q \in point..(end - 1) : Sym(s, q) \in NumberChars
    <2>1. CASE Sym(s, point) = "dot"
        <3>1. point + 1 \in 1..(Len(s) + 1)
            BY <1>1, <1>2, <1>3, <2>1
        <3>2. end \in (point + 1)..(Len(s) + 1) /\ \A q \in (point + 1)..(end - 1) : Sym(s, q) \in {"digit"}
            BY <2>1, <3>1, RunEndIs
        <3> QED BY <1>1, <1>2, <1>3, <2>1, <3>2 DEF NumberChars
    <2>2. CASE Sym(s, point) # "dot"
        BY <1>1, <1>2, <1>3, <2>2
    <2> QED BY <2>1, <2>2
<1>5. Mantissa(s, p) \in {end, p}
    BY DEF Mantissa, end, point, first
<1> HIDE DEF end
<1> QED BY <1>1, <1>2, <1>3, <1>4, <1>5

LEMMA StrtodIs ==
    ASSUME NEW s \in Seq(Classes), NEW p \in 1..(Len(s) + 1)
    PROVE  /\ strtod(s, p) \in p..(Len(s) + 1)
           /\ \A q \in p..(strtod(s, p) - 1) : Sym(s, q) \in NumberChars
<1> DEFINE m    == Mantissa(s, p)
           from == IF Sym(s, m + 1) = "sign" THEN m + 2 ELSE m + 1
<1>1. Len(s) \in Nat /\ \A q \in Nat : q > Len(s) => Sym(s, q) = "end"
    BY SymIs
<1>2. m \in p..(Len(s) + 1) /\ \A q \in p..(m - 1) : Sym(s, q) \in NumberChars
    BY MantissaIs
<1> HIDE DEF m
<1>3. CASE m > p /\ Sym(s, m) = "exp" /\ Sym(s, from) = "digit"
    <2>1. m <= Len(s) /\ from \in 1..(Len(s) + 1) /\ from > m /\ \A q \in m..(from - 1) : Sym(s, q) \in NumberChars
        BY <1>1, <1>2, <1>3 DEF NumberChars
    <2>2. strtod(s, p) = RunEnd(s, from, {"digit"})
        BY <1>3 DEF strtod, m
    <2> HIDE DEF from
    <2>3. strtod(s, p) \in from..(Len(s) + 1) /\ \A q \in from..(strtod(s, p) - 1) : Sym(s, q) \in {"digit"}
        BY <2>1, <2>2, RunEndIs
    <2> QED BY <1>1, <1>2, <2>1, <2>3 DEF NumberChars
<1>4. CASE ~(m > p /\ Sym(s, m) = "exp" /\ Sym(s, from) = "digit")
    <2>1. strtod(s, p) = m
        BY <1>4 DEF strtod, m
    <2> QED BY <1>2, <2>1
<1> QED BY <1>3, <1>4

(* Where lex_skip_line goes.                                               *)
LineEnd(s, p) == RunEnd(s, p, Classes \ {"newline"})

(* What a call returns, when the token begins at the lexer's position.     *)
TokenMade(l, r) ==
    LET s == l.source_
        tok == r.tok_
        end == tok.beg + tok.size
    IN  /\ r \in Lexers
        /\ r.source_ = s /\ r.nline_ = l.nline_ /\ tok.nline = l.nline_ /\ tok.beg = l.curr_sym_
        /\ tok.type \in TokenType
        /\ r.curr_sym_ >= tok.beg
        /\ tok.type \notin {"FINAL", "INCORRECT"} => r.curr_sym_ = end
        /\ \A p \in tok.beg..(r.curr_sym_ - 1) : Sym(s, p) \in NumberChars \cup Word \cup {"colon"}
        /\ tok.type = "FINAL" <=> Sym(s, tok.beg) = "end"
        /\ tok.type = "FINAL" => r.curr_sym_ = tok.beg /\ tok.size = 1
        /\ tok.type = "IDENTIFIER" => Sym(s, tok.beg) \in Word
        /\ tok.type = "COLON" => Sym(s, tok.beg) = "colon" /\ tok.size = 1
        /\ tok.type \in {"IDENTIFIER", "INT_NUMBER", "DEC_NUMBER"} => Sym(s, r.curr_sym_) \notin Word
        /\ tok.type = "INCORRECT" =>
              /\ r.curr_sym_ <= end
              /\ end <= LineEnd(s, r.curr_sym_)
              /\ tok.beg < LineEnd(s, r.curr_sym_)

LEMMA LineEndIs ==
    ASSUME NEW s \in Seq(Classes), NEW p \in 1..(Len(s) + 1)
    PROVE  /\ LineEnd(s, p) \in p..(Len(s) + 1)
           /\ Sym(s, LineEnd(s, p)) \in {"newline", "end"}
           /\ Sym(s, p) \notin {"newline", "end"} => LineEnd(s, p) > p
           /\ \A r \in p..(LineEnd(s, p) - 1) : Sym(s, r) # "newline"
<1> DEFINE q == LineEnd(s, p)
<1>1. "end" \notin Classes \ {"newline"}
    BY DEF Classes
<1>2. /\ q \in p..(Len(s) + 1) /\ Sym(s, q) \notin Classes \ {"newline"}
      /\ \A r \in p..(q - 1) : Sym(s, r) \in Classes \ {"newline"}
    BY <1>1, RunEndIs DEF LineEnd
<1> HIDE DEF q
<1>3. Sym(s, q) \in {"newline", "end"}
    BY <1>2, SymIs
<1>4. Sym(s, p) \notin {"newline", "end"} => q > p
    BY <1>2, <1>3
<1> QED BY <1>2, <1>3, <1>4 DEF q

Made(l, type, size, to) ==
    [source_ |-> l.source_, curr_sym_ |-> to, nline_ |-> l.nline_,
     tok_ |-> [type |-> type, beg |-> l.curr_sym_, size |-> size, nline |-> l.nline_]]

LEMMA MadeIs ==
    ASSUME NEW l \in Lexers, NEW type \in TokenType, NEW size \in Nat, NEW k \in Nat
    PROVE  /\ make_token(l, type, size) = Made(l, type, size, l.curr_sym_)
           /\ advance(make_token(l, type, size), k) = Made(l, type, size, l.curr_sym_ + k)
           /\ l.curr_sym_ + k <= Len(l.source_) + 1 => Made(l, type, size, l.curr_sym_ + k) \in Lexers
<1>1. l = [source_ |-> l.source_, curr_sym_ |-> l.curr_sym_, tok_ |-> l.tok_, nline_ |-> l.nline_]
    BY DEF Lexers
<1>2. make_token(l, type, size) = Made(l, type, size, l.curr_sym_)
    BY <1>1 DEF make_token, Made
<1>3. advance(make_token(l, type, size), k) = Made(l, type, size, l.curr_sym_ + k)
    BY <1>2 DEF advance, Made
<1>4. [type |-> type, beg |-> l.curr_sym_, size |-> size, nline |-> l.nline_] \in Token
    BY DEF Token, Lexers
<1>5. ASSUME l.curr_sym_ + k <= Len(l.source_) + 1
      PROVE  Made(l, type, size, l.curr_sym_ + k) \in Lexers
    BY <1>4, <1>5 DEF Made, Lexers
<1> QED BY <1>2, <1>3, <1>5

LEMMA MakesNumber ==
    ASSUME NEW l \in Lexers, NEW erange \in BOOLEAN,
           Sym(l.source_, l.curr_sym_) \in {"digit", "sign"}
    PROVE  TokenMade(l, make_number(l, erange))
<1> DEFINE s    == l.source_
           p    == l.curr_sym_
           nend == strtod(s, p)
           bad  == Sym(s, nend) \notin IsSpace \cup {"end"} \/ (erange /\ nend > Mantissa(s, p))
           type == IF bad THEN "INCORRECT"
                   ELSE IF \E q \in p..(nend - 1) : s[q] = "dot" THEN "DEC_NUMBER" ELSE "INT_NUMBER"
           r    == Made(l, type, nend - p, nend)
<1>1. s \in Seq(Classes) /\ Len(s) \in Nat /\ p \in 1..(Len(s) + 1) /\ l.nline_ \in Nat
    BY SymIs DEF Lexers
<1>2. nend \in p..(Len(s) + 1) /\ \A q \in p..(nend - 1) : Sym(s, q) \in NumberChars
    BY <1>1, StrtodIs
<1>3. make_number(l, erange) = advance(make_token(l, type, nend - p), nend - p)
    BY DEF make_number
<1>4. type \in {"INCORRECT", "DEC_NUMBER", "INT_NUMBER"} /\ (type # "INCORRECT" => Sym(s, nend) \in IsSpace \cup {"end"})
    OBVIOUS
<1>5. type \in TokenType
    BY <1>4 DEF TokenType, Consts
<1> HIDE DEF type, bad, nend
<1>6. nend - p \in Nat /\ p + (nend - p) = nend
    BY <1>1, <1>2
<1>7. make_number(l, erange) = r /\ r \in Lexers
    BY <1>2, <1>3, <1>5, <1>6, MadeIs
<1>8. type # "INCORRECT" => Sym(s, nend) \notin Word
    BY <1>4 DEF IsSpace, Word, IsAlpha
<1>9. nend <= LineEnd(s, nend) /\ p < LineEnd(s, nend)
    <2>1. LineEnd(s, nend) \in nend..(Len(s) + 1) /\ (Sym(s, nend) \notin {"newline", "end"} => LineEnd(s, nend) > nend)
        BY <1>1, <1>2, LineEndIs
    <2>2. p = nend => LineEnd(s, nend) > nend
        BY <2>1
    <2> QED BY <1>1, <1>2, <2>1, <2>2
<1>10. TokenMade(l, r)
    <2>1. r.source_ = s /\ r.nline_ = l.nline_ /\ r.curr_sym_ = nend
          /\ r.tok_ = [type |-> type, beg |-> p, size |-> nend - p, nline |-> l.nline_]
        BY DEF Made
    <2> HIDE DEF r
    <2> QED BY <1>1, <1>2, <1>4, <1>5, <1>6, <1>7, <1>8, <1>9, <2>1 DEF TokenMade
<1> QED BY <1>7, <1>10

LEMMA MakesIdentifier ==
    ASSUME NEW l \in Lexers, Sym(l.source_, l.curr_sym_) \in IsAlpha
    PROVE  TokenMade(l, make_identifier(l))
<1> DEFINE s    == l.source_
           p    == l.curr_sym_
           nend == RunEnd(s, p, Word)
           r    == Made(l, "IDENTIFIER", nend - p, nend)
<1>1. s \in Seq(Classes) /\ Len(s) \in Nat /\ p \in 1..(Len(s) + 1) /\ l.nline_ \in Nat
    BY SymIs DEF Lexers
<1>2. nend \in p..(Len(s) + 1) /\ Sym(s, nend) \notin Word /\ \A q \in p..(nend - 1) : Sym(s, q) \in Word
    <2>1. "end" \notin Word
        BY DEF Word, IsAlpha
    <2> QED BY <1>1, <2>1, RunEndIs
<1>3. make_identifier(l) = advance(make_token(l, "IDENTIFIER", nend - p), nend - p)
    BY DEF make_identifier
<1> HIDE DEF nend
<1>4. Sym(s, p) \in Word
    BY DEF Word
<1>5. nend - p \in Nat /\ p + (nend - p) = nend /\ "IDENTIFIER" \in TokenType
    BY <1>1, <1>2 DEF TokenType
<1>6. make_identifier(l) = r /\ r \in Lexers
    BY <1>2, <1>3, <1>5, MadeIs
<1>7. TokenMade(l, r)
    <2>1. r.source_ = s /\ r.nline_ = l.nline_ /\ r.curr_sym_ = nend
          /\ r.tok_ = [type |-> "IDENTIFIER", beg |-> p, size |-> nend - p, nline |-> l.nline_]
        BY DEF Made
    <2> HIDE DEF r
    <2> QED BY <1>1, <1>2, <1>4, <1>5, <1>6, <2>1 DEF TokenMade, Word, IsAlpha
<1> QED BY <1>6, <1>7

LEMMA MakesSingle ==
    ASSUME NEW l \in Lexers
    PROVE  /\ Sym(l.source_, l.curr_sym_) = "colon" => TokenMade(l, make_colon(l))
           /\ Sym(l.source_, l.curr_sym_) = "end" => TokenMade(l, make_final(l))
           /\ Sym(l.source_, l.curr_sym_) \notin {"newline", "end"} => TokenMade(l, make_incorrect(l))
<1> DEFINE s == l.source_
           p == l.curr_sym_
<1>1. s \in Seq(Classes) /\ Len(s) \in Nat /\ p \in 1..(Len(s) + 1) /\ l.nline_ \in Nat
      /\ (Sym(s, p) = "colon" => p <= Len(s))
    BY SymIs DEF Lexers
<1>2. {"COLON", "FINAL", "INCORRECT"} \subseteq TokenType
    BY DEF TokenType
<1>3. ASSUME Sym(s, p) = "colon" PROVE TokenMade(l, make_colon(l))
    <2> DEFINE r == Made(l, "COLON", 1, p + 1)
    <2>1. make_colon(l) = r /\ r \in Lexers
        BY <1>1, <1>2, <1>3, MadeIs DEF make_colon
    <2>2. r.source_ = s /\ r.nline_ = l.nline_ /\ r.curr_sym_ = p + 1
          /\ r.tok_ = [type |-> "COLON", beg |-> p, size |-> 1, nline |-> l.nline_]
        BY DEF Made
    <2> HIDE DEF r
    <2>3. TokenMade(l, r)
        BY <1>1, <1>2, <1>3, <2>1, <2>2 DEF TokenMade
    <2> QED BY <2>1, <2>3
<1>4. ASSUME Sym(s, p) = "end" PROVE TokenMade(l, make_final(l))
    <2> DEFINE r == Made(l, "FINAL", 1, p)
    <2>1. make_final(l) = r /\ r \in Lexers
        <3>1. p + 0 = p
            BY <1>1
        <3> QED BY <1>1, <1>2, <3>1, MadeIs DEF make_final
    <2>2. r.source_ = s /\ r.nline_ = l.nline_ /\ r.curr_sym_ = p
          /\ r.tok_ = [type |-> "FINAL", beg |-> p, size |-> 1, nline |-> l.nline_]
        BY DEF Made
    <2> HIDE DEF r
    <2>3. TokenMade(l, r)
        BY <1>1, <1>2, <1>4, <2>1, <2>2 DEF TokenMade
    <2> QED BY <2>1, <2>3
<1>5. ASSUME Sym(s, p) \notin {"newline", "end"} PROVE TokenMade(l, make_incorrect(l))
    <2> DEFINE r == Made(l, "INCORRECT", 1, p)
    <2>1. make_incorrect(l) = r /\ r \in Lexers
        <3>1. p + 0 = p
            BY <1>1
        <3> QED BY <1>1, <1>2, <3>1, MadeIs DEF make_incorrect
    <2>2. r.source_ = s /\ r.nline_ = l.nline_ /\ r.curr_sym_ = p
          /\ r.tok_ = [type |-> "INCORRECT", beg |-> p, size |-> 1, nline |-> l.nline_]
        BY DEF Made
    <2>3. LineEnd(s, p) \in Nat /\ LineEnd(s, p) > p
        BY <1>1, <1>5, LineEndIs
    <2> HIDE DEF r
    <2>4. TokenMade(l, r)
        BY <1>1, <1>2, <1>5, <2>1, <2>2, <2>3 DEF TokenMade
    <2> QED BY <2>1, <2>4
<1> QED BY <1>3, <1>4, <1>5

(* A token is made where the blanks end.                                   *)
LEMMA TokenIsMade ==
    ASSUME NEW l \in Lexers, NEW erange \in BOOLEAN
    PROVE  /\ pass_blanks(l) \in Lexers
           /\ TokenMade(pass_blanks(l), lex_get_tok(l, erange))
<1> DEFINE b == pass_blanks(l)
           t == lex_get_tok(l, erange)
<1>1. b \in Lexers
    BY BlanksPass
<1> DEFINE c == Sym(b.source_, b.curr_sym_)
<1>2. c # "newline"
    BY BlanksPass DEF IsPassed
<1>3. t = CASE c = "colon"             -> make_colon(b)
            [] c \in {"digit", "sign"} -> make_number(b, erange)
            [] c = "end"               -> make_final(b)
            [] c \in IsAlpha           -> make_identifier(b)
            [] OTHER                   -> make_incorrect(b)
    BY DEF lex_get_tok
<1> HIDE DEF t, b
<1>4. ASSUME c = "colon" PROVE TokenMade(b, t)
    <2>1. t = make_colon(b)
        BY <1>3, <1>4 DEF IsAlpha
    <2> QED BY <1>1, <1>4, <2>1, MakesSingle
<1>5. ASSUME c \in {"digit", "sign"} PROVE TokenMade(b, t)
    <2>1. t = make_number(b, erange)
        BY <1>3, <1>5 DEF IsAlpha
    <2> QED BY <1>1, <1>5, <2>1, MakesNumber
<1>6. ASSUME c = "end" PROVE TokenMade(b, t)
    <2>1. t = make_final(b)
        BY <1>3, <1>6 DEF IsAlpha
    <2> QED BY <1>1, <1>6, <2>1, MakesSingle
<1>7. ASSUME c \in IsAlpha PROVE TokenMade(b, t)
    <2>1. t = make_identifier(b)
        BY <1>3, <1>7 DEF IsAlpha
    <2> QED BY <1>1, <1>7, <2>1, MakesIdentifier
<1>8. ASSUME c \notin {"colon", "digit", "sign", "end"} \cup IsAlpha PROVE TokenMade(b, t)
    <2>1. t = make_incorrect(b)
        BY <1>3, <1>8
    <2> QED BY <1>1, <1>2, <1>8, <2>1, MakesSingle
<1>9. TokenMade(b, t)
    BY <1>4, <1>5, <1>6, <1>7, <1>8
<1> QED BY <1>1, <1>9 DEF t, b

(* A caller that skips the line of what it cannot use gets on.             *)
LEMMA SkipLineMoves ==
    ASSUME NEW l \in Lexers
    PROVE  LET r == lex_skip_line(l)
           IN  /\ r \in Lexers /\ r.source_ = l.source_
               /\ r.curr_sym_ >= l.curr_sym_
               /\ Sym(l.source_, l.curr_sym_) \notin {"newline", "end"} => r.curr_sym_ > l.curr_sym_
<1> DEFINE to == LineEnd(l.source_, l.curr_sym_)
           r  == lex_skip_line(l)
<1>1. l.source_ \in Seq(Classes) /\ Len(l.source_) \in Nat /\ l.curr_sym_ \in 1..(Len(l.source_) + 1)
    BY SymIs DEF Lexers
<1>2. /\ to \in l.curr_sym_..(Len(l.source_) + 1)
      /\ Sym(l.source_, l.curr_sym_) \notin {"newline", "end"} => to > l.curr_sym_
    BY <1>1, LineEndIs
<1>3. r = [l EXCEPT !.curr_sym_ = to]
    BY DEF lex_skip_line, LineEnd
<1> HIDE DEF to, r
<1>4. r = [source_ |-> l.source_, curr_sym_ |-> to, tok_ |-> l.tok_, nline_ |-> l.nline_]
    BY <1>3 DEF Lexers
<1>5. r \in Lexers
    BY <1>1, <1>2, <1>4 DEF Lexers
<1>6. r.source_ = l.source_ /\ r.curr_sym_ = to
    BY <1>4
<1> QED BY <1>1, <1>2, <1>5, <1>6 DEF r

(* A token but the last begins in the text.                                *)
LEMMA TokenInText ==
    ASSUME NEW l \in Lexers, NEW erange \in BOOLEAN
    PROVE  LET tok == lex_get_tok(l, erange).tok_
           IN  tok.beg \in Nat /\ (tok.type # "FINAL" => tok.beg \in 1..Len(l.source_))
<1> DEFINE r == lex_get_tok(l, erange)
           b == pass_blanks(l)
           s == l.source_
           beg == r.tok_.beg
<1>1. b \in Lexers /\ TokenMade(b, r) /\ b.source_ = s /\ s \in Seq(Classes)
    BY TokenIsMade, BlanksPass DEF Lexers
<1> HIDE DEF r, b
<1>2. beg = b.curr_sym_ /\ (r.tok_.type = "FINAL" <=> Sym(s, beg) = "end")
    BY <1>1 DEF TokenMade
<1>3. beg \in 1..(Len(s) + 1) /\ Len(s) \in Nat /\ Sym(s, Len(s) + 1) = "end"
    BY <1>1, <1>2, SymIs DEF Lexers
<1>4. r.tok_.type # "FINAL" => beg # Len(s) + 1
    BY <1>2, <1>3
<1> QED BY <1>3, <1>4 DEF r

LEMMA GetTokMoves ==
    ASSUME NEW l \in Lexers, NEW erange \in BOOLEAN
    PROVE  LET r == lex_get_tok(l, erange)
           IN  /\ r \in Lexers /\ r.source_ = l.source_
               /\ r.curr_sym_ >= l.curr_sym_
               /\ r.tok_.type = "IDENTIFIER" => r.curr_sym_ > l.curr_sym_
               /\ r.tok_.type # "FINAL" => lex_skip_line(r).curr_sym_ > l.curr_sym_
<1> DEFINE r == lex_get_tok(l, erange)
           b == pass_blanks(l)
           s == l.source_
           beg == r.tok_.beg
<1>1. b \in Lexers /\ TokenMade(b, r)
    BY TokenIsMade
<1>2. b.source_ = s /\ b.curr_sym_ \in l.curr_sym_..(Len(s) + 1) /\ ~IsPassed(s, l.curr_sym_, b.curr_sym_)
    BY BlanksPass
<1> HIDE DEF r, b
<1>3. /\ r \in Lexers /\ r.source_ = s /\ beg = b.curr_sym_ /\ r.curr_sym_ >= beg
      /\ r.tok_.type = "FINAL" <=> Sym(s, beg) = "end"
      /\ r.tok_.type = "IDENTIFIER" => Sym(s, beg) \in Word /\ Sym(s, r.curr_sym_) \notin Word
    BY <1>1, <1>2 DEF TokenMade
<1>4. l.curr_sym_ \in Nat /\ beg \in Nat /\ beg >= l.curr_sym_ /\ r.curr_sym_ \in Nat
    BY <1>1, <1>2, <1>3 DEF Lexers
<1>5. ASSUME r.tok_.type = "IDENTIFIER" PROVE r.curr_sym_ > l.curr_sym_
    <2>1. r.curr_sym_ # beg
        BY <1>3, <1>5
    <2> QED BY <1>3, <1>4, <2>1
<1>6. ASSUME r.tok_.type # "FINAL" PROVE lex_skip_line(r).curr_sym_ > l.curr_sym_
    <2> DEFINE t == lex_skip_line(r)
    <2>1. /\ t \in Lexers /\ t.curr_sym_ >= r.curr_sym_
          /\ Sym(s, r.curr_sym_) \notin {"newline", "end"} => t.curr_sym_ > r.curr_sym_
        BY <1>3, SkipLineMoves
    <2>2. t.curr_sym_ \in Nat
        BY <2>1 DEF Lexers
    <2> HIDE DEF t
    <2>3. CASE r.curr_sym_ = beg
        <3>1. Sym(s, beg) # "end"
            BY <1>3, <1>6
        <3>2. Sym(s, beg) # "newline"
            BY <1>2, <1>3, <3>1 DEF IsPassed
        <3> QED BY <1>4, <2>1, <2>2, <2>3, <3>1, <3>2 DEF t
    <2>4. CASE r.curr_sym_ # beg
        BY <1>3, <1>4, <2>1, <2>2, <2>4 DEF t
    <2> QED BY <2>3, <2>4
<1> QED BY <1>3, <1>4, <1>5, <1>6 DEF r

-----------------------------------------------------------------------------
(* The inductive invariant.                                                *)

Types ==
    /\ lex \in Lexers /\ Source \in Sources
    /\ read \subseteq Token /\ fresh \in BOOLEAN
    /\ skipped \subseteq 1..(lex.curr_sym_ - 1)
    /\ fresh => lex.tok_ \in read

(* The lexer and the tokens name the lines they are on.                    *)
LexerLine == lex.nline_ = 1 + Newlines(Source, 1, lex.curr_sym_ - 1)

Earlier == \A tok \in read : tok.beg >= 1 /\ tok.nline <= lex.nline_

(* A token that the caller has not dealt with, and that the lexer did not  *)
(* pass: an incorrect one is passed with its line.                         *)
Loose(tok) ==
    /\ fresh /\ tok = lex.tok_
    /\ \/ tok.type = "FINAL"
       \/ tok.type = "INCORRECT" /\ tok.beg + tok.size <= LineEnd(Source, lex.curr_sym_)

Behind == \A tok \in read : tok.beg + tok.size <= lex.curr_sym_ \/ Loose(tok)

(* No comment goes on at place p, unless its line ends there.              *)
NoComment(s, p) == \A h \in 1..(p - 1) : Sym(s, h) = "hash" => Newlines(s, h, p - 1) > 0

CleanStart == Sym(Source, lex.curr_sym_) \in {"newline", "end"} \/ NoComment(Source, lex.curr_sym_)

(* The lexer does not stop inside a word, but for an incorrect token.      *)
Break ==
    \/ fresh /\ lex.tok_.type = "INCORRECT"
    \/ lex.curr_sym_ = 1
    \/ Sym(Source, lex.curr_sym_ - 1) \notin Word
    \/ Sym(Source, lex.curr_sym_) \notin Word

(* An error is of an earlier line, or its line is over, or it is the last. *)
ErrorsPast ==
    \A tok \in read : tok.type = "INCORRECT" =>
        \/ tok.nline < lex.nline_
        \/ Sym(Source, lex.curr_sym_) \in {"newline", "end"}
        \/ fresh /\ tok = lex.tok_

IInv ==
    /\ Types /\ LexerLine /\ Earlier /\ Behind /\ CleanStart /\ Break /\ ErrorsPast
    /\ LinesRight /\ EachCharacterOnce /\ NoTiedErrors

LEMMA NewlineIn ==
    ASSUME NEW s, NEW a \in Nat, NEW c \in Nat
    PROVE  Newlines(s, a, c) > 0 <=> \E p \in a..c : Sym(s, p) = "newline"
<1>1. Newlines(s, a, c) \in Nat
    BY NewlinesBound
<1>2. Newlines(s, a, c) = 0 <=> \A p \in a..c : Sym(s, p) # "newline"
    BY NewlinesBound
<1> QED BY <1>1, <1>2

(* No comment goes on at a token.                                          *)
LEMMA NoCommentAtToken ==
    ASSUME NEW l \in Lexers,
           Sym(l.source_, l.curr_sym_) \in {"newline", "end"} \/ NoComment(l.source_, l.curr_sym_)
    PROVE  LET s == l.source_
               b == pass_blanks(l).curr_sym_
           IN  Sym(s, b) = "end" \/ NoComment(s, b)
<1> DEFINE s == l.source_
           c == l.curr_sym_
           b == pass_blanks(l).curr_sym_
<1>1. Len(s) \in Nat /\ c \in 1..(Len(s) + 1) /\ b \in c..(Len(s) + 1)
      /\ (\A q \in c..(b - 1) : IsPassed(s, c, q)) /\ ~IsPassed(s, c, b)
    BY BlanksPass, SymIs DEF Lexers
<1> HIDE DEF b
<1> SUFFICES ASSUME Sym(s, b) # "end" PROVE NoComment(s, b)
    BY DEF b
<1>2. Sym(s, b) # "newline" /\ ~InComment(s, c, b)
    BY <1>1 DEF IsPassed
<1> SUFFICES ASSUME NEW h \in 1..(b - 1), Sym(s, h) = "hash" PROVE Newlines(s, h, b - 1) > 0
    BY DEF NoComment
<1>3. h \in Nat /\ b - 1 \in Nat /\ b \in Nat /\ c \in Nat /\ c - 1 \in Nat
    BY <1>1
<1>4. SUFFICES \E p \in h..(b - 1) : Sym(s, p) = "newline"
    BY <1>3, NewlineIn
<1>5. CASE h >= c
    <2>1. Newlines(s, h, b) # 0
        BY <1>1, <1>2, <1>3, <1>5 DEF InComment
    <2>2. PICK p \in h..b : Sym(s, p) = "newline"
        BY <1>3, <2>1, NewlinesBound
    <2> QED BY <1>2, <1>3, <2>2
<1>6. CASE h < c /\ NoComment(s, c)
    <2>1. Newlines(s, h, c - 1) > 0
        BY <1>1, <1>3, <1>6 DEF NoComment
    <2>2. PICK p \in h..(c - 1) : Sym(s, p) = "newline"
        BY <1>3, <2>1, NewlineIn
    <2> QED BY <1>1, <1>3, <2>2
<1>7. CASE h < c /\ Sym(s, c) \in {"newline", "end"}
    <2>1. b # c
        BY <1>2, <1>7
    <2>2. IsPassed(s, c, c) /\ c \in h..(b - 1)
        BY <1>1, <1>3, <1>7, <2>1
    <2> QED BY <1>7, <2>2 DEF IsPassed
<1> QED BY <1>3, <1>5, <1>6, <1>7

(* What the caller gets from the lexer l.                                  *)
Got(l, r) ==
    LET s   == l.source_
        c   == l.curr_sym_
        tok == r.tok_
        to  == r.curr_sym_
    IN  /\ r \in Lexers /\ r.source_ = s /\ tok \in Token
        /\ tok.beg \in c..(Len(s) + 1) /\ to \in tok.beg..(Len(s) + 1)
        /\ r.nline_ = tok.nline /\ tok.nline = l.nline_ + Newlines(s, c, tok.beg - 1)
        /\ \A q \in c..(tok.beg - 1) : IsPassed(s, c, q)
        /\ ~IsPassed(s, c, tok.beg)
        /\ \A q \in tok.beg..(to - 1) : Sym(s, q) \in NumberChars \cup Word \cup {"colon"}
        /\ tok.type = "FINAL" \/ \A q \in tok.beg..to : NoComment(s, q)
        /\ TokenMade(pass_blanks(l), r)

LEMMA GotToken ==
    ASSUME NEW l \in Lexers, NEW erange \in BOOLEAN,
           Sym(l.source_, l.curr_sym_) \in {"newline", "end"} \/ NoComment(l.source_, l.curr_sym_)
    PROVE  Got(l, lex_get_tok(l, erange))
<1> DEFINE r  == lex_get_tok(l, erange)
           b  == pass_blanks(l)
           s  == l.source_
           at == b.curr_sym_
           to == r.curr_sym_
<1>1. b \in Lexers /\ b.source_ = s /\ at \in l.curr_sym_..(Len(s) + 1)
      /\ b.nline_ = l.nline_ + Newlines(s, l.curr_sym_, at - 1)
      /\ (\A q \in l.curr_sym_..(at - 1) : IsPassed(s, l.curr_sym_, q)) /\ ~IsPassed(s, l.curr_sym_, at)
      /\ (Sym(s, at) = "end" \/ NoComment(s, at))
    BY BlanksPass, NoCommentAtToken
<1>2. TokenMade(b, r)
    BY TokenIsMade
<1>3. Len(s) \in Nat /\ l.curr_sym_ \in 1..(Len(s) + 1)
    BY SymIs DEF Lexers
<1> HIDE DEF r, b
<1>4. /\ r \in Lexers /\ r.source_ = s /\ r.tok_.beg = at /\ r.nline_ = b.nline_ /\ r.tok_.nline = b.nline_
      /\ to >= at
      /\ \A p \in at..(to - 1) : Sym(s, p) \in NumberChars \cup Word \cup {"colon"}
    BY <1>1, <1>2 DEF TokenMade
<1>5. r.tok_ \in Token /\ to \in at..(Len(s) + 1)
    BY <1>1, <1>3, <1>4 DEF Lexers
<1>6. ASSUME r.tok_.type # "FINAL", NEW q \in at..to PROVE NoComment(s, q)
    <2>1. NoComment(s, at)
        BY <1>1, <1>2, <1>4, <1>6 DEF TokenMade
    <2> SUFFICES ASSUME NEW h \in 1..(q - 1), Sym(s, h) = "hash" PROVE Newlines(s, h, q - 1) > 0
        BY DEF NoComment
    <2>2. at \in Nat /\ q \in Nat /\ h \in Nat /\ q - 1 \in Nat /\ at - 1 \in Nat
        BY <1>1, <1>3, <1>5
    <2>3. h < at
        BY <1>4, <1>5, <2>2 DEF NumberChars, Word, IsAlpha
    <2>4. Newlines(s, h, at - 1) > 0
        BY <2>1, <2>2, <2>3 DEF NoComment
    <2>5. PICK p \in h..(at - 1) : Sym(s, p) = "newline"
        BY <2>2, <2>4, NewlineIn
    <2> QED BY <2>2, <2>5, NewlineIn
<1>7. r.tok_.type = "FINAL" \/ \A q \in at..to : NoComment(s, q)
    BY <1>6
<1>8. TokenMade(pass_blanks(l), r)
    BY <1>2 DEF b
<1>9. Got(l, r)
    BY <1>1, <1>4, <1>5, <1>7, <1>8 DEF Got
<1> QED BY <1>9 DEF r

(* What the lexer passes before a token means nothing, and what it passes  *)
(* in a token does.                                                        *)
LEMMA PassedMeaning ==
    ASSUME NEW l \in Lexers, NEW r, Got(l, r)
    PROVE  LET s == l.source_ IN
           /\ \A q \in l.curr_sym_..(r.tok_.beg - 1) :
                 Sym(s, q) \in {"newline", "blank"} \/ InComment(s, 1, q)
           /\ \A q \in r.tok_.beg..(r.curr_sym_ - 1) :
                 ~(Sym(s, q) \in {"newline", "blank"} \/ InComment(s, 1, q))
<1> DEFINE s == l.source_
           c == l.curr_sym_
           beg == r.tok_.beg
           to == r.curr_sym_
<1>1. Len(s) \in Nat /\ c \in 1..(Len(s) + 1) /\ beg \in c..(Len(s) + 1) /\ to \in beg..(Len(s) + 1)
    BY SymIs DEF Lexers, Got
<1>2. ASSUME NEW q \in c..(beg - 1)
      PROVE  Sym(s, q) \in {"newline", "blank"} \/ InComment(s, 1, q)
    <2>1. IsPassed(s, c, q)
        BY DEF Got
    <2>2. c..q \subseteq 1..q
        BY <1>1
    <2> QED BY <2>1, <2>2 DEF IsPassed, InComment
<1>3. ASSUME NEW q \in beg..(to - 1)
      PROVE  ~(Sym(s, q) \in {"newline", "blank"} \/ InComment(s, 1, q))
    <2>1. Sym(s, q) \in NumberChars \cup Word \cup {"colon"}
        BY DEF Got
    <2>2. Sym(s, q) \notin {"newline", "blank", "hash"}
        BY <2>1 DEF NumberChars, Word, IsAlpha
    <2>3. r.tok_.type # "FINAL"
        BY <1>1 DEF Got, TokenMade
    <2>4. NoComment(s, q)
        BY <1>1, <2>3 DEF Got
    <2>5. ASSUME NEW h \in 1..q, Sym(s, h) = "hash", Newlines(s, h, q) = 0 PROVE FALSE
        <3>1. h \in Nat /\ q \in Nat /\ q - 1 \in Nat
            BY <1>1
        <3>2. h \in 1..(q - 1)
            BY <2>2, <2>5, <3>1
        <3>3. Newlines(s, h, q - 1) > 0
            BY <2>4, <2>5, <3>2 DEF NoComment
        <3>4. PICK p \in h..(q - 1) : Sym(s, p) = "newline"
            BY <3>1, <3>3, NewlineIn
        <3>5. p \in h..q
            BY <3>1, <3>4
        <3> QED BY <2>5, <3>1, <3>4, <3>5, NewlinesBound
    <2> QED BY <2>2, <2>5 DEF InComment
<1> QED BY <1>2, <1>3

(* Lines of the lexer, of the token it makes and of places in between.     *)
LEMMA GotLine ==
    ASSUME NEW l \in Lexers, NEW r, Got(l, r), l.nline_ = 1 + Newlines(l.source_, 1, l.curr_sym_ - 1)
    PROVE  LET s == l.source_ IN
           /\ r.tok_.nline = 1 + Newlines(s, 1, r.tok_.beg - 1)
           /\ r.nline_ = 1 + Newlines(s, 1, r.curr_sym_ - 1)
           /\ l.nline_ <= r.nline_
           /\ Sym(s, l.curr_sym_) = "newline" => l.nline_ < r.nline_
<1> DEFINE s == l.source_
           c == l.curr_sym_
           beg == r.tok_.beg
           to == r.curr_sym_
<1>1. /\ Len(s) \in Nat /\ c \in 1..(Len(s) + 1) /\ beg \in c..(Len(s) + 1) /\ to \in beg..(Len(s) + 1)
      /\ c \in Nat /\ c - 1 \in Nat /\ beg \in Nat /\ beg - 1 \in Nat /\ to - 1 \in Nat /\ c - 1 + 1 = c /\ beg - 1 + 1 = beg
      /\ 1 \in Nat
    BY SymIs DEF Lexers, Got
<1>2. r.nline_ = r.tok_.nline /\ r.tok_.nline = l.nline_ + Newlines(s, c, beg - 1)
    BY DEF Got
<1>3. Newlines(s, 1, c - 1) \in Nat /\ Newlines(s, c, beg - 1) \in Nat /\ Newlines(s, beg, to - 1) \in Nat
    BY <1>1, NewlinesBound
<1>4. Newlines(s, 1, beg - 1) = Newlines(s, 1, c - 1) + Newlines(s, c, beg - 1)
    <2>1. 1 <= c - 1 + 1 /\ c - 1 <= beg - 1
        BY <1>1
    <2>2. Newlines(s, 1, beg - 1) = Newlines(s, 1, c - 1) + Newlines(s, c - 1 + 1, beg - 1)
        BY <1>1, <2>1, NewlinesAdd
    <2> QED BY <1>1, <2>2
<1>5. Newlines(s, beg, to - 1) = 0
    <2>1. \A q \in beg..(to - 1) : Sym(s, q) # "newline"
        BY DEF Got, NumberChars, Word, IsAlpha
    <2> QED BY <1>1, <2>1, NewlinesBound
<1>6. Newlines(s, 1, to - 1) = Newlines(s, 1, beg - 1) + Newlines(s, beg, to - 1)
    <2>1. 1 <= beg - 1 + 1 /\ beg - 1 <= to - 1
        BY <1>1
    <2>2. Newlines(s, 1, to - 1) = Newlines(s, 1, beg - 1) + Newlines(s, beg - 1 + 1, to - 1)
        BY <1>1, <2>1, NewlinesAdd
    <2> QED BY <1>1, <2>2
<1>7. ASSUME Sym(s, c) = "newline" PROVE Newlines(s, c, beg - 1) > 0
    <2>1. beg # c
        BY <1>7 DEF Got, IsPassed
    <2>2. c \in c..(beg - 1)
        BY <1>1, <2>1
    <2> QED BY <1>1, <1>7, <2>2, NewlineIn
<1>8. Newlines(s, 1, beg - 1) \in Nat
    BY <1>1, NewlinesBound
<1> HIDE DEF s, c, beg, to
<1> QED BY <1>2, <1>3, <1>4, <1>5, <1>6, <1>7, <1>8 DEF s, c, beg, to

(* Nothing before the token is part of a word that goes on at it.          *)
LEMMA GotWhole ==
    ASSUME NEW l \in Lexers, NEW r, Got(l, r), r.tok_.type = "IDENTIFIER",
           \/ l.curr_sym_ = 1
           \/ Sym(l.source_, l.curr_sym_ - 1) \notin Word
           \/ Sym(l.source_, l.curr_sym_) \notin Word
    PROVE  r.tok_.beg > 1 => Sym(l.source_, r.tok_.beg - 1) \notin Word
<1> DEFINE s == l.source_
           c == l.curr_sym_
           beg == r.tok_.beg
<1>1. Len(s) \in Nat /\ c \in 1..(Len(s) + 1) /\ beg \in c..(Len(s) + 1)
    BY SymIs DEF Lexers, Got
<1>2. Sym(s, beg) \in Word
    BY BlanksPass DEF Got, TokenMade
<1>3. CASE beg = c
    BY <1>2, <1>3
<1>4. CASE beg # c
    <2>1. beg - 1 \in c..(beg - 1)
        BY <1>1, <1>4
    <2>2. IsPassed(s, c, beg - 1) /\ ~IsPassed(s, c, beg)
        BY <2>1 DEF Got
    <2>3. CASE Sym(s, beg - 1) \in {"newline", "blank"}
        BY <2>3 DEF Word, IsAlpha
    <2>4. CASE InComment(s, c, beg - 1)
        <3>1. PICK h \in c..(beg - 1) : Sym(s, h) = "hash" /\ Newlines(s, h, beg - 1) = 0
            BY <2>4 DEF InComment
        <3>2. h \in Nat /\ beg \in Nat /\ beg - 1 \in Nat
            BY <1>1, <3>1
        <3>3. \A p \in h..(beg - 1) : Sym(s, p) # "newline"
            BY <3>1, <3>2, NewlinesBound
        <3>4. Sym(s, beg) # "newline" /\ Sym(s, beg) # "end"
            BY <1>2 DEF Word, IsAlpha
        <3>5. \A p \in h..beg : Sym(s, p) # "newline"
            BY <3>2, <3>3, <3>4
        <3>6. Newlines(s, h, beg) = 0
            BY <3>2, <3>5, NewlinesBound
        <3>7. InComment(s, c, beg)
            BY <1>1, <3>1, <3>6 DEF InComment
        <3> QED BY <2>2, <3>4, <3>7 DEF IsPassed
    <2> QED BY <2>2, <2>3, <2>4 DEF IsPassed
<1> QED BY <1>3, <1>4

-----------------------------------------------------------------------------
LEMMA InitInv == Init => IInv
<1> SUFFICES ASSUME Init PROVE IInv
    OBVIOUS
<1>1. PICK src \in Sources : lex = lex_init(src)
    BY DEF Init
<1>2. src \in Seq(Classes) /\ Len(src) \in Nat
    BY LexerAssumption, SymIs
<1>3. NoToken \in Token
    BY DEF NoToken, Token, TokenType, Consts
<1>4. lex \in Lexers /\ Source = src /\ lex.curr_sym_ = 1 /\ lex.nline_ = 1
    BY <1>1, <1>2, <1>3 DEF lex_init, Lexers, Source
<1>5. Newlines(Source, 1, 0) = 0
    <2>1. 1 \in Nat /\ 0 \in Nat /\ \A p \in 1..0 : Sym(Source, p) # "newline"
        OBVIOUS
    <2> QED BY <2>1, NewlinesBound
<1>6. Types /\ Earlier /\ Behind /\ Break /\ ErrorsPast /\ LinesRight /\ NoTiedErrors
    BY <1>4 DEF Init, Types, Earlier, Behind, Break, ErrorsPast, LinesRight, NoTiedErrors
<1>7. LexerLine /\ CleanStart /\ EachCharacterOnce
    BY <1>4, <1>5 DEF Init, LexerLine, CleanStart, NoComment, EachCharacterOnce, WholeWords
<1> QED BY <1>6, <1>7 DEF IInv

LEMMA GetTokInv ==
    ASSUME IInv, GetTok
    PROVE  IInv'
<1> DEFINE s   == Source
           c   == lex.curr_sym_
           new == lex'.tok_
           beg == new.beg
           to  == lex'.curr_sym_
<1>1. /\ lex \in Lexers /\ fresh = FALSE /\ fresh' = TRUE /\ read' = read \cup {new} /\ skipped' = skipped
      /\ s \in Seq(Classes) /\ Len(s) \in Nat /\ c \in 1..(Len(s) + 1)
    BY SymIs DEF IInv, Types, GetTok, Lexers, Source
<1>2. Got(lex, lex')
    <2>1. Sym(s, c) \in {"newline", "end"} \/ NoComment(s, c)
        BY DEF IInv, CleanStart
    <2> QED BY <1>1, <2>1, GotToken DEF GetTok, Source
<1>3. /\ lex' \in Lexers /\ Source' = s /\ new \in Token /\ beg \in c..(Len(s) + 1) /\ to \in beg..(Len(s) + 1)
      /\ new.nline = lex'.nline_
    BY <1>2 DEF Got, Source
<1>4. /\ to >= beg
      /\ new.type \notin {"FINAL", "INCORRECT"} => to = beg + new.size
      /\ new.type = "FINAL" <=> Sym(s, beg) = "end"
      /\ new.type = "FINAL" => to = beg /\ new.size = 1
      /\ new.type = "IDENTIFIER" => Sym(s, beg) \in Word
      /\ new.type = "COLON" => Sym(s, beg) = "colon" /\ new.size = 1
      /\ new.type \in {"IDENTIFIER", "INT_NUMBER", "DEC_NUMBER"} => Sym(s, to) \notin Word
      /\ new.type = "INCORRECT" => to <= beg + new.size /\ beg + new.size <= LineEnd(s, to)
    <2>1. pass_blanks(lex).source_ = s
        BY <1>1, BlanksPass DEF Source
    <2> QED BY <1>2, <2>1 DEF Got, TokenMade
<1>5. /\ new.nline = 1 + Newlines(s, 1, beg - 1) /\ LexerLine'
      /\ lex.nline_ <= lex'.nline_
      /\ Sym(s, c) = "newline" => lex.nline_ < lex'.nline_
    BY <1>1, <1>2, <1>3, GotLine DEF IInv, LexerLine, Source
<1>6. \A tok \in read : tok \in Token /\ tok.beg >= 1 /\ tok.beg + tok.size <= c /\ tok.nline <= lex.nline_
    BY <1>1 DEF IInv, Types, Earlier, Behind, Loose
<1>7. Types'
    <2>1. skipped' \subseteq 1..(to - 1)
        BY <1>1, <1>3 DEF IInv, Types
    <2> QED BY <1>1, <1>3, <2>1 DEF IInv, Types
<1>8. Earlier' /\ LinesRight'
    <2>1. lex.nline_ \in Nat /\ lex'.nline_ \in Nat /\ \A tok \in read : tok.nline \in Nat
        BY <1>1, <1>3, <1>6 DEF Lexers, Token
    <2>2. Earlier'
        BY <1>1, <1>3, <1>5, <1>6, <2>1 DEF Earlier
    <2>3. LinesRight'
        BY <1>1, <1>3, <1>5 DEF IInv, LinesRight
    <2> QED BY <2>2, <2>3
<1>9. Behind'
    <2>1. \A tok \in read : tok.beg + tok.size <= to
        BY <1>1, <1>3, <1>6 DEF Token
    <2>2. \/ new.beg + new.size <= to
          \/ new.type = "FINAL"
          \/ new.type = "INCORRECT" /\ new.beg + new.size <= LineEnd(s, to)
        BY <1>1, <1>3, <1>4
    <2> QED BY <1>1, <1>3, <2>1, <2>2 DEF Behind, Loose
<1>10. CleanStart'
    <2>1. CASE new.type = "FINAL"
        BY <1>3, <1>4, <2>1 DEF CleanStart
    <2>2. CASE new.type # "FINAL"
        <3>1. NoComment(s, to)
            BY <1>1, <1>2, <1>3, <2>2 DEF Got, Source
        <3> QED BY <1>3, <3>1 DEF CleanStart
    <2> QED BY <2>1, <2>2
<1>11. Break'
    <2>1. CASE new.type = "INCORRECT"
        BY <1>1, <2>1 DEF Break
    <2>2. CASE new.type = "FINAL"
        BY <1>3, <1>4, <2>2 DEF Break, Word, IsAlpha
    <2>3. CASE new.type = "COLON"
        <3>1. to - 1 = beg /\ Sym(s, beg) \notin Word
            BY <1>1, <1>3, <1>4, <2>3 DEF Word, IsAlpha
        <3> QED BY <1>3, <3>1 DEF Break
    <2>4. CASE new.type \in {"IDENTIFIER", "INT_NUMBER", "DEC_NUMBER"}
        BY <1>3, <1>4, <2>4 DEF Break
    <2> QED BY <1>3, <2>1, <2>2, <2>3, <2>4 DEF Token, TokenType, Consts
<1>12. \A tok \in read : tok.type = "INCORRECT" => tok.nline < lex'.nline_ \/ new.type = "FINAL"
    <2> SUFFICES ASSUME NEW tok \in read, tok.type = "INCORRECT", new.type # "FINAL"
                 PROVE  tok.nline < lex'.nline_
        OBVIOUS
    <2>1. tok.nline < lex.nline_ \/ Sym(s, c) \in {"newline", "end"}
        BY <1>1 DEF IInv, ErrorsPast
    <2>2. lex.nline_ \in Nat /\ lex'.nline_ \in Nat /\ tok.nline \in Nat
        BY <1>1, <1>3, <1>6 DEF Lexers, Token
    <2>3. Sym(s, c) # "end"
        <3>1. CASE beg = c
            BY <1>4, <3>1
        <3>2. CASE beg # c
            <4>1. c \in c..(beg - 1)
                BY <1>1, <1>3, <3>2
            <4> QED BY <1>2, <4>1 DEF Got, IsPassed, Source
        <3> QED BY <3>1, <3>2
    <2> QED BY <1>5, <1>6, <2>1, <2>2, <2>3
<1>13. ErrorsPast'
    BY <1>1, <1>3, <1>4, <1>12 DEF ErrorsPast
<1>14. NoTiedErrors'
    <2> SUFFICES ASSUME NEW t \in read', NEW u \in read', t # u, t.type = "INCORRECT", u.type = "INCORRECT"
                 PROVE  t.nline # u.nline
        BY DEF NoTiedErrors
    <2>1. \A tok \in read : tok.nline \in Nat
        BY <1>6 DEF Token
    <2>2. CASE t \in read /\ u \in read
        BY <2>2 DEF IInv, NoTiedErrors
    <2>3. CASE t = new /\ u \in read
        BY <1>3, <1>12, <2>1, <2>3
    <2>4. CASE t \in read /\ u = new
        BY <1>3, <1>12, <2>1, <2>4
    <2> QED BY <1>1, <2>2, <2>3, <2>4
<1>15. EachCharacterOnce'
    <2>1. ASSUME NEW p \in 1..(to - 1) \ skipped'
          PROVE  (Meaningless(p) <=> \A tok \in read : p \notin Extent(tok))' 
        <3>1. Meaningless(p)' <=> Sym(s, p) \in {"newline", "blank"} \/ InComment(s, 1, p)
            BY <1>3 DEF Meaningless, InComment
        <3>2. CASE p < c
            <4>1. Meaningless(p) <=> \A tok \in read : p \notin Extent(tok)
                BY <1>1, <1>3, <3>2 DEF IInv, EachCharacterOnce
            <4>2. p \notin Extent(new)
                BY <1>1, <1>3, <3>2 DEF Extent
            <4>3. Meaningless(p)' <=> Meaningless(p)
                BY <1>3 DEF Meaningless
            <4> QED BY <1>1, <4>1, <4>2, <4>3 DEF Extent
        <3>3. \A tok \in read : p >= c => p \notin Extent(tok)
            BY <1>1, <1>3, <1>6 DEF Extent, Token
        <3>4. CASE p \in c..(beg - 1)
            <4>1. Meaningless(p)'
                BY <1>1, <1>2, <3>1, <3>4, PassedMeaning DEF Source
            <4>2. p \notin Extent(new)
                BY <1>1, <1>3, <3>4 DEF Extent
            <4> QED BY <1>1, <1>3, <3>3, <3>4, <4>1, <4>2 DEF Extent
        <3>5. CASE p \in beg..(to - 1)
            <4>1. ~Meaningless(p)'
                BY <1>1, <1>2, <3>1, <3>5, PassedMeaning DEF Source
            <4>2. p \in Extent(new)
                <5>1. to <= beg + new.size
                    BY <1>1, <1>3, <1>4 DEF Token
                <5> QED BY <1>1, <1>3, <3>5, <5>1 DEF Extent, Token
            <4> QED BY <1>1, <4>1, <4>2 DEF Extent
        <3> QED BY <1>1, <1>3, <3>2, <3>4, <3>5
    <2>2. \A tok \in read : Extent(tok) \cap Extent(new) = {}
        BY <1>1, <1>3, <1>6 DEF Extent, Token
    <2>3. \A t, u \in read' : t # u => Extent(t) \cap Extent(u) = {}
        BY <1>1, <2>2 DEF IInv, EachCharacterOnce
    <2>4. WholeWords'
        <3> SUFFICES ASSUME NEW tok \in read', tok.type = "IDENTIFIER"
                     PROVE  /\ Sym(s, tok.beg + tok.size) \notin Word
                            /\ tok.beg > 1 => Sym(s, tok.beg - 1) \notin Word
            BY <1>3 DEF WholeWords
        <3>1. CASE tok \in read
            BY <3>1 DEF IInv, EachCharacterOnce, WholeWords
        <3>2. CASE tok = new
            <4>1. c = 1 \/ Sym(s, c - 1) \notin Word \/ Sym(s, c) \notin Word
                BY <1>1 DEF IInv, Break
            <4> QED BY <1>1, <1>2, <1>4, <3>2, <4>1, GotWhole DEF Source
        <3> QED BY <1>1, <3>1, <3>2
    <2>5. \A t, u \in read' : t # u => Extent(t)' \cap Extent(u)' = {}
        BY <2>3 DEF Extent
    <2> QED BY <1>3, <2>1, <2>4, <2>5 DEF EachCharacterOnce
<1> QED BY <1>5, <1>7, <1>8, <1>9, <1>10, <1>11, <1>13, <1>14, <1>15 DEF IInv

LEMMA UseTokInv ==
    ASSUME IInv, lex.tok_.type # "INCORRECT", UseTok
    PROVE  IInv'
<1>1. lex.tok_.type \notin {"INCORRECT", "FINAL"} /\ lex' = lex /\ read' = read /\ skipped' = skipped
      /\ fresh' = FALSE /\ Source' = Source
    BY DEF UseTok, Reading, Source
<1>2. Types' /\ LexerLine' /\ Earlier' /\ CleanStart' /\ LinesRight' /\ NoTiedErrors'
    BY <1>1 DEF IInv, Types, LexerLine, Earlier, CleanStart, LinesRight, NoTiedErrors
<1>3. Behind' /\ Break' /\ ErrorsPast'
    BY <1>1 DEF IInv, Behind, Loose, Break, ErrorsPast
<1>4. EachCharacterOnce'
    BY <1>1 DEF IInv, EachCharacterOnce, Meaningless, WholeWords, Extent
<1> QED BY <1>2, <1>3, <1>4 DEF IInv

LEMMA SkipLineInv ==
    ASSUME IInv, SkipLine
    PROVE  IInv'
<1> DEFINE s  == Source
           c  == lex.curr_sym_
           to == LineEnd(s, c)
<1>1. /\ lex \in Lexers /\ s \in Seq(Classes) /\ Len(s) \in Nat /\ c \in 1..(Len(s) + 1)
      /\ fresh = TRUE /\ fresh' = FALSE /\ read' = read /\ lex.tok_.type # "FINAL"
    BY SymIs DEF IInv, Types, Lexers, SkipLine, Source, Reading
<1>2. /\ to \in c..(Len(s) + 1) /\ Sym(s, to) \in {"newline", "end"}
      /\ \A p \in c..(to - 1) : Sym(s, p) # "newline"
    BY <1>1, LineEndIs
<1>3. lex' = [lex EXCEPT !.curr_sym_ = to]
    BY DEF SkipLine, lex_skip_line, LineEnd, Source
<1> HIDE DEF to
<1>4. lex' = [source_ |-> s, curr_sym_ |-> to, tok_ |-> lex.tok_, nline_ |-> lex.nline_]
    BY <1>1, <1>3 DEF Lexers, Source
<1>5. lex' \in Lexers /\ Source' = s /\ lex'.curr_sym_ = to /\ lex'.tok_ = lex.tok_ /\ lex'.nline_ = lex.nline_
    BY <1>1, <1>2, <1>4 DEF Lexers, Source
<1>6. skipped' = skipped \cup c..(to - 1)
    BY <1>5 DEF SkipLine
<1>7. Types'
    <2>1. 1..(c - 1) \subseteq 1..(to - 1) /\ c..(to - 1) \subseteq 1..(to - 1)
        BY <1>1, <1>2
    <2>2. skipped' \subseteq 1..(to - 1)
        BY <1>6, <2>1 DEF IInv, Types
    <2> QED BY <1>1, <1>5, <2>2 DEF IInv, Types
<1>8. LexerLine'
    <2>1. /\ 1 \in Nat /\ c - 1 \in Nat /\ to - 1 \in Nat /\ c \in Nat /\ c - 1 + 1 = c
          /\ 1 <= c - 1 + 1 /\ c - 1 <= to - 1
        BY <1>1, <1>2
    <2>2. Newlines(s, 1, to - 1) = Newlines(s, 1, c - 1) + Newlines(s, c - 1 + 1, to - 1)
        BY <2>1, NewlinesAdd
    <2>3. Newlines(s, c, to - 1) = 0 /\ Newlines(s, 1, c - 1) \in Nat
        BY <1>2, <2>1, NewlinesBound
    <2> QED BY <1>5, <2>1, <2>2, <2>3 DEF IInv, LexerLine
<1>9. Earlier' /\ CleanStart' /\ ErrorsPast' /\ LinesRight' /\ NoTiedErrors'
    BY <1>1, <1>2, <1>5 DEF IInv, Earlier, CleanStart, ErrorsPast, LinesRight, NoTiedErrors
<1>10. Break'
    BY <1>2, <1>5 DEF Break, Word, IsAlpha
<1>11. Behind'
    <2>1. \A tok \in read : tok.beg + tok.size <= to
        <3> SUFFICES ASSUME NEW tok \in read PROVE tok.beg + tok.size <= to
            OBVIOUS
        <3>1. tok.beg \in Nat /\ tok.size \in Nat
            BY DEF IInv, Types, Token
        <3>2. tok.beg + tok.size <= c \/ tok.beg + tok.size <= to
            BY <1>1 DEF IInv, Behind, Loose, to
        <3> QED BY <1>1, <1>2, <3>1, <3>2
    <2> QED BY <1>1, <1>5, <2>1 DEF Behind
<1>12. EachCharacterOnce'
    <2>1. \A p \in 1..(to - 1) \ skipped' : p \in 1..(c - 1) \ skipped
        BY <1>1, <1>2, <1>6
    <2> QED BY <1>1, <1>5, <2>1 DEF IInv, EachCharacterOnce, Meaningless, WholeWords, Extent
<1> QED BY <1>7, <1>8, <1>9, <1>10, <1>11, <1>12 DEF IInv

LEMMA StutterInv ==
    ASSUME IInv, UNCHANGED vars
    PROVE  IInv'
<1>1. lex' = lex /\ read' = read /\ skipped' = skipped /\ fresh' = fresh /\ Source' = Source
    BY DEF vars, Source
<1>2. Types' /\ LexerLine' /\ Earlier' /\ CleanStart' /\ LinesRight' /\ NoTiedErrors'
    BY <1>1 DEF IInv, Types, LexerLine, Earlier, CleanStart, LinesRight, NoTiedErrors
<1>3. Behind' /\ Break' /\ ErrorsPast'
    BY <1>1 DEF IInv, Behind, Loose, Break, ErrorsPast
<1>4. EachCharacterOnce'
    BY <1>1 DEF IInv, EachCharacterOnce, Meaningless, WholeWords, Extent
<1> QED BY <1>2, <1>3, <1>4 DEF IInv

LEMMA NextInv ==
    ASSUME IInv, [Next]_vars
    PROVE  IInv'
<1>1. CASE GetTok
    BY <1>1, GetTokInv
<1>2. CASE lex.tok_.type # "INCORRECT" /\ UseTok
    BY <1>2, UseTokInv
<1>3. CASE SkipLine
    BY <1>3, SkipLineInv
<1>4. CASE UNCHANGED vars
    BY <1>4, StutterInv
<1> QED BY <1>1, <1>2, <1>3, <1>4 DEF Next

(* The lexer stays within the text and its terminating '\0', its line      *)
(* number within the lines the text has, and the tokens are tokens.        *)
LEMMA InvTypeOK == IInv => TypeOK
<1> SUFFICES ASSUME IInv PROVE TypeOK
    OBVIOUS
<1> DEFINE c == lex.curr_sym_
<1>1. lex \in Lexers /\ Source \in Seq(Classes) /\ Len(Source) \in Nat /\ c \in 1..(Len(Source) + 1)
    BY SymIs DEF IInv, Types, Lexers, Source
<1>2. lex.nline_ \in 1..(Len(Source) + 1)
    <2>1. 1 \in Nat /\ c - 1 \in Nat
        BY <1>1
    <2>2. Newlines(Source, 1, c - 1) \in Nat /\ Newlines(Source, 1, c - 1) <= c - 1
        <3>1. Newlines(Source, 1, c - 1) <= IF 1 > c - 1 THEN 0 ELSE c - 1 - 1 + 1
            BY <2>1, NewlinesBound
        <3>2. Newlines(Source, 1, c - 1) \in Nat
            BY <2>1, NewlinesBound
        <3> QED BY <1>1, <3>1, <3>2
    <2> QED BY <1>1, <2>2 DEF IInv, LexerLine
<1>3. lex.tok_ \in Token /\ skipped \subseteq 1..Len(Source)
    BY <1>1 DEF IInv, Types, Lexers
<1> QED BY <1>1, <1>2, <1>3 DEF IInv, Types, TypeOK

-----------------------------------------------------------------------------
(* IInv holds in every state: the lexer is never in a comment when it      *)
(* looks for the next token, and never inside a word but behind an         *)
(* incorrect token, whose line the caller then skips (lex_get_tok,         *)
(* lex.cpp:131, and asm_translate, asm.cpp:89).                            *)
THEOREM Inductive == Spec => []IInv
<1>1. IInv /\ [Next]_vars => IInv'
    BY NextInv
<1> QED BY InitInv, <1>1, PTL DEF Spec

(* The lexer never leaves the text (curr_sym_ of lex.h:9 stays at most at  *)
(* the terminating '\0'), nor numbers a line that the text does not have.  *)
THEOREM TypeCorrect == Spec => []TypeOK
BY Inductive, InvTypeOK, PTL

(* Every token names the line it is on: pass_blanks counts every newline   *)
(* once, lex_skip_line counts none and stops before one (lex.cpp:34, 174). *)
THEOREM LinesAreRight == Spec => []LinesRight
<1>1. IInv => LinesRight
    BY DEF IInv
<1> QED BY <1>1, Inductive, PTL

(* No character is read twice or lost, and no word is cut in two, whatever *)
(* text the lexer reads and wherever its caller skips a line.              *)
THEOREM EachCharacterIsReadOnce == Spec => []EachCharacterOnce
<1>1. IInv => EachCharacterOnce
    BY DEF IInv
<1> QED BY <1>1, Inductive, PTL

(* A caller that skips the line of an incorrect token meets no second one  *)
(* on that line, which is what lex_skip_line is for (lex.h:16).            *)
THEOREM ErrorsAreNotTied == Spec => []NoTiedErrors
<1>1. IInv => NoTiedErrors
    BY DEF IInv
<1> QED BY <1>1, Inductive, PTL
=============================================================================
