--------------------------- MODULE AssemblerProofs ---------------------------
(***************************************************************************)
(* Theorems about Assembler: for every source, every answer of the         *)
(* environment and every order of the program's calls.                     *)
(***************************************************************************)
EXTENDS Assembler, NumberLemmas, SequenceTheorems, TLAPS

LexP == INSTANCE LexerProofs WITH
            Sources <- {}, lex <- assm.lex_, read <- {}, skipped <- {}, fresh <- FALSE

-----------------------------------------------------------------------------
(* The text of a source is a text.                                         *)

(* What FlattenSeq has put together of the first pieces.                   *)
Joined(f, seqs, n) == f = [i \in 1..n |-> IF i = 1 THEN seqs[i] ELSE f[i - 1] \o seqs[i]]

LEMMA JoinedExists ==
    ASSUME NEW S, NEW seqs \in Seq(Seq(S)), NEW n \in 1..Len(seqs)
    PROVE  \E f : Joined(f, seqs, n)
<1> DEFINE T == {i \in Nat \ {0} : i <= n /\ ~ \E f : Joined(f, seqs, i)}
<1>0. n \in Nat \ {0} /\ n <= n
    <2>1. Len(seqs) \in Nat
        OBVIOUS
    <2> QED BY <2>1
<1> SUFFICES ASSUME T # {} PROVE FALSE
    BY <1>0
<1>1. PICK i \in T : \A j \in T : i <= j
    <2>1. T \in SUBSET Nat
        OBVIOUS
    <2> HIDE DEF T
    <2> QED BY <2>1, LeastNumber
<1>2. i \in Nat \ {0} /\ i <= n /\ ~ \E f : Joined(f, seqs, i)
    BY <1>1
<1>3. CASE i = 1
    <2> DEFINE f == [k \in 1..1 |-> seqs[k]]
    <2>1. f = [k \in 1..1 |-> IF k = 1 THEN seqs[k] ELSE f[k - 1] \o seqs[k]]
        OBVIOUS
    <2> QED BY <1>2, <1>3, <2>1 DEF Joined
<1>4. CASE i # 1
    <2>1. i - 1 \in Nat \ {0} /\ i - 1 < i /\ i - 1 <= n
        BY <1>2, <1>4
    <2>2. i - 1 \notin T
        <3> HIDE DEF T
        <3> QED BY <1>1, <1>2, <2>1
    <2>3. PICK g : Joined(g, seqs, i - 1)
        BY <2>1, <2>2
    <2> DEFINE f == [k \in 1..i |-> IF k = i THEN g[i - 1] \o seqs[i] ELSE g[k]]
    <2>4. \A k \in 1..(i - 1) : g[k] = IF k = 1 THEN seqs[k] ELSE g[k - 1] \o seqs[k]
        BY <2>3 DEF Joined
    <2>5. ASSUME NEW k \in 1..i PROVE f[k] = IF k = 1 THEN seqs[k] ELSE f[k - 1] \o seqs[k]
        <3>1. CASE k = i
            <4>1. i - 1 \in 1..i /\ f[i - 1] = g[i - 1]
                BY <1>2, <1>4
            <4> QED BY <1>2, <1>4, <3>1, <4>1
        <3>2. CASE k # i
            <4>1. k \in 1..(i - 1) /\ f[k] = g[k]
                BY <1>2, <3>2
            <4>2. k # 1 => k - 1 \in 1..i /\ k - 1 # i /\ f[k - 1] = g[k - 1]
                BY <1>2, <3>2
            <4> QED BY <2>4, <4>1, <4>2
        <3> QED BY <3>1, <3>2
    <2>6. f = [k \in 1..i |-> f[k]]
        OBVIOUS
    <2> HIDE DEF f
    <2>7. Joined(f, seqs, i)
        BY <2>5, <2>6 DEF Joined
    <2> QED BY <1>2, <2>7
<1> QED BY <1>3, <1>4

LEMMA FlattenParts ==
    ASSUME NEW S, NEW seqs \in Seq(Seq(S)), Len(seqs) # 0
    PROVE  \E f : /\ Joined(f, seqs, Len(seqs)) /\ FlattenSeq(seqs) = f[Len(seqs)]
                  /\ \A i \in 1..Len(seqs) : f[i] \in Seq(S)
<1> DEFINE n == Len(seqs)
           f == CHOOSE g : Joined(g, seqs, n)
           T == {i \in 1..n : f[i] \notin Seq(S)}
<1>1. n \in Nat /\ n # 0
    OBVIOUS
<1>2. Joined(f, seqs, n)
    <2>1. n \in 1..n
        BY <1>1
    <2> QED BY <2>1, JoinedExists
<1>3. FlattenSeq(seqs) = f[n]
    BY <1>1 DEF FlattenSeq, Joined
<1> HIDE DEF f
<1>4. T = {}
    <2> SUFFICES ASSUME T # {} PROVE FALSE
        OBVIOUS
    <2>1. PICK i \in T : \A j \in T : i <= j
        <3>1. T \in SUBSET Nat
            OBVIOUS
        <3> HIDE DEF T
        <3> QED BY <3>1, LeastNumber
    <2>2. i \in 1..n /\ f[i] = IF i = 1 THEN seqs[i] ELSE f[i - 1] \o seqs[i]
        BY <1>2, <2>1 DEF Joined
    <2>3. seqs[i] \in Seq(S)
        BY <2>2
    <2>4. i # 1 => i - 1 \in 1..n /\ i - 1 < i
        BY <1>1, <2>2
    <2>5. i # 1 => f[i - 1] \in Seq(S)
        BY <2>1, <2>2, <2>4
    <2>6. f[i] \in Seq(S)
        BY <2>2, <2>3, <2>5
    <2> QED BY <2>1, <2>6
<1> QED BY <1>2, <1>3, <1>4

LEMMA FlattenIs ==
    ASSUME NEW S, NEW seqs \in Seq(Seq(S))
    PROVE  FlattenSeq(seqs) \in Seq(S)
<1>1. CASE Len(seqs) = 0
    BY <1>1 DEF FlattenSeq
<1>2. CASE Len(seqs) # 0
    <2>1. Len(seqs) \in 1..Len(seqs)
        BY <1>2
    <2> QED BY <1>2, <2>1, FlattenParts
<1> QED BY <1>1, <1>2

(* Pieces of equal lengths are equally long together.                      *)
LEMMA FlattenLen ==
    ASSUME NEW S, NEW R, NEW seqs \in Seq(Seq(S)), NEW others \in Seq(Seq(R)), Len(seqs) = Len(others),
           \A i \in 1..Len(seqs) : Len(seqs[i]) = Len(others[i])
    PROVE  Len(FlattenSeq(seqs)) = Len(FlattenSeq(others))
<1> DEFINE n == Len(seqs)
<1>1. CASE n = 0
    BY <1>1 DEF FlattenSeq
<1>2. CASE n # 0
    <2>1. n \in Nat /\ n \in 1..n
        BY <1>2
    <2>2. PICK f : /\ Joined(f, seqs, n) /\ FlattenSeq(seqs) = f[n]
                   /\ \A i \in 1..n : f[i] \in Seq(S)
        BY <1>2, FlattenParts
    <2>3. PICK g : /\ Joined(g, others, n) /\ FlattenSeq(others) = g[n]
                   /\ \A i \in 1..n : g[i] \in Seq(R)
        <3>1. Len(others) # 0
            BY <1>2
        <3>2. \E h : /\ Joined(h, others, Len(others)) /\ FlattenSeq(others) = h[Len(others)]
                     /\ \A i \in 1..Len(others) : h[i] \in Seq(R)
            BY <3>1, FlattenParts
        <3> QED BY <3>2
    <2> DEFINE T == {i \in 1..n : Len(f[i]) # Len(g[i])}
    <2>4. T = {}
        <3> SUFFICES ASSUME T # {} PROVE FALSE
            OBVIOUS
        <3>1. PICK i \in T : \A j \in T : i <= j
            <4>1. T \in SUBSET Nat
                OBVIOUS
            <4> HIDE DEF T
            <4> QED BY <4>1, LeastNumber
        <3>2. i \in 1..n /\ Len(f[i]) # Len(g[i])
            BY <3>1
        <3>3. /\ f[i] = IF i = 1 THEN seqs[i] ELSE f[i - 1] \o seqs[i]
              /\ g[i] = IF i = 1 THEN others[i] ELSE g[i - 1] \o others[i]
            BY <2>2, <2>3, <3>2 DEF Joined
        <3>4. seqs[i] \in Seq(S) /\ others[i] \in Seq(R) /\ Len(seqs[i]) = Len(others[i])
            BY <3>2
        <3>5. CASE i = 1
            BY <3>2, <3>3, <3>4, <3>5
        <3>6. CASE i # 1
            <4>1. i - 1 \in 1..n /\ i - 1 < i
                BY <2>1, <3>2, <3>6
            <4>2. Len(f[i - 1]) = Len(g[i - 1])
                BY <3>1, <3>2, <4>1
            <4>3. f[i - 1] \in Seq(S) /\ g[i - 1] \in Seq(R)
                BY <2>2, <2>3, <4>1
            <4>4. /\ Len(f[i - 1] \o seqs[i]) = Len(f[i - 1]) + Len(seqs[i])
                  /\ Len(g[i - 1] \o others[i]) = Len(g[i - 1]) + Len(others[i])
                BY ONLY <3>4, <4>3, ConcatProperties
            <4> QED BY <3>2, <3>3, <3>4, <3>6, <4>2, <4>4
        <3> QED BY <3>5, <3>6
    <2> QED BY <2>1, <2>2, <2>3, <2>4
<1> QED BY <1>1, <1>2

WordType == SourceWords \cup {Newline}

LEMMA TextIs ==
    ASSUME NEW source \in Rendered
    PROVE  /\ source.text \in Seq(Lex!Classes)
           /\ source.at \in Seq(WordType) /\ Len(source.at) = Len(source.text)
<1>1. PICK lines \in Sources : source = Source(lines)
    BY DEF Rendered
<1>2. lines \in Seq(Seq(WordType))
    <2>1. lines \in Seq(Seq(SourceWords))
        BY AssemblerAssumption
    <2>2. Seq(SourceWords) \subseteq Seq(WordType)
        BY SeqMonotonic DEF WordType
    <2>3. Seq(Seq(SourceWords)) \subseteq Seq(Seq(WordType))
        BY <2>2, SeqMonotonic
    <2> QED BY <2>1, <2>3
<1> DEFINE ended == [k \in DOMAIN lines |-> Append(lines[k], Newline)]
           words == Words(lines)
           chars == [n \in DOMAIN words |-> Append(words[n].sym, "blank")]
           marks == [n \in DOMAIN words |-> [i \in DOMAIN Append(words[n].sym, "blank") |-> words[n]]]
<1>3. Newline \in WordType
    BY DEF WordType
<1>4. ended \in Seq(Seq(WordType))
    <2>1. DOMAIN lines = 1..Len(lines) /\ Len(lines) \in Nat
        BY <1>2
    <2>2. ASSUME NEW k \in DOMAIN lines PROVE Append(lines[k], Newline) \in Seq(WordType)
        <3>1. lines[k] \in Seq(WordType)
            BY <1>2, <2>1
        <3> QED BY <1>3, <3>1
    <2> QED BY <2>1, <2>2
<1>5. words \in Seq(WordType)
    BY <1>4, FlattenIs DEF Words
<1> HIDE DEF words
<1>6. chars \in Seq(Seq(Lex!Classes))
    <2>1. "blank" \in Lex!Classes
        BY DEF Lex!Classes
    <2>2. DOMAIN words = 1..Len(words) /\ Len(words) \in Nat
        BY <1>5
    <2>3. ASSUME NEW n \in DOMAIN words PROVE Append(words[n].sym, "blank") \in Seq(Lex!Classes)
        <3>1. words[n] \in WordType
            BY <1>5, <2>2
        <3>2. words[n].sym \in Seq(Lex!Classes)
            <4>1. <<"newline">> \in Seq(Lex!Classes)
                BY DEF Lex!Classes
            <4>2. Newline.sym = <<"newline">>
                BY DEF Newline
            <4> QED BY <3>1, <4>1, <4>2, AssemblerAssumption DEF WordType
        <3> QED BY <2>1, <3>2
    <2> QED BY <2>2, <2>3
<1>7. /\ marks \in Seq(Seq(WordType)) /\ Len(marks) = Len(chars)
      /\ \A n \in 1..Len(chars) : Len(chars[n]) = Len(marks[n])
    <2>1. DOMAIN words = 1..Len(words) /\ Len(words) \in Nat
        BY <1>5
    <2>2. ASSUME NEW n \in DOMAIN words
          PROVE  marks[n] \in Seq(WordType) /\ Len(marks[n]) = Len(chars[n])
        <3>1. words[n] \in WordType
            BY <1>5, <2>1
        <3>2. chars[n] \in Seq(Lex!Classes)
            BY <1>6, <2>1
        <3> DEFINE line == chars[n]
                   mark == [i \in DOMAIN line |-> words[n]]
        <3>3. marks[n] = mark
            OBVIOUS
        <3> HIDE DEF line
        <3>4. DOMAIN line = 1..Len(line) /\ Len(line) \in Nat
            BY <3>2 DEF line
        <3>5. mark \in Seq(WordType) /\ Len(mark) = Len(line)
            BY <3>1, <3>4
        <3> QED BY <3>3, <3>5 DEF line
    <2>3. chars = [n \in 1..Len(words) |-> chars[n]] /\ marks = [n \in 1..Len(words) |-> marks[n]]
        BY <2>1
    <2> HIDE DEF chars, marks
    <2>4. Len(chars) = Len(words) /\ Len(marks) = Len(words)
        BY <2>1, <2>3
    <2>5. marks \in Seq(Seq(WordType))
        BY <2>1, <2>2, <2>3
    <2> QED BY <2>1, <2>2, <2>4, <2>5
<1>8. source.text = FlattenSeq(chars) /\ source.at = FlattenSeq(marks)
    BY <1>1 DEF Source, words
<1> HIDE DEF chars, marks
<1>9. FlattenSeq(chars) \in Seq(Lex!Classes) /\ FlattenSeq(marks) \in Seq(WordType)
    BY <1>6, <1>7, FlattenIs
<1>10. Len(FlattenSeq(chars)) = Len(FlattenSeq(marks))
    BY <1>6, <1>7, FlattenLen
<1> QED BY <1>8, <1>9, <1>10

-----------------------------------------------------------------------------
(* The log.                                                                *)

Voice(g) ==
    /\ g = [context |-> g.context, instance |-> g.instance, out |-> g.out]
    /\ \A piece \in g.out : piece.format = g.instance.context.format /\ piece.to = g.instance.output
    /\ g.instance = NoLogger => g.out = {}
    /\ g.instance # NoLogger =>
          (g.instance.context.format = "HTML" <=> \E piece \in g.out : piece.what = "header")

Log(x, i, o) == [context |-> x, instance |-> i, out |-> o]

LEMMA WrittenIs ==
    ASSUME NEW g, Voice(g), NEW what, NEW format
    PROVE  Written(g, what, format)
           = Log(g.context, g.instance, g.out \cup {[what |-> what, format |-> format, to |-> g.instance.output]})
BY DEF Voice, Written, Log

LEMMA LineVoice ==
    ASSUME NEW g, Voice(g), g.instance # NoLogger
    PROVE  Voice(Written(g, "line", g.instance.context.format))
<1> DEFINE piece == [what |-> "line", format |-> g.instance.context.format, to |-> g.instance.output]
           out   == g.out \cup {piece}
           d     == Log(g.context, g.instance, out)
<1>1. Written(g, "line", g.instance.context.format) = d
    BY WrittenIs
<1>2. piece.what = "line" /\ piece.format = g.instance.context.format /\ piece.to = g.instance.output
    OBVIOUS
<1> HIDE DEF piece
<1>3. d.context = g.context /\ d.instance = g.instance /\ d.out = out /\ d = Log(d.context, d.instance, d.out)
    BY DEF Log
<1> HIDE DEF d
<1>4. Voice(d)
    BY <1>2, <1>3 DEF Voice, Log
<1> QED BY <1>1, <1>4

LEMMA InstanceVoice ==
    ASSUME NEW g, Voice(g), NEW opens
    PROVE  Voice(log_instance(g, opens)) /\ log_instance(g, opens).instance # NoLogger
<1> DEFINE x == g.context
           i == [context |-> x, output |-> new_output_stream(x, opens)]
           d == Log(x, i, {})
           header == [what |-> "header", format |-> "HTML", to |-> i.output]
           e == Log(x, i, {header})
<1>1. CASE g.instance # NoLogger
    BY <1>1 DEF log_instance
<1>2. CASE g.instance = NoLogger
    <2>1. g = Log(x, g.instance, {})
        BY <1>2 DEF Voice, Log
    <2>2. [g EXCEPT !.instance = [context |-> g.context, output |-> new_output_stream(g.context, opens)]] = d
        BY <2>1 DEF Log
    <2>3. i # NoLogger
        <3>1. NoLogger.output = "none" /\ NoLogger.context = CONTEXT /\ CONTEXT.file_name = NoFile
            BY DEF NoLogger, CONTEXT
        <3>2. i.output = new_output_stream(x, opens) /\ i.context = x
            OBVIOUS
        <3> HIDE DEF i
        <3> QED BY <3>1, <3>2 DEF new_output_stream, stderr, NoFile
    <2>4. i.context = x /\ d.instance = i /\ e.instance = i /\ d.out = {} /\ e.out = {header} /\ d.context = x
        BY DEF Log
    <2>5. header.format = "HTML" /\ header.to = i.output /\ header.what = "header"
        OBVIOUS
    <2>6. d = Log(d.context, d.instance, d.out) /\ e = Log(e.context, e.instance, e.out)
        BY DEF Log
    <2>7. Written(d, "header", "HTML") = e
        BY <2>4 DEF Written, Log
    <2> HIDE DEF header, i, d, e
    <2>8. log_instance(g, opens) = IF x.format = "HTML" THEN e ELSE d
        BY <1>2, <2>2, <2>7 DEF log_instance
    <2>9. x.format = "HTML" => Voice(e)
        BY <2>3, <2>4, <2>5, <2>6 DEF Voice, Log
    <2>10. x.format # "HTML" => Voice(d)
        BY <2>3, <2>4, <2>6 DEF Voice, Log
    <2> QED BY <2>3, <2>4, <2>8, <2>9, <2>10
<1> QED BY <1>1, <1>2

LEMMA MsgVoice ==
    ASSUME NEW g, Voice(g), NEW opens
    PROVE  Voice(log_msg_varg(g, opens)) /\ \A type : Voice(log_msg(g, type, opens))
<1>1. ASSUME NEW f, Voice(f) PROVE Voice(log_msg_varg(f, opens))
    <2> DEFINE made == log_instance(f, opens)
    <2>1. Voice(made) /\ made.instance # NoLogger
        BY <1>1, InstanceVoice
    <2> HIDE DEF made
    <2>2. Voice(Written(made, "line", made.instance.context.format))
        BY <2>1, LineVoice
    <2> QED BY <2>2 DEF log_msg_varg, made
<1>2. ASSUME NEW type PROVE Voice(log_msg(g, type, opens))
    <2>1. Voice(log_instance(g, opens))
        BY InstanceVoice
    <2>2. Voice(log_msg_varg(log_instance(g, opens), opens))
        BY <1>1, <2>1
    <2> QED BY <2>1, <2>2 DEF log_msg
<1> QED BY <1>1, <1>2

(* What is set up later is not heard.                                      *)
LEMMA SetUpVoice ==
    ASSUME NEW g, Voice(g), NEW y
    PROVE  /\ Voice(log_set_context_format(g, y)) /\ Voice(log_set_context_lvl(g, y))
           /\ Voice(log_set_context_file_name(g, y))
<1>1. ASSUME NEW x PROVE Voice(Log(x, g.instance, g.out))
    <2> DEFINE d == Log(x, g.instance, g.out)
    <2>1. d.context = x /\ d.instance = g.instance /\ d.out = g.out /\ d = Log(d.context, d.instance, d.out)
        BY DEF Log
    <2> HIDE DEF d
    <2>2. Voice(d)
        BY <2>1 DEF Voice, Log
    <2> QED BY <2>2 DEF d
<1>2. g = Log(g.context, g.instance, g.out)
    BY DEF Voice, Log
<1>3. /\ log_set_context_format(g, y) = Log([g.context EXCEPT !.format = y], g.instance, g.out)
      /\ log_set_context_lvl(g, y) = Log([g.context EXCEPT !.lvl = y], g.instance, g.out)
      /\ log_set_context_file_name(g, y) = Log([g.context EXCEPT !.file_name = y], g.instance, g.out)
    BY <1>2 DEF Log, log_set_context_format, log_set_context_lvl, log_set_context_file_name
<1> QED BY <1>1, <1>3

-----------------------------------------------------------------------------
(* A round.                                                                *)

Asm(l, p, c) == [lex_ |-> l, obj_pool_ |-> p, code_ |-> c]

IsPool(p) ==
    /\ p = [objs |-> p.objs, nobjs |-> p.nobjs, capacity |-> p.capacity]
    /\ p.objs = [room |-> p.objs.room, cells |-> p.objs.cells]
    /\ p.objs.room = 0 => p.objs = Pool!NULL

IsCode(c) == c = [block |-> c.block, instr_ |-> c.instr_, size_ |-> c.size_]

IsAsm(a) == a = Asm(a.lex_, a.obj_pool_, a.code_) /\ IsPool(a.obj_pool_) /\ IsCode(a.code_)

Rnd(a, g, n, r, t, m, p, x, k, v) ==
    [assm |-> a, log |-> g, origin |-> n, reports |-> r, at |-> t,
     mem |-> m, opens |-> p, args |-> x, ok |-> k, over |-> v]

IsRound(w) ==
    w = Rnd(w.assm, w.log, w.origin, w.reports, w.at, w.mem, w.opens, w.args, w.ok, w.over)

(* The lexer goes on in the same text from place c at least, the blocks    *)
(* are those in o, and the log has one voice.                              *)
Going(w, s, c, o) ==
    /\ IsRound(w) /\ IsAsm(w.assm)
    /\ w.assm.lex_ \in LexP!Lexers /\ w.assm.lex_.source_ = s /\ w.assm.lex_.curr_sym_ >= c
    /\ Owned(w.assm) = o
    /\ Voice(w.log)

(* Places a step of a round may write.                                     *)
LEMMA RoundFields ==
    ASSUME NEW w, IsRound(w), NEW a, NEW g, NEW n, NEW r, NEW x, NEW k, NEW v
    PROVE  LET y == Rnd(a, g, n, r, w.at, w.mem, w.opens, x, k, v)
           IN  /\ IsRound(y) /\ y.assm = a /\ y.log = g /\ y.args = x
               /\ y.over = v /\ y.ok = k
BY DEF IsRound, Rnd

LEMMA GoingIs ==
    ASSUME NEW w, NEW s, NEW c, NEW o, Going(w, s, c, o), NEW g, Voice(g), NEW n, NEW r, NEW x, NEW k, NEW v
    PROVE  Going(Rnd(w.assm, g, n, r, w.at, w.mem, w.opens, x, k, v), s, c, o)
<1> DEFINE y == Rnd(w.assm, g, n, r, w.at, w.mem, w.opens, x, k, v)
<1>1. IsRound(y) /\ y.assm = w.assm /\ y.log = g
    BY RoundFields DEF Going
<1> HIDE DEF y
<1>2. Going(y, s, c, o)
    BY <1>1 DEF Going
<1> QED BY <1>2 DEF y

PutLog(w, g)     == [w EXCEPT !.log = g]
PutReports(w, r) == [w EXCEPT !.reports = r]
PutArgs(w, x)    == [w EXCEPT !.args = x]
PutOk(w, k)      == [w EXCEPT !.ok = k]
PutOver(w, v)    == [w EXCEPT !.over = v]

LEMMA PutsAre ==
    ASSUME NEW w, IsRound(w), NEW y
    PROVE  /\ PutLog(w, y) = Rnd(w.assm, y, w.origin, w.reports, w.at, w.mem, w.opens, w.args, w.ok, w.over)
           /\ PutReports(w, y) = Rnd(w.assm, w.log, w.origin, y, w.at, w.mem, w.opens, w.args, w.ok, w.over)
           /\ PutArgs(w, y) = Rnd(w.assm, w.log, w.origin, w.reports, w.at, w.mem, w.opens, y, w.ok, w.over)
           /\ PutOk(w, y) = Rnd(w.assm, w.log, w.origin, w.reports, w.at, w.mem, w.opens, w.args, y, w.over)
           /\ PutOver(w, y) = Rnd(w.assm, w.log, w.origin, w.reports, w.at, w.mem, w.opens, w.args, w.ok, y)
BY DEF IsRound, Rnd, PutLog, PutReports, PutArgs, PutOk, PutOver

LEMMA PutsGoing ==
    ASSUME NEW w, NEW s, NEW c, NEW o, Going(w, s, c, o), NEW y
    PROVE  /\ Voice(y) => Going(PutLog(w, y), s, c, o)
           /\ Going(PutReports(w, y), s, c, o)
           /\ Going(PutArgs(w, y), s, c, o)
           /\ Going(PutOk(w, y), s, c, o)
           /\ Going(PutOver(w, y), s, c, o)
<1>1. IsRound(w) /\ Voice(w.log)
    BY DEF Going
<1> DEFINE Y(g, r, x, k, v) == Rnd(w.assm, g, w.origin, r, w.at, w.mem, w.opens, x, k, v)
<1>2. ASSUME NEW g, Voice(g), NEW r, NEW x, NEW k, NEW v PROVE Going(Y(g, r, x, k, v), s, c, o)
    BY <1>2, GoingIs
<1>3. /\ PutLog(w, y) = Y(y, w.reports, w.args, w.ok, w.over)
      /\ PutReports(w, y) = Y(w.log, y, w.args, w.ok, w.over)
      /\ PutArgs(w, y) = Y(w.log, w.reports, y, w.ok, w.over)
      /\ PutOk(w, y) = Y(w.log, w.reports, w.args, y, w.over)
      /\ PutOver(w, y) = Y(w.log, w.reports, w.args, w.ok, y)
    BY <1>1, PutsAre
<1> HIDE DEF Y
<1> QED BY <1>1, <1>2, <1>3

LEMMA SmallSteps ==
    ASSUME NEW w, NEW s, NEW c, NEW o, Going(w, s, c, o)
    PROVE  /\ \A arg : Going(Return(w, arg), s, c, o)
           /\ \A kind : Going(error(w, kind), s, c, o)
           /\ Going(fatal(w), s, c, o)
           /\ \A ok : Going([w EXCEPT !.ok = ok], s, c, o)
           /\ Going([w EXCEPT !.over = TRUE], s, c, o)
<1> DEFINE g == log_msg_varg(w.log, w.opens)
           u == PutLog(w, g)
<1>1. Voice(g)
    BY MsgVoice DEF Going
<1> HIDE DEF g
<1>2. Going(u, s, c, o)
    BY <1>1, PutsGoing
<1>3. u = Rnd(w.assm, g, w.origin, w.reports, w.at, w.mem, w.opens, w.args, w.ok, w.over) /\ IsRound(w)
    BY PutsAre DEF Going
<1>4. ASSUME NEW arg PROVE Going(Return(w, arg), s, c, o)
    <2>1. Return(w, arg) = PutArgs(w, Append(w.args, arg))
        BY DEF Return, PutArgs
    <2> QED BY <2>1, PutsGoing
<1>5. ASSUME NEW kind PROVE Going(error(w, kind), s, c, o)
    <2> DEFINE r == w.reports \cup {[at |-> w.at, kind |-> kind]}
    <2>1. error(w, kind) = [w EXCEPT !.log = g, !.reports = r]
        BY DEF error, g
    <2> HIDE DEF r
    <2>2. [w EXCEPT !.log = g, !.reports = r] = PutReports(u, r)
        BY <1>3 DEF PutLog, PutReports, IsRound, Rnd
    <2> HIDE DEF u
    <2> QED BY <1>2, <2>1, <2>2, PutsGoing
<1>6. Going(fatal(w), s, c, o)
    <2>1. fatal(w) = [w EXCEPT !.log = g, !.over = TRUE]
        BY DEF fatal, g
    <2>2. ASSUME NEW v PROVE [w EXCEPT !.log = g, !.over = v] = PutOver(u, v)
        BY <1>3 DEF PutLog, PutOver, IsRound, Rnd
    <2>3. [w EXCEPT !.log = g, !.over = TRUE] = PutOver(u, TRUE)
        BY <2>2
    <2>4. fatal(w) = PutOver(u, TRUE)
        BY <2>1, <2>3
    <2> HIDE DEF u
    <2>5. \A y : Going(PutOver(u, y), s, c, o)
        BY <1>2, PutsGoing
    <2>6. Going(PutOver(u, TRUE), s, c, o)
        BY ONLY <2>5, Zenon
    <2> QED BY ONLY <2>4, <2>6, Zenon
<1>7. ASSUME NEW ok PROVE Going([w EXCEPT !.ok = ok], s, c, o)
    BY PutsGoing DEF PutOk
<1>8. Going([w EXCEPT !.over = TRUE], s, c, o)
    BY PutsGoing DEF PutOver
<1> QED BY <1>4, <1>5, <1>6, <1>7, <1>8

PutAssm(w, a) == [w EXCEPT !.assm = a]

LEMMA AsmIs ==
    ASSUME NEW l, NEW p, NEW c
    PROVE  Asm(l, p, c).lex_ = l /\ Asm(l, p, c).obj_pool_ = p /\ Asm(l, p, c).code_ = c
BY DEF Asm

LEMMA PutAssmGoing ==
    ASSUME NEW w, NEW s, NEW c, NEW o, Going(w, s, c, o), NEW a, NEW d,
           IsAsm(a), a.lex_ \in LexP!Lexers, a.lex_.source_ = s, a.lex_.curr_sym_ >= d, Owned(a) = o
    PROVE  /\ Going(PutAssm(w, a), s, d, o)
           /\ \A n, k : Going([w EXCEPT !.assm = a, !.origin = n, !.ok = k], s, d, o)
<1> DEFINE Y(n, k) == Rnd(a, w.log, n, w.reports, w.at, w.mem, w.opens, w.args, k, w.over)
<1>1. IsRound(w) /\ Voice(w.log)
    BY DEF Going
<1>2. ASSUME NEW n, NEW k PROVE Going(Y(n, k), s, d, o)
    <2> DEFINE y == Y(n, k)
    <2>1. IsRound(y) /\ y.assm = a /\ y.log = w.log
        BY <1>1, RoundFields
    <2> HIDE DEF y
    <2>2. Going(y, s, d, o)
        BY <1>1, <2>1 DEF Going
    <2> QED BY <2>2 DEF y
<1>3. PutAssm(w, a) = Y(w.origin, w.ok)
    BY <1>1 DEF PutAssm, IsRound, Rnd
<1>4. ASSUME NEW n, NEW k PROVE [w EXCEPT !.assm = a, !.origin = n, !.ok = k] = Y(n, k)
    <2> DEFINE u == PutAssm(w, a)
               v == [u EXCEPT !.origin = n]
    <2>1. u = Y(w.origin, w.ok)
        BY <1>3
    <2>2. v = Y(n, w.ok)
        BY <2>1 DEF Rnd
    <2>3. [w EXCEPT !.assm = a, !.origin = n, !.ok = k] = [v EXCEPT !.ok = k]
        BY <1>1 DEF PutAssm, IsRound, Rnd
    <2> HIDE DEF u, v
    <2>4. [v EXCEPT !.ok = k] = Y(n, k)
        BY <2>2 DEF Rnd
    <2> QED BY ONLY <2>3, <2>4, Zenon
<1> HIDE DEF Y
<1>5. ASSUME NEW n, NEW k PROVE Going([w EXCEPT !.assm = a, !.origin = n, !.ok = k], s, d, o)
    BY ONLY <1>2, <1>4, Zenon
<1>6. Going(PutAssm(w, a), s, d, o)
    BY <1>2, <1>3
<1> QED BY ONLY <1>5, <1>6, Zenon

LEMMA LexGoing ==
    ASSUME NEW w, NEW s, NEW c, NEW o, Going(w, s, c, o), NEW l \in LexP!Lexers, NEW d,
           l.source_ = s, l.curr_sym_ >= d
    PROVE  Going([w EXCEPT !.assm.lex_ = l], s, d, o) /\ [w EXCEPT !.assm.lex_ = l].assm.lex_ = l
<1> DEFINE a == Asm(l, w.assm.obj_pool_, w.assm.code_)
<1>1. IsRound(w) /\ IsAsm(w.assm) /\ Owned(w.assm) = o
    BY DEF Going
<1>2. a.lex_ = l /\ a.obj_pool_ = w.assm.obj_pool_ /\ a.code_ = w.assm.code_
    BY AsmIs
<1>3. [w.assm EXCEPT !.lex_ = l] = a
    BY <1>1 DEF IsAsm, Asm
<1>4. [w EXCEPT !.assm.lex_ = l] = PutAssm(w, [w.assm EXCEPT !.lex_ = l])
    BY <1>1 DEF PutAssm, IsRound, Rnd
<1>5. a = Asm(a.lex_, a.obj_pool_, a.code_)
    BY <1>2
<1>6. PutAssm(w, a).assm = a
    BY <1>1 DEF PutAssm, IsRound, Rnd
<1> HIDE DEF a
<1>7. IsAsm(a)
    BY <1>1, <1>2, <1>5 DEF IsAsm
<1>8. Owned(a) = o
    BY <1>1, <1>2 DEF Owned
<1>9. Going(PutAssm(w, a), s, d, o)
    BY <1>2, <1>7, <1>8, PutAssmGoing
<1> QED BY <1>2, <1>3, <1>4, <1>6, <1>9

-----------------------------------------------------------------------------
(* The lexer of the assembler is the one of Lexer.                         *)

LEMMA SameSym == \A s, p : Lex!Sym(s, p) = LexP!Sym(s, p)
BY DEF Lex!Sym, LexP!Sym

LEMMA SameRunEnd == \A s, p, C : Lex!RunEnd(s, p, C) = LexP!RunEnd(s, p, C)
BY DEF Lex!RunEnd, LexP!RunEnd, Lex!Sym, LexP!Sym

LEMMA SameCardinality == \A S : Lex!Cardinality(S) = LexP!Cardinality(S)
BY DEF Lex!Cardinality, LexP!Cardinality

LEMMA SameMantissa == \A s, p : Lex!Mantissa(s, p) = LexP!Mantissa(s, p)
BY SameSym, SameRunEnd DEF Lex!Mantissa, LexP!Mantissa

LEMMA SameStrtod == \A s, p : Lex!strtod(s, p) = LexP!strtod(s, p)
BY SameSym, SameRunEnd, SameMantissa DEF Lex!strtod, LexP!strtod

LEMMA SameAdvance ==
    /\ \A l, n : Lex!advance(l, n) = LexP!advance(l, n)
    /\ \A l, type, size : Lex!make_token(l, type, size) = LexP!make_token(l, type, size)
BY DEF Lex!advance, LexP!advance, Lex!make_token, LexP!make_token

LEMMA SameNumber == \A l, e : Lex!make_number(l, e) = LexP!make_number(l, e)
BY SameSym, SameStrtod, SameMantissa, SameAdvance
   DEF Lex!make_number, LexP!make_number, Lex!IsSpace, LexP!IsSpace

LEMMA SameBlanks == \A l : Lex!pass_blanks(l) = LexP!pass_blanks(l)
BY DEF Lex!pass_blanks, LexP!pass_blanks, Lex!Sym, LexP!Sym, Lex!Newlines, LexP!Newlines,
       Lex!Cardinality, LexP!Cardinality

LEMMA SameIdentifier == \A l : Lex!make_identifier(l) = LexP!make_identifier(l)
BY SameRunEnd, SameAdvance
   DEF Lex!make_identifier, LexP!make_identifier, Lex!Word, LexP!Word, Lex!IsAlpha, LexP!IsAlpha

LEMMA SameOthers ==
    /\ \A l : Lex!make_colon(l) = LexP!make_colon(l)
    /\ \A l : Lex!make_final(l) = LexP!make_final(l)
    /\ \A l : Lex!make_incorrect(l) = LexP!make_incorrect(l)
BY SameAdvance
   DEF Lex!make_colon, LexP!make_colon, Lex!make_final, LexP!make_final,
       Lex!make_incorrect, LexP!make_incorrect

LEMMA SameTok == \A l, e : Lex!lex_get_tok(l, e) = LexP!lex_get_tok(l, e)
BY SameSym, SameBlanks, SameNumber, SameIdentifier, SameOthers
   DEF Lex!lex_get_tok, LexP!lex_get_tok, Lex!IsAlpha, LexP!IsAlpha

LEMMA SameSkip == \A l : Lex!lex_skip_line(l) = LexP!lex_skip_line(l)
BY SameRunEnd DEF Lex!lex_skip_line, LexP!lex_skip_line, Lex!Classes, LexP!Classes

LEMMA GetTokGoing ==
    ASSUME NEW w, NEW s, NEW c \in Nat, NEW o, Going(w, s, c, o)
    PROVE  LET l == w.assm.lex_
               t == Lex!lex_get_tok(l, FALSE)
           IN  /\ Going(get_tok(w), s, c, o)
               /\ get_tok(w).assm.lex_ = t
               /\ t.tok_.type = "IDENTIFIER" => Going(get_tok(w), s, c + 1, o)
               /\ t.tok_.type # "FINAL" => Lex!lex_skip_line(t).curr_sym_ >= c + 1
<1> DEFINE l == w.assm.lex_
           t == Lex!lex_get_tok(l, FALSE)
<1>1. l \in LexP!Lexers /\ l.source_ = s /\ l.curr_sym_ >= c
    BY DEF Going
<1>2. t = LexP!lex_get_tok(l, FALSE)
    BY SameTok
<1>3. /\ t \in LexP!Lexers /\ t.source_ = s /\ t.curr_sym_ >= l.curr_sym_
      /\ t.tok_.type = "IDENTIFIER" => t.curr_sym_ > l.curr_sym_
      /\ t.tok_.type # "FINAL" => LexP!lex_skip_line(t).curr_sym_ > l.curr_sym_
    <2>1. FALSE \in BOOLEAN
        OBVIOUS
    <2> QED BY <1>1, <1>2, <2>1, LexP!GetTokMoves
<1>4. get_tok(w) = [w EXCEPT !.assm.lex_ = t]
    BY DEF get_tok
<1>5. l.curr_sym_ \in Nat /\ t.curr_sym_ \in Nat
    BY <1>1, <1>3 DEF LexP!Lexers
<1>6. LexP!lex_skip_line(t).curr_sym_ \in Nat /\ Lex!lex_skip_line(t) = LexP!lex_skip_line(t)
    <2>1. LexP!lex_skip_line(t) \in LexP!Lexers
        BY <1>3, LexP!SkipLineMoves
    <2> QED BY <2>1, SameSkip DEF LexP!Lexers
<1> HIDE DEF t
<1>7. t.curr_sym_ >= c /\ (t.tok_.type = "IDENTIFIER" => t.curr_sym_ >= c + 1)
    BY <1>1, <1>3, <1>5
<1>8. Going(get_tok(w), s, c, o) /\ get_tok(w).assm.lex_ = t
    BY <1>3, <1>4, <1>7, LexGoing
<1>9. t.tok_.type = "IDENTIFIER" => Going(get_tok(w), s, c + 1, o)
    <2> DEFINE d == c + 1
    <2>1. SUFFICES ASSUME t.tok_.type = "IDENTIFIER" PROVE Going(get_tok(w), s, d, o)
        OBVIOUS
    <2>2. t.curr_sym_ >= d
        BY <1>7, <2>1
    <2> HIDE DEF d
    <2>3. t \in LexP!Lexers /\ t.source_ = s
        BY <1>3
    <2>4. Going([w EXCEPT !.assm.lex_ = t], s, d, o)
        BY ONLY <2>2, <2>3, LexGoing, Going(w, s, c, o)
    <2> QED BY <1>4, <2>4
<1>10. t.tok_.type # "FINAL" => Lex!lex_skip_line(t).curr_sym_ >= c + 1
    <2> DEFINE to == LexP!lex_skip_line(t).curr_sym_
               at == l.curr_sym_
    <2>1. (t.tok_.type # "FINAL" => to > at) /\ at \in Nat /\ to \in Nat /\ at >= c
        BY <1>1, <1>3, <1>5, <1>6
    <2> HIDE DEF to, at
    <2>2. t.tok_.type # "FINAL" => to >= c + 1
        BY <2>1
    <2> QED BY <1>6, <2>2 DEF to
<1> QED BY <1>8, <1>9, <1>10 DEF t

LEMMA SkipGoing ==
    ASSUME NEW w, NEW s, NEW c \in Nat, NEW o, Going(w, s, c, o)
    PROVE  /\ Going(skip_line(w), s, c, o)
           /\ skip_line(w).assm.lex_ = Lex!lex_skip_line(w.assm.lex_)
<1> DEFINE l == w.assm.lex_
           t == Lex!lex_skip_line(l)
<1>1. l \in LexP!Lexers /\ l.source_ = s /\ l.curr_sym_ >= c
    BY DEF Going
<1>2. t = LexP!lex_skip_line(l)
    BY SameSkip
<1>3. t \in LexP!Lexers /\ t.source_ = s /\ t.curr_sym_ >= l.curr_sym_
    BY <1>1, <1>2, LexP!SkipLineMoves
<1>4. l.curr_sym_ \in Nat /\ t.curr_sym_ \in Nat
    BY <1>1, <1>3 DEF LexP!Lexers
<1>5. skip_line(w) = [w EXCEPT !.assm.lex_ = t]
    BY DEF skip_line
<1> HIDE DEF t
<1>6. t.curr_sym_ >= c
    BY <1>1, <1>3, <1>4
<1> QED BY <1>3, <1>5, <1>6, LexGoing DEF t

-----------------------------------------------------------------------------
(* The handlers.                                                           *)

Code1(b, i, z) == [block |-> b, instr_ |-> i, size_ |-> z]

LEMMA CodePush ==
    ASSUME NEW c, IsCode(c), NEW instr
    PROVE  IsCode(code_push(c, instr)) /\ code_push(c, instr).block = c.block
<1>1. ASSUME NEW z PROVE [Code1(c.block, c.instr_, z) EXCEPT !.instr_ = Append(@, instr)]
                         = Code1(c.block, Append(c.instr_, instr), z)
    BY DEF Code1
<1>2. c = Code1(c.block, c.instr_, c.size_) /\ code_grow(c) = Code1(c.block, c.instr_, 2 * c.size_)
    BY DEF IsCode, Code1, code_grow
<1>3. \E z : code_push(c, instr) = Code1(c.block, Append(c.instr_, instr), z)
    <2>1. CASE full(c)
        BY <1>1, <1>2, <2>1 DEF code_push
    <2>2. CASE ~full(c)
        BY <1>1, <1>2, <2>2 DEF code_push
    <2> QED BY <2>1, <2>2
<1>4. PICK z : code_push(c, instr) = Code1(c.block, Append(c.instr_, instr), z)
    BY <1>3
<1> QED BY <1>4 DEF Code1, IsCode

LEMMA CodeGoing ==
    ASSUME NEW w, NEW s, NEW c \in Nat, NEW o, Going(w, s, c, o), NEW instr
    PROVE  Going(code_write(w, instr), s, c, o)
<1>1. CASE full(w.assm.code_) /\ ~w.mem
    <2> DEFINE u == fatal(w)
    <2>1. code_write(w, instr) = [u EXCEPT !.ok = FALSE]
        BY <1>1 DEF code_write
    <2>2. Going(u, s, c, o)
        BY SmallSteps
    <2> HIDE DEF u
    <2>3. \A ok : Going([u EXCEPT !.ok = ok], s, c, o)
        BY <2>2, SmallSteps
    <2>4. Going([u EXCEPT !.ok = FALSE], s, c, o)
        BY ONLY <2>3, Zenon
    <2> QED BY <2>1, <2>4
<1>2. CASE ~(full(w.assm.code_) /\ ~w.mem)
    <2> DEFINE d == code_push(w.assm.code_, instr)
               a == Asm(w.assm.lex_, w.assm.obj_pool_, d)
               n == Append(w.origin, w.at)
    <2>1. code_write(w, instr) = [w EXCEPT !.assm.code_ = d, !.origin = n, !.ok = TRUE]
        BY <1>2 DEF code_write
    <2>2. IsRound(w) /\ IsAsm(w.assm) /\ Owned(w.assm) = o /\ IsCode(w.assm.code_)
        BY DEF Going, IsAsm
    <2>3. IsCode(d) /\ d.block = w.assm.code_.block
        BY <2>2, CodePush
    <2> HIDE DEF d
    <2>4. [w.assm EXCEPT !.code_ = d] = a
        BY <2>2 DEF IsAsm, Asm
    <2>5. a.lex_ = w.assm.lex_ /\ a.obj_pool_ = w.assm.obj_pool_ /\ a.code_ = d
        BY AsmIs
    <2>6. a = Asm(a.lex_, a.obj_pool_, a.code_)
        BY <2>5
    <2>7. IsAsm(a)
        BY <2>2, <2>3, <2>5, <2>6 DEF IsAsm
    <2>8. Owned(a) = o
        BY <2>2, <2>3, <2>5 DEF Owned
    <2>9. a.lex_ \in LexP!Lexers /\ a.lex_.source_ = s /\ a.lex_.curr_sym_ >= c
        BY <2>5 DEF Going
    <2> HIDE DEF a, n
    <2>10. \A m, k : Going([w EXCEPT !.assm = a, !.origin = m, !.ok = k], s, c, o)
        BY <2>7, <2>8, <2>9, PutAssmGoing
    <2>11. Going([w EXCEPT !.assm = a, !.origin = n, !.ok = TRUE], s, c, o)
        BY ONLY <2>10, Zenon
    <2>12. [w EXCEPT !.assm.code_ = d, !.origin = n, !.ok = TRUE]
           = [w EXCEPT !.assm = [w.assm EXCEPT !.code_ = d], !.origin = n, !.ok = TRUE]
        <3>1. \A k : [w EXCEPT !.assm.code_ = d, !.origin = n, !.ok = k]
                     = [w EXCEPT !.assm = [w.assm EXCEPT !.code_ = d], !.origin = n, !.ok = k]
            BY <2>2 DEF IsRound, Rnd
        <3> QED BY ONLY <3>1, Zenon
    <2> QED BY <2>1, <2>4, <2>11, <2>12
<1> QED BY <1>1, <1>2

LEMMA RegisterGoing ==
    ASSUME NEW w, NEW s, NEW c \in Nat, NEW o, Going(w, s, c, o)
    PROVE  Going(handle_register(w), s, c, o) /\ Going(R_of(w), s, c, o)
<1>1. ASSUME NEW u, Going(u, s, c, o)
      PROVE  /\ \A R : Going(Register(u, R), s, c, o) /\ Going(Return(u, R), s, c, o)
             /\ \A sym : Going(Extra(u, sym), s, c, o)
             /\ \A kind : Going(error(u, kind), s, c, o)
    <2>1. \A kind : Going(error(u, kind), s, c, o) /\ Going(Return(u, kind), s, c, o)
        BY <1>1, SmallSteps
    <2> QED BY <1>1, <2>1 DEF Register, Extra
<1>2. \A R, sym : Going(Return(Extra(Register(w, R), sym), R), s, c, o)
    BY <1>1
<1>3. \A kind, R : Going(Return(error(w, kind), R), s, c, o)
    BY <1>1
<1>4. Going(handle_register(w), s, c, o)
    BY <1>2, <1>3 DEF handle_register
<1> QED BY <1>3, <1>4 DEF R_of

LEMMA LoadGoing ==
    ASSUME NEW w, NEW s, NEW c \in Nat, NEW o, Going(w, s, c, o), NEW cnst, NEW reg
    PROVE  Going(load_const_in_reg(w, cnst, reg), s, c, o)
<1> DEFINE v == code_write(w, RC("move", reg, arg_to_C(cnst)))
           u == error(w, "too many")
<1>1. Going(u, s, c, o)
    BY SmallSteps
<1>2. Going(v, s, c, o)
    BY CodeGoing
<1> HIDE DEF u, v
<1>3. \A arg : Going(Return(u, arg), s, c, o) /\ Going(Return(v, arg), s, c, o)
    BY <1>1, <1>2, SmallSteps
<1> QED BY <1>3 DEF load_const_in_reg, u, v

LEMMA StoreIs ==
    ASSUME NEW p, IsPool(p), NEW obj
    PROVE  LET q == Pool!Store(p, obj)
           IN  /\ IsPool(q) /\ (Pool!Live(q) <=> Pool!Live(p))
               /\ q.nobjs = p.nobjs + 1 /\ q.capacity = p.capacity /\ q.objs.room = p.objs.room
               /\ q.objs.cells = [i \in DOMAIN p.objs.cells |-> IF i = p.nobjs THEN obj ELSE p.objs.cells[i]]
<1> DEFINE k == p.objs.cells
           cells == [i \in DOMAIN k |-> IF i = p.nobjs THEN obj ELSE k[i]]
           objs == [room |-> p.objs.room, cells |-> cells]
           q == [objs |-> objs, nobjs |-> p.nobjs + 1, capacity |-> p.capacity]
<1>1. Pool!Store(p, obj) = q
    <2>1. [p.objs EXCEPT !.cells = cells] = objs
        BY DEF IsPool
    <2> HIDE DEF cells
    <2>2. [p EXCEPT !.objs.cells = cells] = [p EXCEPT !.objs = objs]
        <3>1. [p EXCEPT !.objs.cells = cells] = [p EXCEPT !.objs = [p.objs EXCEPT !.cells = cells]]
            OBVIOUS
        <3> HIDE DEF objs
        <3> QED BY ONLY <2>1, <3>1
    <2>3. [p EXCEPT !.objs = objs] = [objs |-> objs, nobjs |-> p.nobjs, capacity |-> p.capacity]
        BY DEF IsPool
    <2>4. Pool!Store(p, obj) = [p EXCEPT !.objs.cells = cells, !.nobjs = p.nobjs + 1]
        BY DEF Pool!Store, cells
    <2>5. [p EXCEPT !.objs.cells = cells, !.nobjs = p.nobjs + 1] = [[p EXCEPT !.objs.cells = cells] EXCEPT !.nobjs = p.nobjs + 1]
        BY DEF IsPool
    <2> HIDE DEF objs
    <2>6. [[objs |-> objs, nobjs |-> p.nobjs, capacity |-> p.capacity] EXCEPT !.nobjs = p.nobjs + 1] = q
        OBVIOUS
    <2> HIDE DEF q
    <2> QED BY ONLY <2>2, <2>3, <2>4, <2>5, <2>6
<1>2. p.objs.room = 0 => objs = Pool!NULL
    <2>1. ASSUME p.objs.room = 0 PROVE objs = Pool!NULL
        <3>1. p.objs = Pool!NULL
            BY <2>1 DEF IsPool
        <3>2. k = [i \in {} |-> Pool!Zero]
            BY <3>1 DEF Pool!NULL
        <3>3. cells = [i \in {} |-> Pool!Zero]
            BY <3>2
        <3> HIDE DEF cells
        <3> QED BY <2>1, <3>3 DEF Pool!NULL
    <2> QED BY <2>1
<1>3. Pool!NULL.room = 0
    BY DEF Pool!NULL
<1>4. objs = Pool!NULL <=> p.objs = Pool!NULL
    <2>1. objs.room = p.objs.room
        OBVIOUS
    <2> HIDE DEF objs
    <2> QED BY <1>2, <1>3, <2>1 DEF IsPool
<1>5. q.objs = objs /\ q.nobjs = p.nobjs + 1 /\ q.capacity = p.capacity
    OBVIOUS
<1>6. objs.room = p.objs.room /\ objs.cells = cells
    OBVIOUS
<1>7. IsPool(q)
    BY <1>2, <1>5, <1>6 DEF IsPool
<1>8. q.objs.room = p.objs.room /\ q.objs.cells = cells
    BY <1>5, <1>6
<1> HIDE DEF q, objs
<1>9. Pool!Live(q) <=> Pool!Live(p)
    BY <1>4, <1>5 DEF Pool!Live
<1> QED BY <1>1, <1>5, <1>7, <1>8, <1>9

LEMMA StoreGoing ==
    ASSUME NEW w, NEW s, NEW c \in Nat, NEW o, Going(w, s, c, o), NEW obj
    PROVE  Going([w EXCEPT !.assm.obj_pool_ = Pool!Store(@, obj)], s, c, o)
<1> DEFINE p == Pool!Store(w.assm.obj_pool_, obj)
           a == Asm(w.assm.lex_, p, w.assm.code_)
<1>1. IsRound(w) /\ IsAsm(w.assm) /\ Owned(w.assm) = o /\ IsPool(w.assm.obj_pool_)
    BY DEF Going, IsAsm
<1>2. IsPool(p) /\ (Pool!Live(p) <=> Pool!Live(w.assm.obj_pool_))
    BY <1>1, StoreIs
<1>3. [w EXCEPT !.assm.obj_pool_ = Pool!Store(@, obj)] = [w EXCEPT !.assm.obj_pool_ = p]
    OBVIOUS
<1> HIDE DEF p
<1>4. [w.assm EXCEPT !.obj_pool_ = p] = a
    BY <1>1 DEF IsAsm, Asm
<1>5. [w EXCEPT !.assm.obj_pool_ = p] = PutAssm(w, [w.assm EXCEPT !.obj_pool_ = p])
    BY <1>1 DEF PutAssm, IsRound, Rnd
<1>6. a.lex_ = w.assm.lex_ /\ a.obj_pool_ = p /\ a.code_ = w.assm.code_
    BY AsmIs
<1>7. a = Asm(a.lex_, a.obj_pool_, a.code_)
    BY <1>6
<1> HIDE DEF a
<1>8. IsAsm(a)
    BY <1>1, <1>2, <1>6, <1>7 DEF IsAsm
<1>9. Owned(a) = o
    BY <1>1, <1>2, <1>6 DEF Owned
<1>10. a.lex_ \in LexP!Lexers /\ a.lex_.source_ = s /\ a.lex_.curr_sym_ >= c
    BY <1>6 DEF Going
<1>11. Going(PutAssm(w, a), s, c, o)
    BY <1>8, <1>9, <1>10, PutAssmGoing
<1> QED BY <1>3, <1>4, <1>5, <1>11

LEMMA ConstantGoing ==
    ASSUME NEW w, NEW s, NEW c \in Nat, NEW o, Going(w, s, c, o), NEW operand
    PROVE  Going(handle_constant(w, operand), s, c, o)
<1> DEFINE obj   == make_object(Tok(w))
           pool  == w.assm.obj_pool_
           found == Pool!obj_pool_look_up(pool, obj).idx
           At(v, idx) == Constants(v, idx, arg_formatter(operand, idx))
           stored == [w EXCEPT !.assm.obj_pool_ = Pool!Store(@, obj)]
<1>1. handle_constant(w, operand) \in
          {At(w, found), At(stored, pool.nobjs), [w EXCEPT !.over = TRUE],
           Return(error(w, "no memory"), G_INSTR_ARG_INVALID)}
    <2>1. CASE found # BAD_IDX
        BY <2>1 DEF handle_constant
    <2>2. CASE found = BAD_IDX /\ pool.nobjs < pool.capacity
        BY <2>2 DEF handle_constant
    <2>3. CASE found = BAD_IDX /\ ~(pool.nobjs < pool.capacity)
        BY <2>3 DEF handle_constant
    <2> QED BY <2>1, <2>2, <2>3
<1>2. ASSUME NEW v, Going(v, s, c, o), NEW idx PROVE Going(At(v, idx), s, c, o)
    <2>1. \A cnst, reg : Going(load_const_in_reg(v, cnst, reg), s, c, o)
        BY <1>2, LoadGoing
    <2>2. \A arg : Going(Return(v, arg), s, c, o)
        BY <1>2, SmallSteps
    <2> QED BY <2>1, <2>2 DEF Constants
<1>3. Going(stored, s, c, o)
    BY StoreGoing
<1>4. Going([w EXCEPT !.over = TRUE], s, c, o)
    BY SmallSteps
<1>5. Going(Return(error(w, "no memory"), G_INSTR_ARG_INVALID), s, c, o)
    <2>1. \A kind : Going(error(w, kind), s, c, o)
        BY SmallSteps
    <2>2. \A kind, arg : Going(Return(error(w, kind), arg), s, c, o)
        BY <2>1, SmallSteps
    <2> QED BY <2>2
<1> HIDE DEF At, stored, found, pool, obj
<1>6. Going(At(w, found), s, c, o) /\ Going(At(stored, pool.nobjs), s, c, o)
    BY <1>2, <1>3
<1> QED BY <1>1, <1>4, <1>5, <1>6

LEMMA RefGoing ==
    ASSUME NEW w, NEW s, NEW c \in Nat, NEW o, Going(w, s, c, o), NEW operand
    PROVE  Going(Ref_of(w, operand), s, c, o)
BY ConstantGoing, RegisterGoing DEF Ref_of

LEMMA ArithmeticGoing ==
    ASSUME NEW w, NEW s, NEW c \in Nat, NEW o, Going(w, s, c, o), NEW ar_code
    PROVE  Going(handle_arithmetic(w, ar_code), s, c, o)
<1> DEFINE First(v)  == R_of(get_tok(v))
           Second(v) == Ref_of(get_tok(v), "A")
           Third(v)  == IF v.over THEN v ELSE Ref_of(get_tok(v), "B")
           Write(v)  == IF v.over THEN v
                        ELSE IF G_INSTR_ARG_INVALID \in ToSet(v.args) THEN [v EXCEPT !.ok = FALSE]
                        ELSE code_write(v, RAB(ar_code, v.args[1], v.args[2], v.args[3]))
<1>1. ASSUME NEW v, Going(v, s, c, o)
      PROVE  Going(First(v), s, c, o) /\ Going(Second(v), s, c, o) /\ Going(Third(v), s, c, o)
    <2>1. Going(get_tok(v), s, c, o)
        BY <1>1, GetTokGoing
    <2>2. Going(R_of(get_tok(v)), s, c, o)
        BY <2>1, RegisterGoing
    <2>3. \A operand : Going(Ref_of(get_tok(v), operand), s, c, o)
        BY <2>1, RefGoing
    <2> QED BY <1>1, <2>2, <2>3
<1>2. ASSUME NEW v, Going(v, s, c, o) PROVE Going(Write(v), s, c, o)
    <2>1. \A instr : Going(code_write(v, instr), s, c, o)
        BY <1>2, CodeGoing
    <2>2. \A ok : Going([v EXCEPT !.ok = ok], s, c, o)
        BY <1>2, SmallSteps
    <2>3. Going([v EXCEPT !.ok = FALSE], s, c, o)
        BY ONLY <2>2, Zenon
    <2> QED BY <1>2, <2>1, <2>3
<1>3. handle_arithmetic(w, ar_code) = Write(Third(Second(First(w))))
    BY DEF handle_arithmetic
<1> HIDE DEF First, Second, Third, Write
<1>4. Going(First(w), s, c, o)
    BY <1>1
<1>5. Going(Second(First(w)), s, c, o)
    BY <1>1, <1>4
<1>6. Going(Third(Second(First(w))), s, c, o)
    BY <1>1, <1>5
<1> QED BY <1>2, <1>3, <1>6

LEMMA HandlerGoing ==
    ASSUME NEW w, NEW s, NEW c \in Nat, NEW o, Going(w, s, c, o), NEW opcode, NEW anything
    PROVE  Going(call_handler(w, opcode, anything), s, c, o)
BY ArithmeticGoing, SmallSteps DEF call_handler

-----------------------------------------------------------------------------
(* What is written.                                                        *)

(* Every character has its word.                                           *)
Marked ==
    /\ src.text \in Seq(Lex!Classes)
    /\ src.at \in Seq(WordType) /\ Len(src.at) = Len(src.text)

(* Instructions whose values fit, no more than there is room for, each     *)
(* with its command.                                                       *)
CodeFits(c, n) ==
    /\ c.instr_ \in Seq(Instructions) /\ c.size_ \in Nat \ {0} /\ Len(c.instr_) <= c.size_
    /\ n \in Seq(Nat) /\ Len(n) = Len(c.instr_)

Fits(w) == w.at \in Nat /\ w.assm.obj_pool_.nobjs \in Nat /\ CodeFits(w.assm.code_, w.origin)

(* The values an operand may have.                                         *)
Limit(i) == IF i = 1 THEN G_INSTR_ARG_R_MAX ELSE IF i = 2 THEN G_INSTR_ARG_A_MAX ELSE G_INSTR_ARG_B_MAX

ArgsFit(x, k) ==
    /\ x \in Seq(Nat) /\ Len(x) = k
    /\ \A i \in 1..k : x[i] = G_INSTR_ARG_INVALID \/ x[i] < Limit(i)

(* A round that goes on has read that many arguments.                      *)
Fitting(w, k) == Fits(w) /\ (~w.over => ArgsFit(w.args, k))

(* A step of a round in the source.                                        *)
Doing(w) == \E c \in Nat : \E o : Going(w, src.text, c, o)

LEMMA Sizes ==
    /\ ArgValues \in Nat /\ ArgValues > 0 /\ G_INSTR_ARG_INVALID \in Nat
    /\ G_INSTR_N_REGISTERS \in Nat \ {0} /\ G_INSTR_ARG_R_MAX = G_INSTR_N_REGISTERS
    /\ G_INSTR_ARG_A_MAX \in Nat /\ G_INSTR_ARG_A_MAX >= G_INSTR_N_REGISTERS
    /\ G_INSTR_ARG_B_MAX \in Nat /\ G_INSTR_ARG_B_MAX >= G_INSTR_N_REGISTERS
    /\ G_INSTR_ARG_C_MAX \in Nat
BY CodeAssumption DEF G_INSTR_ARG_INVALID, G_INSTR_N_REGISTERS

LEMMA LimitIs ==
    ASSUME NEW i \in 1..3
    PROVE  Limit(i) \in Nat /\ Limit(i) >= G_INSTR_N_REGISTERS
BY Sizes DEF Limit

LEMMA DoingIs ==
    ASSUME NEW w, Doing(w)
    PROVE  IsRound(w) /\ IsAsm(w.assm) /\ w.assm.lex_ \in LexP!Lexers /\ w.assm.lex_.source_ = src.text
BY DEF Doing, Going

LEMMA DoingSteps ==
    ASSUME NEW w, Doing(w)
    PROVE  /\ Doing(get_tok(w)) /\ Doing(skip_line(w)) /\ Doing(fatal(w))
           /\ \A kind : Doing(error(w, kind))
           /\ \A arg : Doing(Return(w, arg))
           /\ \A instr : Doing(code_write(w, instr))
           /\ \A obj : Doing([w EXCEPT !.assm.obj_pool_ = Pool!Store(@, obj)])
           /\ Doing(R_of(w))
           /\ \A operand : Doing(Ref_of(w, operand))
<1>1. PICK c, o : c \in Nat /\ Going(w, src.text, c, o)
    BY DEF Doing
<1>2. ASSUME NEW u, Going(u, src.text, c, o) PROVE Doing(u)
    BY <1>1, <1>2 DEF Doing
<1>3. Doing(get_tok(w))
    <2>1. Going(get_tok(w), src.text, c, o)
        BY <1>1, GetTokGoing
    <2> QED BY <1>2, <2>1
<1>4. Doing(skip_line(w))
    <2>1. Going(skip_line(w), src.text, c, o)
        BY <1>1, SkipGoing
    <2> QED BY <1>2, <2>1
<1>5. Doing(fatal(w)) /\ (\A kind : Doing(error(w, kind))) /\ (\A arg : Doing(Return(w, arg)))
    <2>1. /\ Going(fatal(w), src.text, c, o)
          /\ \A kind : Going(error(w, kind), src.text, c, o) /\ Going(Return(w, kind), src.text, c, o)
        BY <1>1, SmallSteps
    <2> QED BY <1>2, <2>1
<1>6. ASSUME NEW instr PROVE Doing(code_write(w, instr))
    <2>1. Going(code_write(w, instr), src.text, c, o)
        BY <1>1, CodeGoing
    <2> QED BY <1>2, <2>1
<1>7. ASSUME NEW obj PROVE Doing([w EXCEPT !.assm.obj_pool_ = Pool!Store(@, obj)])
    <2>1. Going([w EXCEPT !.assm.obj_pool_ = Pool!Store(@, obj)], src.text, c, o)
        BY <1>1, StoreGoing
    <2> QED BY <1>2, <2>1
<1>8. Doing(R_of(w))
    <2>1. Going(R_of(w), src.text, c, o)
        BY <1>1, RegisterGoing
    <2> QED BY <1>2, <2>1
<1>9. ASSUME NEW operand PROVE Doing(Ref_of(w, operand))
    <2>1. Going(Ref_of(w, operand), src.text, c, o)
        BY <1>1, RefGoing
    <2> QED BY <1>2, <2>1
<1> QED BY <1>3, <1>4, <1>5, <1>6, <1>7, <1>8, <1>9

(* Steps that write nothing.                                               *)
LEMMA SameFields ==
    ASSUME NEW w, IsRound(w)
    PROVE  /\ \A kind : LET u == error(w, kind)
                        IN u.assm = w.assm /\ u.origin = w.origin /\ u.at = w.at /\ u.args = w.args /\ u.over = w.over
           /\ \A arg : LET u == Return(w, arg)
                       IN /\ u.assm = w.assm /\ u.origin = w.origin /\ u.at = w.at
                          /\ u.args = Append(w.args, arg) /\ u.over = w.over
           /\ LET u == fatal(w)
              IN u.assm = w.assm /\ u.origin = w.origin /\ u.at = w.at /\ u.args = w.args /\ u.over
           /\ \A ok : LET u == [w EXCEPT !.ok = ok]
                      IN u.assm = w.assm /\ u.origin = w.origin /\ u.at = w.at /\ u.args = w.args /\ u.over = w.over
           /\ LET u == [w EXCEPT !.over = TRUE]
              IN u.assm = w.assm /\ u.origin = w.origin /\ u.at = w.at /\ u.args = w.args /\ u.over
<1>1. \A kind : LET u == error(w, kind)
                IN u.assm = w.assm /\ u.origin = w.origin /\ u.at = w.at /\ u.args = w.args /\ u.over = w.over
    BY DEF error, IsRound, Rnd
<1>2. \A arg : LET u == Return(w, arg)
               IN /\ u.assm = w.assm /\ u.origin = w.origin /\ u.at = w.at
                  /\ u.args = Append(w.args, arg) /\ u.over = w.over
    BY DEF Return, IsRound, Rnd
<1>3. LET u == fatal(w)
      IN u.assm = w.assm /\ u.origin = w.origin /\ u.at = w.at /\ u.args = w.args /\ u.over
    BY DEF fatal, IsRound, Rnd
<1>4. \A ok : LET u == [w EXCEPT !.ok = ok]
              IN u.assm = w.assm /\ u.origin = w.origin /\ u.at = w.at /\ u.args = w.args /\ u.over = w.over
    BY DEF IsRound, Rnd
<1>5. LET u == [w EXCEPT !.over = TRUE]
      IN u.assm = w.assm /\ u.origin = w.origin /\ u.at = w.at /\ u.args = w.args /\ u.over
    BY DEF IsRound, Rnd
<1> QED BY <1>1, <1>2, <1>3, <1>4, <1>5

LEMMA ErrorFits ==
    ASSUME NEW w, IsRound(w), NEW k, Fitting(w, k), NEW kind
    PROVE  Fitting(error(w, kind), k)
BY SameFields DEF Fitting, Fits

LEMMA ReturnFits ==
    ASSUME NEW w, IsRound(w), NEW k \in 0..2, Fitting(w, k),
           NEW arg \in Nat, arg = G_INSTR_ARG_INVALID \/ arg < Limit(k + 1)
    PROVE  Fitting(Return(w, arg), k + 1)
<1> DEFINE u == Return(w, arg)
<1>1. /\ u.assm = w.assm /\ u.origin = w.origin /\ u.at = w.at
      /\ u.args = Append(w.args, arg) /\ u.over = w.over
    BY SameFields
<1> HIDE DEF u
<1>2. ASSUME ~w.over PROVE ArgsFit(u.args, k + 1)
    <2>1. w.args \in Seq(Nat) /\ Len(w.args) = k /\ \A i \in 1..k : w.args[i] = G_INSTR_ARG_INVALID \/ w.args[i] < Limit(i)
        BY <1>2 DEF Fitting, ArgsFit
    <2>2. u.args \in Seq(Nat) /\ Len(u.args) = k + 1
        BY <1>1, <2>1
    <2>3. ASSUME NEW i \in 1..(k + 1) PROVE u.args[i] = G_INSTR_ARG_INVALID \/ u.args[i] < Limit(i)
        <3>1. CASE i = k + 1
            <4>1. u.args[i] = arg
                BY <1>1, <2>1, <3>1
            <4> QED BY <3>1, <4>1
        <3>2. CASE i # k + 1
            <4>1. i \in 1..k /\ u.args[i] = w.args[i]
                BY <1>1, <2>1, <3>2
            <4> QED BY <2>1, <4>1
        <3> QED BY <3>1, <3>2
    <2> QED BY <2>2, <2>3 DEF ArgsFit
<1>3. Fitting(u, k + 1)
    BY <1>1, <1>2 DEF Fitting, Fits
<1> QED BY <1>3 DEF u

LEMMA TokFits ==
    ASSUME NEW w, Doing(w), NEW k, Fitting(w, k)
    PROVE  LET u == get_tok(w)
           IN  /\ Fitting(u, k) /\ Doing(u)
               /\ Tok(u).beg \in Nat /\ (Tok(u).type # "FINAL" => Tok(u).beg \in 1..Len(src.text))
<1> DEFINE l == w.assm.lex_
           t == Lex!lex_get_tok(l, FALSE)
           u == get_tok(w)
<1>1. IsRound(w) /\ IsAsm(w.assm) /\ l \in LexP!Lexers /\ l.source_ = src.text
    BY DoingIs
<1>2. t.tok_.beg \in Nat /\ (t.tok_.type # "FINAL" => t.tok_.beg \in 1..Len(src.text))
    <2>1. t = LexP!lex_get_tok(l, FALSE)
        BY SameTok
    <2>2. FALSE \in BOOLEAN
        OBVIOUS
    <2> QED BY <1>1, <2>1, <2>2, LexP!TokenInText
<1>3. u = [w EXCEPT !.assm.lex_ = t]
    BY DEF get_tok
<1> HIDE DEF t
<1>4. /\ u.assm.lex_ = t /\ u.assm.code_ = w.assm.code_ /\ u.assm.obj_pool_ = w.assm.obj_pool_
      /\ u.origin = w.origin /\ u.at = w.at /\ u.args = w.args /\ u.over = w.over
    BY <1>1, <1>3 DEF IsRound, Rnd, IsAsm, Asm
<1> HIDE DEF u
<1>5. Fitting(u, k)
    BY <1>4 DEF Fitting, Fits
<1>6. Doing(get_tok(w))
    BY DoingSteps
<1> QED BY <1>2, <1>4, <1>5, <1>6 DEF u, Tok

(* An instruction is written, or the process is over.                      *)
LEMMA WriteFits ==
    ASSUME NEW w, Doing(w), Fits(w), NEW instr \in Instructions
    PROVE  LET u == code_write(w, instr) IN Fits(u) /\ u.args = w.args /\ (~u.over => ~w.over)
<1> DEFINE u == code_write(w, instr)
           c == w.assm.code_
           d == code_push(c, instr)
<1>1. IsRound(w) /\ IsAsm(w.assm) /\ IsCode(c)
    BY DoingIs DEF IsAsm
<1>2. /\ c.instr_ \in Seq(Instructions) /\ c.size_ \in Nat \ {0} /\ Len(c.instr_) <= c.size_
      /\ w.origin \in Seq(Nat) /\ Len(w.origin) = Len(c.instr_) /\ w.at \in Nat
    BY DEF Fits, CodeFits
<1>3. CASE full(c) /\ ~w.mem
    <2> DEFINE v == fatal(w)
    <2>1. u = [v EXCEPT !.ok = FALSE]
        BY <1>3 DEF code_write
    <2>2. IsRound(v) /\ v.assm = w.assm /\ v.origin = w.origin /\ v.at = w.at /\ v.args = w.args /\ v.over
        <3>1. Doing(v)
            BY DoingSteps
        <3> QED BY <1>1, <3>1, DoingIs, SameFields
    <2> HIDE DEF v
    <2>3. \A ok : LET y == [v EXCEPT !.ok = ok]
                  IN y.assm = v.assm /\ y.origin = v.origin /\ y.at = v.at /\ y.args = v.args /\ y.over = v.over
        BY <2>2, SameFields
    <2>4. LET y == [v EXCEPT !.ok = FALSE]
          IN y.assm = v.assm /\ y.origin = v.origin /\ y.at = v.at /\ y.args = v.args /\ y.over = v.over
        BY ONLY <2>3, Zenon
    <2> HIDE DEF u
    <2>5. u.assm = w.assm /\ u.origin = w.origin /\ u.at = w.at /\ u.args = w.args /\ u.over
        BY <2>1, <2>2, <2>4
    <2> QED BY <2>5 DEF u, Fits
<1>4. CASE ~(full(c) /\ ~w.mem)
    <2>1. u = [w EXCEPT !.assm.code_ = d, !.origin = Append(w.origin, w.at), !.ok = TRUE]
        BY <1>4 DEF code_write
    <2>2. /\ d.instr_ = Append(c.instr_, instr)
          /\ d.size_ = IF full(c) THEN 2 * c.size_ ELSE c.size_
        BY <1>1 DEF code_push, code_grow, IsCode
    <2>3. CodeFits(d, Append(w.origin, w.at))
        <3> DEFINE i == Append(c.instr_, instr)
                   n == Append(w.origin, w.at)
        <3>1. i \in Seq(Instructions) /\ Len(i) = Len(c.instr_) + 1
            BY <1>2, AppendProperties
        <3>2. n \in Seq(Nat) /\ Len(n) = Len(w.origin) + 1
            BY <1>2, AppendProperties
        <3>3. d.size_ \in Nat \ {0} /\ Len(c.instr_) + 1 <= d.size_
            <4>1. Len(c.instr_) \in Nat
                BY <1>2
            <4> DEFINE z == c.size_
                       m == Len(c.instr_)
                       full_c == full(c)
            <4>2. z \in Nat /\ z > 0 /\ m \in Nat /\ m <= z /\ (full_c <=> z <= m)
                BY <1>2, <4>1 DEF full
            <4>3. d.size_ = IF full_c THEN 2 * z ELSE z
                BY <2>2
            <4> HIDE DEF z, m, full_c, d
            <4>4. d.size_ \in Nat /\ d.size_ > 0 /\ m + 1 <= d.size_
                BY <4>2, <4>3
            <4> QED BY <4>4 DEF m
        <3> HIDE DEF i, n, d
        <3>4. d.instr_ = i
            BY <2>2 DEF i
        <3>5. CodeFits(d, n)
            BY <1>2, <3>1, <3>2, <3>3, <3>4 DEF CodeFits
        <3> QED BY <3>5 DEF n
    <2> HIDE DEF d
    <2>4. ASSUME NEW n, NEW k
          PROVE  LET y == [w EXCEPT !.assm.code_ = d, !.origin = n, !.ok = k]
                 IN /\ y.assm.code_ = d /\ y.assm.obj_pool_ = w.assm.obj_pool_
                    /\ y.origin = n /\ y.at = w.at /\ y.args = w.args /\ y.over = w.over
        BY <1>1 DEF IsRound, Rnd, IsAsm, Asm
    <2> DEFINE n == Append(w.origin, w.at)
    <2> HIDE DEF n
    <2>5. LET y == [w EXCEPT !.assm.code_ = d, !.origin = n, !.ok = TRUE]
          IN /\ y.assm.code_ = d /\ y.assm.obj_pool_ = w.assm.obj_pool_
             /\ y.origin = n /\ y.at = w.at /\ y.args = w.args /\ y.over = w.over
        BY ONLY <2>4, Zenon
    <2>6. u = [w EXCEPT !.assm.code_ = d, !.origin = n, !.ok = TRUE]
        BY <2>1 DEF n
    <2> HIDE DEF u
    <2>7. /\ u.assm.code_ = d /\ u.assm.obj_pool_ = w.assm.obj_pool_
          /\ u.origin = n /\ u.at = w.at /\ u.args = w.args /\ u.over = w.over
        BY <2>5, <2>6
    <2>8. Fits(u)
        BY <2>3, <2>7 DEF Fits, n
    <2> QED BY <2>7, <2>8 DEF u
<1> QED BY <1>3, <1>4

(* A number is read from a word, or there is none.                         *)
LEMMA StrtolIs ==
    ASSUME Marked, NEW p \in 1..(Len(src.text) + 1)
    PROVE  strtol(p).num \in Int
<1> DEFINE s     == src.text
           q     == Lex!RunEnd(s, p, Lex!IsSpace)
           first == IF Lex!Sym(s, q) = "sign" THEN q + 1 ELSE q
           stop  == Lex!RunEnd(s, first, {"digit"})
<1>1. s \in Seq(LexP!Classes) /\ Len(s) \in Nat /\ Lex!Sym(s, Len(s) + 1) = "end"
    BY DEF Marked, Lex!Classes, LexP!Classes, Lex!Sym
<1>2. q \in p..(Len(s) + 1)
    <2>1. "end" \notin Lex!IsSpace
        BY DEF Lex!IsSpace
    <2>2. q = LexP!RunEnd(s, p, Lex!IsSpace)
        BY SameRunEnd
    <2> QED BY <1>1, <2>1, <2>2, LexP!RunEndIs
<1> HIDE DEF q
<1>3. CASE q = Len(s) + 1
    <2>1. first = Len(s) + 1 /\ Lex!Sym(s, first) = "end"
        BY <1>1, <1>3
    <2>2. stop = LexP!RunEnd(s, first, {"digit"})
        BY SameRunEnd
    <2> HIDE DEF first
    <2>3. stop \in first..(Len(s) + 1)
        BY <1>1, <2>1, <2>2, LexP!RunEndIs
    <2>4. stop = first
        BY <1>1, <2>1, <2>3
    <2> QED BY <2>4 DEF strtol, first, q
<1>4. CASE q # Len(s) + 1
    <2>1. q \in 1..Len(src.at)
        BY <1>1, <1>2, <1>4 DEF Marked
    <2>2. src.at[q] \in WordType
        BY <2>1 DEF Marked
    <2>3. src.at[q].num \in Int
        <3>1. Newline.num \in Int
            BY DEF Newline
        <3>2. \A word \in SourceWords : word.num \in Int
            BY AssemblerAssumption
        <3> QED BY ONLY <2>2, <3>1, <3>2 DEF WordType
    <2>4. strtol(p).num \in {0, src.at[q].num}
        BY DEF strtol, q
    <2> QED BY <2>3, <2>4
<1> QED BY <1>3, <1>4

LEMMA RegisterFits ==
    ASSUME Marked, NEW w, Doing(w), NEW k \in 0..2, Fitting(w, k),
           Tok(w).beg \in Nat, Tok(w).type # "FINAL" => Tok(w).beg \in 1..Len(src.text)
    PROVE  Fitting(R_of(w), k + 1)
<1>1. k + 1 \in 1..3
    OBVIOUS
<1>2. Limit(k + 1) \in Nat /\ Limit(k + 1) >= G_INSTR_N_REGISTERS
    BY <1>1, LimitIs
<1>3. ASSUME NEW kind, NEW arg \in Nat, arg = G_INSTR_ARG_INVALID \/ arg < Limit(k + 1)
      PROVE  Fitting(Return(error(w, kind), arg), k + 1)
    <2> DEFINE e == error(w, kind)
    <2>1. Doing(e) /\ Fitting(e, k)
        BY DoingSteps, DoingIs, ErrorFits
    <2> HIDE DEF e
    <2>2. Fitting(Return(e, arg), k + 1)
        BY <1>3, <2>1, DoingIs, ReturnFits
    <2> QED BY <2>2 DEF e
<1>4. CASE ~tok_is_identifier(Tok(w))
    <2>1. 0 \in Nat /\ 0 < Limit(k + 1)
        BY <1>2, Sizes
    <2> QED BY <1>3, <1>4, <2>1 DEF R_of
<1>5. CASE tok_is_identifier(Tok(w))
    <2> DEFINE p    == Tok(w).beg + 1
               num  == strtol(p).num
               R    == arg_to_R(num % ArgValues)
               sym  == Lex!Sym(src.text, strtol(p).nend)
    <2>1. num \in Int
        <3>1. p \in 1..(Len(src.text) + 1)
            BY <1>5 DEF tok_is_identifier, Marked
        <3> QED BY <3>1, StrtolIs
    <2>2. handle_register(w) = IF src.at[Tok(w).beg].name \notin RNames
                               THEN Return(error(w, "no register"), G_INSTR_ARG_INVALID)
                               ELSE Return(Extra(Register(w, R), sym), R)
        BY DEF handle_register
    <2> HIDE DEF num
    <2>3. num % ArgValues \in Nat
        BY <2>1, Sizes
    <2>4. R \in Nat /\ (R = G_INSTR_ARG_INVALID \/ R < Limit(k + 1))
        BY <1>2, <2>3, Sizes DEF arg_to_R, Fit
    <2> HIDE DEF R, sym
    <2>5. Doing(Register(w, R)) /\ Fitting(Register(w, R), k)
        BY DoingSteps, DoingIs, ErrorFits DEF Register
    <2> DEFINE x == Register(w, R)
    <2> HIDE DEF x
    <2>6. Doing(Extra(x, sym)) /\ Fitting(Extra(x, sym), k)
        <3>1. Doing(x) /\ Fitting(x, k)
            BY <2>5 DEF x
        <3> QED BY <3>1, DoingSteps, DoingIs, ErrorFits DEF Extra
    <2> DEFINE y == Extra(x, sym)
    <2> HIDE DEF y
    <2>7. Fitting(Return(y, R), k + 1)
        <3>1. Doing(y) /\ Fitting(y, k)
            BY <2>6 DEF y
        <3> QED BY <2>4, <3>1, DoingIs, ReturnFits
    <2>8. Fitting(Return(error(w, "no register"), G_INSTR_ARG_INVALID), k + 1)
        BY <1>3, Sizes
    <2> QED BY <1>5, <2>2, <2>7, <2>8 DEF R_of, x, y
<1> QED BY <1>4, <1>5

LEMMA InstructionsAre ==
    /\ \A opcode \in Commands, R, A, B \in Nat :
          R < G_INSTR_ARG_R_MAX /\ A < G_INSTR_ARG_A_MAX /\ B < G_INSTR_ARG_B_MAX
          => RAB(opcode, R, A, B) \in Instructions
    /\ \A opcode \in Commands, R, C \in Nat :
          R < G_INSTR_ARG_R_MAX /\ C < G_INSTR_ARG_C_MAX => RC(opcode, R, C) \in Instructions
<1>1. ASSUME NEW opcode \in Commands, NEW R \in Nat, NEW A \in Nat, NEW B \in Nat,
             R < G_INSTR_ARG_R_MAX, A < G_INSTR_ARG_A_MAX, B < G_INSTR_ARG_B_MAX
      PROVE  RAB(opcode, R, A, B) \in Instructions
    <2>1. R \in 0..(G_INSTR_ARG_R_MAX - 1) /\ A \in 0..(G_INSTR_ARG_A_MAX - 1) /\ B \in 0..(G_INSTR_ARG_B_MAX - 1)
        BY <1>1, Sizes
    <2> QED BY <2>1 DEF RAB, Instructions
<1>2. ASSUME NEW opcode \in Commands, NEW R \in Nat, NEW C \in Nat,
             R < G_INSTR_ARG_R_MAX, C < G_INSTR_ARG_C_MAX
      PROVE  RC(opcode, R, C) \in Instructions
    <2>1. R \in 0..(G_INSTR_ARG_R_MAX - 1) /\ C \in 0..(G_INSTR_ARG_C_MAX - 1)
        BY <1>2, Sizes
    <2> QED BY <2>1 DEF RC, Instructions
<1> QED BY <1>1, <1>2

(* An index is in the pool, or there is none.                              *)
LEMMA LookUpIs ==
    ASSUME NEW p, p.nobjs \in Nat, NEW obj
    PROVE  LET idx == Pool!obj_pool_look_up(p, obj).idx IN idx = BAD_IDX \/ idx \in Nat
<1> DEFINE T == Pool!Hits(p, obj)
           idx == Pool!obj_pool_look_up(p, obj).idx
<1>1. idx = Pool!FirstOf(T)
    BY DEF Pool!obj_pool_look_up
<1>2. T \in SUBSET Nat
    BY DEF Pool!Hits
<1> HIDE DEF T, idx
<1>3. T = {} => idx = BAD_IDX
    BY <1>1 DEF Pool!FirstOf
<1>4. ASSUME T # {} PROVE idx \in Nat
    <2>1. \E i \in T : \A j \in T : i <= j
        BY <1>2, <1>4, LeastNumber
    <2>2. Pool!FirstOf(T) = CHOOSE i \in T : \A j \in T : i <= j
        BY <1>4 DEF Pool!FirstOf
    <2> QED BY <1>1, <1>2, <2>1, <2>2
<1>5. idx = BAD_IDX \/ idx \in Nat
    BY <1>3, <1>4
<1> QED BY <1>5 DEF idx

LEMMA LoadFits ==
    ASSUME NEW w, Doing(w), NEW k \in 0..2, Fitting(w, k), NEW cnst \in Nat
    PROVE  Fitting(load_const_in_reg(w, cnst, G_INSTR_N_REGISTERS - 1), k + 1)
<1> DEFINE reg == G_INSTR_N_REGISTERS - 1
           C == arg_to_C(cnst)
<1>1. /\ reg \in Nat /\ reg < G_INSTR_ARG_R_MAX /\ reg < Limit(k + 1)
      /\ G_INSTR_ARG_INVALID \in Nat
    <2>1. k + 1 \in 1..3
        OBVIOUS
    <2> QED BY <2>1, Sizes, LimitIs
<1>2. C = G_INSTR_ARG_INVALID \/ (C \in Nat /\ C < G_INSTR_ARG_C_MAX)
    BY Sizes DEF arg_to_C, Fit
<1> HIDE DEF reg, C
<1>3. CASE C = G_INSTR_ARG_INVALID
    <2> DEFINE e == error(w, "too many")
    <2>1. Doing(e) /\ Fitting(e, k)
        BY DoingSteps, DoingIs, ErrorFits
    <2> HIDE DEF e
    <2>2. Fitting(Return(e, G_INSTR_ARG_INVALID), k + 1)
        BY <1>1, <2>1, DoingIs, ReturnFits
    <2> QED BY <1>3, <2>2 DEF load_const_in_reg, e, C
<1>4. CASE C # G_INSTR_ARG_INVALID
    <2> DEFINE instr == RC("move", reg, C)
               v == code_write(w, instr)
    <2>1. instr \in Instructions
        BY <1>1, <1>2, <1>4, InstructionsAre DEF Commands
    <2>2. load_const_in_reg(w, cnst, G_INSTR_N_REGISTERS - 1) = Return(v, IF v.ok THEN reg ELSE G_INSTR_ARG_INVALID)
        BY <1>4 DEF load_const_in_reg, C, reg
    <2> HIDE DEF instr
    <2>3. Doing(v) /\ Fits(v) /\ v.args = w.args /\ (~v.over => ~w.over)
        BY <2>1, WriteFits, DoingSteps DEF Fitting
    <2> HIDE DEF v
    <2>4. Fitting(v, k)
        BY <2>3 DEF Fitting
    <2>5. Fitting(Return(v, reg), k + 1) /\ Fitting(Return(v, G_INSTR_ARG_INVALID), k + 1)
        BY <1>1, <2>3, <2>4, DoingIs, ReturnFits
    <2> QED BY <2>2, <2>5
<1> QED BY <1>3, <1>4

LEMMA ConstantFits ==
    ASSUME NEW w, Doing(w), NEW k \in 1..2, Fitting(w, k), NEW operand, operand = IF k = 1 THEN "A" ELSE "B"
    PROVE  Fitting(handle_constant(w, operand), k + 1)
<1> DEFINE obj   == make_object(Tok(w))
           pool  == w.assm.obj_pool_
           found == Pool!obj_pool_look_up(pool, obj).idx
           At(v, idx) == Constants(v, idx, arg_formatter(operand, idx))
           stored == [w EXCEPT !.assm.obj_pool_ = Pool!Store(@, obj)]
           none   == Return(error(w, "no memory"), G_INSTR_ARG_INVALID)
           over   == [w EXCEPT !.over = TRUE]
<1>1. \/ handle_constant(w, operand) \in {over, none}
      \/ found # BAD_IDX /\ handle_constant(w, operand) = At(w, found)
      \/ handle_constant(w, operand) = At(stored, pool.nobjs)
    <2>1. CASE found # BAD_IDX
        BY <2>1 DEF handle_constant
    <2>2. CASE found = BAD_IDX /\ pool.nobjs < pool.capacity
        BY <2>2 DEF handle_constant
    <2>3. CASE found = BAD_IDX /\ ~(pool.nobjs < pool.capacity)
        BY <2>3 DEF handle_constant
    <2> QED BY <2>1, <2>2, <2>3
<1>2. pool.nobjs \in Nat /\ IsRound(w) /\ IsAsm(w.assm)
    BY DoingIs DEF Fitting, Fits
<1>3. found = BAD_IDX \/ found \in Nat
    BY <1>2, LookUpIs
<1>4. ASSUME NEW v, Doing(v), Fitting(v, k), NEW idx \in Nat PROVE Fitting(At(v, idx), k + 1)
    <2> DEFINE ref == arg_formatter(operand, idx)
    <2>1. ref \in Nat /\ (ref = G_INSTR_ARG_INVALID \/ ref < Limit(k + 1))
        BY Sizes DEF arg_formatter, arg_to_A, arg_to_B, Fit, Limit
    <2> HIDE DEF ref
    <2>2. Fitting(load_const_in_reg(v, idx, G_INSTR_N_REGISTERS - 1), k + 1)
        BY <1>4, LoadFits
    <2>3. Fitting(Return(v, ref), k + 1)
        BY <1>4, <2>1, DoingIs, ReturnFits
    <2> QED BY <2>2, <2>3 DEF Constants, ref
<1>5. Doing(stored) /\ Fitting(stored, k)
    <2> DEFINE p == Pool!Store(pool, obj)
    <2>1. Doing(stored)
        BY DoingSteps
    <2>2. p.nobjs = pool.nobjs + 1
        BY <1>2, StoreIs DEF IsAsm
    <2>3. stored = [w EXCEPT !.assm.obj_pool_ = p]
        OBVIOUS
    <2> HIDE DEF p, stored
    <2>4. /\ stored.assm.obj_pool_ = p /\ stored.assm.code_ = w.assm.code_
          /\ stored.origin = w.origin /\ stored.at = w.at /\ stored.args = w.args /\ stored.over = w.over
        BY <1>2, <2>3 DEF IsRound, Rnd, IsAsm, Asm
    <2>5. Fitting(stored, k)
        BY <1>2, <2>2, <2>4 DEF Fitting, Fits
    <2> QED BY <2>1, <2>5 DEF stored
<1>6. Fitting(none, k + 1)
    <2> DEFINE e == error(w, "no memory")
    <2>1. Doing(e) /\ Fitting(e, k)
        BY DoingSteps, DoingIs, ErrorFits
    <2> HIDE DEF e
    <2>2. Fitting(Return(e, G_INSTR_ARG_INVALID), k + 1)
        BY <2>1, Sizes, DoingIs, ReturnFits
    <2> QED BY <2>2 DEF e
<1>7. Fitting(over, k + 1)
    <2>1. over.assm = w.assm /\ over.origin = w.origin /\ over.at = w.at /\ over.over
        BY <1>2, SameFields
    <2> HIDE DEF over
    <2> QED BY <2>1 DEF Fitting, Fits
<1> HIDE DEF At, stored, none, over, found, pool
<1>8. found # BAD_IDX => Fitting(At(w, found), k + 1)
    BY <1>3, <1>4
<1>9. Fitting(At(stored, pool.nobjs), k + 1)
    BY <1>2, <1>4, <1>5
<1> QED BY <1>1, <1>6, <1>7, <1>8, <1>9

LEMMA RefFits ==
    ASSUME Marked, NEW w, Doing(w), NEW k \in 1..2, Fitting(w, k), NEW operand, operand = IF k = 1 THEN "A" ELSE "B",
           Tok(w).beg \in Nat, Tok(w).type # "FINAL" => Tok(w).beg \in 1..Len(src.text)
    PROVE  Fitting(Ref_of(w, operand), k + 1)
<1>1. Fitting(handle_constant(w, operand), k + 1)
    BY ConstantFits
<1>2. Fitting(R_of(w), k + 1)
    BY RegisterFits
<1> QED BY <1>1, <1>2 DEF Ref_of

LEMMA ArithmeticFits ==
    ASSUME Marked, NEW w, Doing(w), Fitting(w, 0), NEW ar_code \in Arithmetic
    PROVE  Fits(handle_arithmetic(w, ar_code))
<1> DEFINE First(v)  == R_of(get_tok(v))
           Second(v) == Ref_of(get_tok(v), "A")
           Third(v)  == IF v.over THEN v ELSE Ref_of(get_tok(v), "B")
           Write(v)  == IF v.over THEN v
                        ELSE IF G_INSTR_ARG_INVALID \in ToSet(v.args) THEN [v EXCEPT !.ok = FALSE]
                        ELSE code_write(v, RAB(ar_code, v.args[1], v.args[2], v.args[3]))
<1>1. Doing(First(w)) /\ Fitting(First(w), 1)
    <2> DEFINE t == get_tok(w)
    <2>1. /\ Doing(t) /\ Fitting(t, 0) /\ Tok(t).beg \in Nat
          /\ Tok(t).type # "FINAL" => Tok(t).beg \in 1..Len(src.text)
        BY TokFits
    <2> HIDE DEF t
    <2>2. Fitting(R_of(t), 0 + 1)
        BY <2>1, RegisterFits
    <2> QED BY <2>1, <2>2, DoingSteps DEF t
<1>2. ASSUME NEW v, Doing(v), Fitting(v, 1) PROVE Doing(Second(v)) /\ Fitting(Second(v), 2)
    <2> DEFINE t == get_tok(v)
    <2>1. /\ Doing(t) /\ Fitting(t, 1) /\ Tok(t).beg \in Nat
          /\ Tok(t).type # "FINAL" => Tok(t).beg \in 1..Len(src.text)
        BY <1>2, TokFits
    <2> HIDE DEF t
    <2>2. Fitting(Ref_of(t, "A"), 1 + 1)
        BY <2>1, RefFits
    <2>3. \A operand : Doing(Ref_of(t, operand))
        BY <2>1, DoingSteps
    <2> QED BY <2>2, <2>3 DEF t
<1>3. ASSUME NEW v, Doing(v), Fitting(v, 2) PROVE Doing(Third(v)) /\ Fitting(Third(v), 3)
    <2> DEFINE t == get_tok(v)
    <2>1. /\ Doing(t) /\ Fitting(t, 2) /\ Tok(t).beg \in Nat
          /\ Tok(t).type # "FINAL" => Tok(t).beg \in 1..Len(src.text)
        BY <1>3, TokFits
    <2> HIDE DEF t
    <2>2. Fitting(Ref_of(t, "B"), 2 + 1)
        BY <2>1, RefFits
    <2>3. \A operand : Doing(Ref_of(t, operand))
        BY <2>1, DoingSteps
    <2>4. v.over => Fitting(v, 3)
        BY <1>3 DEF Fitting
    <2> QED BY <1>3, <2>2, <2>3, <2>4 DEF t
<1>4. ASSUME NEW v, Doing(v), Fitting(v, 3) PROVE Fits(Write(v))
    <2>1. CASE v.over
        BY <1>4, <2>1 DEF Fitting
    <2>2. CASE ~v.over /\ G_INSTR_ARG_INVALID \in ToSet(v.args)
        <3> DEFINE y == [v EXCEPT !.ok = FALSE]
        <3>1. \A ok : LET z == [v EXCEPT !.ok = ok] IN z.assm = v.assm /\ z.origin = v.origin /\ z.at = v.at
            BY <1>4, DoingIs, SameFields
        <3>2. y.assm = v.assm /\ y.origin = v.origin /\ y.at = v.at
            BY ONLY <3>1, Zenon DEF y
        <3>3. Write(v) = y
            BY <2>2
        <3> HIDE DEF y, Write
        <3> QED BY <1>4, <3>2, <3>3 DEF Fitting, Fits
    <2>3. CASE ~v.over /\ ~(G_INSTR_ARG_INVALID \in ToSet(v.args))
        <3> DEFINE x == v.args
                   instr == RAB(ar_code, x[1], x[2], x[3])
        <3>1. x \in Seq(Nat) /\ Len(x) = 3 /\ \A i \in 1..3 : x[i] = G_INSTR_ARG_INVALID \/ x[i] < Limit(i)
            BY <1>4, <2>3 DEF Fitting, ArgsFit
        <3>2. \A i \in 1..3 : x[i] \in Nat /\ x[i] # G_INSTR_ARG_INVALID
            BY <2>3, <3>1 DEF ToSet
        <3> HIDE DEF x
        <3>3. x[1] \in Nat /\ x[2] \in Nat /\ x[3] \in Nat /\ x[1] < Limit(1) /\ x[2] < Limit(2) /\ x[3] < Limit(3)
            BY <3>1, <3>2
        <3>4. instr \in Instructions
            BY <3>3, InstructionsAre DEF Limit, Commands
        <3>5. Write(v) = code_write(v, instr)
            BY <2>3 DEF x
        <3> HIDE DEF instr, Write
        <3>6. Fits(v)
            BY <1>4 DEF Fitting
        <3> QED BY <1>4, <3>4, <3>5, <3>6, WriteFits
    <2> QED BY <2>1, <2>2, <2>3
<1>5. handle_arithmetic(w, ar_code) = Write(Third(Second(First(w))))
    BY DEF handle_arithmetic
<1> HIDE DEF First, Second, Third, Write
<1>6. Doing(Second(First(w))) /\ Fitting(Second(First(w)), 2)
    BY <1>1, <1>2
<1>7. Doing(Third(Second(First(w)))) /\ Fitting(Third(Second(First(w))), 3)
    BY <1>3, <1>6
<1> QED BY <1>4, <1>5, <1>7

LEMMA SkipFits ==
    ASSUME NEW w, Doing(w), Fits(w)
    PROVE  Fits(skip_line(w))
<1> DEFINE t == Lex!lex_skip_line(w.assm.lex_)
           u == skip_line(w)
<1>1. IsRound(w) /\ IsAsm(w.assm)
    BY DoingIs
<1>2. u = [w EXCEPT !.assm.lex_ = t]
    BY DEF skip_line
<1> HIDE DEF t, u
<1>3. /\ u.assm.code_ = w.assm.code_ /\ u.assm.obj_pool_ = w.assm.obj_pool_
      /\ u.origin = w.origin /\ u.at = w.at
    BY <1>1, <1>2 DEF IsRound, Rnd, IsAsm, Asm
<1> QED BY <1>3 DEF u, Fits

LEMMA HandlerFits ==
    ASSUME Marked, NEW w, Doing(w), Fitting(w, 0), NEW opcode, NEW anything
    PROVE  Doing(call_handler(w, opcode, anything)) /\ Fits(call_handler(w, opcode, anything))
<1>1. Doing(call_handler(w, opcode, anything))
    <2>1. PICK c, o : c \in Nat /\ Going(w, src.text, c, o)
        BY DEF Doing
    <2>2. Going(call_handler(w, opcode, anything), src.text, c, o)
        BY <2>1, HandlerGoing
    <2> QED BY <2>1, <2>2 DEF Doing
<1>2. CASE opcode \in Arithmetic
    BY <1>1, <1>2, ArithmeticFits DEF call_handler
<1>3. CASE opcode \notin Arithmetic
    <2> DEFINE y == [w EXCEPT !.ok = anything]
    <2>1. y.assm = w.assm /\ y.origin = w.origin /\ y.at = w.at
        BY DoingIs, SameFields
    <2>2. call_handler(w, opcode, anything) = y
        BY <1>3 DEF call_handler
    <2> HIDE DEF y
    <2> QED BY <1>1, <2>1, <2>2 DEF Fitting, Fits
<1> QED BY <1>2, <1>3

-----------------------------------------------------------------------------
(* The inductive invariant.                                                *)

Reads == assm.lex_ \in LexP!Lexers /\ assm.lex_.source_ = src.text

IInv ==
    /\ phase \in {"none", "ready", "translating", "done", "over"}
    /\ heap = Owned(assm)
    /\ phase = "none" => heap = {}
    /\ IsAsm(assm)
    /\ Voice(log)
    /\ phase \in {"ready", "translating"} => Reads

LEMMA EmptyAsm == IsAsm(asm_destroyable) /\ Owned(asm_destroyable) = {}
<1> DEFINE l == Lex!lex_init(<<>>)
           p == Pool!obj_pool_destroyable
           a == Asm(l, p, code_destroyable)
<1>1. asm_destroyable = a
    BY DEF asm_destroyable, Asm
<1>2. a.lex_ = l /\ a.obj_pool_ = p /\ a.code_ = code_destroyable
    BY AsmIs
<1>3. a = Asm(a.lex_, a.obj_pool_, a.code_)
    BY <1>2
<1>4. IsPool(p) /\ ~Pool!Live(p)
    BY DEF IsPool, Pool!Live, Pool!obj_pool_destroyable, Pool!NULL
<1>5. IsCode(code_destroyable) /\ code_destroyable.block = NULL
    BY DEF IsCode, code_destroyable
<1> HIDE DEF a, l, p
<1>6. IsAsm(a)
    BY <1>2, <1>3, <1>4, <1>5 DEF IsAsm
<1>7. Owned(a) = {}
    BY <1>2, <1>4, <1>5 DEF Owned
<1> QED BY <1>1, <1>6, <1>7

LEMMA InitOk == Init => IInv
<1> SUFFICES ASSUME Init PROVE IInv
    OBVIOUS
<1>1. phase = "none" /\ heap = {} /\ assm = asm_destroyable /\ log = LogAtStart
    BY DEF Init
<1>2. Voice(LogAtStart)
    BY DEF Voice, LogAtStart, NoLogger
<1> QED BY <1>1, <1>2, EmptyAsm DEF IInv

(* What is freed is what is owned, once.                                   *)
LEMMA FreeKeeps ==
    ASSUME NEW a, NEW blocks, blocks = Owned(a), asm_free(a, blocks), Voice(log), UNCHANGED log
    PROVE  IInv'
<1>1. assm' = asm_destroyable /\ heap' = {} /\ phase' = "none"
    BY DEF asm_free
<1>2. Owned(assm)' = {} /\ IsAsm(assm)'
    BY <1>1, EmptyAsm
<1>3. Voice(log)'
    OBVIOUS
<1> QED BY <1>1, <1>2, <1>3 DEF IInv

LEMMA InitKeeps ==
    ASSUME IInv, NEW source \in Rendered, AsmInit(source)
    PROVE  IInv'
<1> DEFINE l == Lex!lex_init(source.text)
           p == obj_pool_init(G_OBJ_TABLE_INITIAL_SIZE)
           c == code_init("instr", G_CODE_INITIAL_SIZE)
           a == Asm(l, p, c)
<1>1. phase = "none" /\ src' = source /\ heap' = heap \cup Owned(assm') /\ phase' = "ready" /\ log' = log
    BY DEF AsmInit
<1>2. heap = {}
    BY <1>1 DEF IInv
<1>3. assm' = a
    BY DEF AsmInit, Asm
<1>4. a.lex_ = l /\ a.obj_pool_ = p /\ a.code_ = c
    BY AsmIs
<1>5. a = Asm(a.lex_, a.obj_pool_, a.code_)
    BY <1>4
<1>6. IsPool(p)
    BY AssemblerAssumption DEF IsPool, obj_pool_init
<1>7. IsCode(c)
    BY DEF IsCode, code_init
<1>8. l \in LexP!Lexers /\ l.source_ = source.text
    <2>1. source.text \in Seq(LexP!Classes)
        BY TextIs DEF Lex!Classes, LexP!Classes
    <2>2. Lex!NoToken \in LexP!Token
        BY DEF Lex!NoToken, LexP!Token, LexP!TokenType, LexP!Consts
    <2>3. l = [source_ |-> source.text, curr_sym_ |-> 1, tok_ |-> Lex!NoToken, nline_ |-> 1]
        BY DEF Lex!lex_init
    <2>4. 1 \in 1..(Len(source.text) + 1)
        BY <2>1
    <2> QED BY <2>1, <2>2, <2>3, <2>4 DEF LexP!Lexers
<1> HIDE DEF a, l, p, c
<1>9. IsAsm(a)
    BY <1>4, <1>5, <1>6, <1>7 DEF IsAsm
<1>10. IsAsm(assm)' /\ heap' = Owned(assm)'
    BY <1>1, <1>2, <1>3, <1>9
<1>11. Reads'
    BY <1>1, <1>3, <1>4, <1>8 DEF Reads
<1>12. Voice(log)'
    BY <1>1 DEF IInv
<1> QED BY <1>1, <1>10, <1>11, <1>12 DEF IInv

LEMMA InitFailsKeeps ==
    ASSUME IInv, NEW pool, AsmInitFails(pool)
    PROVE  IInv'
<1> DEFINE made == [asm_destroyable EXCEPT !.obj_pool_ = pool]
<1>1. phase = "none" /\ asm_free(made, heap \cup Owned(made)) /\ UNCHANGED log
    BY DEF AsmInitFails
<1>2. heap = {} /\ Voice(log)
    BY <1>1 DEF IInv
<1> HIDE DEF made
<1>3. heap \cup Owned(made) = Owned(made)
    BY <1>2
<1> QED BY <1>1, <1>2, <1>3, FreeKeeps

-----------------------------------------------------------------------------
(* The rounds.                                                             *)

Place == assm.lex_.curr_sym_

LEMMA RoundBegins ==
    ASSUME IInv, phase = "translating", NEW mem, NEW opens
    PROVE  /\ Going(Round(Next_tok, mem, opens), src.text, Place, heap)
           /\ Place \in Nat
           /\ Round(Next_tok, mem, opens).assm = assm
<1> DEFINE w == Round(Next_tok, mem, opens)
<1>1. IsRound(w) /\ w.assm = assm /\ w.log = log
    BY DEF Round, IsRound, Rnd
<1>2. Reads /\ IsAsm(assm) /\ Owned(assm) = heap /\ Voice(log)
    BY DEF IInv
<1>3. Place \in Nat
    BY <1>2 DEF Reads, LexP!Lexers, Place
<1> HIDE DEF w
<1>4. Going(w, src.text, Place, heap)
    <2>1. w.assm.lex_.curr_sym_ >= Place
        BY <1>1, <1>3 DEF Place
    <2> QED BY <1>1, <1>2, <2>1 DEF Going, Reads
<1> QED BY <1>1, <1>3, <1>4 DEF w

(* A round ends in a state of the invariant, at the place it has reached.  *)
LEMMA Concluded ==
    ASSUME NEW w, NEW c \in Nat, Going(w, src.text, c, heap),
           NEW next \in {"translating", "done", "over"}, Concludes(w, next)
    PROVE  IInv' /\ Place' >= c
<1>1. assm' = w.assm /\ log' = w.log /\ phase' \in {"translating", "done", "over"} /\ src' = src /\ heap' = heap
    BY DEF Concludes
<1>2. Owned(assm)' = heap'
    BY <1>1 DEF Going
<1>3. IsAsm(assm)' /\ Voice(log)' /\ Reads' /\ Place' >= c
    BY <1>1 DEF Going, Reads, Place
<1> QED BY <1>1, <1>2, <1>3 DEF IInv

LEMMA FinalKeeps ==
    ASSUME IInv, Final
    PROVE  IInv'
<1> DEFINE w == Round(Next_tok, FALSE, FALSE)
<1>1. phase = "translating" /\ Concludes(get_tok(w), "done")
    BY DEF Final
<1>2. \A mem, opens : Going(Round(Next_tok, mem, opens), src.text, Place, heap) /\ Place \in Nat
    BY <1>1, RoundBegins
<1>3. Going(w, src.text, Place, heap) /\ Place \in Nat
    BY ONLY <1>2, Zenon DEF w
<1> HIDE DEF w
<1>4. Going(get_tok(w), src.text, Place, heap)
    BY <1>3, GetTokGoing
<1> QED BY <1>1, <1>3, <1>4, Concluded

LEMMA UnreservedKeeps ==
    ASSUME IInv, Unreserved
    PROVE  IInv'
<1> DEFINE w == Round(Next_tok, FALSE, FALSE)
<1>1. phase = "translating" /\ Concludes(get_tok(w), "over")
    BY DEF Unreserved
<1>2. \A mem, opens : Going(Round(Next_tok, mem, opens), src.text, Place, heap) /\ Place \in Nat
    BY <1>1, RoundBegins
<1>3. Going(w, src.text, Place, heap) /\ Place \in Nat
    BY ONLY <1>2, Zenon DEF w
<1> HIDE DEF w
<1>4. Going(get_tok(w), src.text, Place, heap)
    BY <1>3, GetTokGoing
<1> QED BY <1>1, <1>3, <1>4, Concluded

(* A command takes its name from the text at least.                        *)
LEMMA CommandMoves ==
    ASSUME IInv, NEW opcode, NEW mem, NEW opens, NEW anything, Command(opcode, mem, opens, anything)
    PROVE  IInv' /\ Place' > Place
<1> DEFINE w == Round(Next_tok, mem, opens)
           t == get_tok(w)
           h == call_handler(t, opcode, anything)
           e == IF h.ok \/ h.over THEN h ELSE skip_line(h)
           n == Place + 1
<1>1. phase = "translating" /\ Next_tok.type = "IDENTIFIER" /\ Concludes(e, "translating")
    BY DEF Command
<1>2. Going(w, src.text, Place, heap) /\ Place \in Nat /\ w.assm = assm
    BY <1>1, RoundBegins
<1>3. Lex!lex_get_tok(w.assm.lex_, FALSE).tok_.type = "IDENTIFIER"
    BY <1>1, <1>2 DEF Next_tok
<1>4. n \in Nat /\ \A m : m \in Nat /\ m >= n => m > Place
    BY <1>2
<1> HIDE DEF w
<1>5. Going(t, src.text, n, heap)
    BY <1>2, <1>3, GetTokGoing
<1> HIDE DEF n, t
<1>6. Going(h, src.text, n, heap)
    BY <1>4, <1>5, HandlerGoing
<1> HIDE DEF h
<1>7. Going(e, src.text, n, heap)
    BY <1>4, <1>6, SkipGoing
<1> HIDE DEF e
<1>8. IInv' /\ Place' >= n
    BY <1>1, <1>4, <1>7, Concluded
<1>9. Place' \in Nat
    <2>1. assm' = e.assm
        BY <1>1 DEF Concludes
    <2> QED BY <1>7, <2>1 DEF Going, LexP!Lexers, Place
<1> QED BY <1>4, <1>8, <1>9

(* After another token the line is skipped, with the token if the lexer    *)
(* did not pass it.                                                        *)
LEMMA UnexpectedMoves ==
    ASSUME IInv, NEW opens, Unexpected(opens)
    PROVE  IInv' /\ Place' > Place
<1> DEFINE w == Round(Next_tok, FALSE, opens)
           t == get_tok(w)
           h == error(t, "unexpected")
           e == skip_line(h)
           n == Place + 1
<1>1. phase = "translating" /\ Next_tok.type # "FINAL" /\ Concludes(e, "translating")
    BY DEF Unexpected
<1>2. Going(w, src.text, Place, heap) /\ Place \in Nat /\ w.assm = assm
    <2>1. \A mem : /\ Going(Round(Next_tok, mem, opens), src.text, Place, heap) /\ Place \in Nat
                   /\ Round(Next_tok, mem, opens).assm = assm
        BY <1>1, RoundBegins
    <2> QED BY ONLY <2>1, Zenon DEF w
<1>3. Lex!lex_get_tok(w.assm.lex_, FALSE).tok_.type # "FINAL"
    BY <1>1, <1>2 DEF Next_tok
<1>4. n \in Nat /\ \A m : m \in Nat /\ m >= n => m > Place
    BY <1>2
<1> HIDE DEF w
<1>5. /\ Going(t, src.text, Place, heap) /\ t.assm.lex_ = Lex!lex_get_tok(w.assm.lex_, FALSE)
      /\ Lex!lex_skip_line(Lex!lex_get_tok(w.assm.lex_, FALSE)).curr_sym_ >= n
    BY <1>2, <1>3, GetTokGoing
<1> HIDE DEF n, t
<1>6. Going(h, src.text, Place, heap)
    BY <1>5, SmallSteps
<1>7. h.assm = t.assm
    <2>1. IsRound(t)
        BY <1>5 DEF Going
    <2> QED BY <2>1 DEF error, IsRound, Rnd
<1> HIDE DEF h
<1>8. Going(e, src.text, Place, heap) /\ e.assm.lex_ = Lex!lex_skip_line(h.assm.lex_)
    BY <1>2, <1>6, SkipGoing
<1> HIDE DEF e
<1>9. Going(e, src.text, n, heap)
    BY <1>5, <1>7, <1>8 DEF Going
<1>10. IInv' /\ Place' >= n
    BY <1>1, <1>4, <1>9, Concluded
<1>11. Place' \in Nat
    <2>1. assm' = e.assm
        BY <1>1 DEF Concludes
    <2> QED BY <1>9, <2>1 DEF Going, LexP!Lexers, Place
<1> QED BY <1>4, <1>10, <1>11

-----------------------------------------------------------------------------
(* The steps.                                                              *)

LEMMA CallsKeep ==
    ASSUME IInv, NEW g, Voice(g), Calls(g)
    PROVE  IInv'
<1>1. phase' = phase /\ heap' = heap /\ assm' = assm /\ log' = g /\ src' = src
    BY DEF Calls
<1>2. Owned(assm)' = Owned(assm) /\ IsAsm(assm)' = IsAsm(assm) /\ Reads' = Reads
    BY <1>1 DEF Reads
<1>3. Voice(log)'
    BY <1>1
<1> QED BY <1>1, <1>2, <1>3 DEF IInv

LEMMA NextOk ==
    ASSUME IInv, [Next]_vars
    PROVE  IInv'
<1>1. ASSUME NEW source \in Rendered, AsmInit(source) PROVE IInv'
    BY <1>1, InitKeeps
<1>2. ASSUME NEW pool, AsmInitFails(pool) PROVE IInv'
    BY <1>2, InitFailsKeeps
<1>3. CASE Translate
    <2>1. phase = "ready" /\ phase' = "translating" /\ heap' = heap /\ assm' = assm /\ log' = log /\ src' = src
        BY <1>3 DEF Translate
    <2>2. Owned(assm)' = Owned(assm) /\ IsAsm(assm)' = IsAsm(assm) /\ Reads' = Reads /\ Voice(log)' = Voice(log)
        BY <2>1 DEF Reads
    <2> QED BY <2>1, <2>2 DEF IInv
<1>4. CASE Rounds
    <2>1. CASE Final
        BY <2>1, FinalKeeps
    <2>2. ASSUME NEW opcode, NEW mem, NEW opens, NEW anything, Command(opcode, mem, opens, anything) PROVE IInv'
        BY <2>2, CommandMoves
    <2>3. CASE Unreserved
        BY <2>3, UnreservedKeeps
    <2>4. ASSUME NEW opens, Unexpected(opens) PROVE IInv'
        BY <2>4, UnexpectedMoves
    <2> QED BY <1>4, <2>1, <2>2, <2>3, <2>4 DEF Rounds
<1>5. CASE AsmFree
    <2>1. asm_free(assm, heap) /\ UNCHANGED log /\ heap = Owned(assm) /\ Voice(log)
        BY <1>5 DEF AsmFree, IInv
    <2> QED BY <2>1, FreeKeeps
<1>6. CASE SetUpLog
    <2>1. Voice(log)
        BY DEF IInv
    <2>2. \A y : /\ Voice(log_set_context_format(log, y)) /\ Voice(log_set_context_lvl(log, y))
                 /\ Voice(log_set_context_file_name(log, y))
        BY <2>1, SetUpVoice
    <2>3. \E g : Voice(g) /\ Calls(g)
        BY <1>6, <2>2 DEF SetUpLog
    <2> QED BY <2>3, CallsKeep
<1>7. CASE WriteLog
    <2>1. Voice(log)
        BY DEF IInv
    <2>2. \A type, opens : Voice(log_msg(log, type, opens))
        BY <2>1, MsgVoice
    <2>3. \E g : Voice(g) /\ Calls(g)
        BY <1>7, <2>2 DEF WriteLog
    <2> QED BY <2>3, CallsKeep
<1>8. CASE UNCHANGED vars
    <2>1. phase' = phase /\ heap' = heap /\ assm' = assm /\ log' = log /\ src' = src
        BY <1>8 DEF vars
    <2>2. Owned(assm)' = Owned(assm) /\ IsAsm(assm)' = IsAsm(assm) /\ Reads' = Reads /\ Voice(log)' = Voice(log)
        BY <2>1 DEF Reads
    <2> QED BY <2>1, <2>2 DEF IInv
<1>9. CASE Ended
    BY <1>8, <1>9 DEF Ended
<1> QED BY <1>1, <1>2, <1>3, <1>4, <1>5, <1>6, <1>7, <1>8, <1>9 DEF Next

-----------------------------------------------------------------------------

(* In every reachable state the blocks the program has are those its       *)
(* assembler points to, the log has one voice, and while there is          *)
(* something to translate the lexer is a lexer of the source.              *)
THEOREM Inductive == Spec => []IInv
<1>1. Init => IInv
    BY InitOk
<1>2. IInv /\ [Next]_vars => IInv'
    BY NextOk
<1> QED BY <1>1, <1>2, PTL DEF Spec

(* Whichever allocation of asm_init fails, whatever the source is and      *)
(* however often asm_free is called (asm.cpp:67), nothing is freed twice   *)
(* and nothing is lost.                                                    *)
THEOREM HeapIsClean == Spec => []HeapClean
<1>1. IInv => HeapClean
    BY DEF IInv, HeapClean
<1> QED BY <1>1, Inductive, PTL

(* From its first line to its last the log has the format and the stream   *)
(* of the logger that log_instance made (log.cpp), and a header if and     *)
(* only if it is HTML, whatever the program sets up later and whichever    *)
(* of its files do not open.                                               *)
THEOREM LogHasOneVoice == Spec => []OneVoice
<1>1. IInv => OneVoice
    BY DEF IInv, Voice, OneVoice
<1> QED BY <1>1, Inductive, PTL

(* Each round of asm_translate that does not end it leaves more of the     *)
(* text behind, on every source: a command its name at least, any other    *)
(* token the rest of its line, though the lexer does not pass a token that *)
(* is incorrect (asm.cpp:89 and 105).                                      *)
THEOREM RoundsMakeProgress == Spec => RoundsMoveOn
<1> DEFINE Moves == phase = "translating" /\ phase' = "translating" => assm'.lex_.curr_sym_ > assm.lex_.curr_sym_
<1>1. ASSUME IInv, [Next]_vars PROVE [Moves]_vars
    <2> SUFFICES ASSUME Next, phase = "translating", phase' = "translating"
                 PROVE  Place' > Place \/ UNCHANGED vars
        BY <1>1 DEF Place
    <2>1. ASSUME NEW opcode, NEW mem, NEW opens, NEW anything, Command(opcode, mem, opens, anything)
          PROVE  Place' > Place
        BY <1>1, <2>1, CommandMoves
    <2>2. ASSUME NEW opens, Unexpected(opens) PROVE Place' > Place
        BY <1>1, <2>2, UnexpectedMoves
    <2>3. CASE Final
        BY <2>3 DEF Final, Concludes
    <2>4. CASE Unreserved
        BY <2>4 DEF Unreserved, Concludes
    <2>5. CASE Rounds
        BY <2>1, <2>2, <2>3, <2>4, <2>5 DEF Rounds
    <2>6. ASSUME NEW source, AsmInit(source) PROVE FALSE
        BY <2>6 DEF AsmInit
    <2>7. ASSUME NEW pool, AsmInitFails(pool) PROVE FALSE
        BY <2>7 DEF AsmInitFails
    <2>8. CASE Translate \/ AsmFree \/ SetUpLog \/ WriteLog \/ Ended
        BY <2>8 DEF Translate, AsmFree, SetUpLog, WriteLog, Calls, Ended
    <2> QED BY <2>5, <2>6, <2>7, <2>8 DEF Next
<1>2. IInv /\ [Next]_vars => [Moves]_vars
    BY <1>1
<1> QED BY <1>2, Inductive, PTL DEF Spec, RoundsMoveOn
-----------------------------------------------------------------------------
(* What is in the code buffer.                                             *)

Filled ==
    /\ assm.code_.instr_ \in Seq(Instructions) /\ assm.code_.size_ \in Nat
    /\ Len(assm.code_.instr_) <= assm.code_.size_
    /\ origin \in Seq(Nat) /\ Len(origin) = Len(assm.code_.instr_)
    /\ heap \subseteq {"objs", "instr"}
    /\ phase = "none" => origin = <<>>
    /\ phase \in {"ready", "translating"} =>
          assm.code_.size_ # 0 /\ assm.obj_pool_.nobjs \in Nat /\ Marked

LEMMA EmptyFills ==
    /\ asm_destroyable.code_.instr_ = <<>> /\ asm_destroyable.code_.size_ = 0
    /\ <<>> \in Seq(Instructions) /\ <<>> \in Seq(Nat) /\ Len(<<>>) = 0
<1>1. asm_destroyable.code_ = code_destroyable
    BY DEF asm_destroyable
<1> QED BY <1>1 DEF code_destroyable

LEMMA InitFilled == Init => Filled
<1> SUFFICES ASSUME Init PROVE Filled
    OBVIOUS
<1>1. assm = asm_destroyable /\ origin = <<>> /\ heap = {} /\ phase = "none"
    BY DEF Init
<1> QED BY <1>1, EmptyFills DEF Filled

LEMMA FreeFilled ==
    ASSUME NEW a, NEW blocks, blocks \ Owned(a) \subseteq {"objs", "instr"}, asm_free(a, blocks), origin' = <<>>
    PROVE  Filled'
<1>1. assm' = asm_destroyable /\ heap' = blocks \ Owned(a) /\ phase' \notin {"ready", "translating"}
    BY DEF asm_free
<1>2. assm'.code_.instr_ = <<>> /\ assm'.code_.size_ = 0
    BY <1>1, EmptyFills
<1> QED BY <1>1, <1>2, EmptyFills DEF Filled

LEMMA AsmInitFilled ==
    ASSUME Filled, NEW source \in Rendered, AsmInit(source)
    PROVE  Filled'
<1>1. /\ phase = "none" /\ origin' = origin /\ heap' = heap \cup Owned(assm') /\ src' = source /\ phase' = "ready"
      /\ assm'.code_ = code_init("instr", G_CODE_INITIAL_SIZE)
      /\ assm'.obj_pool_ = obj_pool_init(G_OBJ_TABLE_INITIAL_SIZE)
    BY DEF AsmInit
<1>2. assm'.code_.instr_ = <<>> /\ assm'.code_.size_ = G_CODE_INITIAL_SIZE /\ assm'.code_.block = "instr"
    BY <1>1 DEF code_init
<1>3. assm'.obj_pool_.nobjs = 0
    BY <1>1 DEF obj_pool_init
<1>4. origin' = <<>> /\ heap \subseteq {"objs", "instr"}
    BY <1>1 DEF Filled
<1>5. Owned(assm') \subseteq {"objs", "instr"}
    BY <1>2 DEF Owned
<1>6. Marked'
    BY <1>1, TextIs DEF Marked
<1>7. G_CODE_INITIAL_SIZE \in Nat \ {0}
    BY AssemblerAssumption
<1>8. Len(assm'.code_.instr_) <= assm'.code_.size_
    BY <1>2, <1>7, EmptyFills
<1>9. assm'.code_.instr_ \in Seq(Instructions) /\ assm'.code_.size_ \in Nat /\ assm'.code_.size_ # 0
    BY <1>2, <1>7, EmptyFills
<1>10. origin' \in Seq(Nat) /\ Len(origin') = Len(assm'.code_.instr_)
    BY ONLY <1>2, <1>4, EmptyFills
<1>11. heap' \subseteq {"objs", "instr"}
    BY ONLY <1>1, <1>4, <1>5
<1>12. assm'.obj_pool_.nobjs \in Nat
    BY <1>3
<1> QED BY ONLY <1>4, <1>6, <1>8, <1>9, <1>10, <1>11, <1>12 DEF Filled

LEMMA RoundStarts ==
    ASSUME IInv, Filled, phase = "translating", NEW mem, NEW opens
    PROVE  LET w == get_tok(Round(Next_tok, mem, opens))
           IN  Marked /\ Doing(w) /\ Fitting(w, 0)
<1> DEFINE w == Round(Next_tok, mem, opens)
<1>1. Doing(w)
    BY RoundBegins DEF Doing
<1>2. w.assm = assm /\ w.origin = origin /\ w.at = Next_tok.beg /\ w.args = <<>> /\ w.over = FALSE
    BY DEF Round
<1>3. Next_tok.beg \in Nat
    <2>1. assm.lex_ \in LexP!Lexers /\ FALSE \in BOOLEAN
        BY <1>1, <1>2, DoingIs
    <2>2. Next_tok = LexP!lex_get_tok(assm.lex_, FALSE).tok_
        BY SameTok DEF Next_tok
    <2> QED BY <2>1, <2>2, LexP!TokenInText
<1> HIDE DEF w
<1>4. Fitting(w, 0)
    <2>1. CodeFits(w.assm.code_, w.origin) /\ w.assm.obj_pool_.nobjs \in Nat
        BY <1>2 DEF Filled, CodeFits
    <2>2. ArgsFit(<<>>, 0)
        BY EmptyFills DEF ArgsFit
    <2> QED BY <1>2, <1>3, <2>1, <2>2 DEF Fitting, Fits
<1>5. Doing(get_tok(w)) /\ Fitting(get_tok(w), 0)
    BY <1>1, <1>4, TokFits
<1> QED BY <1>5 DEF w, Filled

LEMMA ConcludedFilled ==
    ASSUME Filled, phase = "translating", NEW w, Fits(w),
           NEW next \in {"translating", "done", "over"}, Concludes(w, next)
    PROVE  Filled'
<1>1. /\ assm' = w.assm /\ origin' = w.origin /\ phase' \in {"translating", "done", "over"}
      /\ src' = src /\ heap' = heap
    BY DEF Concludes
<1>2. CodeFits(assm'.code_, origin') /\ assm'.obj_pool_.nobjs \in Nat
    BY <1>1 DEF Fits
<1>3. Marked' /\ heap \subseteq {"objs", "instr"}
    BY <1>1 DEF Filled, Marked
<1> QED BY <1>1, <1>2, <1>3 DEF Filled, CodeFits

LEMMA RoundsFilled ==
    ASSUME IInv, Filled, Rounds
    PROVE  Filled'
<1>1. phase = "translating"
    BY DEF Rounds, Final, Command, Unreserved, Unexpected
<1>2. \A mem, opens : LET w == get_tok(Round(Next_tok, mem, opens))
                      IN  Marked /\ Doing(w) /\ Fitting(w, 0) /\ Fits(w)
    BY <1>1, RoundStarts DEF Fitting
<1>3. Fits(get_tok(Round(Next_tok, FALSE, FALSE)))
    BY ONLY <1>2, Zenon
<1>4. CASE Final
    BY <1>1, <1>3, <1>4, ConcludedFilled DEF Final
<1>5. CASE Unreserved
    BY <1>1, <1>3, <1>5, ConcludedFilled DEF Unreserved
<1>6. ASSUME NEW opcode, NEW mem, NEW opens, NEW anything, Command(opcode, mem, opens, anything) PROVE Filled'
    <2> DEFINE w == get_tok(Round(Next_tok, mem, opens))
               h == call_handler(w, opcode, anything)
               e == IF h.ok \/ h.over THEN h ELSE skip_line(h)
    <2>1. Concludes(e, "translating")
        BY <1>6 DEF Command
    <2>2. Marked /\ Doing(w) /\ Fitting(w, 0)
        BY <1>2
    <2> HIDE DEF w
    <2>3. Doing(h) /\ Fits(h)
        BY <2>2, HandlerFits
    <2> HIDE DEF h
    <2>4. Fits(e)
        BY <2>3, SkipFits
    <2> HIDE DEF e
    <2> QED BY <1>1, <2>1, <2>4, ConcludedFilled
<1>7. ASSUME NEW opens, Unexpected(opens) PROVE Filled'
    <2> DEFINE w == get_tok(Round(Next_tok, FALSE, opens))
               h == error(w, "unexpected")
               e == skip_line(h)
    <2>1. Concludes(e, "translating")
        BY <1>7 DEF Unexpected
    <2>2. \A mem : Doing(get_tok(Round(Next_tok, mem, opens))) /\ Fitting(get_tok(Round(Next_tok, mem, opens)), 0)
        BY <1>2
    <2>3. Doing(w) /\ Fitting(w, 0)
        BY ONLY <2>2, Zenon DEF w
    <2> HIDE DEF w
    <2>4. Doing(h) /\ Fits(h)
        BY <2>3, DoingSteps, DoingIs, ErrorFits DEF Fitting
    <2> HIDE DEF h
    <2>5. Fits(e)
        BY <2>4, SkipFits
    <2> HIDE DEF e
    <2> QED BY <1>1, <2>1, <2>5, ConcludedFilled
<1> QED BY <1>4, <1>5, <1>6, <1>7 DEF Rounds

LEMMA NextFilled ==
    ASSUME IInv, Filled, [Next]_vars
    PROVE  Filled'
<1>1. ASSUME NEW source \in Rendered, AsmInit(source) PROVE Filled'
    BY <1>1, AsmInitFilled
<1>2. ASSUME NEW pool, AsmInitFails(pool) PROVE Filled'
    <2> DEFINE made == [asm_destroyable EXCEPT !.obj_pool_ = pool]
    <2>1. phase = "none" /\ asm_free(made, heap \cup Owned(made)) /\ origin' = origin
        BY <1>2 DEF AsmInitFails
    <2> HIDE DEF made
    <2>2. (heap \cup Owned(made)) \ Owned(made) \subseteq {"objs", "instr"} /\ origin' = <<>>
        BY <2>1 DEF Filled
    <2> QED BY <2>1, <2>2, FreeFilled
<1>3. CASE AsmFree
    <2>1. asm_free(assm, heap) /\ origin' = <<>> /\ heap \ Owned(assm) \subseteq {"objs", "instr"}
        BY <1>3 DEF AsmFree, Filled
    <2> QED BY <2>1, FreeFilled
<1>4. CASE Rounds
    BY <1>4, RoundsFilled
<1>5. ASSUME assm' = assm, origin' = origin, heap' = heap, src' = src,
             phase' = phase \/ (phase = "ready" /\ phase' = "translating")
      PROVE  Filled'
    BY <1>5 DEF Filled, Marked
<1>6. CASE Translate
    BY <1>5, <1>6 DEF Translate
<1>7. CASE SetUpLog \/ WriteLog
    BY <1>5, <1>7 DEF SetUpLog, WriteLog, Calls
<1>8. CASE UNCHANGED vars
    BY <1>5, <1>8 DEF vars
<1>9. CASE Ended
    BY <1>8, <1>9 DEF Ended
<1> QED BY <1>1, <1>2, <1>3, <1>4, <1>6, <1>7, <1>8, <1>9 DEF Next

(* Every instruction written fits its fields (struct Instruction,          *)
(* instr.h:65), and there is room for it, whatever the words of the        *)
(* sources, the numbers in them, the sizes of the fields and the answers   *)
(* of the allocator.                                                       *)
THEOREM TypeCorrect == Spec => []TypeOK
<1>1. Init => Filled
    BY InitFilled
<1>2. IInv /\ Filled /\ [Next]_vars => Filled'
    BY NextFilled
<1>3. IInv /\ Filled => TypeOK
    <2> SUFFICES ASSUME IInv, Filled PROVE TypeOK
        OBVIOUS
    <2>1. DOMAIN origin = DOMAIN assm.code_.instr_
        BY DEF Filled
    <2>2. log.instance = NoLogger => log.out = {}
        BY DEF IInv, Voice
    <2> QED BY <2>1, <2>2 DEF IInv, Filled, TypeOK
<1> QED BY <1>1, <1>2, <1>3, Inductive, PTL DEF Spec

-----------------------------------------------------------------------------
(* Where the words of a source are.                                        *)

(* Piece i of t begins behind place O[i].                                  *)
Laid(O, seqs, t) ==
    /\ O \in [1..(Len(seqs) + 1) -> Nat]
    /\ O[1] = 0 /\ \A i \in 1..Len(seqs) : O[i + 1] = O[i] + Len(seqs[i])
    /\ Len(t) = O[Len(seqs) + 1]
    /\ \A i \in 1..Len(seqs) : \A j \in 1..Len(seqs[i]) : O[i] + j \in 1..Len(t) /\ t[O[i] + j] = seqs[i][j]

Begun(f, O, seqs, i) ==
    /\ Len(f[i]) = O[i] + Len(seqs[i])
    /\ \A k \in 1..i : \A j \in 1..Len(seqs[k]) : O[k] + j \in 1..Len(f[i]) /\ f[i][O[k] + j] = seqs[k][j]

LEMMA FlattenLaid ==
    ASSUME NEW S, NEW seqs \in Seq(Seq(S))
    PROVE  \E O : Laid(O, seqs, FlattenSeq(seqs))
<1> DEFINE n == Len(seqs)
<1>1. n \in Nat
    OBVIOUS
<1>2. CASE n = 0
    <2> DEFINE O == [i \in 1..1 |-> 0]
    <2>1. FlattenSeq(seqs) = seqs
        BY <1>2 DEF FlattenSeq
    <2>2. O \in [1..1 -> Nat] /\ O[1] = 0
        OBVIOUS
    <2> HIDE DEF O
    <2>3. Laid(O, seqs, seqs)
        BY <1>2, <2>2 DEF Laid
    <2> QED BY <2>1, <2>3
<1>3. CASE n # 0
    <2>1. PICK f : /\ Joined(f, seqs, n) /\ FlattenSeq(seqs) = f[n]
                   /\ \A i \in 1..n : f[i] \in Seq(S)
        BY <1>3, FlattenParts
    <2> DEFINE O == [i \in 1..(n + 1) |-> IF i = 1 THEN 0 ELSE Len(f[i - 1])]
               T == {i \in 1..n : ~Begun(f, O, seqs, i)}
    <2>2. ASSUME NEW i \in 1..n PROVE seqs[i] \in Seq(S) /\ f[i] \in Seq(S) /\ Len(f[i]) \in Nat /\ O[i + 1] = Len(f[i])
        <3>1. i + 1 \in 1..(n + 1) /\ i + 1 # 1 /\ (i + 1) - 1 = i
            BY <1>1
        <3> QED BY <2>1, <3>1
    <2>3. O[1] = 0
        BY <1>1
    <2>4. O \in [1..(n + 1) -> Nat]
        <3>1. \A i \in 1..(n + 1) : i # 1 => i - 1 \in 1..n
            BY <1>1
        <3> QED BY <2>1, <3>1
    <2> HIDE DEF O
    <2>5. T = {}
        <3> SUFFICES ASSUME T # {} PROVE FALSE
            OBVIOUS
        <3>1. PICK i \in T : \A j \in T : i <= j
            <4>1. T \in SUBSET Nat
                OBVIOUS
            <4> HIDE DEF T
            <4> QED BY <4>1, LeastNumber
        <3>2. i \in 1..n /\ f[i] = IF i = 1 THEN seqs[i] ELSE f[i - 1] \o seqs[i]
            BY <2>1, <3>1 DEF Joined
        <3>3. CASE i = 1
            <4>1. f[i] = seqs[i] /\ O[i] = 0 /\ seqs[i] \in Seq(S)
                BY <2>2, <2>3, <3>2, <3>3
            <4>2. Len(f[i]) = O[i] + Len(seqs[i])
                BY <4>1
            <4>3. Begun(f, O, seqs, i)
                <5>1. ASSUME NEW k \in 1..i, NEW j \in 1..Len(seqs[k])
                      PROVE  O[k] + j \in 1..Len(f[i]) /\ f[i][O[k] + j] = seqs[k][j]
                    BY <3>3, <4>1
                <5> QED BY <4>2, <5>1 DEF Begun
            <4> QED BY <3>1, <4>3
        <3>4. CASE i # 1
            <4>1. i - 1 \in 1..n /\ i - 1 < i
                BY <1>1, <3>2, <3>4
            <4>0. i - 1 \notin T
                <5> HIDE DEF T
                <5> QED BY <3>1, <3>2, <4>1
            <4>2. Begun(f, O, seqs, i - 1)
                BY <4>0, <4>1
            <4>3. O[i] = Len(f[i - 1])
                BY <2>2, <3>2, <4>1
            <4> DEFINE g == f[i - 1]
                       h == seqs[i]
            <4>4. g \in Seq(S) /\ h \in Seq(S) /\ f[i] = g \o h
                BY <2>2, <3>2, <3>4, <4>1
            <4>5. /\ Len(f[i]) = Len(g) + Len(h)
                  /\ \A j \in 1..Len(g) : f[i][j] = g[j]
                  /\ \A j \in 1..Len(h) : f[i][Len(g) + j] = h[j]
                <5> HIDE DEF g, h
                <5>1. Len(g) \in Nat /\ Len(h) \in Nat
                    BY <4>4
                <5> QED BY ONLY <4>4, <5>1
            <4>6. Len(f[i]) = O[i] + Len(seqs[i])
                BY <4>3, <4>5
            <4>7. ASSUME NEW k \in 1..i, NEW j \in 1..Len(seqs[k])
                  PROVE  O[k] + j \in 1..Len(f[i]) /\ f[i][O[k] + j] = seqs[k][j]
                <5>0. Len(g) \in Nat /\ Len(h) \in Nat
                    BY <4>4
                <5>1. CASE k = i
                    <6>1. O[k] + j = Len(g) + j /\ j \in 1..Len(h)
                        BY <4>3, <4>7, <5>1
                    <6>2. Len(g) + j \in 1..Len(f[i])
                        <7> HIDE DEF g, h
                        <7> QED BY <4>5, <5>0, <6>1
                    <6> QED BY <4>5, <5>1, <6>1, <6>2
                <5>2. CASE k # i
                    <6>1. k \in 1..(i - 1)
                        BY <3>2, <5>2
                    <6>2. O[k] + j \in 1..Len(g) /\ g[O[k] + j] = seqs[k][j]
                        BY <4>2, <4>7, <6>1 DEF Begun
                    <6> DEFINE x == O[k] + j
                    <6>3. x \in 1..Len(g) /\ g[x] = seqs[k][j]
                        BY <6>2
                    <6> HIDE DEF g, h, x
                    <6>4. x \in 1..Len(f[i]) /\ f[i][x] = g[x]
                        BY <4>5, <5>0, <6>3
                    <6> QED BY <6>3, <6>4 DEF x
                <5> QED BY <5>1, <5>2
            <4>8. Begun(f, O, seqs, i)
                BY <4>6, <4>7 DEF Begun
            <4> QED BY <3>1, <4>8
        <3> QED BY <3>3, <3>4
    <2>6. \A i \in 1..n : O[i + 1] = O[i] + Len(seqs[i])
        BY <2>2, <2>5 DEF Begun
    <2>7. n \in 1..n /\ Begun(f, O, seqs, n)
        BY <1>1, <1>3, <2>5
    <2>8. Len(f[n]) = O[n + 1]
        BY <2>2, <2>7
    <2>9. Laid(O, seqs, f[n])
        BY <2>3, <2>4, <2>6, <2>7, <2>8 DEF Laid, Begun
    <2> QED BY <2>1, <2>9
<1> QED BY <1>2, <1>3

(* Where pieces begin depends on the lengths of those before them.         *)
LEMMA SameOffsets ==
    ASSUME NEW a, NEW b, NEW O, NEW Q, NEW t, NEW u, Laid(O, a, t), Laid(Q, b, u),
           Len(a) \in Nat, Len(b) \in Nat, Len(b) <= Len(a), \A i \in 1..Len(b) : Len(b[i]) = Len(a[i])
    PROVE  \A i \in 1..(Len(b) + 1) : Q[i] = O[i]
<1> DEFINE n == Len(b)
           T == {i \in 1..(n + 1) : Q[i] # O[i]}
<1> SUFFICES ASSUME T # {} PROVE FALSE
    OBVIOUS
<1>1. PICK i \in T : \A j \in T : i <= j
    <2>1. T \in SUBSET Nat
        OBVIOUS
    <2> HIDE DEF T
    <2> QED BY <2>1, LeastNumber
<1>2. i \in 1..(n + 1) /\ Q[i] # O[i]
    BY <1>1
<1>3. i # 1
    BY <1>2 DEF Laid
<1>4. i - 1 \in 1..n /\ i - 1 \in 1..Len(a) /\ i - 1 \in 1..(n + 1) /\ i - 1 < i /\ (i - 1) + 1 = i
    BY <1>2, <1>3
<1>5. Q[i - 1] = O[i - 1]
    BY <1>1, <1>2, <1>4
<1>6. Q[i] = Q[i - 1] + Len(b[i - 1]) /\ O[i] = O[i - 1] + Len(a[i - 1])
    BY <1>4 DEF Laid
<1> QED BY <1>2, <1>4, <1>5, <1>6

(* The pieces a source is made of.                                         *)
EndedLines(lines) == [k \in DOMAIN lines |-> Append(lines[k], Newline)]
Chars(W)      == [n \in DOMAIN W |-> Append(W[n].sym, "blank")]
Marks(W)      == [n \in DOMAIN W |-> [i \in DOMAIN Append(W[n].sym, "blank") |-> W[n]]]

IsPlace(place, W) ==
    place = [n \in 1..(Len(W) + 1) |-> IF n = 1 THEN 1 ELSE place[n - 1] + Len(Append(W[n - 1].sym, "blank"))]

LEMMA SourceParts ==
    ASSUME NEW lines
    PROVE  LET W == Words(lines)
               place == CHOOSE p : IsPlace(p, W)
           IN  /\ W = FlattenSeq(EndedLines(lines))
               /\ Source(lines).lines = lines
               /\ Source(lines).text = FlattenSeq(Chars(W))
               /\ Source(lines).at = FlattenSeq(Marks(W))
               /\ Source(lines).begin = [k \in DOMAIN lines |-> place[1 + Len(Words(SubSeq(lines, 1, k - 1)))]]
BY DEF Source, Words, Chars, Marks, IsPlace, EndedLines

LEMMA WordIs ==
    ASSUME NEW word \in WordType
    PROVE  /\ word.sym \in Seq(Lex!Classes) /\ Len(word.sym) \in Nat
           /\ Append(word.sym, "blank") \in Seq(Lex!Classes)
           /\ Len(Append(word.sym, "blank")) = Len(word.sym) + 1
           /\ DOMAIN Append(word.sym, "blank") = 1..(Len(word.sym) + 1)
           /\ \A i \in 1..Len(word.sym) : Append(word.sym, "blank")[i] = word.sym[i]
           /\ Append(word.sym, "blank")[Len(word.sym) + 1] = "blank"
<1>1. word.sym \in Seq(Lex!Classes)
    <2>1. <<"newline">> \in Seq(Lex!Classes)
        BY DEF Lex!Classes
    <2>2. Newline.sym = <<"newline">>
        BY DEF Newline
    <2> QED BY <2>1, <2>2, AssemblerAssumption DEF WordType
<1> DEFINE sym == word.sym
           long == Append(sym, "blank")
<1> HIDE DEF sym
<1>2. sym \in Seq(Lex!Classes) /\ "blank" \in Lex!Classes
    BY <1>1 DEF sym, Lex!Classes
<1>3. /\ long \in Seq(Lex!Classes) /\ Len(long) = Len(sym) + 1 /\ Len(sym) \in Nat
      /\ \A i \in 1..Len(sym) : long[i] = sym[i]
      /\ long[Len(sym) + 1] = "blank"
    BY <1>2, AppendProperties
<1>4. DOMAIN long = 1..(Len(sym) + 1)
    <2> HIDE DEF long
    <2> QED BY <1>3
<1> QED BY <1>2, <1>3, <1>4 DEF sym

LEMMA LinesAre ==
    ASSUME NEW lines \in Sources
    PROVE  lines \in Seq(Seq(SourceWords)) /\ lines \in Seq(Seq(WordType))
<1>1. lines \in Seq(Seq(SourceWords))
    BY AssemblerAssumption
<1>2. Seq(SourceWords) \subseteq Seq(WordType)
    BY SeqMonotonic DEF WordType
<1>3. Seq(Seq(SourceWords)) \subseteq Seq(Seq(WordType))
    BY <1>2, SeqMonotonic
<1> QED BY <1>1, <1>3

LEMMA PiecesAre ==
    ASSUME NEW lines \in Seq(Seq(WordType))
    PROVE  /\ EndedLines(lines) \in Seq(Seq(WordType)) /\ Len(EndedLines(lines)) = Len(lines)
           /\ \A k \in 1..Len(lines) : /\ lines[k] \in Seq(WordType) /\ EndedLines(lines)[k] = Append(lines[k], Newline)
                                       /\ Len(EndedLines(lines)[k]) = Len(lines[k]) + 1
<1>2. Newline \in WordType
    BY DEF WordType
<1>3. DOMAIN lines = 1..Len(lines) /\ Len(lines) \in Nat
    OBVIOUS
<1>4. ASSUME NEW k \in 1..Len(lines)
      PROVE  /\ lines[k] \in Seq(WordType) /\ Append(lines[k], Newline) \in Seq(WordType)
             /\ Len(Append(lines[k], Newline)) = Len(lines[k]) + 1
    <2>1. lines[k] \in Seq(WordType)
        BY <1>3
    <2> QED BY <1>2, <2>1, AppendProperties
<1> DEFINE E == EndedLines(lines)
<1>5. E = [k \in 1..Len(lines) |-> E[k]] /\ \A k \in 1..Len(lines) : E[k] = Append(lines[k], Newline)
    BY <1>3 DEF EndedLines
<1> HIDE DEF E
<1>6. E \in Seq(Seq(WordType)) /\ Len(E) = Len(lines)
    <2> DEFINE S == Seq(WordType)
               N == Len(lines)
    <2>1. \A k \in 1..N : E[k] \in S
        BY <1>4, <1>5
    <2> HIDE DEF S, N
    <2>2. E \in Seq(S) /\ Len(E) = N
        BY ONLY <2>1, <1>3, <1>5 DEF N
    <2> QED BY <2>2 DEF S, N
<1> QED BY <1>4, <1>5, <1>6 DEF E

LEMMA TextPieces ==
    ASSUME NEW W \in Seq(WordType)
    PROVE  /\ Chars(W) \in Seq(Seq(Lex!Classes)) /\ Len(Chars(W)) = Len(W)
           /\ Marks(W) \in Seq(Seq(WordType)) /\ Len(Marks(W)) = Len(W)
           /\ \A n \in 1..Len(W) : /\ Chars(W)[n] = Append(W[n].sym, "blank")
                                   /\ Len(Chars(W)[n]) = Len(W[n].sym) + 1 /\ Len(Marks(W)[n]) = Len(W[n].sym) + 1
                                   /\ \A i \in 1..(Len(W[n].sym) + 1) : Marks(W)[n][i] = W[n]
<1>1. DOMAIN W = 1..Len(W) /\ Len(W) \in Nat /\ \A n \in 1..Len(W) : W[n] \in WordType
    OBVIOUS
<1>2. ASSUME NEW n \in 1..Len(W)
      PROVE  /\ Chars(W)[n] = Append(W[n].sym, "blank") /\ Chars(W)[n] \in Seq(Lex!Classes)
             /\ Len(Chars(W)[n]) = Len(W[n].sym) + 1
    BY <1>1, WordIs DEF Chars
<1>3. ASSUME NEW n \in 1..Len(W)
      PROVE  /\ Marks(W)[n] \in Seq(WordType) /\ Len(Marks(W)[n]) = Len(W[n].sym) + 1
             /\ \A i \in 1..(Len(W[n].sym) + 1) : Marks(W)[n][i] = W[n]
    <2> DEFINE m == Len(W[n].sym) + 1
               word == W[n]
    <2>1. m \in Nat /\ word \in WordType /\ DOMAIN Append(word.sym, "blank") = 1..m
        BY <1>1, WordIs
    <2>2. Marks(W)[n] = [i \in 1..m |-> word]
        BY <1>1, <2>1 DEF Marks
    <2> HIDE DEF m, word
    <2>3. Marks(W)[n] \in Seq(WordType) /\ Len(Marks(W)[n]) = m /\ \A i \in 1..m : Marks(W)[n][i] = word
        BY <2>1, <2>2
    <2> QED BY <2>3 DEF m, word
<1> DEFINE C == Chars(W)
           M == Marks(W)
<1>4. C = [n \in 1..Len(W) |-> C[n]] /\ M = [n \in 1..Len(W) |-> M[n]]
    BY <1>1 DEF Chars, Marks
<1> HIDE DEF C, M
<1>5. C \in Seq(Seq(Lex!Classes)) /\ Len(C) = Len(W)
    BY <1>1, <1>2, <1>4 DEF C
<1>6. M \in Seq(Seq(WordType)) /\ Len(M) = Len(W)
    BY <1>1, <1>3, <1>4 DEF M
<1> QED BY <1>2, <1>3, <1>5, <1>6 DEF C, M

LEMMA PlaceIs ==
    ASSUME NEW W \in Seq(WordType), NEW O, NEW t, Laid(O, Chars(W), t)
    PROVE  \A n \in 1..(Len(W) + 1) : (CHOOSE p : IsPlace(p, W))[n] = O[n] + 1
<1> DEFINE place == CHOOSE p : IsPlace(p, W)
           d == [n \in 1..Len(W) |-> Len(Append(W[n].sym, "blank"))]
           N == Len(W)
<1>1. N \in Nat /\ \A n \in 1..N : d[n] \in Nat /\ Len(Chars(W)[n]) = d[n]
    <2>1. \A n \in 1..N : W[n] \in WordType
        OBVIOUS
    <2> QED BY <2>1, TextPieces, WordIs
<1>2. /\ O \in [1..(N + 1) -> Nat] /\ O[1] = 0
      /\ \A n \in 1..N : O[n + 1] = O[n] + d[n]
    BY <1>1, TextPieces DEF Laid
<1>3. \A p : IsPlace(p, W) <=> p = [n \in 1..(N + 1) |-> IF n = 1 THEN 1 ELSE p[n - 1] + d[n - 1]]
    <2>1. \A n \in 1..(N + 1) : n # 1 => n - 1 \in 1..N
        BY <1>1
    <2> QED BY <2>1 DEF IsPlace
<1> HIDE DEF d, place
<1>4. IsPlace(place, W)
    <2> DEFINE q == [n \in 1..(N + 1) |-> O[n] + 1]
    <2>1. ASSUME NEW n \in 1..(N + 1) PROVE q[n] = IF n = 1 THEN 1 ELSE q[n - 1] + d[n - 1]
        <3>1. CASE n = 1
            BY <1>2, <3>1
        <3>2. CASE n # 1
            <4>1. n - 1 \in 1..N /\ n - 1 \in 1..(N + 1) /\ (n - 1) + 1 = n
                BY <1>1, <3>2
            <4>2. O[n] = O[n - 1] + d[n - 1] /\ O[n - 1] \in Nat /\ d[n - 1] \in Nat
                BY <1>1, <1>2, <4>1
            <4>3. q[n] = O[n] + 1 /\ q[n - 1] = O[n - 1] + 1
                BY <4>1
            <4> QED BY <3>2, <4>2, <4>3
        <3> QED BY <3>1, <3>2
    <2>2. q = [n \in 1..(N + 1) |-> q[n]]
        OBVIOUS
    <2> HIDE DEF q
    <2>3. q = [n \in 1..(N + 1) |-> IF n = 1 THEN 1 ELSE q[n - 1] + d[n - 1]]
        BY <2>1, <2>2
    <2>4. IsPlace(q, W)
        BY <1>3, <2>3
    <2> QED BY <2>4 DEF place
<1>5. \A n \in 1..(N + 1) : place[n] = IF n = 1 THEN 1 ELSE place[n - 1] + d[n - 1]
    <2>1. place = [n \in 1..(N + 1) |-> IF n = 1 THEN 1 ELSE place[n - 1] + d[n - 1]]
        BY <1>3, <1>4
    <2> QED BY <2>1
<1> DEFINE T == {n \in 1..(N + 1) : place[n] # O[n] + 1}
<1>6. T = {}
    <2> SUFFICES ASSUME T # {} PROVE FALSE
        OBVIOUS
    <2>1. PICK i \in T : \A j \in T : i <= j
        <3>1. T \in SUBSET Nat
            OBVIOUS
        <3> HIDE DEF T
        <3> QED BY <3>1, LeastNumber
    <2>2. i \in 1..(N + 1) /\ place[i] # O[i] + 1 /\ i # 1
        BY <1>2, <1>5, <2>1
    <2>3. i - 1 \in 1..N /\ i - 1 \in 1..(N + 1) /\ i - 1 < i /\ (i - 1) + 1 = i
        BY <1>1, <2>2
    <2>4. place[i - 1] = O[i - 1] + 1
        BY <2>1, <2>2, <2>3
    <2>5. place[i] = place[i - 1] + d[i - 1] /\ O[i] = O[i - 1] + d[i - 1]
        BY <1>2, <1>5, <2>2, <2>3
    <2>6. O[i - 1] \in Nat /\ d[i - 1] \in Nat
        BY <1>1, <1>2, <2>3
    <2> QED BY <2>2, <2>4, <2>5, <2>6
<1> QED BY <1>6 DEF place

(* Word n of a source begins at place P[n]; line k has the words from F[k] *)
(* on, and a newline behind them.                                          *)
WordsLaid(source, W, P) ==
    /\ W \in Seq(WordType) /\ P \in [1..(Len(W) + 1) -> Nat]
    /\ P[1] = 1 /\ \A n \in 1..Len(W) : P[n + 1] = P[n] + (Len(W[n].sym) + 1)
    /\ source.text \in Seq(Lex!Classes) /\ Len(source.text) + 1 = P[Len(W) + 1]
    /\ \A n \in 1..Len(W) :
          /\ source.text[P[n] + Len(W[n].sym)] = "blank"
          /\ \A i \in 0..(Len(W[n].sym) - 1) :
                source.text[P[n] + i] = W[n].sym[i + 1] /\ source.at[P[n] + i] = W[n]

LinesLaid(source, W, P, F) ==
    LET lines == source.lines IN
    /\ lines \in Seq(Seq(SourceWords)) /\ F \in [1..(Len(lines) + 1) -> Nat]
    /\ F[1] = 1 /\ F[Len(lines) + 1] = Len(W) + 1
    /\ \A k \in 1..Len(lines) :
          /\ F[k + 1] = F[k] + (Len(lines[k]) + 1)
          /\ source.begin[k] = P[F[k]]
          /\ \A i \in 0..(Len(lines[k]) - 1) : W[F[k] + i] = lines[k][i + 1]
          /\ W[F[k] + Len(lines[k])] = Newline

LEMMA WordsAreLaid ==
    ASSUME NEW lines \in Sources, NEW W \in Seq(WordType), W = Words(lines), NEW O,
           NEW t, t = Source(lines).text, Laid(O, Chars(W), t),
           NEW P, P = [n \in 1..(Len(W) + 1) |-> O[n] + 1]
    PROVE  WordsLaid(Source(lines), W, P)
<1> DEFINE N == Len(W)
           at == Source(lines).at
           d == [n \in 1..N |-> Len(W[n].sym)]
<1>1. t = FlattenSeq(Chars(W)) /\ at = FlattenSeq(Marks(W))
    BY SourceParts
<1> HIDE DEF at
<1>2. N \in Nat /\ \A n \in 1..N : W[n] \in WordType /\ d[n] \in Nat /\ d[n] = Len(W[n].sym)
    <2>1. \A n \in 1..N : W[n] \in WordType
        OBVIOUS
    <2> QED BY <2>1, WordIs
<1>3. /\ Chars(W) \in Seq(Seq(Lex!Classes)) /\ Len(Chars(W)) = N
      /\ Marks(W) \in Seq(Seq(WordType)) /\ Len(Marks(W)) = N
      /\ \A n \in 1..N : /\ Chars(W)[n] = Append(W[n].sym, "blank")
                         /\ Len(Chars(W)[n]) = d[n] + 1 /\ Len(Marks(W)[n]) = d[n] + 1
                         /\ \A i \in 1..(d[n] + 1) : Marks(W)[n][i] = W[n]
    BY TextPieces
<1> HIDE DEF d
<1>4. t \in Seq(Lex!Classes)
    BY <1>1, <1>3, FlattenIs
<1>5. PICK Q : Laid(Q, Marks(W), at)
    BY <1>1, <1>3, FlattenLaid
<1> HIDE DEF N
<1>7. \A n \in 1..(N + 1) : Q[n] = O[n]
    <2> DEFINE C == Chars(W)
               M == Marks(W)
    <2>1. Len(M) = N /\ Len(C) = N /\ \A n \in 1..N : Len(M[n]) = Len(C[n])
        BY <1>2, <1>3
    <2>2. Laid(O, C, t) /\ Laid(Q, M, at)
        BY <1>5
    <2> HIDE DEF C, M
    <2>3. Len(C) \in Nat /\ Len(M) \in Nat /\ Len(M) <= Len(C) /\ \A n \in 1..Len(M) : Len(M[n]) = Len(C[n])
        BY <1>2, <2>1
    <2>4. \A n \in 1..(Len(M) + 1) : Q[n] = O[n]
        BY ONLY <2>2, <2>3, SameOffsets
    <2> QED BY <2>1, <2>4
<1>8. /\ O \in [1..(N + 1) -> Nat] /\ O[1] = 0 /\ Len(t) = O[N + 1]
      /\ \A n \in 1..N : O[n + 1] = O[n] + (d[n] + 1)
    BY <1>3 DEF Laid
<1>9. P = [n \in 1..(N + 1) |-> O[n] + 1]
    BY DEF N
<1>10. /\ P \in [1..(N + 1) -> Nat] /\ P[1] = 1 /\ Len(t) + 1 = P[N + 1]
       /\ \A n \in 1..N : O[n] \in Nat /\ P[n] = O[n] + 1 /\ P[n + 1] = P[n] + (d[n] + 1)
    <2>1. \A n \in 1..N : n \in 1..(N + 1) /\ n + 1 \in 1..(N + 1)
        BY <1>2
    <2>2. 1 \in 1..(N + 1) /\ N + 1 \in 1..(N + 1)
        BY <1>2
    <2>3. \A n \in 1..(N + 1) : P[n] = O[n] + 1 /\ O[n] \in Nat
        BY <1>8, <1>9
    <2>4. P \in [1..(N + 1) -> Nat]
        BY <1>8, <1>9
    <2>5. ASSUME NEW n \in 1..N PROVE O[n] \in Nat /\ P[n] = O[n] + 1 /\ P[n + 1] = P[n] + (d[n] + 1)
        <3>1. P[n] = O[n] + 1 /\ P[n + 1] = O[n + 1] + 1 /\ O[n] \in Nat /\ O[n + 1] = O[n] + (d[n] + 1)
            BY <1>8, <2>1, <2>3
        <3>2. d[n] \in Nat
            BY <1>2
        <3> QED BY ONLY <3>1, <3>2
    <2> QED BY <1>8, <2>2, <2>3, <2>4, <2>5
<1>11. ASSUME NEW n \in 1..N PROVE t[P[n] + d[n]] = "blank"
    <2> DEFINE m == d[n]
    <2>1. m \in Nat /\ m + 1 \in 1..Len(Chars(W)[n]) /\ W[n] \in WordType /\ n \in 1..Len(Chars(W)) /\ m = Len(W[n].sym)
        BY <1>2, <1>3
    <2>2. t[O[n] + (m + 1)] = Chars(W)[n][m + 1]
        BY <2>1 DEF Laid
    <2>3. Chars(W)[n][m + 1] = "blank"
        BY <1>3, <2>1, WordIs
    <2>4. P[n] + m = O[n] + (m + 1)
        <3>1. O[n] \in Nat /\ P[n] = O[n] + 1
            BY <1>10
        <3> HIDE DEF m
        <3>2. m \in Nat
            BY <2>1
        <3> QED BY ONLY <3>1, <3>2
    <2> QED BY <2>2, <2>3, <2>4
<1>12. ASSUME NEW n \in 1..N, NEW i \in 0..(d[n] - 1)
       PROVE  t[P[n] + i] = W[n].sym[i + 1] /\ at[P[n] + i] = W[n]
    <2> DEFINE m == d[n]
               j == i + 1
    <2>1. m \in Nat /\ i \in Nat /\ j \in 1..m /\ j \in 1..(m + 1) /\ m = Len(W[n].sym)
        BY <1>2
    <2>2. W[n] \in WordType /\ n \in 1..Len(Chars(W)) /\ n \in 1..Len(Marks(W))
          /\ Len(Chars(W)[n]) = m + 1 /\ Len(Marks(W)[n]) = m + 1
        BY <1>2, <1>3
    <2>3. P[n] + i = O[n] + j /\ Q[n] = O[n]
        <3>1. O[n] \in Nat /\ P[n] = O[n] + 1
            BY <1>10
        <3>2. i \in Nat
            BY <2>1
        <3>3. P[n] + i = O[n] + (i + 1)
            BY ONLY <3>1, <3>2
        <3>4. N \in Nat /\ n \in 1..N
            BY <1>2
        <3>5. n \in 1..(N + 1)
            BY ONLY <3>4
        <3> QED BY <1>7, <3>3, <3>5
    <2> HIDE DEF j
    <2>4. t[O[n] + j] = Chars(W)[n][j] /\ at[Q[n] + j] = Marks(W)[n][j]
        BY <1>5, <2>1, <2>2 DEF Laid
    <2>5. Chars(W)[n][j] = W[n].sym[j]
        <3>1. Chars(W)[n] = Append(W[n].sym, "blank") /\ j \in 1..Len(W[n].sym) /\ W[n] \in WordType
            BY <1>3, <2>1, <2>2
        <3>2. \A x \in 1..Len(W[n].sym) : Append(W[n].sym, "blank")[x] = W[n].sym[x]
            BY <3>1, WordIs
        <3> QED BY ONLY <3>1, <3>2
    <2>6. Marks(W)[n][j] = W[n]
        BY <1>3, <2>1
    <2> QED BY <2>3, <2>4, <2>5, <2>6 DEF j
<1>13. WordsLaid(Source(lines), W, P)
    <2>1. /\ W \in Seq(WordType) /\ P \in [1..(Len(W) + 1) -> Nat] /\ P[1] = 1
          /\ t \in Seq(Lex!Classes) /\ Len(t) + 1 = P[Len(W) + 1]
        BY <1>4, <1>10 DEF N
    <2>2. ASSUME NEW n \in 1..Len(W)
          PROVE  /\ P[n + 1] = P[n] + (Len(W[n].sym) + 1) /\ t[P[n] + Len(W[n].sym)] = "blank"
                 /\ \A i \in 0..(Len(W[n].sym) - 1) : t[P[n] + i] = W[n].sym[i + 1] /\ at[P[n] + i] = W[n]
        <3>1. n \in 1..N /\ d[n] = Len(W[n].sym)
            BY <1>2 DEF N
        <3>2. P[n + 1] = P[n] + (d[n] + 1) /\ t[P[n] + d[n]] = "blank"
            BY <1>10, <1>11, <3>1
        <3>3. \A i \in 0..(d[n] - 1) : t[P[n] + i] = W[n].sym[i + 1] /\ at[P[n] + i] = W[n]
            BY <1>12, <3>1
        <3> QED BY <3>1, <3>2, <3>3
    <2> DEFINE source == Source(lines)
    <2>3. source.text = t /\ source.at = at
        BY DEF at
    <2> HIDE DEF source, at
    <2>4. WordsLaid(source, W, P)
        BY ONLY <2>1, <2>2, <2>3 DEF WordsLaid
    <2> QED BY <2>4 DEF source
<1> QED BY <1>13

LEMMA PrefixLen ==
    ASSUME NEW lines \in Seq(Seq(WordType)), NEW Q, NEW u, Laid(Q, EndedLines(lines), u), NEW k \in 1..Len(lines)
    PROVE  Len(Words(SubSeq(lines, 1, k - 1))) = Q[k]
<1> DEFINE S == Seq(WordType)
           N == Len(lines)
           pre == SubSeq(lines, 1, k - 1)
<1>1. N \in Nat /\ k \in 1..N /\ k - 1 \in 0..N /\ (k - 1) + 1 = k
    OBVIOUS
<1>2. pre \in Seq(S) /\ Len(pre) = k - 1 /\ \A i \in 1..(k - 1) : pre[i] = lines[i]
    <2> HIDE DEF S
    <2>1. lines \in Seq(S)
        BY DEF S
    <2>2. \A i \in 1..(k - 1) : lines[i] \in S
        BY <1>1, <2>1
    <2> QED BY <1>1, <2>1, <2>2
<1> HIDE DEF pre
<1>3. /\ EndedLines(pre) \in Seq(S) /\ Len(EndedLines(pre)) = k - 1
      /\ \A i \in 1..(k - 1) : EndedLines(pre)[i] = Append(pre[i], Newline)
    BY <1>2, PiecesAre
<1>4. /\ Len(EndedLines(lines)) = N
      /\ \A i \in 1..N : EndedLines(lines)[i] = Append(lines[i], Newline)
    BY PiecesAre
<1>5. Words(pre) = FlattenSeq(EndedLines(pre))
    BY SourceParts
<1>6. PICK R : Laid(R, EndedLines(pre), Words(pre))
    BY <1>3, <1>5, FlattenLaid
<1> DEFINE a == EndedLines(lines)
           b == EndedLines(pre)
<1> HIDE DEF S, N, a, b
<1>7. \A i \in 1..(k - 1) : i \in 1..N /\ b[i] = a[i]
    <2>1. \A i \in 1..(k - 1) : i \in 1..N
        BY <1>1
    <2> QED BY <1>2, <1>3, <1>4, <2>1 DEF a, b
<1>8. Len(b) = k - 1 /\ Len(a) = N
    BY <1>3, <1>4 DEF a, b
<1>9. Len(a) \in Nat /\ Len(b) \in Nat /\ Len(b) <= Len(a) /\ \A i \in 1..Len(b) : Len(b[i]) = Len(a[i])
    BY <1>1, <1>7, <1>8
<1>10. Laid(Q, a, u) /\ Laid(R, b, Words(pre))
    BY <1>6 DEF a, b
<1>11. \A i \in 1..(Len(b) + 1) : R[i] = Q[i]
    BY ONLY <1>9, <1>10, SameOffsets
<1>12. Len(Words(pre)) = R[Len(b) + 1] /\ Len(b) + 1 = k
    BY <1>1, <1>8, <1>10 DEF Laid
<1>13. k \in 1..(Len(b) + 1)
    BY <1>1, <1>12
<1> QED BY <1>11, <1>12, <1>13 DEF pre

LEMMA SourceLaid ==
    ASSUME NEW source \in Rendered
    PROVE  \E W, P, F : WordsLaid(source, W, P) /\ LinesLaid(source, W, P, F)
<1>1. PICK lines \in Sources : source = Source(lines)
    BY DEF Rendered
<1>2. lines \in Seq(Seq(SourceWords)) /\ lines \in Seq(Seq(WordType))
    BY LinesAre
<1> DEFINE N == Len(lines)
           W == Words(lines)
<1>3. /\ EndedLines(lines) \in Seq(Seq(WordType)) /\ Len(EndedLines(lines)) = N
      /\ \A k \in 1..N : /\ lines[k] \in Seq(WordType) /\ EndedLines(lines)[k] = Append(lines[k], Newline)
                         /\ Len(EndedLines(lines)[k]) = Len(lines[k]) + 1
    BY <1>2, PiecesAre
<1>4. W = FlattenSeq(EndedLines(lines)) /\ source.text = FlattenSeq(Chars(W)) /\ source.lines = lines
      /\ source.begin = [k \in DOMAIN lines |-> (CHOOSE p : IsPlace(p, W))[1 + Len(Words(SubSeq(lines, 1, k - 1)))]]
    BY <1>1, SourceParts
<1> HIDE DEF W
<1>5. W \in Seq(WordType)
    BY <1>3, <1>4, FlattenIs
<1>6. PICK Q : Laid(Q, EndedLines(lines), W)
    BY <1>3, <1>4, FlattenLaid
<1>7. PICK O : Laid(O, Chars(W), source.text)
    BY <1>4, <1>5, TextPieces, FlattenLaid
<1> DEFINE P == [n \in 1..(Len(W) + 1) |-> O[n] + 1]
           F == [k \in 1..(N + 1) |-> Q[k] + 1]
<1>8. WordsLaid(source, W, P)
    <2>1. W = Words(lines)
        BY DEF W
    <2> QED BY <1>1, <1>5, <1>7, <2>1, WordsAreLaid
<1>9. N \in Nat /\ DOMAIN lines = 1..N /\ \A k \in 1..N : lines[k] \in Seq(WordType) /\ Len(lines[k]) \in Nat
    BY <1>2
<1>10. /\ Q \in [1..(N + 1) -> Nat] /\ Q[1] = 0 /\ Len(W) = Q[N + 1]
       /\ \A k \in 1..N : Q[k + 1] = Q[k] + (Len(lines[k]) + 1)
       /\ \A k \in 1..N : \A j \in 1..(Len(lines[k]) + 1) :
             Q[k] + j \in 1..Len(W) /\ W[Q[k] + j] = Append(lines[k], Newline)[j]
    <2> DEFINE E == EndedLines(lines)
    <2>1. Len(E) = N /\ \A k \in 1..N : E[k] = Append(lines[k], Newline) /\ Len(E[k]) = Len(lines[k]) + 1
        BY <1>3
    <2>2. Laid(Q, E, W)
        BY <1>6
    <2> HIDE DEF E, N
    <2>3. /\ Q \in [1..(N + 1) -> Nat] /\ Q[1] = 0 /\ Len(W) = Q[N + 1]
          /\ \A k \in 1..N : Q[k + 1] = Q[k] + Len(E[k])
          /\ \A k \in 1..N : \A j \in 1..Len(E[k]) : Q[k] + j \in 1..Len(W) /\ W[Q[k] + j] = E[k][j]
        BY ONLY <2>1, <2>2 DEF Laid
    <2>4. \A k \in 1..N : Q[k + 1] = Q[k] + (Len(lines[k]) + 1)
        BY <2>1, <2>3
    <2>5. ASSUME NEW k \in 1..N, NEW j \in 1..(Len(lines[k]) + 1)
          PROVE  Q[k] + j \in 1..Len(W) /\ W[Q[k] + j] = Append(lines[k], Newline)[j]
        <3>1. j \in 1..Len(E[k]) /\ E[k] = Append(lines[k], Newline)
            BY <2>1
        <3>2. W[Q[k] + j] = E[k][j] /\ Q[k] + j \in 1..Len(W)
            BY <2>3, <3>1
        <3> QED BY <3>1, <3>2
    <2> QED BY <2>3, <2>4, <2>5
<1> HIDE DEF N
<1>11. /\ F \in [1..(N + 1) -> Nat] /\ F[1] = 1 /\ F[N + 1] = Len(W) + 1
       /\ \A k \in 1..N : F[k] = Q[k] + 1 /\ Q[k] \in Nat /\ k \in 1..(N + 1) /\ F[k + 1] = F[k] + (Len(lines[k]) + 1)
    <2>1. \A k \in 1..(N + 1) : F[k] = Q[k] + 1 /\ Q[k] \in Nat
        BY <1>10
    <2>2. F \in [1..(N + 1) -> Nat]
        BY <1>10
    <2>3. 1 \in 1..(N + 1) /\ N + 1 \in 1..(N + 1) /\ \A k \in 1..N : k \in 1..(N + 1) /\ k + 1 \in 1..(N + 1)
        BY <1>9
    <2> HIDE DEF F
    <2>4. ASSUME NEW k \in 1..N PROVE F[k + 1] = F[k] + (Len(lines[k]) + 1)
        <3>1. F[k + 1] = Q[k + 1] + 1 /\ F[k] = Q[k] + 1 /\ Q[k + 1] = Q[k] + (Len(lines[k]) + 1) /\ Q[k] \in Nat /\ Len(lines[k]) \in Nat
            BY <1>9, <1>10, <2>1, <2>3
        <3> QED BY ONLY <3>1
    <2> QED BY <1>10, <2>1, <2>2, <2>3, <2>4
<1>12. ASSUME NEW k \in 1..N PROVE source.begin[k] = P[F[k]]
    <2>1. Len(Words(SubSeq(lines, 1, k - 1))) = Q[k]
        BY <1>2, <1>6, PrefixLen DEF N
    <2>2. source.begin[k] = (CHOOSE p : IsPlace(p, W))[1 + Q[k]]
        BY <1>4, <1>9, <2>1
    <2>3. 1 + Q[k] = F[k]
        BY <1>11
    <2>4. F[k] \in 1..(Len(W) + 1)
        <3>1. Q[k] + 1 \in 1..Len(W)
            <4>1. 1 \in 1..(Len(lines[k]) + 1)
                BY <1>9
            <4> QED BY <1>10, <4>1
        <3>2. Len(W) \in Nat
            BY <1>5
        <3> QED BY <1>11, <3>1, <3>2
    <2>5. (CHOOSE p : IsPlace(p, W))[F[k]] = O[F[k]] + 1
        BY <1>5, <1>7, <2>4, PlaceIs
    <2> QED BY <2>2, <2>3, <2>4, <2>5
<1>13. ASSUME NEW k \in 1..N
       PROVE  /\ \A i \in 0..(Len(lines[k]) - 1) : W[F[k] + i] = lines[k][i + 1]
              /\ W[F[k] + Len(lines[k])] = Newline
    <2> DEFINE line == lines[k]
               m == Len(line)
    <2>1. line \in Seq(WordType) /\ m \in Nat
        BY <1>9
    <2>2. Append(line, Newline)[m + 1] = Newline /\ \A i \in 1..m : Append(line, Newline)[i] = line[i]
        <3> HIDE DEF line
        <3> QED BY <2>1 DEF m
    <2>3. \A j \in 1..(m + 1) : W[Q[k] + j] = Append(line, Newline)[j]
        BY <1>10
    <2>4. F[k] = Q[k] + 1 /\ Q[k] \in Nat
        BY <1>11
    <2> HIDE DEF line, m
    <2>5. ASSUME NEW i \in 0..(m - 1) PROVE W[F[k] + i] = line[i + 1]
        <3>1. i + 1 \in 1..(m + 1) /\ i + 1 \in 1..m /\ F[k] + i = Q[k] + (i + 1)
            BY ONLY <2>1, <2>4, <2>5
        <3> QED BY <2>2, <2>3, <3>1
    <2>6. m + 1 \in 1..(m + 1) /\ F[k] + m = Q[k] + (m + 1)
        BY ONLY <2>1, <2>4
    <2> QED BY <2>2, <2>3, <2>5, <2>6 DEF line, m
<1> HIDE DEF F, P
<1>14. LinesLaid(source, W, P, F)
    BY <1>2, <1>4, <1>11, <1>12, <1>13 DEF LinesLaid, N
<1> QED BY <1>8, <1>14

(* The words of the source with a newline behind each line, the place of   *)
(* each, and the first of each line.                                       *)
Layout == CHOOSE y : WordsLaid(src, y[1], y[2]) /\ LinesLaid(src, y[1], y[2], y[3])

Wrd == Layout[1]
Plc == Layout[2]
Fst == Layout[3]

NWords == Len(Wrd)
NLines == Len(src.lines)
Size(n) == Len(Wrd[n].sym)

(* The newline of a line, and what comes behind its meaning.               *)
LineStop(j) == Fst[j] + Len(src.lines[j])
MeanEnd(j) == Fst[j] + Len(Meant(src.lines[j]))

LEMMA LayoutIs ==
    ASSUME src \in Rendered
    PROVE  WordsLaid(src, Wrd, Plc) /\ LinesLaid(src, Wrd, Plc, Fst)
<1>1. PICK W, P, F : WordsLaid(src, W, P) /\ LinesLaid(src, W, P, F)
    BY SourceLaid
<1> DEFINE y == <<W, P, F>>
<1>2. y[1] = W /\ y[2] = P /\ y[3] = F
    OBVIOUS
<1> HIDE DEF y
<1>3. WordsLaid(src, y[1], y[2]) /\ LinesLaid(src, y[1], y[2], y[3])
    BY <1>1, <1>2
<1>4. WordsLaid(src, Layout[1], Layout[2]) /\ LinesLaid(src, Layout[1], Layout[2], Layout[3])
    BY <1>3 DEF Layout
<1> QED BY <1>4 DEF Wrd, Plc, Fst

(* What the text has at the words.                                         *)
Text ==
    /\ NWords \in Nat /\ Plc \in [1..(NWords + 1) -> Nat] /\ Plc[1] = 1
    /\ src.text \in Seq(LexP!Classes) /\ Len(src.text) + 1 = Plc[NWords + 1]
    /\ \A n \in 1..NWords :
          /\ Wrd[n] \in WordType /\ Size(n) \in Nat /\ Wrd[n].sym \in Seq(LexP!Classes)
          /\ Plc[n + 1] = Plc[n] + (Size(n) + 1)
          /\ src.text[Plc[n] + Size(n)] = "blank"
          /\ \A i \in 0..(Size(n) - 1) : src.text[Plc[n] + i] = Wrd[n].sym[i + 1] /\ src.at[Plc[n] + i] = Wrd[n]

LEMMA TextHolds ==
    ASSUME src \in Rendered
    PROVE  Text
<1>1. WordsLaid(src, Wrd, Plc)
    BY LayoutIs
<1>2. Lex!Classes = LexP!Classes
    BY DEF Lex!Classes, LexP!Classes
<1> DEFINE W == Wrd
           s == src.text
<1> HIDE DEF W, s
<1>3. /\ W \in Seq(WordType) /\ Plc \in [1..(Len(W) + 1) -> Nat]
      /\ Plc[1] = 1 /\ \A n \in 1..Len(W) : Plc[n + 1] = Plc[n] + (Len(W[n].sym) + 1)
      /\ s \in Seq(Lex!Classes) /\ Len(s) + 1 = Plc[Len(W) + 1]
      /\ \A n \in 1..Len(W) :
            /\ s[Plc[n] + Len(W[n].sym)] = "blank"
            /\ \A i \in 0..(Len(W[n].sym) - 1) : s[Plc[n] + i] = W[n].sym[i + 1] /\ src.at[Plc[n] + i] = W[n]
    BY <1>1 DEF WordsLaid, W, s
<1>4. Len(W) \in Nat /\ \A n \in 1..Len(W) : W[n] \in WordType
    BY <1>3
<1>5. \A n \in 1..Len(W) : W[n].sym \in Seq(LexP!Classes) /\ Len(W[n].sym) \in Nat
    BY <1>2, <1>4, WordIs
<1>6. /\ NWords = Len(W) /\ \A n : Size(n) = Len(W[n].sym)
    BY DEF NWords, Size, W
<1> QED BY <1>2, <1>3, <1>4, <1>5, <1>6 DEF Text, W, s

(* A word, or a newline.                                                   *)
LEMMA WordKinds ==
    ASSUME NEW word \in WordType
    PROVE  /\ word.sym # <<>>
           /\ word.sym \in {<<"hash">>, <<"colon">>, <<"dot">>, <<"other">>, <<"newline">>}
              \/ IsName(word.sym) \/ IsNumber(word.sym)
           /\ word.sym = <<"newline">> => word = Newline
           /\ word.sym # <<"newline">> => word \in SourceWords
<1>1. <<"newline">> \notin {<<"hash">>, <<"colon">>, <<"dot">>, <<"other">>}
    OBVIOUS
<1>2. ~IsName(<<"newline">>) /\ ~IsNumber(<<"newline">>)
    BY DEF IsName, IsNumber, Lex!IsAlpha
<1>3. Newline.sym = <<"newline">>
    BY DEF Newline
<1> DEFINE K == {<<"hash">>, <<"colon">>, <<"dot">>, <<"other">>}
<1>4. \A sym \in K : sym # <<>>
    OBVIOUS
<1>5. \A sym : IsName(sym) \/ IsNumber(sym) => sym # <<>>
    BY DEF IsName, IsNumber
<1>6. word \in SourceWords => word.sym \in K \/ IsName(word.sym) \/ IsNumber(word.sym)
    BY WordAssumption
<1>7. word \in SourceWords \/ word = Newline
    BY DEF WordType
<1>8. <<"newline">> # <<>>
    OBVIOUS
<1>9. word.sym # <<>>
    BY <1>3, <1>4, <1>5, <1>6, <1>7, <1>8
<1>10. word.sym = <<"newline">> => word = Newline
    <2> HIDE DEF K
    <2>1. <<"newline">> \notin K
        BY <1>1 DEF K
    <2> QED BY <1>2, <1>6, <1>7, <2>1
<1>11. word.sym # <<"newline">> => word \in SourceWords
    BY <1>3, <1>7
<1>12. word.sym \in K \cup {<<"newline">>} \/ IsName(word.sym) \/ IsNumber(word.sym)
    <2> HIDE DEF K
    <2> QED BY <1>3, <1>6, <1>7
<1>13. K \cup {<<"newline">>} = {<<"hash">>, <<"colon">>, <<"dot">>, <<"other">>, <<"newline">>}
    OBVIOUS
<1> QED BY <1>9, <1>10, <1>11, <1>12, <1>13

LEMMA LinesHold ==
    ASSUME src \in Rendered
    PROVE  /\ NLines \in Nat /\ src.lines \in Seq(Seq(SourceWords)) /\ Fst \in [1..(NLines + 1) -> Nat]
           /\ Fst[1] = 1 /\ Fst[NLines + 1] = NWords + 1
           /\ \A k \in 1..NLines :
                 /\ Len(src.lines[k]) \in Nat /\ src.lines[k] \in Seq(SourceWords)
                 /\ Fst[k] \in Nat /\ Fst[k + 1] = LineStop(k) + 1 /\ LineStop(k) = Fst[k] + Len(src.lines[k])
                 /\ src.begin[k] = Plc[Fst[k]]
                 /\ \A i \in 1..Len(src.lines[k]) : Wrd[Fst[k] + (i - 1)] = src.lines[k][i]
                 /\ Wrd[LineStop(k)] = Newline
<1> DEFINE L == Len(src.lines)
<1>1. LinesLaid(src, Wrd, Plc, Fst)
    BY LayoutIs
<1> HIDE DEF L
<1>2. /\ src.lines \in Seq(Seq(SourceWords)) /\ Fst \in [1..(L + 1) -> Nat]
      /\ Fst[1] = 1 /\ Fst[L + 1] = NWords + 1
      /\ \A k \in 1..L :
            /\ Fst[k + 1] = Fst[k] + (Len(src.lines[k]) + 1)
            /\ src.begin[k] = Plc[Fst[k]]
            /\ \A i \in 0..(Len(src.lines[k]) - 1) : Wrd[Fst[k] + i] = src.lines[k][i + 1]
            /\ Wrd[Fst[k] + Len(src.lines[k])] = Newline
    BY <1>1 DEF LinesLaid, L, NWords
<1>3. L \in Nat /\ \A k \in 1..L : src.lines[k] \in Seq(SourceWords)
    BY <1>2 DEF L
<1>4. \A k \in 1..L : Len(src.lines[k]) \in Nat
    BY <1>3
<1>5. \A k \in 1..L : Fst[k] \in Nat
    <2>1. \A k \in 1..L : k \in 1..(L + 1)
        BY <1>3
    <2> QED BY <1>2, <2>1
<1>6. \A k : LineStop(k) = Fst[k] + Len(src.lines[k])
    BY DEF LineStop
<1>7. ASSUME NEW k \in 1..L PROVE Fst[k + 1] = LineStop(k) + 1 /\ Wrd[LineStop(k)] = Newline
    <2>1. Fst[k + 1] = Fst[k] + (Len(src.lines[k]) + 1) /\ LineStop(k) = Fst[k] + Len(src.lines[k])
        BY <1>2, <1>6
    <2>2. Fst[k] \in Nat /\ Len(src.lines[k]) \in Nat
        BY <1>4, <1>5
    <2>3. Fst[k + 1] = LineStop(k) + 1
        BY ONLY <2>1, <2>2
    <2> QED BY <1>2, <2>1, <2>3
<1>8. ASSUME NEW k \in 1..L, NEW i \in 1..Len(src.lines[k]) PROVE Wrd[Fst[k] + (i - 1)] = src.lines[k][i]
    <2>1. Len(src.lines[k]) \in Nat
        BY <1>4
    <2>2. i - 1 \in 0..(Len(src.lines[k]) - 1) /\ (i - 1) + 1 = i
        BY <2>1
    <2> QED BY <1>2, <2>2
<1> QED BY <1>2, <1>3, <1>4, <1>5, <1>6, <1>7, <1>8 DEF NLines, L

LEMMA Rising ==
    ASSUME NEW m \in Nat, NEW f \in [1..(m + 1) -> Nat], \A i \in 1..m : f[i] < f[i + 1],
           NEW i \in 1..m, NEW j \in (i + 1)..(m + 1)
    PROVE  f[i + 1] <= f[j]
<1> DEFINE T == {k \in (i + 1)..(m + 1) : f[k] < f[i + 1]}
<1> SUFFICES ASSUME T # {} PROVE FALSE
    <2>1. i + 1 \in 1..(m + 1) /\ j \in 1..(m + 1)
        OBVIOUS
    <2>2. f[i + 1] \in Nat /\ f[j] \in Nat
        BY <2>1
    <2>3. ASSUME f[j] < f[i + 1] PROVE FALSE
        <3>1. j \in T
            BY <2>3
        <3>2. T # {}
            BY <3>1
        <3> HIDE DEF T
        <3> QED BY <3>2
    <2> QED BY <2>2, <2>3
<1>1. PICK k \in T : \A l \in T : k <= l
    <2>1. T \in SUBSET Nat
        OBVIOUS
    <2> HIDE DEF T
    <2> QED BY <2>1, LeastNumber
<1>2. k \in (i + 1)..(m + 1) /\ f[k] < f[i + 1]
    BY <1>1
<1>3. i + 1 \in 1..(m + 1) /\ k \in 1..(m + 1) /\ f[i + 1] \in Nat /\ f[k] \in Nat
    OBVIOUS
<1>4. k # i + 1
    BY <1>2, <1>3
<1>5. k - 1 \in (i + 1)..(m + 1) /\ k - 1 \in 1..m /\ k - 1 < k /\ (k - 1) + 1 = k /\ k - 1 \in 1..(m + 1)
    BY <1>2, <1>4
<1>6. k - 1 \notin T
    <2> HIDE DEF T
    <2> QED BY <1>1, <1>3, <1>5
<1>7. f[k - 1] < f[k] /\ f[k - 1] \in Nat
    BY <1>5
<1> QED BY <1>2, <1>3, <1>5, <1>6, <1>7

LEMMA Located ==
    ASSUME NEW m \in Nat, NEW f \in [1..(m + 1) -> Nat], NEW x \in Nat, f[1] <= x, x < f[m + 1]
    PROVE  \E i \in 1..m : f[i] <= x /\ x < f[i + 1]
<1> DEFINE T == {k \in 1..(m + 1) : x < f[k]}
<1>1. PICK k \in T : \A l \in T : k <= l
    <2>1. T \in SUBSET Nat
        OBVIOUS
    <2>2. m + 1 \in T
        OBVIOUS
    <2> HIDE DEF T
    <2> QED BY <2>1, <2>2, LeastNumber
<1>2. k \in 1..(m + 1) /\ x < f[k]
    BY <1>1
<1>3. k # 1
    <2>1. f[1] \in Nat /\ f[k] \in Nat
        BY <1>2
    <2> QED BY <1>2, <2>1
<1>4. k - 1 \in 1..(m + 1) /\ k - 1 \in 1..m /\ k - 1 < k /\ (k - 1) + 1 = k
    BY <1>2, <1>3
<1>5. k - 1 \notin T
    <2> HIDE DEF T
    <2> QED BY <1>1, <1>2, <1>4
<1>6. f[k - 1] <= x
    <2>1. f[k - 1] \in Nat /\ ~(x < f[k - 1])
        BY <1>4, <1>5
    <2> QED BY <2>1
<1> QED BY <1>2, <1>4, <1>6

LEMMA MeantIs ==
    ASSUME NEW line \in Seq(SourceWords)
    PROVE  LET m == Len(Meant(line)) IN
           /\ m \in 0..Len(line) /\ Meant(line) \in Seq(SourceWords)
           /\ \A i \in 1..m : Meant(line)[i] = line[i] /\ line[i].sym # <<"hash">>
           /\ m < Len(line) => line[m + 1].sym = <<"hash">>
<1> DEFINE N == Len(line)
           T == {i \in 1..(N + 1) : i = N + 1 \/ line[i].sym = <<"hash">>}
           I == {i \in DOMAIN line : \A j \in 1..i : line[j].sym # <<"hash">>}
<1>1. N \in Nat /\ DOMAIN line = 1..N
    OBVIOUS
<1>2. PICK k \in T : \A l \in T : k <= l
    <2>1. T \in SUBSET Nat
        OBVIOUS
    <2>2. N + 1 \in T
        BY <1>1
    <2> HIDE DEF T
    <2> QED BY <2>1, <2>2, LeastNumber
<1>3. k \in 1..(N + 1) /\ (k = N + 1 \/ line[k].sym = <<"hash">>)
    BY <1>2
<1>4. \A i \in 1..(k - 1) : line[i].sym # <<"hash">>
    <2> SUFFICES ASSUME NEW i \in 1..(k - 1), line[i].sym = <<"hash">> PROVE FALSE
        OBVIOUS
    <2>1. i \in T
        BY <1>1, <1>3
    <2> HIDE DEF T
    <2> QED BY <1>2, <1>3, <2>1
<1> DEFINE m == k - 1
<1>5. m \in 0..N /\ m \in Nat
    BY <1>1, <1>3
<1>6. I = 1..m
    <2>1. ASSUME NEW i \in 1..m PROVE i \in I
        <3>1. i \in 1..N /\ \A j \in 1..i : j \in 1..(k - 1)
            BY <1>1, <1>3
        <3> QED BY <1>1, <1>4, <3>1
    <2>2. ASSUME NEW i \in I PROVE i \in 1..m
        <3>1. i \in 1..N /\ \A j \in 1..i : line[j].sym # <<"hash">>
            BY <1>1
        <3>2. i < k
            <4> SUFFICES ASSUME k <= i PROVE FALSE
                BY <1>3, <3>1
            <4>1. k \in 1..i /\ k # N + 1
                BY <1>1, <1>3, <3>1
            <4> QED BY <1>3, <3>1, <4>1
        <3> QED BY <1>3, <3>1, <3>2
    <2> HIDE DEF I, m
    <2> QED BY <2>1, <2>2
<1>7. Cardinality(I) = m
    <2>1. Cardinality(1..m) = IF 1 > m THEN 0 ELSE (m - 1) + 1
        BY <1>5, FS_Interval
    <2> HIDE DEF I
    <2> QED BY <1>5, <1>6, <2>1
<1>8. Meant(line) = SubSeq(line, 1, m)
    <2> HIDE DEF m
    <2> QED BY <1>7 DEF Meant
<1> HIDE DEF m
<1>9. Len(SubSeq(line, 1, m)) = m /\ SubSeq(line, 1, m) \in Seq(SourceWords) /\ \A i \in 1..m : SubSeq(line, 1, m)[i] = line[i]
    BY <1>1, <1>5
<1>10. \A i \in 1..m : line[i].sym # <<"hash">>
    BY <1>4 DEF m
<1>11. m < N => line[m + 1].sym = <<"hash">>
    BY <1>1, <1>3, <1>5 DEF m
<1> QED BY <1>5, <1>8, <1>9, <1>10, <1>11

LEMMA LineFacts ==
    ASSUME src \in Rendered, NEW j \in 1..NLines
    PROVE  /\ Fst[j] \in 1..NWords /\ LineStop(j) \in Fst[j]..NWords /\ MeanEnd(j) \in Fst[j]..LineStop(j)
           /\ Fst[j + 1] = LineStop(j) + 1 /\ Fst[j] < Fst[j + 1]
           /\ src.begin[j] = Plc[Fst[j]] /\ Wrd[LineStop(j)] = Newline
           /\ \A a \in Fst[j]..(LineStop(j) - 1) : Wrd[a] \in SourceWords
           /\ MeanEnd(j) = Fst[j] + Len(Meant(src.lines[j])) /\ Len(Meant(src.lines[j])) \in Nat
           /\ Meant(src.lines[j]) \in Seq(SourceWords)
           /\ \A i \in 1..Len(Meant(src.lines[j])) :
                 /\ Fst[j] + (i - 1) \in Fst[j]..(MeanEnd(j) - 1)
                 /\ Wrd[Fst[j] + (i - 1)] = Meant(src.lines[j])[i]
           /\ \A a \in Fst[j]..(MeanEnd(j) - 1) : Wrd[a] \in SourceWords /\ Wrd[a].sym # <<"hash">>
           /\ MeanEnd(j) # LineStop(j) => Wrd[MeanEnd(j)].sym = <<"hash">>
<1> DEFINE line == src.lines[j]
           n == Len(line)
           m == Len(Meant(line))
           f == Fst[j]
<1>1. /\ NLines \in Nat /\ n \in Nat /\ line \in Seq(SourceWords)
      /\ f \in Nat /\ Fst[j + 1] = LineStop(j) + 1 /\ LineStop(j) = f + n
      /\ src.begin[j] = Plc[f] /\ \A i \in 1..n : Wrd[f + (i - 1)] = line[i]
      /\ Wrd[LineStop(j)] = Newline
    BY LinesHold
<1>2. /\ m \in 0..n /\ Meant(line) \in Seq(SourceWords)
      /\ \A i \in 1..m : Meant(line)[i] = line[i] /\ line[i].sym # <<"hash">>
      /\ m < n => line[m + 1].sym = <<"hash">>
    BY <1>1, MeantIs
<1>3. MeanEnd(j) = f + m
    BY DEF MeanEnd
<1>4. f \in 1..NWords /\ LineStop(j) <= NWords
    <2>1. Fst \in [1..(NLines + 1) -> Nat] /\ Fst[1] = 1 /\ Fst[NLines + 1] = NWords + 1
          /\ \A k \in 1..NLines : Fst[k + 1] = LineStop(k) + 1 /\ LineStop(k) = Fst[k] + Len(src.lines[k])
                                  /\ Len(src.lines[k]) \in Nat /\ Fst[k] \in Nat
        BY LinesHold
    <2>2. \A k \in 1..NLines : Fst[k] < Fst[k + 1]
        BY <2>1
    <2>3. NWords \in Nat
        BY TextHolds DEF Text
    <2>4. j = 1 \/ (j - 1 \in 1..NLines /\ (j - 1) + 1 = j)
        BY <1>1
    <2>5. f >= 1
        <3>1. CASE j = 1
            BY <2>1, <3>1
        <3>2. CASE j # 1
            <4>1. Fst[j - 1] < Fst[(j - 1) + 1] /\ (j - 1) + 1 = j /\ Fst[j - 1] \in Nat
                BY <2>1, <2>2, <2>4, <3>2
            <4>2. Fst[j - 1] < f
                BY <4>1
            <4> HIDE DEF f
            <4> QED BY <1>1, <4>1, <4>2
        <3> QED BY <3>1, <3>2
    <2>6. NLines + 1 \in (j + 1)..(NLines + 1)
        BY <1>1
    <2>7. Fst[j + 1] <= Fst[NLines + 1]
        BY <1>1, <2>1, <2>2, <2>6, Rising
    <2> HIDE DEF f, n
    <2> QED BY <1>1, <2>1, <2>3, <2>5, <2>7
<1> HIDE DEF line, n, m, f
<1>5. ASSUME NEW a \in f..((f + n) - 1) PROVE a - f + 1 \in 1..n /\ Wrd[a] = line[a - f + 1]
    <2>1. a - f + 1 \in 1..n /\ f + ((a - f + 1) - 1) = a
        BY ONLY <1>1, <1>5
    <2> QED BY <1>1, <2>1
<1>6. \A a \in f..((f + n) - 1) : Wrd[a] \in SourceWords
    <2> SUFFICES ASSUME NEW a \in f..((f + n) - 1) PROVE Wrd[a] \in SourceWords
        OBVIOUS
    <2>1. a - f + 1 \in 1..n /\ Wrd[a] = line[a - f + 1]
        BY <1>5
    <2>2. \A i \in 1..Len(line) : line[i] \in SourceWords
        BY <1>1
    <2> QED BY <2>1, <2>2 DEF n
<1>7. ASSUME NEW i \in 1..m
      PROVE  /\ f + (i - 1) \in f..((f + m) - 1) /\ i \in 1..n
             /\ Wrd[f + (i - 1)] = Meant(line)[i]
    <2>1. f + (i - 1) \in f..((f + m) - 1) /\ i \in 1..n
        BY ONLY <1>1, <1>2, <1>7
    <2> QED BY <1>1, <1>2, <2>1
<1>8. ASSUME NEW a \in f..((f + m) - 1)
      PROVE  Wrd[a] \in SourceWords /\ Wrd[a].sym # <<"hash">>
    <2>1. a - f + 1 \in 1..m /\ a \in f..((f + n) - 1)
        BY ONLY <1>1, <1>2, <1>8
    <2>2. Wrd[a] = line[a - f + 1]
        BY <1>5, <2>1
    <2> QED BY <1>2, <1>6, <2>1, <2>2
<1>9. m < n => Wrd[f + m].sym = <<"hash">>
    <2> SUFFICES ASSUME m < n PROVE Wrd[f + m].sym = <<"hash">>
        OBVIOUS
    <2>1. f + m \in f..((f + n) - 1) /\ (f + m) - f + 1 = m + 1
        BY ONLY <1>1, <1>2, m < n
    <2>2. Wrd[f + m] = line[(f + m) - f + 1]
        BY <1>5, <2>1
    <2> QED BY <1>2, <2>1, <2>2
<1>10. /\ LineStop(j) \in f..NWords /\ f + m \in f..LineStop(j) /\ f < Fst[j + 1] /\ m \in Nat
       /\ f + m # LineStop(j) => m < n
    BY ONLY <1>1, <1>2, <1>4
<1>11. \A a \in f..(LineStop(j) - 1) : Wrd[a] \in SourceWords
    BY <1>1, <1>6
<1> QED BY <1>1, <1>2, <1>3, <1>4, <1>7, <1>8, <1>9, <1>10, <1>11 DEF line, n, m, f

LEMMA LinesRise ==
    ASSUME src \in Rendered, NEW i \in 1..NLines, NEW j \in 1..NLines
    PROVE  i < j => LineStop(i) < Fst[j]
<1> SUFFICES ASSUME i < j PROVE LineStop(i) < Fst[j]
    OBVIOUS
<1>1. NLines \in Nat /\ Fst \in [1..(NLines + 1) -> Nat]
    BY LinesHold
<1>2. \A k \in 1..NLines : Fst[k] < Fst[k + 1]
    BY LineFacts
<1>3. j \in (i + 1)..(NLines + 1)
    BY <1>1
<1>4. Fst[i + 1] <= Fst[j]
    BY <1>1, <1>2, <1>3, Rising
<1>5. Fst[i + 1] = LineStop(i) + 1 /\ LineStop(i) \in Nat /\ Fst[j] \in Nat
    <2>1. Fst[i] \in 1..NWords /\ LineStop(i) \in Fst[i]..NWords /\ Fst[j] \in 1..NWords /\ Fst[i + 1] = LineStop(i) + 1
        BY LineFacts
    <2> QED BY <2>1
<1> QED BY <1>4, <1>5

LEMMA OneLine ==
    ASSUME src \in Rendered, NEW i \in 1..NLines, NEW j \in 1..NLines,
           NEW a \in Fst[i]..LineStop(i), a \in Fst[j]..LineStop(j)
    PROVE  i = j
<1>1. NLines \in Nat
    BY LinesHold
<1>2. /\ Fst[i] \in 1..NWords /\ LineStop(i) \in Fst[i]..NWords
      /\ Fst[j] \in 1..NWords /\ LineStop(j) \in Fst[j]..NWords
    BY LineFacts
<1>3. (i < j => LineStop(i) < Fst[j]) /\ (j < i => LineStop(j) < Fst[i])
    BY LinesRise
<1> QED BY <1>1, <1>2, <1>3

LEMMA LineOf ==
    ASSUME src \in Rendered, NEW n \in 1..NWords
    PROVE  \E j \in 1..NLines : n \in Fst[j]..LineStop(j)
<1>1. NLines \in Nat /\ Fst \in [1..(NLines + 1) -> Nat] /\ Fst[1] = 1 /\ Fst[NLines + 1] = NWords + 1
    BY LinesHold
<1>2. NWords \in Nat /\ n \in Nat
    BY TextHolds DEF Text
<1>3. Fst[1] <= n /\ n < Fst[NLines + 1]
    BY <1>1, <1>2
<1>4. PICK j \in 1..NLines : Fst[j] <= n /\ n < Fst[j + 1]
    BY ONLY <1>1, <1>2, <1>3, Located
<1>5. Fst[j] \in 1..NWords /\ LineStop(j) \in Fst[j]..NWords /\ Fst[j + 1] = LineStop(j) + 1
    BY LineFacts
<1>6. n \in Fst[j]..LineStop(j)
    BY <1>2, <1>4, <1>5
<1> QED BY <1>6

LEMMA PlacesRise ==
    ASSUME src \in Rendered
    PROVE  /\ NWords \in Nat /\ \A n \in 1..(NWords + 1) : Plc[n] \in 1..(Len(src.text) + 1)
           /\ \A m \in 1..NWords : \A n \in 1..(NWords + 1) :
                 m < n => (Plc[m] + Size(m)) + 1 <= Plc[n]
<1>1. /\ NWords \in Nat /\ Plc \in [1..(NWords + 1) -> Nat] /\ Plc[1] = 1
      /\ Len(src.text) + 1 = Plc[NWords + 1]
      /\ \A n \in 1..NWords : Size(n) \in Nat /\ Plc[n + 1] = Plc[n] + (Size(n) + 1)
    BY TextHolds DEF Text
<1>2. \A n \in 1..NWords : n \in 1..(NWords + 1) /\ Plc[n] \in Nat
    BY <1>1
<1>3. \A n \in 1..NWords : Plc[n] < Plc[n + 1]
    BY <1>1, <1>2
<1>4. ASSUME NEW m \in 1..NWords, NEW n \in 1..(NWords + 1), m < n
      PROVE  (Plc[m] + Size(m)) + 1 <= Plc[n]
    <2>1. n \in (m + 1)..(NWords + 1)
        BY <1>1, <1>4
    <2>2. Plc[m + 1] <= Plc[n]
        BY <1>1, <1>3, <2>1, Rising
    <2>3. Plc[m + 1] = Plc[m] + (Size(m) + 1) /\ Plc[m] \in Nat /\ Size(m) \in Nat /\ Plc[n] \in Nat
        BY <1>1, <1>2
    <2> QED BY ONLY <2>2, <2>3
<1>5. ASSUME NEW n \in 1..(NWords + 1) PROVE Plc[n] >= 1
    <2>1. CASE n = 1
        BY <1>1, <2>1
    <2>2. CASE n # 1
        <3>1. 1 \in 1..NWords /\ 1 < n
            BY <1>1, <2>2
        <3>2. (Plc[1] + Size(1)) + 1 <= Plc[n] /\ Size(1) \in Nat /\ Plc[n] \in Nat
            BY <1>1, <1>4, <3>1
        <3> QED BY <1>1, <3>2
    <2> QED BY <2>1, <2>2
<1>6. ASSUME NEW n \in 1..(NWords + 1) PROVE Plc[n] <= Plc[NWords + 1]
    <2>1. CASE n = NWords + 1
        BY <1>1, <2>1
    <2>2. CASE n # NWords + 1
        <3>1. n \in 1..NWords /\ n < NWords + 1 /\ NWords + 1 \in 1..(NWords + 1)
            BY <1>1, <2>2
        <3>2. (Plc[n] + Size(n)) + 1 <= Plc[NWords + 1] /\ Size(n) \in Nat /\ Plc[n] \in Nat /\ Plc[NWords + 1] \in Nat
            BY <1>1, <1>4, <3>1
        <3> QED BY <3>2
    <2> QED BY <2>1, <2>2
<1>7. \A n \in 1..(NWords + 1) : Plc[n] \in 1..Plc[NWords + 1]
    <2>1. NWords + 1 \in 1..(NWords + 1)
        BY <1>1
    <2>2. Plc[NWords + 1] \in Nat
        BY <1>1, <2>1
    <2> QED BY <1>1, <1>5, <1>6, <2>2
<1> QED BY <1>1, <1>4, <1>7

LEMMA PlaceOf ==
    ASSUME src \in Rendered, NEW q \in 1..Len(src.text)
    PROVE  \E n \in 1..NWords : q \in Plc[n]..(Plc[n] + Size(n))
<1>1. /\ NWords \in Nat /\ Plc \in [1..(NWords + 1) -> Nat] /\ Plc[1] = 1
      /\ Len(src.text) + 1 = Plc[NWords + 1]
      /\ \A n \in 1..NWords : Size(n) \in Nat /\ Plc[n + 1] = Plc[n] + (Size(n) + 1)
      /\ src.text \in Seq(LexP!Classes)
    BY TextHolds DEF Text
<1>2. Len(src.text) \in Nat /\ q \in Nat
    BY <1>1
<1>3. Plc[1] <= q /\ q < Plc[NWords + 1]
    BY <1>1, <1>2
<1>4. PICK n \in 1..NWords : Plc[n] <= q /\ q < Plc[n + 1]
    BY ONLY <1>1, <1>2, <1>3, Located
<1>5. Plc[n] \in Nat /\ Size(n) \in Nat /\ Plc[n + 1] = Plc[n] + (Size(n) + 1)
    <2>1. n \in 1..(NWords + 1)
        BY <1>1
    <2> QED BY <1>1, <2>1
<1>6. q \in Plc[n]..(Plc[n] + Size(n))
    BY ONLY <1>2, <1>4, <1>5
<1> QED BY <1>6

(* The characters of a word.                                               *)
LEMMA WordChars ==
    ASSUME NEW word \in WordType
    PROVE  /\ Len(word.sym) \in Nat \ {0}
           /\ word \in SourceWords => \A i \in 1..Len(word.sym) : word.sym[i] \notin {"newline", "blank", "return", "end"}
           /\ \A i \in 1..Len(word.sym) : word.sym[i] = "hash" => word.sym = <<"hash">>
           /\ \A i \in 1..Len(word.sym) : word.sym[i] # "blank" /\ word.sym[i] # "end"
           /\ \A i \in 1..Len(word.sym) : word.sym[i] = "newline" => word.sym = <<"newline">>
           /\ word.sym = <<"newline">> <=> word \notin SourceWords
<1> DEFINE sym == word.sym
           K == {<<"hash">>, <<"colon">>, <<"dot">>, <<"other">>}
<1>1. sym \in Seq(Lex!Classes) /\ Len(sym) \in Nat
    BY WordIs
<1>2. word \in SourceWords => sym \in K \/ IsName(sym) \/ IsNumber(sym)
    BY WordAssumption
<1>3. sym # <<>> /\ (word \notin SourceWords => sym = <<"newline">>)
    BY WordKinds DEF WordType, Newline
<1> HIDE DEF sym
<1>4. ASSUME sym \in K
      PROVE  \A i \in 1..Len(sym) : sym[i] \notin {"newline", "blank", "return", "end"} /\ (sym[i] = "hash" => sym = <<"hash">>)
    <2>1. \A x \in K : Len(x) = 1 /\ x[1] \in {"hash", "colon", "dot", "other"} /\ (x[1] = "hash" => x = <<"hash">>)
        OBVIOUS
    <2> HIDE DEF K
    <2>2. Len(sym) = 1 /\ sym[1] \in {"hash", "colon", "dot", "other"} /\ (sym[1] = "hash" => sym = <<"hash">>)
        BY <1>4, <2>1
    <2>3. \A i \in 1..Len(sym) : i = 1
        BY <2>2
    <2> QED BY <2>2, <2>3
<1>5. ASSUME IsName(sym)
      PROVE  \A i \in 1..Len(sym) : sym[i] \in {"letter", "exp", "digit"}
    <2>1. \A i \in 1..Len(sym) : sym[i] \in ToSet(sym)
        BY <1>1 DEF ToSet
    <2>2. ToSet(sym) \subseteq Lex!Word
        BY <1>5 DEF IsName
    <2>3. Lex!Word = {"letter", "exp", "digit"}
        BY DEF Lex!Word, Lex!IsAlpha
    <2> QED BY <2>1, <2>2, <2>3
<1>6. ASSUME IsNumber(sym)
      PROVE  \A i \in 1..Len(sym) : sym[i] \in {"digit", "sign", "dot"}
    <2>1. sym[1] \in {"digit", "sign"} /\ \A i \in 2..Len(sym) : sym[i] \in {"digit", "dot"}
        BY <1>6 DEF IsNumber
    <2>2. \A i \in 1..Len(sym) : i = 1 \/ i \in 2..Len(sym)
        BY <1>1
    <2> QED BY <2>1, <2>2
<1> HIDE DEF K
<1>7. word \in SourceWords =>
        \A i \in 1..Len(sym) : sym[i] \notin {"newline", "blank", "return", "end"} /\ (sym[i] = "hash" => sym = <<"hash">>)
    BY <1>2, <1>4, <1>5, <1>6
<1>8. Len(sym) # 0
    BY <1>1, <1>3
<1>9. ASSUME sym = <<"newline">> PROVE Len(sym) = 1 /\ sym[1] = "newline"
    BY <1>9
<1>10. word \in SourceWords => sym # <<"newline">>
    <2>1. 1 \in 1..Len(sym)
        BY <1>1, <1>8
    <2> QED BY <1>7, <1>9, <2>1
<1>11. word \notin SourceWords =>
        \A i \in 1..Len(sym) : sym[i] = "newline" /\ sym = <<"newline">>
    <2> SUFFICES ASSUME word \notin SourceWords PROVE \A i \in 1..Len(sym) : sym[i] = "newline" /\ sym = <<"newline">>
        OBVIOUS
    <2>1. sym = <<"newline">> /\ Len(sym) = 1 /\ sym[1] = "newline"
        BY <1>3, <1>9
    <2>2. \A i \in 1..Len(sym) : i = 1
        BY <2>1
    <2> QED BY <2>1, <2>2
<1>12. \A i \in 1..Len(sym) : /\ sym[i] = "hash" => sym = <<"hash">>
                              /\ sym[i] # "blank" /\ sym[i] # "end"
                              /\ sym[i] = "newline" => sym = <<"newline">>
    BY <1>7, <1>11
<1> QED BY <1>1, <1>3, <1>7, <1>8, <1>10, <1>12 DEF sym

LEMMA CharIs ==
    ASSUME src \in Rendered, NEW n \in 1..NWords
    PROVE  /\ Size(n) \in Nat \ {0} /\ Wrd[n] \in WordType
           /\ \A i \in 0..Size(n) : Plc[n] + i \in 1..Len(src.text)
           /\ \A i \in 0..(Size(n) - 1) :
                 /\ i + 1 \in 1..Len(Wrd[n].sym)
                 /\ LexP!Sym(src.text, Plc[n] + i) = Wrd[n].sym[i + 1] /\ src.at[Plc[n] + i] = Wrd[n]
                 /\ LexP!Sym(src.text, Plc[n] + i) \notin {"blank", "end"}
           /\ LexP!Sym(src.text, Plc[n] + Size(n)) = "blank"
<1>1. /\ NWords \in Nat /\ Plc[n] \in 1..(Len(src.text) + 1) /\ Plc[NWords + 1] = Len(src.text) + 1
      /\ src.text \in Seq(LexP!Classes)
      /\ Wrd[n] \in WordType
      /\ Plc[n + 1] = Plc[n] + (Size(n) + 1)
      /\ src.text[Plc[n] + Size(n)] = "blank"
      /\ \A i \in 0..(Size(n) - 1) : src.text[Plc[n] + i] = Wrd[n].sym[i + 1] /\ src.at[Plc[n] + i] = Wrd[n]
    <2>1. n \in 1..(NWords + 1)
        BY PlacesRise
    <2> QED BY <2>1, PlacesRise, TextHolds DEF Text
<1>2. Size(n) \in Nat \ {0}
    BY <1>1, WordChars DEF Size
<1>3. (Plc[n] + Size(n)) + 1 <= Len(src.text) + 1
    <2>1. NWords + 1 \in 1..(NWords + 1) /\ n < NWords + 1
        BY <1>1
    <2> QED BY <1>1, <2>1, PlacesRise
<1>4. Len(src.text) \in Nat
    BY <1>1
<1> DEFINE z == Size(n)
           p == Plc[n]
           m == Len(src.text)
<1>5. z = Len(Wrd[n].sym)
    BY DEF Size
<1> HIDE DEF z, p, m
<1>6. \A i \in 0..z : p + i \in 1..m
    <2>1. p \in 1..(m + 1) /\ z \in Nat /\ m \in Nat /\ (p + z) + 1 <= m + 1
        BY <1>1, <1>2, <1>3, <1>4 DEF z, p, m
    <2> QED BY ONLY <2>1
<1>7. \A q \in 1..m : LexP!Sym(src.text, q) = src.text[q]
    BY <1>1, LexP!SymIs DEF m
<1>8. \A i \in 0..(z - 1) : i + 1 \in 1..z /\ i \in 0..z
    BY <1>2 DEF z
<1>9. z \in 0..z
    BY <1>2 DEF z
<1>10. \A i \in 1..z : Wrd[n].sym[i] # "blank" /\ Wrd[n].sym[i] # "end"
    BY <1>1, <1>5, WordChars
<1>11. ASSUME NEW i \in 0..(z - 1)
       PROVE  /\ i + 1 \in 1..z
              /\ LexP!Sym(src.text, p + i) = Wrd[n].sym[i + 1] /\ src.at[p + i] = Wrd[n]
              /\ LexP!Sym(src.text, p + i) \notin {"blank", "end"}
    <2>1. p + i \in 1..m /\ i + 1 \in 1..z
        BY <1>6, <1>8
    <2>2. src.text[p + i] = Wrd[n].sym[i + 1] /\ src.at[p + i] = Wrd[n]
        BY <1>1 DEF z, p
    <2> QED BY <1>7, <1>10, <2>1, <2>2
<1>12. LexP!Sym(src.text, p + z) = "blank"
    <2>1. p + z \in 1..m
        BY <1>6, <1>9
    <2> QED BY <1>1, <1>7, <2>1 DEF z, p
<1> QED BY <1>1, <1>2, <1>5, <1>6, <1>11, <1>12 DEF z, p, m

(* Which word a character of some kind is of.                              *)
LEMMA CharOf ==
    ASSUME src \in Rendered, NEW q \in 1..Len(src.text)
    PROVE  \E n \in 1..NWords :
              /\ q \in Plc[n]..(Plc[n] + Size(n))
              /\ LexP!Sym(src.text, q) = "hash" => q = Plc[n] /\ Wrd[n].sym = <<"hash">>
              /\ LexP!Sym(src.text, q) = "newline" => q = Plc[n] /\ Wrd[n].sym = <<"newline">>
              /\ LexP!Sym(src.text, q) # "blank" => q \in Plc[n]..(Plc[n] + Size(n) - 1)
<1>1. PICK n \in 1..NWords : q \in Plc[n]..(Plc[n] + Size(n))
    BY PlaceOf
<1>2. NWords \in Nat /\ Plc[n] \in Nat
    <2>1. n \in 1..(NWords + 1)
        BY PlacesRise
    <2> QED BY <2>1, PlacesRise
<1>3. /\ Size(n) \in Nat \ {0} /\ Wrd[n] \in WordType
      /\ \A i \in 0..(Size(n) - 1) :
            i + 1 \in 1..Len(Wrd[n].sym) /\ LexP!Sym(src.text, Plc[n] + i) = Wrd[n].sym[i + 1]
      /\ LexP!Sym(src.text, Plc[n] + Size(n)) = "blank"
    BY CharIs
<1> DEFINE i == q - Plc[n]
           z == Size(n)
<1>4. i \in 0..z /\ q = Plc[n] + i
    <2>1. z \in Nat
        BY <1>3
    <2> HIDE DEF z
    <2>2. q \in Plc[n]..(Plc[n] + z)
        BY <1>1 DEF z
    <2> QED BY <1>2, <2>1, <2>2
<1>5. z = Len(Wrd[n].sym)
    BY DEF Size
<1> HIDE DEF i, z
<1>6. LexP!Sym(src.text, q) # "blank" => i \in 0..(z - 1)
    <2>1. i = z => LexP!Sym(src.text, q) = "blank"
        BY <1>3, <1>4 DEF z
    <2>2. z \in Nat /\ i \in 0..z
        BY <1>3, <1>4 DEF z
    <2>3. i # z => i \in 0..(z - 1)
        BY ONLY <2>2
    <2> QED BY <2>1, <2>3
<1>7. i \in 0..(z - 1) => i + 1 \in 1..z /\ LexP!Sym(src.text, q) = Wrd[n].sym[i + 1]
    BY <1>3, <1>4, <1>5 DEF z
<1>8. \A sym \in {"hash", "newline"} : LexP!Sym(src.text, q) = sym => q = Plc[n] /\ Wrd[n].sym = <<sym>>
    <2> SUFFICES ASSUME NEW sym \in {"hash", "newline"}, LexP!Sym(src.text, q) = sym
                 PROVE  q = Plc[n] /\ Wrd[n].sym = <<sym>>
        OBVIOUS
    <2>1. i \in 0..(z - 1) /\ i + 1 \in 1..z /\ Wrd[n].sym[i + 1] = sym
        BY <1>6, <1>7
    <2>2. Wrd[n].sym = <<sym>>
        BY <1>3, <1>5, <2>1, WordChars
    <2>3. Len(<<sym>>) = 1
        OBVIOUS
    <2>4. z = 1
        BY <1>5, <2>2, <2>3
    <2>5. q = Plc[n]
        BY ONLY <1>2, <1>4, <2>1, <2>4
    <2> QED BY <2>2, <2>5
<1>9. i \in 0..(z - 1) => q \in Plc[n]..(Plc[n] + z - 1)
    <2>1. z \in Nat /\ Plc[n] \in Nat /\ q = Plc[n] + i
        BY <1>2, <1>3, <1>4 DEF z
    <2> QED BY ONLY <2>1
<1> QED BY <1>1, <1>6, <1>8, <1>9 DEF z

(* The words that mean something; where the lexer may stand between calls; *)
(* and the word that is next for one that stands before word n.            *)
Means(a) == \E j \in 1..NLines : a \in Fst[j]..(MeanEnd(j) - 1)

Stops(n) == n = NWords + 1 \/ \E j \in 1..NLines : n \in Fst[j]..MeanEnd(j) \/ n = LineStop(j)

IsNext(n, a) ==
    /\ a \in n..(NWords + 1) /\ (a = NWords + 1 \/ Means(a))
    /\ \A m \in n..NWords : Means(m) => a <= m

Before(l, n) ==
    /\ l \in LexP!Lexers /\ l.source_ = src.text
    /\ n \in 1..(NWords + 1) /\ Stops(n)
    /\ l.curr_sym_ = Plc[n] \/ (n > 1 /\ l.curr_sym_ = Plc[n] - 1)

LEMMA MeansIs ==
    ASSUME src \in Rendered, NEW a, Means(a)
    PROVE  a \in 1..NWords /\ Wrd[a] \in SourceWords /\ Wrd[a].sym # <<"hash">> /\ Wrd[a].sym # <<"newline">>
<1>1. PICK j \in 1..NLines : a \in Fst[j]..(MeanEnd(j) - 1)
    BY DEF Means
<1>2. /\ Fst[j] \in 1..NWords /\ LineStop(j) \in Fst[j]..NWords /\ MeanEnd(j) \in Fst[j]..LineStop(j)
      /\ Wrd[a] \in SourceWords /\ Wrd[a].sym # <<"hash">>
    BY <1>1, LineFacts
<1>3. a \in 1..NWords
    <2>1. NWords \in Nat
        BY PlacesRise
    <2> QED BY ONLY <1>1, <1>2, <2>1
<1>4. Wrd[a].sym # <<"newline">>
    BY <1>2, WordChars DEF WordType
<1> QED BY <1>2, <1>3, <1>4

(* Where the lexer stands.                                                 *)
LEMMA BeforeIs ==
    ASSUME src \in Rendered, NEW l, NEW n, Before(l, n)
    PROVE  LET c == l.curr_sym_ IN
           /\ c \in 1..(Len(src.text) + 1) /\ c <= Plc[n] /\ Plc[n] <= c + 1
           /\ c # Plc[n] => n > 1 /\ c \in 1..Len(src.text) /\ LexP!Sym(src.text, c) = "blank"
<1> DEFINE c == l.curr_sym_
<1>1. c \in 1..(Len(src.text) + 1) /\ n \in 1..(NWords + 1) /\ (c = Plc[n] \/ (n > 1 /\ c = Plc[n] - 1))
    BY DEF Before, LexP!Lexers
<1>2. Plc[n] \in 1..(Len(src.text) + 1) /\ NWords \in Nat /\ Len(src.text) \in Nat
    BY <1>1, PlacesRise, TextHolds DEF Text
<1>3. c <= Plc[n] /\ Plc[n] <= c + 1
    BY <1>1, <1>2
<1>4. ASSUME c # Plc[n] PROVE n > 1 /\ c \in 1..Len(src.text) /\ LexP!Sym(src.text, c) = "blank"
    <2> DEFINE m == n - 1
    <2>1. n > 1 /\ c = Plc[n] - 1 /\ m \in 1..NWords /\ n = m + 1
        BY <1>1, <1>2, <1>4
    <2> HIDE DEF m
    <2>2. Plc[n] = Plc[m] + (Size(m) + 1) /\ Plc[m] \in Nat /\ Size(m) \in Nat
        <3>1. m \in 1..(NWords + 1)
            BY <1>2, <2>1
        <3> QED BY <2>1, <3>1, TextHolds DEF Text
    <2>3. c = Plc[m] + Size(m)
        BY <2>1, <2>2
    <2>4. LexP!Sym(src.text, Plc[m] + Size(m)) = "blank" /\ Plc[m] + Size(m) \in 1..Len(src.text)
        <3>1. Size(m) \in 0..Size(m)
            BY <2>2
        <3> QED BY <2>1, <3>1, CharIs
    <2> QED BY <2>1, <2>3, <2>4
<1> QED BY <1>1, <1>3, <1>4

(* The lexer passes to the beginning of a word or to the end.              *)
LEMMA PassToWord ==
    ASSUME src \in Rendered, NEW l, NEW n, Before(l, n)
    PROVE  \E a \in n..(NWords + 1) : LexP!pass_blanks(l).curr_sym_ = Plc[a]
<1> DEFINE s == src.text
           c == l.curr_sym_
           b == LexP!pass_blanks(l).curr_sym_
<1>1. /\ l \in LexP!Lexers /\ l.source_ = s /\ n \in 1..(NWords + 1)
      /\ c \in 1..(Len(s) + 1) /\ c <= Plc[n] /\ Plc[n] <= c + 1
      /\ c # Plc[n] => n > 1 /\ c \in 1..Len(s) /\ LexP!Sym(s, c) = "blank"
    BY BeforeIs DEF Before
<1>2. /\ b \in c..(Len(s) + 1)
      /\ \A q \in c..(b - 1) : LexP!IsPassed(s, c, q)
      /\ ~LexP!IsPassed(s, c, b)
    BY <1>1, LexP!BlanksPass
<1>3. NWords \in Nat /\ Len(s) \in Nat /\ s \in Seq(LexP!Classes) /\ Plc[NWords + 1] = Len(s) + 1
      /\ \A a \in 1..(NWords + 1) : Plc[a] \in 1..(Len(s) + 1)
    BY PlacesRise, TextHolds DEF Text
<1> HIDE DEF s, c, b
<1>4. CASE b = Len(s) + 1
    <2>1. NWords + 1 \in n..(NWords + 1)
        BY <1>1, <1>3
    <2> QED BY <1>3, <1>4, <2>1 DEF b
<1>5. CASE b # Len(s) + 1
    <2>1. b \in 1..Len(s)
        BY <1>1, <1>2, <1>3, <1>5
    <2>2. PICK a \in 1..NWords :
              /\ b \in Plc[a]..(Plc[a] + Size(a))
              /\ LexP!Sym(s, b) # "blank" => b \in Plc[a]..(Plc[a] + Size(a) - 1)
        BY <2>1, CharOf DEF s
    <2>3. LexP!Sym(s, b) # "end"
        BY <1>3, <2>1, LexP!SymIs
    <2>4. LexP!Sym(s, b) \notin {"blank", "newline"}
        BY <1>2, <2>3 DEF LexP!IsPassed
    <2> DEFINE z == Size(a)
               p == Plc[a]
               i == b - p
    <2>5. /\ z \in Nat \ {0} /\ Wrd[a] \in WordType /\ z = Len(Wrd[a].sym)
          /\ \A k \in 0..(z - 1) :
                k + 1 \in 1..Len(Wrd[a].sym) /\ LexP!Sym(s, p + k) = Wrd[a].sym[k + 1]
        BY CharIs DEF Size, s
    <2>6. a \in 1..(NWords + 1) /\ p \in 1..(Len(s) + 1)
        BY <1>3
    <2>7. b \in p..(p + z - 1)
        BY <2>2, <2>4
    <2> HIDE DEF z, p
    <2>8. i \in 0..(z - 1) /\ b = p + i
        BY <1>2, <2>5, <2>6, <2>7
    <2> HIDE DEF i
    <2>9. Wrd[a].sym[i + 1] = LexP!Sym(s, b)
        BY <2>5, <2>8
    <2>10. c <= Plc[n] /\ c \in Nat /\ b \in Nat /\ Plc[n] \in Nat /\ n \in Nat /\ a \in Nat
        BY <1>1, <1>2, <1>3
    <2>11. a >= n
        <3> SUFFICES ASSUME a < n PROVE FALSE
            BY <2>10
        <3>1. (Plc[a] + Size(a)) + 1 <= Plc[n]
            BY <1>1, PlacesRise
        <3>2. (p + z) + 1 <= Plc[n]
            BY <3>1 DEF p, z
        <3>3. b >= c /\ b <= p + (z - 1)
            BY <1>2, <2>7, <2>10
        <3>4. p \in Nat /\ z \in Nat /\ Plc[n] <= c + 1
            BY <1>1, <2>5, <2>6
        <3> QED BY ONLY <2>10, <3>2, <3>3, <3>4
    <2>12. i = 0
        <3> SUFFICES ASSUME i # 0 PROVE FALSE
            OBVIOUS
        <3> DEFINE d == b - 1
                   k == i - 1
        <3>1. k \in 0..(z - 1) /\ d = p + k /\ k + 1 = i /\ i + 1 \in 2..z
            BY <2>5, <2>6, <2>8
        <3>3. b # c
            <4> SUFFICES ASSUME b = c PROVE FALSE
                OBVIOUS
            <4>1. c = Plc[n]
                BY <1>1, <2>4
            <4>2. a # n
                BY <2>6, <2>8, <4>1, <2>10 DEF p
            <4>4. a < n \/ n < a
                BY <2>10, <4>2
            <4>5. n < a => (Plc[n] + Size(n)) + 1 <= Plc[a] /\ Size(n) \in Nat
                <5> SUFFICES ASSUME n < a PROVE (Plc[n] + Size(n)) + 1 <= Plc[a] /\ Size(n) \in Nat
                    OBVIOUS
                <5>1. n \in 1..NWords
                    BY <1>1, <1>3, <2>10
                <5> QED BY <2>6, <5>1, PlacesRise, CharIs
            <4>6. n < a => Plc[n] < p
                BY <4>5, <2>6, <2>10 DEF p
            <4> QED BY <2>6, <2>8, <2>10, <2>11, <4>1, <4>4, <4>6
        <3>4. d \in c..(b - 1) /\ d \in Nat /\ b = d + 1
            BY <1>2, <2>10, <3>3
        <3>5. LexP!IsPassed(s, c, d)
            BY <1>2, <3>4
        <3>6. LexP!Sym(s, d) = Wrd[a].sym[i]
            BY <2>5, <3>1
        <3> HIDE DEF d, k
        <3>7. i \in 1..Len(Wrd[a].sym) /\ Len(Wrd[a].sym) # 1
            BY <2>5, <2>8, <3>1
        <3>8. Wrd[a].sym # <<"newline">>
            <4>1. Len(<<"newline">>) = 1
                OBVIOUS
            <4> QED BY <3>7, <4>1
        <3>9. LexP!Sym(s, d) \notin {"newline", "blank"}
            BY <2>5, <3>6, <3>7, <3>8, WordChars
        <3>10. PICK h \in c..d : LexP!Sym(s, h) = "hash" /\ LexP!Newlines(s, h, d) = 0
            BY <3>5, <3>9 DEF LexP!IsPassed, LexP!InComment
        <3>11. h \in Nat /\ \A q \in h..d : LexP!Sym(s, q) # "newline"
            <4>1. h \in Nat
                BY <2>10, <3>10
            <4> QED BY <3>4, <3>10, <4>1, LexP!NewlinesBound
        <3>12. \A q \in h..b : LexP!Sym(s, q) # "newline"
            BY <2>4, <2>10, <3>4, <3>11
        <3>13. LexP!Newlines(s, h, b) = 0
            BY <2>10, <3>11, <3>12, LexP!NewlinesBound
        <3>14. h \in c..b
            BY <2>10, <3>4, <3>10
        <3>15. LexP!IsPassed(s, c, b)
            BY <2>3, <3>10, <3>13, <3>14 DEF LexP!IsPassed, LexP!InComment
        <3> QED BY <1>2, <3>15
    <2>13. b = Plc[a]
        BY <2>6, <2>8, <2>12 DEF p
    <2>14. a \in n..(NWords + 1)
        BY <1>3, <2>10, <2>11, <2>6
    <2> QED BY <2>13, <2>14 DEF b
<1> QED BY <1>4, <1>5

(* No word that means something is passed.                                 *)
LEMMA NoneIsPassed ==
    ASSUME src \in Rendered, NEW c \in Nat \ {0}, NEW m, Means(m), c <= Plc[m]
    PROVE  ~LexP!IsPassed(src.text, c, Plc[m])
<1> DEFINE s == src.text
           p == Plc[m]
<1>1. m \in 1..NWords /\ Wrd[m] \in SourceWords /\ Wrd[m].sym # <<"hash">> /\ NWords \in Nat
    BY MeansIs, PlacesRise
<1>2. PICK j \in 1..NLines : m \in Fst[j]..(MeanEnd(j) - 1)
    BY DEF Means
<1>3. /\ Fst[j] \in 1..NWords /\ LineStop(j) \in Fst[j]..NWords /\ MeanEnd(j) \in Fst[j]..LineStop(j)
      /\ \A a \in Fst[j]..(MeanEnd(j) - 1) : Wrd[a].sym # <<"hash">>
    BY LineFacts
<1>4. /\ Size(m) \in Nat \ {0} /\ p \in 1..Len(s) /\ LexP!Sym(s, p) = Wrd[m].sym[1]
      /\ 1 \in 1..Len(Wrd[m].sym) /\ Wrd[m] \in WordType
    <2>1. /\ Size(m) \in Nat \ {0} /\ Wrd[m] \in WordType
          /\ \A i \in 0..Size(m) : Plc[m] + i \in 1..Len(src.text)
          /\ \A i \in 0..(Size(m) - 1) :
                 i + 1 \in 1..Len(Wrd[m].sym) /\ LexP!Sym(src.text, Plc[m] + i) = Wrd[m].sym[i + 1]
        BY <1>1, CharIs
    <2>2. 0 \in 0..Size(m) /\ 0 \in 0..(Size(m) - 1) /\ 0 + 1 = 1
        BY <2>1
    <2>3. Plc[m] \in Nat
        <3>1. m \in 1..(NWords + 1)
            BY <1>1
        <3> QED BY <3>1, PlacesRise
    <2>4. Plc[m] + 0 = Plc[m]
        BY <2>3
    <2> QED BY <2>1, <2>2, <2>4
<1>5. LexP!Sym(s, p) \notin {"newline", "blank"}
    BY <1>1, <1>4, WordChars
<1> HIDE DEF s, p
<1>6. SUFFICES ASSUME LexP!InComment(s, c, p) PROVE FALSE
    BY <1>5 DEF LexP!IsPassed, s, p
<1>7. PICK h \in c..p : LexP!Sym(s, h) = "hash" /\ LexP!Newlines(s, h, p) = 0
    BY <1>6 DEF LexP!InComment
<1>8. h \in Nat /\ p \in Nat
    BY <1>4, <1>7
<1>9. \A q \in h..p : LexP!Sym(s, q) # "newline"
    BY <1>7, <1>8, LexP!NewlinesBound
<1>10. h \in 1..Len(s)
    <2>1. Len(s) \in Nat
        BY TextHolds DEF Text, s
    <2> QED BY <1>4, <1>7, <1>8, <2>1
<1>11. PICK x \in 1..NWords : h = Plc[x] /\ Wrd[x].sym = <<"hash">>
    BY <1>7, <1>10, CharOf DEF s
<1>12. x \notin Fst[j]..(MeanEnd(j) - 1)
    BY <1>3, <1>11
<1>13. x <= m
    <2> SUFFICES ASSUME m < x PROVE FALSE
        BY <1>1
    <2>1. x \in 1..(NWords + 1)
        BY <1>1
    <2>2. (Plc[m] + Size(m)) + 1 <= Plc[x]
        BY <1>1, <2>1, PlacesRise
    <2>3. (p + Size(m)) + 1 <= h
        BY <1>11, <2>2 DEF p
    <2> QED BY <1>4, <1>7, <1>8, <2>3
<1>14. x < Fst[j]
    BY <1>1, <1>2, <1>3, <1>12, <1>13
<1>15. j - 1 \in 1..NLines /\ (j - 1) + 1 = j
    <2>1. Fst[1] = 1 /\ NLines \in Nat
        BY LinesHold
    <2>2. j # 1
        BY <1>14, <2>1
    <2> QED BY <2>1, <2>2
<1> DEFINE y == LineStop(j - 1)
<1>16. y \in 1..NWords /\ Fst[j] = y + 1 /\ Wrd[y] = Newline
    <2>1. /\ Fst[j - 1] \in 1..NWords /\ y \in Fst[j - 1]..NWords
          /\ Fst[(j - 1) + 1] = y + 1 /\ Wrd[y] = Newline
        BY <1>15, LineFacts
    <2> QED BY <1>1, <1>15, <2>1
<1> HIDE DEF y
<1>17. x <= y /\ y < m
    BY <1>1, <1>2, <1>3, <1>14, <1>16
<1>18. Plc[y] \in 1..Len(s) /\ LexP!Sym(s, Plc[y]) = "newline"
    <2>1. /\ Size(y) \in Nat \ {0}
          /\ \A i \in 0..Size(y) : Plc[y] + i \in 1..Len(src.text)
          /\ \A i \in 0..(Size(y) - 1) : LexP!Sym(src.text, Plc[y] + i) = Wrd[y].sym[i + 1]
        BY <1>16, CharIs
    <2>2. 0 \in 0..Size(y) /\ 0 \in 0..(Size(y) - 1) /\ 0 + 1 = 1
        BY <2>1
    <2>3. Plc[y] \in Nat
        <3>1. y \in 1..(NWords + 1)
            BY <1>1, <1>16
        <3> QED BY <3>1, PlacesRise
    <2>4. Plc[y] + 0 = Plc[y]
        BY <2>3
    <2>5. Wrd[y].sym[1] = "newline"
        <3>1. Wrd[y].sym = <<"newline">>
            <4>1. Newline.sym = <<"newline">>
                BY DEF Newline
            <4> QED BY <1>16, <4>1
        <3> QED BY <3>1
    <2> QED BY <2>1, <2>2, <2>4, <2>5 DEF s
<1>19. Plc[y] \in h..p
    <2>1. x \in 1..(NWords + 1) /\ y \in 1..(NWords + 1) /\ m \in 1..(NWords + 1)
        BY <1>1, <1>16
    <2>2. (Plc[y] + Size(y)) + 1 <= Plc[m] /\ Size(y) \in Nat
        BY <1>16, <1>17, <2>1, PlacesRise, CharIs
    <2>3. x = y \/ (Plc[x] + Size(x)) + 1 <= Plc[y]
        BY <1>1, <1>11, <1>16, <1>17, <2>1, PlacesRise
    <2>4. Size(x) \in Nat
        BY <1>11, CharIs
    <2>5. Plc[y] \in Nat /\ Plc[x] = h /\ Plc[m] = p
        BY <1>11, <1>18 DEF p
    <2> QED BY ONLY <1>8, <2>2, <2>3, <2>4, <2>5
<1> QED BY <1>9, <1>18, <1>19

(* The word the lexer passes to means something.                           *)
LEMMA NextMeans ==
    ASSUME src \in Rendered, NEW c \in Nat \ {0}, NEW n \in 1..(NWords + 1), Stops(n), c <= Plc[n],
           NEW a \in n..NWords, ~LexP!IsPassed(src.text, c, Plc[a])
    PROVE  Means(a)
<1> DEFINE s == src.text
           p == Plc[a]
<1>1. NWords \in Nat /\ a \in 1..NWords /\ a \in 1..(NWords + 1)
    BY PlacesRise
<1>2. PICK j \in 1..NLines : a \in Fst[j]..LineStop(j)
    BY <1>1, LineOf
<1>3. /\ Fst[j] \in 1..NWords /\ LineStop(j) \in Fst[j]..NWords /\ MeanEnd(j) \in Fst[j]..LineStop(j)
      /\ \A x \in Fst[j]..(LineStop(j) - 1) : Wrd[x] \in SourceWords
      /\ MeanEnd(j) # LineStop(j) => Wrd[MeanEnd(j)].sym = <<"hash">>
      /\ Wrd[LineStop(j)] = Newline
    BY LineFacts
<1>4. \A x \in 1..NWords : /\ Plc[x] \in 1..Len(s) /\ LexP!Sym(s, Plc[x]) = Wrd[x].sym[1]
                            /\ 1 \in 1..Len(Wrd[x].sym) /\ Wrd[x] \in WordType /\ Size(x) \in Nat \ {0}
    <2> SUFFICES ASSUME NEW x \in 1..NWords
                 PROVE  /\ Plc[x] \in 1..Len(s) /\ LexP!Sym(s, Plc[x]) = Wrd[x].sym[1]
                        /\ 1 \in 1..Len(Wrd[x].sym) /\ Wrd[x] \in WordType /\ Size(x) \in Nat \ {0}
        OBVIOUS
    <2>1. /\ Size(x) \in Nat \ {0} /\ Wrd[x] \in WordType
          /\ \A i \in 0..Size(x) : Plc[x] + i \in 1..Len(src.text)
          /\ \A i \in 0..(Size(x) - 1) :
                 i + 1 \in 1..Len(Wrd[x].sym) /\ LexP!Sym(src.text, Plc[x] + i) = Wrd[x].sym[i + 1]
        BY CharIs
    <2>2. 0 \in 0..Size(x) /\ 0 \in 0..(Size(x) - 1) /\ 0 + 1 = 1
        BY <2>1
    <2>3. Plc[x] \in Nat
        <3>1. x \in 1..(NWords + 1)
            BY <1>1
        <3> QED BY <3>1, PlacesRise
    <2>4. Plc[x] + 0 = Plc[x]
        BY <2>3
    <2> QED BY <2>1, <2>2, <2>4
<1>5. Len(s) \in Nat /\ s \in Seq(LexP!Classes)
    BY TextHolds DEF Text
<1> HIDE DEF s, p
<1>6. p \in 1..Len(s) /\ LexP!Sym(s, p) # "end"
    BY <1>1, <1>4, <1>5, LexP!SymIs DEF p
<1>7. LexP!Sym(s, p) # "newline" /\ ~LexP!InComment(s, c, p)
    BY <1>6 DEF LexP!IsPassed, s, p
<1>8. a # LineStop(j)
    <2> SUFFICES ASSUME a = LineStop(j) PROVE FALSE
        OBVIOUS
    <2>1. Wrd[a].sym[1] = "newline"
        <3>1. Wrd[a].sym = <<"newline">>
            <4>1. Newline.sym = <<"newline">>
                BY DEF Newline
            <4> QED BY <1>3, <4>1
        <3> QED BY <3>1
    <2> QED BY <1>1, <1>4, <1>7, <2>1 DEF p
<1>9. SUFFICES ASSUME a >= MeanEnd(j) PROVE FALSE
    <2>1. a \in Fst[j]..(MeanEnd(j) - 1) => Means(a)
        BY DEF Means
    <2> QED BY <1>2, <1>3, <2>1
<1> DEFINE e == MeanEnd(j)
<1> HIDE DEF e
<1>10. e \in Fst[j]..(LineStop(j) - 1) /\ e <= a /\ a < LineStop(j) /\ e \in 1..NWords /\ e \in 1..(NWords + 1)
    BY <1>1, <1>2, <1>3, <1>8, <1>9 DEF e
<1>11. Wrd[e].sym = <<"hash">>
    BY <1>3, <1>10 DEF e
<1>12. n <= e
    <2> SUFFICES ASSUME e < n PROVE FALSE
        BY <1>10
    <2>1. n \in Fst[j]..LineStop(j) /\ n # NWords + 1
        BY <1>1, <1>3, <1>10
    <2>2. PICK i \in 1..NLines : n \in Fst[i]..MeanEnd(i) \/ n = LineStop(i)
        BY <2>1 DEF Stops
    <2>3. /\ Fst[i] \in 1..NWords /\ LineStop(i) \in Fst[i]..NWords /\ MeanEnd(i) \in Fst[i]..LineStop(i)
        BY LineFacts
    <2>4. n \in Fst[i]..LineStop(i)
        BY <2>2, <2>3
    <2>5. i = j
        BY <2>1, <2>4, OneLine
    <2> QED BY <1>1, <1>10, <2>1, <2>2, <2>5 DEF e
<1> DEFINE h == Plc[e]
<1>13. h \in 1..Len(s) /\ LexP!Sym(s, h) = "hash"
    BY <1>4, <1>10, <1>11
<1>14. c <= h
    <2>1. n = e \/ (Plc[n] + Size(n)) + 1 <= Plc[e]
        <3>0. n \in Nat /\ n >= 1
            BY <1>1
        <3>1. n # e => n \in 1..NWords /\ n < e
            BY ONLY <1>1, <1>10, <1>12, <3>0
        <3> QED BY <1>10, <3>1, PlacesRise
    <2>2. n # e => n \in 1..NWords
        <3>0. n \in Nat /\ n >= 1
            BY <1>1
        <3> QED BY ONLY <1>1, <1>10, <1>12, <3>0
    <2>3. n # e => Size(n) \in Nat
        BY <2>2, CharIs
    <2>4. Plc[n] \in 1..(Len(s) + 1)
        BY PlacesRise DEF s
    <2> HIDE DEF h
    <2> QED BY <1>13, <2>1, <2>3, <2>4 DEF h
<1>15. h <= p
    <2>1. e = a \/ (Plc[e] + Size(e)) + 1 <= Plc[a]
        BY <1>1, <1>10, PlacesRise
    <2>2. Size(e) \in Nat
        BY <1>10, CharIs
    <2> HIDE DEF h
    <2> QED BY <1>6, <1>13, <2>1, <2>2 DEF h, p
<1> HIDE DEF h
<1>16. ASSUME NEW q \in h..p, LexP!Sym(s, q) = "newline" PROVE FALSE
    <2>1. q \in 1..Len(s)
        BY <1>6, <1>13
    <2>2. PICK x \in 1..NWords : q = Plc[x] /\ Wrd[x].sym = <<"newline">>
        BY <1>16, <2>1, CharOf DEF s
    <2>3. x \in 1..(NWords + 1)
        BY <1>1
    <2>4. e <= x
        <3> SUFFICES ASSUME x < e PROVE FALSE
            BY <1>10
        <3>1. (Plc[x] + Size(x)) + 1 <= h /\ Size(x) \in Nat
            BY <1>10, PlacesRise, CharIs DEF h
        <3> QED BY <1>13, <2>1, <2>2, <3>1
    <2>5. x <= a
        <3> SUFFICES ASSUME a < x PROVE FALSE
            BY <1>1
        <3>1. (p + Size(a)) + 1 <= Plc[x] /\ Size(a) \in Nat
            BY <1>1, <2>3, PlacesRise, CharIs DEF p
        <3> QED BY <1>6, <2>1, <2>2, <3>1
    <2>6. x \in Fst[j]..(LineStop(j) - 1)
        BY <1>3, <1>10, <2>4, <2>5
    <2>7. Wrd[x] \in SourceWords /\ Wrd[x] \in WordType
        BY <1>3, <2>6 DEF WordType
    <2> QED BY <2>2, <2>7, WordChars
<1>17. LexP!Newlines(s, h, p) = 0
    <2>1. h \in Nat /\ p \in Nat
        BY <1>6, <1>13
    <2>2. \A q \in h..p : LexP!Sym(s, q) # "newline"
        BY <1>16
    <2> QED BY <2>1, <2>2, LexP!NewlinesBound
<1>18. h \in c..p
    BY <1>6, <1>13, <1>14, <1>15
<1> QED BY <1>7, <1>13, <1>17, <1>18 DEF LexP!InComment

LEMMA PassToNext ==
    ASSUME src \in Rendered, NEW l, NEW n, Before(l, n)
    PROVE  \E a \in 1..(NWords + 1) : IsNext(n, a) /\ LexP!pass_blanks(l).curr_sym_ = Plc[a]
<1> DEFINE c == l.curr_sym_
           s == src.text
<1>1. PICK a \in n..(NWords + 1) : LexP!pass_blanks(l).curr_sym_ = Plc[a]
    BY PassToWord
<1>2. /\ l \in LexP!Lexers /\ l.source_ = s /\ n \in 1..(NWords + 1) /\ Stops(n)
      /\ c \in 1..(Len(s) + 1) /\ c <= Plc[n]
    BY BeforeIs DEF Before
<1>3. /\ Plc[a] \in c..(Len(s) + 1)
      /\ \A q \in c..(Plc[a] - 1) : LexP!IsPassed(s, c, q)
      /\ ~LexP!IsPassed(s, c, Plc[a])
    BY <1>1, <1>2, LexP!BlanksPass
<1> HIDE DEF c, s
<1>4. NWords \in Nat /\ c \in Nat \ {0} /\ n \in Nat /\ a \in Nat /\ a \in 1..(NWords + 1) /\ Len(s) \in Nat
    BY <1>2, PlacesRise, TextHolds DEF Text, s
<1>5. a = NWords + 1 \/ Means(a)
    <2> SUFFICES ASSUME a # NWords + 1 PROVE Means(a)
        OBVIOUS
    <2>1. a \in n..NWords
        BY <1>4
    <2> QED BY <1>2, <1>3, <1>4, <2>1, NextMeans DEF s
<1>6. ASSUME NEW m \in n..NWords, Means(m) PROVE a <= m
    <2> SUFFICES ASSUME m < a PROVE FALSE
        <3>1. m \in Nat
            BY <1>4
        <3> QED BY <1>4, <3>1
    <2>0. m \in Nat /\ n <= m /\ m <= NWords /\ n >= 1
        BY <1>2, <1>4
    <2>1. m \in 1..NWords /\ n \in 1..(NWords + 1) /\ m \in 1..(NWords + 1)
        BY ONLY <1>4, <2>0
    <2>2. (Plc[m] + Size(m)) + 1 <= Plc[a] /\ Size(m) \in Nat /\ Plc[m] \in Nat /\ Plc[n] \in Nat
        BY <1>4, <2>1, PlacesRise, CharIs
    <2>3. n = m \/ (n \in 1..NWords /\ n < m)
        BY ONLY <1>4, <2>0
    <2>4. n = m \/ ((Plc[n] + Size(n)) + 1 <= Plc[m] /\ Size(n) \in Nat)
        BY <2>1, <2>3, PlacesRise, CharIs
    <2>5. c <= Plc[m] /\ Plc[m] \in c..(Plc[a] - 1)
        <3>1. n = m => c <= Plc[m]
            BY <1>2
        <3>2. c <= Plc[n] /\ Plc[m] + 1 <= Plc[a]
            <4>1. Plc[a] \in Nat
                BY <1>4, PlacesRise
            <4> QED BY ONLY <1>2, <2>2, <4>1
        <3>3. c <= Plc[m]
            BY ONLY <1>4, <2>2, <2>4, <3>1, <3>2
        <3>4. Plc[a] \in Nat
            BY <1>4, PlacesRise
        <3> QED BY ONLY <1>4, <2>2, <3>2, <3>3, <3>4
    <2>6. LexP!IsPassed(s, c, Plc[m])
        BY <1>3, <2>5
    <2> QED BY <1>4, <1>6, <2>5, <2>6, NoneIsPassed DEF s
<1>7. IsNext(n, a)
    BY <1>4, <1>5, <1>6 DEF IsNext
<1> QED BY <1>1, <1>4, <1>7

-----------------------------------------------------------------------------
(* The tokens of a source.                                                 *)

HasDigit(sym) == \E i \in DOMAIN sym : sym[i] = "digit"
HasDot(sym)   == \E i \in DOMAIN sym : sym[i] = "dot"

(* A word that the lexer refuses at its first character.                   *)
IsStuck(sym) == sym \in {<<"dot">>, <<"other">>} \/ (IsNumber(sym) /\ ~HasDigit(sym))

Kind(sym) == IF IsName(sym) THEN "IDENTIFIER" ELSE IF sym = <<"colon">> THEN "COLON"
             ELSE IF HasDot(sym) THEN "DEC_NUMBER" ELSE "INT_NUMBER"

(* The characters of a word stand in a text, with a blank after it.        *)
Stands(s, p, sym) ==
    /\ s \in Seq(LexP!Classes) /\ Len(s) \in Nat /\ p \in 1..Len(s) /\ Len(sym) \in Nat \ {0} /\ p + Len(sym) \in 1..Len(s)
    /\ \A i \in 1..Len(sym) : LexP!Sym(s, p + (i - 1)) = sym[i] /\ s[p + (i - 1)] = sym[i]
    /\ LexP!Sym(s, p + Len(sym)) = "blank"
    /\ DOMAIN sym = 1..Len(sym)

(* A run ends where it is seen to end.                                     *)
LEMMA RunEndAt ==
    ASSUME NEW s \in Seq(LexP!Classes), NEW p \in 1..(Len(s) + 1), NEW C, "end" \notin C,
           NEW q \in p..(Len(s) + 1), LexP!Sym(s, q) \notin C, \A r \in p..(q - 1) : LexP!Sym(s, r) \in C
    PROVE  LexP!RunEnd(s, p, C) = q
<1> DEFINE e == LexP!RunEnd(s, p, C)
<1>1. e \in p..(Len(s) + 1) /\ LexP!Sym(s, e) \notin C /\ \A r \in p..(e - 1) : LexP!Sym(s, r) \in C
    BY LexP!RunEndIs
<1> HIDE DEF e
<1>2. Len(s) \in Nat /\ e \in Nat /\ q \in Nat /\ p \in Nat
    BY <1>1
<1>3. ~(e < q)
    <2> SUFFICES ASSUME e < q PROVE FALSE
        OBVIOUS
    <2>1. e \in p..(q - 1)
        BY <1>1, <1>2
    <2> QED BY <1>1, <2>1
<1>4. ~(q < e)
    <2> SUFFICES ASSUME q < e PROVE FALSE
        OBVIOUS
    <2>1. q \in p..(e - 1)
        BY <1>1, <1>2
    <2> QED BY <1>1, <2>1
<1>5. e = q
    BY <1>2, <1>3, <1>4
<1> QED BY <1>5 DEF e

(* A run of digits that begins in a word ends in it or behind it.          *)
LEMMA DigitsEnd ==
    ASSUME NEW s, NEW p, NEW sym, Stands(s, p, sym), NEW q \in p..(p + Len(sym))
    PROVE  LET e == LexP!RunEnd(s, q, {"digit"}) IN
           /\ e \in q..(p + Len(sym)) /\ LexP!Sym(s, e) # "digit"
           /\ \A r \in q..(e - 1) : LexP!Sym(s, r) = "digit"
<1> DEFINE e == LexP!RunEnd(s, q, {"digit"})
           z == p + Len(sym)
<1>1. s \in Seq(LexP!Classes) /\ Len(s) \in Nat /\ p \in Nat /\ p >= 1 /\ z \in 1..Len(s) /\ LexP!Sym(s, z) = "blank"
    BY DEF Stands
<1> HIDE DEF z
<1>2. q \in 1..(Len(s) + 1) /\ q \in Nat /\ q <= z
    BY <1>1 DEF z
<1>3. e \in q..(Len(s) + 1) /\ LexP!Sym(s, e) \notin {"digit"} /\ \A r \in q..(e - 1) : LexP!Sym(s, r) \in {"digit"}
    BY <1>1, <1>2, LexP!RunEndIs
<1> HIDE DEF e
<1>4. ~(z < e)
    <2> SUFFICES ASSUME z < e PROVE FALSE
        OBVIOUS
    <2>1. z \in q..(e - 1)
        BY <1>1, <1>2, <1>3
    <2>2. LexP!Sym(s, z) \in {"digit"}
        BY <1>3, <2>1
    <2> QED BY <1>1, <2>2
<1>5. e \in q..z
    BY <1>1, <1>2, <1>3, <1>4
<1> QED BY <1>3, <1>5 DEF e, z

(* A character of a word.                                                  *)
LEMMA InWord ==
    ASSUME NEW s, NEW p, NEW sym, Stands(s, p, sym), NEW q \in p..(p + Len(sym) - 1)
    PROVE  (q - p) + 1 \in 1..Len(sym) /\ LexP!Sym(s, q) = sym[(q - p) + 1] /\ s[q] = sym[(q - p) + 1]
<1> DEFINE i == (q - p) + 1
<1>1. p \in Nat /\ Len(sym) \in Nat
    BY DEF Stands
<1>2. i \in 1..Len(sym) /\ p + (i - 1) = q
    BY <1>1
<1> HIDE DEF i
<1>3. LexP!Sym(s, p + (i - 1)) = sym[i] /\ s[p + (i - 1)] = sym[i]
    BY <1>2 DEF Stands
<1> QED BY <1>2, <1>3 DEF i

(* strtod reads a number to its end, or nothing of one without digits.     *)
LEMMA NumberRead ==
    ASSUME NEW s, NEW p, NEW sym, Stands(s, p, sym), IsNumber(sym)
    PROVE  LexP!Mantissa(s, p) = (IF HasDigit(sym) THEN p + Len(sym) ELSE p)
<1> DEFINE z     == p + Len(sym)
           first == IF LexP!Sym(s, p) = "sign" THEN p + 1 ELSE p
           point == LexP!RunEnd(s, first, {"digit"})
           end   == IF LexP!Sym(s, point) = "dot" THEN LexP!RunEnd(s, point + 1, {"digit"}) ELSE point
<1>1. p \in Nat /\ Len(sym) \in Nat \ {0} /\ z \in Nat /\ DOMAIN sym = 1..Len(sym) /\ LexP!Sym(s, z) = "blank"
    BY DEF Stands
<1>2. /\ sym[1] \in {"digit", "sign"} /\ \A i \in 2..Len(sym) : sym[i] \in {"digit", "dot"}
      /\ \A i, j \in DOMAIN sym : sym[i] = "dot" /\ sym[j] = "dot" => i = j
    BY DEF IsNumber
<1>3. LexP!Sym(s, p) = sym[1]
    <2>1. p \in p..(p + Len(sym) - 1) /\ (p - p) + 1 = 1
        BY <1>1
    <2> QED BY <2>1, InWord
<1>4. ASSUME NEW q \in (p + 1)..(z - 1) PROVE (q - p) + 1 \in 2..Len(sym) /\ LexP!Sym(s, q) = sym[(q - p) + 1] /\ LexP!Sym(s, q) \in {"digit", "dot"}
    <2>1. q \in p..(p + Len(sym) - 1) /\ (q - p) + 1 \in 2..Len(sym)
        BY <1>1
    <2>2. LexP!Sym(s, q) = sym[(q - p) + 1]
        BY <2>1, InWord
    <2>3. sym[(q - p) + 1] \in {"digit", "dot"}
        BY <1>2, <2>1
    <2> QED BY <2>1, <2>2, <2>3
<1>5. first \in p..(p + 1) /\ first \in p..(p + Len(sym)) /\ first \in Nat /\ first <= p + 1
    BY <1>1
<1>6. first = p => LexP!Sym(s, p) = "digit"
    BY <1>1, <1>2, <1>3
<1>7. point \in first..z /\ LexP!Sym(s, point) # "digit"
    BY <1>5, DigitsEnd DEF z
<1> HIDE DEF z, first, point
<1>8. point \in Nat /\ point > p /\ point <= z
    <2>1. first \in Nat /\ first >= p
        BY <1>1, <1>5
    <2>2. point # p
        BY <1>1, <1>6, <1>7, <2>1
    <2> QED BY <1>1, <1>7, <2>1, <2>2
<1>9. end = z
    <2>1. CASE LexP!Sym(s, point) = "dot"
        <3> DEFINE e == LexP!RunEnd(s, point + 1, {"digit"})
        <3>1. point # z
            BY <1>1, <2>1
        <3>2. point \in (p + 1)..(z - 1) /\ point + 1 \in p..(p + Len(sym)) /\ point + 1 \in Nat
            BY <1>1, <1>8, <3>1 DEF z
        <3>3. e \in (point + 1)..z /\ LexP!Sym(s, e) # "digit"
            BY <3>2, DigitsEnd DEF z
        <3> HIDE DEF e
        <3>4. e = z
            <4> SUFFICES ASSUME e # z PROVE FALSE
                OBVIOUS
            <4>1. e \in (p + 1)..(z - 1) /\ e \in Nat
                BY <1>1, <1>8, <3>2, <3>3
            <4>2. LexP!Sym(s, e) = "dot" /\ LexP!Sym(s, e) = sym[(e - p) + 1] /\ (e - p) + 1 \in 2..Len(sym)
                BY <1>4, <3>3, <4>1
            <4>3. LexP!Sym(s, point) = sym[(point - p) + 1] /\ (point - p) + 1 \in 2..Len(sym)
                BY <1>4, <3>2
            <4>4. (e - p) + 1 \in DOMAIN sym /\ (point - p) + 1 \in DOMAIN sym
                BY <1>1, <4>2, <4>3
            <4>5. (e - p) + 1 = (point - p) + 1
                BY ONLY <1>2, <2>1, <4>2, <4>3, <4>4
            <4> QED BY <1>1, <1>8, <3>3, <4>1, <4>5
        <3> QED BY <2>1, <3>4 DEF e
    <2>2. CASE LexP!Sym(s, point) # "dot"
        <3>1. point = z
            <4> SUFFICES ASSUME point # z PROVE FALSE
                OBVIOUS
            <4>1. point \in (p + 1)..(z - 1)
                BY <1>1, <1>8
            <4> QED BY <1>4, <1>7, <2>2, <4>1
        <3> QED BY <2>2, <3>1
    <2> QED BY <2>1, <2>2
<1> HIDE DEF end
<1>10. (\E q \in first..(z - 1) : s[q] = "digit") <=> HasDigit(sym)
    <2>1. ASSUME NEW q \in first..(z - 1), s[q] = "digit" PROVE HasDigit(sym)
        <3>1. q \in p..(p + Len(sym) - 1)
            BY <1>1, <1>5 DEF z
        <3>2. (q - p) + 1 \in DOMAIN sym /\ sym[(q - p) + 1] = "digit"
            BY <1>1, <2>1, <3>1, InWord
        <3> QED BY <3>2 DEF HasDigit
    <2>2. ASSUME HasDigit(sym) PROVE \E q \in first..(z - 1) : s[q] = "digit"
        <3>1. PICK i \in 1..Len(sym) : sym[i] = "digit"
            BY <1>1, <2>2 DEF HasDigit
        <3>2. s[p + (i - 1)] = "digit"
            BY <3>1 DEF Stands
        <3>3. i = 1 => first = p
            BY <1>3, <3>1 DEF first
        <3>4. p + (i - 1) \in first..(z - 1)
            BY <1>1, <1>5, <3>3 DEF z
        <3> QED BY <3>2, <3>4
    <2> QED BY <2>1, <2>2
<1>11. LexP!Mantissa(s, p) = IF \E q \in first..(end - 1) : s[q] = "digit" THEN end ELSE p
    BY DEF LexP!Mantissa, end, point, first
<1> QED BY <1>9, <1>10, <1>11 DEF z

LEMMA StrtodRead ==
    ASSUME NEW s, NEW p, NEW sym, Stands(s, p, sym), IsNumber(sym)
    PROVE  LexP!strtod(s, p) = LexP!Mantissa(s, p)
<1> DEFINE m == LexP!Mantissa(s, p)
<1>1. m = (IF HasDigit(sym) THEN p + Len(sym) ELSE p) /\ p \in Nat
    <2>1. p \in Nat
        BY DEF Stands
    <2> QED BY <2>1, NumberRead
<1>2. LexP!Sym(s, p + Len(sym)) = "blank"
    BY DEF Stands
<1> HIDE DEF m
<1>3. ~(m > p /\ LexP!Sym(s, m) = "exp")
    BY <1>1, <1>2
<1> QED BY <1>3 DEF LexP!strtod, m

LEMMA WordStands ==
    ASSUME src \in Rendered, NEW a \in 1..NWords
    PROVE  Stands(src.text, Plc[a], Wrd[a].sym)
<1> DEFINE s == src.text
           p == Plc[a]
           sym == Wrd[a].sym
<1>1. /\ Size(a) \in Nat \ {0} /\ Wrd[a] \in WordType
      /\ \A i \in 0..Size(a) : Plc[a] + i \in 1..Len(src.text)
      /\ \A i \in 0..(Size(a) - 1) : LexP!Sym(src.text, Plc[a] + i) = Wrd[a].sym[i + 1]
      /\ LexP!Sym(src.text, Plc[a] + Size(a)) = "blank"
    BY CharIs
<1>2. /\ s \in Seq(LexP!Classes) /\ Len(s) \in Nat /\ sym \in Seq(LexP!Classes)
      /\ p \in Nat
    <2>1. a \in 1..(NWords + 1)
        BY PlacesRise
    <2> QED BY <2>1, PlacesRise, TextHolds DEF Text
<1>3. Size(a) = Len(sym)
    BY DEF Size
<1> HIDE DEF s, p, sym
<1> DEFINE z == Len(sym)
<1>4. z \in Nat \ {0} /\ DOMAIN sym = 1..z
    BY <1>1, <1>2, <1>3
<1> HIDE DEF z
<1>5. \A i \in 0..z : p + i \in 1..Len(s)
    BY <1>1, <1>3 DEF s, p, z
<1>6. \A i \in 0..(z - 1) : LexP!Sym(s, p + i) = sym[i + 1]
    BY <1>1, <1>3 DEF s, p, z, sym
<1>7. ASSUME NEW i \in 1..z PROVE LexP!Sym(s, p + (i - 1)) = sym[i] /\ s[p + (i - 1)] = sym[i]
    <2> DEFINE j == i - 1
    <2>1. j \in 0..(z - 1) /\ j \in 0..z /\ j + 1 = i
        BY <1>4
    <2> HIDE DEF j
    <2>2. LexP!Sym(s, p + j) = sym[i] /\ p + j \in 1..Len(s)
        BY <1>5, <1>6, <2>1
    <2>3. s[p + j] = sym[i]
        BY <1>2, <2>2, LexP!SymIs
    <2> QED BY <2>2, <2>3 DEF j
<1>8. p \in 1..Len(s) /\ p + z \in 1..Len(s)
    <2>1. 0 \in 0..z /\ z \in 0..z /\ p + 0 = p
        BY <1>2, <1>4
    <2> QED BY <1>5, <2>1
<1>9. LexP!Sym(s, p + z) = "blank"
    BY <1>1, <1>3 DEF s, p, z
<1> QED BY <1>2, <1>4, <1>7, <1>8, <1>9 DEF Stands, s, p, sym, z

(* The token that is made of a word, or of the end.                        *)
Outcome(t, a) ==
    /\ t \in LexP!Lexers /\ t.source_ = src.text /\ t.tok_.beg = Plc[a]
    /\ a = NWords + 1 => t.tok_.type = "FINAL" /\ t.curr_sym_ = Plc[a]
    /\ a \in 1..NWords =>
          IF IsStuck(Wrd[a].sym) THEN t.tok_.type = "INCORRECT" /\ t.curr_sym_ = Plc[a]
          ELSE t.tok_.type = Kind(Wrd[a].sym) /\ t.curr_sym_ = Plc[a] + Size(a)

(* The characters of the kinds of words.                                   *)
LEMMA KindsOfWords ==
    ASSUME NEW sym
    PROVE  /\ IsName(sym) => sym[1] \in LexP!IsAlpha /\ ~IsNumber(sym) /\ ~IsStuck(sym) /\ sym # <<"colon">>
           /\ IsNumber(sym) => sym[1] \in {"digit", "sign"} /\ ~IsName(sym) /\ sym # <<"colon">> /\ (IsStuck(sym) <=> ~HasDigit(sym))
           /\ sym = <<"colon">> => sym[1] = "colon" /\ ~IsName(sym) /\ ~IsStuck(sym)
           /\ sym \in {<<"dot">>, <<"other">>} => sym[1] \in {"dot", "other"} /\ IsStuck(sym) /\ ~IsName(sym)
<1>1. IsName(sym) => sym[1] \in LexP!IsAlpha
    BY DEF IsName, LexP!IsAlpha, Lex!IsAlpha
<1>2. IsNumber(sym) => sym[1] \in {"digit", "sign"}
    BY DEF IsNumber
<1>3. <<"colon">>[1] = "colon" /\ <<"dot">>[1] = "dot" /\ <<"other">>[1] = "other"
    OBVIOUS
<1>4. LexP!IsAlpha = {"exp", "letter"}
    BY DEF LexP!IsAlpha
<1> QED BY <1>1, <1>2, <1>3, <1>4 DEF IsStuck

TokenAt(r) ==
    LET c == LexP!Sym(r.source_, r.curr_sym_)
    IN  CASE c = "colon" -> LexP!make_colon(r)
          [] c \in {"digit", "sign"} -> LexP!make_number(r, FALSE)
          [] c = "end" -> LexP!make_final(r)
          [] c \in LexP!IsAlpha -> LexP!make_identifier(r)
          [] OTHER -> LexP!make_incorrect(r)

LEMMA TokenAtIs ==
    ASSUME NEW r
    PROVE  LET c == LexP!Sym(r.source_, r.curr_sym_) IN
           /\ c = "colon" => TokenAt(r) = LexP!make_colon(r)
           /\ c \in {"digit", "sign"} => TokenAt(r) = LexP!make_number(r, FALSE)
           /\ c = "end" => TokenAt(r) = LexP!make_final(r)
           /\ c \in LexP!IsAlpha => TokenAt(r) = LexP!make_identifier(r)
           /\ c \in {"dot", "other"} => TokenAt(r) = LexP!make_incorrect(r)
BY DEF TokenAt, LexP!IsAlpha

LEMMA TokenOfWord ==
    ASSUME src \in Rendered, NEW r \in LexP!Lexers, r.source_ = src.text,
           NEW a \in 1..NWords, r.curr_sym_ = Plc[a], Wrd[a] \in SourceWords, Wrd[a].sym # <<"hash">>, Wrd[a].sym # <<"newline">>,
           NEW t, t = TokenAt(r)
    PROVE  Outcome(t, a)
<1> DEFINE s == src.text
           p == Plc[a]
           sym == Wrd[a].sym
           z == Len(sym)
<1>1. Stands(s, p, sym)
    BY WordStands
<1>2. /\ s \in Seq(LexP!Classes) /\ Len(s) \in Nat /\ p \in 1..Len(s) /\ p \in Nat /\ z \in Nat \ {0} /\ p + z \in 1..Len(s)
      /\ LexP!Sym(s, p + z) = "blank" /\ DOMAIN sym = 1..z
    BY <1>1 DEF Stands
<1>3. LexP!Sym(s, p) = sym[1]
    <2>1. p \in p..(p + Len(sym) - 1) /\ (p - p) + 1 = 1
        BY <1>2
    <2> QED BY <1>1, <2>1, InWord
<1>4. sym \in {<<"colon">>, <<"dot">>, <<"other">>} \/ IsName(sym) \/ IsNumber(sym)
    BY WordAssumption
<1>5. a # NWords + 1 /\ Size(a) = z
    BY PlacesRise DEF Size
<1> HIDE DEF s, p, sym, z
<1>6. r.source_ = s /\ r.curr_sym_ = p
    BY DEF s, p
<1>7. ASSUME NEW type \in LexP!TokenType, NEW size \in Nat, NEW k \in 0..z,
             t = LexP!advance(LexP!make_token(r, type, size), k) \/ (k = 0 /\ t = LexP!make_token(r, type, size))
      PROVE  /\ t \in LexP!Lexers /\ t.source_ = s /\ t.tok_.beg = p
             /\ t.tok_.type = type /\ t.curr_sym_ = p + k
    <2>1. k \in Nat /\ p + k <= Len(s) + 1 /\ p + 0 = p
        BY <1>2
    <2>2. /\ LexP!make_token(r, type, size) = LexP!Made(r, type, size, r.curr_sym_)
          /\ LexP!advance(LexP!make_token(r, type, size), k) = LexP!Made(r, type, size, r.curr_sym_ + k)
          /\ r.curr_sym_ + k <= Len(r.source_) + 1 => LexP!Made(r, type, size, r.curr_sym_ + k) \in LexP!Lexers
        BY <2>1, LexP!MadeIs
    <2>3. t = LexP!Made(r, type, size, p + k) /\ t \in LexP!Lexers
        BY <1>6, <1>7, <2>1, <2>2
    <2> QED BY <1>6, <2>3 DEF LexP!Made
<1>8. CASE sym = <<"colon">>
    <2>1. sym[1] = "colon" /\ ~IsName(sym) /\ ~IsStuck(sym) /\ z = 1
        BY <1>8, KindsOfWords DEF z
    <2>2. t = LexP!make_colon(r)
        BY <1>3, <1>6, <2>1, TokenAtIs
    <2>3. t = LexP!advance(LexP!make_token(r, "COLON", 1), 1) /\ "COLON" \in LexP!TokenType /\ 1 \in 0..z
        BY <2>1, <2>2 DEF LexP!make_colon, LexP!TokenType
    <2>4. t \in LexP!Lexers /\ t.source_ = s /\ t.tok_.beg = p /\ t.tok_.type = "COLON" /\ t.curr_sym_ = p + z
        BY <1>7, <2>1, <2>3
    <2>5. Kind(sym) = "COLON"
        BY <1>8, <2>1 DEF Kind
    <2> QED BY <1>5, <2>1, <2>4, <2>5 DEF Outcome, s, p, sym
<1>9. CASE sym \in {<<"dot">>, <<"other">>}
    <2>1. sym[1] \in {"dot", "other"} /\ IsStuck(sym)
        BY <1>9, KindsOfWords
    <2>2. t = LexP!make_incorrect(r)
        BY <1>3, <1>6, <2>1, TokenAtIs
    <2>3. t = LexP!make_token(r, "INCORRECT", 1) /\ "INCORRECT" \in LexP!TokenType /\ 0 \in 0..z /\ p + 0 = p
        BY <1>2, <2>2 DEF LexP!make_incorrect, LexP!TokenType
    <2>4. t \in LexP!Lexers /\ t.source_ = s /\ t.tok_.beg = p /\ t.tok_.type = "INCORRECT" /\ t.curr_sym_ = p
        BY <1>7, <2>3
    <2> QED BY <1>5, <2>1, <2>4 DEF Outcome, s, p, sym
<1>10. CASE IsName(sym)
    <2>1. sym[1] \in LexP!IsAlpha /\ ~IsStuck(sym)
        BY <1>10, KindsOfWords
    <2>2. t = LexP!make_identifier(r)
        BY <1>3, <1>6, <2>1, TokenAtIs
    <2>3. LexP!RunEnd(s, p, LexP!Word) = p + z
        <3>1. "end" \notin LexP!Word /\ "blank" \notin LexP!Word
            BY DEF LexP!Word, LexP!IsAlpha
        <3>2. ASSUME NEW q \in p..((p + z) - 1) PROVE LexP!Sym(s, q) \in LexP!Word
            <4>1. q \in p..(p + Len(sym) - 1)
                BY <3>2, <1>2 DEF z
            <4>2. (q - p) + 1 \in DOMAIN sym /\ LexP!Sym(s, q) = sym[(q - p) + 1]
                <5>1. (q - p) + 1 \in 1..Len(sym) /\ LexP!Sym(s, q) = sym[(q - p) + 1]
                    BY <1>1, <4>1, InWord
                <5> QED BY <1>2, <5>1 DEF z
            <4>3. ToSet(sym) \subseteq LexP!Word
                BY <1>10 DEF IsName, LexP!Word, Lex!Word, LexP!IsAlpha, Lex!IsAlpha
            <4> QED BY <4>2, <4>3 DEF ToSet
        <3>3. p \in 1..(Len(s) + 1) /\ p + z \in p..(Len(s) + 1)
            BY <1>2
        <3> QED BY <1>2, <3>1, <3>2, <3>3, RunEndAt
    <2>4. t = LexP!advance(LexP!make_token(r, "IDENTIFIER", z), z) /\ "IDENTIFIER" \in LexP!TokenType /\ z \in Nat /\ z \in 0..z
        <3>1. (p + z) - p = z
            BY <1>2
        <3> QED BY <1>2, <1>6, <2>2, <2>3, <3>1 DEF LexP!make_identifier, LexP!TokenType
    <2>5. t \in LexP!Lexers /\ t.source_ = s /\ t.tok_.beg = p /\ t.tok_.type = "IDENTIFIER" /\ t.curr_sym_ = p + z
        BY <1>7, <2>4
    <2>6. Kind(sym) = "IDENTIFIER"
        BY <1>10 DEF Kind
    <2> QED BY <1>5, <2>1, <2>5, <2>6 DEF Outcome, s, p, sym
<1>11. CASE IsNumber(sym)
    <2>1. sym[1] \in {"digit", "sign"} /\ ~IsName(sym) /\ sym # <<"colon">> /\ (IsStuck(sym) <=> ~HasDigit(sym))
        BY <1>11, KindsOfWords
    <2>2. t = LexP!make_number(r, FALSE)
        BY <1>3, <1>6, <2>1, TokenAtIs
    <2> DEFINE e == LexP!strtod(s, p)
    <2>3. e = (IF HasDigit(sym) THEN p + z ELSE p)
        BY <1>1, <1>11, NumberRead, StrtodRead DEF z
    <2>4. t = LexP!advance(LexP!make_token(r, IF LexP!Sym(s, e) \notin LexP!IsSpace \cup {"end"} THEN "INCORRECT"
                                            ELSE IF \E q \in p..(e - 1) : s[q] = "dot" THEN "DEC_NUMBER" ELSE "INT_NUMBER", e - p), e - p)
        BY <1>6, <2>2 DEF LexP!make_number
    <2> HIDE DEF e
    <2>5. CASE HasDigit(sym)
        <3>1. e = p + z /\ e - p = z /\ LexP!Sym(s, e) = "blank"
            BY <1>2, <2>3, <2>5
        <3>2. (\E q \in p..(e - 1) : s[q] = "dot") <=> HasDot(sym)
            <4>1. ASSUME NEW q \in p..(e - 1), s[q] = "dot" PROVE HasDot(sym)
                <5>1. q \in p..(p + Len(sym) - 1)
                    BY <1>2, <3>1 DEF z
                <5>2. (q - p) + 1 \in DOMAIN sym /\ sym[(q - p) + 1] = "dot"
                    BY <1>1, <1>2, <4>1, <5>1, InWord DEF z
                <5> QED BY <5>2 DEF HasDot
            <4>2. ASSUME HasDot(sym) PROVE \E q \in p..(e - 1) : s[q] = "dot"
                <5>1. PICK i \in 1..Len(sym) : sym[i] = "dot"
                    BY <1>2, <4>2 DEF HasDot, z
                <5>2. s[p + (i - 1)] = "dot"
                    BY <1>1, <5>1 DEF Stands
                <5>3. p + (i - 1) \in p..(e - 1)
                    BY <1>2, <3>1 DEF z
                <5> QED BY <5>2, <5>3
            <4> QED BY <4>1, <4>2
        <3>3. Kind(sym) = IF HasDot(sym) THEN "DEC_NUMBER" ELSE "INT_NUMBER"
            BY <2>1 DEF Kind
        <3>4. t = LexP!advance(LexP!make_token(r, Kind(sym), z), z) /\ Kind(sym) \in LexP!TokenType /\ z \in Nat /\ z \in 0..z
            BY <1>2, <2>4, <3>1, <3>2, <3>3 DEF LexP!TokenType, LexP!Consts, LexP!IsSpace
        <3>5. t \in LexP!Lexers /\ t.source_ = s /\ t.tok_.beg = p /\ t.tok_.type = Kind(sym) /\ t.curr_sym_ = p + z
            BY <1>7, <3>4
        <3> QED BY <1>5, <2>1, <2>5, <3>5 DEF Outcome, s, p, sym
    <2>6. CASE ~HasDigit(sym)
        <3>1. e = p /\ e - p = 0 /\ LexP!Sym(s, e) \in {"digit", "sign"}
            BY <1>2, <1>3, <2>1, <2>3, <2>6
        <3>2. t = LexP!advance(LexP!make_token(r, "INCORRECT", 0), 0) /\ "INCORRECT" \in LexP!TokenType /\ 0 \in 0..z /\ p + 0 = p
            BY <1>2, <2>4, <3>1 DEF LexP!TokenType, LexP!IsSpace
        <3>3. t \in LexP!Lexers /\ t.source_ = s /\ t.tok_.beg = p /\ t.tok_.type = "INCORRECT" /\ t.curr_sym_ = p
            BY <1>7, <3>2
        <3> QED BY <1>5, <2>1, <2>6, <3>3 DEF Outcome, s, p, sym
    <2> QED BY <2>5, <2>6
<1> QED BY <1>4, <1>8, <1>9, <1>10, <1>11

(* The next word that means something is read, or the end.                 *)
LEMMA TokenRead ==
    ASSUME src \in Rendered, NEW l, NEW n, Before(l, n)
    PROVE  \E a \in 1..(NWords + 1) : IsNext(n, a) /\ Outcome(LexP!lex_get_tok(l, FALSE), a)
<1> DEFINE r == LexP!pass_blanks(l)
           t == LexP!lex_get_tok(l, FALSE)
<1>1. PICK a \in 1..(NWords + 1) : IsNext(n, a) /\ r.curr_sym_ = Plc[a]
    BY PassToNext
<1>2. l \in LexP!Lexers /\ l.source_ = src.text
    BY DEF Before
<1>3. r \in LexP!Lexers /\ r.source_ = src.text
    BY <1>2, LexP!BlanksPass
<1>4. t = TokenAt(r)
    BY DEF LexP!lex_get_tok, TokenAt
<1> HIDE DEF r, t
<1>5. NWords \in Nat /\ Plc[NWords + 1] = Len(src.text) + 1 /\ src.text \in Seq(LexP!Classes) /\ Len(src.text) \in Nat
    BY PlacesRise, TextHolds DEF Text
<1>6. CASE a = NWords + 1
    <2>1. LexP!Sym(src.text, Plc[a]) = "end"
        BY <1>5, <1>6, LexP!SymIs
    <2>2. t = LexP!make_token(r, "FINAL", 1)
        BY <1>1, <1>3, <1>4, <2>1, TokenAtIs DEF LexP!make_final
    <2>3. "FINAL" \in LexP!TokenType /\ 1 \in Nat /\ 0 \in Nat
        BY DEF LexP!TokenType
    <2>4. /\ LexP!make_token(r, "FINAL", 1) = LexP!Made(r, "FINAL", 1, r.curr_sym_)
          /\ r.curr_sym_ + 0 <= Len(r.source_) + 1 => LexP!Made(r, "FINAL", 1, r.curr_sym_ + 0) \in LexP!Lexers
        BY <1>3, <2>3, LexP!MadeIs
    <2>5. r.curr_sym_ \in Nat /\ r.curr_sym_ <= Len(r.source_) + 1
        BY <1>1, <1>3, <1>5, <1>6
    <2>6. r.curr_sym_ + 0 = r.curr_sym_
        BY <2>5
    <2>7. t = LexP!Made(r, "FINAL", 1, Plc[a]) /\ t \in LexP!Lexers
        BY <1>1, <2>2, <2>4, <2>5, <2>6
    <2>8. t.source_ = src.text /\ t.tok_.beg = Plc[a] /\ t.tok_.type = "FINAL" /\ t.curr_sym_ = Plc[a]
        BY <1>1, <1>3, <2>7 DEF LexP!Made
    <2>9. a \notin 1..NWords
        BY <1>5, <1>6
    <2>10. Outcome(t, a)
        BY <2>7, <2>8, <2>9 DEF Outcome
    <2> QED BY <1>1, <2>10 DEF t
<1>7. CASE a # NWords + 1
    <2>1. Means(a) /\ a \in 1..NWords
        BY <1>1, <1>5, <1>7 DEF IsNext
    <2>2. Wrd[a] \in SourceWords /\ Wrd[a].sym # <<"hash">> /\ Wrd[a].sym # <<"newline">>
        BY <2>1, MeansIs
    <2>3. Outcome(t, a)
        BY <1>1, <1>3, <1>4, <2>1, <2>2, TokenOfWord
    <2> QED BY <1>1, <2>3 DEF t
<1> QED BY <1>6, <1>7

(* Where the lexer stands after a token.                                   *)
After(a) == IF a \in 1..NWords /\ ~IsStuck(Wrd[a].sym) THEN a + 1 ELSE a

LEMMA AfterToken ==
    ASSUME src \in Rendered, NEW a \in 1..(NWords + 1), a = NWords + 1 \/ Means(a), NEW t, Outcome(t, a)
    PROVE  Before(t, After(a)) /\ After(a) \in a..(NWords + 1)
<1>1. NWords \in Nat /\ t \in LexP!Lexers /\ t.source_ = src.text
    BY PlacesRise DEF Outcome
<1>2. CASE a = NWords + 1
    <2>1. a \notin 1..NWords /\ a \in a..(NWords + 1)
        BY <1>1, <1>2
    <2>2. t.curr_sym_ = Plc[a] /\ Stops(a)
        BY <1>2 DEF Outcome, Stops
    <2> QED BY <1>1, <2>1, <2>2 DEF After, Before
<1>3. CASE a # NWords + 1
    <2>1. Means(a) /\ a \in 1..NWords
        BY <1>1, <1>3
    <2>2. PICK j \in 1..NLines : a \in Fst[j]..(MeanEnd(j) - 1)
        BY <2>1 DEF Means
    <2>3. Fst[j] \in Nat /\ MeanEnd(j) \in Nat /\ a \in Nat
        <3>1. Fst[j] \in 1..NWords /\ LineStop(j) \in Fst[j]..NWords /\ MeanEnd(j) \in Fst[j]..LineStop(j)
            BY LineFacts
        <3> QED BY <1>1, <3>1
    <2>4. a \in Fst[j]..MeanEnd(j) /\ a + 1 \in Fst[j]..MeanEnd(j)
        BY <2>2, <2>3
    <2>5. Stops(a) /\ Stops(a + 1)
        BY <2>4 DEF Stops
    <2>6. CASE IsStuck(Wrd[a].sym)
        <3>1. After(a) = a /\ t.curr_sym_ = Plc[a] /\ a \in a..(NWords + 1)
            BY <1>1, <2>1, <2>6 DEF After, Outcome
        <3> QED BY <1>1, <2>5, <3>1 DEF Before
    <2>7. CASE ~IsStuck(Wrd[a].sym)
        <3>1. After(a) = a + 1 /\ t.curr_sym_ = Plc[a] + Size(a)
            BY <2>1, <2>7 DEF After, Outcome
        <3>2. Plc[a + 1] = Plc[a] + (Size(a) + 1) /\ Size(a) \in Nat
            BY <2>1, TextHolds DEF Text
        <3>3. Plc[a] \in Nat
            BY PlacesRise
        <3>4. t.curr_sym_ = Plc[a + 1] - 1 /\ a + 1 > 1 /\ a + 1 \in 1..(NWords + 1) /\ a + 1 \in a..(NWords + 1)
            BY <1>1, <2>1, <2>3, <3>1, <3>2, <3>3
        <3> QED BY <1>1, <2>5, <3>1, <3>4 DEF Before
    <2> QED BY <2>6, <2>7
<1> QED BY <1>2, <1>3

(* The rest of a line is skipped to its newline.                           *)
LEMMA SkipRead ==
    ASSUME src \in Rendered, NEW l, NEW n, Before(l, n)
    PROVE  LET r == LexP!lex_skip_line(l) IN
           /\ \A j \in 1..NLines : n \in Fst[j]..LineStop(j) => Before(r, LineStop(j))
           /\ n = NWords + 1 => Before(r, n)
<1> DEFINE c == l.curr_sym_
           s == src.text
           C == LexP!Classes \ {"newline"}
           r == LexP!lex_skip_line(l)
<1>1. /\ l \in LexP!Lexers /\ l.source_ = s /\ n \in 1..(NWords + 1) /\ Stops(n)
      /\ c \in 1..(Len(s) + 1) /\ c <= Plc[n] /\ Plc[n] <= c + 1
      /\ c # Plc[n] => n > 1 /\ c \in 1..Len(s) /\ LexP!Sym(s, c) = "blank"
    BY BeforeIs DEF Before
<1>2. /\ NWords \in Nat /\ Len(s) \in Nat /\ s \in Seq(LexP!Classes) /\ Plc[NWords + 1] = Len(s) + 1
      /\ \A a \in 1..(NWords + 1) : Plc[a] \in 1..(Len(s) + 1)
    BY PlacesRise, TextHolds DEF Text
<1>3. r \in LexP!Lexers /\ r.source_ = s
    BY <1>1, LexP!SkipLineMoves
<1>4. r.curr_sym_ = LexP!RunEnd(s, c, C)
    BY <1>1 DEF LexP!lex_skip_line, LexP!Lexers
<1>5. "end" \notin C
    BY DEF LexP!Classes
<1> HIDE DEF c, s, C, r
<1>6. ASSUME NEW e \in n..(NWords + 1), LexP!Sym(s, Plc[e]) \in {"newline", "end"},
             \A a \in n..(e - 1) : Wrd[a].sym # <<"newline">>, Plc[n] <= Plc[e]
      PROVE  r.curr_sym_ = Plc[e]
    <2>1. e \in 1..(NWords + 1) /\ e \in Nat /\ n \in Nat
        BY <1>1, <1>2
    <2>2. Plc[e] \in c..(Len(s) + 1) /\ c \in Nat /\ Plc[e] \in Nat /\ Plc[n] \in Nat
        <3>1. Plc[e] \in 1..(Len(s) + 1) /\ Plc[n] \in 1..(Len(s) + 1)
            BY <1>1, <1>2, <2>1
        <3> QED BY <1>1, <1>2, <1>6, <3>1
    <2>3. LexP!Sym(s, Plc[e]) \notin C
        BY <1>5, <1>6 DEF C
    <2>4. ASSUME NEW q \in c..(Plc[e] - 1) PROVE LexP!Sym(s, q) \in C
        <3>1. q \in 1..Len(s) /\ q \in Nat
            BY <1>1, <1>2, <2>2
        <3>2. LexP!Sym(s, q) \in LexP!Classes
            BY <1>2, <3>1, LexP!SymIs
        <3>3. ASSUME LexP!Sym(s, q) = "newline" PROVE FALSE
            <4>1. PICK x \in 1..NWords : q = Plc[x] /\ Wrd[x].sym = <<"newline">>
                BY <3>1, <3>3, CharOf DEF s
            <4>2. x \in 1..(NWords + 1) /\ x \in Nat
                BY <1>2
            <4>3. ~(x < n)
                <5> SUFFICES ASSUME x < n PROVE FALSE
                    OBVIOUS
                <5>1. (Plc[x] + Size(x)) + 1 <= Plc[n] /\ Size(x) \in Nat \ {0}
                    BY <1>1, PlacesRise, CharIs
                <5>2. q + 2 <= Plc[n]
                    BY <3>1, <4>1, <2>2, <5>1
                <5> QED BY <1>1, <2>2, <3>1, <5>2
            <4>4. ~(e <= x)
                <5> SUFFICES ASSUME e <= x PROVE FALSE
                    OBVIOUS
                <5>0. e >= 1 /\ x <= NWords /\ e <= x
                    BY <1>2, <2>1, <4>2
                <5>1. e = x \/ (e \in 1..NWords /\ e < x)
                    BY ONLY <1>2, <2>1, <4>2, <5>0
                <5>2. e = x \/ ((Plc[e] + Size(e)) + 1 <= Plc[x] /\ Size(e) \in Nat)
                    BY <4>2, <5>1, PlacesRise, CharIs
                <5>3. Plc[e] <= q
                    BY <2>2, <3>1, <4>1, <5>2
                <5>4. q \in c..(Plc[e] - 1)
                    OBVIOUS
                <5> QED BY ONLY <2>2, <3>1, <5>3, <5>4
            <4>5. x \in n..(e - 1)
                BY <2>1, <4>2, <4>3, <4>4
            <4> QED BY <1>6, <4>1, <4>5
        <3> QED BY <3>2, <3>3 DEF C
    <2> QED BY <1>1, <1>2, <1>4, <1>5, <2>2, <2>3, <2>4, RunEndAt
<1>7. ASSUME NEW j \in 1..NLines, n \in Fst[j]..LineStop(j) PROVE Before(r, LineStop(j))
    <2> DEFINE e == LineStop(j)
    <2>1. /\ Fst[j] \in 1..NWords /\ e \in Fst[j]..NWords /\ Wrd[e] = Newline
          /\ \A a \in Fst[j]..(e - 1) : Wrd[a] \in SourceWords
        BY LineFacts
    <2>2. e \in n..(NWords + 1) /\ e \in 1..NWords /\ n \in Nat /\ e \in Nat
        BY <1>2, <1>7, <2>1
    <2>3. Stops(e)
        BY DEF Stops
    <2> HIDE DEF e
    <2>4. LexP!Sym(s, Plc[e]) = "newline"
        <3>1. /\ Size(e) \in Nat \ {0}
              /\ \A i \in 0..(Size(e) - 1) : LexP!Sym(src.text, Plc[e] + i) = Wrd[e].sym[i + 1]
            BY <2>2, CharIs
        <3>2. 0 \in 0..(Size(e) - 1) /\ 0 + 1 = 1
            BY <3>1
        <3>3. Plc[e] \in Nat
            <4>1. e \in 1..(NWords + 1)
                BY <1>2, <2>2
            <4> QED BY <4>1, PlacesRise
        <3>4. Plc[e] + 0 = Plc[e]
            BY <3>3
        <3>5. Wrd[e].sym[1] = "newline"
            <4>1. Newline.sym = <<"newline">>
                BY DEF Newline
            <4> QED BY <2>1, <4>1
        <3> QED BY <3>1, <3>2, <3>4, <3>5 DEF s
    <2>5. ASSUME NEW a \in n..(e - 1) PROVE Wrd[a].sym # <<"newline">>
        <3>1. a \in Fst[j]..(e - 1)
            BY <1>2, <1>7, <2>1, <2>2
        <3>2. Wrd[a] \in SourceWords
            BY <2>1, <3>1
        <3> QED BY <3>2, WordChars DEF WordType
    <2>6. Plc[n] <= Plc[e]
        <3>1. n = e \/ (n \in 1..NWords /\ n < e)
            BY <1>1, <1>2, <2>2
        <3>2. n = e \/ ((Plc[n] + Size(n)) + 1 <= Plc[e] /\ Size(n) \in Nat)
            BY <2>2, <3>1, PlacesRise, CharIs
        <3>3. Plc[n] \in Nat /\ Plc[e] \in Nat
            BY <1>1, <1>2, <2>2, PlacesRise
        <3> QED BY ONLY <3>2, <3>3
    <2>7. r.curr_sym_ = Plc[e]
        BY <1>6, <2>2, <2>4, <2>5, <2>6
    <2>8. e \in 1..(NWords + 1)
        BY <1>2, <2>2
    <2> QED BY <1>3, <2>3, <2>7, <2>8 DEF Before, e, s
<1>8. ASSUME n = NWords + 1 PROVE Before(r, n)
    <2>1. n \in n..(NWords + 1) /\ n..(n - 1) = {} /\ Plc[n] <= Plc[n]
        BY <1>1, <1>2, <1>8
    <2>2. LexP!Sym(s, Plc[n]) = "end"
        BY <1>2, <1>8, LexP!SymIs
    <2>3. r.curr_sym_ = Plc[n]
        BY <1>6, <2>1, <2>2
    <2> QED BY <1>1, <1>3, <2>3 DEF Before, s
<1> QED BY <1>7, <1>8 DEF r

-----------------------------------------------------------------------------
(* The pool of a round.                                                    *)

IsObj(o) == o = [tag |-> o.tag, val |-> o.val] /\ o.tag \in {"INT", "DEC"}

PoolOk(q) ==
    /\ q.capacity \in Nat /\ q.nobjs \in 0..q.capacity
    /\ q.objs.room = q.capacity /\ DOMAIN q.objs.cells = 0..(q.capacity - 1)
    /\ \A i \in 0..(q.nobjs - 1) : IsObj(q.objs.cells[i])

Kept(p, q) ==
    /\ PoolOk(p) /\ PoolOk(q) /\ p.nobjs <= q.nobjs
    /\ \A i \in 0..(p.nobjs - 1) : q.objs.cells[i] = p.objs.cells[i]

(* An object is in a pool, at an index.                                    *)
Holds(q, idx, obj) == PoolOk(q) /\ idx \in 0..(q.nobjs - 1) /\ q.objs.cells[idx] = obj

LEMMA KeptHolds ==
    ASSUME NEW p, NEW q, Kept(p, q), NEW idx, NEW obj, Holds(p, idx, obj)
    PROVE  Holds(q, idx, obj)
<1>1. p.nobjs \in Nat /\ q.nobjs \in Nat /\ p.nobjs <= q.nobjs /\ idx \in 0..(p.nobjs - 1)
    BY DEF Kept, PoolOk, Holds
<1>2. idx \in 0..(q.nobjs - 1)
    BY <1>1
<1> QED BY <1>1, <1>2 DEF Kept, Holds

LEMMA KeptTrans ==
    ASSUME NEW p, NEW q, NEW r, Kept(p, q), Kept(q, r)
    PROVE  Kept(p, r)
<1>1. p.nobjs \in Nat /\ q.nobjs \in Nat /\ r.nobjs \in Nat /\ p.nobjs <= q.nobjs /\ q.nobjs <= r.nobjs
    BY DEF Kept, PoolOk
<1>2. p.nobjs <= r.nobjs
    BY <1>1
<1>3. ASSUME NEW i \in 0..(p.nobjs - 1) PROVE r.objs.cells[i] = p.objs.cells[i]
    <2>1. i \in 0..(q.nobjs - 1)
        BY <1>1
    <2> QED BY <2>1 DEF Kept
<1> QED BY <1>2, <1>3 DEF Kept

LEMMA KeptSelf ==
    ASSUME NEW p, PoolOk(p)
    PROVE  Kept(p, p)
<1>1. p.nobjs \in Nat
    BY DEF PoolOk
<1> QED BY <1>1 DEF Kept

LEMMA StoreKeeps ==
    ASSUME NEW p, IsPool(p), PoolOk(p), p.nobjs < p.capacity, NEW obj, IsObj(obj)
    PROVE  LET q == Pool!Store(p, obj) IN Kept(p, q) /\ Holds(q, p.nobjs, obj)
<1> DEFINE q == Pool!Store(p, obj)
<1>1. /\ q.nobjs = p.nobjs + 1 /\ q.capacity = p.capacity /\ q.objs.room = p.objs.room
      /\ q.objs.cells = [i \in DOMAIN p.objs.cells |-> IF i = p.nobjs THEN obj ELSE p.objs.cells[i]]
    BY StoreIs
<1> HIDE DEF q
<1>2. /\ p.capacity \in Nat /\ p.nobjs \in Nat /\ p.objs.room = p.capacity
      /\ DOMAIN p.objs.cells = 0..(p.capacity - 1)
      /\ \A i \in 0..(p.nobjs - 1) : IsObj(p.objs.cells[i])
    BY DEF PoolOk
<1>3. q.nobjs \in 0..q.capacity /\ q.nobjs \in Nat /\ p.nobjs <= q.nobjs /\ p.nobjs \in 0..(q.nobjs - 1)
    BY <1>1, <1>2
<1>4. q.objs.cells[p.nobjs] = obj
    <2>1. p.nobjs \in DOMAIN p.objs.cells
        BY <1>2
    <2> QED BY <1>1, <2>1
<1>5. ASSUME NEW i \in 0..(p.nobjs - 1) PROVE q.objs.cells[i] = p.objs.cells[i]
    <2>1. i \in DOMAIN p.objs.cells /\ i # p.nobjs
        BY <1>2
    <2> QED BY <1>1, <2>1
<1>6. ASSUME NEW i \in 0..(q.nobjs - 1) PROVE IsObj(q.objs.cells[i])
    <2>1. i = p.nobjs \/ i \in 0..(p.nobjs - 1)
        BY <1>1, <1>2
    <2> QED BY <1>2, <1>4, <1>5, <2>1
<1>7. DOMAIN q.objs.cells = 0..(q.capacity - 1) /\ q.objs.room = q.capacity /\ q.capacity \in Nat
    BY <1>1, <1>2
<1>8. PoolOk(q)
    BY <1>3, <1>6, <1>7 DEF PoolOk
<1> QED BY <1>3, <1>4, <1>5, <1>8 DEF Kept, Holds, q

(* What is found is what was looked for.                                   *)
LEMMA LookUpFinds ==
    ASSUME NEW p, PoolOk(p), NEW obj, IsObj(obj), Pool!obj_pool_look_up(p, obj).idx # BAD_IDX
    PROVE  Holds(p, Pool!obj_pool_look_up(p, obj).idx, obj)
<1> DEFINE T == Pool!Hits(p, obj)
           idx == Pool!obj_pool_look_up(p, obj).idx
<1>1. idx = Pool!FirstOf(T)
    BY DEF Pool!obj_pool_look_up
<1>2. p.nobjs \in Nat /\ \A i \in 0..(p.nobjs - 1) : IsObj(p.objs.cells[i])
    BY DEF PoolOk
<1>3. T \in SUBSET Nat
    BY <1>2 DEF Pool!Hits
<1>4. ASSUME NEW i \in T PROVE i \in 0..(p.nobjs - 1) /\ p.objs.cells[i] = obj
    <2> DEFINE o == p.objs.cells[i]
    <2>1. i \in 0..(p.nobjs - 1) /\ o.tag = obj.tag /\ Pool!obj_is_equal(o, obj).eq
        BY <1>4 DEF Pool!Hits
    <2>2. IsObj(o)
        BY <1>2, <2>1
    <2> HIDE DEF o
    <2>3. o.val = obj.val
        BY <2>1 DEF Pool!obj_is_equal, Pool!val_is_equal
    <2>4. o = obj
        BY <2>1, <2>2, <2>3 DEF IsObj
    <2> QED BY <2>1, <2>4 DEF o
<1>5. idx # BAD_IDX
    OBVIOUS
<1> HIDE DEF T, idx
<1>6. T # {}
    BY <1>1, <1>5 DEF Pool!FirstOf
<1>7. idx \in T
    <2>1. \E i \in T : \A j \in T : i <= j
        BY <1>3, <1>6, LeastNumber
    <2>2. Pool!FirstOf(T) = CHOOSE i \in T : \A j \in T : i <= j
        BY <1>6 DEF Pool!FirstOf
    <2> QED BY <1>1, <2>1, <2>2
<1>8. Holds(p, idx, obj)
    BY <1>4, <1>7 DEF Holds
<1> QED BY <1>8 DEF idx

-----------------------------------------------------------------------------
(* What a step of a round leaves, writes and reports.                      *)

ToldOf(w, kinds) == \E report \in w.reports : report.at = w.at /\ report.kind \in kinds

(* Something is wrong that is not said of every register.                  *)
Told(w) == \E report \in w.reports : report.at = w.at /\ report.kind # "extra"

LeavesLex(v, u) == u.at = v.at /\ u.assm.lex_ = v.assm.lex_ /\ v.reports \subseteq u.reports
Quiet(v, u)     == u.origin = v.origin /\ u.assm.code_.instr_ = v.assm.code_.instr_
Wrote(v, u, instr) ==
    u.origin = Append(v.origin, v.at) /\ u.assm.code_.instr_ = Append(v.assm.code_.instr_, instr)
Gave(v, u, x)   == u.args = Append(v.args, x) /\ (u.over <=> v.over)

LEMMA ErrorIs ==
    ASSUME NEW w, Doing(w), NEW kind
    PROVE  LET u == error(w, kind) IN
           /\ Doing(u) /\ LeavesLex(w, u) /\ u.assm = w.assm /\ Quiet(w, u)
           /\ u.args = w.args /\ u.over = w.over /\ ToldOf(u, {kind}) /\ (kind # "extra" => Told(u))
<1> DEFINE u == error(w, kind)
           r == [at |-> w.at, kind |-> kind]
<1>1. IsRound(w) /\ Doing(u)
    BY DoingIs, DoingSteps
<1>2. u.assm = w.assm /\ u.origin = w.origin /\ u.at = w.at /\ u.args = w.args /\ u.over = w.over
    BY <1>1, SameFields
<1>3. u.reports = w.reports \cup {r}
    BY <1>1 DEF error, IsRound, Rnd
<1>4. r.at = w.at /\ r.kind = kind
    OBVIOUS
<1> HIDE DEF u, r
<1>5. ToldOf(u, {kind}) /\ (kind # "extra" => Told(u))
    BY <1>2, <1>3, <1>4 DEF ToldOf, Told
<1> QED BY <1>1, <1>2, <1>3, <1>5 DEF LeavesLex, Quiet, u

LEMMA ReturnIs ==
    ASSUME NEW w, Doing(w), NEW arg
    PROVE  LET u == Return(w, arg) IN
           /\ Doing(u) /\ LeavesLex(w, u) /\ u.assm = w.assm /\ Quiet(w, u) /\ Gave(w, u, arg)
           /\ u.reports = w.reports
<1> DEFINE u == Return(w, arg)
<1>1. IsRound(w) /\ Doing(u)
    BY DoingIs, DoingSteps
<1>2. u.assm = w.assm /\ u.origin = w.origin /\ u.at = w.at /\ u.args = Append(w.args, arg) /\ u.over = w.over
    BY <1>1, SameFields
<1>3. u.reports = w.reports
    BY <1>1 DEF Return, IsRound, Rnd
<1> HIDE DEF u
<1> QED BY <1>1, <1>2, <1>3 DEF LeavesLex, Quiet, Gave, u

LEMMA TokIs ==
    ASSUME NEW w, Doing(w)
    PROVE  LET u == get_tok(w) IN
           /\ Doing(u) /\ u.assm.lex_ = Lex!lex_get_tok(w.assm.lex_, FALSE)
           /\ u.assm.obj_pool_ = w.assm.obj_pool_ /\ Quiet(w, u)
           /\ u.at = w.at /\ u.args = w.args /\ u.over = w.over /\ u.reports = w.reports
<1> DEFINE t == Lex!lex_get_tok(w.assm.lex_, FALSE)
           u == get_tok(w)
<1>1. IsRound(w) /\ IsAsm(w.assm) /\ Doing(u)
    BY DoingIs, DoingSteps
<1>2. u = [w EXCEPT !.assm.lex_ = t]
    BY DEF get_tok
<1> HIDE DEF t
<1>3. /\ u.assm.lex_ = t /\ u.assm.code_ = w.assm.code_ /\ u.assm.obj_pool_ = w.assm.obj_pool_
      /\ u.origin = w.origin /\ u.at = w.at /\ u.args = w.args /\ u.over = w.over /\ u.reports = w.reports
    BY <1>1, <1>2 DEF IsRound, Rnd, IsAsm, Asm
<1> HIDE DEF u
<1> QED BY <1>1, <1>3 DEF Quiet, u, t

LEMMA SkipIs ==
    ASSUME NEW w, Doing(w)
    PROVE  LET u == skip_line(w) IN
           /\ Doing(u) /\ u.assm.lex_ = Lex!lex_skip_line(w.assm.lex_)
           /\ u.assm.obj_pool_ = w.assm.obj_pool_ /\ Quiet(w, u)
           /\ u.at = w.at /\ u.over = w.over /\ u.reports = w.reports
<1> DEFINE t == Lex!lex_skip_line(w.assm.lex_)
           u == skip_line(w)
<1>1. IsRound(w) /\ IsAsm(w.assm) /\ Doing(u)
    BY DoingIs, DoingSteps
<1>2. u = [w EXCEPT !.assm.lex_ = t]
    BY DEF skip_line
<1> HIDE DEF t
<1>3. /\ u.assm.lex_ = t /\ u.assm.code_ = w.assm.code_ /\ u.assm.obj_pool_ = w.assm.obj_pool_
      /\ u.origin = w.origin /\ u.at = w.at /\ u.over = w.over /\ u.reports = w.reports
    BY <1>1, <1>2 DEF IsRound, Rnd, IsAsm, Asm
<1> HIDE DEF u
<1> QED BY <1>1, <1>3 DEF Quiet, u, t

(* An instruction is written, or the process is over.                      *)
LEMMA WriteIs ==
    ASSUME NEW w, Doing(w), NEW instr
    PROVE  LET u == code_write(w, instr) IN
           /\ Doing(u)
           /\ \/ u.over
              \/ /\ LeavesLex(w, u) /\ u.assm.obj_pool_ = w.assm.obj_pool_ /\ Wrote(w, u, instr)
                 /\ u.args = w.args /\ u.over = w.over /\ u.ok /\ u.reports = w.reports
<1> DEFINE u == code_write(w, instr)
           c == w.assm.code_
           d == code_push(c, instr)
<1>1. IsRound(w) /\ IsAsm(w.assm) /\ IsCode(c) /\ Doing(u)
    BY DoingIs, DoingSteps DEF IsAsm
<1>2. CASE full(c) /\ ~w.mem
    <2> DEFINE v == fatal(w)
    <2>1. u = [v EXCEPT !.ok = FALSE]
        BY <1>2 DEF code_write
    <2>2. IsRound(v) /\ v.over
        <3>1. Doing(v)
            BY DoingSteps
        <3> QED BY <1>1, <3>1, DoingIs, SameFields
    <2> HIDE DEF v
    <2>3. \A ok : [v EXCEPT !.ok = ok].over = v.over
        BY <2>2, SameFields
    <2>4. [v EXCEPT !.ok = FALSE].over = v.over
        BY ONLY <2>3, Zenon
    <2> HIDE DEF u
    <2>5. u.over
        BY <2>1, <2>2, <2>4
    <2> QED BY <1>1, <2>5 DEF u
<1>3. CASE ~(full(c) /\ ~w.mem)
    <2>1. u = [w EXCEPT !.assm.code_ = d, !.origin = Append(w.origin, w.at), !.ok = TRUE]
        BY <1>3 DEF code_write
    <2>2. d.instr_ = Append(c.instr_, instr)
        BY <1>1 DEF code_push, code_grow, IsCode
    <2> HIDE DEF d
    <2>3. ASSUME NEW n, NEW k
          PROVE  LET y == [w EXCEPT !.assm.code_ = d, !.origin = n, !.ok = k]
                 IN /\ y.assm.code_ = d /\ y.assm.obj_pool_ = w.assm.obj_pool_ /\ y.assm.lex_ = w.assm.lex_
                    /\ y.origin = n /\ y.at = w.at /\ y.args = w.args /\ y.over = w.over
                    /\ y.reports = w.reports
        BY <1>1 DEF IsRound, Rnd, IsAsm, Asm
    <2> DEFINE n == Append(w.origin, w.at)
    <2> HIDE DEF n
    <2>4. LET y == [w EXCEPT !.assm.code_ = d, !.origin = n, !.ok = TRUE]
          IN /\ y.assm.code_ = d /\ y.assm.obj_pool_ = w.assm.obj_pool_ /\ y.assm.lex_ = w.assm.lex_
             /\ y.origin = n /\ y.at = w.at /\ y.args = w.args /\ y.over = w.over
             /\ y.reports = w.reports
        BY ONLY <2>3, Zenon
    <2>3a. \A m, k : k => [w EXCEPT !.assm.code_ = d, !.origin = m, !.ok = k].ok
        BY <1>1 DEF IsRound, Rnd
    <2>4a. [w EXCEPT !.assm.code_ = d, !.origin = n, !.ok = TRUE].ok
        BY ONLY <2>3a, Zenon
    <2>5. u = [w EXCEPT !.assm.code_ = d, !.origin = n, !.ok = TRUE]
        BY <2>1 DEF n
    <2> HIDE DEF u
    <2>6. /\ u.assm.code_ = d /\ u.assm.obj_pool_ = w.assm.obj_pool_ /\ u.assm.lex_ = w.assm.lex_
          /\ u.origin = n /\ u.at = w.at /\ u.args = w.args /\ u.over = w.over /\ u.ok
          /\ u.reports = w.reports
        BY ONLY <2>4, <2>4a, <2>5, Zenon
    <2>7. LeavesLex(w, u)
        BY <2>6 DEF LeavesLex
    <2>8. Wrote(w, u, instr)
        BY <2>2, <2>6 DEF Wrote, n
    <2>9. /\ LeavesLex(w, u) /\ u.assm.obj_pool_ = w.assm.obj_pool_ /\ Wrote(w, u, instr)
          /\ u.args = w.args /\ u.over = w.over /\ u.ok /\ u.reports = w.reports
        BY ONLY <2>6, <2>7, <2>8, Zenon
    <2>10. Doing(u)
        BY <1>1 DEF u
    <2> QED BY ONLY <2>9, <2>10, Zenon DEF u
<1> QED BY <1>2, <1>3

LEMMA StoreRound ==
    ASSUME NEW w, Doing(w), NEW obj
    PROVE  LET u == [w EXCEPT !.assm.obj_pool_ = Pool!Store(@, obj)] IN
           /\ Doing(u) /\ LeavesLex(w, u) /\ u.assm.obj_pool_ = Pool!Store(w.assm.obj_pool_, obj) /\ Quiet(w, u)
           /\ u.args = w.args /\ u.over = w.over
<1> DEFINE p == Pool!Store(w.assm.obj_pool_, obj)
           u == [w EXCEPT !.assm.obj_pool_ = Pool!Store(@, obj)]
<1>1. IsRound(w) /\ IsAsm(w.assm) /\ Doing(u)
    BY DoingIs, DoingSteps
<1>2. u = [w EXCEPT !.assm.obj_pool_ = p]
    OBVIOUS
<1> HIDE DEF p
<1>3. /\ u.assm.lex_ = w.assm.lex_ /\ u.assm.code_ = w.assm.code_ /\ u.assm.obj_pool_ = p
      /\ u.origin = w.origin /\ u.at = w.at /\ u.args = w.args /\ u.over = w.over /\ u.reports = w.reports
    BY <1>1, <1>2 DEF IsRound, Rnd, IsAsm, Asm
<1> HIDE DEF u
<1> QED BY <1>1, <1>3 DEF LeavesLex, Quiet, u, p

-----------------------------------------------------------------------------
(* The arguments of a command.                                             *)

RegisterAt(w, a) ==
    /\ src \in Rendered /\ a \in 1..NWords /\ Wrd[a] \in SourceWords /\ IsRegister(Wrd[a])
    /\ Tok(w).type = "IDENTIFIER" /\ Tok(w).beg = Plc[a]

LEMMA RegisterNum ==
    ASSUME src \in Rendered, NEW a \in 1..NWords, Wrd[a] \in SourceWords, IsRegister(Wrd[a])
    PROVE  /\ strtol(Plc[a] + 1).num = Wrd[a].num /\ Wrd[a].num \in 0..(G_INSTR_N_REGISTERS - 1)
           /\ src.at[Plc[a]].name = "R"
<1> DEFINE s   == src.text
           p   == Plc[a]
           sym == Wrd[a].sym
           b   == p + 1
<1>1. Stands(s, p, sym)
    BY WordStands
<1>2. sym = <<"letter", "digit">> /\ Len(sym) = 2 /\ sym[1] = "letter" /\ sym[2] = "digit" /\ Wrd[a].num < G_INSTR_N_REGISTERS
    BY DEF IsRegister
<1>3. /\ s \in Seq(LexP!Classes) /\ Len(s) \in Nat /\ p \in 1..Len(s) /\ p + 2 \in 1..Len(s)
      /\ LexP!Sym(s, p + 2) = "blank" /\ LexP!Sym(s, p + (2 - 1)) = "digit"
    BY <1>1, <1>2 DEF Stands
<1>4. src.at[p] = Wrd[a] /\ src.at[b] = Wrd[a]
    <2>1. /\ Size(a) = 2
          /\ \A i \in 0..(Size(a) - 1) : src.at[Plc[a] + i] = Wrd[a]
        BY <1>2, CharIs DEF Size
    <2>2. 0 \in 0..(Size(a) - 1) /\ 1 \in 0..(Size(a) - 1) /\ p + 0 = p
        BY <1>3, <2>1
    <2> QED BY <2>1, <2>2
<1>5. Wrd[a].num \in 0..(G_INSTR_N_REGISTERS - 1)
    <2>1. Wrd[a].num \in Int
        BY AssemblerAssumption
    <2>2. ~(Wrd[a].num < 0)
        BY <1>2, WordAssumption
    <2> QED BY <1>2, <2>1, <2>2, Sizes
<1> HIDE DEF s, p, sym
<1>6. b \in 1..(Len(s) + 1) /\ b \in Nat /\ LexP!Sym(s, b) = "digit"
    BY <1>3
<1> HIDE DEF b
<1>7. Lex!RunEnd(s, b, Lex!IsSpace) = b
    <2>1. "end" \notin Lex!IsSpace /\ "digit" \notin Lex!IsSpace
        BY DEF Lex!IsSpace
    <2>2. b \in b..(Len(s) + 1) /\ b..(b - 1) = {}
        BY <1>3, <1>6
    <2> QED BY <1>3, <1>6, <2>1, <2>2, RunEndAt, SameRunEnd
<1>8. Lex!Sym(s, b) # "sign"
    BY <1>6, SameSym
<1>9. Lex!RunEnd(s, b, {"digit"}) # b
    <2>1. LexP!Sym(s, LexP!RunEnd(s, b, {"digit"})) \notin {"digit"}
        BY <1>3, <1>6, LexP!RunEndIs
    <2> QED BY <1>6, <2>1, SameRunEnd
<1>10. strtol(b).num = src.at[b].num
    BY <1>7, <1>8, <1>9 DEF strtol, s
<1>11. src.at[p].name = "R"
    BY <1>4 DEF IsRegister
<1> QED BY <1>4, <1>5, <1>10, <1>11 DEF b, p

LEMMA RegisterRead ==
    ASSUME NEW w, Doing(w)
    PROVE  LET u == R_of(w) IN
           /\ Doing(u) /\ LeavesLex(w, u) /\ u.assm = w.assm /\ Quiet(w, u)
           /\ \E x : Gave(w, u, x) /\ \A a : RegisterAt(w, a) => x = Wrd[a].num /\ x # G_INSTR_ARG_INVALID
           /\ Told(u) \/ (tok_is_identifier(Tok(w)) /\ src.at[Tok(w).beg].name \in RNames)
<1> DEFINE Reads1(u, x) ==
               Doing(u) /\ LeavesLex(w, u) /\ u.assm = w.assm /\ Quiet(w, u) /\ Gave(w, u, x)
<1>1. ASSUME NEW v, Doing(v), LeavesLex(w, v), v.assm = w.assm, Quiet(w, v), v.args = w.args, v.over = w.over,
             NEW x
      PROVE  Reads1(Return(v, x), x) /\ (Told(v) => Told(Return(v, x)))
    <2> DEFINE u == Return(v, x)
    <2>1. /\ Doing(u) /\ LeavesLex(v, u) /\ u.assm = v.assm /\ Quiet(v, u) /\ Gave(v, u, x)
          /\ u.reports = v.reports
        BY <1>1, ReturnIs
    <2> HIDE DEF u
    <2>2. Reads1(u, x)
        BY <1>1, <2>1 DEF LeavesLex, Quiet, Gave
    <2>3. Told(v) => Told(u)
        BY <2>1 DEF Told, LeavesLex
    <2> QED BY <2>2, <2>3 DEF u
<1>2. ASSUME NEW kind, kind # "extra", NEW x PROVE Reads1(Return(error(w, kind), x), x) /\ Told(Return(error(w, kind), x))
    <2> DEFINE v == error(w, kind)
    <2>1. /\ Doing(v) /\ LeavesLex(w, v) /\ v.assm = w.assm /\ Quiet(w, v)
          /\ v.args = w.args /\ v.over = w.over /\ Told(v)
        BY <1>2, ErrorIs
    <2> HIDE DEF v
    <2>2. Reads1(Return(v, x), x) /\ (Told(v) => Told(Return(v, x)))
        BY <1>1, <2>1
    <2> QED BY <2>1, <2>2 DEF v
<1>3. CASE ~tok_is_identifier(Tok(w))
    <2>1. R_of(w) = Return(error(w, "expected"), 0)
        BY <1>3 DEF R_of
    <2>2. \A a : ~RegisterAt(w, a)
        BY <1>3 DEF RegisterAt, tok_is_identifier
    <2>3. Reads1(Return(error(w, "expected"), 0), 0) /\ Told(Return(error(w, "expected"), 0))
        BY <1>2
    <2> QED BY <2>1, <2>2, <2>3
<1>4. CASE tok_is_identifier(Tok(w)) /\ src.at[Tok(w).beg].name \notin RNames
    <2>1. R_of(w) = Return(error(w, "no register"), G_INSTR_ARG_INVALID)
        BY <1>4 DEF R_of, handle_register
    <2>2. ASSUME NEW a, RegisterAt(w, a) PROVE FALSE
        BY <1>4, <2>2, RegisterNum, AssemblerAssumption DEF RegisterAt
    <2> DEFINE x == G_INSTR_ARG_INVALID
    <2>3. Reads1(Return(error(w, "no register"), x), x) /\ Told(Return(error(w, "no register"), x))
        BY <1>2
    <2> QED BY <2>1, <2>2, <2>3
<1>5. CASE tok_is_identifier(Tok(w)) /\ src.at[Tok(w).beg].name \in RNames
    <2> DEFINE num == strtol(Tok(w).beg + 1).num
               R   == arg_to_R(num % ArgValues)
               c   == Lex!Sym(src.text, strtol(Tok(w).beg + 1).nend)
               v   == Extra(Register(w, R), c)
    <2>1. R_of(w) = Return(v, R)
        BY <1>5 DEF R_of, handle_register
    <2>2. ASSUME NEW y, Doing(y), LeavesLex(w, y), y.assm = w.assm, Quiet(w, y), y.args = w.args, y.over = w.over
          PROVE  \A kind : LET e == error(y, kind) IN
                 /\ Doing(e) /\ LeavesLex(w, e) /\ e.assm = w.assm /\ Quiet(w, e) /\ e.args = w.args /\ e.over = w.over
        <3> SUFFICES ASSUME NEW kind
                     PROVE  LET e == error(y, kind) IN
                            /\ Doing(e) /\ LeavesLex(w, e) /\ e.assm = w.assm /\ Quiet(w, e)
                            /\ e.args = w.args /\ e.over = w.over
            OBVIOUS
        <3> DEFINE e == error(y, kind)
        <3>1. /\ Doing(e) /\ LeavesLex(y, e) /\ e.assm = y.assm /\ Quiet(y, e)
              /\ e.args = y.args /\ e.over = y.over
            BY <2>2, ErrorIs
        <3> HIDE DEF e
        <3>2. LeavesLex(w, e) /\ Quiet(w, e)
            BY <2>2, <3>1 DEF LeavesLex, Quiet
        <3> QED BY <2>2, <3>1, <3>2 DEF e
    <2>3. Doing(w) /\ LeavesLex(w, w) /\ Quiet(w, w)
        BY DEF LeavesLex, Quiet
    <2> DEFINE y == Register(w, R)
    <2>4. Doing(y) /\ LeavesLex(w, y) /\ y.assm = w.assm /\ Quiet(w, y) /\ y.args = w.args /\ y.over = w.over
        <3> HIDE DEF R
        <3> QED BY <2>2, <2>3 DEF Register
    <2>5. v = error(y, "extra")
        <3>1. c \notin Lex!IsSpace \/ c # "end"
            BY DEF Lex!IsSpace
        <3> HIDE DEF c, R
        <3> QED BY <3>1 DEF Extra
    <2> HIDE DEF y
    <2>6. Doing(v) /\ LeavesLex(w, v) /\ v.assm = w.assm /\ Quiet(w, v) /\ v.args = w.args /\ v.over = w.over
        BY <2>2, <2>4, <2>5
    <2> HIDE DEF v, R
    <2>7. Reads1(Return(v, R), R)
        BY <1>1, <2>6
    <2>8. ASSUME NEW a, RegisterAt(w, a) PROVE R = Wrd[a].num /\ R # G_INSTR_ARG_INVALID
        <3>1. num = Wrd[a].num /\ num \in 0..(G_INSTR_N_REGISTERS - 1)
            BY <2>8, RegisterNum DEF RegisterAt
        <3> HIDE DEF num
        <3>2. num < ArgValues /\ num < G_INSTR_ARG_INVALID /\ num \in Nat /\ num < G_INSTR_ARG_R_MAX
            <4>1. G_INSTR_N_REGISTERS <= ArgValues - 1 /\ ArgValues \in Nat
                BY CodeAssumption DEF G_INSTR_N_REGISTERS
            <4> QED BY <3>1, <4>1, Sizes DEF G_INSTR_ARG_INVALID
        <3>3. num % ArgValues = num
            BY <3>2, Sizes
        <3>4. R = num
            BY <3>2, <3>3 DEF R, arg_to_R, Fit
        <3>5. G_INSTR_ARG_INVALID \in Nat
            BY Sizes
        <3> QED BY <3>1, <3>2, <3>4, <3>5
    <2> QED BY <1>5, <2>1, <2>7, <2>8
<1> QED BY <1>3, <1>4, <1>5

(* What the argument for a constant is: its place, or the register that an *)
(* instruction loads it into, or an error.                                 *)
Stays(w, u) == Doing(u) /\ LeavesLex(w, u) /\ Kept(w.assm.obj_pool_, u.assm.obj_pool_)

ConstLocated(w, u, x, obj) ==
    \E idx : /\ Holds(u.assm.obj_pool_, idx, obj) /\ x # G_INSTR_ARG_INVALID
             /\ \/ Quiet(w, u) /\ x = idx + G_INSTR_N_REGISTERS
                \/ Wrote(w, u, RC("move", LastReg, idx + G_INSTR_N_REGISTERS)) /\ x = LastReg

Lacking(w, u, x) == Quiet(w, u) /\ x = G_INSTR_ARG_INVALID /\ ToldOf(u, {"too many", "no memory"})

ConstGiven(w, u, obj) == \E x : Stays(w, u) /\ Gave(w, u, x) /\ (ConstLocated(w, u, x, obj) \/ Lacking(w, u, x))

LEMMA Fields ==
    ASSUME NEW idx \in Nat
    PROVE  /\ \A operand : LET x == arg_formatter(operand, idx) IN
                  x # G_INSTR_ARG_INVALID => x = idx + G_INSTR_N_REGISTERS
           /\ LET x == arg_to_C(idx) IN x # G_INSTR_ARG_INVALID => x = idx + G_INSTR_N_REGISTERS
           /\ LastReg \in Nat /\ LastReg # G_INSTR_ARG_INVALID /\ G_INSTR_N_REGISTERS - 1 = LastReg
<1>1. \A operand : LET x == arg_formatter(operand, idx) IN
          x # G_INSTR_ARG_INVALID => x = idx + G_INSTR_N_REGISTERS
    BY DEF arg_formatter, arg_to_A, arg_to_B, Fit
<1>2. LET x == arg_to_C(idx) IN x # G_INSTR_ARG_INVALID => x = idx + G_INSTR_N_REGISTERS
    BY DEF arg_to_C, Fit
<1>3. G_INSTR_N_REGISTERS <= ArgValues - 1 /\ ArgValues \in Nat /\ G_INSTR_N_REGISTERS \in Nat \ {0}
    BY CodeAssumption, Sizes DEF G_INSTR_N_REGISTERS
<1>4. LastReg \in Nat /\ LastReg # G_INSTR_ARG_INVALID
    BY <1>3 DEF LastReg, G_INSTR_ARG_INVALID
<1> QED BY <1>1, <1>2, <1>4 DEF LastReg

LEMMA ConstAt ==
    ASSUME NEW w, NEW v, Doing(v), LeavesLex(w, v), Quiet(w, v), v.args = w.args, v.over = w.over,
           NEW idx, NEW obj, Holds(v.assm.obj_pool_, idx, obj), Kept(w.assm.obj_pool_, v.assm.obj_pool_), NEW operand
    PROVE  LET u == Constants(v, idx, arg_formatter(operand, idx)) IN u.over \/ ConstGiven(w, u, obj)
<1> DEFINE f == arg_formatter(operand, idx)
           u == Constants(v, idx, f)
<1>1. idx \in Nat
    BY DEF Holds, PoolOk
<1>2. f # G_INSTR_ARG_INVALID => f = idx + G_INSTR_N_REGISTERS
    BY <1>1, Fields
<1>3. LastReg \in Nat /\ LastReg # G_INSTR_ARG_INVALID /\ G_INSTR_N_REGISTERS - 1 = LastReg
    BY <1>1, Fields
<1>4. CASE f # G_INSTR_ARG_INVALID
    <2>1. u = Return(v, f)
        BY <1>4 DEF Constants
    <2> HIDE DEF f, u
    <2>2. /\ Doing(u) /\ LeavesLex(v, u) /\ u.assm = v.assm /\ Quiet(v, u) /\ Gave(v, u, f)
        BY <2>1, ReturnIs
    <2>3. Doing(u) /\ LeavesLex(w, u) /\ Quiet(w, u) /\ Gave(w, u, f)
        BY <2>2 DEF LeavesLex, Quiet, Gave
    <2>4. ConstLocated(w, u, f, obj)
        BY <1>2, <1>4, <2>2, <2>3 DEF ConstLocated
    <2>5. ConstGiven(w, u, obj)
        BY <2>2, <2>3, <2>4 DEF ConstGiven, Stays
    <2> QED BY <2>5 DEF u, f
<1>5. CASE f = G_INSTR_ARG_INVALID
    <2>1. u = load_const_in_reg(v, idx, LastReg)
        BY <1>3, <1>5 DEF Constants
    <2> HIDE DEF f, u
    <2> DEFINE C == arg_to_C(idx)
    <2>2. C # G_INSTR_ARG_INVALID => C = idx + G_INSTR_N_REGISTERS
        BY <1>1, Fields
    <2> HIDE DEF C
    <2>3. CASE C = G_INSTR_ARG_INVALID
        <3> DEFINE e == error(v, "too many")
        <3>1. u = Return(e, G_INSTR_ARG_INVALID)
            BY <2>1, <2>3 DEF load_const_in_reg, C
        <3>2. /\ Doing(e) /\ LeavesLex(v, e) /\ e.assm = v.assm /\ Quiet(v, e)
              /\ e.args = v.args /\ e.over = v.over /\ ToldOf(e, {"too many"})
            BY ErrorIs
        <3> HIDE DEF e
        <3>3. /\ Doing(u) /\ LeavesLex(e, u) /\ u.assm = e.assm /\ Quiet(e, u) /\ Gave(e, u, G_INSTR_ARG_INVALID)
              /\ u.reports = e.reports
            BY <3>1, <3>2, ReturnIs
        <3>4. Doing(u) /\ LeavesLex(w, u) /\ Quiet(w, u) /\ Gave(w, u, G_INSTR_ARG_INVALID)
            BY <3>2, <3>3 DEF LeavesLex, Quiet, Gave
        <3>5. ToldOf(u, {"too many", "no memory"})
            BY <3>2, <3>3 DEF ToldOf, LeavesLex
        <3>6. ConstGiven(w, u, obj)
            BY <3>2, <3>3, <3>4, <3>5 DEF ConstGiven, Stays, Lacking
        <3> QED BY <3>6 DEF u, f
    <2>4. CASE C # G_INSTR_ARG_INVALID
        <3> DEFINE e == code_write(v, RC("move", LastReg, C))
        <3>1. u = Return(e, IF e.ok THEN LastReg ELSE G_INSTR_ARG_INVALID)
            BY <2>1, <2>4 DEF load_const_in_reg, C
        <3>2. /\ Doing(e)
              /\ \/ e.over
                 \/ /\ LeavesLex(v, e) /\ e.assm.obj_pool_ = v.assm.obj_pool_ /\ Wrote(v, e, RC("move", LastReg, C))
                    /\ e.args = v.args /\ e.over = v.over /\ e.ok
            BY WriteIs
        <3> HIDE DEF e
        <3>3. CASE e.over
            <4>1. \A x : Return(e, x).over <=> e.over
                BY <3>2, ReturnIs DEF Gave
            <4> QED BY <3>1, <3>3, <4>1 DEF u, f
        <3>4. CASE ~e.over
            <4>1. u = Return(e, LastReg)
                BY <3>1, <3>2, <3>4
            <4>2. /\ Doing(u) /\ LeavesLex(e, u) /\ u.assm = e.assm /\ Quiet(e, u) /\ Gave(e, u, LastReg)
                BY <3>2, <4>1, ReturnIs
            <4>3. Doing(u) /\ LeavesLex(w, u) /\ Gave(w, u, LastReg) /\ Wrote(w, u, RC("move", LastReg, C))
                BY <3>2, <3>4, <4>2 DEF LeavesLex, Quiet, Gave, Wrote
            <4>4. ConstLocated(w, u, LastReg, obj)
                BY <1>3, <2>2, <2>4, <3>2, <3>4, <4>2, <4>3 DEF ConstLocated
            <4>5. ConstGiven(w, u, obj)
                BY <3>2, <3>4, <4>2, <4>3, <4>4 DEF ConstGiven, Stays
            <4> QED BY <4>5 DEF u, f
        <3> QED BY <3>3, <3>4
    <2> QED BY <2>3, <2>4
<1> QED BY <1>4, <1>5

LEMMA ConstRead ==
    ASSUME NEW w, Doing(w), PoolOk(w.assm.obj_pool_), NEW operand
    PROVE  LET u == handle_constant(w, operand) IN u.over \/ ConstGiven(w, u, make_object(Tok(w)))
<1> DEFINE obj   == make_object(Tok(w))
           pool  == w.assm.obj_pool_
           found == Pool!obj_pool_look_up(pool, obj).idx
           At(v, idx) == Constants(v, idx, arg_formatter(operand, idx))
           stored == [w EXCEPT !.assm.obj_pool_ = Pool!Store(@, obj)]
           none   == Return(error(w, "no memory"), G_INSTR_ARG_INVALID)
           over   == [w EXCEPT !.over = TRUE]
           u == handle_constant(w, operand)
<1>1. \/ u = none \/ u = over
      \/ found # BAD_IDX /\ u = At(w, found)
      \/ pool.nobjs < pool.capacity /\ u = At(stored, pool.nobjs)
    <2>1. CASE found # BAD_IDX
        BY <2>1 DEF handle_constant
    <2>2. CASE found = BAD_IDX /\ pool.nobjs < pool.capacity
        BY <2>2 DEF handle_constant
    <2>3. CASE found = BAD_IDX /\ ~(pool.nobjs < pool.capacity)
        BY <2>3 DEF handle_constant
    <2> QED BY <2>1, <2>2, <2>3
<1>2. IsRound(w) /\ IsPool(pool) /\ Kept(pool, pool)
    BY DoingIs, KeptSelf DEF IsAsm
<1>3. IsObj(obj)
    BY DEF make_object, IsObj
<1>4. LeavesLex(w, w) /\ Quiet(w, w)
    BY DEF LeavesLex, Quiet
<1>5. /\ Doing(stored) /\ LeavesLex(w, stored) /\ stored.assm.obj_pool_ = Pool!Store(pool, obj) /\ Quiet(w, stored)
      /\ stored.args = w.args /\ stored.over = w.over
    BY StoreRound
<1>6. over.over
    BY <1>2, SameFields
<1> HIDE DEF u, stored, over, pool, obj, found
<1>7. CASE found # BAD_IDX /\ u = At(w, found)
    <2>1. Holds(pool, found, obj)
        BY <1>3, <1>7, LookUpFinds DEF found, pool
    <2>2. u.over \/ ConstGiven(w, u, obj)
        BY <1>2, <1>4, <1>7, <2>1, ConstAt DEF pool
    <2> QED BY <2>2 DEF u, obj
<1>8. CASE pool.nobjs < pool.capacity /\ u = At(stored, pool.nobjs)
    <2>1. Kept(pool, Pool!Store(pool, obj)) /\ Holds(Pool!Store(pool, obj), pool.nobjs, obj)
        BY <1>2, <1>3, <1>8, StoreKeeps DEF pool
    <2>2. u.over \/ ConstGiven(w, u, obj)
        BY <1>5, <1>8, <2>1, ConstAt DEF pool
    <2> QED BY <2>2 DEF u, obj
<1>9. CASE u = none
    <2> DEFINE e == error(w, "no memory")
    <2>1. /\ Doing(e) /\ LeavesLex(w, e) /\ e.assm = w.assm /\ Quiet(w, e)
          /\ e.args = w.args /\ e.over = w.over /\ ToldOf(e, {"no memory"})
        BY ErrorIs
    <2> HIDE DEF e
    <2>2. /\ Doing(u) /\ LeavesLex(e, u) /\ u.assm = e.assm /\ Quiet(e, u) /\ Gave(e, u, G_INSTR_ARG_INVALID)
          /\ u.reports = e.reports
        BY <1>9, <2>1, ReturnIs DEF e
    <2>3. Doing(u) /\ LeavesLex(w, u) /\ Quiet(w, u) /\ Gave(w, u, G_INSTR_ARG_INVALID)
        BY <2>1, <2>2 DEF LeavesLex, Quiet, Gave
    <2>4. ToldOf(u, {"too many", "no memory"})
        BY <2>1, <2>2 DEF ToldOf, LeavesLex
    <2>5. ConstGiven(w, u, obj)
        BY <1>2, <2>1, <2>2, <2>3, <2>4 DEF ConstGiven, Stays, Lacking, pool
    <2> QED BY <2>5 DEF u, obj
<1> QED BY <1>1, <1>6, <1>7, <1>8, <1>9 DEF u

-----------------------------------------------------------------------------
(* An argument of a command is read: word a, the next one after n.         *)
ReadOn(v, u, n, a) ==
    /\ Doing(u) /\ u.at = v.at /\ v.reports \subseteq u.reports /\ Kept(v.assm.obj_pool_, u.assm.obj_pool_)
    /\ IsNext(n, a) /\ a \in 1..(NWords + 1) /\ Before(u.assm.lex_, After(a))

LoadsLast(v, u, x) == \E C : Wrote(v, u, RC("move", LastReg, C)) /\ x = LastReg

IsA(a, Kind_(_)) == a \in 1..NWords /\ Wrd[a] \in SourceWords /\ Kind_(Wrd[a])

(* A word that can be an operand, or looks like one.                       *)
Whole(a)     == a \in 1..NWords /\ Wrd[a] \in SourceWords /\ ~IsStuck(Wrd[a].sym)
NamesR(a)    == Whole(a) /\ (IsRegister(Wrd[a]) \/ WrongRegister(Wrd[a]))
IsOperand(a) == NamesR(a) \/ (Whole(a) /\ IsConstant(Wrd[a]))

Given(v, u, n, a, x) ==
    /\ ReadOn(v, u, n, a) /\ Gave(v, u, x)
    /\ Told(u) \/ IsOperand(a)
    /\ Quiet(v, u) \/ LoadsLast(v, u, x)
    /\ IsA(a, IsRegister) => Quiet(v, u) /\ x = Wrd[a].num /\ x # G_INSTR_ARG_INVALID

Arg(v, u, n, a, x) ==
    Given(v, u, n, a, x) /\ (IsA(a, IsConstant) => ConstLocated(v, u, x, Obj(Wrd[a])) \/ Lacking(v, u, x))

(* A token is taken from word a.                                           *)
Taken(v, t, n, a) ==
    /\ ReadOn(v, t, n, a) /\ Quiet(v, t) /\ t.args = v.args /\ t.over = v.over
    /\ Outcome(t.assm.lex_, a)

LEMMA TokTaken ==
    ASSUME src \in Rendered, NEW v, Doing(v), PoolOk(v.assm.obj_pool_), NEW n, Before(v.assm.lex_, n)
    PROVE  \E a : Taken(v, get_tok(v), n, a)
<1> DEFINE t == get_tok(v)
           l == v.assm.lex_
<1>1. /\ Doing(t) /\ t.assm.lex_ = Lex!lex_get_tok(l, FALSE)
      /\ t.assm.obj_pool_ = v.assm.obj_pool_ /\ Quiet(v, t)
      /\ t.at = v.at /\ t.args = v.args /\ t.over = v.over /\ t.reports = v.reports
    BY TokIs
<1> HIDE DEF t
<1>2. PICK a \in 1..(NWords + 1) : IsNext(n, a) /\ Outcome(LexP!lex_get_tok(l, FALSE), a)
    BY TokenRead
<1>3. Outcome(t.assm.lex_, a)
    BY <1>1, <1>2, SameTok
<1>4. a = NWords + 1 \/ Means(a)
    BY <1>2 DEF IsNext
<1>5. Before(t.assm.lex_, After(a))
    BY <1>2, <1>3, <1>4, AfterToken
<1>6. Kept(v.assm.obj_pool_, t.assm.obj_pool_)
    BY <1>1, KeptSelf
<1>7. Taken(v, t, n, a)
    BY <1>1, <1>2, <1>3, <1>5, <1>6 DEF Taken, ReadOn
<1> QED BY <1>7 DEF t

(* The token of a word.                                                    *)
LEMMA TokenKind ==
    ASSUME src \in Rendered, NEW w, NEW a, Outcome(w.assm.lex_, a)
    PROVE  /\ IsA(a, IsRegister) => RegisterAt(w, a) /\ ~tok_is_const(Tok(w))
           /\ IsA(a, IsConstant) => tok_is_const(Tok(w)) /\ make_object(Tok(w)) = Obj(Wrd[a])
           /\ Tok(w).beg = Plc[a]
<1> DEFINE tok == Tok(w)
           sym == Wrd[a].sym
<1>1. tok = w.assm.lex_.tok_ /\ tok.beg = Plc[a]
    BY DEF Tok, Outcome
<1>2. ASSUME a \in 1..NWords, ~IsStuck(sym) PROVE tok.type = Kind(sym) /\ src.at[Plc[a]] = Wrd[a]
    <2>1. tok.type = Kind(sym)
        BY <1>1, <1>2 DEF Outcome
    <2>2. \A i \in 0..(Size(a) - 1) : src.at[Plc[a] + i] = Wrd[a]
        BY <1>2, CharIs
    <2>3. Size(a) \in Nat \ {0}
        BY <1>2, CharIs
    <2>4. Plc[a] + 0 = Plc[a]
        <3>1. Plc[a] \in Nat
            BY <1>2, PlacesRise
        <3> QED BY <3>1
    <2>5. 0 \in 0..(Size(a) - 1)
        BY <2>3
    <2> QED BY <2>1, <2>2, <2>4, <2>5
<1> HIDE DEF tok
<1>3. ASSUME IsA(a, IsRegister) PROVE RegisterAt(w, a) /\ ~tok_is_const(tok)
    <2>1. a \in 1..NWords /\ Wrd[a] \in SourceWords /\ IsRegister(Wrd[a])
        BY <1>3 DEF IsA
    <2>2. IsName(sym)
        <3>1. Wrd[a].name # ""
            BY <2>1 DEF IsRegister
        <3> QED BY <2>1, <3>1, WordAssumption
    <2>3. ~IsStuck(sym)
        BY <2>2, KindsOfWords
    <2>4. tok.type = "IDENTIFIER"
        BY <1>2, <2>1, <2>2, <2>3 DEF Kind
    <2> QED BY <1>1, <2>1, <2>4 DEF RegisterAt, tok, tok_is_const, Lex!Consts
<1>4. ASSUME IsA(a, IsConstant) PROVE tok_is_const(tok) /\ make_object(tok) = Obj(Wrd[a])
    <2>1. a \in 1..NWords /\ Wrd[a] \in SourceWords /\ IsConstant(Wrd[a])
        BY <1>4 DEF IsA
    <2>2. sym[1] \in {"digit", "sign"} /\ HasDigit(sym)
        BY <2>1 DEF IsConstant, HasDigit
    <2>3. IsNumber(sym)
        <3>1. ~IsName(sym)
            BY <2>2 DEF IsName, Lex!IsAlpha
        <3>2. sym \notin {<<"hash">>, <<"colon">>, <<"dot">>, <<"other">>}
            BY <2>2
        <3> QED BY <2>1, <3>1, <3>2, WordAssumption
    <2>5. ~IsName(sym) /\ sym # <<"colon">> /\ ~IsStuck(sym)
        BY <2>2, <2>3, KindsOfWords
    <2>6. tok.type = (IF HasDot(sym) THEN "DEC_NUMBER" ELSE "INT_NUMBER") /\ src.at[Plc[a]] = Wrd[a]
        BY <1>2, <2>1, <2>5 DEF Kind
    <2>7. tok_is_const(tok)
        BY <2>6 DEF tok_is_const, Lex!Consts
    <2>8. make_object(tok) = Obj(Wrd[a])
        BY <1>1, <2>6 DEF make_object, Obj, HasDot
    <2> QED BY <2>7, <2>8
<1> QED BY <1>1, <1>3, <1>4 DEF tok

(* The word of a token.                                                    *)
LEMMA WordOfToken ==
    ASSUME src \in Rendered, NEW w, NEW n, NEW a \in 1..(NWords + 1), IsNext(n, a), Outcome(w.assm.lex_, a)
    PROVE  /\ tok_is_identifier(Tok(w)) => Whole(a) /\ src.at[Tok(w).beg] = Wrd[a]
           /\ tok_is_const(Tok(w)) => Whole(a) /\ IsConstant(Wrd[a])
<1> DEFINE tok == Tok(w)
           sym == Wrd[a].sym
<1>1. tok = w.assm.lex_.tok_ /\ tok.beg = Plc[a]
    BY DEF Tok, Outcome
<1> HIDE DEF tok
<1> SUFFICES ASSUME tok.type \in {"IDENTIFIER", "INT_NUMBER", "DEC_NUMBER"}
             PROVE  /\ Whole(a) /\ src.at[tok.beg] = Wrd[a]
                    /\ tok.type # "IDENTIFIER" => IsConstant(Wrd[a])
    BY DEF tok_is_identifier, tok_is_const, Lex!Consts, tok
<1>2. a # NWords + 1
    BY <1>1 DEF Outcome
<1>3. Means(a) /\ a \in 1..NWords
    <2>1. NWords \in Nat
        BY PlacesRise
    <2> QED BY <1>2, <2>1 DEF IsNext
<1>4. Wrd[a] \in SourceWords /\ sym # <<"hash">>
    BY <1>3, MeansIs
<1>5. ~IsStuck(sym)
    BY <1>1, <1>3 DEF Outcome
<1>6. tok.type = Kind(sym)
    BY <1>1, <1>3, <1>5 DEF Outcome
<1>7. src.at[tok.beg] = Wrd[a]
    <2>1. /\ \A i \in 0..(Size(a) - 1) : src.at[Plc[a] + i] = Wrd[a]
          /\ Size(a) \in Nat \ {0} /\ Plc[a] \in Nat
        BY <1>3, CharIs, PlacesRise
    <2>2. 0 \in 0..(Size(a) - 1) /\ Plc[a] + 0 = Plc[a]
        BY <2>1
    <2> QED BY <1>1, <2>1, <2>2
<1>8. ASSUME tok.type # "IDENTIFIER" PROVE IsConstant(Wrd[a])
    <2>1. ~IsName(sym) /\ sym # <<"colon">>
        BY <1>6, <1>8 DEF Kind
    <2>2. sym \notin {<<"dot">>, <<"other">>}
        BY <1>5 DEF IsStuck
    <2>3. IsNumber(sym)
        BY <1>4, <2>1, <2>2, WordAssumption
    <2>4. sym[1] \in {"digit", "sign"} /\ HasDigit(sym)
        BY <1>5, <2>3, KindsOfWords
    <2> QED BY <2>4 DEF IsConstant, HasDigit
<1>9. Whole(a)
    BY <1>3, <1>4, <1>5 DEF Whole
<1> QED BY <1>7, <1>8, <1>9

LEMMA RegisterArg ==
    ASSUME src \in Rendered, NEW v, NEW t, NEW n, NEW a, Taken(v, t, n, a)
    PROVE  LET u == R_of(t) IN (Told(u) \/ NamesR(a)) /\ \E x : Given(v, u, n, a, x) /\ Quiet(v, u)
<1> DEFINE u == R_of(t)
<1>1. Doing(t) /\ Outcome(t.assm.lex_, a) /\ IsNext(n, a) /\ a \in 1..(NWords + 1)
    BY DEF Taken, ReadOn
<1>2. PICK x : /\ Doing(u) /\ LeavesLex(t, u) /\ u.assm = t.assm /\ Quiet(t, u) /\ Gave(t, u, x)
               /\ Told(u) \/ (tok_is_identifier(Tok(t)) /\ src.at[Tok(t).beg].name \in RNames)
               /\ \A b : RegisterAt(t, b) => x = Wrd[b].num /\ x # G_INSTR_ARG_INVALID
    BY <1>1, RegisterRead
<1>3. IsA(a, IsRegister) => RegisterAt(t, a)
    BY <1>1, TokenKind
<1> HIDE DEF u
<1>4. ReadOn(v, u, n, a)
    BY <1>2 DEF Taken, ReadOn, LeavesLex
<1>5. Quiet(v, u) /\ Gave(v, u, x)
    BY <1>2 DEF Taken, Quiet, Gave
<1>6. IsA(a, IsRegister) => Quiet(v, u) /\ x = Wrd[a].num /\ x # G_INSTR_ARG_INVALID
    BY <1>2, <1>3, <1>5
<1>7. Told(u) \/ NamesR(a)
    <2>1. tok_is_identifier(Tok(t)) => Whole(a) /\ src.at[Tok(t).beg] = Wrd[a]
        BY <1>1, WordOfToken
    <2> QED BY <1>2, <2>1 DEF NamesR, WrongRegister
<1>8. Given(v, u, n, a, x)
    BY <1>4, <1>5, <1>6, <1>7 DEF Given, IsOperand
<1> QED BY <1>5, <1>7, <1>8 DEF u

LEMMA RefArg ==
    ASSUME src \in Rendered, NEW v, NEW t, NEW n, NEW a, Taken(v, t, n, a), NEW operand
    PROVE  LET u == Ref_of(t, operand) IN u.over \/ \E x : Arg(v, u, n, a, x)
<1> DEFINE u == Ref_of(t, operand)
<1>1. Doing(t) /\ Outcome(t.assm.lex_, a) /\ PoolOk(t.assm.obj_pool_) /\ IsNext(n, a) /\ a \in 1..(NWords + 1)
    BY DEF Taken, ReadOn, Kept
<1>2. /\ IsA(a, IsRegister) => RegisterAt(t, a) /\ ~tok_is_const(Tok(t))
      /\ IsA(a, IsConstant) => tok_is_const(Tok(t)) /\ make_object(Tok(t)) = Obj(Wrd[a])
    BY <1>1, TokenKind
<1>3. CASE ~tok_is_const(Tok(t))
    <2>1. u = R_of(t)
        BY <1>3 DEF Ref_of
    <2> HIDE DEF u
    <2>2. \E x : Given(v, u, n, a, x) /\ Quiet(v, u)
        BY <2>1, RegisterArg
    <2> QED BY <1>2, <1>3, <2>2 DEF Arg, u
<1>4. CASE tok_is_const(Tok(t))
    <2> DEFINE obj == make_object(Tok(t))
    <2>1. u = handle_constant(t, operand)
        BY <1>4 DEF Ref_of
    <2>2. u.over \/ ConstGiven(t, u, obj)
        BY <1>1, <2>1, ConstRead
    <2> HIDE DEF u, obj
    <2>3. ASSUME ConstGiven(t, u, obj) PROVE \E x : Arg(v, u, n, a, x)
        <3>1. PICK x : Stays(t, u) /\ Gave(t, u, x) /\ (ConstLocated(t, u, x, obj) \/ Lacking(t, u, x))
            BY <2>3 DEF ConstGiven
        <3>2. Kept(v.assm.obj_pool_, u.assm.obj_pool_)
            BY <3>1, KeptTrans DEF Taken, ReadOn, Stays
        <3>3. ReadOn(v, u, n, a)
            BY <3>1, <3>2 DEF Taken, ReadOn, Stays, LeavesLex
        <3>4. Gave(v, u, x)
            BY <3>1 DEF Taken, Gave
        <3>5. ConstLocated(t, u, x, obj) => ConstLocated(v, u, x, obj)
            BY DEF Taken, Quiet, Wrote, ConstLocated, ReadOn
        <3>6. Lacking(t, u, x) => Lacking(v, u, x)
            BY DEF Taken, Quiet, Lacking
        <3>7. IsOperand(a)
            BY <1>1, <1>4, WordOfToken DEF IsOperand
        <3>8. Quiet(v, u) \/ LoadsLast(v, u, x)
            BY <3>1, <3>5, <3>6 DEF ConstLocated, Lacking, LoadsLast
        <3>9. Given(v, u, n, a, x)
            BY <1>2, <1>4, <3>3, <3>4, <3>7, <3>8 DEF Given
        <3>10. Arg(v, u, n, a, x)
            BY <1>2, <3>1, <3>5, <3>6, <3>9 DEF Arg, obj
        <3> QED BY <3>10
    <2> QED BY <2>2, <2>3 DEF u
<1> QED BY <1>3, <1>4

-----------------------------------------------------------------------------
(* The arguments of a command, and its instruction.                        *)
Instrs(w) == w.assm.code_.instr_

LEMMA AppendIs ==
    ASSUME NEW S, NEW s \in Seq(S), NEW e
    PROVE  /\ Len(s) \in Nat /\ Len(Append(s, e)) = Len(s) + 1 /\ Append(s, e)[Len(s) + 1] = e
           /\ \A i \in 1..Len(s) : Append(s, e)[i] = s[i]
<1>1. s \in Seq(S \cup {e}) /\ e \in S \cup {e}
    <2>1. Len(s) \in Nat /\ s \in [1..Len(s) -> S]
        BY LenProperties
    <2>2. s \in [1..Len(s) -> S \cup {e}]
        BY <2>1
    <2> QED BY <2>1, <2>2, SeqDef
<1> QED BY <1>1, AppendProperties, LenProperties

(* The words of the three arguments, and what was read from them.          *)
Three(w, u, v, y, n, a, x) ==
    /\ Given(w, u, n, a[1], x[1]) /\ Quiet(w, u) /\ (Told(u) \/ NamesR(a[1]))
    /\ Arg(u, v, After(a[1]), a[2], x[2])
    /\ Arg(v, y, After(a[2]), a[3], x[3])
    /\ Fits(w) /\ Fits(u) /\ Fits(v) /\ Fits(y) /\ ~y.over
    /\ y.args = <<x[1], x[2], x[3]>>

Refused(y, h) == /\ Doing(h) /\ LeavesLex(y, h) /\ h.assm.obj_pool_ = y.assm.obj_pool_ /\ Quiet(y, h)
                 /\ ~h.ok /\ h.over = y.over /\ h.reports = y.reports
Accepted(y, h, instr) ==
    /\ Doing(h) /\ LeavesLex(y, h) /\ h.assm.obj_pool_ = y.assm.obj_pool_ /\ Wrote(y, h, instr)
    /\ h.ok /\ h.over = y.over /\ h.reports = y.reports

Ends(y, h, op, x) ==
    IF G_INSTR_ARG_INVALID \in {x[1], x[2], x[3]} THEN Refused(y, h)
    ELSE Accepted(y, h, RAB(op, x[1], x[2], x[3]))

LEMMA RefusedIs ==
    ASSUME NEW y, Doing(y)
    PROVE  Refused(y, [y EXCEPT !.ok = FALSE])
<1> DEFINE h == [y EXCEPT !.ok = FALSE]
<1>1. IsRound(y)
    BY DoingIs
<1>2. Doing(h)
    <2>1. PICK c, o : c \in Nat /\ Going(y, src.text, c, o)
        BY DEF Doing
    <2>2. \A k : Going([y EXCEPT !.ok = k], src.text, c, o)
        BY <2>1, SmallSteps
    <2>3. Going(h, src.text, c, o)
        BY <2>2
    <2> QED BY <2>1, <2>3 DEF Doing
<1>3. h.assm = y.assm /\ h.origin = y.origin /\ h.at = y.at /\ h.over = y.over /\ h.reports = y.reports
    <2>1. \A k : LET z == [y EXCEPT !.ok = k] IN
             z.assm = y.assm /\ z.origin = y.origin /\ z.at = y.at /\ z.over = y.over /\ z.reports = y.reports
        BY <1>1 DEF IsRound, Rnd
    <2> QED BY ONLY <2>1, Zenon DEF h
<1>4. ~h.ok
    <2>1. \A k : k => ~[y EXCEPT !.ok = ~k].ok
        BY <1>1 DEF IsRound, Rnd
    <2>2. "ok" \in DOMAIN y
        BY <1>1 DEF IsRound, Rnd
    <2> QED BY <2>2
<1> HIDE DEF h
<1>5. Refused(y, h)
    BY <1>2, <1>3, <1>4 DEF Refused, LeavesLex, Quiet
<1> QED BY <1>5 DEF h

ArgsGiven(p, q, r, x, y, z) ==
    /\ ArgsFit(p, 1) /\ ArgsFit(q, 2) /\ ArgsFit(r, 3)
    /\ p = Append(<<>>, x) /\ q = Append(p, y) /\ r = Append(q, z)

LEMMA ArgsRead ==
    ASSUME NEW x, NEW y, NEW z, NEW p, NEW q, NEW r, ArgsGiven(p, q, r, x, y, z)
    PROVE  r = <<x, y, z>> /\ ToSet(r) = {x, y, z}
<1>1. /\ p \in Seq(Nat) /\ q \in Seq(Nat) /\ r \in Seq(Nat) /\ <<>> \in Seq(Nat)
      /\ Len(<<>>) = 0 /\ Len(p) = 1 /\ Len(q) = 2 /\ Len(r) = 3
      /\ p = Append(<<>>, x) /\ q = Append(p, y) /\ r = Append(q, z)
    BY DEF ArgsFit, ArgsGiven
<1>2. p[1] = x /\ q[2] = y /\ q[1] = p[1] /\ r[3] = z /\ r[2] = q[2] /\ r[1] = q[1]
    <2>1. p[1] = x
        BY <1>1, AppendIs
    <2>2. q[2] = y /\ q[1] = p[1]
        BY <1>1, AppendIs
    <2>3. r[3] = z /\ r[2] = q[2] /\ r[1] = q[1]
        BY <1>1, AppendIs
    <2> QED BY <2>1, <2>2, <2>3
<1>3. r = <<x, y, z>>
    <2>1. r = [i \in 1..3 |-> r[i]]
        BY <1>1
    <2>2. [i \in 1..3 |-> r[i]] = <<r[1], r[2], r[3]>>
        OBVIOUS
    <2> QED BY <1>2, <2>1, <2>2
<1>4. ToSet(r) = {x, y, z}
    <2>2. DOMAIN r = 1..3
        BY <1>1
    <2>3. \A i \in 1..3 : i = 1 \/ i = 2 \/ i = 3
        OBVIOUS
    <2> QED BY <1>3, <2>2, <2>3 DEF ToSet
<1> QED BY <1>3, <1>4

LEMMA ThreeRead ==
    ASSUME src \in Rendered, Marked, NEW w, Doing(w), Fitting(w, 0), PoolOk(w.assm.obj_pool_), ~w.over, w.args = <<>>,
           NEW n, Before(w.assm.lex_, n), NEW op
    PROVE  LET h == handle_arithmetic(w, op) IN
           h.over \/ \E u, v, y, a, x : Three(w, u, v, y, n, a, x) /\ Ends(y, h, op, x)
<1> DEFINE t == get_tok(w)
           u == R_of(t)
           t2 == get_tok(u)
           v == Ref_of(t2, "A")
           t3 == get_tok(v)
           y == Ref_of(t3, "B")
           h == handle_arithmetic(w, op)
           First(w1)  == R_of(get_tok(w1))
           Second(w1) == Ref_of(get_tok(w1), "A")
           Third(w1)  == IF w1.over THEN w1 ELSE Ref_of(get_tok(w1), "B")
           Write(w1)  == IF w1.over THEN w1
                         ELSE IF G_INSTR_ARG_INVALID \in ToSet(w1.args) THEN [w1 EXCEPT !.ok = FALSE]
                         ELSE code_write(w1, RAB(op, w1.args[1], w1.args[2], w1.args[3]))
<1>1. h = Write(Third(Second(First(w)))) /\ First(w) = u /\ Second(u) = v
    BY DEF handle_arithmetic
<1>2. Third(v) = IF v.over THEN v ELSE y
    OBVIOUS
<1>3. PICK a1 : Taken(w, t, n, a1)
    BY TokTaken
<1>4. Fitting(t, 0) /\ Doing(t) /\ Tok(t).beg \in Nat /\ (Tok(t).type # "FINAL" => Tok(t).beg \in 1..Len(src.text))
    BY TokFits
<1> HIDE DEF t
<1>5. PICK x1 : Given(w, u, n, a1, x1) /\ Quiet(w, u) /\ (Told(u) \/ NamesR(a1))
    BY <1>3, RegisterArg
<1>6. Fitting(u, 1)
    <2>1. Fitting(u, 0 + 1)
        BY <1>4, RegisterFits
    <2> QED BY <2>1
<1>7. Doing(u) /\ PoolOk(u.assm.obj_pool_) /\ Before(u.assm.lex_, After(a1)) /\ ~u.over /\ u.args = Append(w.args, x1)
    BY <1>5 DEF Given, ReadOn, Kept, Gave
<1> HIDE DEF u
<1>8. PICK a2 : Taken(u, t2, After(a1), a2)
    BY <1>7, TokTaken
<1>9. Fitting(t2, 1) /\ Doing(t2) /\ Tok(t2).beg \in Nat /\ (Tok(t2).type # "FINAL" => Tok(t2).beg \in 1..Len(src.text))
    BY <1>6, <1>7, TokFits
<1> HIDE DEF t2
<1>10. v.over \/ \E x2 : Arg(u, v, After(a1), a2, x2)
    BY <1>8, RefArg
<1>11. Fitting(v, 2)
    <2>1. Fitting(v, 1 + 1)
        BY <1>9, RefFits
    <2> QED BY <2>1
<1> HIDE DEF v
<1>12. CASE v.over
    <2>1. Third(v) = v
        BY <1>2, <1>12
    <2> HIDE DEF Third
    <2>2. h = v
        BY <1>1, <1>12, <2>1
    <2> HIDE DEF h
    <2> QED BY <1>12, <2>2 DEF h
<1>13. CASE ~v.over
    <2>1. PICK x2 : Arg(u, v, After(a1), a2, x2)
        BY <1>10, <1>13
    <2>2. Doing(v) /\ PoolOk(v.assm.obj_pool_) /\ Before(v.assm.lex_, After(a2)) /\ v.args = Append(u.args, x2)
        BY <2>1 DEF Arg, Given, ReadOn, Kept, Gave
    <2>3. PICK a3 : Taken(v, t3, After(a2), a3)
        BY <2>2, TokTaken
    <2>4. Fitting(t3, 2) /\ Doing(t3) /\ Tok(t3).beg \in Nat /\ (Tok(t3).type # "FINAL" => Tok(t3).beg \in 1..Len(src.text))
        BY <1>11, <2>2, TokFits
    <2> HIDE DEF t3
    <2>5. y.over \/ \E x3 : Arg(v, y, After(a2), a3, x3)
        BY <2>3, RefArg
    <2>6. Fitting(y, 3)
        <3>1. Fitting(y, 2 + 1)
            BY <2>4, RefFits
        <3> QED BY <3>1
    <2> HIDE DEF y
    <2>7. Third(v) = y
        BY <1>2, <1>13
    <2> HIDE DEF Third
    <2>8. h = Write(y)
        BY <1>1, <2>7
    <2> HIDE DEF h
    <2>9. CASE y.over
        BY <2>8, <2>9 DEF h
    <2>10. CASE ~y.over
        <3>1. PICK x3 : Arg(v, y, After(a2), a3, x3)
            BY <2>5, <2>10
        <3>2. Doing(y) /\ y.args = Append(v.args, x3)
            BY <3>1 DEF Arg, Given, ReadOn, Gave
        <3>3. ArgsFit(u.args, 1) /\ ArgsFit(v.args, 2) /\ ArgsFit(y.args, 3)
            BY <1>6, <1>7, <1>11, <1>13, <2>6, <2>10 DEF Fitting
        <3>4. y.args = <<x1, x2, x3>> /\ ToSet(y.args) = {x1, x2, x3}
            <4>1. w.args = <<>> /\ u.args = Append(w.args, x1) /\ v.args = Append(u.args, x2) /\ y.args = Append(v.args, x3)
                BY <1>7, <2>2, <3>2
            <4>2. ArgsGiven(u.args, v.args, y.args, x1, x2, x3)
                BY <3>3, <4>1 DEF ArgsGiven
            <4> QED BY <4>2, ArgsRead
        <3> DEFINE x == <<x1, x2, x3>>
                   a == <<a1, a2, a3>>
        <3>5. x[1] = x1 /\ x[2] = x2 /\ x[3] = x3 /\ a[1] = a1 /\ a[2] = a2 /\ a[3] = a3
            OBVIOUS
        <3>6. y.args = x
            BY <3>4
        <3> HIDE DEF x, a
        <3>7. Fits(w) /\ Fits(u) /\ Fits(v) /\ Fits(y)
            BY <1>6, <1>11, <2>6 DEF Fitting
        <3>8. Three(w, u, v, y, n, a, x)
            BY <1>5, <2>1, <2>10, <3>1, <3>4, <3>5, <3>7 DEF Three
        <3>9. h.over \/ Ends(y, h, op, x)
            <4>1. CASE G_INSTR_ARG_INVALID \in {x[1], x[2], x[3]}
                <5>1. h = [y EXCEPT !.ok = FALSE]
                    BY <2>8, <2>10, <3>4, <3>5, <4>1
                <5>2. Refused(y, h)
                    BY <3>2, <5>1, RefusedIs
                <5> QED BY <4>1, <5>2 DEF Ends
            <4>2. CASE G_INSTR_ARG_INVALID \notin {x[1], x[2], x[3]}
                <5> DEFINE instr == RAB(op, x[1], x[2], x[3])
                <5>1. h = code_write(y, instr)
                    BY <2>8, <2>10, <3>4, <3>5, <3>6, <4>2
                <5> HIDE DEF instr
                <5>2. h.over \/ Accepted(y, h, instr)
                    <6>1. Doing(h) /\ (h.over \/ (/\ LeavesLex(y, h) /\ h.assm.obj_pool_ = y.assm.obj_pool_ /\ Wrote(y, h, instr)
                                                  /\ h.args = y.args /\ h.over = y.over /\ h.ok /\ h.reports = y.reports))
                        BY <3>2, <5>1, WriteIs
                    <6> QED BY <6>1 DEF Accepted
                <5> QED BY <4>2, <5>2 DEF Ends, instr
            <4> QED BY <4>1, <4>2
        <3> QED BY <3>8, <3>9 DEF h
    <2> QED BY <2>9, <2>10
<1> QED BY <1>12, <1>13

-----------------------------------------------------------------------------
(* What a command has written.                                             *)
Grew(v, u, m) ==
    /\ Len(v.origin) \in Nat /\ Len(u.origin) = Len(v.origin) + m /\ Len(Instrs(u)) = Len(u.origin)
    /\ \A i \in 1..Len(v.origin) : u.origin[i] = v.origin[i] /\ Instrs(u)[i] = Instrs(v)[i]
    /\ \A i \in (Len(v.origin) + 1)..Len(u.origin) : u.origin[i] = v.at

(* The constant is in the pool, at the index in the operand or in the      *)
(* instruction before n.                                                   *)
ConstMeant(q, I, O, n, field, obj) ==
    \E idx : /\ Holds(q, idx, obj)
             /\ \/ field = idx + G_INSTR_N_REGISTERS
                \/ /\ field = LastReg /\ n > 1 /\ O[n - 1] = O[n]
                   /\ I[n - 1] = RC("move", LastReg, idx + G_INSTR_N_REGISTERS)

DenotesIn(q, I, O, n, field, word) ==
    IF IsRegister(word) THEN field = word.num ELSE ConstMeant(q, I, O, n, field, Obj(word))

LEMMA FormsAre ==
    /\ \A op, r, c : RC(op, r, c).form = "RC"
    /\ \A op, r, a, b : LET i == RAB(op, r, a, b) IN
          i.form = "RAB" /\ i.opcode = op /\ i.R = r /\ i.A = a /\ i.B = b
BY DEF RC, RAB

LEMMA QuietGrew ==
    ASSUME NEW v, NEW u, Fits(v), Quiet(v, u)
    PROVE  Grew(v, u, 0)
<1>1. Len(v.origin) \in Nat /\ Len(v.origin) = Len(Instrs(v))
    BY LenProperties DEF Fits, CodeFits, Instrs
<1>2. u.origin = v.origin /\ Instrs(u) = Instrs(v)
    BY DEF Quiet, Instrs
<1> QED BY <1>1, <1>2 DEF Grew

LEMMA WroteGrew ==
    ASSUME NEW v, NEW u, Fits(v), NEW instr, Wrote(v, u, instr)
    PROVE  Grew(v, u, 1) /\ Instrs(u)[Len(v.origin) + 1] = instr
<1>1. /\ v.origin \in Seq(Nat) /\ Instrs(v) \in Seq(Instructions) /\ Len(v.origin) = Len(Instrs(v))
      /\ u.origin = Append(v.origin, v.at) /\ Instrs(u) = Append(Instrs(v), instr)
    BY DEF Fits, CodeFits, Instrs, Wrote
<1>2. /\ Len(v.origin) \in Nat /\ Len(u.origin) = Len(v.origin) + 1 /\ u.origin[Len(v.origin) + 1] = v.at
      /\ \A i \in 1..Len(v.origin) : u.origin[i] = v.origin[i]
    BY <1>1, AppendIs
<1>3. /\ Len(Instrs(u)) = Len(v.origin) + 1 /\ Instrs(u)[Len(v.origin) + 1] = instr
      /\ \A i \in 1..Len(v.origin) : Instrs(u)[i] = Instrs(v)[i]
    BY <1>1, AppendIs
<1>4. \A i \in (Len(v.origin) + 1)..Len(u.origin) : i = Len(v.origin) + 1
    BY <1>2
<1> QED BY <1>2, <1>3, <1>4 DEF Grew

IsSum(m, k, s) == m \in Nat /\ k \in Nat /\ s = m + k

LEMMA GrewOn ==
    ASSUME NEW v, NEW u, NEW t, NEW m, NEW k, NEW s, IsSum(m, k, s), Grew(v, u, m), Grew(u, t, k), u.at = v.at
    PROVE  /\ Grew(v, t, s) /\ Len(v.origin) \in Nat /\ Len(u.origin) = Len(v.origin) + m
           /\ \A i \in 1..Len(u.origin) : Instrs(t)[i] = Instrs(u)[i]
<1> DEFINE a == Len(v.origin)
           b == Len(u.origin)
           c == Len(t.origin)
<1>1. a \in Nat /\ b = a + m /\ c = b + k /\ Len(Instrs(t)) = c /\ m \in Nat /\ k \in Nat /\ s = m + k
    BY DEF Grew, IsSum
<1>2. \A i \in 1..a : u.origin[i] = v.origin[i] /\ Instrs(u)[i] = Instrs(v)[i]
    BY DEF Grew
<1>3. \A i \in (a + 1)..b : u.origin[i] = v.at
    BY DEF Grew
<1>4. \A i \in 1..b : t.origin[i] = u.origin[i] /\ Instrs(t)[i] = Instrs(u)[i]
    BY DEF Grew
<1>5. \A i \in (b + 1)..c : t.origin[i] = v.at
    BY DEF Grew
<1> HIDE DEF a, b, c
<1>6. \A i \in 1..a : t.origin[i] = v.origin[i] /\ Instrs(t)[i] = Instrs(v)[i]
    BY <1>1, <1>2, <1>4
<1>7. \A i \in (a + 1)..c : t.origin[i] = v.at
    BY <1>1, <1>3, <1>4, <1>5
<1>8. c = a + s
    BY <1>1
<1>9. Grew(v, t, s)
    BY <1>1, <1>6, <1>7, <1>8 DEF Grew, a, c
<1> QED BY <1>1, <1>4, <1>9 DEF a, b

(* What an operand has written.                                            *)
Put(v, u, a, x, k) ==
    /\ Grew(v, u, k) /\ (k = 1 => Instrs(u)[Len(v.origin) + 1].form = "RC")
    /\ IsA(a, IsConstant) /\ x # G_INSTR_ARG_INVALID =>
          \E idx : /\ Holds(u.assm.obj_pool_, idx, Obj(Wrd[a]))
                   /\ \/ x = idx + G_INSTR_N_REGISTERS
                      \/ k = 1 /\ x = LastReg
                         /\ Instrs(u)[Len(v.origin) + 1] = RC("move", LastReg, idx + G_INSTR_N_REGISTERS)

LEMMA ArgPut ==
    ASSUME NEW v, NEW u, Fits(v), NEW n, NEW a, NEW x, Arg(v, u, n, a, x)
    PROVE  \E k \in 0..1 : Put(v, u, a, x, k)
<1>1. ASSUME NEW C, NEW D, Wrote(v, u, RC("move", LastReg, C)), Wrote(v, u, RC("move", LastReg, D))
      PROVE RC("move", LastReg, C) = RC("move", LastReg, D)
    <2>1. Instrs(u)[Len(v.origin) + 1] = RC("move", LastReg, C)
        BY <1>1, WroteGrew
    <2>2. Instrs(u)[Len(v.origin) + 1] = RC("move", LastReg, D)
        BY <1>1, WroteGrew
    <2> QED BY <2>1, <2>2
<1>2. IsA(a, IsConstant) /\ x # G_INSTR_ARG_INVALID => ConstLocated(v, u, x, Obj(Wrd[a]))
    BY DEF Arg, Lacking
<1>3. CASE Quiet(v, u)
    <2>1. Grew(v, u, 0) /\ Len(v.origin) \in Nat
        BY <1>3, QuietGrew DEF Grew
    <2>2. ASSUME NEW C PROVE ~Wrote(v, u, RC("move", LastReg, C))
        <3>1. Wrote(v, u, RC("move", LastReg, C)) => Len(u.origin) = Len(v.origin) + 1
            BY WroteGrew DEF Grew
        <3>2. Len(u.origin) = Len(v.origin)
            BY <1>3 DEF Quiet
        <3> QED BY <2>1, <3>1, <3>2
    <2>3. Put(v, u, a, x, 0)
        BY <1>2, <2>1, <2>2 DEF Put, ConstLocated
    <2> QED BY <2>3
<1>4. CASE LoadsLast(v, u, x)
    <2>1. PICK C : Wrote(v, u, RC("move", LastReg, C))
        BY <1>4 DEF LoadsLast
    <2>2. Grew(v, u, 1) /\ Instrs(u)[Len(v.origin) + 1] = RC("move", LastReg, C)
        BY <2>1, WroteGrew
    <2>3. Instrs(u)[Len(v.origin) + 1].form = "RC"
        BY <2>2, FormsAre
    <2>4. \A idx : Wrote(v, u, RC("move", LastReg, idx + G_INSTR_N_REGISTERS)) =>
              Instrs(u)[Len(v.origin) + 1] = RC("move", LastReg, idx + G_INSTR_N_REGISTERS)
        BY <1>1, <2>1, <2>2
    <2>5. Put(v, u, a, x, 1)
        BY <1>2, <2>2, <2>3, <2>4 DEF Put, ConstLocated
    <2> QED BY <2>5
<1> QED BY <1>3, <1>4 DEF Arg, Given

(* What a command that goes on has done: the words it read, what it wrote, *)
(* and what it reported.                                                   *)
Went(w, h, n, a) ==
    /\ Doing(h) /\ h.at = w.at /\ w.reports \subseteq h.reports /\ Kept(w.assm.obj_pool_, h.assm.obj_pool_)
    /\ IsNext(n, a[1]) /\ IsNext(After(a[1]), a[2]) /\ IsNext(After(a[2]), a[3])
    /\ Before(h.assm.lex_, After(a[3]))

Operands(a) ==
    /\ IsA(a[1], IsRegister)
    /\ IsA(a[2], IsRegister) \/ IsA(a[2], IsConstant)
    /\ IsA(a[3], IsRegister) \/ IsA(a[3], IsConstant)

(* The instruction, written after m loads.                                 *)
Right(h, n, op, a, m) ==
    LET instr == Instrs(h)[n]
        Stand(field, b) == DenotesIn(h.assm.obj_pool_, Instrs(h), h.origin, n, field, Wrd[b])
    IN  /\ instr.opcode = op /\ instr.R = Wrd[a[1]].num
        /\ m <= 1 => Stand(instr.A, a[2])
        /\ Stand(instr.B, a[3])

Did(w, h, op, a, m) ==
    /\ Told(h) \/ (NamesR(a[1]) /\ IsOperand(a[2]) /\ IsOperand(a[3]))
    /\ \A i \in 1..m : Instrs(h)[Len(w.origin) + i].form = "RC"
    /\ \/ /\ ~h.ok /\ Grew(w, h, m)
          /\ Operands(a) => ToldOf(h, {"too many", "no memory"})
       \/ /\ h.ok /\ Grew(w, h, m + 1) /\ Instrs(h)[(Len(w.origin) + m) + 1].form = "RAB"
          /\ Operands(a) => Right(h, (Len(w.origin) + m) + 1, op, a, m)

LEMMA ThreeWent ==
    ASSUME NEW w, NEW u, NEW v, NEW y, NEW n, NEW a, NEW x, Three(w, u, v, y, n, a, x), NEW h, NEW op, Ends(y, h, op, x)
    PROVE  Went(w, h, n, a) /\ h.over = y.over /\ u.at = w.at /\ v.at = w.at /\ y.at = w.at
<1>1. ReadOn(w, u, n, a[1]) /\ ReadOn(u, v, After(a[1]), a[2]) /\ ReadOn(v, y, After(a[2]), a[3])
    BY DEF Three, Arg, Given
<1>2. /\ Doing(h) /\ LeavesLex(y, h) /\ h.assm.obj_pool_ = y.assm.obj_pool_ /\ h.over = y.over
    BY DEF Ends, Refused, Accepted
<1>3. Kept(w.assm.obj_pool_, y.assm.obj_pool_)
    <2>1. Kept(w.assm.obj_pool_, v.assm.obj_pool_)
        BY <1>1, KeptTrans DEF ReadOn
    <2> QED BY <1>1, <2>1, KeptTrans DEF ReadOn
<1>4. u.at = w.at /\ v.at = w.at /\ y.at = w.at /\ h.at = w.at
    BY <1>1, <1>2 DEF ReadOn, LeavesLex
<1>5. w.reports \subseteq h.reports
    BY <1>1, <1>2 DEF ReadOn, LeavesLex
<1> QED BY <1>1, <1>2, <1>3, <1>4, <1>5 DEF Went, ReadOn, LeavesLex

LEMMA ThreeTold ==
    ASSUME NEW w, NEW u, NEW v, NEW y, NEW n, NEW a, NEW x, Three(w, u, v, y, n, a, x), NEW h, NEW op, Ends(y, h, op, x),
           ~h.ok, Operands(a)
    PROVE  ToldOf(h, {"too many", "no memory"})
<1>1. u.at = w.at /\ v.at = w.at /\ y.at = w.at /\ h.at = w.at
    BY ThreeWent DEF Went
<1>2. u.reports \subseteq v.reports /\ v.reports \subseteq y.reports /\ h.reports = y.reports
    BY DEF Three, Arg, Given, ReadOn, Ends, Refused, Accepted
<1>3. \E i \in 1..3 : x[i] = G_INSTR_ARG_INVALID
    BY DEF Ends, Accepted
<1>4. CASE x[1] = G_INSTR_ARG_INVALID
    <2>1. ~IsA(a[1], IsRegister)
        BY <1>4 DEF Three, Given
    <2> QED BY <2>1 DEF Operands
<1>5. CASE x[2] = G_INSTR_ARG_INVALID
    <2>1. ~IsA(a[2], IsRegister) /\ (IsA(a[2], IsConstant) => ToldOf(v, {"too many", "no memory"}))
        BY <1>5 DEF Three, Arg, Given, ConstLocated, Lacking
    <2> QED BY <1>1, <1>2, <2>1 DEF ToldOf, Operands
<1>6. CASE x[3] = G_INSTR_ARG_INVALID
    <2>1. ~IsA(a[3], IsRegister) /\ (IsA(a[3], IsConstant) => ToldOf(y, {"too many", "no memory"}))
        BY <1>6 DEF Three, Arg, Given, ConstLocated, Lacking
    <2> QED BY <1>1, <1>2, <2>1 DEF ToldOf, Operands
<1>7. \A i \in 1..3 : i = 1 \/ i = 2 \/ i = 3
    OBVIOUS
<1> QED BY <1>3, <1>4, <1>5, <1>6, <1>7

(* Words that are not operands are told of.                                *)
LEMMA ThreeAnswered ==
    ASSUME NEW w, NEW u, NEW v, NEW y, NEW n, NEW a, NEW x, Three(w, u, v, y, n, a, x), NEW h, NEW op, Ends(y, h, op, x)
    PROVE  Told(h) \/ (NamesR(a[1]) /\ IsOperand(a[2]) /\ IsOperand(a[3]))
<1>1. u.at = w.at /\ v.at = w.at /\ y.at = w.at /\ h.at = w.at
    BY ThreeWent DEF Went
<1>2. u.reports \subseteq v.reports /\ v.reports \subseteq y.reports /\ h.reports = y.reports
    BY DEF Three, Arg, Given, ReadOn, Ends, Refused, Accepted
<1>3. (Told(u) \/ NamesR(a[1])) /\ (Told(v) \/ IsOperand(a[2])) /\ (Told(y) \/ IsOperand(a[3]))
    BY DEF Three, Arg, Given
<1>4. Told(u) \/ Told(v) \/ Told(y) => Told(h)
    BY <1>1, <1>2 DEF Told
<1> QED BY <1>3, <1>4

(* The operands that were written denote their words.                      *)
LEMMA PutDenotes ==
    ASSUME NEW v, NEW u, NEW a, NEW x, NEW k \in 0..1, Put(v, u, a, x, k), x # G_INSTR_ARG_INVALID,
           IsA(a, IsConstant), NEW h, Kept(u.assm.obj_pool_, h.assm.obj_pool_),
           NEW n, k = 1 => /\ n = Len(v.origin) + 2 /\ h.origin[n - 1] = h.origin[n]
                           /\ Instrs(h)[n - 1] = Instrs(u)[Len(v.origin) + 1]
    PROVE  DenotesIn(h.assm.obj_pool_, Instrs(h), h.origin, n, x, Wrd[a])
<1>1. PICK idx : /\ Holds(u.assm.obj_pool_, idx, Obj(Wrd[a]))
                 /\ \/ x = idx + G_INSTR_N_REGISTERS
                    \/ k = 1 /\ x = LastReg
                       /\ Instrs(u)[Len(v.origin) + 1] = RC("move", LastReg, idx + G_INSTR_N_REGISTERS)
    BY DEF Put
<1>2. Holds(h.assm.obj_pool_, idx, Obj(Wrd[a]))
    BY <1>1, KeptHolds
<1>3. ~IsRegister(Wrd[a])
    <2>1. Wrd[a].sym[1] \in {"digit", "sign"}
        BY DEF IsA, IsConstant
    <2> QED BY <2>1 DEF IsRegister
<1>4. Len(v.origin) \in Nat
    BY DEF Put, Grew
<1>5. ConstMeant(h.assm.obj_pool_, Instrs(h), h.origin, n, x, Obj(Wrd[a]))
    BY <1>1, <1>2, <1>4 DEF ConstMeant
<1> QED BY <1>3, <1>5 DEF DenotesIn

(* Where the instructions of a command are.                                *)
Placed(w, u, v, y, h, k, l, N, instr) ==
    /\ k \in 0..1 /\ l \in 0..1 /\ Len(u.origin) \in Nat
    /\ Len(v.origin) = Len(u.origin) + k /\ Len(y.origin) = Len(u.origin) + (k + l) /\ N = Len(y.origin) + 1
    /\ \A i \in 1..Len(y.origin) : Instrs(h)[i] = Instrs(y)[i]
    /\ \A i \in 1..Len(v.origin) : Instrs(y)[i] = Instrs(v)[i]
    /\ Instrs(h)[N] = instr
    /\ \A i \in (Len(u.origin) + 1)..N : h.origin[i] = w.at

LEMMA ThreeRight ==
    ASSUME NEW w, NEW u, NEW v, NEW y, NEW n, NEW a, NEW x, Three(w, u, v, y, n, a, x), NEW h, NEW op,
           Accepted(y, h, RAB(op, x[1], x[2], x[3])), \A i \in 1..3 : x[i] # G_INSTR_ARG_INVALID,
           NEW k, NEW l, Put(u, v, a[2], x[2], k), Put(v, y, a[3], x[3], l),
           NEW N, Placed(w, u, v, y, h, k, l, N, RAB(op, x[1], x[2], x[3])), Operands(a)
    PROVE  Right(h, N, op, a, k + l)
<1> DEFINE L == Len(u.origin)
<1>7. /\ k \in 0..1 /\ l \in 0..1 /\ L \in Nat /\ Len(v.origin) = L + k /\ Len(y.origin) = L + (k + l)
      /\ N = (L + (k + l)) + 1
    BY DEF Placed
<1>8. /\ \A i \in 1..Len(y.origin) : Instrs(h)[i] = Instrs(y)[i]
      /\ \A i \in 1..Len(v.origin) : Instrs(y)[i] = Instrs(v)[i]
      /\ Instrs(h)[N] = RAB(op, x[1], x[2], x[3])
      /\ \A i \in (L + 1)..N : h.origin[i] = w.at
    BY DEF Placed
<1>9. L = Len(u.origin)
    OBVIOUS
<1> HIDE DEF L
<1>1. /\ Instrs(h)[N].opcode = op /\ Instrs(h)[N].R = x[1] /\ Instrs(h)[N].A = x[2] /\ Instrs(h)[N].B = x[3]
    BY <1>8, FormsAre
<1>2. x[1] = Wrd[a[1]].num
    BY DEF Three, Given, Operands
<1>3. /\ Kept(v.assm.obj_pool_, h.assm.obj_pool_) /\ Kept(y.assm.obj_pool_, h.assm.obj_pool_)
    <2>1. Kept(v.assm.obj_pool_, y.assm.obj_pool_) /\ h.assm.obj_pool_ = y.assm.obj_pool_
        BY DEF Three, Arg, Given, ReadOn, Accepted
    <2> QED BY <2>1, KeptSelf DEF Kept
<1>4. ASSUME k + l <= 1 PROVE DenotesIn(h.assm.obj_pool_, Instrs(h), h.origin, N, x[2], Wrd[a[2]])
    <2>1. CASE IsA(a[2], IsRegister)
        <3>1. x[2] = Wrd[a[2]].num /\ IsRegister(Wrd[a[2]])
            BY <2>1 DEF Three, Arg, Given, IsA
        <3> QED BY <3>1 DEF DenotesIn
    <2>2. CASE IsA(a[2], IsConstant)
        <3>1. ASSUME k = 1 PROVE N = Len(u.origin) + 2 /\ h.origin[N - 1] = h.origin[N]
                                 /\ Instrs(h)[N - 1] = Instrs(v)[Len(u.origin) + 1]
            <4>1. l = 0 /\ N = L + 2 /\ N - 1 = L + 1 /\ L + 1 \in 1..Len(v.origin) /\ L + 1 \in 1..Len(y.origin)
                  /\ N \in (L + 1)..N /\ N - 1 \in (L + 1)..N
                BY ONLY <1>4, <1>7, <3>1
            <4> QED BY <1>8, <1>9, <4>1
        <3>2. x[2] # G_INSTR_ARG_INVALID
            OBVIOUS
        <3> QED BY <1>3, <1>7, <2>2, <3>1, <3>2, PutDenotes
    <2> QED BY <2>1, <2>2 DEF Operands
<1>5. DenotesIn(h.assm.obj_pool_, Instrs(h), h.origin, N, x[3], Wrd[a[3]])
    <2>1. CASE IsA(a[3], IsRegister)
        <3>1. x[3] = Wrd[a[3]].num /\ IsRegister(Wrd[a[3]])
            BY <2>1 DEF Three, Arg, Given, IsA
        <3> QED BY <3>1 DEF DenotesIn
    <2>2. CASE IsA(a[3], IsConstant)
        <3>1. ASSUME l = 1 PROVE N = Len(v.origin) + 2 /\ h.origin[N - 1] = h.origin[N]
                                 /\ Instrs(h)[N - 1] = Instrs(y)[Len(v.origin) + 1]
            <4>1. N = Len(v.origin) + 2 /\ N - 1 = Len(v.origin) + 1 /\ Len(v.origin) + 1 \in 1..Len(y.origin)
                  /\ N \in (L + 1)..N /\ N - 1 \in (L + 1)..N
                BY ONLY <1>7, <3>1
            <4> QED BY <1>8, <1>9, <4>1
        <3>2. x[3] # G_INSTR_ARG_INVALID
            OBVIOUS
        <3> QED BY <1>3, <1>7, <2>2, <3>1, <3>2, PutDenotes
    <2> QED BY <2>1, <2>2 DEF Operands
<1>6. Right(h, N, op, a, k + l)
    BY <1>1, <1>2, <1>4, <1>5 DEF Right
<1> QED BY <1>6

LEMMA ThreeDid ==
    ASSUME NEW w, NEW u, NEW v, NEW y, NEW n, NEW a, NEW x, Three(w, u, v, y, n, a, x), NEW h, NEW op, Ends(y, h, op, x)
    PROVE  \E m \in 0..2 : Did(w, h, op, a, m)
<1>0. Told(h) \/ (NamesR(a[1]) /\ IsOperand(a[2]) /\ IsOperand(a[3]))
    BY ThreeAnswered
<1>1. /\ Fits(w) /\ Fits(u) /\ Fits(v) /\ Fits(y) /\ Quiet(w, u)
      /\ Arg(u, v, After(a[1]), a[2], x[2]) /\ Arg(v, y, After(a[2]), a[3], x[3])
    BY DEF Three
<1>2. u.at = w.at /\ v.at = w.at /\ y.at = w.at
    BY ThreeWent
<1>3. PICK k \in 0..1 : Put(u, v, a[2], x[2], k)
    BY <1>1, ArgPut
<1>4. PICK l \in 0..1 : Put(v, y, a[3], x[3], l)
    BY <1>1, ArgPut
<1> DEFINE L == Len(w.origin)
           m == k + l
<1>5. Grew(w, u, 0) /\ Grew(u, v, k) /\ Grew(v, y, l) /\ k \in Nat /\ l \in Nat /\ 0 \in Nat /\ m \in Nat
    BY <1>1, <1>3, <1>4, QuietGrew DEF Put
<1>6. IsSum(0, k, k) /\ IsSum(k, l, m) /\ IsSum(m, 1, m + 1) /\ m = k + l
    BY <1>5 DEF IsSum
<1>7. Grew(w, v, k)
    BY <1>2, <1>5, <1>6, GrewOn
<1>8. /\ Grew(w, y, m) /\ L \in Nat /\ Len(v.origin) = L + k
      /\ \A i \in 1..Len(v.origin) : Instrs(y)[i] = Instrs(v)[i]
    <2>1. /\ Grew(w, y, m) /\ Len(w.origin) \in Nat /\ Len(v.origin) = Len(w.origin) + k
          /\ \A i \in 1..Len(v.origin) : Instrs(y)[i] = Instrs(v)[i]
        BY <1>2, <1>5, <1>6, <1>7, GrewOn
    <2> QED BY ONLY <2>1
<1>9. Len(y.origin) = L + m /\ Len(u.origin) = L
    <2>1. Len(u.origin) = Len(w.origin) + 0 /\ Len(w.origin) \in Nat /\ Len(y.origin) = Len(w.origin) + m
        BY ONLY <1>5, <1>8 DEF Grew
    <2> QED BY ONLY <2>1
<1>10. k = 1 => Instrs(v)[L + 1].form = "RC"
    BY <1>3, <1>9 DEF Put
<1>11. l = 1 => Instrs(y)[(L + k) + 1].form = "RC"
    BY <1>4, <1>8 DEF Put
<1> HIDE DEF L
<1>12. \A i \in 1..m : Instrs(y)[L + i].form = "RC"
    <2> SUFFICES ASSUME NEW i \in 1..m PROVE Instrs(y)[L + i].form = "RC"
        OBVIOUS
    <2>1. CASE i <= k
        <3>1. k = 1 /\ i = 1 /\ L + 1 \in 1..Len(v.origin)
            BY <1>3, <1>8, <2>1
        <3> QED BY <1>8, <1>10, <3>1
    <2>2. CASE ~(i <= k)
        <3>1. l = 1 /\ L + i = (L + k) + 1
            BY <1>3, <1>4, <1>8, <2>2
        <3> QED BY <1>11, <3>1
    <2> QED BY <2>1, <2>2
<1>13. m \in 0..2
    BY <1>3, <1>4
<1>14. CASE ~h.ok
    <2>1. Refused(y, h)
        BY <1>14 DEF Ends, Accepted
    <2>2. h.origin = y.origin /\ Instrs(h) = Instrs(y)
        BY <2>1 DEF Refused, Quiet, Instrs
    <2>3. Grew(w, h, m)
        BY <1>8, <2>2 DEF Grew
    <2>4. Operands(a) => ToldOf(h, {"too many", "no memory"})
        BY <1>14, ThreeTold
    <2> HIDE DEF m
    <2>5. Did(w, h, op, a, m)
        BY <1>0, <1>12, <1>14, <2>2, <2>3, <2>4 DEF Did, L
    <2> QED BY <1>13, <2>5
<1>15. CASE h.ok
    <2> DEFINE instr == RAB(op, x[1], x[2], x[3])
    <2>1. Accepted(y, h, instr) /\ G_INSTR_ARG_INVALID \notin {x[1], x[2], x[3]}
        BY <1>15 DEF Ends, Refused
    <2>2. \A i \in 1..3 : x[i] # G_INSTR_ARG_INVALID
        <3>1. \A i \in 1..3 : i = 1 \/ i = 2 \/ i = 3
            OBVIOUS
        <3> QED BY <2>1, <3>1
    <2> HIDE DEF instr
    <2>3. Wrote(y, h, instr)
        BY <2>1 DEF Accepted
    <2>4. Grew(y, h, 1) /\ Instrs(h)[Len(y.origin) + 1] = instr
        BY <1>1, <2>3, WroteGrew
    <2>5. /\ Grew(w, h, m + 1) /\ \A i \in 1..Len(y.origin) : Instrs(h)[i] = Instrs(y)[i]
        BY <1>2, <1>6, <1>8, <2>4, GrewOn
    <2>6. Instrs(h)[(L + m) + 1] = instr
        BY <1>9, <2>4
    <2>7. \A i \in 1..m : Instrs(h)[L + i].form = "RC"
        <3>1. \A i \in 1..m : L + i \in 1..Len(y.origin)
            BY <1>8, <1>9
        <3> QED BY <1>12, <2>5, <3>1
    <2>8. ASSUME Operands(a) PROVE Right(h, (L + m) + 1, op, a, m)
        <3>1. \A i \in (L + 1)..((L + m) + 1) : h.origin[i] = w.at
            <4>1. Len(h.origin) = (L + m) + 1
                <5>1. Len(h.origin) = L + (m + 1)
                    BY <2>5 DEF Grew, L
                <5>2. L \in Nat /\ m \in Nat
                    BY <1>8, <1>13
                <5> QED BY ONLY <5>1, <5>2
            <4>2. \A i \in (L + 1)..Len(h.origin) : h.origin[i] = w.at
                BY <2>5 DEF Grew, L
            <4> QED BY <4>1, <4>2
        <3>2. Placed(w, u, v, y, h, k, l, (L + m) + 1, instr)
            <4>1. k \in 0..1 /\ l \in 0..1 /\ m = k + l
                OBVIOUS
            <4> QED BY <1>8, <1>9, <2>5, <2>6, <2>8, <3>1, <4>1 DEF Placed
        <3> QED BY <1>3, <1>4, <2>1, <2>2, <2>8, <3>2, ThreeRight DEF instr
    <2>9. Instrs(h)[(L + m) + 1].form = "RAB"
        BY <2>6, FormsAre DEF instr
    <2> HIDE DEF m
    <2>10. Did(w, h, op, a, m)
        BY <1>0, <1>15, <2>5, <2>7, <2>8, <2>9 DEF Did, L
    <2> QED BY <1>13, <2>10
<1> QED BY <1>14, <1>15

-----------------------------------------------------------------------------
(* A round of asm_translate.                                               *)
Standing ==
    /\ phase \in {"ready", "translating", "done"} => src \in Rendered
    /\ phase = "none" => src = NoSource
    /\ phase \in {"ready", "translating"} => PoolOk(assm.obj_pool_) /\ \E n : Before(assm.lex_, n)
    /\ phase = "ready" => origin = <<>>
    /\ phase = "translating" => \A i \in 1..Len(origin) : origin[i] < Place
    /\ phase \in {"translating", "done"} => \A i, j \in 1..Len(origin) : i < j => origin[i] <= origin[j]

(* The round is about word a, the next one after n.                        *)
RoundOf(w, n, a) ==
    /\ src \in Rendered /\ Marked /\ Doing(w) /\ Fitting(w, 0) /\ w.args = <<>> /\ ~w.over
    /\ Before(assm.lex_, n) /\ IsNext(n, a) /\ a \in 1..(NWords + 1)
    /\ Outcome(w.assm.lex_, a) /\ Tok(w) = Next_tok /\ Before(w.assm.lex_, After(a))
    /\ w.at = Plc[a] /\ w.reports = reports /\ w.origin = origin /\ Instrs(w) = assm.code_.instr_
    /\ PoolOk(w.assm.obj_pool_) /\ w.assm.obj_pool_ = assm.obj_pool_

LEMMA RoundOpens ==
    ASSUME IInv, Filled, Standing, phase = "translating", NEW mem, NEW opens,
           NEW n, Before(assm.lex_, n)
    PROVE  \E a : RoundOf(get_tok(Round(Next_tok, mem, opens)), n, a)
<1> DEFINE v == Round(Next_tok, mem, opens)
           w == get_tok(v)
<1>1. src \in Rendered /\ PoolOk(assm.obj_pool_)
    BY DEF Standing
<1>2. Doing(v) /\ v.assm = assm
    BY RoundBegins DEF Doing
<1>3. v.origin = origin /\ v.at = Next_tok.beg /\ v.args = <<>> /\ ~v.over /\ v.reports = reports
    BY DEF Round
<1>4. Marked /\ Doing(w) /\ Fitting(w, 0)
    BY RoundStarts
<1> HIDE DEF v
<1>5. PICK a : Taken(v, w, n, a)
    BY <1>1, <1>2, TokTaken
<1>6. w.assm.lex_ = Lex!lex_get_tok(assm.lex_, FALSE) /\ w.assm.obj_pool_ = assm.obj_pool_ /\ w.reports = reports
    BY <1>2, <1>3, TokIs
<1> HIDE DEF w
<1>7. Tok(w) = Next_tok
    BY <1>6 DEF Tok, Next_tok
<1>8. w.at = Plc[a]
    <2>1. w.at = Tok(w).beg
        BY <1>3, <1>5, <1>7 DEF Taken, ReadOn
    <2>2. Tok(w).beg = Plc[a]
        BY <1>5 DEF Taken, Outcome, Tok
    <2> QED BY <2>1, <2>2
<1>9. Instrs(w) = assm.code_.instr_ /\ w.origin = origin
    BY <1>2, <1>3, <1>5 DEF Taken, Quiet, Instrs
<1>10. w.args = <<>> /\ ~w.over
    BY <1>3, <1>5 DEF Taken
<1>11. RoundOf(w, n, a)
    BY <1>1, <1>4, <1>5, <1>6, <1>7, <1>8, <1>9, <1>10 DEF RoundOf, Taken, ReadOn
<1> QED BY <1>11 DEF w, v

(* A round that goes on ends before word n.                                *)
Turned(w, e, n) ==
    /\ Doing(e) /\ e.at = w.at /\ w.reports \subseteq e.reports /\ Kept(w.assm.obj_pool_, e.assm.obj_pool_)
    /\ Before(e.assm.lex_, n) /\ \E m \in Nat : Grew(w, e, m)

LEMMA WentTurned ==
    ASSUME NEW w, NEW h, NEW n, NEW a, Went(w, h, n, a), NEW op, NEW m \in 0..2, Did(w, h, op, a, m)
    PROVE  Turned(w, h, After(a[3]))
<1>1. m \in Nat /\ m + 1 \in Nat
    OBVIOUS
<1>2. \E k \in Nat : Grew(w, h, k)
    BY <1>1 DEF Did
<1> QED BY <1>2 DEF Went, Turned

(* The handler of the command.                                             *)
LEMMA HandlerTurns ==
    ASSUME NEW w, NEW n, NEW a, RoundOf(w, n, a), NEW op, NEW anything,
           NEW h, h = call_handler(w, op, anything), ~h.over
    PROVE  IF op \in Arithmetic THEN \E b : \E m \in 0..2 : Went(w, h, After(a), b) /\ Did(w, h, op, b, m)
           ELSE Turned(w, h, After(a)) /\ Quiet(w, h) /\ h.assm = w.assm
<1>1. CASE op \in Arithmetic
    <2>1. h = handle_arithmetic(w, op)
        BY <1>1 DEF call_handler
    <2>2. PICK u, v, y, b, x : Three(w, u, v, y, After(a), b, x) /\ Ends(y, h, op, x)
        <3>1. /\ src \in Rendered /\ Marked /\ Doing(w) /\ Fitting(w, 0) /\ PoolOk(w.assm.obj_pool_) /\ ~w.over
              /\ w.args = <<>> /\ Before(w.assm.lex_, After(a))
            BY DEF RoundOf
        <3>2. \E u, v, y, b, x : Three(w, u, v, y, After(a), b, x) /\ Ends(y, h, op, x)
            BY <2>1, <3>1, ThreeRead
        <3> QED BY <3>2
    <2>3. Went(w, h, After(a), b)
        BY <2>2, ThreeWent
    <2>4. \E m \in 0..2 : Did(w, h, op, b, m)
        BY <2>2, ThreeDid
    <2> QED BY <1>1, <2>3, <2>4
<1>2. CASE op \notin Arithmetic
    <2>1. h = [w EXCEPT !.ok = anything]
        BY <1>2 DEF call_handler
    <2>2. IsRound(w)
        BY DoingIs DEF RoundOf
    <2>3. h.assm = w.assm /\ h.origin = w.origin /\ h.at = w.at /\ h.reports = w.reports
        <3>1. \A k : LET z == [w EXCEPT !.ok = k] IN
                 z.assm = w.assm /\ z.origin = w.origin /\ z.at = w.at /\ z.reports = w.reports
            BY <2>2 DEF IsRound, Rnd
        <3> QED BY ONLY <2>1, <3>1, Zenon
    <2>4. Doing(h)
        <3>1. PICK c, o : c \in Nat /\ Going(w, src.text, c, o)
            BY DEF RoundOf, Doing
        <3>2. \A k : Going([w EXCEPT !.ok = k], src.text, c, o)
            BY <3>1, SmallSteps
        <3> QED BY <2>1, <3>1, <3>2 DEF Doing
    <2>5. Quiet(w, h)
        BY <2>3 DEF Quiet
    <2>6. Grew(w, h, 0)
        BY <2>5, QuietGrew DEF RoundOf, Fitting
    <2>7. Kept(w.assm.obj_pool_, h.assm.obj_pool_)
        BY <2>3, KeptSelf DEF RoundOf
    <2>8. Turned(w, h, After(a))
        BY <2>3, <2>4, <2>6, <2>7 DEF RoundOf, Turned
    <2> QED BY <1>2, <2>3, <2>5, <2>8
<1> QED BY <1>1, <1>2

(* The rest of the line may be skipped.                                    *)
LEMMA SkipTurns ==
    ASSUME src \in Rendered, NEW w, NEW h, NEW n, Turned(w, h, n)
    PROVE  LET e == skip_line(h) IN
           /\ \A j \in 1..NLines : n \in Fst[j]..LineStop(j) => Turned(w, e, LineStop(j))
           /\ \E p : Turned(w, e, p)
           /\ Quiet(h, e) /\ e.assm.obj_pool_ = h.assm.obj_pool_ /\ e.reports = h.reports /\ e.over = h.over
<1> DEFINE e == skip_line(h)
<1>1. Doing(h) /\ Before(h.assm.lex_, n)
    BY DEF Turned
<1>2. /\ Doing(e) /\ e.assm.lex_ = Lex!lex_skip_line(h.assm.lex_)
      /\ e.assm.obj_pool_ = h.assm.obj_pool_ /\ Quiet(h, e)
      /\ e.at = h.at /\ e.over = h.over /\ e.reports = h.reports
    BY <1>1, SkipIs
<1> HIDE DEF e
<1>3. e.assm.lex_ = LexP!lex_skip_line(h.assm.lex_)
    BY <1>2, SameSkip
<1>4. ASSUME NEW p, Before(e.assm.lex_, p) PROVE Turned(w, e, p)
    <2>1. \E m \in Nat : Grew(w, e, m)
        BY <1>2 DEF Turned, Grew, Quiet, Instrs
    <2> QED BY <1>2, <1>4, <2>1 DEF Turned
<1>5. \A j \in 1..NLines : n \in Fst[j]..LineStop(j) => Turned(w, e, LineStop(j))
    BY <1>1, <1>3, <1>4, SkipRead
<1>6. \E p : Turned(w, e, p)
    <2>1. NWords \in Nat /\ n \in 1..(NWords + 1)
        BY <1>1, PlacesRise DEF Before
    <2>2. CASE n = NWords + 1
        BY <1>1, <1>3, <1>4, <2>2, SkipRead
    <2>3. CASE n # NWords + 1
        <3>1. n \in 1..NWords
            BY <2>1, <2>3
        <3> QED BY <1>5, <3>1, LineOf
    <2> QED BY <2>2, <2>3
<1> QED BY <1>2, <1>5, <1>6 DEF e

Became(e) ==
    assm' = e.assm /\ origin' = e.origin /\ reports' = e.reports /\ src' = src /\ ~e.over

(* No step of a round goes back.                                           *)
LEMMA NeverBack ==
    ASSUME NEW w, Doing(w)
    PROVE  /\ \A op, anything : call_handler(w, op, anything).assm.lex_.curr_sym_ >= w.assm.lex_.curr_sym_
           /\ skip_line(w).assm.lex_.curr_sym_ >= w.assm.lex_.curr_sym_
           /\ w.assm.lex_.curr_sym_ \in Nat
<1>1. PICK c, o : c \in Nat /\ Going(w, src.text, c, o)
    BY DEF Doing
<1> DEFINE d == w.assm.lex_.curr_sym_
<1>2. d \in Nat
    BY <1>1 DEF Going, LexP!Lexers
<1> HIDE DEF d
<1>3. Going(w, src.text, d, o)
    <2>1. d >= d
        BY <1>2
    <2> QED BY <1>1, <2>1 DEF Going, d
<1>4. ASSUME NEW op, NEW anything PROVE call_handler(w, op, anything).assm.lex_.curr_sym_ >= d
    <2>1. Going(call_handler(w, op, anything), src.text, d, o)
        BY <1>2, <1>3, HandlerGoing
    <2> QED BY <2>1 DEF Going
<1>5. Going(skip_line(w), src.text, d, o)
    BY <1>2, <1>3, SkipGoing
<1> QED BY <1>2, <1>4, <1>5 DEF Going, d

(* The command of word a goes on.                                          *)
Commanded(w, h, e, n, a, op, anything) ==
    /\ RoundOf(w, n, a) /\ h = call_handler(w, op, anything) /\ ~h.over
    /\ (e = h /\ h.ok) \/ (e = skip_line(h) /\ ~h.ok)
    /\ Became(e) /\ Place' > Plc[a]
    /\ a \in 1..NWords /\ IsName(Wrd[a].sym) /\ ~IsStuck(Wrd[a].sym) /\ Means(a)
    /\ op \in find_reserved_command(Wrd[a].name)

(* The token of a round is an identifier only if its word is a name.       *)
LEMMA NameOfToken ==
    ASSUME NEW w, NEW n, NEW a, RoundOf(w, n, a)
    PROVE  /\ Next_tok.type = "IDENTIFIER" =>
                  /\ a \in 1..NWords /\ IsName(Wrd[a].sym) /\ ~IsStuck(Wrd[a].sym) /\ Means(a)
                  /\ src.at[Next_tok.beg] = Wrd[a] /\ w.assm.lex_.curr_sym_ > Plc[a]
           /\ Next_tok.type = "FINAL" <=> a = NWords + 1
           /\ a \in 1..NWords => /\ Means(a)
                                 /\ IsName(Wrd[a].sym) => Next_tok.type = "IDENTIFIER"
<1>1. /\ src \in Rendered /\ Outcome(w.assm.lex_, a) /\ Next_tok = w.assm.lex_.tok_
      /\ a \in 1..(NWords + 1) /\ NWords \in Nat
    BY PlacesRise DEF RoundOf, Tok
<1>2. a = NWords + 1 => Next_tok.type = "FINAL"
    BY <1>1 DEF Outcome
<1>3. ASSUME a \in 1..NWords
      PROVE  /\ Next_tok.type # "FINAL" /\ Means(a)
             /\ Next_tok.type = "IDENTIFIER" => IsName(Wrd[a].sym) /\ ~IsStuck(Wrd[a].sym)
             /\ IsName(Wrd[a].sym) => Next_tok.type = "IDENTIFIER"
    <2>1. IF IsStuck(Wrd[a].sym) THEN Next_tok.type = "INCORRECT" ELSE Next_tok.type = Kind(Wrd[a].sym)
        BY <1>1, <1>3 DEF Outcome
    <2>2. IsName(Wrd[a].sym) => ~IsStuck(Wrd[a].sym)
        BY KindsOfWords
    <2>3. Means(a)
        BY <1>1, <1>3 DEF RoundOf, IsNext
    <2> QED BY <2>1, <2>2, <2>3 DEF Kind
<1>4. ASSUME a \in 1..NWords, ~IsStuck(Wrd[a].sym)
      PROVE  src.at[Next_tok.beg] = Wrd[a] /\ w.assm.lex_.curr_sym_ > Plc[a]
    <2>1. Size(a) \in Nat \ {0} /\ \A i \in 0..(Size(a) - 1) : src.at[Plc[a] + i] = Wrd[a]
        BY <1>1, <1>4, CharIs
    <2>2. Plc[a] \in Nat /\ Next_tok.beg = Plc[a] /\ w.assm.lex_.curr_sym_ = Plc[a] + Size(a)
        BY <1>1, <1>4, PlacesRise DEF Outcome
    <2>3. 0 \in 0..(Size(a) - 1) /\ Plc[a] + 0 = Plc[a] /\ Plc[a] + Size(a) > Plc[a]
        BY ONLY <2>1, <2>2
    <2> QED BY <2>1, <2>2, <2>3
<1>5. a = NWords + 1 \/ a \in 1..NWords
    BY <1>1
<1> QED BY <1>2, <1>3, <1>4, <1>5

LEMMA CommandTurns ==
    ASSUME IInv, Filled, Standing, NEW op, NEW mem, NEW opens, NEW anything, Command(op, mem, opens, anything),
           phase' # "over", NEW n, Before(assm.lex_, n)
    PROVE  \E w, h, e, a : Commanded(w, h, e, n, a, op, anything)
<1> DEFINE w == get_tok(Round(Next_tok, mem, opens))
           h == call_handler(w, op, anything)
           e == IF h.ok \/ h.over THEN h ELSE skip_line(h)
<1>1. phase = "translating" /\ Next_tok.type = "IDENTIFIER" /\ op \in find_reserved_command(src.at[Next_tok.beg].name)
      /\ Concludes(e, "translating")
    BY DEF Command
<1>2. PICK a : RoundOf(w, n, a)
    BY <1>1, RoundOpens
<1>3. assm' = e.assm /\ origin' = e.origin /\ reports' = e.reports /\ src' = src
      /\ phase' = IF e.over THEN "over" ELSE "translating"
    BY <1>1 DEF Concludes
<1> HIDE DEF w
<1>4. ~e.over
    <2> HIDE DEF e
    <2> QED BY <1>3
<1>5. ~h.over
    <2> HIDE DEF h
    <2> QED BY <1>4
<1>6. e = IF h.ok THEN h ELSE skip_line(h)
    <2> HIDE DEF h
    <2> QED BY <1>5
<1>7. /\ a \in 1..NWords /\ IsName(Wrd[a].sym) /\ ~IsStuck(Wrd[a].sym) /\ Means(a)
      /\ src.at[Next_tok.beg] = Wrd[a] /\ w.assm.lex_.curr_sym_ > Plc[a]
    BY <1>1, <1>2, NameOfToken
<1>8. Doing(w) /\ Doing(h)
    BY <1>2, HandlerFits DEF RoundOf
<1>9. h.assm.lex_.curr_sym_ >= w.assm.lex_.curr_sym_ /\ w.assm.lex_.curr_sym_ \in Nat
    BY <1>8, NeverBack
<1> HIDE DEF h
<1>10. skip_line(h).assm.lex_.curr_sym_ >= h.assm.lex_.curr_sym_ /\ h.assm.lex_.curr_sym_ \in Nat
       /\ skip_line(h).assm.lex_.curr_sym_ \in Nat
    BY <1>8, DoingSteps, NeverBack
<1>11. Place' > Plc[a]
    <2>1. Place' = e.assm.lex_.curr_sym_
        BY <1>3 DEF Place
    <2>2. Plc[a] \in Nat
        <3>1. src \in Rendered
            BY <1>2 DEF RoundOf
        <3> QED BY <1>7, <3>1, PlacesRise
    <2> HIDE DEF e
    <2>3. e.assm.lex_.curr_sym_ \in {h.assm.lex_.curr_sym_, skip_line(h).assm.lex_.curr_sym_}
        BY <1>6
    <2> QED BY <1>7, <1>9, <1>10, <2>1, <2>2, <2>3
<1>12. Became(e)
    BY <1>3, <1>4 DEF Became
<1> HIDE DEF e
<1>13. Commanded(w, h, e, n, a, op, anything)
    BY <1>1, <1>2, <1>5, <1>6, <1>7, <1>11, <1>12 DEF Commanded, h
<1> QED BY <1>13

(* While the source stays its words do.                                    *)
LEMMA SameLayout == src' = src => Layout' = Layout
BY DEF Layout, WordsLaid, LinesLaid, Lex!Classes

LEMMA SameWords ==
    ASSUME src' = src
    PROVE  /\ Wrd' = Wrd /\ Plc' = Plc /\ Fst' = Fst /\ NWords' = NWords /\ NLines' = NLines
           /\ \A j : MeanEnd(j)' = MeanEnd(j) /\ LineStop(j)' = LineStop(j)
<1>1. Layout' = Layout
    BY SameLayout
<1> QED BY <1>1 DEF Wrd, Plc, Fst, NWords, NLines, MeanEnd, LineStop

LEMMA SameBefore ==
    ASSUME src' = src
    PROVE  \A l, n : Before(l, n)' <=> Before(l, n)
<1>1. \A n : Stops(n)' <=> Stops(n)
    BY SameWords DEF Stops
<1> QED BY <1>1, SameWords DEF Before, LexP!Lexers

LEMMA BeforeNext ==
    ASSUME NEW e, Became(e), NEW n, Before(e.assm.lex_, n)
    PROVE  Before(assm.lex_, n)'
<1>1. assm' = e.assm /\ src' = src
    BY DEF Became
<1>2. \A m : Stops(m)' <=> Stops(m)
    BY <1>1, SameWords DEF Stops
<1> QED BY <1>1, <1>2, SameWords DEF Before, LexP!Lexers

LEMMA RoundPlaces ==
    ASSUME NEW w, NEW n, NEW a, RoundOf(w, n, a)
    PROVE  Place \in Nat /\ Place <= Plc[a] /\ Plc[a] \in Nat
<1>1. src \in Rendered /\ Before(assm.lex_, n) /\ IsNext(n, a) /\ a \in 1..(NWords + 1)
    BY DEF RoundOf
<1>2. Place \in Nat /\ Place <= Plc[n]
    BY <1>1, BeforeIs DEF Place
<1>3. NWords \in Nat /\ Plc[a] \in Nat /\ n \in 1..(NWords + 1)
    BY <1>1, PlacesRise DEF Before
<1>4. Plc[n] <= Plc[a]
    <2>1. CASE a = n
        BY <1>3, <2>1
    <2>2. CASE a # n
        <3>1. n \in 1..NWords /\ n < a
            BY <1>1, <1>3, <2>2 DEF IsNext
        <3>2. (Plc[n] + Size(n)) + 1 <= Plc[a]
            BY <1>1, <3>1, PlacesRise
        <3>3. Size(n) \in Nat /\ Plc[n] \in Nat
            <4>1. Plc[n] \in 1..(Len(src.text) + 1)
                BY <1>1, <1>3, PlacesRise
            <4> QED BY <1>1, <3>1, <4>1, CharIs
        <3> QED BY ONLY <1>3, <3>2, <3>3
    <2> QED BY <2>1, <2>2
<1>5. Plc[n] \in Nat
    BY <1>1, <1>3, PlacesRise
<1> QED BY ONLY <1>2, <1>3, <1>4, <1>5

(* The instructions of a round are those of a later place than all before. *)
LEMMA StandingTurned ==
    ASSUME Filled, Standing, phase = "translating", phase' \in {"translating", "done"},
           NEW w, NEW e, NEW n, NEW a, RoundOf(w, n, a), NEW p, Turned(w, e, p), Became(e),
           phase' = "translating" => Place' > Plc[a]
    PROVE  Standing'
<1>1. src \in Rendered /\ w.at = Plc[a] /\ w.origin = origin
    BY DEF RoundOf
<1>2. assm' = e.assm /\ origin' = e.origin /\ src' = src
    BY DEF Became
<1>3. Rendered' = Rendered
    BY DEF Rendered
<1>4. PoolOk(assm.obj_pool_)' /\ Before(assm.lex_, p)'
    <2>1. PoolOk(e.assm.obj_pool_) /\ Before(e.assm.lex_, p)
        BY DEF Turned, Kept
    <2> QED BY <1>2, <2>1, BeforeNext DEF PoolOk, IsObj
<1>5. PICK m \in Nat : Grew(w, e, m)
    BY DEF Turned
<1> DEFINE L == Len(origin)
           N == Len(origin')
<1>6. /\ L \in Nat /\ N = L + m /\ \A i \in 1..L : origin'[i] = origin[i]
      /\ \A i \in (L + 1)..N : origin'[i] = Plc[a]
    BY <1>1, <1>2, <1>5 DEF Grew
<1>7. Place \in Nat /\ Place <= Plc[a] /\ Plc[a] \in Nat
    BY RoundPlaces
<1>8. \A i \in 1..L : origin[i] \in Nat /\ origin[i] < Place
    BY DEF Filled, Standing
<1>9. Place' \in Nat
    BY <1>2 DEF Turned, Doing, Going, LexP!Lexers, Place
<1> HIDE DEF L, N
<1>10. \A i \in 1..N : origin'[i] <= Plc[a] /\ origin'[i] \in Nat /\ (i \notin 1..L => origin'[i] = Plc[a])
    <2> SUFFICES ASSUME NEW i \in 1..N
                 PROVE  origin'[i] <= Plc[a] /\ origin'[i] \in Nat /\ (i \notin 1..L => origin'[i] = Plc[a])
        OBVIOUS
    <2>1. CASE i \in 1..L
        BY <1>6, <1>7, <1>8, <2>1
    <2>2. CASE i \notin 1..L
        <3>1. i \in (L + 1)..N
            BY <1>5, <1>6, <2>2
        <3> QED BY <1>6, <1>7, <2>2, <3>1
    <2> QED BY <2>1, <2>2
<1>11. phase' = "translating" => \A i \in 1..N : origin'[i] < Place'
    BY <1>7, <1>9, <1>10
<1>12. \A i, j \in 1..N : i < j => origin'[i] <= origin'[j]
    <2> SUFFICES ASSUME NEW i \in 1..N, NEW j \in 1..N, i < j PROVE origin'[i] <= origin'[j]
        OBVIOUS
    <2>1. CASE j \in 1..L
        <3>1. i \in 1..L
            BY <1>6, <2>1
        <3>2. origin[i] <= origin[j]
            BY <2>1, <3>1 DEF Standing, L
        <3> QED BY <1>6, <2>1, <3>1, <3>2
    <2>2. CASE j \notin 1..L
        BY <1>10, <2>2
    <2> QED BY <2>1, <2>2
<1> QED BY <1>1, <1>2, <1>3, <1>4, <1>11, <1>12 DEF Standing, N

(* The round about a token that begins no command.                         *)
Passed(w, e, n, a, j) ==
    /\ RoundOf(w, n, a) /\ j \in 1..NLines /\ a \in Fst[j]..(MeanEnd(j) - 1) /\ ~IsName(Wrd[a].sym)
    /\ Turned(w, e, LineStop(j)) /\ Quiet(w, e) /\ Told(e) /\ Became(e) /\ Place' > Plc[a]

LEMMA WithinLine ==
    ASSUME src \in Rendered, NEW j \in 1..NLines, NEW a \in Fst[j]..(MeanEnd(j) - 1)
    PROVE  /\ a \in 1..NWords /\ Means(a) /\ a \in Fst[j]..LineStop(j) /\ After(a) \in Fst[j]..LineStop(j) /\ a < LineStop(j)
           /\ After(a) \in {a, a + 1} /\ Fst[j] \in Nat /\ LineStop(j) \in 1..NWords /\ MeanEnd(j) \in Nat
<1>1. /\ Fst[j] \in 1..NWords /\ LineStop(j) \in Fst[j]..NWords /\ MeanEnd(j) \in Fst[j]..LineStop(j) /\ NWords \in Nat
    BY LineFacts, PlacesRise
<1>2. a \in 1..NWords /\ a \in Fst[j]..LineStop(j) /\ a + 1 \in Fst[j]..LineStop(j) /\ a < LineStop(j)
      /\ Fst[j] \in Nat /\ LineStop(j) \in 1..NWords /\ MeanEnd(j) \in Nat
    BY <1>1
<1>3. Means(a)
    BY DEF Means
<1>4. After(a) \in {a, a + 1}
    BY DEF After
<1> QED BY <1>2, <1>3, <1>4

LEMMA UnexpectedTurns ==
    ASSUME IInv, Filled, Standing, NEW opens, Unexpected(opens), NEW n, Before(assm.lex_, n)
    PROVE  \E w, e, a, j : Passed(w, e, n, a, j)
<1> DEFINE w == get_tok(Round(Next_tok, FALSE, opens))
           h == error(w, "unexpected")
           e == skip_line(h)
<1>1. phase = "translating" /\ Next_tok.type \notin {"IDENTIFIER", "FINAL"} /\ Concludes(e, "translating")
    BY DEF Unexpected
<1>2. PICK a : RoundOf(w, n, a)
    <2>1. \A mem : \E a : RoundOf(get_tok(Round(Next_tok, mem, opens)), n, a)
        BY <1>1, RoundOpens
    <2>2. \E a : RoundOf(w, n, a)
        BY ONLY <2>1, Zenon DEF w
    <2> QED BY <2>2
<1>3. assm' = e.assm /\ origin' = e.origin /\ reports' = e.reports /\ src' = src
    BY <1>1 DEF Concludes
<1> HIDE DEF w
<1>4. src \in Rendered /\ Doing(w) /\ a \in 1..(NWords + 1) /\ NWords \in Nat /\ ~w.over /\ Before(w.assm.lex_, After(a))
    BY <1>2, PlacesRise DEF RoundOf
<1>5. a \in 1..NWords /\ ~IsName(Wrd[a].sym) /\ Means(a)
    <2>1. a # NWords + 1
        BY <1>1, <1>2, NameOfToken
    <2>2. a \in 1..NWords
        BY <1>4, <2>1
    <2> QED BY <1>1, <1>2, <2>2, NameOfToken
<1>6. PICK j \in 1..NLines : a \in Fst[j]..(MeanEnd(j) - 1)
    BY <1>5 DEF Means
<1>7. Doing(h) /\ LeavesLex(w, h) /\ h.assm = w.assm /\ Quiet(w, h) /\ h.over = w.over /\ Told(h)
    BY <1>4, ErrorIs
<1> HIDE DEF h
<1>8. Turned(w, h, After(a))
    <2>1. Grew(w, h, 0)
        BY <1>2, <1>7, QuietGrew DEF RoundOf, Fitting
    <2>2. Kept(w.assm.obj_pool_, h.assm.obj_pool_)
        BY <1>2, <1>7, KeptSelf DEF RoundOf
    <2> QED BY <1>4, <1>7, <2>1, <2>2 DEF Turned, LeavesLex
<1>9. After(a) \in Fst[j]..LineStop(j) /\ a < LineStop(j) /\ LineStop(j) \in 1..NWords
    BY <1>4, <1>6, WithinLine
<1>10. Turned(w, e, LineStop(j)) /\ Quiet(h, e) /\ e.reports = h.reports /\ e.over = h.over
    BY <1>4, <1>8, <1>9, SkipTurns
<1> HIDE DEF e
<1>11. Quiet(w, e) /\ Told(e)
    BY <1>7, <1>10 DEF Quiet, Told, Turned, LeavesLex
<1>12. Became(e)
    BY <1>3, <1>4, <1>7, <1>10 DEF Became
<1>13. Place' > Plc[a]
    <2>1. Before(e.assm.lex_, LineStop(j)) /\ Place' = e.assm.lex_.curr_sym_
        BY <1>3, <1>10 DEF Turned, Place
    <2>2. Plc[LineStop(j)] <= Place' + 1 /\ Place' \in Nat
        BY <1>4, <2>1, BeforeIs
    <2>3. (Plc[a] + Size(a)) + 1 <= Plc[LineStop(j)] /\ Plc[a] \in Nat /\ Plc[LineStop(j)] \in Nat
        BY <1>4, <1>5, <1>9, PlacesRise
    <2>4. Size(a) \in Nat \ {0}
        BY <1>4, <1>5, CharIs
    <2> QED BY ONLY <2>2, <2>3, <2>4
<1>14. Passed(w, e, n, a, j)
    BY <1>2, <1>5, <1>6, <1>10, <1>11, <1>12, <1>13 DEF Passed
<1> QED BY <1>14

(* The last round.                                                         *)
LEMMA FinalTurns ==
    ASSUME IInv, Filled, Standing, Final, NEW n, Before(assm.lex_, n)
    PROVE  /\ phase = "translating" /\ phase' = "done"
           /\ \E w : RoundOf(w, n, NWords + 1) /\ Turned(w, w, After(NWords + 1)) /\ Quiet(w, w) /\ Became(w)
<1> DEFINE w == get_tok(Round(Next_tok, FALSE, FALSE))
<1>1. phase = "translating" /\ Next_tok.type = "FINAL" /\ Concludes(w, "done")
    BY DEF Final
<1>2. PICK a : RoundOf(w, n, a)
    <2>1. \A mem, opens : \E a : RoundOf(get_tok(Round(Next_tok, mem, opens)), n, a)
        BY <1>1, RoundOpens
    <2>2. \E a : RoundOf(w, n, a)
        BY ONLY <2>1, Zenon DEF w
    <2> QED BY <2>2
<1> HIDE DEF w
<1>3. assm' = w.assm /\ origin' = w.origin /\ reports' = w.reports /\ src' = src
      /\ phase' = IF w.over THEN "over" ELSE "done"
    BY <1>1 DEF Concludes
<1>4. a = NWords + 1
    BY <1>1, <1>2, NameOfToken
<1>5. phase' = "done" /\ Became(w)
    BY <1>2, <1>3 DEF RoundOf, Became
<1>6. Quiet(w, w)
    BY DEF Quiet
<1>7. Turned(w, w, After(a))
    <2>1. Grew(w, w, 0)
        BY <1>2, <1>6, QuietGrew DEF RoundOf, Fitting
    <2> QED BY <1>2, <2>1, KeptSelf DEF RoundOf, Turned
<1> QED BY <1>1, <1>2, <1>4, <1>5, <1>6, <1>7

(* The steps that are no rounds, and the rounds that go on.                *)
Idle ==
    /\ UNCHANGED <<assm, origin, reports, src>>
    /\ phase' = phase \/ (phase = "ready" /\ phase' = "translating")

Cleared == phase' = "none" /\ src' = NoSource

Goes(op, mem, opens, anything) ==
    Command(op, mem, opens, anything) /\ phase = "translating" /\ phase' = "translating"

LEMMA StepKinds ==
    ASSUME IInv, Standing, [Next]_vars
    PROVE  \/ \E source \in Rendered : AsmInit(source)
           \/ Idle
           \/ Cleared
           \/ phase' = "over"
           \/ Final
           \/ \E op, mem, opens, anything : Goes(op, mem, opens, anything)
           \/ \E opens : Unexpected(opens)
<1>1. IInv'
    BY NextOk
<1>2. ASSUME NEW pool, AsmInitFails(pool) PROVE Cleared
    <2>1. phase = "none" /\ phase' \in {"none", "crashed"} /\ src' = src
        BY <1>2 DEF AsmInitFails, asm_free
    <2> QED BY <1>1, <2>1 DEF IInv, Standing, Cleared
<1>3. CASE AsmFree
    <2>1. phase' \in {"none", "crashed"} /\ src' = NoSource
        BY <1>3 DEF AsmFree, asm_free
    <2> QED BY <1>1, <2>1 DEF IInv, Cleared
<1>4. CASE Translate
    BY <1>4 DEF Translate, Idle
<1>5. CASE SetUpLog \/ WriteLog
    BY <1>5 DEF SetUpLog, WriteLog, Calls, Idle
<1>6. CASE UNCHANGED vars
    BY <1>6 DEF vars, Idle
<1>7. CASE Ended
    BY <1>6, <1>7 DEF Ended
<1>8. ASSUME NEW op, NEW mem, NEW opens, NEW anything, Command(op, mem, opens, anything)
      PROVE  phase' = "over" \/ Goes(op, mem, opens, anything)
    <2> DEFINE h == call_handler(get_tok(Round(Next_tok, mem, opens)), op, anything)
               e == IF h.ok \/ h.over THEN h ELSE skip_line(h)
    <2>1. phase = "translating" /\ Concludes(e, "translating")
        BY <1>8 DEF Command
    <2> HIDE DEF e
    <2>2. phase' \in {"over", "translating"}
        BY <2>1 DEF Concludes
    <2> QED BY <1>8, <2>1, <2>2 DEF Goes
<1>9. CASE Unreserved
    BY <1>9 DEF Unreserved, Concludes
<1>10. CASE Rounds
    BY <1>8, <1>9, <1>10 DEF Rounds
<1> QED BY <1>2, <1>3, <1>4, <1>5, <1>6, <1>7, <1>10 DEF Next

(* At its first place a text is before its first word.                     *)
LEMMA FirstStop ==
    src \in Rendered => NWords \in Nat /\ 1 \in 1..(NWords + 1) /\ Stops(1) /\ Plc[1] = 1 /\ (NLines > 0 => Fst[1] = 1)
<1> SUFFICES ASSUME src \in Rendered
             PROVE  NWords \in Nat /\ 1 \in 1..(NWords + 1) /\ Stops(1) /\ Plc[1] = 1 /\ (NLines > 0 => Fst[1] = 1)
    OBVIOUS
<1>1. NWords \in Nat /\ Plc[1] = 1
    BY TextHolds DEF Text
<1>2. NLines \in Nat /\ Fst[1] = 1 /\ Fst[NLines + 1] = NWords + 1
    BY LinesHold
<1>3. Stops(1)
    <2>1. CASE NLines = 0
        BY <1>2, <2>1 DEF Stops
    <2>2. CASE NLines # 0
        <3>1. 1 \in 1..NLines
            BY <1>2, <2>2
        <3>2. MeanEnd(1) \in Fst[1]..LineStop(1) /\ Fst[1] \in 1..NWords
            BY <3>1, LineFacts
        <3>3. 1 \in Fst[1]..MeanEnd(1)
            BY <1>1, <1>2, <3>2
        <3> QED BY <3>1, <3>3 DEF Stops
    <2> QED BY <2>1, <2>2
<1> QED BY <1>1, <1>2, <1>3

LEMMA FirstStopNext ==
    (src \in Rendered => NWords \in Nat /\ 1 \in 1..(NWords + 1) /\ Stops(1) /\ Plc[1] = 1 /\ (NLines > 0 => Fst[1] = 1))'
BY FirstStop, PTL

LEMMA AsmInitStands ==
    ASSUME IInv, Filled, NEW source \in Rendered, AsmInit(source)
    PROVE  /\ Standing' /\ phase' = "ready" /\ src' = source /\ origin' = <<>> /\ Before(assm.lex_, 1)'
           /\ (NLines > 0 => Fst[1] = 1)'
<1>1. IInv'
    BY InitKeeps
<1>2. /\ phase = "none" /\ phase' = "ready" /\ src' = source /\ origin' = origin
      /\ assm' = [lex_ |-> Lex!lex_init(source.text), obj_pool_ |-> obj_pool_init(G_OBJ_TABLE_INITIAL_SIZE),
                  code_ |-> code_init("instr", G_CODE_INITIAL_SIZE)]
    BY DEF AsmInit
<1>3. origin' = <<>>
    BY <1>2 DEF Filled
<1>4. src' \in Rendered'
    BY <1>2 DEF Rendered
<1>5. (NWords \in Nat /\ 1 \in 1..(NWords + 1) /\ Stops(1) /\ Plc[1] = 1 /\ (NLines > 0 => Fst[1] = 1))'
    BY <1>4, FirstStopNext
<1>6. Before(assm.lex_, 1)'
    <2>1. Reads'
        BY <1>1, <1>2 DEF IInv
    <2>2. assm'.lex_.curr_sym_ = 1
        BY <1>2 DEF Lex!lex_init
    <2> QED BY <1>5, <2>1, <2>2 DEF Before, Reads
<1>7. PoolOk(assm.obj_pool_)'
    <2>1. assm'.obj_pool_ = obj_pool_init(G_OBJ_TABLE_INITIAL_SIZE) /\ G_OBJ_TABLE_INITIAL_SIZE \in Nat
        BY <1>2, AssemblerAssumption
    <2>2. PoolOk(assm'.obj_pool_)
        BY <2>1 DEF PoolOk, obj_pool_init
    <2> QED BY <2>2 DEF PoolOk, IsObj
<1> QED BY <1>2, <1>3, <1>4, <1>5, <1>6, <1>7 DEF Standing

LEMMA NextStanding ==
    ASSUME IInv, Filled, Standing, [Next]_vars
    PROVE  Standing'
<1>1. ASSUME NEW source \in Rendered, AsmInit(source) PROVE Standing'
    BY <1>1, AsmInitStands
<1>2. CASE Idle
    <2>1. assm' = assm /\ origin' = origin /\ src' = src /\ (phase' = phase \/ (phase = "ready" /\ phase' = "translating"))
        BY <1>2 DEF Idle
    <2>2. PoolOk(assm.obj_pool_)' = PoolOk(assm.obj_pool_) /\ Rendered' = Rendered
        BY <2>1 DEF PoolOk, IsObj, Rendered
    <2>3. \A n : Before(assm.lex_, n)' = Before(assm.lex_, n)
        <3>1. \A l, n : Before(l, n)' <=> Before(l, n)
            BY <2>1, SameBefore
        <3> QED BY <2>1, <3>1, SameWords DEF Before, LexP!Lexers
    <2>4. phase' = "translating" /\ phase = "ready" => Len(origin) = 0
        BY DEF Standing
    <2> QED BY <2>1, <2>2, <2>3, <2>4 DEF Standing, Place
<1>3. CASE Cleared
    BY <1>3 DEF Cleared, Standing
<1>4. CASE phase' = "over"
    BY <1>4 DEF Standing
<1>5. phase = "translating" => \E n : Before(assm.lex_, n)
    BY DEF Standing
<1>6. CASE Final
    <2>2. PICK n : Before(assm.lex_, n)
        BY <1>6, <1>5 DEF Final
    <2>3. PICK w : RoundOf(w, n, NWords + 1) /\ Turned(w, w, After(NWords + 1)) /\ Became(w) /\ phase' = "done"
        BY <1>6, <2>2, FinalTurns
    <2>4. phase' = "translating" => Place' > Plc[NWords + 1]
        BY <2>3
    <2>5. phase = "translating" /\ phase' \in {"translating", "done"}
        BY <1>6, <2>3 DEF Final
    <2> QED BY <2>3, <2>4, <2>5, StandingTurned
<1>7. ASSUME NEW op, NEW mem, NEW opens, NEW anything, Goes(op, mem, opens, anything) PROVE Standing'
    <2>1. Command(op, mem, opens, anything) /\ phase = "translating" /\ phase' = "translating" /\ phase' # "over"
        BY <1>7 DEF Goes
    <2>2. PICK n : Before(assm.lex_, n)
        BY <1>5, <2>1
    <2>3. PICK w, h, e, a : Commanded(w, h, e, n, a, op, anything)
        BY <2>1, <2>2, CommandTurns
    <2>4. /\ RoundOf(w, n, a) /\ h = call_handler(w, op, anything) /\ ~h.over
          /\ (e = h /\ h.ok) \/ (e = skip_line(h) /\ ~h.ok)
          /\ Became(e) /\ Place' > Plc[a] /\ src \in Rendered
        BY <2>3 DEF Commanded, RoundOf
    <2>5. \E p : Turned(w, h, p)
        <3>1. CASE op \in Arithmetic
            <4>1. PICK b : \E m \in 0..2 : Went(w, h, After(a), b) /\ Did(w, h, op, b, m)
                BY <2>4, <3>1, HandlerTurns
            <4> QED BY <4>1, WentTurned
        <3>2. CASE op \notin Arithmetic
            BY <2>4, <3>2, HandlerTurns
        <3> QED BY <3>1, <3>2
    <2>6. \E p : Turned(w, e, p)
        BY <2>4, <2>5, SkipTurns
    <2> QED BY <2>1, <2>4, <2>6, StandingTurned
<1>8. ASSUME NEW opens, Unexpected(opens) PROVE Standing'
    <2>1. phase = "translating" /\ phase' \in {"translating", "over"}
        <3> DEFINE e == skip_line(error(get_tok(Round(Next_tok, FALSE, opens)), "unexpected"))
        <3>1. phase = "translating" /\ Concludes(e, "translating")
            BY <1>8 DEF Unexpected
        <3> HIDE DEF e
        <3> QED BY <3>1 DEF Concludes
    <2>2. PICK n : Before(assm.lex_, n)
        BY <1>5, <2>1
    <2>3. PICK w, e, a, j : Passed(w, e, n, a, j)
        BY <1>8, <2>2, UnexpectedTurns
    <2>4. CASE phase' = "translating"
        BY <2>1, <2>3, <2>4, StandingTurned DEF Passed
    <2> QED BY <1>4, <2>1, <2>4
<1> QED BY <1>1, <1>2, <1>3, <1>4, <1>6, <1>7, <1>8, StepKinds

(* The words of a line of four are read one after the other.               *)
LEMMA NextHere ==
    ASSUME src \in Rendered, NEW j \in 1..NLines, NEW n \in Fst[j]..(MeanEnd(j) - 1), NEW a, IsNext(n, a)
    PROVE  a = n
<1>1. n \in 1..NWords /\ Means(n) /\ NWords \in Nat
    BY WithinLine, PlacesRise
<1>2. a \in n..(NWords + 1) /\ n \in n..NWords
    BY <1>1 DEF IsNext
<1>3. a <= n
    BY <1>1, <1>2 DEF IsNext
<1> QED BY <1>1, <1>2, <1>3

LEMMA OperandReads ==
    ASSUME NEW word \in SourceWords, IsRegister(word) \/ IsConstant(word)
    PROVE  ~IsStuck(word.sym)
<1>1. /\ word.sym \in {<<"hash">>, <<"colon">>, <<"dot">>, <<"other">>} \/ IsName(word.sym) \/ IsNumber(word.sym)
      /\ word.name # "" <=> IsName(word.sym)
    BY WordAssumption
<1>2. CASE IsRegister(word)
    <2>1. IsName(word.sym)
        BY <1>1, <1>2 DEF IsRegister
    <2> QED BY <2>1, KindsOfWords
<1>3. CASE IsConstant(word)
    <2>1. word.sym[1] \in {"digit", "sign"} /\ HasDigit(word.sym)
        BY <1>3 DEF IsConstant, HasDigit
    <2>2. IsNumber(word.sym)
        <3>1. ~IsName(word.sym)
            BY <2>1 DEF IsName, Lex!IsAlpha
        <3>2. word.sym \notin {<<"hash">>, <<"colon">>, <<"dot">>, <<"other">>}
            BY <2>1
        <3> QED BY <1>1, <3>1, <3>2
    <2> QED BY <2>1, <2>2, KindsOfWords
<1> QED BY <1>2, <1>3

(* Line k has a command and its operands in the words from a on.           *)
Lined(a, k) ==
    LET line == Meant(src.lines[k]) IN
    /\ a = Fst[k] /\ Len(line) = 4 /\ MeanEnd(k) = a + 4
    /\ \A i \in 1..4 : Wrd[a + (i - 1)] = line[i] /\ line[i] \in SourceWords /\ a + (i - 1) \in Fst[k]..(MeanEnd(k) - 1)

LEMMA FourLined ==
    ASSUME src \in Rendered, NEW k \in 1..NLines, Len(Meant(src.lines[k])) = 4
    PROVE  Lined(Fst[k], k)
<1>1. /\ MeanEnd(k) = Fst[k] + Len(Meant(src.lines[k]))
      /\ Meant(src.lines[k]) \in Seq(SourceWords)
      /\ \A i \in 1..Len(Meant(src.lines[k])) :
            /\ Wrd[Fst[k] + (i - 1)] = Meant(src.lines[k])[i]
            /\ Fst[k] + (i - 1) \in Fst[k]..(MeanEnd(k) - 1)
    BY LineFacts
<1>2. \A i \in 1..4 : Meant(src.lines[k])[i] \in SourceWords
    BY <1>1
<1> QED BY <1>1, <1>2 DEF Lined

(* Words b are those behind a.                                             *)
Behind(a, b) == b[1] = a + 1 /\ b[2] = a + 2 /\ b[3] = a + 3

LEMMA FourRead ==
    ASSUME src \in Rendered, NEW k \in 1..NLines, NEW a, Lined(a, k), NEW w, NEW h, NEW b, Went(w, h, After(a), b),
           \A i \in 0..2 : ~IsStuck(Wrd[a + i].sym)
    PROVE  Behind(a, b) /\ (~IsStuck(Wrd[a + 3].sym) => After(b[3]) = MeanEnd(k))
<1>1. /\ a = Fst[k] /\ MeanEnd(k) = a + 4 /\ \A i \in 1..4 : a + (i - 1) \in Fst[k]..(MeanEnd(k) - 1)
    BY DEF Lined
<1>2. a \in Nat
    BY <1>1, LinesHold
<1>3. \A i \in 0..3 : a + i \in Fst[k]..(MeanEnd(k) - 1) /\ a + i \in 1..NWords
    <2> SUFFICES ASSUME NEW i \in 0..3 PROVE a + i \in Fst[k]..(MeanEnd(k) - 1) /\ a + i \in 1..NWords
        OBVIOUS
    <2>1. i + 1 \in 1..4 /\ a + ((i + 1) - 1) = a + i
        BY <1>2
    <2>2. a + i \in Fst[k]..(MeanEnd(k) - 1)
        BY <1>1, <2>1
    <2> QED BY <2>2, WithinLine
<1>4. \A i \in 0..3 : ~IsStuck(Wrd[a + i].sym) => After(a + i) = a + (i + 1)
    <2> SUFFICES ASSUME NEW i \in 0..3, ~IsStuck(Wrd[a + i].sym) PROVE After(a + i) = a + (i + 1)
        OBVIOUS
    <2>1. After(a + i) = (a + i) + 1
        BY <1>3 DEF After
    <2> QED BY <1>2, <2>1
<1>5. After(a) = a + 1
    <2>1. a + 0 = a /\ a + (0 + 1) = a + 1 /\ 0 \in 0..2 /\ 0 \in 0..3
        BY <1>2
    <2> QED BY <1>4, <2>1
<1>6. b[1] = a + 1
    BY <1>3, <1>5, NextHere DEF Went
<1>7. After(b[1]) = a + 2
    BY <1>4, <1>6
<1>8. b[2] = a + 2
    BY <1>3, <1>7, NextHere DEF Went
<1>9. After(b[2]) = a + 3
    BY <1>4, <1>8
<1>10. b[3] = a + 3
    BY <1>3, <1>9, NextHere DEF Went
<1>11. ~IsStuck(Wrd[a + 3].sym) => After(b[3]) = a + 4
    BY <1>4, <1>10
<1> QED BY <1>1, <1>6, <1>8, <1>10, <1>11 DEF Behind

(* The words of a well-formed line.                                        *)
LEMMA WellFormedRead ==
    ASSUME src \in Rendered, NEW k \in 1..NLines, WellFormed(Meant(src.lines[k])),
           NEW w, NEW h, NEW b, Went(w, h, After(Fst[k]), b)
    PROVE  /\ Operands(b) /\ After(b[3]) = MeanEnd(k)
           /\ \A i \in 1..3 : Wrd[b[i]] = Meant(src.lines[k])[i + 1]
<1> DEFINE a == Fst[k]
           line == Meant(src.lines[k])
<1>1. Len(line) = 4 /\ line[1].name \in Arithmetic /\ IsRegister(line[2])
      /\ \A i \in 3..4 : IsRegister(line[i]) \/ IsConstant(line[i])
    BY DEF WellFormed
<1>2. Lined(a, k)
    BY <1>1, FourLined
<1>3. a \in Nat
    BY LinesHold
<1> HIDE DEF line, a
<1>4. /\ Wrd[a] = line[1] /\ Wrd[a + 1] = line[2] /\ Wrd[a + 2] = line[3] /\ Wrd[a + 3] = line[4]
      /\ \A i \in 1..4 : line[i] \in SourceWords
      /\ \A i \in 1..3 : a + i \in Fst[k]..(MeanEnd(k) - 1)
    <2>1. \A i \in 1..4 : Wrd[a + (i - 1)] = line[i] /\ line[i] \in SourceWords /\ a + (i - 1) \in Fst[k]..(MeanEnd(k) - 1)
        BY <1>2 DEF Lined, line
    <2>2. a + (1 - 1) = a /\ a + (2 - 1) = a + 1 /\ a + (3 - 1) = a + 2 /\ a + (4 - 1) = a + 3
        BY <1>3
    <2> QED BY <2>1, <2>2
<1>5. \A i \in 1..3 : a + i \in 1..NWords
    BY <1>4, WithinLine
<1>6. ~IsStuck(line[1].sym)
    <2>1. line[1].name # ""
        BY <1>1 DEF Arithmetic
    <2>2. IsName(line[1].sym)
        <3>1. 1 \in 1..4
            OBVIOUS
        <3>2. line[1] \in SourceWords
            BY <1>4, <3>1
        <3> QED BY <2>1, <3>2, WordAssumption
    <2> QED BY <2>2, KindsOfWords
<1>7. \A i \in 2..4 : ~IsStuck(line[i].sym)
    BY <1>1, <1>4, OperandReads
<1>8. \A i \in 0..2 : ~IsStuck(Wrd[a + i].sym)
    <2>1. a + 0 = a
        BY <1>3
    <2> QED BY <1>4, <1>6, <1>7, <2>1
<1>9. Behind(a, b) /\ After(b[3]) = MeanEnd(k)
    <2>1. Went(w, h, After(a), b)
        BY DEF a
    <2> QED BY <1>2, <1>4, <1>7, <1>8, <2>1, FourRead
<1>10. Wrd[b[1]] = line[2] /\ Wrd[b[2]] = line[3] /\ Wrd[b[3]] = line[4]
       /\ b[1] \in 1..NWords /\ b[2] \in 1..NWords /\ b[3] \in 1..NWords
    BY <1>4, <1>5, <1>9 DEF Behind
<1>11. Operands(b)
    BY <1>1, <1>4, <1>10 DEF Operands, IsA
<1> QED BY <1>9, <1>10, <1>11 DEF line

-----------------------------------------------------------------------------
(* The instruction of a line means it, the first operand if at most one    *)
(* instruction of the line loads a constant.                               *)
OneLoad(I, O, p) ==
    \A i, j \in 1..Len(O) : O[i] = p /\ O[j] = p /\ I[i].form = "RC" /\ I[j].form = "RC" => i = j

RightIn(q, I, O, n, line) ==
    /\ I[n].opcode = line[1].name /\ I[n].R = line[2].num
    /\ OneLoad(I, O, O[n]) => DenotesIn(q, I, O, n, I[n].A, line[3])
    /\ DenotesIn(q, I, O, n, I[n].B, line[4])

MeansIn(q, I, O, k) ==
    WellFormed(Meant(src.lines[k])) =>
        \A n \in 1..Len(O) : O[n] = src.begin[k] /\ I[n].form = "RAB" => RightIn(q, I, O, n, Meant(src.lines[k]))

MeansAt(w, k) == MeansIn(w.assm.obj_pool_, Instrs(w), w.origin, k)

Meaning ==
    phase \in {"ready", "translating", "done"} =>
        \A k \in 1..NLines : MeansIn(assm.obj_pool_, assm.code_.instr_, origin, k)

(* The instructions of another line do not change what those of a line     *)
(* mean.                                                                   *)
LEMMA DenotesKept ==
    ASSUME NEW w, NEW u, NEW m \in Nat, Grew(w, u, m), Kept(w.assm.obj_pool_, u.assm.obj_pool_),
           NEW n \in 1..Len(w.origin), NEW field, NEW word,
           DenotesIn(w.assm.obj_pool_, Instrs(w), w.origin, n, field, word)
    PROVE  DenotesIn(u.assm.obj_pool_, Instrs(u), u.origin, n, field, word)
<1>1. CASE IsRegister(word)
    BY <1>1 DEF DenotesIn
<1>2. CASE ~IsRegister(word)
    <2>1. PICK idx : /\ Holds(w.assm.obj_pool_, idx, Obj(word))
                     /\ \/ field = idx + G_INSTR_N_REGISTERS
                        \/ /\ field = LastReg /\ n > 1 /\ w.origin[n - 1] = w.origin[n]
                           /\ Instrs(w)[n - 1] = RC("move", LastReg, idx + G_INSTR_N_REGISTERS)
        BY <1>2 DEF DenotesIn, ConstMeant
    <2>2. Holds(u.assm.obj_pool_, idx, Obj(word))
        BY <2>1, KeptHolds
    <2>3. /\ u.origin[n] = w.origin[n]
          /\ n > 1 => u.origin[n - 1] = w.origin[n - 1] /\ Instrs(u)[n - 1] = Instrs(w)[n - 1]
        <3>1. Len(w.origin) \in Nat
            BY DEF Grew
        <3>2. n > 1 => n - 1 \in 1..Len(w.origin)
            BY ONLY <3>1, n \in 1..Len(w.origin)
        <3> QED BY <3>2 DEF Grew
    <2>4. ConstMeant(u.assm.obj_pool_, Instrs(u), u.origin, n, field, Obj(word))
        BY <2>1, <2>2, <2>3 DEF ConstMeant
    <2> QED BY <1>2, <2>4 DEF DenotesIn
<1> QED BY <1>1, <1>2

LEMMA MeansKept ==
    ASSUME NEW w, NEW u, NEW m \in Nat, Grew(w, u, m), Kept(w.assm.obj_pool_, u.assm.obj_pool_),
           NEW k, MeansAt(w, k), src.begin[k] # w.at \/ m = 0
    PROVE  MeansAt(u, k)
<1> DEFINE p == src.begin[k]
           line == Meant(src.lines[k])
           L == Len(w.origin)
<1>1. /\ L \in Nat /\ Len(u.origin) = L + m
      /\ \A i \in 1..L : u.origin[i] = w.origin[i] /\ Instrs(u)[i] = Instrs(w)[i]
      /\ \A i \in (L + 1)..(L + m) : u.origin[i] = w.at
    BY DEF Grew
<1> SUFFICES ASSUME WellFormed(line),
                    NEW n \in 1..Len(u.origin), u.origin[n] = p, Instrs(u)[n].form = "RAB"
             PROVE  RightIn(u.assm.obj_pool_, Instrs(u), u.origin, n, line)
    BY DEF MeansAt, MeansIn
<1>2. L = Len(w.origin) /\ p = src.begin[k]
    OBVIOUS
<1> HIDE DEF line, L, p
<1>3. n \in 1..L
    <2>1. n \notin 1..L => n \in (L + 1)..(L + m) /\ m # 0
        BY <1>1
    <2> QED BY <1>1, <1>2, <2>1
<1>4. OneLoad(Instrs(u), u.origin, p) => OneLoad(Instrs(w), w.origin, p)
    <2> SUFFICES ASSUME OneLoad(Instrs(u), u.origin, p), NEW i \in 1..L, NEW j \in 1..L, w.origin[i] = p, w.origin[j] = p,
                        Instrs(w)[i].form = "RC", Instrs(w)[j].form = "RC"
                 PROVE  i = j
        BY <1>2 DEF OneLoad
    <2>1. i \in 1..Len(u.origin) /\ j \in 1..Len(u.origin)
        BY <1>1
    <2> QED BY <1>1, <2>1 DEF OneLoad
<1>5. RightIn(w.assm.obj_pool_, Instrs(w), w.origin, n, line)
    BY <1>1, <1>2, <1>3 DEF MeansAt, MeansIn, line, p
<1>6. Instrs(u)[n] = Instrs(w)[n] /\ w.origin[n] = p
    BY <1>1, <1>3
<1>7. \A field, word : DenotesIn(w.assm.obj_pool_, Instrs(w), w.origin, n, field, word) =>
                           DenotesIn(u.assm.obj_pool_, Instrs(u), u.origin, n, field, word)
    BY <1>2, <1>3, DenotesKept
<1> QED BY <1>4, <1>5, <1>6, <1>7 DEF RightIn

(* The instructions of its own command mean a line.                        *)
LEMMA MeansNew ==
    ASSUME src \in Rendered, NEW k \in 1..NLines, NEW w, NEW h, NEW op, NEW b, NEW m \in 0..2,
           Went(w, h, After(Fst[k]), b), Did(w, h, op, b, m),
           w.at = src.begin[k], \A i \in 1..Len(w.origin) : w.origin[i] # w.at,
           op \in find_reserved_command(Wrd[Fst[k]].name)
    PROVE  MeansAt(h, k)
<1> DEFINE p == src.begin[k]
           line == Meant(src.lines[k])
           L == Len(w.origin)
<1> SUFFICES ASSUME WellFormed(line),
                    NEW n \in 1..Len(h.origin), h.origin[n] = p, Instrs(h)[n].form = "RAB"
             PROVE  RightIn(h.assm.obj_pool_, Instrs(h), h.origin, n, line)
    BY DEF MeansAt, MeansIn
<1>1. Operands(b) /\ \A i \in 1..3 : Wrd[b[i]] = line[i + 1]
    <2>1. WellFormed(Meant(src.lines[k])) /\ Went(w, h, After(Fst[k]), b) /\ k \in 1..NLines /\ src \in Rendered
        OBVIOUS
    <2>2. Operands(b) /\ \A i \in 1..3 : Wrd[b[i]] = Meant(src.lines[k])[i + 1]
        BY ONLY <2>1, WellFormedRead
    <2> QED BY <2>2
<1>2. Len(line) = 4 /\ line[1].name \in Arithmetic
    BY DEF WellFormed
<1>3. op = line[1].name
    <2>1. Lined(Fst[k], k)
        BY <1>2, FourLined
    <2>2. Wrd[Fst[k]] = line[1]
        <3>1. Fst[k] \in Nat /\ 1 \in 1..4 /\ Wrd[Fst[k] + (1 - 1)] = line[1]
            BY <2>1, LinesHold DEF Lined
        <3>2. Fst[k] + (1 - 1) = Fst[k]
            BY ONLY <3>1
        <3> QED BY <3>1, <3>2
    <2>3. line[1].name \in Commands
        BY <1>2 DEF Commands
    <2>4. find_reserved_command(line[1].name) = {line[1].name}
        BY <2>3, CodeAssumption DEF find_reserved_command
    <2> QED BY <2>2, <2>4
<1>4. /\ L \in Nat /\ m \in 0..2 /\ L = Len(w.origin) /\ p = w.at
      /\ \A i \in 1..m : Instrs(h)[L + i].form = "RC"
    BY DEF Did, Grew
<1>5. \A d \in {m, m + 1} : Grew(w, h, d) =>
          /\ Len(h.origin) = L + d
          /\ \A i \in 1..L : h.origin[i] = w.origin[i]
          /\ \A i \in (L + 1)..(L + d) : h.origin[i] = w.at
    BY DEF Grew
<1> HIDE DEF line, L, p
<1>6. \A d \in {m, m + 1} : Grew(w, h, d) => n \in (L + 1)..(L + d)
    <2> SUFFICES ASSUME NEW d \in {m, m + 1}, Grew(w, h, d) PROVE n \in (L + 1)..(L + d)
        OBVIOUS
    <2>1. n \notin 1..L
        BY <1>4, <1>5
    <2>2. Len(h.origin) = L + d
        BY <1>5
    <2>3. n \in 1..(L + d)
        BY <2>2
    <2>4. L \in Nat /\ d \in Nat
        BY <1>4
    <2> QED BY ONLY <2>1, <2>3, <2>4
<1>7. \A i \in (L + 1)..(L + m) : Instrs(h)[i].form = "RC"
    <2> SUFFICES ASSUME NEW i \in (L + 1)..(L + m) PROVE Instrs(h)[i].form = "RC"
        OBVIOUS
    <2>1. i - L \in 1..m /\ L + (i - L) = i
        BY ONLY <1>4, i \in (L + 1)..(L + m)
    <2> QED BY <1>4, <2>1
<1>8. ~Grew(w, h, m)
    BY <1>6, <1>7
<1>9. Grew(w, h, m + 1) /\ (Operands(b) => Right(h, (Len(w.origin) + m) + 1, op, b, m))
    BY <1>8 DEF Did
<1>10. n = (L + m) + 1
    <2>1. n \in (L + 1)..(L + (m + 1)) /\ n \notin (L + 1)..(L + m)
        BY <1>6, <1>7, <1>9
    <2>2. L \in Nat /\ m \in Nat
        BY <1>4
    <2> QED BY ONLY <2>1, <2>2
<1>11. OneLoad(Instrs(h), h.origin, p) => m <= 1
    <2> SUFFICES ASSUME OneLoad(Instrs(h), h.origin, p), m = 2 PROVE FALSE
        BY <1>4
    <2>1. /\ L + 1 \in (L + 1)..(L + m) /\ L + 2 \in (L + 1)..(L + m) /\ L + 1 # L + 2
          /\ L + 1 \in (L + 1)..(L + (m + 1)) /\ L + 2 \in (L + 1)..(L + (m + 1))
          /\ L + 1 \in 1..(L + (m + 1)) /\ L + 2 \in 1..(L + (m + 1))
        BY <1>4
    <2>2. h.origin[L + 1] = p /\ h.origin[L + 2] = p /\ Len(h.origin) = L + (m + 1)
        BY <1>4, <1>5, <1>9, <2>1
    <2> QED BY <1>7, <2>1, <2>2 DEF OneLoad
<1>12. Right(h, n, op, b, m)
    BY <1>1, <1>4, <1>9, <1>10
<1>13. Wrd[b[1]] = line[2] /\ Wrd[b[2]] = line[3] /\ Wrd[b[3]] = line[4]
    BY <1>1 DEF line
<1> QED BY <1>3, <1>11, <1>12, <1>13 DEF Right, RightIn

LEMMA OnePlace ==
    ASSUME src \in Rendered, NEW a \in 1..NWords, NEW b \in 1..NWords, a # b
    PROVE  Plc[a] # Plc[b]
<1>1. NWords \in Nat /\ Plc[a] \in Nat /\ Plc[b] \in Nat /\ Size(a) \in Nat /\ Size(b) \in Nat
    BY PlacesRise, CharIs
<1>2. a < b => (Plc[a] + Size(a)) + 1 <= Plc[b]
    BY <1>1, PlacesRise
<1>3. b < a => (Plc[b] + Size(b)) + 1 <= Plc[a]
    BY <1>1, PlacesRise
<1> QED BY <1>1, <1>2, <1>3

LEMMA MeaningTurned ==
    ASSUME NEW e, Became(e), \A k \in 1..NLines : MeansAt(e, k)
    PROVE  Meaning'
<1>1. assm' = e.assm /\ origin' = e.origin /\ src' = src
    BY DEF Became
<1>2. ASSUME NEW k \in 1..NLines PROVE MeansIn(assm.obj_pool_, assm.code_.instr_, origin, k)'
    <2>1. MeansIn(e.assm.obj_pool_, e.assm.code_.instr_, e.origin, k)
        BY DEF MeansAt, Instrs
    <2> QED BY <1>1, <2>1 DEF MeansIn
<1>3. NLines' = NLines
    BY <1>1 DEF NLines
<1> QED BY <1>2, <1>3 DEF Meaning

LEMMA NextMeaning ==
    ASSUME IInv, Filled, Standing, Meaning, [Next]_vars
    PROVE  Meaning'
<1>1. ASSUME NEW source \in Rendered, AsmInit(source) PROVE Meaning'
    <2>1. origin' = <<>>
        BY <1>1, AsmInitStands
    <2>2. Len(origin') = 0
        BY <2>1
    <2> QED BY <2>2 DEF Meaning, MeansIn
<1>2. CASE Idle
    <2>1. assm' = assm /\ origin' = origin /\ src' = src /\ (phase' = phase \/ (phase = "ready" /\ phase' = "translating"))
        BY <1>2 DEF Idle
    <2>2. \A k : MeansIn(assm.obj_pool_, assm.code_.instr_, origin, k)' = MeansIn(assm.obj_pool_, assm.code_.instr_, origin, k)
        BY <2>1 DEF MeansIn, OneLoad, RightIn, DenotesIn, ConstMeant, Holds, PoolOk, IsObj, Obj, IsRegister, WellFormed, IsConstant, Meant, LastReg
    <2>3. NLines' = NLines
        BY <2>1 DEF NLines
    <2> QED BY <2>1, <2>2, <2>3 DEF Meaning
<1>3. CASE Cleared
    BY <1>3 DEF Cleared, Meaning
<1>4. CASE phase' = "over"
    BY <1>4 DEF Meaning
<1>5. phase = "translating" => \E n : Before(assm.lex_, n)
    BY DEF Standing
<1>6. ASSUME phase = "translating", NEW w, NEW n, NEW a, RoundOf(w, n, a)
      PROVE  /\ \A k \in 1..NLines : MeansAt(w, k)
             /\ \A i \in 1..Len(w.origin) : w.origin[i] # w.at
    <2>1. w.assm.obj_pool_ = assm.obj_pool_ /\ Instrs(w) = assm.code_.instr_ /\ w.origin = origin /\ w.at = Plc[a]
        BY <1>6 DEF RoundOf
    <2>2. \A k \in 1..NLines : MeansAt(w, k)
        BY <1>6, <2>1 DEF MeansAt, Meaning
    <2>3. Place \in Nat /\ Place <= Plc[a] /\ Plc[a] \in Nat
        BY <1>6, RoundPlaces
    <2>4. \A i \in 1..Len(origin) : origin[i] \in Nat /\ origin[i] < Place
        BY <1>6 DEF Filled, Standing
    <2>5. \A i \in 1..Len(origin) : origin[i] # Plc[a]
        BY <2>3, <2>4
    <2> QED BY <2>1, <2>2, <2>5
<1>7. ASSUME phase = "translating", NEW w, NEW n, NEW a, RoundOf(w, n, a), NEW e, NEW p, Turned(w, e, p), Quiet(w, e), Became(e)
      PROVE  Meaning'
    <2>1. Grew(w, e, 0) /\ Kept(w.assm.obj_pool_, e.assm.obj_pool_) /\ 0 \in Nat
        BY <1>7, QuietGrew DEF RoundOf, Fitting, Turned
    <2>2. \A k \in 1..NLines : MeansAt(w, k)
        BY <1>6, <1>7
    <2>3. \A k \in 1..NLines : MeansAt(e, k)
        BY <2>1, <2>2, MeansKept
    <2> QED BY <1>7, <2>3, MeaningTurned
<1>8. CASE Final
    <2>1. PICK n : Before(assm.lex_, n)
        BY <1>8, <1>5 DEF Final
    <2>2. PICK w : RoundOf(w, n, NWords + 1) /\ Turned(w, w, After(NWords + 1)) /\ Quiet(w, w) /\ Became(w)
        BY <1>8, <2>1, FinalTurns
    <2> QED BY <1>7, <1>8, <2>2 DEF Final
<1>9. ASSUME NEW opens, Unexpected(opens) PROVE Meaning'
    <2>1. phase = "translating"
        BY <1>9 DEF Unexpected
    <2>2. PICK n : Before(assm.lex_, n)
        BY <1>5, <2>1
    <2>3. PICK w, e, a, j : Passed(w, e, n, a, j)
        BY <1>9, <2>2, UnexpectedTurns
    <2> QED BY <1>7, <2>1, <2>3 DEF Passed
<1>10. ASSUME NEW op, NEW mem, NEW opens, NEW anything, Goes(op, mem, opens, anything) PROVE Meaning'
    <2>1. Command(op, mem, opens, anything) /\ phase = "translating" /\ phase' # "over"
        BY <1>10 DEF Goes
    <2>2. PICK n : Before(assm.lex_, n)
        BY <1>5, <2>1
    <2>3. PICK w, h, e, a : Commanded(w, h, e, n, a, op, anything)
        BY <2>1, <2>2, CommandTurns
    <2>4. /\ RoundOf(w, n, a) /\ h = call_handler(w, op, anything) /\ ~h.over
          /\ (e = h /\ h.ok) \/ (e = skip_line(h) /\ ~h.ok)
          /\ Became(e) /\ src \in Rendered /\ a \in 1..NWords /\ w.at = Plc[a]
          /\ op \in find_reserved_command(Wrd[a].name)
        BY <2>3 DEF Commanded, RoundOf
    <2>5. CASE op \notin Arithmetic
        <3>1. Turned(w, h, After(a)) /\ Quiet(w, h)
            BY <2>4, <2>5, HandlerTurns
        <3>2. \E p : Turned(w, e, p) /\ Quiet(h, e)
            BY <2>4, <3>1, SkipTurns DEF Quiet
        <3>3. Quiet(w, e)
            BY <3>1, <3>2 DEF Quiet
        <3> QED BY <1>7, <2>1, <2>4, <3>2, <3>3
    <2>6. CASE op \in Arithmetic
        <3>1. PICK b : \E m \in 0..2 : Went(w, h, After(a), b) /\ Did(w, h, op, b, m)
            BY <2>4, <2>6, HandlerTurns
        <3>2. PICK m \in 0..2 : Went(w, h, After(a), b) /\ Did(w, h, op, b, m)
            BY <3>1
        <3>3. Turned(w, h, After(b[3]))
            BY <3>2, WentTurned
        <3>4. \E d \in Nat : Grew(w, h, d)
            BY <3>3 DEF Turned
        <3>5. ASSUME NEW k \in 1..NLines PROVE MeansAt(h, k)
            <4>1. MeansAt(w, k) /\ \A i \in 1..Len(w.origin) : w.origin[i] # w.at
                BY <1>6, <2>1, <2>4
            <4>2. src.begin[k] = Plc[Fst[k]] /\ Fst[k] \in 1..NWords /\ NWords \in Nat
                BY <2>4, LineFacts, PlacesRise
            <4>3. CASE a = Fst[k]
                BY <2>4, <3>2, <4>1, <4>2, <4>3, MeansNew
            <4>4. CASE a # Fst[k]
                <5>1. Plc[a] # Plc[Fst[k]]
                    BY <2>4, <4>2, <4>4, OnePlace
                <5> QED BY <2>4, <3>3, <3>4, <4>1, <4>2, <5>1, MeansKept DEF Turned
            <4> QED BY <4>3, <4>4
        <3>6. Grew(h, e, 0) /\ Kept(h.assm.obj_pool_, e.assm.obj_pool_)
            <4>1. CASE e = h
                BY <3>3, <3>4, <4>1, KeptSelf DEF Grew, Turned, Kept
            <4>2. CASE e = skip_line(h)
                <5>1. Quiet(h, e) /\ e.assm.obj_pool_ = h.assm.obj_pool_
                    BY <2>4, <3>3, <4>2, SkipTurns
                <5>2. Grew(h, e, 0)
                    <6>1. \E d \in Nat : Len(h.origin) = Len(w.origin) + d /\ Len(w.origin) \in Nat /\ Len(Instrs(h)) = Len(h.origin)
                        BY <3>4 DEF Grew
                    <6>2. Len(h.origin) \in Nat /\ Len(Instrs(h)) = Len(h.origin)
                        BY <6>1
                    <6> QED BY <5>1, <6>2 DEF Grew, Quiet, Instrs
                <5> QED BY <3>3, <5>1, <5>2, KeptSelf DEF Turned, Kept
            <4> QED BY <2>4, <4>1, <4>2
        <3>7. \A k \in 1..NLines : MeansAt(e, k)
            BY <3>5, <3>6, MeansKept
        <3> QED BY <2>4, <3>7, MeaningTurned
    <2> QED BY <2>5, <2>6
<1> QED BY <1>1, <1>2, <1>3, <1>4, <1>8, <1>9, <1>10, StepKinds

LEMMA ConstantRead ==
    ASSUME NEW field, NEW idx, NEW obj, Holds(assm.obj_pool_, idx, obj), field = idx + G_INSTR_N_REGISTERS
    PROVE  field >= G_INSTR_N_REGISTERS /\ Constant(field) = obj
<1>1. /\ idx \in 0..(assm.obj_pool_.nobjs - 1) /\ assm.obj_pool_.nobjs \in 0..assm.obj_pool_.capacity
      /\ assm.obj_pool_.capacity \in Nat /\ assm.obj_pool_.objs.room = assm.obj_pool_.capacity
      /\ assm.obj_pool_.objs.cells[idx] = obj
    BY DEF Holds, PoolOk
<1>2. G_INSTR_N_REGISTERS \in Nat
    BY CodeAssumption DEF G_INSTR_N_REGISTERS
<1>3. idx \in Nat /\ idx <= assm.obj_pool_.nobjs /\ idx < assm.obj_pool_.objs.room
    BY <1>1
<1>4. field - G_INSTR_N_REGISTERS = idx /\ field >= G_INSTR_N_REGISTERS
    BY <1>2, <1>3
<1>5. Pool!obj_pool_get(assm.obj_pool_, idx, Pool!Void) = obj
    BY <1>1, <1>3 DEF Pool!obj_pool_get
<1> QED BY <1>4, <1>5 DEF Constant

LEMMA DenotesIs ==
    ASSUME NEW n, NEW field, NEW word, DenotesIn(assm.obj_pool_, assm.code_.instr_, origin, n, field, word)
    PROVE  Denotes(n, field, word)
<1>1. CASE IsRegister(word)
    BY <1>1 DEF DenotesIn, Denotes
<1>2. CASE ~IsRegister(word)
    <2>1. PICK idx : /\ Holds(assm.obj_pool_, idx, Obj(word))
                     /\ \/ field = idx + G_INSTR_N_REGISTERS
                        \/ /\ field = LastReg /\ n > 1 /\ origin[n - 1] = origin[n]
                           /\ Instr(n - 1) = RC("move", LastReg, idx + G_INSTR_N_REGISTERS)
        BY <1>2 DEF DenotesIn, ConstMeant, Instr
    <2>2. CASE field = idx + G_INSTR_N_REGISTERS
        <3>1. field >= G_INSTR_N_REGISTERS /\ Constant(field) = Obj(word)
            BY <2>1, <2>2, ConstantRead
        <3> QED BY <1>2, <3>1 DEF Denotes
    <2>3. CASE /\ field = LastReg /\ n > 1 /\ origin[n - 1] = origin[n]
               /\ Instr(n - 1) = RC("move", LastReg, idx + G_INSTR_N_REGISTERS)
        <3>1. \A z : z = RC("move", LastReg, idx + G_INSTR_N_REGISTERS) =>
                        z.form = "RC" /\ z.R = LastReg /\ z.C = idx + G_INSTR_N_REGISTERS
            BY DEF RC
        <3>2. Instr(n - 1).form = "RC" /\ Instr(n - 1).R = LastReg /\ Instr(n - 1).C = idx + G_INSTR_N_REGISTERS
            BY <2>3, <3>1
        <3>3. Constant(Instr(n - 1).C) = Obj(word)
            BY <2>1, <3>2, ConstantRead
        <3> QED BY <1>2, <2>3, <3>2, <3>3 DEF Denotes
    <2> QED BY <2>1, <2>2, <2>3
<1> QED BY <1>1, <1>2

LEMMA LoadsOne ==
    ASSUME Filled, NEW p, Cardinality(Loads(p)) <= 1
    PROVE  OneLoad(assm.code_.instr_, origin, p)
<1>1. Len(origin) \in Nat /\ DOMAIN origin = 1..Len(origin)
    BY DEF Filled
<1>2. IsFiniteSet(Loads(p))
    <2>1. IsFiniteSet(1..Len(origin))
        BY <1>1, FS_Interval
    <2>2. Loads(p) \subseteq 1..Len(origin)
        BY <1>1 DEF Loads
    <2> QED BY <2>1, <2>2, FS_Subset
<1>3. Loads(p) = {} \/ \E x : Loads(p) = {x}
    <2>1. Cardinality(Loads(p)) \in Nat
        BY <1>2, FS_CardinalityType
    <2>2. Cardinality(Loads(p)) = 0 \/ Cardinality(Loads(p)) = 1
        BY <2>1
    <2> QED BY <1>2, <2>2, FS_EmptySet, FS_Singleton
<1>4. \A i \in 1..Len(origin) : origin[i] = p /\ assm.code_.instr_[i].form = "RC" => i \in Loads(p)
    BY <1>1 DEF Loads, Instr
<1> QED BY <1>3, <1>4 DEF OneLoad

LEMMA OperandsFollow ==
    ASSUME IInv, Filled, Standing, Meaning
    PROVE  OperandsMeant
<1> SUFFICES ASSUME phase # "over", NEW k \in DOMAIN src.lines, WellFormed(Meant(src.lines[k])),
                    NEW n \in Translated(src.begin[k])
             PROVE  LET line == Meant(src.lines[k]) IN
                    /\ Instr(n).opcode = line[1].name
                    /\ Instr(n).R = line[2].num
                    /\ Cardinality(Loads(src.begin[k])) <= 1 => Denotes(n, Instr(n).A, line[3])
                    /\ Denotes(n, Instr(n).B, line[4])
    BY DEF OperandsMeant
<1>1. phase # "none"
    <2>1. DOMAIN NoSource.lines = {}
        BY DEF NoSource
    <2> QED BY <2>1 DEF Standing
<1>2. phase \in {"ready", "translating", "done"} /\ src \in Rendered
    BY <1>1 DEF IInv, Standing
<1>3. k \in 1..NLines
    <2>1. src.lines \in Seq(Seq(SourceWords))
        BY <1>2, LinesHold
    <2> QED BY <2>1 DEF NLines
<1>4. Cardinality(Loads(src.begin[k])) <= 1 => OneLoad(assm.code_.instr_, origin, src.begin[k])
    BY LoadsOne
<1>5. n \in 1..Len(origin) /\ origin[n] = src.begin[k] /\ assm.code_.instr_[n].form = "RAB"
    BY DEF Filled, Translated, Instr
<1>6. RightIn(assm.obj_pool_, assm.code_.instr_, origin, n, Meant(src.lines[k]))
    BY <1>2, <1>3, <1>5 DEF Meaning, MeansIn
<1> QED BY <1>4, <1>5, <1>6, DenotesIs DEF RightIn, Instr

(* Looked up in the pool of constants at any later time, an arithmetic     *)
(* instruction written for a well-formed line means that line: its command *)
(* and its register, its last operand, and its first one unless both       *)
(* operands are constants that are loaded, when the second load takes the  *)
(* register of the first (asm.cpp:248); for all sources, sizes of fields   *)
(* and tables, and answers of the allocator and the log                    *)
(* (handle_arithmetic, asm.cpp:169, with its operands in between).  What   *)
(* the last register held before is not kept.                              *)
THEOREM OperandsAreMeant == Spec => []OperandsMeant
<1>1. Init => Standing /\ Meaning
    BY DEF Init, Standing, Meaning
<1>2. IInv /\ Filled /\ Standing /\ Meaning /\ [Next]_vars => Standing' /\ Meaning'
    BY NextStanding, NextMeaning
<1>3. IInv /\ Filled /\ Standing /\ Meaning => OperandsMeant
    BY OperandsFollow
<1>4. Init => Filled
    BY InitFilled
<1>5. IInv /\ Filled /\ [Next]_vars => Filled'
    BY NextFilled
<1> QED BY <1>1, <1>2, <1>3, <1>4, <1>5, Inductive, PTL DEF Spec

-----------------------------------------------------------------------------
(* The way to a line.                                                      *)

(* Line k begins with a command, and those before it keep to themselves.   *)
Due(k) ==
    /\ k \in 1..NLines /\ Len(Meant(src.lines[k])) > 0 /\ Meant(src.lines[k])[1].name \in Arithmetic
    /\ \A j \in 1..(k - 1) : Closed(Meant(src.lines[j]))

(* A lexer before word n will come to line k: it is at the beginning of a  *)
(* line before, at its end, or before a word that it does not pass.        *)
Track(n, k) ==
    /\ n <= Fst[k]
    /\ \A j \in 1..(k - 1) : n \in Fst[j]..LineStop(j) =>
          \/ n = Fst[j] \/ n >= MeanEnd(j)
          \/ \E m \in n..(MeanEnd(j) - 1) : IsStuck(Wrd[m].sym)

Within(a, j) ==
    /\ a \in Fst[j]..(MeanEnd(j) - 1)
    /\ a = Fst[j] \/ \E m \in a..(MeanEnd(j) - 1) : IsStuck(Wrd[m].sym)

LEMMA DueFirst ==
    ASSUME src \in Rendered, NEW k, Due(k)
    PROVE  /\ Fst[k] \in Fst[k]..(MeanEnd(k) - 1) /\ Fst[k] \in 1..NWords /\ Means(Fst[k])
           /\ IsName(Wrd[Fst[k]].sym) /\ find_reserved_command(Wrd[Fst[k]].name) \subseteq Arithmetic
<1> DEFINE line == Meant(src.lines[k])
<1>1. k \in 1..NLines /\ Len(line) > 0 /\ line[1].name \in Arithmetic
    BY DEF Due
<1>2. /\ line \in Seq(SourceWords) /\ Len(line) \in Nat
      /\ \A i \in 1..Len(line) : Fst[k] + (i - 1) \in Fst[k]..(MeanEnd(k) - 1) /\ Wrd[Fst[k] + (i - 1)] = line[i]
    BY <1>1, LineFacts
<1>3. Fst[k] \in Nat
    BY <1>1, LinesHold
<1> HIDE DEF line
<1>4. 1 \in 1..Len(line) /\ Fst[k] + (1 - 1) = Fst[k]
    BY <1>1, <1>2, <1>3
<1>5. Fst[k] \in Fst[k]..(MeanEnd(k) - 1) /\ Wrd[Fst[k]] = line[1] /\ line[1] \in SourceWords
    BY <1>2, <1>4
<1>6. IsName(line[1].sym)
    <2>1. line[1].name # ""
        BY <1>1 DEF Arithmetic
    <2> QED BY <1>5, <2>1, WordAssumption
<1>7. find_reserved_command(line[1].name) \subseteq Arithmetic
    <2>1. line[1].name \in Commands
        BY <1>1 DEF Commands
    <2> QED BY <1>1, <2>1, CodeAssumption DEF find_reserved_command
<1>8. Fst[k] \in 1..NWords /\ Means(Fst[k])
    BY <1>1, <1>5, WithinLine
<1> QED BY <1>5, <1>6, <1>7, <1>8

LEMMA NextTracked ==
    ASSUME src \in Rendered, NEW k, Due(k), NEW n \in 1..(NWords + 1), Track(n, k), NEW a, IsNext(n, a)
    PROVE  a = Fst[k] \/ \E j \in 1..NLines : j < k /\ Within(a, j)
<1>1. k \in 1..NLines /\ NLines \in Nat
    BY LinesHold DEF Due
<1>2. Fst[k] \in 1..NWords /\ Means(Fst[k]) /\ NWords \in Nat /\ n <= Fst[k]
    BY DueFirst, PlacesRise DEF Track
<1>3. a \in n..Fst[k] /\ a \in 1..NWords /\ Means(a)
    <2>1. a \in n..(NWords + 1) /\ (a = NWords + 1 \/ Means(a)) /\ \A m \in n..NWords : Means(m) => a <= m
        BY DEF IsNext
    <2>2. Fst[k] \in n..NWords
        BY <1>2
    <2>3. a <= Fst[k]
        BY <1>2, <2>1, <2>2
    <2> QED BY <1>2, <2>1, <2>3
<1>4. PICK j \in 1..NLines : a \in Fst[j]..(MeanEnd(j) - 1)
    BY <1>3 DEF Means
<1> SUFFICES ASSUME a # Fst[k] PROVE j < k /\ Within(a, j)
    OBVIOUS
<1>5. Fst[j] \in 1..NWords /\ a \in Fst[j]..LineStop(j) /\ MeanEnd(j) \in Nat /\ LineStop(j) \in 1..NWords
      /\ LineStop(j) \in Fst[j]..NWords
    BY <1>4, WithinLine, LineFacts
<1>6. j < k
    <2>1. j # k
        <3>1. a < Fst[k] /\ a >= Fst[j]
            BY <1>2, <1>3, <1>5
        <3>2. Fst[j] # Fst[k]
            BY <1>2, <1>3, <1>5, <3>1
        <3> QED BY <3>2
    <2>2. ~(k < j)
        <3>1. k < j => LineStop(k) < Fst[j]
            BY <1>1, LinesRise
        <3>2. LineStop(k) \in Fst[k]..NWords
            BY <1>1, LineFacts
        <3> QED BY <1>2, <1>3, <1>5, <3>1, <3>2
    <2> QED BY <1>1, <2>1, <2>2
<1>7. j \in 1..(k - 1)
    BY <1>1, <1>6
<1>8. Fst[j] \in Fst[j]..(MeanEnd(j) - 1) /\ Means(Fst[j])
    <2>1. Fst[j] \in Fst[j]..(MeanEnd(j) - 1)
        BY <1>4, <1>5
    <2> QED BY <2>1 DEF Means
<1>9. \A m \in n..NWords : Means(m) => a <= m
    BY DEF IsNext
<1>10. CASE n <= Fst[j]
    <2>1. a <= Fst[j]
        BY <1>2, <1>5, <1>8, <1>9, <1>10
    <2>2. a = Fst[j]
        BY <1>5, <2>1
    <2> QED BY <1>4, <1>6, <2>2 DEF Within
<1>11. CASE ~(n <= Fst[j])
    <2>1. n \in Fst[j]..LineStop(j) /\ n # Fst[j] /\ n \in Nat
        BY <1>2, <1>3, <1>5, <1>11
    <2>2. ~(n >= MeanEnd(j))
        BY <1>3, <1>4, <1>5, <2>1
    <2>3. PICK m \in n..(MeanEnd(j) - 1) : IsStuck(Wrd[m].sym)
        BY <1>7, <2>1, <2>2 DEF Track
    <2>4. m \in Fst[j]..(MeanEnd(j) - 1)
        BY <1>5, <2>1
    <2>5. Means(m) /\ m \in n..NWords
        BY <1>2, <2>4, WithinLine
    <2>6. a <= m
        BY <1>9, <2>5
    <2>7. m \in a..(MeanEnd(j) - 1)
        BY <1>5, <2>6
    <2> QED BY <1>4, <1>6, <2>3, <2>7 DEF Within
<1> QED BY <1>10, <1>11

(* Behind what a line means, and before a word that is not passed.         *)
LEMMA TrackIn ==
    ASSUME src \in Rendered, NEW k \in 1..NLines, NEW j \in 1..NLines, j < k, NEW n \in Fst[j]..LineStop(j),
           n >= MeanEnd(j) \/ \E m \in n..(MeanEnd(j) - 1) : IsStuck(Wrd[m].sym)
    PROVE  Track(n, k)
<1>1. NLines \in Nat /\ Fst[k] \in Nat /\ Fst[j] \in Nat
    BY LinesHold
<1>2. LineStop(j) < Fst[k] /\ LineStop(j) \in Fst[j]..NWords /\ NWords \in Nat
    BY LinesRise, LineFacts, PlacesRise
<1>3. n <= Fst[k]
    BY <1>1, <1>2
<1>4. ASSUME NEW i \in 1..(k - 1), n \in Fst[i]..LineStop(i) PROVE i = j
    <2>1. i \in 1..NLines
        BY <1>1
    <2> QED BY <1>4, <2>1, OneLine
<1> QED BY <1>3, <1>4 DEF Track

(* What is not passed is not passed by reading on either.                  *)
LEMMA StuckStays ==
    ASSUME src \in Rendered, NEW j \in 1..NLines, NEW m \in Fst[j]..(MeanEnd(j) - 1), IsStuck(Wrd[m].sym),
           NEW p \in Fst[j]..m, NEW c, IsNext(p, c)
    PROVE  c \in Fst[j]..m /\ After(c) \in Fst[j]..m
<1>1. Means(m) /\ m \in 1..NWords /\ NWords \in Nat /\ Fst[j] \in 1..NWords /\ MeanEnd(j) \in Nat
    BY WithinLine, PlacesRise, LineFacts
<1>2. c \in p..(NWords + 1) /\ c <= m
    <2>1. m \in p..NWords
        BY <1>1
    <2> QED BY <1>1, <2>1 DEF IsNext
<1>3. c \in Fst[j]..m
    BY <1>1, <1>2
<1>4. c = m => After(c) = m
    BY DEF After
<1>5. After(c) \in {c, c + 1}
    BY DEF After
<1> QED BY <1>1, <1>3, <1>4, <1>5

(* A command of a line that keeps to itself leaves the lexer on the way to *)
(* the lines after it.                                                     *)
LEMMA StuckCommand ==
    ASSUME src \in Rendered, NEW j \in 1..NLines, NEW a, NEW m \in a..(MeanEnd(j) - 1), a \in Fst[j]..(MeanEnd(j) - 1),
           IsStuck(Wrd[m].sym)
    PROVE  /\ m \in Fst[j]..(MeanEnd(j) - 1) /\ After(a) \in Fst[j]..m
           /\ \A w, h, b : Went(w, h, After(a), b) => After(b[3]) \in Fst[j]..m
<1>1. Fst[j] \in 1..NWords /\ NWords \in Nat /\ MeanEnd(j) \in Nat /\ a \in 1..NWords
    BY WithinLine, PlacesRise, LineFacts
<1>2. m \in Fst[j]..(MeanEnd(j) - 1) /\ a \in Fst[j]..m
    BY <1>1
<1>3. After(a) \in Fst[j]..m
    <2>1. IsNext(a, a)
        <3>1. a \in a..(NWords + 1) /\ Means(a)
            BY <1>1, WithinLine
        <3>2. \A i \in a..NWords : a <= i
            BY <1>1
        <3> QED BY <3>1, <3>2 DEF IsNext
    <2> QED BY <1>2, <2>1, StuckStays
<1>4. ASSUME NEW w, NEW h, NEW b, Went(w, h, After(a), b) PROVE After(b[3]) \in Fst[j]..m
    <2>1. IsNext(After(a), b[1]) /\ IsNext(After(b[1]), b[2]) /\ IsNext(After(b[2]), b[3])
        BY <1>4 DEF Went
    <2>2. After(b[1]) \in Fst[j]..m
        BY <1>2, <1>3, <2>1, StuckStays
    <2>3. After(b[2]) \in Fst[j]..m
        BY <1>2, <2>1, <2>2, StuckStays
    <2> QED BY <1>2, <2>1, <2>3, StuckStays
<1> QED BY <1>2, <1>3, <1>4

(* Where the handler of a command of line j leaves the lexer.              *)
LeftIn(j, p) ==
    /\ p \in Fst[j]..LineStop(j)
    /\ p >= MeanEnd(j) \/ \E m \in p..(MeanEnd(j) - 1) : IsStuck(Wrd[m].sym)

LEMMA StuckLeft ==
    ASSUME src \in Rendered, NEW j \in 1..NLines, NEW m \in Fst[j]..(MeanEnd(j) - 1), IsStuck(Wrd[m].sym), NEW p \in Fst[j]..m
    PROVE  LeftIn(j, p)
<1>1. Fst[j] \in 1..NWords /\ MeanEnd(j) \in Nat /\ m \in Fst[j]..LineStop(j) /\ m < LineStop(j) /\ LineStop(j) \in 1..NWords
    BY WithinLine, LineFacts
<1>2. p \in Fst[j]..LineStop(j) /\ m \in p..(MeanEnd(j) - 1)
    BY <1>1
<1> QED BY <1>2 DEF LeftIn

LEMMA ClosedCommand ==
    ASSUME src \in Rendered, NEW j \in 1..NLines, NEW a, Within(a, j), Closed(Meant(src.lines[j])), IsName(Wrd[a].sym),
           NEW op, op \in find_reserved_command(Wrd[a].name)
    PROVE  /\ op \notin Arithmetic => LeftIn(j, After(a))
           /\ \A w, h, b : op \in Arithmetic /\ Went(w, h, After(a), b) => LeftIn(j, After(b[3]))
<1> DEFINE line == Meant(src.lines[j])
<1>1. a \in Fst[j]..(MeanEnd(j) - 1)
    BY DEF Within
<1>2. CASE \E m \in a..(MeanEnd(j) - 1) : IsStuck(Wrd[m].sym)
    <2>1. PICK m \in a..(MeanEnd(j) - 1) : IsStuck(Wrd[m].sym)
        BY <1>2
    <2>2. /\ m \in Fst[j]..(MeanEnd(j) - 1) /\ After(a) \in Fst[j]..m
          /\ \A w, h, b : Went(w, h, After(a), b) => After(b[3]) \in Fst[j]..m
        BY <1>1, <2>1, StuckCommand
    <2> QED BY <2>1, <2>2, StuckLeft
<1>3. CASE ~\E m \in a..(MeanEnd(j) - 1) : IsStuck(Wrd[m].sym)
    <2>1. a = Fst[j]
        BY <1>3 DEF Within
    <2>2. /\ line \in Seq(SourceWords) /\ Len(line) \in Nat /\ MeanEnd(j) = Fst[j] + Len(line)
          /\ \A i \in 1..Len(line) : Fst[j] + (i - 1) \in Fst[j]..(MeanEnd(j) - 1) /\ Wrd[Fst[j] + (i - 1)] = line[i]
        BY LineFacts
    <2>3. Fst[j] \in Nat
        BY LinesHold
    <2> HIDE DEF line
    <2>4. 1 \in 1..Len(line) /\ Fst[j] + (1 - 1) = Fst[j]
        BY <1>1, <2>1, <2>2, <2>3
    <2>5. Wrd[a] = line[1] /\ line[1] \in SourceWords
        BY <2>1, <2>2, <2>4
    <2>6. line[1].name # ""
        BY <2>5, WordAssumption
    <2>7. \A i \in 1..Len(line) : ~IsStuck(line[i].sym)
        BY <1>3, <2>1, <2>2
    <2>8. \A i \in 1..Len(line) : line[i].sym \notin {<<"other">>, <<"dot">>}
        BY <2>7 DEF IsStuck
    <2>9. Len(line) = 4 /\ find_reserved_command(line[1].name) \subseteq Arithmetic
        <3>1. Closed(line)
            BY DEF line
        <3>2. Len(line) # 0
            BY <2>2, <2>4
        <3> QED BY <2>6, <2>8, <3>1, <3>2 DEF Closed
    <2>10. op \in Arithmetic
        BY <2>5, <2>9
    <2>11. Lined(a, j)
        BY <2>1, <2>9, FourLined DEF line
    <2>12. \A i \in 0..3 : ~IsStuck(Wrd[a + i].sym)
        <3> SUFFICES ASSUME NEW i \in 0..3 PROVE ~IsStuck(Wrd[a + i].sym)
            OBVIOUS
        <3>1. i + 1 \in 1..Len(line) /\ Fst[j] + ((i + 1) - 1) = a + i
            BY <2>1, <2>3, <2>9
        <3> QED BY <2>2, <2>7, <3>1
    <2>13. ASSUME NEW w, NEW h, NEW b, Went(w, h, After(a), b) PROVE After(b[3]) = MeanEnd(j)
        <3>1. \A i \in 0..2 : ~IsStuck(Wrd[a + i].sym)
            BY <2>12
        <3> QED BY <2>11, <2>12, <2>13, <3>1, FourRead
    <2>14. LeftIn(j, MeanEnd(j))
        <3>1. MeanEnd(j) \in Fst[j]..LineStop(j) /\ MeanEnd(j) \in Nat
            BY <2>2, <2>3, LineFacts
        <3> QED BY <3>1 DEF LeftIn
    <2> QED BY <2>10, <2>13, <2>14
<1> QED BY <1>2, <1>3

-----------------------------------------------------------------------------
(* A command is handled when all of it is right and it has an instruction, *)
(* or there is an error, or else a wrong register; that of a well-formed   *)
(* line, when it has one instruction or lacks constants.                   *)
RABs(I, O, p) == {n \in 1..Len(O) : O[n] = p /\ I[n].form = "RAB"}

HandledIn(I, O, R, k) ==
    LET p    == src.begin[k]
        line == Meant(src.lines[k])
    IN
    /\ Len(line) >= 4 \/ Closed(line) =>
          \/ WellFormed(SubSeq(line, 1, 4)) /\ RABs(I, O, p) # {}
          \/ \E report \in R : report.at = p /\ report.kind # "extra"
          \/ \E i \in DOMAIN line \cap 2..4 : WrongRegister(line[i])
    /\ WellFormed(line) =>
          \/ \E n : RABs(I, O, p) = {n}
          \/ RABs(I, O, p) = {} /\ \E report \in R : report.at = p /\ report.kind \in {"too many", "no memory"}

HandledAt(w, k) == HandledIn(Instrs(w), w.origin, w.reports, k)

LEMMA HandledKept ==
    ASSUME NEW w, NEW u, NEW m \in Nat, Grew(w, u, m), w.reports \subseteq u.reports,
           NEW k, HandledAt(w, k), src.begin[k] # w.at \/ m = 0
    PROVE  HandledAt(u, k)
<1> DEFINE p == src.begin[k]
           L == Len(w.origin)
<1>1. /\ L \in Nat /\ Len(u.origin) = L + m
      /\ \A i \in 1..L : u.origin[i] = w.origin[i] /\ Instrs(u)[i] = Instrs(w)[i]
      /\ \A i \in (L + 1)..(L + m) : u.origin[i] = w.at
    BY DEF Grew
<1>2. L = Len(w.origin) /\ p = src.begin[k]
    OBVIOUS
<1> HIDE DEF L, p
<1>3. ASSUME NEW n \in 1..(L + m), u.origin[n] = p PROVE n \in 1..L
    <2>1. n \notin 1..L => n \in (L + 1)..(L + m) /\ m # 0
        BY <1>1
    <2> QED BY <1>1, <1>2, <1>3, <2>1
<1>4. \A n : n \in 1..L => n \in 1..(L + m)
    BY <1>1
<1>5. RABs(Instrs(u), u.origin, p) = RABs(Instrs(w), w.origin, p)
    <2>1. \A n : n \in RABs(Instrs(u), u.origin, p) <=> n \in 1..(L + m) /\ u.origin[n] = p /\ Instrs(u)[n].form = "RAB"
        BY <1>1 DEF RABs
    <2>2. \A n : n \in RABs(Instrs(w), w.origin, p) <=> n \in 1..L /\ w.origin[n] = p /\ Instrs(w)[n].form = "RAB"
        BY <1>2 DEF RABs
    <2>3. \A n : n \in RABs(Instrs(u), u.origin, p) <=> n \in RABs(Instrs(w), w.origin, p)
        BY <1>1, <1>3, <1>4, <2>1, <2>2
    <2> QED BY <2>3 DEF RABs
<1> QED BY <1>2, <1>5 DEF HandledAt, HandledIn

(* The words a command was given are those of its line, when each of them  *)
(* looks like an operand.                                                  *)
LEMMA WordsRead ==
    ASSUME src \in Rendered, NEW k, Due(k), Len(Meant(src.lines[k])) >= 4 \/ Closed(Meant(src.lines[k])),
           NEW w, NEW h, NEW b, Went(w, h, After(Fst[k]), b), \A i \in 1..3 : Whole(b[i])
    PROVE  /\ Len(Meant(src.lines[k])) >= 4
           /\ \A i \in 1..3 : Wrd[b[i]] = Meant(src.lines[k])[i + 1]
<1> DEFINE line == Meant(src.lines[k])
           N    == Len(line)
           a    == Fst[k]
<1>1. k \in 1..NLines /\ IsName(Wrd[a].sym) /\ a \in 1..NWords
    BY DueFirst DEF Due
<1>2. /\ N \in Nat /\ line \in Seq(SourceWords)
      /\ \A i \in 1..N : a + (i - 1) \in a..(MeanEnd(k) - 1) /\ Wrd[a + (i - 1)] = line[i]
    BY <1>1, LineFacts
<1>3. a \in Nat /\ N > 0
    BY <1>1, LinesHold DEF Due
<1>4. N >= 4 \/ Closed(line)
    OBVIOUS
<1>5. line[1].name # ""
    BY DEF Due, Arithmetic
<1>6. /\ IsNext(After(a), b[1]) /\ IsNext(After(b[1]), b[2]) /\ IsNext(After(b[2]), b[3])
      /\ \A i \in 1..3 : b[i] \in 1..NWords /\ ~IsStuck(Wrd[b[i]].sym)
    BY DEF Went, Whole
<1>7. \A n : n \in a..(MeanEnd(k) - 1) => \A c : IsNext(n, c) => c = n
    BY <1>1, NextHere
<1> HIDE DEF line, N, a
<1>8. After(a) = a + 1
    <2>1. ~IsStuck(Wrd[a].sym)
        BY <1>1, KindsOfWords
    <2> QED BY <1>1, <2>1 DEF After
<1>9. \A i \in 1..3 : i + 1 <= N => a + i \in a..(MeanEnd(k) - 1) /\ Wrd[a + i] = line[i + 1]
    <2> SUFFICES ASSUME NEW i \in 1..3, i + 1 <= N
                 PROVE  a + i \in a..(MeanEnd(k) - 1) /\ Wrd[a + i] = line[i + 1]
        OBVIOUS
    <2>1. i + 1 \in 1..N /\ a + ((i + 1) - 1) = a + i
        BY <1>2, <1>3
    <2> QED BY <1>2, <2>1
<1>10. N >= 2 => b[1] = a + 1 /\ After(b[1]) = a + 2 /\ Wrd[b[1]] = line[2]
    <2> SUFFICES ASSUME N >= 2 PROVE b[1] = a + 1 /\ After(b[1]) = a + 2 /\ Wrd[b[1]] = line[2]
        OBVIOUS
    <2>1. a + 1 \in a..(MeanEnd(k) - 1) /\ Wrd[a + 1] = line[2]
        BY <1>2, <1>9
    <2>2. b[1] = a + 1
        BY <1>6, <1>7, <1>8, <2>1
    <2>3. After(b[1]) = b[1] + 1
        BY <1>6 DEF After
    <2> QED BY <1>3, <2>1, <2>2, <2>3
<1>11. N >= 3 => b[2] = a + 2 /\ After(b[2]) = a + 3 /\ Wrd[b[2]] = line[3]
    <2> SUFFICES ASSUME N >= 3 PROVE b[2] = a + 2 /\ After(b[2]) = a + 3 /\ Wrd[b[2]] = line[3]
        OBVIOUS
    <2>1. a + 2 \in a..(MeanEnd(k) - 1) /\ Wrd[a + 2] = line[3] /\ After(b[1]) = a + 2
        BY <1>2, <1>9, <1>10
    <2>2. b[2] = a + 2
        BY <1>6, <1>7, <2>1
    <2>3. After(b[2]) = b[2] + 1
        BY <1>6 DEF After
    <2> QED BY <1>3, <2>1, <2>2, <2>3
<1>12. N >= 4 => b[3] = a + 3 /\ Wrd[b[3]] = line[4]
    <2> SUFFICES ASSUME N >= 4 PROVE b[3] = a + 3 /\ Wrd[b[3]] = line[4]
        OBVIOUS
    <2>1. a + 3 \in a..(MeanEnd(k) - 1) /\ Wrd[a + 3] = line[4] /\ After(b[2]) = a + 3
        BY <1>2, <1>9, <1>11
    <2> QED BY <1>6, <1>7, <2>1
<1>13. N >= 4
    <2> SUFFICES ASSUME N < 4 PROVE FALSE
        BY <1>2
    <2>0. Closed(line) /\ N # 4 /\ N # 0
        BY <1>2, <1>3, <1>4
    <2>1. PICK i \in 1..N : line[i].sym \in {<<"other">>, <<"dot">>}
        <3>1. Len(line) # 4 /\ Len(line) # 0
            BY <2>0 DEF N
        <3>2. \E i \in 1..Len(line) : line[i].sym \in {<<"other">>, <<"dot">>}
            BY <1>5, <2>0, <3>1 DEF Closed
        <3> QED BY <3>2 DEF N
    <2>2. IsStuck(line[i].sym)
        BY <2>1 DEF IsStuck
    <2>3. i = 1 \/ (i = 2 /\ N >= 2) \/ (i = 3 /\ N >= 3)
        BY <1>2, <2>1
    <2>4. i # 1
        <3>1. line[1] = Wrd[a]
            <4>1. 1 \in 1..N /\ a + (1 - 1) = a
                BY <1>2, <1>3
            <4> QED BY <1>2, <4>1
        <3> QED BY <1>1, <2>2, <3>1, KindsOfWords
    <2> QED BY <1>6, <1>10, <1>11, <2>2, <2>3, <2>4
<1>14. \A i \in 1..3 : Wrd[b[i]] = line[i + 1]
    <2>1. N >= 2 /\ N >= 3
        BY <1>2, <1>13
    <2>2. Wrd[b[1]] = line[1 + 1] /\ Wrd[b[2]] = line[2 + 1] /\ Wrd[b[3]] = line[3 + 1]
        BY <1>10, <1>11, <1>12, <1>13, <2>1
    <2>3. \A i \in 1..3 : i = 1 \/ i = 2 \/ i = 3
        OBVIOUS
    <2> QED BY <2>2, <2>3
<1> QED BY <1>13, <1>14 DEF line, N

(* A command of a line that has enough words, or keeps to itself.          *)
LEMMA AnsweredNew ==
    ASSUME src \in Rendered, NEW k, Due(k), Len(Meant(src.lines[k])) >= 4 \/ Closed(Meant(src.lines[k])),
           NEW w, NEW h, NEW op, NEW b, NEW m, Went(w, h, After(Fst[k]), b), Did(w, h, op, b, m), ~Told(h),
           ~\E i \in DOMAIN Meant(src.lines[k]) \cap 2..4 : WrongRegister(Meant(src.lines[k])[i])
    PROVE  Operands(b) /\ WellFormed(SubSeq(Meant(src.lines[k]), 1, 4))
<1> DEFINE line == Meant(src.lines[k])
<1>1. NamesR(b[1]) /\ IsOperand(b[2]) /\ IsOperand(b[3])
    BY DEF Did
<1>2. \A i \in 1..3 : Whole(b[i])
    <2>1. \A i \in 1..3 : i = 1 \/ i = 2 \/ i = 3
        OBVIOUS
    <2> QED BY <1>1, <2>1 DEF NamesR, IsOperand
<1>3. Len(line) >= 4 /\ \A i \in 1..3 : Wrd[b[i]] = line[i + 1]
    BY <1>2, WordsRead
<1>4. k \in 1..NLines /\ line[1].name \in Arithmetic
    BY DEF Due
<1>5. line \in Seq(SourceWords) /\ Len(line) \in Nat /\ DOMAIN line = 1..Len(line)
    BY <1>4, LineFacts
<1>6. ~\E i \in DOMAIN line \cap 2..4 : WrongRegister(line[i])
    OBVIOUS
<1> HIDE DEF line
<1>7. Wrd[b[1]] = line[2] /\ Wrd[b[2]] = line[3] /\ Wrd[b[3]] = line[4]
    BY <1>3
<1>8. ~WrongRegister(line[2]) /\ ~WrongRegister(line[3]) /\ ~WrongRegister(line[4])
    <2>1. \A i \in 2..4 : i \in DOMAIN line \cap 2..4
        BY <1>3, <1>5
    <2> QED BY <1>6, <2>1
<1>9. /\ IsRegister(line[2])
      /\ IsRegister(line[3]) \/ IsConstant(line[3])
      /\ IsRegister(line[4]) \/ IsConstant(line[4])
    BY <1>1, <1>7, <1>8 DEF NamesR, IsOperand
<1>10. Operands(b)
    BY <1>1, <1>7, <1>9 DEF Operands, IsA, NamesR, IsOperand, Whole
<1>11. /\ Len(SubSeq(line, 1, 4)) = 4
       /\ \A i \in 1..4 : SubSeq(line, 1, 4)[i] = line[i]
    BY <1>3, <1>5
<1>12. WellFormed(SubSeq(line, 1, 4))
    <2>1. \A i \in 3..4 : i = 3 \/ i = 4
        OBVIOUS
    <2> DEFINE first == SubSeq(line, 1, 4)
    <2>2. Len(first) = 4 /\ first[1] = line[1] /\ first[2] = line[2] /\ first[3] = line[3] /\ first[4] = line[4]
        BY <1>11
    <2> HIDE DEF first
    <2>3. WellFormed(first)
        BY <1>4, <1>9, <2>1, <2>2 DEF WellFormed, line
    <2> QED BY <2>3 DEF first
<1> QED BY <1>10, <1>12 DEF line

LEMMA HandledNew ==
    ASSUME src \in Rendered, NEW k \in 1..NLines, Due(k), NEW w, NEW h, NEW op, NEW b, NEW m \in 0..2,
           Went(w, h, After(Fst[k]), b), Did(w, h, op, b, m),
           w.at = src.begin[k], \A i \in 1..Len(w.origin) : w.origin[i] # w.at
    PROVE  HandledAt(h, k)
<1> DEFINE p == src.begin[k]
           L == Len(w.origin)
           S == RABs(Instrs(h), h.origin, p)
           line == Meant(src.lines[k])
           Wrongs == \E i \in DOMAIN line \cap 2..4 : WrongRegister(line[i])
<1>1. h.at = p
    BY DEF Went
<1>2. /\ WellFormed(line) => Operands(b)
      /\ Len(line) >= 4 \/ Closed(line) => Told(h) \/ Wrongs \/ (Operands(b) /\ WellFormed(SubSeq(line, 1, 4)))
    BY WellFormedRead, AnsweredNew
<1>3. /\ L \in Nat /\ m \in 0..2 /\ L = Len(w.origin) /\ p = w.at
      /\ \A i \in 1..m : Instrs(h)[L + i].form = "RC"
    BY DEF Did, Grew
<1>4. \A d \in {m, m + 1} : Grew(w, h, d) =>
          /\ Len(h.origin) = L + d
          /\ \A i \in 1..L : h.origin[i] = w.origin[i]
          /\ \A i \in (L + 1)..(L + d) : h.origin[i] = w.at
    BY DEF Grew
<1>5. \A n : n \in S <=> n \in 1..Len(h.origin) /\ h.origin[n] = p /\ Instrs(h)[n].form = "RAB"
    BY DEF RABs
<1>6. /\ p = src.begin[k] /\ S = RABs(Instrs(h), h.origin, p)
      /\ Told(h) => \E report \in h.reports : report.at = p /\ report.kind # "extra"
      /\ ToldOf(h, {"too many", "no memory"}) =>
            /\ \E report \in h.reports : report.at = p /\ report.kind \in {"too many", "no memory"}
            /\ Told(h)
    BY <1>1 DEF Told, ToldOf
<1>7. ASSUME Len(line) >= 4 \/ Closed(line) => (WellFormed(SubSeq(line, 1, 4)) /\ S # {}) \/ Told(h) \/ Wrongs,
             WellFormed(line) => (\E n : S = {n}) \/ (S = {} /\ ToldOf(h, {"too many", "no memory"}))
      PROVE  HandledAt(h, k)
    BY <1>6, <1>7 DEF HandledAt, HandledIn
<1> HIDE DEF L, p, S, line, Wrongs
<1>8. \A n \in S : \A d \in {m, m + 1} : Grew(w, h, d) => n \in (L + 1)..(L + d)
    <2> SUFFICES ASSUME NEW n \in S, NEW d \in {m, m + 1}, Grew(w, h, d) PROVE n \in (L + 1)..(L + d)
        OBVIOUS
    <2>1. n \notin 1..L
        BY <1>3, <1>4, <1>5
    <2>2. Len(h.origin) = L + d
        BY <1>4
    <2>3. n \in 1..(L + d)
        BY <1>5, <2>2
    <2>4. L \in Nat /\ d \in Nat
        BY <1>3
    <2> QED BY ONLY <2>1, <2>3, <2>4
<1>9. \A n \in S : n \notin (L + 1)..(L + m)
    <2> SUFFICES ASSUME NEW n \in S, n \in (L + 1)..(L + m) PROVE FALSE
        OBVIOUS
    <2>1. n - L \in 1..m /\ L + (n - L) = n
        BY ONLY <1>3, n \in (L + 1)..(L + m)
    <2>2. Instrs(h)[n].form = "RC"
        BY <1>3, <2>1
    <2> QED BY <1>5, <2>2
<1>10. CASE ~h.ok
    <2>1. Grew(w, h, m) /\ (Operands(b) => ToldOf(h, {"too many", "no memory"}))
        BY <1>10 DEF Did
    <2>2. S = {}
        BY <1>8, <1>9, <2>1
    <2> QED BY <1>2, <1>6, <1>7, <2>1, <2>2
<1>11. CASE h.ok
    <2>1. Grew(w, h, m + 1) /\ Instrs(h)[(L + m) + 1].form = "RAB"
        BY <1>3, <1>11 DEF Did
    <2>2. (L + m) + 1 \in (L + 1)..(L + (m + 1)) /\ (L + m) + 1 \in 1..(L + (m + 1))
        <3>1. L \in Nat /\ m \in Nat
            BY <1>3
        <3> QED BY ONLY <3>1
    <2>3. (L + m) + 1 \in S
        <3>1. h.origin[(L + m) + 1] = p /\ Len(h.origin) = L + (m + 1)
            BY <1>3, <1>4, <2>1, <2>2
        <3> QED BY <1>5, <2>1, <2>2, <3>1
    <2>4. ASSUME NEW n \in S PROVE n = (L + m) + 1
        <3>1. n \in (L + 1)..(L + (m + 1)) /\ n \notin (L + 1)..(L + m)
            BY <1>8, <1>9, <2>1
        <3>2. L \in Nat /\ m \in Nat
            BY <1>3
        <3> QED BY ONLY <3>1, <3>2
    <2>5. S = {(L + m) + 1}
        BY <2>3, <2>4
    <2> QED BY <1>2, <1>7, <2>5
<1> QED BY <1>10, <1>11

(* What is handled stays handled when nothing is written.                  *)
LEMMA QuietHandled ==
    ASSUME NEW w, NEW u, Quiet(w, u), w.reports \subseteq u.reports, NEW k, HandledAt(w, k)
    PROVE  HandledAt(u, k)
BY DEF Quiet, HandledAt, HandledIn, Instrs

(* Every due line will be come to, or has been handled.                    *)
Ahead(k)  == \E n : Before(assm.lex_, n) /\ Track(n, k)
Settled(k) == HandledIn(assm.code_.instr_, origin, reports, k)
BehindUs(k) == Place > src.begin[k] /\ Settled(k)

Arrive ==
    /\ phase \in {"ready", "translating"} => \A k \in 1..NLines : Due(k) => Ahead(k) \/ BehindUs(k)
    /\ phase = "done" => \A k \in 1..NLines : Due(k) => Settled(k)

LEMMA SameTrack ==
    ASSUME src' = src
    PROVE  \A n, k : (Due(k)' <=> Due(k)) /\ (Track(n, k)' <=> Track(n, k))
<1>1. \A k : Due(k)' <=> Due(k)
    BY DEF Due, NLines
<1>2. \A n, k : Track(n, k)' <=> Track(n, k)
    BY SameWords DEF Track
<1> QED BY <1>1, <1>2

LEMMA SettledNext ==
    ASSUME NEW e, Became(e), NEW k, HandledAt(e, k)
    PROVE  Settled(k)'
<1>1. assm' = e.assm /\ origin' = e.origin /\ src' = src /\ reports' = e.reports
    BY DEF Became
<1>2. HandledIn(e.assm.code_.instr_, e.origin, e.reports, k)
    BY DEF HandledAt, Instrs
<1> QED BY <1>1, <1>2 DEF Settled, HandledIn

LEMMA AheadNext ==
    ASSUME NEW e, Became(e), NEW k, NEW n, Before(e.assm.lex_, n), Track(n, k)
    PROVE  Ahead(k)'
<1>1. Before(assm.lex_, n)'
    BY BeforeNext
<1>2. src' = src
    BY DEF Became
<1>3. Track(n, k)'
    BY <1>2, SameTrack
<1> QED BY <1>1, <1>3 DEF Ahead

LEMMA FirstTrack == src \in Rendered => \A k \in 1..NLines : Track(1, k)
<1> SUFFICES ASSUME src \in Rendered, NEW k \in 1..NLines PROVE Track(1, k)
    OBVIOUS
<1>1. NLines \in Nat /\ Fst[k] \in 1..NWords /\ NWords \in Nat
    BY LineFacts, LinesHold, PlacesRise
<1>2. ASSUME NEW j \in 1..(k - 1), 1 \in Fst[j]..LineStop(j) PROVE 1 = Fst[j]
    <2>1. j \in 1..NLines
        BY <1>1
    <2>2. Fst[j] \in 1..NWords
        BY <2>1, LineFacts
    <2> QED BY <1>1, <1>2, <2>2
<1> QED BY <1>1, <1>2 DEF Track

LEMMA FirstTrackNext == (src \in Rendered => \A k \in 1..NLines : Track(1, k))'
BY FirstTrack, PTL

(* A round about a later place than that of a line.                        *)
LEMMA SettledOn ==
    ASSUME IInv, Filled, Standing, Arrive, phase = "translating", NEW k \in 1..NLines, BehindUs(k),
           NEW w, NEW n, NEW a, RoundOf(w, n, a), NEW e, NEW p, Turned(w, e, p), Became(e)
    PROVE  Settled(k)' /\ (Place' > Plc[a] => BehindUs(k)')
<1>1. Place > src.begin[k] /\ HandledAt(w, k) /\ w.at = Plc[a] /\ src \in Rendered
    BY DEF BehindUs, Settled, HandledAt, RoundOf
<1>2. Place \in Nat /\ Place <= Plc[a] /\ Plc[a] \in Nat
    BY RoundPlaces
<1>3. src.begin[k] = Plc[Fst[k]] /\ Fst[k] \in 1..NWords /\ NWords \in Nat
    BY <1>1, LineFacts, PlacesRise
<1>4. Plc[Fst[k]] \in Nat
    BY <1>1, <1>3, PlacesRise
<1>5. src.begin[k] # w.at /\ src.begin[k] < Plc[a] /\ src.begin[k] \in Nat
    BY <1>1, <1>2, <1>3, <1>4
<1>6. PICK m \in Nat : Grew(w, e, m)
    BY DEF Turned
<1>7. HandledAt(e, k)
    BY <1>1, <1>5, <1>6, HandledKept DEF Turned
<1>8. Settled(k)'
    BY <1>7, SettledNext
<1>9. src' = src /\ Place' \in Nat
    BY DEF Became, Turned, Doing, Going, LexP!Lexers, Place
<1> QED BY <1>2, <1>5, <1>8, <1>9 DEF BehindUs

(* A round on the way to a line.                                           *)
LEMMA PassedOn ==
    ASSUME NEW k \in 1..NLines, Due(k), NEW n, Track(n, k), NEW w, NEW e, NEW a, NEW j, Passed(w, e, n, a, j)
    PROVE  Ahead(k)'
<1>1. src \in Rendered /\ IsNext(n, a) /\ n \in 1..(NWords + 1) /\ j \in 1..NLines /\ a \in Fst[j]..(MeanEnd(j) - 1)
      /\ ~IsName(Wrd[a].sym)
    BY DEF Passed, RoundOf, Before
<1>2. a # Fst[k]
    BY <1>1, DueFirst
<1>3. PICK i \in 1..NLines : i < k /\ Within(a, i)
    BY <1>1, <1>2, NextTracked
<1>4. i = j
    <2>1. a \in Fst[i]..LineStop(i) /\ a \in Fst[j]..LineStop(j)
        BY <1>1, <1>3, WithinLine DEF Within
    <2> QED BY <1>1, <2>1, OneLine
<1>5. Track(LineStop(j), k)
    <2>1. LineStop(j) \in Fst[j]..LineStop(j) /\ LineStop(j) >= MeanEnd(j)
        <3>1. Fst[j] \in 1..NWords /\ LineStop(j) \in Fst[j]..NWords /\ MeanEnd(j) \in Fst[j]..LineStop(j) /\ NWords \in Nat
            BY <1>1, LineFacts, PlacesRise
        <3> QED BY <3>1
    <2> QED BY <1>1, <1>3, <1>4, <2>1, TrackIn
<1> QED BY <1>5, AheadNext DEF Passed, Turned

LEMMA LeftTracks ==
    ASSUME src \in Rendered, NEW k \in 1..NLines, NEW j \in 1..NLines, j < k, NEW w, NEW h, NEW e, NEW p,
           Turned(w, h, p), LeftIn(j, p), e = h \/ e = skip_line(h), Became(e)
    PROVE  Ahead(k)'
<1>1. p \in Fst[j]..LineStop(j) /\ (p >= MeanEnd(j) \/ \E m \in p..(MeanEnd(j) - 1) : IsStuck(Wrd[m].sym))
    BY DEF LeftIn
<1>2. CASE e = h
    <2>1. Track(p, k)
        BY <1>1, TrackIn
    <2> QED BY <1>2, <2>1, AheadNext DEF Turned
<1>3. CASE e = skip_line(h)
    <2>1. Turned(w, e, LineStop(j))
        BY <1>1, <1>3, SkipTurns
    <2>2. LineStop(j) \in Fst[j]..LineStop(j) /\ LineStop(j) >= MeanEnd(j)
        <3>1. Fst[j] \in 1..NWords /\ LineStop(j) \in Fst[j]..NWords /\ MeanEnd(j) \in Fst[j]..LineStop(j) /\ NWords \in Nat
            BY LineFacts, PlacesRise
        <3> QED BY <3>1
    <2>3. Track(LineStop(j), k)
        BY <2>2, TrackIn
    <2> QED BY <2>1, <2>3, AheadNext DEF Turned
<1> QED BY <1>2, <1>3

LEMMA Unwritten ==
    ASSUME Filled, Standing, phase = "translating", NEW w, NEW n, NEW a, RoundOf(w, n, a)
    PROVE  \A i \in 1..Len(w.origin) : w.origin[i] # w.at
<1>1. w.origin = origin /\ w.at = Plc[a]
    BY DEF RoundOf
<1>2. Place \in Nat /\ Place <= Plc[a] /\ Plc[a] \in Nat
    BY RoundPlaces
<1>3. \A i \in 1..Len(origin) : origin[i] \in Nat /\ origin[i] < Place
    BY DEF Filled, Standing
<1> QED BY <1>1, <1>2, <1>3

LEMMA CommandedTurned ==
    ASSUME NEW w, NEW h, NEW e, NEW n, NEW a, NEW op, NEW anything, Commanded(w, h, e, n, a, op, anything)
    PROVE  \E p : Turned(w, e, p)
<1>1. /\ RoundOf(w, n, a) /\ h = call_handler(w, op, anything) /\ ~h.over
      /\ (e = h /\ h.ok) \/ (e = skip_line(h) /\ ~h.ok)
      /\ src \in Rendered
    BY DEF Commanded, RoundOf
<1>2. \E p : Turned(w, h, p)
    <2>1. CASE op \in Arithmetic
        <3>1. PICK b : \E m \in 0..2 : Went(w, h, After(a), b) /\ Did(w, h, op, b, m)
            BY <1>1, <2>1, HandlerTurns
        <3> QED BY <3>1, WentTurned
    <2>2. CASE op \notin Arithmetic
        BY <1>1, <2>2, HandlerTurns
    <2> QED BY <2>1, <2>2
<1> QED BY <1>1, <1>2, SkipTurns

LEMMA CommandOn ==
    ASSUME Filled, Standing, phase = "translating", NEW k \in 1..NLines, Due(k), NEW n, Track(n, k),
           NEW w, NEW h, NEW e, NEW a, NEW op, NEW anything, Commanded(w, h, e, n, a, op, anything)
    PROVE  Ahead(k)' \/ BehindUs(k)'
<1>1. /\ RoundOf(w, n, a) /\ h = call_handler(w, op, anything) /\ ~h.over
      /\ (e = h /\ h.ok) \/ (e = skip_line(h) /\ ~h.ok)
      /\ Became(e) /\ Place' > Plc[a] /\ src \in Rendered /\ a \in 1..NWords /\ w.at = Plc[a]
      /\ IsName(Wrd[a].sym) /\ op \in find_reserved_command(Wrd[a].name)
      /\ n \in 1..(NWords + 1) /\ IsNext(n, a)
    BY DEF Commanded, RoundOf, Before
<1>2. e = h \/ e = skip_line(h)
    BY <1>1
<1>3. CASE a = Fst[k]
    <2>1. op \in Arithmetic
        BY <1>1, <1>3, DueFirst
    <2>2. PICK b : \E m \in 0..2 : Went(w, h, After(a), b) /\ Did(w, h, op, b, m)
        BY <1>1, <2>1, HandlerTurns
    <2>3. PICK m \in 0..2 : Went(w, h, After(a), b) /\ Did(w, h, op, b, m)
        BY <2>2
    <2>4. \A i \in 1..Len(w.origin) : w.origin[i] # w.at
        BY <1>1, Unwritten
    <2>5. src.begin[k] = Plc[Fst[k]]
        BY <1>1, LineFacts
    <2>6. HandledAt(h, k)
        BY <1>1, <1>3, <2>3, <2>4, <2>5, HandledNew
    <2>7. Quiet(h, e) /\ h.reports \subseteq e.reports
        <3>1. Turned(w, h, After(b[3]))
            BY <2>3, WentTurned
        <3>2. CASE e = h
            BY <3>2 DEF Quiet
        <3>3. CASE e = skip_line(h)
            <4>1. Quiet(h, e) /\ e.reports = h.reports
                BY <1>1, <3>1, <3>3, SkipTurns
            <4> QED BY <4>1
        <3> QED BY <1>2, <3>2, <3>3
    <2>8. HandledAt(e, k)
        BY <2>6, <2>7, QuietHandled
    <2>9. Settled(k)'
        BY <1>1, <2>8, SettledNext
    <2>10. Place' > src.begin[k] /\ src' = src
        BY <1>1, <1>3, <2>5 DEF Became
    <2> QED BY <2>9, <2>10 DEF BehindUs
<1>4. CASE a # Fst[k]
    <2>1. PICK j \in 1..NLines : j < k /\ Within(a, j)
        BY <1>1, <1>4, NextTracked
    <2>2. Closed(Meant(src.lines[j]))
        <3>1. NLines \in Nat
            BY <1>1, LinesHold
        <3>2. j \in 1..(k - 1)
            BY <2>1, <3>1
        <3> QED BY <3>2 DEF Due
    <2>3. /\ op \notin Arithmetic => LeftIn(j, After(a))
          /\ \A v, u, b : op \in Arithmetic /\ Went(v, u, After(a), b) => LeftIn(j, After(b[3]))
        BY <1>1, <2>1, <2>2, ClosedCommand
    <2>4. \E p : Turned(w, h, p) /\ LeftIn(j, p)
        <3>1. CASE op \in Arithmetic
            <4>1. PICK b : \E m \in 0..2 : Went(w, h, After(a), b) /\ Did(w, h, op, b, m)
                BY <1>1, <3>1, HandlerTurns
            <4>2. Turned(w, h, After(b[3]))
                BY <4>1, WentTurned
            <4> QED BY <2>3, <3>1, <4>1, <4>2
        <3>2. CASE op \notin Arithmetic
            BY <1>1, <2>3, <3>2, HandlerTurns
        <3> QED BY <3>1, <3>2
    <2> QED BY <1>1, <1>2, <2>1, <2>4, LeftTracks
<1> QED BY <1>3, <1>4

LEMMA NextArrive ==
    ASSUME IInv, Filled, Standing, Arrive, [Next]_vars
    PROVE  Arrive'
<1>1. ASSUME NEW source \in Rendered, AsmInit(source) PROVE Arrive'
    <2>1. phase' = "ready" /\ Before(assm.lex_, 1)' /\ (src \in Rendered)'
        BY <1>1, AsmInitStands DEF Standing
    <2>2. (\A k \in 1..NLines : Track(1, k))'
        BY <2>1, FirstTrackNext
    <2>3. (\A k \in 1..NLines : Ahead(k))'
        BY <2>1, <2>2 DEF Ahead
    <2> QED BY <2>1, <2>3 DEF Arrive
<1>2. CASE Idle
    <2>1. assm' = assm /\ origin' = origin /\ src' = src /\ reports' = reports
          /\ (phase' = phase \/ (phase = "ready" /\ phase' = "translating"))
        BY <1>2 DEF Idle
    <2>2. \A n : Before(assm.lex_, n)' <=> Before(assm.lex_, n)
        <3>1. \A l, n : Before(l, n)' <=> Before(l, n)
            BY <2>1, SameBefore
        <3> QED BY <2>1, <3>1, SameWords DEF Before, LexP!Lexers
    <2>3. \A n, k : (Due(k)' <=> Due(k)) /\ (Track(n, k)' <=> Track(n, k))
        BY <2>1, SameTrack
    <2>4. \A k : (Ahead(k)' <=> Ahead(k)) /\ (BehindUs(k)' <=> BehindUs(k)) /\ (Settled(k)' <=> Settled(k))
        BY <2>1, <2>2, <2>3 DEF Ahead, BehindUs, Settled, HandledIn, Place
    <2>5. NLines' = NLines
        BY <2>1 DEF NLines
    <2> QED BY <2>1, <2>3, <2>4, <2>5 DEF Arrive
<1>3. CASE Cleared
    BY <1>3 DEF Cleared, Arrive
<1>4. CASE phase' = "over"
    BY <1>4 DEF Arrive
<1>5. phase = "translating" => \E n : Before(assm.lex_, n)
    BY DEF Standing
<1>6. src' = src => NLines' = NLines /\ \A k : Due(k)' <=> Due(k)
    BY SameTrack DEF NLines
<1>7. CASE Final
    <2>1. phase = "translating" /\ phase' = "done"
        BY <1>5, <1>7, FinalTurns DEF Final
    <2>2. ASSUME NEW k \in 1..NLines, Due(k) PROVE Settled(k)'
        <3>1. ~Ahead(k)
            <4> SUFFICES ASSUME NEW n, Before(assm.lex_, n), Track(n, k) PROVE FALSE
                BY DEF Ahead
            <4>1. PICK w : RoundOf(w, n, NWords + 1)
                BY <1>7, FinalTurns
            <4>2. src \in Rendered /\ n \in 1..(NWords + 1) /\ IsNext(n, NWords + 1) /\ NWords \in Nat
                BY <4>1, PlacesRise DEF RoundOf, Before
            <4>3. Fst[k] \in 1..NWords
                BY <2>2, <4>2, DueFirst
            <4>4. PICK j \in 1..NLines : Within(NWords + 1, j)
                BY <2>2, <4>2, <4>3, NextTracked
            <4>5. NWords + 1 \in 1..NWords
                BY <4>2, <4>4, WithinLine DEF Within
            <4> QED BY <4>2, <4>5
        <3>2. BehindUs(k)
            BY <2>1, <2>2, <3>1 DEF Arrive
        <3>3. PICK n : Before(assm.lex_, n)
            BY <1>5, <2>1
        <3>4. PICK w : RoundOf(w, n, NWords + 1) /\ Turned(w, w, After(NWords + 1)) /\ Became(w)
            BY <1>7, <3>3, FinalTurns
        <3> QED BY <2>1, <3>2, <3>4, SettledOn
    <2>3. src' = src
        BY <1>7 DEF Final, Concludes
    <2> QED BY <1>6, <2>1, <2>2, <2>3 DEF Arrive
<1>8. ASSUME NEW op, NEW mem, NEW opens, NEW anything, Goes(op, mem, opens, anything) PROVE Arrive'
    <2>1. Command(op, mem, opens, anything) /\ phase = "translating" /\ phase' = "translating" /\ phase' # "over"
        BY <1>8 DEF Goes
    <2>2. ASSUME NEW k \in 1..NLines, Due(k) PROVE Ahead(k)' \/ BehindUs(k)'
        <3>1. CASE Ahead(k)
            <4>1. PICK n : Before(assm.lex_, n) /\ Track(n, k)
                BY <3>1 DEF Ahead
            <4>2. PICK w, h, e, a : Commanded(w, h, e, n, a, op, anything)
                BY <2>1, <4>1, CommandTurns
            <4> QED BY <2>1, <2>2, <4>1, <4>2, CommandOn
        <3>2. CASE BehindUs(k)
            <4>1. PICK n : Before(assm.lex_, n)
                BY <1>5, <2>1
            <4>2. PICK w, h, e, a : Commanded(w, h, e, n, a, op, anything)
                BY <2>1, <4>1, CommandTurns
            <4>3. RoundOf(w, n, a) /\ Became(e) /\ Place' > Plc[a]
                BY <4>2 DEF Commanded
            <4>4. \E p : Turned(w, e, p)
                BY <4>2, CommandedTurned
            <4> QED BY <2>1, <2>2, <3>2, <4>3, <4>4, SettledOn
        <3> QED BY <2>1, <2>2, <3>1, <3>2 DEF Arrive
    <2>3. src' = src
        <3> DEFINE h == call_handler(get_tok(Round(Next_tok, mem, opens)), op, anything)
                   e == IF h.ok \/ h.over THEN h ELSE skip_line(h)
        <3>1. Concludes(e, "translating")
            BY <2>1 DEF Command
        <3> HIDE DEF e
        <3> QED BY <3>1 DEF Concludes
    <2> QED BY <1>6, <2>1, <2>2, <2>3 DEF Arrive
<1>9. ASSUME NEW opens, Unexpected(opens) PROVE Arrive'
    <2>1. phase = "translating" /\ phase' \in {"translating", "over"} /\ src' = src
        <3> DEFINE e == skip_line(error(get_tok(Round(Next_tok, FALSE, opens)), "unexpected"))
        <3>1. phase = "translating" /\ Concludes(e, "translating")
            BY <1>9 DEF Unexpected
        <3> HIDE DEF e
        <3> QED BY <3>1 DEF Concludes
    <2>2. ASSUME NEW k \in 1..NLines, Due(k) PROVE Ahead(k)' \/ BehindUs(k)'
        <3>1. CASE Ahead(k)
            <4>1. PICK n : Before(assm.lex_, n) /\ Track(n, k)
                BY <3>1 DEF Ahead
            <4>2. PICK w, e, a, j : Passed(w, e, n, a, j)
                BY <1>9, <4>1, UnexpectedTurns
            <4> QED BY <2>2, <4>1, <4>2, PassedOn
        <3>2. CASE BehindUs(k)
            <4>1. PICK n : Before(assm.lex_, n)
                BY <1>5, <2>1
            <4>2. PICK w, e, a, j : Passed(w, e, n, a, j)
                BY <1>9, <4>1, UnexpectedTurns
            <4> QED BY <2>1, <2>2, <3>2, <4>2, SettledOn DEF Passed
        <3> QED BY <2>1, <2>2, <3>1, <3>2 DEF Arrive
    <2> QED BY <1>6, <2>1, <2>2 DEF Arrive
<1> QED BY <1>1, <1>2, <1>3, <1>4, <1>7, <1>8, <1>9, StepKinds

LEMMA DoneSettled ==
    ASSUME IInv, Filled, Standing, Arrive, phase = "done", NEW k \in DOMAIN src.lines,
           Len(Meant(src.lines[k])) > 0, Meant(src.lines[k])[1].name \in Arithmetic,
           \A j \in 1..(k - 1) : Closed(Meant(src.lines[j]))
    PROVE  Settled(k) /\ Translated(src.begin[k]) = RABs(assm.code_.instr_, origin, src.begin[k])
<1>1. src \in Rendered
    BY DEF Standing
<1>2. k \in 1..NLines
    <2>1. src.lines \in Seq(Seq(SourceWords))
        BY <1>1, LinesHold
    <2> QED BY <2>1 DEF NLines
<1>3. Settled(k)
    BY <1>2 DEF Due, Arrive
<1>4. DOMAIN origin = 1..Len(origin)
    BY DEF Filled
<1> QED BY <1>3, <1>4 DEF Translated, RABs, Instr

LEMMA LinesFollow ==
    ASSUME IInv, Filled, Standing, Arrive
    PROVE  LinesKept /\ NothingSilent
<1>1. ASSUME phase = "done", NEW k \in DOMAIN src.lines, WellFormed(Meant(src.lines[k])),
             \A j \in 1..(k - 1) : Closed(Meant(src.lines[j]))
      PROVE  LET p == src.begin[k] IN
             \/ Cardinality(Translated(p)) = 1
             \/ Translated(p) = {} /\ Reported(p, {"too many", "no memory"})
    <2> DEFINE p == src.begin[k]
    <2>1. Len(Meant(src.lines[k])) > 0 /\ Meant(src.lines[k])[1].name \in Arithmetic
        BY <1>1 DEF WellFormed
    <2>2. Settled(k) /\ Translated(p) = RABs(assm.code_.instr_, origin, p)
        BY <1>1, <2>1, DoneSettled
    <2>3. \/ \E n : Translated(p) = {n}
          \/ Translated(p) = {} /\ \E report \in reports : report.at = p /\ report.kind \in {"too many", "no memory"}
        BY <1>1, <2>2 DEF Settled, HandledIn
    <2>4. \A n : Cardinality({n}) = 1
        BY FS_Singleton
    <2> QED BY <2>3, <2>4 DEF Reported
<1>2. phase = "done" => \A m, n \in DOMAIN origin : m < n => origin[m] <= origin[n]
    <2>1. DOMAIN origin = 1..Len(origin)
        BY DEF Filled
    <2> QED BY <2>1 DEF Standing
<1>3. ASSUME phase = "done", NEW k \in DOMAIN src.lines, Len(Meant(src.lines[k])) > 0,
             Meant(src.lines[k])[1].name \in Arithmetic, \A j \in 1..(k - 1) : Closed(Meant(src.lines[j])),
             Len(Meant(src.lines[k])) >= 4 \/ Closed(Meant(src.lines[k]))
      PROVE  LET line == Meant(src.lines[k])
                 p    == src.begin[k]
             IN \/ WellFormed(SubSeq(line, 1, 4)) /\ Translated(p) # {}
                \/ \E report \in reports : report.at = p /\ report.kind # "extra"
                \/ \E i \in DOMAIN line \cap 2..4 : WrongRegister(line[i])
    BY <1>3, DoneSettled DEF Settled, HandledIn
<1>4. LinesKept
    BY <1>1, <1>2 DEF LinesKept
<1>5. NothingSilent
    <2>1. ASSUME phase = "done", NEW k \in DOMAIN src.lines, Meant(src.lines[k]) # <<>> PROVE Len(Meant(src.lines[k])) > 0
        <3>1. src \in Rendered
            BY <2>1 DEF Standing
        <3>2. k \in 1..NLines
            <4>1. src.lines \in Seq(Seq(SourceWords))
                BY <3>1, LinesHold
            <4> QED BY <4>1 DEF NLines
        <3>3. Meant(src.lines[k]) \in Seq(SourceWords)
            BY <3>1, <3>2, LineFacts
        <3> QED BY <2>1, <3>3, EmptySeq
    <2> QED BY <1>3, <2>1 DEF NothingSilent
<1> QED BY <1>4, <1>5

LEMMA Arrives == Spec => []Filled /\ []Standing /\ []Arrive
<1>1. Init => Filled /\ Standing /\ Arrive
    BY InitFilled DEF Init, Standing, Arrive
<1>2. IInv /\ Filled /\ Standing /\ Arrive /\ [Next]_vars => Filled' /\ Standing' /\ Arrive'
    BY NextFilled, NextStanding, NextArrive
<1> QED BY <1>1, <1>2, Inductive, PTL DEF Spec

(* After lines that all keep to themselves, right or wrong, a well-formed  *)
(* line has one instruction in the end, in the place of its line among the *)
(* others, or its constants are too many: an error in such a line costs    *)
(* its own line only (lex_skip_line, asm.cpp:97 and 105).  A line with too *)
(* few words takes those of the next one, and is not one of them.          *)
THEOREM LinesAreKept == Spec => []LinesKept
<1>1. IInv /\ Filled /\ Standing /\ Arrive => LinesKept
    BY LinesFollow
<1> QED BY <1>1, Inductive, Arrives, PTL

(* After lines that all keep to themselves, an arithmetic command that has *)
(* at least three words in its line, or whose line keeps to itself, has an *)
(* instruction and is right up to its fourth word, or an error is reported *)
(* of it other than the one that is reported of every register, or one of  *)
(* the three words begins as a register does and is none, of which nothing *)
(* else is said (handle_arithmetic, asm.cpp:169; arg_to_R, asm.cpp:219).   *)
THEOREM NothingIsSilent == Spec => []NothingSilent
<1>1. IInv /\ Filled /\ Standing /\ Arrive => NothingSilent
    BY LinesFollow
<1> QED BY <1>1, Inductive, Arrives, PTL
=============================================================================
