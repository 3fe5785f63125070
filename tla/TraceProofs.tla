---------------------------- MODULE TraceProofs ----------------------------
(***************************************************************************)
(* Theorems about Trace, for all functions, names, texts, sizes of the     *)
(* buffer and bounds.                                                      *)
(***************************************************************************)
EXTENDS Trace, NumberLemmas, SequenceTheorems, TLAPS

Parts == Chars \cup Log!MSG_TYPE \cup {"quote", "location"}

LEMMA PartsAreNotNul == Nul \notin Parts /\ msg_sz \in Nat /\ msg_sz > 0
BY TraceAssumption DEF Parts

-----------------------------------------------------------------------------
(* The message buffer.                                                     *)

IsBuffer(b) ==
    /\ b = [bytes |-> b.bytes, msg_off |-> b.msg_off, overrun |-> b.overrun]
    /\ b.msg_off \in Nat /\ b.overrun \in BOOLEAN

(* How much of a message of k parts is kept.                               *)
Cut(k) == IF k < msg_sz THEN k ELSE msg_sz - 1

(* The buffer holds the message s, or as much of it as it can, and ends    *)
(* there.                                                                  *)
Holds(b, s) ==
    /\ \A i \in 0..(Cut(Len(s)) - 1) : b.bytes[i] = s[i + 1]
    /\ b.bytes[Cut(Len(s))] = Nul

LEMMA PutTwo ==
    ASSUME NEW b, b = [bytes |-> b.bytes, msg_off |-> b.msg_off, overrun |-> b.overrun]
    PROVE  \A x, y : [b EXCEPT !.bytes = x, !.overrun = y] = [bytes |-> x, msg_off |-> b.msg_off, overrun |-> y]
<1> SUFFICES ASSUME NEW x, NEW y
             PROVE  [b EXCEPT !.bytes = x, !.overrun = y] = [bytes |-> x, msg_off |-> b.msg_off, overrun |-> y]
    OBVIOUS
<1> DEFINE u == [b EXCEPT !.bytes = x]
<1>1. [b EXCEPT !.bytes = x, !.overrun = y] = [u EXCEPT !.overrun = y]
    OBVIOUS
<1>2. u = [bytes |-> x, msg_off |-> b.msg_off, overrun |-> b.overrun]
    OBVIOUS
<1> HIDE DEF u
<1>3. [u EXCEPT !.overrun = y] = [bytes |-> x, msg_off |-> b.msg_off, overrun |-> y]
    BY <1>2
<1> QED BY <1>1, <1>3

LEMMA PutOffset ==
    ASSUME NEW b, b = [bytes |-> b.bytes, msg_off |-> b.msg_off, overrun |-> b.overrun], NEW x
    PROVE  [b EXCEPT !.msg_off = x] = [bytes |-> b.bytes, msg_off |-> x, overrun |-> b.overrun]
OBVIOUS

Room(b, s) == Log!Available(b.msg_off, Len(s))

End(b, s) == b.msg_off + (IF Len(s) < Room(b, s) THEN Len(s) ELSE Room(b, s) - 1)

Written(b, s) ==
    [i \in 0..msg_sz |-> CASE i = End(b, s) -> Nul
                           [] i >= b.msg_off /\ i < End(b, s) -> s[i - b.msg_off + 1]
                           [] OTHER -> b.bytes[i]]

LEMMA SnprintfIs ==
    ASSUME NEW b, IsBuffer(b), NEW s
    PROVE  Log!snprintf(b, s) =
              IF Room(b, s) = 0 THEN b
              ELSE [bytes |-> Written(b, s), msg_off |-> b.msg_off,
                    overrun |-> b.overrun \/ End(b, s) > msg_sz]
<1> DEFINE over == b.overrun \/ End(b, s) > msg_sz
<1>1. \A x, y : [b EXCEPT !.bytes = x, !.overrun = y] = [bytes |-> x, msg_off |-> b.msg_off, overrun |-> y]
    BY PutTwo DEF IsBuffer
<1>2. [b EXCEPT !.bytes = Written(b, s), !.overrun = over] = [bytes |-> Written(b, s), msg_off |-> b.msg_off, overrun |-> over]
    BY ONLY <1>1, Zenon
<1>3. Log!snprintf(b, s) = IF Room(b, s) = 0 THEN b
        ELSE [b EXCEPT !.bytes = Written(b, s), !.overrun = over]
    BY Zenon DEF Log!snprintf, Room, End, Written
<1> QED BY ONLY <1>2, <1>3, Zenon

LEMMA SnprintfFits ==
    ASSUME NEW b, IsBuffer(b), NEW s \in Seq(Parts), NEW t \in Seq(Parts),
           b.msg_off = Len(s), Len(s) <= msg_sz, s = <<>> \/ Holds(b, s)
    PROVE  /\ IsBuffer(Log!snprintf(b, t)) /\ Holds(Log!snprintf(b, t), s \o t)
           /\ Log!snprintf(b, t).overrun = b.overrun /\ Log!snprintf(b, t).msg_off = b.msg_off
<1> DEFINE c == Log!snprintf(b, t)
           u == s \o t
<1>1. /\ u \in Seq(Parts) /\ Len(s) \in Nat /\ Len(t) \in Nat /\ Len(u) = Len(s) + Len(t)
      /\ \A k \in 1..Len(s) : u[k] = s[k]
      /\ \A k \in (Len(s) + 1)..(Len(s) + Len(t)) : u[k] = t[k - Len(s)]
    <2>1. u \in Seq(Parts) /\ Len(u) = Len(s) + Len(t)
        BY ConcatProperties
    <2>2. \A k \in 1..Len(u) : u[k] = IF k <= Len(s) THEN s[k] ELSE t[k - Len(s)]
        BY ConcatProperties
    <2>3. Len(s) \in Nat /\ Len(t) \in Nat
        BY LenProperties
    <2> HIDE DEF u
    <2> QED BY <2>1, <2>2, <2>3
<1>2. Room(b, t) = msg_sz - Len(s) /\ msg_sz \in Nat /\ msg_sz > 0
    BY PartsAreNotNul DEF Room, Log!Available
<1>3. CASE Room(b, t) = 0
    <2>1. c = b
        BY <1>3, SnprintfIs
    <2>2. Len(s) = msg_sz /\ s # <<>>
        BY <1>1, <1>2, <1>3, LenProperties
    <2>3. Holds(b, u)
        <3>1. Holds(b, s)
            BY <2>2
        <3>2. Cut(Len(s)) = msg_sz - 1 /\ Cut(Len(u)) = msg_sz - 1
            BY <1>1, <1>2, <2>2 DEF Cut
        <3> HIDE DEF u
        <3> QED BY <1>1, <1>2, <2>2, <3>1, <3>2 DEF Holds
    <2> QED BY <2>1, <2>3
<1>4. CASE Room(b, t) # 0
    <2> DEFINE e == End(b, t)
    <2>1. Log!snprintf(b, t) = [bytes |-> Written(b, t), msg_off |-> b.msg_off,
                                overrun |-> b.overrun \/ End(b, t) > msg_sz]
        BY <1>4, SnprintfIs, Zenon
    <2>2. e = Cut(Len(u)) /\ e \in Nat /\ e < msg_sz
        BY <1>1, <1>2, <1>4 DEF End, Cut
    <2>3. (b.overrun \/ End(b, t) > msg_sz) = b.overrun
        <3>1. ~(End(b, t) > msg_sz)
            BY <1>2, <2>2
        <3> QED BY <3>1 DEF IsBuffer
    <2>4. c = [bytes |-> Written(b, t), msg_off |-> b.msg_off, overrun |-> b.overrun]
        BY ONLY <2>1, <2>3
    <2>5. IsBuffer(c) /\ c.overrun = b.overrun /\ c.msg_off = b.msg_off /\ c.bytes = Written(b, t)
        <3> HIDE DEF c
        <3> QED BY <2>4 DEF IsBuffer
    <2>6. \A i \in 0..(e - 1) : Written(b, t)[i] = u[i + 1]
        <3> SUFFICES ASSUME NEW i \in 0..(e - 1) PROVE Written(b, t)[i] = u[i + 1]
            OBVIOUS
        <3>1. i \in 0..msg_sz /\ i # e /\ i < e
            BY <1>2, <2>2
        <3> HIDE DEF e, u
        <3>2. CASE i >= Len(s)
            <4>1. Written(b, t)[i] = t[i - Len(s) + 1]
                BY <1>1, <3>1, <3>2 DEF Written, e
            <4>2. i + 1 \in (Len(s) + 1)..(Len(s) + Len(t)) /\ i + 1 - Len(s) = i - Len(s) + 1
                BY <1>1, <1>2, <2>2, <3>1, <3>2 DEF e, End
            <4>3. u[i + 1] = t[i + 1 - Len(s)]
                BY <1>1, <4>2
            <4> QED BY ONLY <4>1, <4>2, <4>3
        <3>3. CASE i < Len(s)
            <4>1. Written(b, t)[i] = b.bytes[i]
                BY <1>1, <3>1, <3>3 DEF Written, e
            <4>2. s # <<>> /\ i + 1 \in 1..Len(s) /\ Cut(Len(s)) \in Nat /\ i < Cut(Len(s))
                BY <1>1, <1>2, <1>4, <3>1, <3>3, LenProperties DEF Cut
            <4>3. b.bytes[i] = s[i + 1]
                BY <3>1, <4>2 DEF Holds
            <4> QED BY <1>1, <4>1, <4>2, <4>3
        <3> QED BY <1>1, <3>1, <3>2, <3>3
    <2>7. Written(b, t)[e] = Nul
        BY <1>2, <2>2 DEF Written
    <2>8. Holds(c, u)
        <3> HIDE DEF c, u, e
        <3> QED BY <2>2, <2>5, <2>6, <2>7 DEF Holds
    <2> QED BY <2>5, <2>8
<1> QED BY <1>3, <1>4

LEMMA SnprintfOverruns ==
    ASSUME NEW b, IsBuffer(b), NEW t \in Seq(Parts), t # <<>>, b.msg_off > msg_sz
    PROVE  IsBuffer(Log!snprintf(b, t)) /\ Log!snprintf(b, t).overrun = TRUE
<1>1. Len(t) \in Nat /\ Len(t) > 0 /\ msg_sz \in Nat /\ b.msg_off \in Nat
    BY LenProperties, EmptySeq, PartsAreNotNul DEF IsBuffer
<1>2. Room(b, t) = Len(t) + 1 /\ End(b, t) = b.msg_off + Len(t)
    BY <1>1 DEF Room, End, Log!Available
<1>3. End(b, t) > msg_sz /\ Room(b, t) # 0
    BY <1>1, <1>2
<1>4. Log!snprintf(b, t) = [bytes |-> Written(b, t), msg_off |-> b.msg_off,
                            overrun |-> b.overrun \/ End(b, t) > msg_sz]
    BY <1>3, SnprintfIs, Zenon
<1>5. (b.overrun \/ End(b, t) > msg_sz) = TRUE
    BY <1>3
<1>6. Log!snprintf(b, t) = [bytes |-> Written(b, t), msg_off |-> b.msg_off, overrun |-> TRUE]
    BY ONLY <1>4, <1>5
<1> DEFINE c == Log!snprintf(b, t)
<1> HIDE DEF c
<1>7. c = [bytes |-> Written(b, t), msg_off |-> b.msg_off, overrun |-> TRUE]
    BY <1>6 DEF c
<1>8. IsBuffer(c) /\ c.overrun = TRUE
    BY <1>1, <1>7 DEF IsBuffer
<1> QED BY <1>8 DEF c

LEMMA AppendedFits ==
    ASSUME NEW b, IsBuffer(b), NEW s \in Seq(Parts), NEW t \in Seq(Parts),
           b.msg_off = Len(s), Len(s) <= msg_sz, s = <<>> \/ Holds(b, s)
    PROVE  /\ IsBuffer(Log!Appended(b, t)) /\ Holds(Log!Appended(b, t), s \o t)
           /\ Log!Appended(b, t).overrun = b.overrun /\ Log!Appended(b, t).msg_off = Len(s) + Len(t)
<1> DEFINE c == Log!snprintf(b, t)
           d == [bytes |-> c.bytes, msg_off |-> c.msg_off + Len(t), overrun |-> c.overrun]
<1>1. IsBuffer(c) /\ Holds(c, s \o t) /\ c.overrun = b.overrun /\ c.msg_off = b.msg_off
    BY SnprintfFits
<1>2. Log!Appended(b, t) = [c EXCEPT !.msg_off = c.msg_off + Len(t)]
    BY DEF Log!Appended
<1> HIDE DEF c
<1>3. [c EXCEPT !.msg_off = c.msg_off + Len(t)] = d
    BY <1>1, PutOffset DEF IsBuffer
<1>4. IsBuffer(d) /\ Holds(d, s \o t) /\ d.overrun = b.overrun /\ d.msg_off = Len(s) + Len(t)
    <2>1. Len(t) \in Nat /\ Len(s) \in Nat /\ Len(s) + Len(t) \in Nat
        BY LenProperties
    <2>2. d.bytes = c.bytes /\ d.overrun = c.overrun /\ d.msg_off = Len(s) + Len(t)
        BY <1>1
    <2>3. d = [bytes |-> d.bytes, msg_off |-> d.msg_off, overrun |-> d.overrun]
        OBVIOUS
    <2> HIDE DEF d
    <2>4. IsBuffer(d) /\ d.overrun = b.overrun
        BY <1>1, <2>1, <2>2, <2>3 DEF IsBuffer
    <2>5. Holds(d, s \o t)
        BY <1>1, <2>2, Zenon DEF Holds
    <2> QED BY <2>2, <2>4, <2>5
<1> HIDE DEF d
<1> QED BY <1>2, <1>3, <1>4

(* What a message is to be.                                                *)
LEMMA Formats ==
    ASSUME NEW b, IsBuffer(b), NEW type \in Log!MSG_TYPE, NEW body \in Seq(Chars)
    PROVE  LET c == Log!get_formated_msg(b, type, body)
               meant == <<type>> \o body
           IN  /\ IsBuffer(c) /\ Holds(c, meant) /\ c.overrun = b.overrun /\ c.msg_off = Len(meant)
               /\ meant \in Seq(Parts)
<1> DEFINE a == [b EXCEPT !.msg_off = 0]
           typed == Log!Appended(a, <<type>>)
           meant == <<type>> \o body
<1>1. ~Log!Quoted(type)
    BY DEF Log!Quoted, Log!Code, Log!MSG_TYPE
<1>2. Log!get_formated_msg(b, type, body) = Log!Appended(typed, body)
    BY <1>1 DEF Log!get_formated_msg
<1>3. <<type>> \in Seq(Parts) /\ Len(<<type>>) = 1 /\ body \in Seq(Parts) /\ <<>> \in Seq(Parts) /\ Len(<<>>) = 0
    BY SeqMonotonic, EmptySeq DEF Parts
<1>4. IsBuffer(a) /\ a.msg_off = 0 /\ a.overrun = b.overrun
    <2>1. a = [bytes |-> b.bytes, msg_off |-> 0, overrun |-> b.overrun]
        BY PutOffset DEF IsBuffer
    <2> HIDE DEF a
    <2> QED BY <2>1 DEF IsBuffer
<1>5. <<>> \o <<type>> = <<type>>
    OBVIOUS
<1>6. 0 <= msg_sz /\ 1 <= msg_sz
    BY PartsAreNotNul
<1>7. IsBuffer(typed) /\ Holds(typed, <<type>>) /\ typed.overrun = b.overrun /\ typed.msg_off = 1
    <2> HIDE DEF a
    <2>1. /\ IsBuffer(typed) /\ Holds(typed, <<>> \o <<type>>)
          /\ typed.overrun = a.overrun /\ typed.msg_off = Len(<<>>) + Len(<<type>>)
        BY <1>3, <1>4, <1>6, AppendedFits
    <2> HIDE DEF typed
    <2> QED BY <1>3, <1>4, <1>5, <2>1
<1> HIDE DEF typed
<1>8. /\ IsBuffer(Log!Appended(typed, body)) /\ Holds(Log!Appended(typed, body), meant)
      /\ Log!Appended(typed, body).overrun = typed.overrun
      /\ Log!Appended(typed, body).msg_off = Len(<<type>>) + Len(body)
    BY <1>3, <1>6, <1>7, AppendedFits
<1>9. Len(<<type>>) + Len(body) = Len(meant) /\ meant \in Seq(Parts)
    BY <1>3, ConcatProperties
<1> QED BY <1>2, <1>7, <1>8, <1>9

(* A message that the buffer holds is printed as far as it is held.        *)
LEMMA PrintedIsHeld ==
    ASSUME NEW b, NEW s \in Seq(Parts), Holds(b, s)
    PROVE  Log!Printed(b) = SubSeq(s, 1, Cut(Len(s)))
<1> DEFINE e == Cut(Len(s))
           Is(i) == i \in 0..msg_sz /\ b.bytes[i] = Nul /\ \A k \in 0..(i - 1) : b.bytes[k] # Nul
           end == CHOOSE i \in 0..msg_sz : b.bytes[i] = Nul /\ \A k \in 0..(i - 1) : b.bytes[k] # Nul
<1>1. Len(s) \in Nat /\ msg_sz \in Nat /\ msg_sz > 0 /\ e \in 0..msg_sz /\ e <= Len(s)
    BY PartsAreNotNul, LenProperties DEF Cut
<1>2. \A k \in 0..(e - 1) : b.bytes[k] = s[k + 1] /\ b.bytes[k] # Nul
    <2> SUFFICES ASSUME NEW k \in 0..(e - 1) PROVE b.bytes[k] = s[k + 1] /\ b.bytes[k] # Nul
        OBVIOUS
    <2>1. b.bytes[k] = s[k + 1]
        BY DEF Holds
    <2>2. k + 1 \in 1..Len(s)
        BY <1>1
    <2>3. s[k + 1] \in Parts
        BY <2>2, ElementOfSeq
    <2> QED BY <2>1, <2>3, PartsAreNotNul
<1>3. b.bytes[e] = Nul
    BY DEF Holds
<1> HIDE DEF e
<1>4. end \in 0..msg_sz /\ b.bytes[end] = Nul /\ \A k \in 0..(end - 1) : b.bytes[k] # Nul
    <2>1. \E i \in 0..msg_sz : b.bytes[i] = Nul /\ \A k \in 0..(i - 1) : b.bytes[k] # Nul
        BY <1>1, <1>2, <1>3
    <2> QED BY ONLY <2>1
<1>5. Log!Printed(b) = [k \in 1..end |-> b.bytes[k - 1]]
    BY DEF Log!Printed
<1> HIDE DEF end
<1>6. end = e
    <2>1. ~(end < e)
        BY <1>1, <1>2, <1>4
    <2>2. ~(e < end)
        BY <1>1, <1>3, <1>4
    <2> QED BY <1>1, <1>4, <2>1, <2>2
<1>7. [k \in 1..e |-> b.bytes[k - 1]] = [k \in 1..e |-> s[k]]
    <2>1. \A k \in 1..e : b.bytes[k - 1] = s[k]
        <3> SUFFICES ASSUME NEW k \in 1..e PROVE b.bytes[k - 1] = s[k]
            OBVIOUS
        <3>1. k - 1 \in 0..(e - 1) /\ k - 1 + 1 = k
            BY <1>1
        <3> QED BY <1>2, <3>1
    <2> QED BY <2>1
<1>8. SubSeq(s, 1, e) = [k \in 1..e |-> s[k]]
    <2>1. \A k \in 1..e : s[1 + k - 1] = s[k]
        BY <1>1
    <2> QED BY <1>1, <2>1, SubSeqProperties
<1> QED BY <1>5, <1>6, <1>7, <1>8 DEF e

-----------------------------------------------------------------------------
(* What is written and printed.                                            *)

Meant(type, body) == <<type>> \o body

(* The buffer and what was printed of it last.                             *)
MessagesRight == IsBuffer(buf) /\ (running => buf.overrun = FALSE) /\ MessageWhole

LEMMA WritesMessage ==
    ASSUME IsBuffer(buf), buf.overrun = FALSE, NEW type \in Log!MSG_TYPE, NEW body \in Seq(Chars), NEW line,
           Write(Log!logger_get_formated_msg(buf, type, body), <<type>> \o body, line)
    PROVE  IsBuffer(buf') /\ buf'.overrun = FALSE /\ MessageWhole'
<1> DEFINE c == Log!get_formated_msg(buf, type, body)
           meant == <<type>> \o body
<1>1. IsBuffer(c) /\ Holds(c, meant) /\ c.overrun = buf.overrun /\ meant \in Seq(Parts)
    BY Formats
<1>2. buf' = c /\ printed' = [meant |-> meant, is |-> IF c.overrun THEN <<>> ELSE Log!Printed(c)]
    BY DEF Write, Log!logger_get_formated_msg
<1> HIDE DEF c, meant
<1>3. Log!Printed(c) = SubSeq(meant, 1, Cut(Len(meant)))
    BY <1>1, PrintedIsHeld
<1>4. printed'.meant = meant /\ printed'.is = SubSeq(meant, 1, Cut(Len(meant))) /\ ~buf'.overrun
    BY <1>1, <1>2, <1>3
<1>5. MessageWhole'
    BY <1>4 DEF MessageWhole, Cut
<1> QED BY <1>1, <1>2, <1>5

LEMMA WritesLocalized ==
    ASSUME IsBuffer(buf), buf.overrun = FALSE, NEW type \in Log!MSG_TYPE, NEW body \in Seq(Chars), NEW line,
           Write(Log!logger_get_formated_msg_localized(buf, type, body), <<type>> \o body \o <<"location">>, line)
    PROVE  IsBuffer(buf') /\ MessageWhole'
<1> DEFINE c == Log!get_formated_msg(buf, type, body)
           first == <<type>> \o body
           loc == <<"location">>
           meant == first \o loc
           d == Log!snprintf(c, loc)
<1>1. IsBuffer(c) /\ Holds(c, first) /\ c.overrun = FALSE /\ c.msg_off = Len(first) /\ first \in Seq(Parts)
    BY Formats
<1>2. buf' = d /\ printed' = [meant |-> meant, is |-> IF d.overrun THEN <<>> ELSE Log!Printed(d)]
    BY DEF Write, Log!logger_get_formated_msg_localized
<1>3. loc \in Seq(Parts) /\ Len(loc) = 1 /\ loc # <<>> /\ loc[1] = "location"
    BY DEF Parts
<1> HIDE DEF c, first, loc
<1>4. meant \in Seq(Parts) /\ Len(meant) = Len(first) + 1 /\ meant[Len(meant)] = "location" /\ Len(first) \in Nat
    <2>1. meant \in Seq(Parts) /\ Len(meant) = Len(first) + Len(loc)
        BY <1>1, <1>3, ConcatProperties
    <2>2. \A i \in 1 .. Len(first) + Len(loc) : meant[i] = IF i <= Len(first) THEN first[i] ELSE loc[i - Len(first)]
        BY <1>1, <1>3, ConcatProperties
    <2>3. Len(first) \in Nat
        BY <1>1, LenProperties
    <2> HIDE DEF meant
    <2>4. Len(first) + 1 \in 1..(Len(first) + Len(loc)) /\ ~(Len(first) + 1 <= Len(first)) /\ Len(first) + 1 - Len(first) = 1
        BY <1>3, <2>3
    <2>5. meant[Len(first) + 1] = loc[1]
        BY <2>2, <2>4
    <2> QED BY <1>3, <2>1, <2>3, <2>5
<1>5. CASE Len(first) <= msg_sz
    <2>1. IsBuffer(d) /\ Holds(d, meant) /\ d.overrun = FALSE
        BY <1>1, <1>3, <1>5, SnprintfFits
    <2> HIDE DEF d, meant
    <2>2. Log!Printed(d) = SubSeq(meant, 1, Cut(Len(meant)))
        BY <1>4, <2>1, PrintedIsHeld
    <2>3. printed'.meant = meant /\ printed'.is = SubSeq(meant, 1, Cut(Len(meant))) /\ ~buf'.overrun
        BY <1>2, <2>1, <2>2
    <2>4. MessageWhole'
        BY <2>3 DEF MessageWhole, Cut
    <2> QED BY <1>2, <2>1, <2>4
<1>6. CASE ~(Len(first) <= msg_sz)
    <2>0. msg_sz \in Nat
        BY PartsAreNotNul
    <2>1. c.msg_off > msg_sz
        BY <1>1, <1>4, <1>6, <2>0
    <2>2. IsBuffer(d) /\ d.overrun = TRUE
        BY <1>1, <1>3, <2>1, SnprintfOverruns
    <2> HIDE DEF d, meant
    <2>3. printed'.meant = meant /\ buf'.overrun
        BY <1>2, <2>2
    <2>4. Last(meant) = "location" /\ Len(meant) > msg_sz + 1
        BY <1>4, <1>6, <2>0 DEF Last
    <2>5. MessageWhole'
        BY <2>3, <2>4 DEF MessageWhole
    <2> QED BY <1>2, <2>2, <2>5
<1> QED BY <1>5, <1>6

LEMMA TypesAre == {"CALL", "QUIT", "DUMP", "LOG", "ERROR", "FATAL"} \subseteq Log!MSG_TYPE
BY DEF Log!MSG_TYPE, Log!Code

LEMMA EntersOrExits ==
    ASSUME MessagesRight, running, NEW fn \in Fns, Enter(fn) \/ Exit(fn)
    PROVE  IsBuffer(buf') /\ buf'.overrun = FALSE /\ MessageWhole'
<1>1. IsBuffer(buf) /\ buf.overrun = FALSE /\ MessageWhole /\ Name(fn) \in Seq(Chars)
    BY TraceAssumption DEF MessagesRight
<1>2. CASE Silent
    BY <1>1, <1>2 DEF Silent, MessageWhole
<1>3. ASSUME NEW type \in Log!MSG_TYPE, NEW line,
             Write(Log!logger_get_formated_msg(buf, type, Name(fn)), <<type>> \o Name(fn), line)
      PROVE  IsBuffer(buf') /\ buf'.overrun = FALSE /\ MessageWhole'
    BY <1>1, <1>3, WritesMessage
<1>4. CASE Enter(fn) /\ ~Silent
    <2>1. Write(Log!logger_get_formated_msg(buf, "CALL", Name(fn)), <<"CALL">> \o Name(fn), Line("CALL", fn, tracer.indent))
        BY <1>4, Zenon DEF Enter
    <2> QED BY <1>3, <2>1, TypesAre
<1>5. CASE Exit(fn) /\ ~Silent
    <2>1. Write(Log!logger_get_formated_msg(buf, "QUIT", Name(fn)), <<"QUIT">> \o Name(fn), Line("QUIT", fn, tracer.indent - 1))
        BY <1>5, Zenon DEF Exit, Quit
    <2> QED BY <1>3, <2>1, TypesAre
<1> QED BY <1>2, <1>4, <1>5

LEMMA MessagesInit == Init => MessagesRight
<1> SUFFICES ASSUME Init PROVE MessagesRight
    OBVIOUS
<1>1. buf = [bytes |-> [i \in 0..msg_sz |-> Nul], msg_off |-> 0, overrun |-> FALSE]
    BY DEF Init, Log!NoMessage
<1>2. IsBuffer(buf) /\ buf.overrun = FALSE
    BY <1>1 DEF IsBuffer
<1>3. printed = [meant |-> <<>>, is |-> <<>>] /\ Len(<<>>) = 0 /\ SubSeq(<<>>, 1, 0) = <<>>
    BY DEF Init
<1>4. MessageWhole
    BY <1>2, <1>3, PartsAreNotNul DEF MessageWhole
<1> QED BY <1>2, <1>4 DEF MessagesRight

LEMMA MessagesNext ==
    ASSUME MessagesRight, frames \in Seq([fn : Fns, dumping : BOOLEAN]), [Next]_vars
    PROVE  MessagesRight'
<1>1. ASSUME NEW fn \in Fns, Call(fn) PROVE MessagesRight'
    <2>1. running /\ Enter(fn) /\ (running' = ~buf'.overrun)
        BY <1>1, Zenon DEF Call, Running
    <2> QED BY <2>1, EntersOrExits DEF MessagesRight
<1>2. CASE Return
    <2>1. running /\ Exit(Last(frames).fn) /\ frames # <<>>
        BY <1>2, Zenon DEF Return, Running
    <2>2. Last(frames).fn \in Fns
        <3>1. Len(frames) \in 1..Len(frames)
            BY <2>1, EmptySeq
        <3>2. frames[Len(frames)] \in [fn : Fns, dumping : BOOLEAN]
            BY <3>1, ElementOfSeq
        <3> QED BY <3>2 DEF Last
    <2> QED BY <2>1, <2>2, EntersOrExits DEF MessagesRight
<1>3. ASSUME NEW type \in {"LOG", "ERROR", "FATAL"}, NEW body \in Bodies, LogMsg(type, body) PROVE MessagesRight'
    <2>1. /\ running /\ (running' = (type # "FATAL" /\ ~buf'.overrun))
          /\ Write(Log!logger_get_formated_msg_localized(buf, type, body), <<type>> \o body \o <<"location">>,
                   Line("message", type, tracer.indent))
        BY <1>3, Zenon DEF LogMsg, Running
    <2>2. type \in Log!MSG_TYPE /\ body \in Seq(Chars) /\ IsBuffer(buf) /\ buf.overrun = FALSE
        BY <2>1, TypesAre, TraceAssumption DEF MessagesRight
    <2>3. IsBuffer(buf') /\ MessageWhole'
        BY <2>1, <2>2, WritesLocalized
    <2>4. running' => buf'.overrun = FALSE
        BY <2>1, <2>3 DEF IsBuffer
    <2> QED BY <2>3, <2>4 DEF MessagesRight
<1>4. ASSUME NEW title \in Bodies, StartDumping(title) PROVE MessagesRight'
    <2>1. /\ running
          /\ Write(Log!logger_get_formated_msg(buf, "DUMP", title), <<"DUMP">> \o title,
                   Line("message", "DUMP", tracer.indent))
        BY <1>4, Zenon DEF StartDumping, Running
    <2>2. "DUMP" \in Log!MSG_TYPE /\ title \in Seq(Chars) /\ IsBuffer(buf) /\ buf.overrun = FALSE
        BY <2>1, TypesAre, TraceAssumption DEF MessagesRight
    <2>3. IsBuffer(buf') /\ buf'.overrun = FALSE /\ MessageWhole'
        BY <2>1, <2>2, WritesMessage
    <2> QED BY <2>3 DEF MessagesRight
<1>5. CASE StopDumping
    BY <1>5 DEF StopDumping, MessagesRight, MessageWhole
<1>6. CASE UNCHANGED vars
    BY <1>6 DEF vars, MessagesRight, MessageWhole
<1> QED BY <1>1, <1>2, <1>3, <1>4, <1>5, <1>6 DEF Next

-----------------------------------------------------------------------------
(* Reading the trace: a line more is read after all others.                *)

Start == [open |-> <<>>, ok |-> TRUE]

Reads(g, lines, n) ==
    g = [k \in 0..n |-> IF k = 0 THEN Start ELSE ReadLine(g[k - 1], lines[k])]

LEMMA ReadsExist ==
    ASSUME NEW lines, NEW n \in Nat
    PROVE  \E g : Reads(g, lines, n)
<1> DEFINE T == {i \in Nat : ~ \E g : Reads(g, lines, i)}
<1> SUFFICES ASSUME T # {} PROVE FALSE
    OBVIOUS
<1>1. PICK i \in T : \A j \in T : i <= j
    <2>1. T \in SUBSET Nat
        OBVIOUS
    <2> HIDE DEF T
    <2> QED BY <2>1, LeastNumber
<1>2. CASE i = 0
    <2>1. Reads([k \in 0..0 |-> Start], lines, 0)
        BY DEF Reads
    <2> QED BY <1>2, <2>1
<1>3. CASE i # 0
    <2>1. i - 1 \in Nat /\ i - 1 \notin T
        BY <1>1, <1>3
    <2>2. PICK f : Reads(f, lines, i - 1)
        BY <2>1
    <2> DEFINE item(k) == IF k = i THEN ReadLine(f[i - 1], lines[i]) ELSE f[k]
               g == [k \in 0..i |-> item(k)]
    <2>3. \A k \in 0..i : k # 0 => g[k - 1] = f[k - 1]
        BY <1>1
    <2>4. \A k \in 0..(i - 1) : f[k] = IF k = 0 THEN Start ELSE ReadLine(f[k - 1], lines[k])
        BY <2>2 DEF Reads
    <2>5. ASSUME NEW k \in 0..i
          PROVE  item(k) = IF k = 0 THEN Start ELSE ReadLine(g[k - 1], lines[k])
        <3>1. CASE k = i
            BY <1>3, <2>3, <3>1
        <3>2. CASE k # i
            <4>1. k \in 0..(i - 1)
                BY <1>1, <3>2
            <4> QED BY <2>3, <2>4, <3>2, <4>1
        <3> QED BY <3>1, <3>2
    <2> HIDE DEF item
    <2>6. g = [k \in 0..i |-> IF k = 0 THEN Start ELSE ReadLine(g[k - 1], lines[k])]
        BY <2>5
    <2>7. Reads(g, lines, i)
        BY <2>6 DEF Reads
    <2> QED BY <1>1, <2>7
<1> QED BY <1>2, <1>3

(* What is read of the first lines depends on them only.                   *)
LEMMA ReadsAgree ==
    ASSUME NEW x, NEW y, NEW n \in Nat, NEW m \in Nat, n <= m,
           NEW g, NEW h, Reads(g, x, n), Reads(h, y, m), \A k \in 1..n : x[k] = y[k]
    PROVE  \A i \in 0..n : g[i] = h[i]
<1> DEFINE T == {i \in 0..n : g[i] # h[i]}
<1> SUFFICES ASSUME T # {} PROVE FALSE
    OBVIOUS
<1>1. PICK i \in T : \A j \in T : i <= j
    <2>1. T \in SUBSET Nat
        OBVIOUS
    <2> HIDE DEF T
    <2> QED BY <2>1, LeastNumber
<1>2. i \in 0..n /\ i \in 0..m
    BY <1>1
<1>3. g[i] = IF i = 0 THEN Start ELSE ReadLine(g[i - 1], x[i])
    BY <1>2 DEF Reads
<1>4. h[i] = IF i = 0 THEN Start ELSE ReadLine(h[i - 1], y[i])
    BY <1>2 DEF Reads
<1>5. i # 0 => i \in 1..n /\ i - 1 \in 0..n /\ i - 1 < i
    BY <1>2
<1>6. i # 0 => g[i - 1] = h[i - 1] /\ x[i] = y[i]
    BY <1>1, <1>5
<1> QED BY <1>1, <1>3, <1>4, <1>6

LEMMA ReadingIs ==
    ASSUME NEW lines, Len(lines) \in Nat
    PROVE  \E g : Reads(g, lines, Len(lines)) /\ Reading(lines) = g[Len(lines)]
<1> DEFINE g == CHOOSE f : Reads(f, lines, Len(lines))
<1>1. Reads(g, lines, Len(lines))
    BY ReadsExist
<1>2. Reading(lines) = g[Len(lines)]
    BY DEF Reading, Reads, Start
<1> HIDE DEF g
<1> QED BY <1>1, <1>2

LEMMA ReadingNothing == Reading(<<>>) = Start
<1>1. Len(<<>>) = 0
    OBVIOUS
<1>2. PICK g : Reads(g, <<>>, 0) /\ Reading(<<>>) = g[0]
    BY <1>1, ReadingIs
<1> QED BY <1>2 DEF Reads

LEMMA ReadingOneMore ==
    ASSUME NEW S, NEW lines \in Seq(S), NEW line \in S
    PROVE  Reading(Append(lines, line)) = ReadLine(Reading(lines), line)
<1> DEFINE more == Append(lines, line)
           n == Len(lines)
<1>1. n \in Nat /\ Len(more) = n + 1 /\ more[n + 1] = line /\ \A k \in 1..n : lines[k] = more[k]
    BY LenProperties, AppendProperties
<1> HIDE DEF more
<1>2. PICK g : Reads(g, lines, n) /\ Reading(lines) = g[n]
    BY <1>1, ReadingIs
<1>3. PICK h : Reads(h, more, n + 1) /\ Reading(more) = h[n + 1]
    BY <1>1, ReadingIs
<1> HIDE DEF n
<1>4. g[n] = h[n]
    <2>1. \A i \in 0..n : g[i] = h[i]
        <3>1. n + 1 \in Nat /\ n <= n + 1
            BY <1>1
        <3> QED BY <1>1, <1>2, <1>3, <3>1, ReadsAgree
    <2> QED BY <1>1, <2>1
<1>5. h[n + 1] = ReadLine(h[n], more[n + 1])
    <2>1. PICK m : m = n + 1 /\ m \in 0..(n + 1) /\ m # 0 /\ m - 1 = n
        BY <1>1
    <2>2. h[m] = IF m = 0 THEN Start ELSE ReadLine(h[m - 1], more[m])
        BY <1>3, <2>1 DEF Reads
    <2> QED BY <2>1, <2>2
<1> QED BY <1>1, <1>2, <1>3, <1>4, <1>5 DEF more

-----------------------------------------------------------------------------
(* The instrumented functions of a sequence of frames.                     *)

Keep(seq, f) == IF f.fn \in Plain THEN seq ELSE Append(seq, f.fn)

Traces(g, fs, n) ==
    g = [k \in 0..n |-> IF k = 0 THEN <<>> ELSE Keep(g[k - 1], fs[k])]

LEMMA TracesExist ==
    ASSUME NEW fs, NEW n \in Nat
    PROVE  \E g : Traces(g, fs, n)
<1> DEFINE T == {i \in Nat : ~ \E g : Traces(g, fs, i)}
<1> SUFFICES ASSUME T # {} PROVE FALSE
    OBVIOUS
<1>1. PICK i \in T : \A j \in T : i <= j
    <2>1. T \in SUBSET Nat
        OBVIOUS
    <2> HIDE DEF T
    <2> QED BY <2>1, LeastNumber
<1>2. CASE i = 0
    <2>1. Traces([k \in 0..0 |-> <<>>], fs, 0)
        BY DEF Traces
    <2> QED BY <1>2, <2>1
<1>3. CASE i # 0
    <2>1. i - 1 \in Nat /\ i - 1 \notin T
        BY <1>1, <1>3
    <2>2. PICK f : Traces(f, fs, i - 1)
        BY <2>1
    <2> DEFINE item(k) == IF k = i THEN Keep(f[i - 1], fs[i]) ELSE f[k]
               g == [k \in 0..i |-> item(k)]
    <2>3. \A k \in 0..i : k # 0 => g[k - 1] = f[k - 1]
        BY <1>1
    <2>4. \A k \in 0..(i - 1) : f[k] = IF k = 0 THEN <<>> ELSE Keep(f[k - 1], fs[k])
        BY <2>2 DEF Traces
    <2>5. ASSUME NEW k \in 0..i
          PROVE  item(k) = IF k = 0 THEN <<>> ELSE Keep(g[k - 1], fs[k])
        <3>1. CASE k = i
            BY <1>3, <2>3, <3>1
        <3>2. CASE k # i
            <4>1. k \in 0..(i - 1)
                BY <1>1, <3>2
            <4> QED BY <2>3, <2>4, <3>2, <4>1
        <3> QED BY <3>1, <3>2
    <2> HIDE DEF item
    <2>6. g = [k \in 0..i |-> IF k = 0 THEN <<>> ELSE Keep(g[k - 1], fs[k])]
        BY <2>5
    <2>7. Traces(g, fs, i)
        BY <2>6 DEF Traces
    <2> QED BY <1>1, <2>7
<1> QED BY <1>2, <1>3

(* The first n frames are of the same functions.                           *)
SameFns(x, y, n) == \A k \in 1..n : x[k].fn = y[k].fn

(* What is kept of the first frames depends on their functions only.       *)
LEMMA TracesAgree ==
    ASSUME NEW x, NEW y, NEW n \in Nat, NEW m \in Nat, n <= m,
           NEW g, NEW h, Traces(g, x, n), Traces(h, y, m), SameFns(x, y, n)
    PROVE  \A i \in 0..n : g[i] = h[i]
<1> DEFINE T == {i \in 0..n : g[i] # h[i]}
<1> SUFFICES ASSUME T # {} PROVE FALSE
    OBVIOUS
<1>1. PICK i \in T : \A j \in T : i <= j
    <2>1. T \in SUBSET Nat
        OBVIOUS
    <2> HIDE DEF T
    <2> QED BY <2>1, LeastNumber
<1>2. i \in 0..n /\ i \in 0..m
    BY <1>1
<1>3. g[i] = IF i = 0 THEN <<>> ELSE Keep(g[i - 1], x[i])
    BY <1>2 DEF Traces
<1>4. h[i] = IF i = 0 THEN <<>> ELSE Keep(h[i - 1], y[i])
    BY <1>2 DEF Traces
<1>5. i # 0 => i \in 1..n /\ i - 1 \in 0..n /\ i - 1 < i
    BY <1>2
<1>6. i # 0 => g[i - 1] = h[i - 1] /\ x[i].fn = y[i].fn
    BY <1>1, <1>5 DEF SameFns
<1> QED BY <1>1, <1>3, <1>4, <1>6 DEF Keep

LEMMA TracedIs ==
    ASSUME NEW fs, Len(fs) \in Nat
    PROVE  \E g : Traces(g, fs, Len(fs)) /\ Traced(fs) = g[Len(fs)]
<1> DEFINE g == CHOOSE f : Traces(f, fs, Len(fs))
<1>1. Traces(g, fs, Len(fs))
    BY TracesExist
<1>2. Traced(fs) = g[Len(fs)]
    BY DEF Traced, Traces, Keep
<1> HIDE DEF g
<1> QED BY <1>1, <1>2

LEMMA TracedNothing == Traced(<<>>) = <<>>
<1>1. Len(<<>>) = 0
    OBVIOUS
<1>2. PICK g : Traces(g, <<>>, 0) /\ Traced(<<>>) = g[0]
    BY <1>1, TracedIs
<1> QED BY <1>2 DEF Traces

LEMMA TracedOneMore ==
    ASSUME NEW S, NEW fs \in Seq(S), NEW f \in S
    PROVE  Traced(Append(fs, f)) = IF f.fn \in Plain THEN Traced(fs) ELSE Append(Traced(fs), f.fn)
<1> DEFINE more == Append(fs, f)
           n == Len(fs)
<1>1. n \in Nat /\ Len(more) = n + 1 /\ more[n + 1] = f /\ \A k \in 1..n : fs[k] = more[k]
    BY LenProperties, AppendProperties
<1> HIDE DEF more
<1>2. PICK g : Traces(g, fs, n) /\ Traced(fs) = g[n]
    BY <1>1, TracedIs
<1>3. PICK h : Traces(h, more, n + 1) /\ Traced(more) = h[n + 1]
    BY <1>1, TracedIs
<1> HIDE DEF n
<1>4. g[n] = h[n]
    <2>1. \A i \in 0..n : g[i] = h[i]
        <3>1. n + 1 \in Nat /\ n <= n + 1
            BY <1>1
        <3>2. SameFns(fs, more, n)
            BY <1>1 DEF SameFns
        <3> QED BY <1>1, <1>2, <1>3, <3>1, <3>2, TracesAgree
    <2> QED BY <1>1, <2>1
<1>5. h[n + 1] = Keep(h[n], more[n + 1])
    <2>1. PICK m : m = n + 1 /\ m \in 0..(n + 1) /\ m # 0 /\ m - 1 = n
        BY <1>1
    <2>2. h[m] = IF m = 0 THEN <<>> ELSE Keep(h[m - 1], more[m])
        BY <1>3, <2>1 DEF Traces
    <2> QED BY <2>1, <2>2
<1> QED BY <1>1, <1>2, <1>3, <1>4, <1>5 DEF more, Keep

LEMMA TracedSame ==
    ASSUME NEW x, NEW y, Len(x) \in Nat, Len(y) = Len(x), SameFns(x, y, Len(x))
    PROVE  Traced(x) = Traced(y)
<1>1. PICK g : Traces(g, x, Len(x)) /\ Traced(x) = g[Len(x)]
    BY TracedIs
<1>2. PICK h : Traces(h, y, Len(x)) /\ Traced(y) = h[Len(x)]
    BY TracedIs
<1>3. \A i \in 0..Len(x) : g[i] = h[i]
    <2>1. Len(x) <= Len(x)
        OBVIOUS
    <2> QED BY <1>1, <1>2, <2>1, TracesAgree
<1> QED BY <1>1, <1>2, <1>3

LEMMA TracedTyped ==
    ASSUME NEW fs \in Seq([fn : Fns, dumping : BOOLEAN])
    PROVE  Traced(fs) \in Seq(Fns)
<1> DEFINE n == Len(fs)
<1>1. n \in Nat
    BY LenProperties
<1>2. PICK g : Traces(g, fs, n) /\ Traced(fs) = g[n]
    BY <1>1, TracedIs
<1>3. \A k \in 1..n : fs[k].fn \in Fns
    <2> SUFFICES ASSUME NEW k \in 1..n PROVE fs[k].fn \in Fns
        OBVIOUS
    <2>1. fs[k] \in [fn : Fns, dumping : BOOLEAN]
        BY ElementOfSeq
    <2> QED BY <2>1
<1> DEFINE T == {i \in 0..n : g[i] \notin Seq(Fns)}
<1> HIDE DEF n
<1>4. T = {}
    <2> SUFFICES ASSUME T # {} PROVE FALSE
        OBVIOUS
    <2>1. PICK i \in T : \A j \in T : i <= j
        <3>1. T \in SUBSET Nat
            OBVIOUS
        <3> HIDE DEF T
        <3> QED BY <3>1, LeastNumber
    <2>2. i \in 0..n /\ g[i] \notin Seq(Fns)
        BY <2>1
    <2>3. g[i] = IF i = 0 THEN <<>> ELSE Keep(g[i - 1], fs[i])
        BY <1>2, <2>2 DEF Traces
    <2>4. i # 0
        BY <2>2, <2>3, EmptySeq
    <2>5. i \in 1..n /\ i - 1 \in 0..n /\ i - 1 < i
        BY <1>1, <2>2, <2>4
    <2>6. g[i - 1] \in Seq(Fns)
        BY <2>1, <2>5
    <2> QED BY <1>3, <2>2, <2>3, <2>4, <2>5, <2>6, AppendProperties DEF Keep
<1> QED BY <1>1, <1>2, <1>4

-----------------------------------------------------------------------------
(* The functions that the trace shows as open.                             *)

Frame == [fn : Fns, dumping : BOOLEAN]

(* At most one function dumps.                                             *)
OneDump(fs) == \A j, k \in DOMAIN fs : fs[j].dumping /\ fs[k].dumping => j = k

DumpingIn(fs) == \E k \in DOMAIN fs : fs[k].dumping

ShownOf(fs) ==
    LET last == IF DumpingIn(fs) THEN CHOOSE k \in DOMAIN fs : fs[k].dumping ELSE Len(fs)
    IN  Traced(SubSeq(fs, 1, last))

LEMMA ShownIs == Dumping = DumpingIn(frames) /\ Shown = ShownOf(frames)
BY DEF Dumping, DumpingIn, Shown, ShownOf

LEMMA ShownIdle ==
    ASSUME NEW fs \in Seq(Frame), ~DumpingIn(fs)
    PROVE  ShownOf(fs) = Traced(fs)
BY SubSeqFull DEF ShownOf

LEMMA ShownInDump ==
    ASSUME NEW fs \in Seq(Frame), OneDump(fs), NEW d \in 1..Len(fs), fs[d].dumping
    PROVE  DumpingIn(fs) /\ ShownOf(fs) = Traced(SubSeq(fs, 1, d))
<1>1. DOMAIN fs = 1..Len(fs)
    BY LenProperties
<1>2. DumpingIn(fs)
    BY <1>1 DEF DumpingIn
<1>3. (CHOOSE k \in DOMAIN fs : fs[k].dumping) = d
    BY <1>1 DEF OneDump
<1> QED BY <1>2, <1>3 DEF ShownOf

LEMMA ShownTyped ==
    ASSUME NEW fs \in Seq(Frame), OneDump(fs)
    PROVE  ShownOf(fs) \in Seq(Fns)
<1>1. CASE DumpingIn(fs)
    <2>1. PICK d \in 1..Len(fs) : fs[d].dumping
        BY <1>1, LenProperties DEF DumpingIn
    <2>2. \A i \in 1..d : fs[i] \in Frame
        <3>1. Len(fs) \in Nat
            BY LenProperties
        <3>2. \A i \in 1..d : i \in 1..Len(fs)
            BY <3>1
        <3> QED BY <3>2, ElementOfSeq
    <2>3. SubSeq(fs, 1, d) \in Seq(Frame)
        BY <2>2, SubSeqProperties
    <2> QED BY <2>1, <2>3, ShownInDump, TracedTyped DEF Frame
<1>2. CASE ~DumpingIn(fs)
    BY <1>2, ShownIdle, TracedTyped DEF Frame
<1> QED BY <1>1, <1>2

(* Another frame: it shows if nobody dumps and it is instrumented.         *)
LEMMA ShownCalled ==
    ASSUME NEW fs \in Seq(Frame), OneDump(fs), NEW f \in Frame, ~f.dumping
    PROVE  /\ Append(fs, f) \in Seq(Frame) /\ OneDump(Append(fs, f))
           /\ DumpingIn(Append(fs, f)) <=> DumpingIn(fs)
           /\ ShownOf(Append(fs, f)) =
                  IF DumpingIn(fs) \/ f.fn \in Plain THEN ShownOf(fs) ELSE Append(ShownOf(fs), f.fn)
<1> DEFINE gs == Append(fs, f)
           n == Len(fs)
<1>1. /\ gs \in Seq(Frame) /\ n \in Nat /\ Len(gs) = n + 1 /\ gs[n + 1] = f
      /\ \A k \in 1..n : gs[k] = fs[k]
    BY LenProperties, AppendProperties
<1>2. Traced(gs) = IF f.fn \in Plain THEN Traced(fs) ELSE Append(Traced(fs), f.fn)
    BY TracedOneMore
<1>3. DOMAIN fs = 1..n /\ DOMAIN gs = 1..(n + 1)
    BY <1>1, LenProperties
<1> HIDE DEF gs, n
<1>4. \A k \in 1..(n + 1) : gs[k].dumping => k \in 1..n /\ fs[k].dumping
    BY <1>1
<1>5. OneDump(gs)
    BY <1>3, <1>4 DEF OneDump
<1>6. DumpingIn(gs) <=> DumpingIn(fs)
    BY <1>1, <1>3, <1>4 DEF DumpingIn
<1>7. CASE DumpingIn(fs)
    <2>1. PICK d \in 1..n : fs[d].dumping
        BY <1>3, <1>7 DEF DumpingIn
    <2>2. d \in 1..Len(gs) /\ d \in 1..Len(fs) /\ gs[d].dumping
        BY <1>1, <2>1 DEF n
    <2>3. ShownOf(fs) = Traced(SubSeq(fs, 1, d)) /\ ShownOf(gs) = Traced(SubSeq(gs, 1, d))
        BY <1>1, <1>5, <2>1, <2>2, ShownInDump
    <2>4. SubSeq(gs, 1, d) = SubSeq(fs, 1, d)
        <3>1. \A i \in 1..d : fs[i] \in Frame /\ gs[i] \in Frame /\ gs[i] = fs[i]
            <4>1. \A i \in 1..d : i \in 1..n /\ i \in 1..Len(fs)
                BY <1>1, <2>1 DEF n
            <4> QED BY <1>1, <4>1, ElementOfSeq
        <3>2. /\ SubSeq(fs, 1, d) \in Seq(Frame) /\ Len(SubSeq(fs, 1, d)) = d
              /\ \A i \in 1..d : SubSeq(fs, 1, d)[i] = fs[i]
            <4>1. /\ SubSeq(fs, 1, d) \in Seq(Frame) /\ Len(SubSeq(fs, 1, d)) = (IF 1 <= d THEN d - 1 + 1 ELSE 0)
                  /\ \A i \in 1..(d - 1 + 1) : SubSeq(fs, 1, d)[i] = fs[1 + i - 1]
                BY <3>1, SubSeqProperties
            <4> QED BY <1>1, <2>1, <4>1
        <3>3. /\ SubSeq(gs, 1, d) \in Seq(Frame) /\ Len(SubSeq(gs, 1, d)) = d
              /\ \A i \in 1..d : SubSeq(gs, 1, d)[i] = gs[i]
            <4>1. /\ SubSeq(gs, 1, d) \in Seq(Frame) /\ Len(SubSeq(gs, 1, d)) = (IF 1 <= d THEN d - 1 + 1 ELSE 0)
                  /\ \A i \in 1..(d - 1 + 1) : SubSeq(gs, 1, d)[i] = gs[1 + i - 1]
                BY <3>1, SubSeqProperties
            <4> QED BY <1>1, <2>1, <4>1
        <3> QED BY <3>1, <3>2, <3>3, SeqEqual
    <2> QED BY <1>1, <1>5, <1>6, <1>7, <2>3, <2>4 DEF gs
<1>8. CASE ~DumpingIn(fs)
    <2>1. ShownOf(fs) = Traced(fs) /\ ShownOf(gs) = Traced(gs)
        BY <1>1, <1>6, <1>8, ShownIdle
    <2> QED BY <1>1, <1>2, <1>5, <1>6, <1>8, <2>1 DEF gs
<1> QED BY <1>7, <1>8

(* The function called last is its dumping state changed.                  *)
Marked(fs, v) == [fs EXCEPT ![Len(fs)].dumping = v]

LEMMA MarkedIs ==
    ASSUME NEW fs \in Seq(Frame), fs # <<>>, NEW v \in BOOLEAN
    PROVE  /\ Marked(fs, v) \in Seq(Frame) /\ Len(Marked(fs, v)) = Len(fs) /\ Len(fs) \in Nat \ {0}
           /\ Marked(fs, v)[Len(fs)].dumping = v
           /\ \A k \in 1..Len(fs) : Marked(fs, v)[k].fn = fs[k].fn
           /\ \A k \in 1..(Len(fs) - 1) : Marked(fs, v)[k].dumping = fs[k].dumping
<1> DEFINE n == Len(fs)
           f == [fs[n] EXCEPT !.dumping = v]
           gs == [fs EXCEPT ![n] = f]
<1>1. n \in Nat \ {0} /\ n \in 1..Len(fs)
    BY EmptySeq
<1>2. fs[n] \in Frame
    BY <1>1, ElementOfSeq
<1>3. f \in Frame /\ f.dumping = v /\ f.fn = fs[n].fn
    BY <1>2 DEF Frame
<1>4. Marked(fs, v) = gs
    BY DEF Marked
<1> HIDE DEF f
<1>5. gs \in Seq(Frame) /\ Len(gs) = n /\ \A j \in 1..n : gs[j] = IF j = n THEN f ELSE fs[j]
    BY <1>1, <1>3, ExceptSeq
<1> HIDE DEF gs
<1> QED BY <1>1, <1>3, <1>4, <1>5

-----------------------------------------------------------------------------
(* The call tree.                                                          *)

ReadAs(open) == [open |-> open, ok |-> TRUE]

LEMMA ReadsCall ==
    ASSUME NEW open, NEW fn
    PROVE  ReadLine(ReadAs(open), Line("CALL", fn, Len(open))) = ReadAs(Append(open, fn))
<1> DEFINE acc == ReadAs(open)
           line == Line("CALL", fn, Len(open))
<1>1. line.kind = "CALL" /\ line.fn = fn /\ line.indent = Len(open)
    BY DEF Line
<1>2. acc.open = open /\ acc.ok = TRUE
    BY DEF ReadAs
<1> HIDE DEF acc, line
<1>3. (acc.ok /\ line.indent = Len(acc.open)) = TRUE
    BY <1>1, <1>2
<1>4. ReadLine(acc, line) = [open |-> Append(acc.open, line.fn), ok |-> acc.ok /\ line.indent = Len(acc.open)]
    BY <1>1 DEF ReadLine
<1>5. ReadLine(acc, line) = [open |-> Append(acc.open, line.fn), ok |-> TRUE]
    BY ONLY <1>3, <1>4
<1> QED BY <1>1, <1>2, <1>5 DEF ReadAs, acc, line

LEMMA ReadsQuit ==
    ASSUME NEW open \in Seq(Fns), NEW fn \in Fns
    PROVE  ReadLine(ReadAs(Append(open, fn)), Line("QUIT", fn, Len(open))) = ReadAs(open)
<1> DEFINE more == Append(open, fn)
           acc == ReadAs(more)
           line == Line("QUIT", fn, Len(open))
           n == Len(open)
<1>1. line.kind = "QUIT" /\ line.fn = fn /\ line.indent = n
    BY DEF Line
<1>2. acc.open = more /\ acc.ok = TRUE
    BY DEF ReadAs
<1>3. /\ more \in Seq(Fns) /\ more # <<>> /\ n \in Nat /\ Len(more) = n + 1 /\ more[n + 1] = fn
      /\ \A k \in 1..n : more[k] = open[k]
    BY AppendProperties, LenProperties
<1> HIDE DEF acc, line, more
<1>4. Front(more) = open
    <2>1. Front(more) = SubSeq(more, 1, n)
        BY <1>3 DEF Front
    <2>2. \A i \in 1..n : more[i] \in Fns
        BY <1>3, ElementOfSeq
    <2>3. /\ SubSeq(more, 1, n) \in Seq(Fns) /\ Len(SubSeq(more, 1, n)) = (IF 1 <= n THEN n - 1 + 1 ELSE 0)
          /\ \A i \in 1..(n - 1 + 1) : SubSeq(more, 1, n)[i] = more[1 + i - 1]
        BY <1>3, <2>2, SubSeqProperties
    <2>4. Len(SubSeq(more, 1, n)) = n /\ \A i \in 1..n : SubSeq(more, 1, n)[i] = open[i]
        BY <1>3, <2>3
    <2> QED BY <2>1, <2>3, <2>4, SeqEqual
<1>5. Last(more) = fn
    BY <1>3 DEF Last
<1>6. (acc.ok /\ acc.open # <<>> /\ Last(acc.open) = line.fn /\ line.indent = Len(acc.open) - 1) = TRUE
    BY <1>1, <1>2, <1>3, <1>5
<1>7. ReadLine(acc, line) =
        [open |-> IF acc.open = <<>> THEN <<>> ELSE Front(acc.open),
         ok   |-> acc.ok /\ acc.open # <<>> /\ Last(acc.open) = line.fn /\ line.indent = Len(acc.open) - 1]
    BY <1>1 DEF ReadLine
<1>8. ReadLine(acc, line) = [open |-> IF acc.open = <<>> THEN <<>> ELSE Front(acc.open), ok |-> TRUE]
    BY ONLY <1>6, <1>7
<1>9. ReadLine(acc, line) = [open |-> open, ok |-> TRUE]
    BY <1>2, <1>3, <1>4, <1>8
<1> QED BY <1>9 DEF ReadAs, acc, line, more

LEMMA ReadsMessage ==
    ASSUME NEW open, NEW type
    PROVE  ReadLine(ReadAs(open), Line("message", type, Len(open))) = ReadAs(open)
<1> DEFINE acc == ReadAs(open)
           line == Line("message", type, Len(open))
<1>1. line.kind = "message" /\ line.indent = Len(open)
    BY DEF Line
<1>2. acc.open = open /\ acc.ok = TRUE
    BY DEF ReadAs
<1>3. \A v : [acc EXCEPT !.ok = v] = [open |-> open, ok |-> v]
    BY DEF ReadAs
<1> HIDE DEF acc, line
<1>4. (acc.ok /\ line.indent = Len(acc.open)) = TRUE
    BY <1>1, <1>2
<1>5. ReadLine(acc, line) = [acc EXCEPT !.ok = acc.ok /\ line.indent = Len(acc.open)]
    BY <1>1, Zenon DEF ReadLine
<1>6. ReadLine(acc, line) = [acc EXCEPT !.ok = TRUE]
    BY ONLY <1>4, <1>5
<1>7. [acc EXCEPT !.ok = TRUE] = [open |-> open, ok |-> TRUE]
    BY ONLY <1>3, Zenon
<1> QED BY <1>6, <1>7 DEF ReadAs, acc, line

FileLine == [kind : {"CALL", "QUIT", "message"}, fn : Fns \cup Log!MSG_TYPE, indent : Int]

(* Everything that the hooks keep agrees with the calls of the program.    *)
TraceRight ==
    /\ frames \in Seq(Frame) /\ OneDump(frames)
    /\ tracer \in [indent : Int, do_trace : BOOLEAN]
    /\ tracer.do_trace <=> ~DumpingIn(frames)
    /\ tracer.indent = Len(ShownOf(frames))
    /\ file \in Seq(FileLine)
    /\ Reading(file) = ReadAs(ShownOf(frames))

IInv == TraceRight /\ MessagesRight

LEMMA TraceInit == Init => TraceRight
<1> SUFFICES ASSUME Init PROVE TraceRight
    OBVIOUS
<1>1. frames = <<>> /\ file = <<>> /\ tracer = [indent |-> 0, do_trace |-> TRUE]
    BY DEF Init
<1>2. frames \in Seq(Frame) /\ file \in Seq(FileLine) /\ Len(<<>>) = 0 /\ DOMAIN <<>> = {}
    BY <1>1, EmptySeq
<1>3. OneDump(frames) /\ ~DumpingIn(frames)
    BY <1>1, <1>2 DEF OneDump, DumpingIn
<1>4. ShownOf(frames) = <<>>
    BY <1>1, <1>2, <1>3, ShownIdle, TracedNothing
<1>5. tracer \in [indent : Int, do_trace : BOOLEAN] /\ tracer.do_trace /\ tracer.indent = 0
    BY <1>1
<1> QED BY <1>1, <1>2, <1>3, <1>4, <1>5, ReadingNothing DEF TraceRight, Start, ReadAs

(* Writing a line extends what is read.                                    *)
LEMMA LineWritten ==
    ASSUME file \in Seq(FileLine), NEW line \in FileLine, NEW b, NEW meant, Write(b, meant, line)
    PROVE  file' \in Seq(FileLine) /\ Reading(file') = ReadLine(Reading(file), line)
<1>1. file' = Append(file, line)
    BY DEF Write
<1> QED BY <1>1, AppendProperties, ReadingOneMore

LEMMA CallTraced ==
    ASSUME TraceRight, NEW fn \in Fns, Call(fn)
    PROVE  TraceRight'
<1> DEFINE f == [fn |-> fn, dumping |-> FALSE]
           open == ShownOf(frames)
<1>1. frames' = Append(frames, f) /\ Enter(fn)
    BY Zenon DEF Call
<1>2. f \in Frame /\ ~f.dumping /\ f.fn = fn
    BY DEF Frame
<1>3. /\ frames' \in Seq(Frame) /\ OneDump(frames') /\ (DumpingIn(frames') <=> DumpingIn(frames))
      /\ ShownOf(frames') = IF DumpingIn(frames) \/ fn \in Plain THEN open ELSE Append(open, fn)
    <2> HIDE DEF f
    <2> QED BY <1>1, <1>2, ShownCalled DEF TraceRight
<1>4. open \in Seq(Fns)
    BY ShownTyped DEF TraceRight
<1> HIDE DEF f, open
<1>5. CASE DumpingIn(frames) \/ fn \in Plain
    <2>1. tracer' = tracer /\ file' = file
        BY <1>1, <1>5, Zenon DEF Enter, TraceRight, Silent
    <2> QED BY <1>3, <1>5, <2>1 DEF TraceRight, open
<1>6. CASE ~(DumpingIn(frames) \/ fn \in Plain)
    <2>1. /\ Write(Log!logger_get_formated_msg(buf, "CALL", Name(fn)), <<"CALL">> \o Name(fn),
                   Line("CALL", fn, tracer.indent))
          /\ tracer' = [tracer EXCEPT !.indent = @ + 1]
        BY <1>1, <1>6, Zenon DEF Enter, TraceRight
    <2>2. tracer.indent = Len(open) /\ Len(open) \in Nat /\ tracer.do_trace = TRUE
        BY <1>4, <1>6, LenProperties DEF TraceRight, open
    <2>3. Line("CALL", fn, tracer.indent) \in FileLine
        BY <2>2 DEF Line, FileLine
    <2>4. file' \in Seq(FileLine) /\ Reading(file') = ReadLine(ReadAs(open), Line("CALL", fn, Len(open)))
        BY <2>1, <2>2, <2>3, LineWritten DEF TraceRight, open
    <2>5. Reading(file') = ReadAs(Append(open, fn))
        BY <2>4, ReadsCall
    <2>6. tracer' \in [indent : Int, do_trace : BOOLEAN] /\ tracer'.do_trace = TRUE /\ tracer'.indent = Len(open) + 1
        BY <2>1, <2>2 DEF TraceRight
    <2>7. Len(Append(open, fn)) = Len(open) + 1
        BY <1>4, AppendProperties
    <2> QED BY <1>3, <1>6, <2>4, <2>5, <2>6, <2>7 DEF TraceRight
<1> QED BY <1>5, <1>6

(* The frames but the last, and the last.                                  *)
LEMMA FrontAndLast ==
    ASSUME NEW fs \in Seq(Frame), fs # <<>>
    PROVE  /\ Front(fs) \in Seq(Frame) /\ Last(fs) \in Frame /\ fs = Append(Front(fs), Last(fs))
           /\ Len(fs) \in Nat \ {0} /\ Len(Front(fs)) = Len(fs) - 1
           /\ \A k \in 1..(Len(fs) - 1) : Front(fs)[k] = fs[k]
<1> DEFINE n == Len(fs)
           gs == SubSeq(fs, 1, n - 1)
<1>1. n \in Nat \ {0} /\ n \in 1..Len(fs) /\ \A i \in 1..(n - 1) : i \in 1..Len(fs)
    BY EmptySeq
<1>2. fs[n] \in Frame /\ \A i \in 1..(n - 1) : fs[i] \in Frame
    BY <1>1, ElementOfSeq
<1>3. /\ gs \in Seq(Frame) /\ Len(gs) = (IF 1 <= n - 1 THEN n - 1 - 1 + 1 ELSE 0)
      /\ \A i \in 1..(n - 1 - 1 + 1) : gs[i] = fs[1 + i - 1]
    BY <1>1, <1>2, SubSeqProperties
<1>4. gs \in Seq(Frame) /\ Len(gs) = n - 1 /\ \A i \in 1..(n - 1) : gs[i] = fs[i]
    <2> HIDE DEF gs, n
    <2>1. Len(gs) = n - 1
        BY <1>1, <1>3
    <2>2. ASSUME NEW i \in 1..(n - 1) PROVE gs[i] = fs[i]
        <3>1. i \in 1..(n - 1 - 1 + 1) /\ 1 + i - 1 = i
            BY <1>1
        <3>2. gs[i] = fs[1 + i - 1]
            BY <1>3, <3>1
        <3> QED BY <3>1, <3>2
    <2> QED BY <1>3, <2>1, <2>2
<1>5. Front(fs) = gs /\ Last(fs) = fs[n]
    BY DEF Front, Last
<1> HIDE DEF gs
<1> DEFINE hs == Append(gs, fs[n])
<1>6. /\ hs \in Seq(Frame) /\ Len(hs) = n /\ hs[n] = fs[n]
      /\ \A i \in 1..(n - 1) : hs[i] = fs[i]
    <2>1. /\ hs \in Seq(Frame) /\ Len(hs) = Len(gs) + 1 /\ hs[Len(gs) + 1] = fs[n]
          /\ \A i \in 1..Len(gs) : hs[i] = gs[i]
        BY <1>2, <1>4, AppendProperties
    <2>2. Len(gs) + 1 = n
        BY <1>1, <1>4
    <2> HIDE DEF hs, n
    <2> QED BY <1>4, <2>1, <2>2
<1>7. hs = fs
    <2> HIDE DEF hs
    <2>1. \A i \in 1..Len(hs) : hs[i] = fs[i]
        BY <1>1, <1>6
    <2> QED BY <1>6, <2>1, SeqEqual
<1> QED BY <1>1, <1>2, <1>4, <1>5, <1>7

LEMMA ReturnTraced ==
    ASSUME TraceRight, Return
    PROVE  TraceRight'
<1> DEFINE f == Last(frames)
           fn == f.fn
           fs == Front(frames)
           open == ShownOf(fs)
<1>1. frames # <<>> /\ ~f.dumping /\ frames' = fs /\ Exit(fn) /\ frames \in Seq(Frame)
    BY Zenon DEF Return, TraceRight
<1>2. /\ fs \in Seq(Frame) /\ f \in Frame /\ frames = Append(fs, f) /\ Len(frames) \in Nat \ {0}
      /\ Len(fs) = Len(frames) - 1 /\ \A k \in 1..(Len(frames) - 1) : fs[k] = frames[k]
    BY <1>1, FrontAndLast
<1>3. fn \in Fns
    BY <1>2 DEF Frame
<1> HIDE DEF f, fs
<1>4. OneDump(fs)
    <2>1. DOMAIN fs = 1..(Len(frames) - 1) /\ DOMAIN frames = 1..Len(frames)
        BY <1>1, <1>2, LenProperties
    <2> QED BY <1>2, <2>1 DEF TraceRight, OneDump
<1>5. /\ (DumpingIn(frames) <=> DumpingIn(fs))
      /\ ShownOf(frames) = IF DumpingIn(fs) \/ fn \in Plain THEN open ELSE Append(open, fn)
    BY <1>1, <1>2, <1>4, ShownCalled
<1>6. open \in Seq(Fns)
    BY <1>2, <1>4, ShownTyped
<1> HIDE DEF open, fn
<1>7. CASE DumpingIn(fs) \/ fn \in Plain
    <2>1. tracer' = tracer /\ file' = file
        BY <1>1, <1>5, <1>7, Zenon DEF Exit, TraceRight, Silent
    <2> QED BY <1>1, <1>2, <1>4, <1>5, <1>7, <2>1 DEF TraceRight, open
<1>8. CASE ~(DumpingIn(fs) \/ fn \in Plain)
    <2>1. Quit(fn, tracer.indent - 1)
        BY <1>1, <1>5, <1>8, Zenon DEF Exit, TraceRight
    <2>2. ShownOf(frames) = Append(open, fn) /\ Len(Append(open, fn)) = Len(open) + 1 /\ Len(open) \in Nat
        BY <1>3, <1>5, <1>6, <1>8, AppendProperties, LenProperties
    <2>3. tracer.indent - 1 = Len(open) /\ tracer.do_trace = TRUE
        BY <1>5, <1>8, <2>2 DEF TraceRight
    <2>4. /\ Write(Log!logger_get_formated_msg(buf, "QUIT", Name(fn)), <<"QUIT">> \o Name(fn), Line("QUIT", fn, Len(open)))
          /\ tracer' = [tracer EXCEPT !.indent = @ - 1]
        BY <2>1, <2>3 DEF Quit
    <2>5. Line("QUIT", fn, Len(open)) \in FileLine
        BY <1>3, <2>2 DEF Line, FileLine
    <2>6. file' \in Seq(FileLine) /\ Reading(file') = ReadLine(ReadAs(Append(open, fn)), Line("QUIT", fn, Len(open)))
        BY <2>2, <2>4, <2>5, LineWritten DEF TraceRight
    <2>7. Reading(file') = ReadAs(open)
        BY <1>3, <1>6, <2>6, ReadsQuit
    <2>8. tracer' \in [indent : Int, do_trace : BOOLEAN] /\ tracer'.do_trace = TRUE /\ tracer'.indent = Len(open)
        BY <2>3, <2>4 DEF TraceRight
    <2> QED BY <1>1, <1>2, <1>4, <1>8, <2>6, <2>7, <2>8 DEF TraceRight, open
<1> QED BY <1>7, <1>8

(* A message is a line at the indentation of the calls that are open.      *)
LEMMA MessageTraced ==
    ASSUME TraceRight, NEW type \in Log!MSG_TYPE, NEW b, NEW meant,
           Write(b, meant, Line("message", type, tracer.indent))
    PROVE  file' \in Seq(FileLine) /\ Reading(file') = ReadAs(ShownOf(frames))
<1> DEFINE open == ShownOf(frames)
<1>1. tracer.indent = Len(open) /\ open \in Seq(Fns) /\ Len(open) \in Nat
    BY ShownTyped, LenProperties DEF TraceRight
<1> HIDE DEF open
<1>2. Line("message", type, tracer.indent) \in FileLine
    BY <1>1 DEF Line, FileLine
<1>3. file' \in Seq(FileLine) /\ Reading(file') = ReadLine(ReadAs(open), Line("message", type, Len(open)))
    BY <1>1, <1>2, LineWritten DEF TraceRight, open
<1> QED BY <1>3, ReadsMessage DEF open

LEMMA StartDumpingTraced ==
    ASSUME TraceRight, NEW title \in Bodies, StartDumping(title)
    PROVE  TraceRight'
<1> DEFINE n == Len(frames)
           fs == Marked(frames, TRUE)
<1>1. /\ frames # <<>> /\ ~Dumping /\ tracer' = [tracer EXCEPT !.do_trace = FALSE] /\ frames' = fs
      /\ Write(Log!logger_get_formated_msg(buf, "DUMP", title), <<"DUMP">> \o title, Line("message", "DUMP", tracer.indent))
    BY Zenon DEF StartDumping, Marked
<1>2. frames \in Seq(Frame) /\ ~DumpingIn(frames)
    BY <1>1, ShownIs DEF TraceRight
<1>3. /\ fs \in Seq(Frame) /\ Len(fs) = n /\ n \in Nat \ {0} /\ fs[n].dumping = TRUE
      /\ \A k \in 1..n : fs[k].fn = frames[k].fn
      /\ \A k \in 1..(n - 1) : fs[k].dumping = frames[k].dumping
    BY <1>1, <1>2, MarkedIs
<1>4. DOMAIN fs = 1..n /\ DOMAIN frames = 1..n
    BY <1>2, <1>3, LenProperties
<1> HIDE DEF fs
<1>5. \A k \in 1..n : fs[k].dumping => k = n
    <2>1. \A k \in 1..n : ~frames[k].dumping
        BY <1>2, <1>4 DEF DumpingIn
    <2> HIDE DEF n
    <2> SUFFICES ASSUME NEW k \in 1..n, k # n PROVE ~fs[k].dumping
        OBVIOUS
    <2>2. k \in 1..(n - 1)
        BY <1>3
    <2> QED BY <1>3, <2>1, <2>2
<1>6. OneDump(fs)
    BY <1>4, <1>5 DEF OneDump
<1>7. DumpingIn(fs) /\ ShownOf(fs) = Traced(SubSeq(fs, 1, n))
    <2>1. n \in 1..Len(fs) /\ fs[n].dumping
        BY <1>3
    <2> QED BY <1>3, <1>6, <2>1, ShownInDump
<1>8. ShownOf(fs) = ShownOf(frames)
    <2>1. SubSeq(fs, 1, n) = fs
        BY <1>3, SubSeqFull
    <2>2. Traced(frames) = Traced(fs)
        BY <1>3, TracedSame DEF SameFns
    <2> QED BY <1>2, <1>7, <2>1, <2>2, ShownIdle
<1>9. file' \in Seq(FileLine) /\ Reading(file') = ReadAs(ShownOf(frames))
    BY <1>1, TypesAre, MessageTraced
<1>10. tracer' \in [indent : Int, do_trace : BOOLEAN] /\ tracer'.do_trace = FALSE /\ tracer'.indent = tracer.indent
    BY <1>1 DEF TraceRight
<1> HIDE DEF n
<1> QED BY <1>1, <1>3, <1>6, <1>7, <1>8, <1>9, <1>10 DEF TraceRight

LEMMA StopDumpingTraced ==
    ASSUME TraceRight, StopDumping
    PROVE  TraceRight'
<1> DEFINE n == Len(frames)
           fs == Marked(frames, FALSE)
<1>1. /\ frames # <<>> /\ Last(frames).dumping /\ tracer' = [tracer EXCEPT !.do_trace = TRUE]
      /\ frames' = fs /\ file' = file
    BY Zenon DEF StopDumping, Marked
<1>2. frames \in Seq(Frame) /\ OneDump(frames)
    BY DEF TraceRight
<1>3. /\ fs \in Seq(Frame) /\ Len(fs) = n /\ n \in Nat \ {0} /\ fs[n].dumping = FALSE
      /\ \A k \in 1..n : fs[k].fn = frames[k].fn
      /\ \A k \in 1..(n - 1) : fs[k].dumping = frames[k].dumping
    BY <1>1, <1>2, MarkedIs
<1>4. DOMAIN fs = 1..n /\ DOMAIN frames = 1..n /\ frames[n].dumping /\ n \in 1..Len(frames)
    <2>1. frames[n].dumping
        BY <1>1, Zenon DEF Last
    <2>2. n \in 1..n
        BY <1>3
    <2> QED BY <1>2, <1>3, <2>1, <2>2, LenProperties
<1> HIDE DEF fs
<1>5. \A k \in 1..n : ~fs[k].dumping
    BY <1>2, <1>3, <1>4 DEF OneDump
<1>6. OneDump(fs) /\ ~DumpingIn(fs)
    BY <1>4, <1>5 DEF OneDump, DumpingIn
<1>7. ShownOf(frames) = Traced(SubSeq(frames, 1, n))
    BY <1>2, <1>4, ShownInDump
<1>8. ShownOf(fs) = ShownOf(frames)
    <2>1. SubSeq(frames, 1, n) = frames
        BY <1>2, SubSeqFull
    <2>2. Traced(frames) = Traced(fs)
        BY <1>3, TracedSame DEF SameFns
    <2> QED BY <1>3, <1>6, <1>7, <2>1, <2>2, ShownIdle
<1>9. tracer' \in [indent : Int, do_trace : BOOLEAN] /\ tracer'.do_trace = TRUE /\ tracer'.indent = tracer.indent
    BY <1>1 DEF TraceRight
<1> HIDE DEF n
<1> QED BY <1>1, <1>3, <1>6, <1>8, <1>9 DEF TraceRight

LEMMA TraceNext == TraceRight /\ [Next]_vars => TraceRight'
<1> SUFFICES ASSUME TraceRight, [Next]_vars PROVE TraceRight'
    OBVIOUS
<1>1. ASSUME NEW type \in {"LOG", "ERROR", "FATAL"}, NEW body \in Bodies, LogMsg(type, body) PROVE TraceRight'
    <2>1. /\ frames' = frames /\ tracer' = tracer
          /\ Write(Log!logger_get_formated_msg_localized(buf, type, body), <<type>> \o body \o <<"location">>,
                   Line("message", type, tracer.indent))
        BY <1>1, Zenon DEF LogMsg
    <2>2. file' \in Seq(FileLine) /\ Reading(file') = ReadAs(ShownOf(frames))
        BY <2>1, TypesAre, MessageTraced
    <2> QED BY <2>1, <2>2 DEF TraceRight
<1>2. CASE UNCHANGED vars
    BY <1>2 DEF vars, TraceRight
<1> QED BY <1>1, <1>2, CallTraced, ReturnTraced, StartDumpingTraced, StopDumpingTraced DEF Next

-----------------------------------------------------------------------------
(* The theorems.                                                           *)

(* Whatever the program calls, logs and dumps, the tracer, its trace and   *)
(* the message buffer agree with the program.                              *)
THEOREM Inductive == Spec => []IInv
<1>1. Init => IInv
    BY TraceInit, MessagesInit DEF IInv
<1>2. IInv /\ [Next]_vars => IInv'
    <2> SUFFICES ASSUME IInv, [Next]_vars PROVE IInv'
        OBVIOUS
    <2>1. TraceRight /\ MessagesRight /\ frames \in Seq([fn : Fns, dumping : BOOLEAN])
        BY DEF IInv, TraceRight, Frame
    <2> QED BY <2>1, TraceNext, MessagesNext DEF IInv
<1> QED BY <1>1, <1>2, PTL DEF Spec

(* The trace is a tree of calls that agrees with the program, through      *)
(* dumps that switch the hooks off and functions that have none, for any   *)
(* depth of calls and any length of the trace (__cyg_profile_func_enter    *)
(* and _exit, gcc_trace.cpp:59 and 75; START_DUMPING, log.h:57).           *)
THEOREM TraceIsCallTree == Spec => []CallTree
<1>1. IInv => CallTree
    BY ShownIs DEF IInv, TraceRight, CallTree, ReadAs
<1> QED BY <1>1, Inductive, PTL

(* A message is printed whole or cut at the size of the buffer, without    *)
(* anything of the messages before it, and only the location of a message  *)
(* that fills the buffer is written behind it, for any size and any texts  *)
(* (get_formated_msg, log.cpp:39; logger_get_formated_msg_localized, :17). *)
THEOREM MessagesAreWhole == Spec => []MessageWhole
<1>1. IInv => MessageWhole
    BY DEF IInv, MessagesRight
<1> QED BY <1>1, Inductive, PTL
=============================================================================
