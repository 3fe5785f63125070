----------------------------- MODULE ListProofs -----------------------------
(***************************************************************************)
(* Theorems about List: for every capacity, every number of insertions and *)
(* erasures and every value.                                               *)
(***************************************************************************)
EXTENDS List, NumberLemmas, FiniteSetTheorems, SequenceTheorems, TLAPS

-----------------------------------------------------------------------------
(* What a list looks like.                                                 *)

Node(x) == x = [val |-> x.val, next |-> x.next, prev |-> x.prev]

Fun(b, N) == b = [r \in 0..N |-> b[r]]

(* An array of N + 1 nodes.                                                *)
IsArray(b, N) == Fun(b, N) /\ \A r \in 0..N : Node(b[r]) /\ b[r].next \in -1..N /\ b[r].prev \in -1..N

(* A list with the ghost in slot 0.                                        *)
Lst(b, free, size) == [m_buffer |-> b, m_ghost |-> 0, m_free_head_ref |-> free, m_size |-> size]

(* A list with room for N elements.                                        *)
IsList(l, N) ==
    /\ l = Lst(l.m_buffer, l.m_free_head_ref, l.m_size)
    /\ IsArray(l.m_buffer, N)
    /\ l.m_free_head_ref \in -1..N /\ l.m_size \in 0..N

(* Its client holds h.                                                     *)
IsHeld(l, N, h) ==
    /\ h = [r \in DOMAIN h |-> h[r]] /\ DOMAIN h \subseteq 1..N
    /\ \A r \in DOMAIN h : h[r] \in Vals /\ l.m_buffer[r].val = h[r]
    /\ IsFiniteSet(DOMAIN h) /\ l.m_size = Cardinality(DOMAIN h)

(* The chain of free slots, from its end: all that are not in use, once.   *)
IsChain(l, N, h, q) ==
    /\ q \in [0..(N - l.m_size) -> -1..N]
    /\ q[0] = -1 /\ q[N - l.m_size] = l.m_free_head_ref
    /\ \A k \in 1..(N - l.m_size) : q[k] \in (1..N) \ DOMAIN h /\ l.m_buffer[q[k]].next = q[k - 1]
    /\ \A r \in (1..N) \ DOMAIN h : \E k \in 1..(N - l.m_size) : q[k] = r
    /\ \A j, k \in 1..(N - l.m_size) : q[j] = q[k] => j = k

(* The ring of elements, from the ghost.                                   *)
IsRing(l, h, p) ==
    /\ p \in [0..l.m_size -> {0} \cup DOMAIN h]
    /\ p[0] = 0
    /\ \A k \in 1..l.m_size : l.m_buffer[p[k - 1]].next = p[k] /\ l.m_buffer[p[k]].prev = p[k - 1]
    /\ l.m_buffer[p[l.m_size]].next = 0 /\ l.m_buffer[0].prev = p[l.m_size]
    /\ \A r \in {0} \cup DOMAIN h : \E k \in 0..l.m_size : p[k] = r
    /\ \A j, k \in 0..l.m_size : p[j] = p[k] => j = k

-----------------------------------------------------------------------------
(* Assignments to nodes.                                                   *)

PutPrev(b, r, y) == [b EXCEPT ![r].prev = y]
PutNext(b, r, y) == [b EXCEPT ![r].next = y]

LEMMA NodeIs ==
    ASSUME NEW n, NEW x, NEW y, NEW z, n = [val |-> x, next |-> y, prev |-> z]
    PROVE  Node(n) /\ n.val = x /\ n.next = y /\ n.prev = z
BY DEF Node

LEMMA PutIs ==
    ASSUME NEW b, NEW N \in Nat, NEW r \in 0..N, NEW y, Fun(b, N), Node(b[r])
    PROVE  /\ PutPrev(b, r, y)
              = [i \in 0..N |-> IF i = r THEN [val |-> b[i].val, next |-> b[i].next, prev |-> y] ELSE b[i]]
           /\ PutNext(b, r, y)
              = [i \in 0..N |-> IF i = r THEN [val |-> b[i].val, next |-> y, prev |-> b[i].prev] ELSE b[i]]
<1>1. PutPrev(b, r, y)
      = [i \in 0..N |-> IF i = r THEN [val |-> b[i].val, next |-> b[i].next, prev |-> y] ELSE b[i]]
    BY DEF Fun, Node, PutPrev
<1>2. PutNext(b, r, y)
      = [i \in 0..N |-> IF i = r THEN [val |-> b[i].val, next |-> y, prev |-> b[i].prev] ELSE b[i]]
    BY DEF Fun, Node, PutNext
<1> QED BY <1>1, <1>2

LEMMA PutBoth ==
    ASSUME NEW b, NEW N \in Nat, NEW r \in 0..N, NEW x, NEW y, Fun(b, N), Node(b[r])
    PROVE  LET e == [i \in 0..N |-> IF i = r THEN [val |-> b[i].val, next |-> y, prev |-> x] ELSE b[i]]
           IN  PutNext(PutPrev(b, r, x), r, y) = e /\ PutPrev(PutNext(b, r, y), r, x) = e
<1> DEFINE c == PutPrev(b, r, x)
           d == PutNext(b, r, y)
           e == [i \in 0..N |-> IF i = r THEN [val |-> b[i].val, next |-> y, prev |-> x] ELSE b[i]]
<1>1. c = [i \in 0..N |-> IF i = r THEN [val |-> b[i].val, next |-> b[i].next, prev |-> x] ELSE b[i]]
    BY PutIs
<1>2. d = [i \in 0..N |-> IF i = r THEN [val |-> b[i].val, next |-> y, prev |-> b[i].prev] ELSE b[i]]
    BY PutIs
<1> HIDE DEF c, d
<1>3. Fun(c, N) /\ c[r] = [val |-> b[r].val, next |-> b[r].next, prev |-> x]
    BY <1>1 DEF Fun
<1>4. Fun(d, N) /\ d[r] = [val |-> b[r].val, next |-> y, prev |-> b[r].prev]
    BY <1>2 DEF Fun
<1>5. Node(c[r]) /\ Node(d[r]) /\ c[r].val = b[r].val /\ c[r].prev = x /\ d[r].val = b[r].val /\ d[r].next = y
    BY <1>3, <1>4 DEF Node
<1>6. \A i \in 0..N : i # r => c[i] = b[i] /\ d[i] = b[i]
    BY <1>1, <1>2
<1>7. PutNext(c, r, y) = [i \in 0..N |-> IF i = r THEN [val |-> c[i].val, next |-> y, prev |-> c[i].prev] ELSE c[i]]
    BY <1>3, <1>5, PutIs
<1>8. PutPrev(d, r, x) = [i \in 0..N |-> IF i = r THEN [val |-> d[i].val, next |-> d[i].next, prev |-> x] ELSE d[i]]
    BY <1>4, <1>5, PutIs
<1>9. PutNext(c, r, y) = e
    BY <1>5, <1>6, <1>7
<1>10. PutPrev(d, r, x) = e
    BY <1>5, <1>6, <1>8
<1> QED BY <1>9, <1>10 DEF c, d

(* allocate_val and erase, as they assign to the fields of the list.       *)
PutSlot(l, x, a, v, y) == [l EXCEPT !.m_free_head_ref = x, !.m_buffer[a] = v, !.m_size = y]

LEMMA PutSlotIs ==
    ASSUME NEW l, NEW x, NEW v, NEW y, NEW a, l = Lst(l.m_buffer, l.m_free_head_ref, l.m_size)
    PROVE  PutSlot(l, x, a, v, y) = Lst([l.m_buffer EXCEPT ![a] = v], x, y)
<1> DEFINE l1 == [l EXCEPT !.m_free_head_ref = x]
           l2 == [l1 EXCEPT !.m_buffer[a] = v]
           l3 == [l2 EXCEPT !.m_size = y]
<1>1. l1 = Lst(l.m_buffer, x, l.m_size)
    BY DEF Lst
<1>2. l2 = Lst([l.m_buffer EXCEPT ![a] = v], x, l.m_size)
    <2> HIDE DEF l1
    <2> QED BY <1>1 DEF Lst
<1>3. l3 = Lst([l.m_buffer EXCEPT ![a] = v], x, y)
    <2> HIDE DEF l2
    <2> QED BY <1>2 DEF Lst
<1>4. PutSlot(l, x, a, v, y) = l3
    BY DEF PutSlot
<1> QED BY <1>3, <1>4

LEMMA AssignBuffer ==
    ASSUME NEW l, NEW b, NEW d, NEW x, NEW y, l = Lst(b, x, y)
    PROVE  [l EXCEPT !.m_buffer = d] = Lst(d, x, y)
BY DEF Lst

PutFree(l, ref, x, y) ==
    [l EXCEPT !.m_buffer[ref].prev = ref, !.m_buffer[ref].next = x, !.m_free_head_ref = ref, !.m_size = y]

LEMMA PutFreeIs ==
    ASSUME NEW l, NEW ref, NEW x, NEW y, l = Lst(l.m_buffer, l.m_free_head_ref, l.m_size)
    PROVE  PutFree(l, ref, x, y) = Lst(PutNext(PutPrev(l.m_buffer, ref, ref), ref, x), ref, y)
<1> DEFINE l1 == [l EXCEPT !.m_buffer[ref].prev = ref]
           l2 == [l1 EXCEPT !.m_buffer[ref].next = x]
           l3 == [l2 EXCEPT !.m_free_head_ref = ref]
           l4 == [l3 EXCEPT !.m_size = y]
           b1 == [l.m_buffer EXCEPT ![ref].prev = ref]
           b2 == [b1 EXCEPT ![ref].next = x]
<1>1. l1 = Lst(b1, l.m_free_head_ref, l.m_size)
    BY DEF Lst
<1>2. l2 = Lst(b2, l.m_free_head_ref, l.m_size)
    <2> HIDE DEF l1, b1
    <2> QED BY <1>1 DEF Lst
<1>3. l3 = Lst(b2, ref, l.m_size)
    <2> HIDE DEF l2, b2
    <2> QED BY <1>2 DEF Lst
<1>4. l4 = Lst(b2, ref, y)
    <2> HIDE DEF l3, b2
    <2> QED BY <1>3 DEF Lst
<1>5. PutFree(l, ref, x, y) = l4
    BY DEF PutFree
<1>6. PutNext(PutPrev(l.m_buffer, ref, ref), ref, x) = b2
    BY DEF PutNext, PutPrev
<1> QED BY <1>4, <1>5, <1>6

-----------------------------------------------------------------------------
LEMMA CapacityIs ==
    ASSUME NEW l, NEW N \in Nat, IsList(l, N)
    PROVE  Slots(l) = 0..N /\ capacity(l) = N + 1
<1>1. Slots(l) = 0..N
    BY DEF Slots, IsList, IsArray, Fun
<1>2. Cardinality(0..N) = N + 1
    BY FS_Interval
<1> QED BY <1>1, <1>2 DEF capacity

(* A list that is not full has a free slot, which the next element gets.   *)
LEMMA ChainHead ==
    ASSUME NEW l, NEW N \in Nat, NEW h, NEW q,
           IsList(l, N), IsHeld(l, N, h), IsChain(l, N, h, q), ~full(l)
    PROVE  /\ l.m_size < N
           /\ l.m_free_head_ref \in (1..N) \ DOMAIN h
           /\ l.m_free_head_ref = q[N - l.m_size]
           /\ l.m_buffer[l.m_free_head_ref].next = q[N - l.m_size - 1]
<1>1. l.m_size # N
    <2>1. capacity(l) = N + 1
        BY CapacityIs
    <2> QED BY <2>1 DEF full
<1>2. l.m_size \in Nat /\ l.m_size < N /\ N - l.m_size \in 1..(N - l.m_size)
    BY <1>1 DEF IsList
<1> QED BY <1>2 DEF IsChain

-----------------------------------------------------------------------------
(* Insertion.                                                              *)

(* Slot a, with the value val, comes in between ref and what followed it.  *)
Linked(b, d, N, ref, a, val) ==
    LET nx == b[ref].next IN
    /\ IsArray(d, N)
    /\ d[a].val = val /\ \A r \in 0..N \ {a} : d[r].val = b[r].val
    /\ d[a].next = nx /\ d[ref].next = a
    /\ \A r \in 0..N \ {a, ref} : d[r].next = b[r].next
    /\ nx \in 0..N => d[nx].prev = a
    /\ nx # a => d[a].prev = ref
    /\ \A r \in 0..N \ {a, nx} : d[r].prev = b[r].prev

IsInserted(l, m, N, ref, val) ==
    /\ m = Lst(m.m_buffer, l.m_buffer[l.m_free_head_ref].next, l.m_size + 1)
    /\ Linked(l.m_buffer, m.m_buffer, N, ref, l.m_free_head_ref, val)

LEMMA AllocateIs ==
    ASSUME NEW l, NEW N \in Nat, IsList(l, N), ~full(l), l.m_free_head_ref \in 0..N, NEW val, NEW junk
    PROVE  LET a   == l.m_free_head_ref
               new == allocate_val(l, val, junk)
           IN  /\ new.ref = a
               /\ new.list = Lst([l.m_buffer EXCEPT ![a] = [val |-> val, next |-> BAD_REF, prev |-> BAD_REF]],
                                 l.m_buffer[a].next, l.m_size + 1)
<1> DEFINE a == l.m_free_head_ref
           m == [l EXCEPT !.m_free_head_ref = l.m_buffer[a].next,
                          !.m_buffer[a] = [val |-> val, next |-> BAD_REF, prev |-> BAD_REF],
                          !.m_size = @ + 1]
<1>1. a # BAD_REF
    BY DEF BAD_REF
<1>2. allocate_val(l, val, junk) = [list |-> m, ref |-> a]
    BY <1>1 DEF allocate_val
<1>3. l = Lst(l.m_buffer, l.m_free_head_ref, l.m_size)
    BY DEF IsList
<1>4. m = PutSlot(l, l.m_buffer[a].next, a, [val |-> val, next |-> BAD_REF, prev |-> BAD_REF], l.m_size + 1)
    BY DEF PutSlot
<1> HIDE DEF m
<1>5. m = Lst([l.m_buffer EXCEPT ![a] = [val |-> val, next |-> BAD_REF, prev |-> BAD_REF]],
              l.m_buffer[a].next, l.m_size + 1)
    BY <1>3, <1>4, PutSlotIs
<1> QED BY <1>2, <1>5

(* The nodes after an insertion between ref and nx.                        *)
LinkedNode(b, ref, nx, a, val, r) ==
    [val  |-> IF r = a THEN val ELSE b[r].val,
     next |-> IF r = ref THEN a ELSE IF r = a THEN nx ELSE b[r].next,
     prev |-> IF r = nx THEN a ELSE IF r = a THEN ref ELSE b[r].prev]

LEMMA LinkedIs ==
    ASSUME NEW b, NEW d, NEW N \in Nat, NEW ref \in 0..N, NEW a \in 0..N, ref # a, NEW val,
           IsArray(b, N),
           d = [r \in 0..N |-> LinkedNode(b, ref, b[ref].next, a, val, r)]
    PROVE  Linked(b, d, N, ref, a, val)
<1> DEFINE nx == b[ref].next
<1>1. \A r \in 0..N : d[r] = LinkedNode(b, ref, nx, a, val, r)
    OBVIOUS
<1>2. \A r \in 0..N : /\ b[r].next \in -1..N /\ b[r].prev \in -1..N
    BY DEF IsArray
<1> HIDE DEF nx
<1>3. \A r \in 0..N : /\ d[r].val = IF r = a THEN val ELSE b[r].val
                      /\ d[r].next = IF r = ref THEN a ELSE IF r = a THEN nx ELSE b[r].next
                      /\ d[r].prev = IF r = nx THEN a ELSE IF r = a THEN ref ELSE b[r].prev
                      /\ Node(d[r])
    BY <1>1 DEF LinkedNode, Node
<1>4. nx \in -1..N
    BY <1>2 DEF nx
<1>5. \A r \in 0..N : d[r].next \in -1..N /\ d[r].prev \in -1..N
    BY <1>2, <1>3, <1>4
<1>6. Fun(d, N)
    BY DEF Fun
<1>7. IsArray(d, N)
    BY <1>3, <1>5, <1>6 DEF IsArray
<1> QED BY <1>3, <1>4, <1>7 DEF Linked, nx

LEMMA InsertAfterIs ==
    ASSUME NEW l, NEW N \in Nat, IsList(l, N), ~full(l), l.m_free_head_ref \in 0..N,
           NEW ref \in 0..N, ref # l.m_free_head_ref, NEW val, NEW junk
    PROVE  LET new == insert_after(l, ref, val, junk)
           IN  new.ref = l.m_free_head_ref /\ IsInserted(l, new.list, N, ref, val)
<1> DEFINE a   == l.m_free_head_ref
           b   == l.m_buffer
           new == allocate_val(l, val, junk)
           b0  == new.list.m_buffer
           b1  == [b0 EXCEPT ![new.ref].prev = ref, ![new.ref].next = b0[ref].next]
           b2  == SetPrev(b1, b1[ref].next, new.ref)
           b3  == [b2 EXCEPT ![ref].next = new.ref]
           nx  == b[ref].next
           m   == [new.list EXCEPT !.m_buffer = b3]
<1>1. /\ new.ref = a
      /\ new.list = Lst([b EXCEPT ![a] = [val |-> val, next |-> BAD_REF, prev |-> BAD_REF]], b[a].next, l.m_size + 1)
    BY AllocateIs
<1>2. insert_after(l, ref, val, junk) = [list |-> m, ref |-> new.ref]
    <2>1. new.ref # BAD_REF /\ ref # BAD_REF
        BY <1>1 DEF BAD_REF
    <2> QED BY <2>1 DEF insert_after, is_valid_ref
<1>3. b0 = [b EXCEPT ![a] = [val |-> val, next |-> BAD_REF, prev |-> BAD_REF]]
    BY <1>1 DEF Lst
<1>4. IsArray(b, N) /\ Fun(b, N) /\ nx \in -1..N
    BY DEF IsList, IsArray
<1>5. a \in 0..N /\ ref # a
    OBVIOUS
<1> HIDE DEF new, b, nx, a
<1>6. b0 = [r \in 0..N |-> IF r = a THEN [val |-> val, next |-> BAD_REF, prev |-> BAD_REF] ELSE b[r]]
    BY <1>3, <1>4 DEF Fun
<1> HIDE DEF b0
<1>7. Fun(b0, N) /\ Node(b0[a]) /\ b0[a].val = val /\ \A r \in 0..N \ {a} : b0[r] = b[r]
    BY <1>5, <1>6 DEF Fun, Node
<1>8. b1 = [r \in 0..N |-> IF r = a THEN [val |-> b0[r].val, next |-> b0[ref].next, prev |-> ref] ELSE b0[r]]
    <2>1. b1 = PutNext(PutPrev(b0, a, ref), a, b0[ref].next)
        BY <1>1 DEF PutNext, PutPrev
    <2> QED BY <1>5, <1>7, <2>1, PutBoth
<1> HIDE DEF b1
<1>9. /\ Fun(b1, N) /\ b1[a] = [val |-> val, next |-> nx, prev |-> ref] /\ \A r \in 0..N \ {a} : b1[r] = b[r]
    BY <1>5, <1>7, <1>8 DEF Fun, nx
<1>10. b1[ref].next = nx /\ \A r \in 0..N : Node(b1[r])
    BY <1>4, <1>5, <1>9 DEF nx, IsArray, Node
<1>11. b2 = [r \in 0..N |-> IF r = nx THEN [val |-> b1[r].val, next |-> b1[r].next, prev |-> a] ELSE b1[r]]
    <2>1. DOMAIN b1 = 0..N
        BY <1>9 DEF Fun
    <2>2. CASE nx \in 0..N
        <3>1. b2 = PutPrev(b1, nx, a)
            BY <1>1, <1>10, <2>1, <2>2 DEF SetPrev, PutPrev
        <3> QED BY <1>9, <1>10, <2>2, <3>1, PutIs
    <2>3. CASE nx \notin 0..N
        <3>1. b2 = b1
            BY <1>1, <1>10, <2>1, <2>3 DEF SetPrev
        <3> QED BY <1>9, <2>3, <3>1 DEF Fun
    <2> QED BY <2>2, <2>3
<1> HIDE DEF b2
<1>12. Fun(b2, N)
    BY <1>11 DEF Fun
<1>13. ASSUME NEW r \in 0..N
       PROVE  /\ Node(b2[r]) /\ b2[r].val = b1[r].val /\ b2[r].next = b1[r].next
              /\ b2[r].prev = IF r = nx THEN a ELSE b1[r].prev
    <2>1. CASE r = nx
        <3>1. b2[r] = [val |-> b1[r].val, next |-> b1[r].next, prev |-> a]
            BY <1>11, <2>1
        <3> QED BY <2>1, <3>1, NodeIs
    <2>2. CASE r # nx
        <3>1. b2[r] = b1[r]
            BY <1>11, <2>2
        <3> QED BY <1>10, <2>2, <3>1
    <2> QED BY <2>1, <2>2
<1>14. b3 = [r \in 0..N |-> IF r = ref THEN [val |-> b2[r].val, next |-> a, prev |-> b2[r].prev] ELSE b2[r]]
    <2>1. b3 = PutNext(b2, ref, a)
        BY <1>1 DEF PutNext
    <2>2. Node(b2[ref])
        BY <1>13
    <2>3. ref \in 0..N
        OBVIOUS
    <2> HIDE DEF b3
    <2> QED BY <1>12, <2>1, <2>2, <2>3, PutIs
<1> HIDE DEF b3
<1>15. ASSUME NEW r \in 0..N
       PROVE  b3[r] = LinkedNode(b, ref, nx, a, val, r)
    <2>1. /\ b2[r] = [val |-> b2[r].val, next |-> b2[r].next, prev |-> b2[r].prev]
          /\ b2[r].val = b1[r].val /\ b2[r].next = b1[r].next /\ b2[r].prev = IF r = nx THEN a ELSE b1[r].prev
        BY <1>13 DEF Node
    <2>2. /\ b1[r].val = IF r = a THEN val ELSE b[r].val
          /\ b1[r].next = IF r = a THEN nx ELSE b[r].next
          /\ b1[r].prev = IF r = a THEN ref ELSE b[r].prev
        BY <1>9
    <2>3. b3[r] = IF r = ref THEN [val |-> b2[r].val, next |-> a, prev |-> b2[r].prev] ELSE b2[r]
        BY <1>14
    <2> QED BY <1>5, <2>1, <2>2, <2>3 DEF LinkedNode
<1>16. b3 = [r \in 0..N |-> LinkedNode(b, ref, nx, a, val, r)]
    BY <1>14, <1>15
<1>17. Linked(b, b3, N, ref, a, val)
    BY <1>4, <1>5, <1>16, LinkedIs DEF nx
<1>18. m = Lst(b3, b[a].next, l.m_size + 1)
    BY <1>1, AssignBuffer
<1>19. IsInserted(l, m, N, ref, val)
    <2>1. m.m_buffer = b3
        BY <1>18 DEF Lst
    <2> HIDE DEF m
    <2> QED BY <1>17, <1>18, <2>1 DEF IsInserted, a, b
<1> QED BY <1>1, <1>2, <1>19 DEF a

(* Inserting before ref is inserting after what precedes it, where the two *)
(* links agree.                                                            *)
LEMMA InsertBeforeIs ==
    ASSUME NEW l, NEW N \in Nat, IsList(l, N), ~full(l), l.m_free_head_ref \in 0..N,
           NEW ref \in 0..N, ref # l.m_free_head_ref, NEW pv \in 0..N, pv # l.m_free_head_ref,
           l.m_buffer[ref].prev = pv, l.m_buffer[pv].next = ref, NEW val, NEW junk
    PROVE  LET new == insert_before(l, ref, val, junk)
           IN  new.ref = l.m_free_head_ref /\ IsInserted(l, new.list, N, pv, val)
<1> DEFINE a   == l.m_free_head_ref
           b   == l.m_buffer
           new == allocate_val(l, val, junk)
           b0  == new.list.m_buffer
           b1  == [b0 EXCEPT ![new.ref].next = ref, ![new.ref].prev = b0[ref].prev]
           b2  == SetNext(b1, b1[ref].prev, new.ref)
           b3  == [b2 EXCEPT ![ref].prev = new.ref]
           m   == [new.list EXCEPT !.m_buffer = b3]
<1>1. /\ new.ref = a
      /\ new.list = Lst([b EXCEPT ![a] = [val |-> val, next |-> BAD_REF, prev |-> BAD_REF]], b[a].next, l.m_size + 1)
    BY AllocateIs
<1>2. insert_before(l, ref, val, junk) = [list |-> m, ref |-> new.ref]
    <2>1. new.ref # BAD_REF /\ ref # BAD_REF
        BY <1>1 DEF BAD_REF
    <2> QED BY <2>1 DEF insert_before, is_valid_ref
<1>3. b0 = [b EXCEPT ![a] = [val |-> val, next |-> BAD_REF, prev |-> BAD_REF]]
    BY <1>1 DEF Lst
<1>4. IsArray(b, N) /\ Fun(b, N) /\ b[ref].prev = pv /\ b[pv].next = ref
    BY DEF IsList, IsArray
<1>5. a \in 0..N /\ ref # a /\ pv # a
    OBVIOUS
<1> HIDE DEF new, b, a
<1>6. b0 = [r \in 0..N |-> IF r = a THEN [val |-> val, next |-> BAD_REF, prev |-> BAD_REF] ELSE b[r]]
    BY <1>3, <1>4 DEF Fun
<1> HIDE DEF b0
<1>7. Fun(b0, N) /\ Node(b0[a]) /\ b0[a].val = val /\ \A r \in 0..N \ {a} : b0[r] = b[r]
    BY <1>5, <1>6 DEF Fun, Node
<1>8. b1 = [r \in 0..N |-> IF r = a THEN [val |-> b0[r].val, next |-> ref, prev |-> b0[ref].prev] ELSE b0[r]]
    <2> DEFINE x == b0[ref].prev
    <2>1. b1 = PutPrev(PutNext(b0, a, ref), a, x)
        BY <1>1 DEF PutNext, PutPrev
    <2> HIDE DEF b1, x
    <2>2. PutPrev(PutNext(b0, a, ref), a, x)
          = [r \in 0..N |-> IF r = a THEN [val |-> b0[r].val, next |-> ref, prev |-> x] ELSE b0[r]]
        BY <1>5, <1>7, PutBoth
    <2> QED BY <2>1, <2>2 DEF x
<1> HIDE DEF b1
<1>9. /\ Fun(b1, N) /\ b1[a] = [val |-> val, next |-> ref, prev |-> pv] /\ \A r \in 0..N \ {a} : b1[r] = b[r]
    BY <1>4, <1>5, <1>7, <1>8 DEF Fun
<1>10. b1[ref].prev = pv /\ \A r \in 0..N : Node(b1[r])
    BY <1>4, <1>5, <1>9 DEF IsArray, Node
<1>11. b2 = [r \in 0..N |-> IF r = pv THEN [val |-> b1[r].val, next |-> a, prev |-> b1[r].prev] ELSE b1[r]]
    <2>1. DOMAIN b1 = 0..N
        BY <1>9 DEF Fun
    <2>2. b2 = PutNext(b1, pv, a)
        BY <1>1, <1>10, <2>1 DEF SetNext, PutNext
    <2> QED BY <1>9, <1>10, <2>2, PutIs
<1> HIDE DEF b2
<1>12. Fun(b2, N)
    BY <1>11 DEF Fun
<1>13. ASSUME NEW r \in 0..N
       PROVE  /\ Node(b2[r]) /\ b2[r].val = b1[r].val /\ b2[r].prev = b1[r].prev
              /\ b2[r].next = IF r = pv THEN a ELSE b1[r].next
    <2>1. CASE r = pv
        <3>1. b2[r] = [val |-> b1[r].val, next |-> a, prev |-> b1[r].prev]
            BY <1>11, <2>1
        <3> QED BY <2>1, <3>1, NodeIs
    <2>2. CASE r # pv
        <3>1. b2[r] = b1[r]
            BY <1>11, <2>2
        <3> QED BY <1>10, <2>2, <3>1
    <2> QED BY <2>1, <2>2
<1>14. b3 = [r \in 0..N |-> IF r = ref THEN [val |-> b2[r].val, next |-> b2[r].next, prev |-> a] ELSE b2[r]]
    <2>1. b3 = PutPrev(b2, ref, a)
        BY <1>1 DEF PutPrev
    <2>2. Node(b2[ref])
        BY <1>13
    <2>3. ref \in 0..N
        OBVIOUS
    <2> HIDE DEF b3
    <2> QED BY <1>12, <2>1, <2>2, <2>3, PutIs
<1> HIDE DEF b3
<1>15. ASSUME NEW r \in 0..N
       PROVE  b3[r] = LinkedNode(b, pv, ref, a, val, r)
    <2>1. /\ b2[r] = [val |-> b2[r].val, next |-> b2[r].next, prev |-> b2[r].prev]
          /\ b2[r].val = b1[r].val /\ b2[r].prev = b1[r].prev /\ b2[r].next = IF r = pv THEN a ELSE b1[r].next
        BY <1>13 DEF Node
    <2>2. /\ b1[r].val = IF r = a THEN val ELSE b[r].val
          /\ b1[r].next = IF r = a THEN ref ELSE b[r].next
          /\ b1[r].prev = IF r = a THEN pv ELSE b[r].prev
        BY <1>9
    <2>3. b3[r] = IF r = ref THEN [val |-> b2[r].val, next |-> b2[r].next, prev |-> a] ELSE b2[r]
        BY <1>14
    <2> QED BY <1>5, <2>1, <2>2, <2>3 DEF LinkedNode
<1>16. b3 = [r \in 0..N |-> LinkedNode(b, pv, ref, a, val, r)]
    BY <1>14, <1>15
<1>17. Linked(b, b3, N, pv, a, val)
    BY <1>4, <1>5, <1>16, LinkedIs
<1>18. m = Lst(b3, b[a].next, l.m_size + 1)
    BY <1>1, AssignBuffer
<1>19. IsInserted(l, m, N, pv, val)
    <2>1. m.m_buffer = b3
        BY <1>18 DEF Lst
    <2> HIDE DEF m
    <2> QED BY <1>17, <1>18, <2>1 DEF IsInserted, a, b
<1> QED BY <1>2, <1>1, <1>19 DEF a

-----------------------------------------------------------------------------
(* What an insertion preserves.                                            *)

LEMMA InsertedList ==
    ASSUME NEW l, NEW m, NEW N \in Nat, NEW h, NEW q, NEW val \in Vals,
           IsList(l, N), IsHeld(l, N, h), IsChain(l, N, h, q), ~full(l),
           NEW ref \in {0} \cup DOMAIN h, IsInserted(l, m, N, ref, val)
    PROVE  LET g == With(h, l.m_free_head_ref, val)
           IN  /\ IsList(m, N) /\ IsHeld(m, N, g)
               /\ IsChain(m, N, g, [k \in 0..(N - m.m_size) |-> q[k]])
               /\ m.m_size = l.m_size + 1
               /\ Linked(l.m_buffer, m.m_buffer, N, ref, l.m_free_head_ref, val)
<1> DEFINE a == l.m_free_head_ref
           b == l.m_buffer
           d == m.m_buffer
           z == l.m_size
           g == With(h, a, val)
           x == [k \in 0..(N - m.m_size) |-> q[k]]
<1>1. a \in (1..N) \ DOMAIN h /\ a = q[N - z] /\ b[a].next = q[N - z - 1] /\ z < N
    BY ChainHead
<1>2. ref \in 0..N /\ ref # a /\ DOMAIN h \subseteq 1..N
    BY <1>1 DEF IsHeld
<1>3. m.m_free_head_ref = b[a].next /\ m.m_size = z + 1 /\ m = Lst(d, m.m_free_head_ref, m.m_size)
    BY DEF IsInserted, Lst
<1>4. Linked(b, d, N, ref, a, val)
    BY DEF IsInserted
<1>5. IsArray(b, N) /\ z \in 0..N
    BY DEF IsList
<1>6. IsList(m, N)
    <2>1. IsArray(d, N)
        BY <1>4 DEF Linked
    <2>2. m.m_free_head_ref \in -1..N
        BY <1>1, <1>3, <1>5 DEF IsArray
    <2>3. m.m_size \in 0..N
        BY <1>1, <1>3, <1>5
    <2> QED BY <1>3, <2>1, <2>2, <2>3 DEF IsList
<1>7. DOMAIN g = DOMAIN h \cup {a} /\ g = [r \in DOMAIN g |-> g[r]] /\ g[a] = val /\ \A r \in DOMAIN h : g[r] = h[r]
    <2>1. a \notin DOMAIN h
        BY <1>1
    <2>2. g = [r \in DOMAIN h \cup {a} |-> IF r = a THEN val ELSE h[r]]
        BY DEF With
    <2> HIDE DEF a, g
    <2> QED BY <2>1, <2>2
<1> HIDE DEF g, a, b, d, z
<1>8. IsHeld(m, N, g)
    <2>1. DOMAIN g \subseteq 1..N
        BY <1>1, <1>2, <1>7
    <2>2. \A r \in DOMAIN g : g[r] \in Vals /\ d[r].val = g[r]
        BY <1>1, <1>2, <1>4, <1>7 DEF IsHeld, Linked, b
    <2>3. IsFiniteSet(DOMAIN h) /\ Cardinality(DOMAIN h) = z
        BY DEF IsHeld, z
    <2>4. IsFiniteSet(DOMAIN g) /\ Cardinality(DOMAIN g) = z + 1
        BY <1>1, <1>7, <2>3, FS_AddElement
    <2> QED BY <1>3, <1>7, <2>1, <2>2, <2>4 DEF IsHeld, d
<1>9. IsChain(m, N, g, x)
    <2>1. N - m.m_size = N - z - 1 /\ N - z - 1 \in Nat /\ N - z \in Nat
        BY <1>1, <1>3, <1>5
    <2>2. /\ q \in [0..(N - z) -> -1..N] /\ q[0] = -1
          /\ \A k \in 1..(N - z) : q[k] \in (1..N) \ DOMAIN h /\ b[q[k]].next = q[k - 1]
          /\ \A r \in (1..N) \ DOMAIN h : \E k \in 1..(N - z) : q[k] = r
          /\ \A j, k \in 1..(N - z) : q[j] = q[k] => j = k
        BY DEF IsChain, z, b
    <2>3. x = [k \in 0..(N - z - 1) |-> q[k]]
        BY <2>1
    <2> HIDE DEF x
    <2>4. x \in [0..(N - z - 1) -> -1..N] /\ x[0] = -1 /\ x[N - z - 1] = m.m_free_head_ref
        BY <1>1, <1>3, <2>1, <2>2, <2>3
    <2>5. ASSUME NEW k \in 1..(N - z - 1)
          PROVE  x[k] \in (1..N) \ DOMAIN g /\ d[x[k]].next = x[k - 1]
        <3>1. x[k] = q[k] /\ x[k - 1] = q[k - 1] /\ k \in 1..(N - z) /\ N - z \in 1..(N - z) /\ k # N - z
            BY <2>1, <2>3
        <3>2. q[k] # a
            BY <1>1, <2>2, <3>1
        <3>3. q[k] \in 0..N \ {a, ref}
            BY <1>2, <2>2, <3>1, <3>2
        <3>4. d[q[k]].next = b[q[k]].next
            BY <1>4, <3>3 DEF Linked
        <3> QED BY <1>7, <2>2, <3>1, <3>2, <3>4
    <2>6. ASSUME NEW r \in (1..N) \ DOMAIN g
          PROVE  \E k \in 1..(N - z - 1) : x[k] = r
        <3>1. PICK k \in 1..(N - z) : q[k] = r
            BY <1>7, <2>2
        <3>2. k # N - z
            BY <1>1, <1>7, <3>1
        <3>3. k \in 1..(N - z - 1)
            BY <2>1, <3>1, <3>2
        <3> QED BY <2>1, <2>3, <3>1, <3>3
    <2>7. \A j, k \in 1..(N - z - 1) : x[j] = x[k] => j = k
        BY <2>1, <2>2, <2>3
    <2> QED BY <2>1, <2>4, <2>5, <2>6, <2>7 DEF IsChain, d
<1>10. Linked(l.m_buffer, m.m_buffer, N, ref, l.m_free_head_ref, val)
    BY <1>4 DEF b, d, a
<1> QED BY <1>3, <1>6, <1>8, <1>9, <1>10 DEF g, a, z

(* The ring with a new element after the one at place i.                   *)
Widened(p, z, i, a) ==
    [k \in 0..(z + 1) |-> IF k <= i THEN p[k] ELSE IF k = i + 1 THEN a ELSE p[k - 1]]

LEMMA InsertedRing ==
    ASSUME NEW l, NEW m, NEW N \in Nat, NEW h, NEW q, NEW val \in Vals,
           IsList(l, N), IsHeld(l, N, h), IsChain(l, N, h, q), ~full(l),
           NEW p, IsRing(l, h, p), NEW i \in 0..l.m_size, IsInserted(l, m, N, p[i], val)
    PROVE  IsRing(m, With(h, l.m_free_head_ref, val), Widened(p, l.m_size, i, l.m_free_head_ref))
<1> DEFINE a   == l.m_free_head_ref
           b   == l.m_buffer
           d   == m.m_buffer
           z   == l.m_size
           ref == p[i]
           nx  == b[ref].next
           g   == With(h, a, val)
           w   == Widened(p, z, i, a)
           H   == {0} \cup DOMAIN h
<1>1. a \in (1..N) \ DOMAIN h /\ z \in 0..N
    BY ChainHead DEF IsList
<1>2. H \subseteq 0..N /\ a \notin H
    BY <1>1 DEF IsHeld
<1>3. DOMAIN g = DOMAIN h \cup {a}
    BY DEF With
<1>4. Linked(b, d, N, ref, a, val) /\ m.m_size = z + 1
    BY DEF IsInserted, Lst
<1>5. /\ p \in [0..z -> H] /\ p[0] = 0
      /\ \A k \in 1..z : b[p[k - 1]].next = p[k] /\ b[p[k]].prev = p[k - 1]
      /\ b[p[z]].next = 0 /\ b[0].prev = p[z]
      /\ \A r \in H : \E k \in 0..z : p[k] = r
      /\ \A j, k \in 0..z : p[j] = p[k] => j = k
    BY DEF IsRing
<1>6. w = [k \in 0..(z + 1) |-> IF k <= i THEN p[k] ELSE IF k = i + 1 THEN a ELSE p[k - 1]]
    BY DEF Widened
<1> HIDE DEF g, a, b, d, z, w, H
<1>7. z \in Nat /\ i \in 0..z /\ ref \in H
    BY <1>1, <1>5 DEF z
<1>8. nx = IF i < z THEN p[i + 1] ELSE 0
    BY <1>5, <1>7
<1> HIDE DEF ref, nx
<1>9. nx \in H /\ nx # a /\ nx \in 0..N
    BY <1>2, <1>5, <1>7, <1>8 DEF H
<1>10. /\ d[a].next = nx /\ d[ref].next = a /\ d[nx].prev = a /\ d[a].prev = ref
       /\ \A r \in H \ {ref} : d[r].next = b[r].next
       /\ \A r \in H \ {nx} : d[r].prev = b[r].prev
    BY <1>2, <1>4, <1>9 DEF Linked, nx
<1>11. \A k \in 0..z : p[k] \in H /\ p[k] # a
    BY <1>2, <1>5
<1>12. ref = p[i]
    BY DEF ref
<1>13. /\ \A k \in 0..i : w[k] = p[k]
       /\ w[i + 1] = a
       /\ \A k \in (i + 2)..(z + 1) : w[k] = p[k - 1]
    BY <1>6, <1>7
<1>14. w \in [0..(z + 1) -> {0} \cup DOMAIN g] /\ w[0] = 0
    BY <1>3, <1>5, <1>6, <1>7, <1>11 DEF H
<1>15. ASSUME NEW k \in 1..(z + 1)
       PROVE  d[w[k - 1]].next = w[k] /\ d[w[k]].prev = w[k - 1]
    <2>1. CASE k <= i
        <3>1. w[k - 1] = p[k - 1] /\ w[k] = p[k] /\ k \in 1..z
            BY <1>7, <1>13, <2>1
        <3>2. p[k - 1] # ref
            BY <1>5, <1>7, <1>12, <2>1
        <3>3. p[k] # nx
            BY <1>5, <1>7, <1>8, <2>1
        <3>4. b[p[k - 1]].next = p[k] /\ b[p[k]].prev = p[k - 1] /\ k - 1 \in 0..z
            BY <1>5, <1>7, <3>1
        <3> QED BY <1>10, <1>11, <3>1, <3>2, <3>3, <3>4
    <2>2. CASE k = i + 1
        <3>1. w[k - 1] = ref /\ w[k] = a
            BY <1>7, <1>12, <1>13, <2>2
        <3> QED BY <1>10, <3>1
    <2>3. CASE k = i + 2
        <3>1. w[k - 1] = a /\ w[k] = p[i + 1] /\ i < z
            BY <1>7, <1>13, <2>3
        <3> QED BY <1>8, <1>10, <3>1
    <2>4. CASE k > i + 2
        <3>1. w[k - 1] = p[k - 2] /\ w[k] = p[k - 1] /\ k - 1 \in 1..z /\ k - 2 \in 0..z /\ i < z
            BY <1>7, <1>13, <2>4
        <3>2. p[k - 2] # ref
            BY <1>5, <1>7, <1>12, <2>4, <3>1
        <3>3. p[k - 1] # nx
            BY <1>5, <1>7, <1>8, <2>4, <3>1
        <3>4. b[p[k - 2]].next = p[k - 1] /\ b[p[k - 1]].prev = p[k - 2]
            <4>1. k - 1 - 1 = k - 2
                OBVIOUS
            <4> QED BY <1>5, <3>1, <4>1
        <3> QED BY <1>10, <1>11, <3>1, <3>2, <3>3, <3>4
    <2>5. i \in Int /\ k \in Int
        BY <1>7
    <2> QED BY <2>1, <2>2, <2>3, <2>4, <2>5
<1>16. d[w[z + 1]].next = 0 /\ d[0].prev = w[z + 1]
    <2>1. CASE i = z
        <3>1. w[z + 1] = a /\ nx = 0
            BY <1>8, <1>13, <2>1
        <3> QED BY <1>10, <3>1
    <2>2. CASE i < z
        <3>1. w[z + 1] = p[z]
            BY <1>7, <1>13, <2>2
        <3>2. p[z] # ref /\ nx # 0
            BY <1>5, <1>7, <1>8, <1>12, <2>2
        <3>3. 0 \in H
            BY DEF H
        <3> QED BY <1>5, <1>7, <1>10, <1>11, <3>1, <3>2, <3>3
    <2> QED BY <1>7, <2>1, <2>2
<1>17. ASSUME NEW r \in {0} \cup DOMAIN g
       PROVE  \E k \in 0..(z + 1) : w[k] = r
    <2>1. CASE r = a
        BY <1>7, <1>13, <2>1
    <2>2. CASE r # a
        <3>1. PICK k \in 0..z : p[k] = r
            BY <1>3, <1>5, <2>2 DEF H
        <3>2. CASE k <= i
            BY <1>7, <1>13, <3>1, <3>2
        <3>3. CASE k > i
            <4>1. k + 1 \in (i + 2)..(z + 1) /\ k + 1 \in 0..(z + 1) /\ k + 1 - 1 = k
                BY <1>7, <3>3
            <4>2. w[k + 1] = r
                BY <1>13, <3>1, <4>1
            <4> QED BY <4>1, <4>2
        <3> QED BY <1>7, <3>2, <3>3
    <2> QED BY <2>1, <2>2
<1>18. ASSUME NEW j \in 0..(z + 1), NEW k \in 0..(z + 1), w[j] = w[k]
       PROVE  j = k
    <2> DEFINE Old(n) == IF n <= i THEN n ELSE n - 1
    <2>1. ASSUME NEW n \in 0..(z + 1), n # i + 1
          PROVE  Old(n) \in 0..z /\ w[n] = p[Old(n)] /\ w[n] # a
        <3>1. Old(n) \in 0..z
            BY <1>7, <2>1
        <3>2. w[n] = p[Old(n)]
            BY <1>6, <2>1
        <3> QED BY <1>11, <3>1, <3>2
    <2>2. w[i + 1] = a
        BY <1>13
    <2>3. CASE j = i + 1
        BY <1>18, <2>1, <2>2, <2>3
    <2>4. CASE j # i + 1
        <3>1. k # i + 1
            BY <1>18, <2>1, <2>2, <2>4
        <3>2. Old(j) \in 0..z /\ Old(k) \in 0..z /\ p[Old(j)] = p[Old(k)]
            BY <1>18, <2>1, <2>4, <3>1
        <3>3. Old(j) = Old(k)
            <4> HIDE DEF Old
            <4> QED BY <1>5, <3>2
        <3> QED BY <1>7, <2>4, <3>1, <3>3
    <2> QED BY <2>3, <2>4
<1>19. IsRing(m, g, w)
    BY <1>4, <1>14, <1>15, <1>16, <1>17, <1>18 DEF IsRing, d
<1> QED BY <1>19 DEF g, w, a, z

-----------------------------------------------------------------------------
(* Erasure and assignment.                                                 *)

Without(h, ref) == [r \in DOMAIN h \ {ref} |-> h[r]]

LEMMA ErasedList ==
    ASSUME NEW l, NEW N \in Nat, NEW h, NEW q, NEW ref \in DOMAIN h,
           IsList(l, N), IsHeld(l, N, h), IsChain(l, N, h, q)
    PROVE  /\ IsList(erase(l, ref), N) /\ IsHeld(erase(l, ref), N, Without(h, ref))
           /\ \E x : IsChain(erase(l, ref), N, Without(h, ref), x)
<1> DEFINE m == erase(l, ref)
           g == [r \in DOMAIN h \ {ref} |-> h[r]]
           b == l.m_buffer
           a == l.m_free_head_ref
           z == l.m_size
           F == N - z + 1
           d == PutNext(PutPrev(b, ref, ref), ref, a)
           x == [k \in 0..F |-> IF k = F THEN ref ELSE q[k]]
<1>1. IsArray(b, N) /\ Fun(b, N) /\ a \in -1..N /\ z \in 0..N /\ DOMAIN h \subseteq 1..N /\ ref \in 1..N
    BY DEF IsList, IsArray, IsHeld
<1>2. IsFiniteSet(DOMAIN h) /\ z = Cardinality(DOMAIN h)
    BY DEF IsHeld
<1>3. IsFiniteSet(DOMAIN h \ {ref}) /\ Cardinality(DOMAIN h \ {ref}) = z - 1 /\ z - 1 \in Nat
    <2>1. IsFiniteSet(DOMAIN h \ {ref}) /\ Cardinality(DOMAIN h \ {ref}) = Cardinality(DOMAIN h) - 1
        BY <1>2, FS_RemoveElement
    <2>2. Cardinality(DOMAIN h \ {ref}) \in Nat
        BY <2>1, FS_CardinalityType
    <2> QED BY <1>2, <2>1, <2>2
<1>4. m = Lst(d, ref, z - 1)
    <2>1. ref # BAD_REF
        BY <1>1 DEF BAD_REF
    <2>2. m = PutFree(l, ref, a, z - 1)
        BY <2>1 DEF erase, is_valid_ref, PutFree
    <2>3. l = Lst(l.m_buffer, l.m_free_head_ref, l.m_size)
        BY DEF IsList
    <2> HIDE DEF m
    <2> QED BY <2>2, <2>3, PutFreeIs
<1>5. d = [i \in 0..N |-> IF i = ref THEN [val |-> b[i].val, next |-> a, prev |-> ref] ELSE b[i]]
    <2>1. ref \in 0..N /\ Node(b[ref])
        BY <1>1 DEF IsArray
    <2> HIDE DEF b, a
    <2> QED BY <1>1, <2>1, PutBoth
<1> HIDE DEF m, b, d, a, z
<1>6. /\ Fun(d, N) /\ \A r \in 0..N \ {ref} : d[r] = b[r]
      /\ d[ref].val = b[ref].val /\ d[ref].next = a /\ d[ref].prev = ref /\ Node(d[ref])
    <2>1. d[ref] = [val |-> b[ref].val, next |-> a, prev |-> ref]
        BY <1>1, <1>5
    <2> QED BY <1>5, <2>1, NodeIs DEF Fun
<1>7. IsArray(d, N)
    BY <1>1, <1>6 DEF IsArray
<1>8. m.m_buffer = d /\ m.m_free_head_ref = ref /\ m.m_size = z - 1
    BY <1>4 DEF Lst
<1>9. IsList(m, N)
    BY <1>1, <1>3, <1>4, <1>7, <1>8 DEF IsList
<1>10. IsHeld(m, N, g)
    <2>1. DOMAIN g = DOMAIN h \ {ref} /\ g = [r \in DOMAIN g |-> g[r]] /\ \A r \in DOMAIN g : g[r] = h[r]
        OBVIOUS
    <2> HIDE DEF g
    <2>2. \A r \in DOMAIN g : g[r] \in Vals /\ d[r].val = g[r]
        BY <1>1, <1>6, <2>1 DEF IsHeld, b
    <2> QED BY <1>1, <1>3, <1>8, <2>1, <2>2 DEF IsHeld
<1>11. IsChain(m, N, g, x)
    <2>1. N - (z - 1) = F /\ F \in Nat /\ F - 1 = N - z /\ N - z \in Nat
        BY <1>1
    <2>2. /\ q \in [0..(F - 1) -> -1..N] /\ q[0] = -1 /\ q[F - 1] = a
          /\ \A k \in 1..(F - 1) : q[k] \in (1..N) \ DOMAIN h /\ b[q[k]].next = q[k - 1]
          /\ \A r \in (1..N) \ DOMAIN h : \E k \in 1..(F - 1) : q[k] = r
          /\ \A j, k \in 1..(F - 1) : q[j] = q[k] => j = k
        BY <2>1 DEF IsChain, z, a, b
    <2> HIDE DEF F
    <2>3. DOMAIN g = DOMAIN h \ {ref} /\ F >= 1
        BY <2>1, <1>1 DEF F
    <2>4. \A k \in 0..(F - 1) : x[k] = q[k]
        BY <2>1
    <2>5. x[F] = ref /\ x \in [0..F -> -1..N]
        BY <1>1, <2>1, <2>2
    <2> HIDE DEF x, g
    <2>6. ASSUME NEW k \in 1..F
          PROVE  x[k] \in (1..N) \ DOMAIN g /\ d[x[k]].next = x[k - 1]
        <3>1. CASE k = F
            BY <1>1, <1>6, <2>1, <2>2, <2>3, <2>4, <2>5, <3>1
        <3>2. CASE k # F
            <4>1. k \in 1..(F - 1) /\ k \in 0..(F - 1) /\ k - 1 \in 0..(F - 1)
                BY <2>1, <3>2
            <4>2. x[k] = q[k] /\ x[k - 1] = q[k - 1]
                BY <2>4, <4>1
            <4>3. q[k] \in (1..N) \ DOMAIN h /\ b[q[k]].next = q[k - 1]
                BY <2>2, <4>1
            <4>4. d[q[k]] = b[q[k]]
                BY <1>6, <4>3
            <4> QED BY <2>3, <4>2, <4>3, <4>4
        <3> QED BY <3>1, <3>2
    <2>7. ASSUME NEW r \in (1..N) \ DOMAIN g
          PROVE  \E k \in 1..F : x[k] = r
        <3>1. CASE r = ref
            <4>1. F \in 1..F
                BY <2>1, <2>3
            <4> QED BY <2>5, <3>1, <4>1
        <3>2. CASE r # ref
            <4>1. PICK k \in 1..(F - 1) : q[k] = r
                BY <2>2, <2>3, <3>2
            <4>2. k \in 1..F /\ x[k] = r
                BY <2>1, <2>4, <4>1
            <4> QED BY <4>2
        <3> QED BY <3>1, <3>2
    <2>8. ASSUME NEW j \in 1..F, NEW k \in 1..F, x[j] = x[k]
          PROVE  j = k
        <3>1. \A i \in 1..(F - 1) : x[i] = q[i] /\ x[i] # ref
            <4>1. \A i \in 1..(F - 1) : i \in 0..(F - 1) /\ q[i] \notin DOMAIN h
                BY <2>1, <2>2
            <4> QED BY <2>4, <4>1
        <3>2. \A i \in 1..F : i = F \/ i \in 1..(F - 1)
            BY <2>1
        <3> QED BY <2>2, <2>5, <2>8, <3>1, <3>2
    <2>9. x[0] = -1
        BY <2>1, <2>2, <2>3, <2>4
    <2> QED BY <1>8, <2>1, <2>5, <2>6, <2>7, <2>8, <2>9 DEF IsChain
<1>12. g = Without(h, ref)
    BY DEF Without
<1> HIDE DEF g, x
<1> QED BY <1>9, <1>10, <1>11, <1>12 DEF m, z

LEMMA AssignedList ==
    ASSUME NEW l, NEW N \in Nat, NEW h, NEW q, NEW ref \in DOMAIN h, NEW val \in Vals,
           IsList(l, N), IsHeld(l, N, h), IsChain(l, N, h, q)
    PROVE  LET m == [l EXCEPT !.m_buffer[ref].val = val]
           IN  /\ IsList(m, N) /\ IsHeld(m, N, With(h, ref, val)) /\ IsChain(m, N, With(h, ref, val), q)
               /\ \A p : IsRing(l, h, p) => IsRing(m, With(h, ref, val), p)
               /\ m.m_size = l.m_size /\ DOMAIN With(h, ref, val) = DOMAIN h
<1> DEFINE m == [l EXCEPT !.m_buffer[ref].val = val]
           g == With(h, ref, val)
           b == l.m_buffer
           d == [b EXCEPT ![ref].val = val]
           z == l.m_size
<1>1. IsArray(b, N) /\ Fun(b, N) /\ DOMAIN h \subseteq 1..N /\ ref \in 1..N /\ z \in 0..N
    BY DEF IsList, IsArray, IsHeld
<1>2. m = Lst(d, l.m_free_head_ref, z)
    <2>1. l = Lst(l.m_buffer, l.m_free_head_ref, l.m_size)
        BY DEF IsList
    <2> QED BY <2>1 DEF Lst
<1>3. d = [i \in 0..N |-> IF i = ref THEN [val |-> val, next |-> b[i].next, prev |-> b[i].prev] ELSE b[i]]
    <2>1. ref \in 0..N /\ Node(b[ref])
        BY <1>1 DEF IsArray
    <2> HIDE DEF b
    <2> QED BY <1>1, <2>1 DEF Fun, Node
<1> HIDE DEF m, b, d, z
<1>4. /\ Fun(d, N) /\ \A r \in 0..N \ {ref} : d[r] = b[r]
      /\ d[ref].val = val /\ d[ref].next = b[ref].next /\ d[ref].prev = b[ref].prev /\ Node(d[ref])
    <2>1. d[ref] = [val |-> val, next |-> b[ref].next, prev |-> b[ref].prev]
        BY <1>1, <1>3
    <2> QED BY <1>3, <2>1, NodeIs DEF Fun
<1>5. \A r \in 0..N : d[r].next = b[r].next /\ d[r].prev = b[r].prev
    BY <1>4
<1>6. IsArray(d, N)
    BY <1>1, <1>4, <1>5 DEF IsArray
<1>7. m.m_buffer = d /\ m.m_free_head_ref = l.m_free_head_ref /\ m.m_size = z
    BY <1>2 DEF Lst
<1>8. IsList(m, N)
    BY <1>2, <1>6, <1>7 DEF IsList, z
<1>9. DOMAIN g = DOMAIN h /\ g = [r \in DOMAIN g |-> g[r]] /\ g[ref] = val /\ \A r \in DOMAIN h \ {ref} : g[r] = h[r]
    <2>1. g = [r \in DOMAIN h |-> IF r = ref THEN val ELSE h[r]]
        BY DEF With
    <2> HIDE DEF g
    <2> QED BY <2>1
<1> HIDE DEF g
<1>10. IsHeld(m, N, g)
    <2>1. \A r \in DOMAIN g : g[r] \in Vals /\ d[r].val = g[r]
        BY <1>1, <1>4, <1>9 DEF IsHeld, b
    <2> QED BY <1>1, <1>7, <1>9, <2>1 DEF IsHeld, z
<1>11. IsChain(m, N, g, q)
    <2>1. /\ q \in [0..(N - z) -> -1..N] /\ q[0] = -1 /\ q[N - z] = l.m_free_head_ref
          /\ \A k \in 1..(N - z) : q[k] \in (1..N) \ DOMAIN h /\ b[q[k]].next = q[k - 1]
          /\ \A r \in (1..N) \ DOMAIN h : \E k \in 1..(N - z) : q[k] = r
          /\ \A j, k \in 1..(N - z) : q[j] = q[k] => j = k
        BY DEF IsChain, z, b
    <2>2. \A k \in 1..(N - z) : q[k] \in 0..N
        BY <2>1
    <2>3. \A k \in 1..(N - z) : q[k] \in (1..N) \ DOMAIN g /\ d[q[k]].next = q[k - 1]
        BY <1>5, <1>9, <2>1, <2>2
    <2> QED BY <1>7, <1>9, <2>1, <2>3 DEF IsChain
<1>12. ASSUME NEW p, IsRing(l, h, p) PROVE IsRing(m, g, p)
    <2>1. \A r \in {0} \cup DOMAIN h : d[r].next = b[r].next /\ d[r].prev = b[r].prev
        BY <1>1, <1>5
    <2>2. /\ p \in [0..z -> {0} \cup DOMAIN h] /\ p[0] = 0
          /\ \A k \in 1..z : b[p[k - 1]].next = p[k] /\ b[p[k]].prev = p[k - 1]
          /\ b[p[z]].next = 0 /\ b[0].prev = p[z]
          /\ \A r \in {0} \cup DOMAIN h : \E k \in 0..z : p[k] = r
          /\ \A j, k \in 0..z : p[j] = p[k] => j = k
        BY <1>12 DEF IsRing, z, b
    <2>3. \A k \in 1..z : p[k] \in {0} \cup DOMAIN h /\ p[k - 1] \in {0} \cup DOMAIN h
        BY <1>1, <2>2
    <2>4. p[z] \in {0} \cup DOMAIN h
        BY <1>1, <2>2
    <2>5. ASSUME NEW k \in 1..z PROVE d[p[k - 1]].next = p[k] /\ d[p[k]].prev = p[k - 1]
        <3>1. p[k] \in {0} \cup DOMAIN h /\ p[k - 1] \in {0} \cup DOMAIN h
            BY <2>3
        <3>2. b[p[k - 1]].next = p[k] /\ b[p[k]].prev = p[k - 1]
            BY <2>2
        <3> QED BY <2>1, <3>1, <3>2
    <2>6. d[p[z]].next = 0 /\ d[0].prev = p[z]
        BY <2>1, <2>2, <2>4
    <2> QED BY <1>7, <1>9, <2>2, <2>5, <2>6 DEF IsRing
<1> QED BY <1>7, <1>8, <1>9, <1>10, <1>11, <1>12 DEF m, g, z

-----------------------------------------------------------------------------
(* Construction.                                                           *)

EmptyFun == [r \in {} |-> 0]

(* The free slots are still in the order of the constructor, from k + 1.   *)
Untouched(l, N, k) ==
    /\ l.m_free_head_ref = IF k < N THEN k + 1 ELSE -1
    /\ \A r \in (k + 1)..N : l.m_buffer[r].next = IF r = N THEN -1 ELSE r + 1

NewArray(N, junk) ==
    [r \in 0..N |-> [val  |-> IF r = 0 THEN 0 ELSE junk.val,
                     next |-> IF r = 0 THEN 0 ELSE IF r = N THEN -1 ELSE r + 1,
                     prev |-> IF r = 0 THEN 0 ELSE r]]

LEMMA RoomIs ==
    ASSUME NEW cap \in Nat
    PROVE  Room(cap) \in Nat /\ Room(cap) >= 1 /\ Room(cap) >= cap
BY ListAssumption DEF Room

(* The fields of a list that the constructor sets last.                    *)
PutGhost(l, g) ==
    [l EXCEPT !.m_ghost = g, !.m_size = @ - 1, !.m_buffer[g].next = g, !.m_buffer[g].prev = g]

Rec(b, g, f, z) == [m_buffer |-> b, m_ghost |-> g, m_free_head_ref |-> f, m_size |-> z]

LEMMA PutGhostIs ==
    ASSUME NEW b, NEW f, NEW z, NEW g, NEW h, NEW l, l = Rec(b, h, f, z)
    PROVE  PutGhost(l, g) = Rec(PutPrev(PutNext(b, g, g), g, g), g, f, z - 1)
<1> DEFINE l1 == [l EXCEPT !.m_ghost = g]
           l2 == [l1 EXCEPT !.m_size = @ - 1]
           l3 == [l2 EXCEPT !.m_buffer[g].next = g]
           l4 == [l3 EXCEPT !.m_buffer[g].prev = g]
           b1 == PutNext(b, g, g)
           b2 == PutPrev(b1, g, g)
<1>1. l1 = Rec(b, g, f, z)
    BY DEF Rec
<1>2. l2 = Rec(b, g, f, z - 1)
    <2> HIDE DEF l1
    <2> QED BY <1>1 DEF Rec
<1>3. l3 = Rec(b1, g, f, z - 1)
    <2> HIDE DEF l2
    <2> QED BY <1>2 DEF Rec, PutNext
<1>4. l4 = Rec(b2, g, f, z - 1)
    <2> HIDE DEF l3, b1
    <2> QED BY <1>3 DEF Rec, PutPrev
<1>5. PutGhost(l, g) = l4
    BY DEF PutGhost
<1> QED BY <1>4, <1>5

LEMMA PutFirst ==
    ASSUME NEW b, NEW f, NEW z, NEW g, NEW x, NEW v, NEW y, NEW a, NEW l, l = Rec(b, g, f, z)
    PROVE  PutSlot(l, x, a, v, y) = Rec([b EXCEPT ![a] = v], g, x, y)
<1> DEFINE l1 == [l EXCEPT !.m_free_head_ref = x]
           l2 == [l1 EXCEPT !.m_buffer[a] = v]
           l3 == [l2 EXCEPT !.m_size = y]
<1>1. l1 = Rec(b, g, x, z)
    BY DEF Rec
<1>2. l2 = Rec([b EXCEPT ![a] = v], g, x, z)
    <2> HIDE DEF l1
    <2> QED BY <1>1 DEF Rec
<1>3. l3 = Rec([b EXCEPT ![a] = v], g, x, y)
    <2> HIDE DEF l2
    <2> QED BY <1>2 DEF Rec
<1>4. PutSlot(l, x, a, v, y) = l3
    BY DEF PutSlot
<1> QED BY <1>3, <1>4

LEMMA ListIs ==
    ASSUME NEW cap \in Nat, NEW junk \in JunkNodes
    PROVE  List(cap, junk) = Lst(NewArray(Room(cap), junk), 1, 0)
<1> DEFINE N    == Room(cap)
           n    == N + 1
           b    == [r \in 0..(n - 1) |-> [junk EXCEPT !.prev = r, !.next = IF r = n - 1 THEN BAD_REF ELSE r + 1]]
           free == [m_buffer |-> b, m_ghost |-> BAD_REF, m_free_head_ref |-> 0, m_size |-> 0]
           new  == allocate_val(free, 0, junk)
           v    == [val |-> 0, next |-> BAD_REF, prev |-> BAD_REF]
<1>1. N \in Nat /\ N >= 1
    BY RoomIs
<1>2. List(cap, junk) = PutGhost(new.list, new.ref)
    BY DEF List, Room, PutGhost
<1> HIDE DEF N
<1>3. n - 1 = N
    BY <1>1
<1>4. \A r \in 0..N : [junk EXCEPT !.prev = r, !.next = IF r = N THEN BAD_REF ELSE r + 1]
                      = [val |-> junk.val, next |-> IF r = N THEN -1 ELSE r + 1, prev |-> r]
    <2>1. junk = [val |-> junk.val, next |-> junk.next, prev |-> junk.prev]
        BY ListAssumption
    <2> SUFFICES ASSUME NEW x, NEW y
                 PROVE  [junk EXCEPT !.prev = x, !.next = y] = [val |-> junk.val, next |-> y, prev |-> x]
        BY DEF BAD_REF
    <2> DEFINE j1 == [junk EXCEPT !.prev = x]
    <2>2. j1 = [val |-> junk.val, next |-> junk.next, prev |-> x]
        BY <2>1
    <2>3. [junk EXCEPT !.prev = x, !.next = y] = [j1 EXCEPT !.next = y]
        OBVIOUS
    <2> HIDE DEF j1
    <2>4. [j1 EXCEPT !.next = y] = [val |-> junk.val, next |-> y, prev |-> x]
        BY <2>2
    <2> QED BY <2>3, <2>4
<1>5. b = [r \in 0..N |-> [val |-> junk.val, next |-> IF r = N THEN -1 ELSE r + 1, prev |-> r]]
    BY <1>3, <1>4
<1> HIDE DEF n, b
<1>6. free = Rec(b, BAD_REF, 0, 0) /\ free.m_free_head_ref = 0 /\ free.m_size = 0 /\ free.m_buffer = b
    BY DEF Rec
<1> HIDE DEF free
<1>7. ~full(free)
    <2>1. Slots(free) = 0..N
        BY <1>5, <1>6 DEF Slots
    <2>2. capacity(free) = N + 1
        BY <1>1, <2>1, FS_Interval DEF capacity
    <2> QED BY <1>1, <1>6, <2>2 DEF full
<1>8. b[0].next = 1 /\ 0 \in 0..N
    BY <1>1, <1>5
<1>9. new.ref = 0 /\ new.list = PutSlot(free, 1, 0, v, 1)
    <2> DEFINE a == free.m_free_head_ref
    <2>1. a # BAD_REF
        BY <1>6 DEF BAD_REF
    <2>2. new = [list |-> PutSlot(free, free.m_buffer[a].next, a, v, free.m_size + 1), ref |-> a]
        BY <1>7, <2>1 DEF allocate_val, PutSlot
    <2> HIDE DEF new, v
    <2>3. a = 0 /\ free.m_buffer[a].next = 1 /\ free.m_size + 1 = 1
        BY <1>6, <1>8
    <2> HIDE DEF a
    <2> QED BY <2>2, <2>3
<1>10. new.list = Rec([b EXCEPT ![0] = v], BAD_REF, 1, 1)
    <2> HIDE DEF new, v
    <2> QED BY <1>6, <1>9, PutFirst
<1> DEFINE b0 == [b EXCEPT ![0] = v]
<1>11. PutGhost(new.list, 0) = Rec(PutPrev(PutNext(b0, 0, 0), 0, 0), 0, 1, 0)
    <2> DEFINE m == new.list
    <2>1. m = Rec(b0, BAD_REF, 1, 1) /\ 1 - 1 = 0
        BY <1>10
    <2> HIDE DEF m, b0
    <2>2. PutGhost(m, 0) = Rec(PutPrev(PutNext(b0, 0, 0), 0, 0), 0, 1, 1 - 1)
        BY <2>1, PutGhostIs
    <2> QED BY <2>1, <2>2 DEF m
<1>12. b0 = [r \in 0..N |-> IF r = 0 THEN v ELSE b[r]]
    BY <1>5
<1> HIDE DEF b0
<1>13. PutPrev(PutNext(b0, 0, 0), 0, 0)
       = [r \in 0..N |-> IF r = 0 THEN [val |-> b0[r].val, next |-> 0, prev |-> 0] ELSE b0[r]]
    <2>1. Fun(b0, N) /\ Node(b0[0])
        BY <1>8, <1>12 DEF Fun, Node
    <2> QED BY <1>1, <1>8, <2>1, PutBoth
<1>14. [r \in 0..N |-> IF r = 0 THEN [val |-> b0[r].val, next |-> 0, prev |-> 0] ELSE b0[r]] = NewArray(N, junk)
    <2>1. b0[0].val = 0
        BY <1>8, <1>12
    <2>2. \A r \in 0..N : r # 0 => b0[r] = [val |-> junk.val, next |-> IF r = N THEN -1 ELSE r + 1, prev |-> r]
        BY <1>5, <1>12
    <2>3. ASSUME NEW r \in 0..N
          PROVE  (IF r = 0 THEN [val |-> b0[r].val, next |-> 0, prev |-> 0] ELSE b0[r])
                 = [val  |-> IF r = 0 THEN 0 ELSE junk.val,
                    next |-> IF r = 0 THEN 0 ELSE IF r = N THEN -1 ELSE r + 1,
                    prev |-> IF r = 0 THEN 0 ELSE r]
        BY <2>1, <2>2
    <2> QED BY <2>3 DEF NewArray
<1> QED BY <1>2, <1>9, <1>11, <1>13, <1>14 DEF Lst, Rec, N

LEMMA ListMade ==
    ASSUME NEW cap \in Nat, NEW junk \in JunkNodes
    PROVE  LET l == List(cap, junk)
               N == Room(cap)
           IN  /\ IsList(l, N) /\ IsHeld(l, N, EmptyFun) /\ l.m_size = 0 /\ Untouched(l, N, 0)
               /\ IsChain(l, N, EmptyFun, [k \in 0..N |-> IF k = 0 THEN -1 ELSE N + 1 - k])
               /\ IsRing(l, EmptyFun, [k \in 0..0 |-> 0])
<1> DEFINE l == List(cap, junk)
           N == Room(cap)
           b == NewArray(N, junk)
           q == [k \in 0..N |-> IF k = 0 THEN -1 ELSE N + 1 - k]
           p == [k \in 0..0 |-> 0]
<1>1. N \in Nat /\ N >= 1
    BY RoomIs
<1>2. l = Lst(b, 1, 0)
    BY ListIs
<1> HIDE DEF N, l
<1>3. l.m_buffer = b /\ l.m_free_head_ref = 1 /\ l.m_size = 0
    BY <1>2 DEF Lst
<1>4. ASSUME NEW r \in 0..N
      PROVE  /\ Node(b[r]) /\ b[r].next = IF r = 0 THEN 0 ELSE IF r = N THEN -1 ELSE r + 1
             /\ b[r].prev = IF r = 0 THEN 0 ELSE r
    <2>1. b[r] = [val  |-> IF r = 0 THEN 0 ELSE junk.val,
                  next |-> IF r = 0 THEN 0 ELSE IF r = N THEN -1 ELSE r + 1,
                  prev |-> IF r = 0 THEN 0 ELSE r]
        BY DEF NewArray
    <2> QED BY <2>1, NodeIs
<1>5. Fun(b, N)
    BY DEF Fun, NewArray
<1> HIDE DEF b
<1>6. IsArray(b, N)
    BY <1>1, <1>4, <1>5 DEF IsArray
<1>7. IsList(l, N)
    BY <1>1, <1>2, <1>3, <1>6 DEF IsList
<1>8. DOMAIN EmptyFun = {} /\ EmptyFun = [r \in DOMAIN EmptyFun |-> EmptyFun[r]]
    BY DEF EmptyFun
<1>9. IsHeld(l, N, EmptyFun)
    BY <1>3, <1>8, FS_EmptySet DEF IsHeld
<1>10. Untouched(l, N, 0)
    BY <1>1, <1>3, <1>4 DEF Untouched
<1>11. IsChain(l, N, EmptyFun, q)
    <2>1. q \in [0..N -> -1..N] /\ q[0] = -1 /\ q[N] = 1
        BY <1>1
    <2>2. \A k \in 1..N : q[k] = N + 1 - k
        BY <1>1
    <2>3. \A k \in 1..N : q[k - 1] = IF k = 1 THEN -1 ELSE N + 2 - k
        BY <1>1
    <2> HIDE DEF q
    <2>4. ASSUME NEW k \in 1..N PROVE q[k] \in 1..N /\ b[q[k]].next = q[k - 1]
        <3>1. q[k] = N + 1 - k /\ q[k] \in 1..N /\ q[k] \in 0..N
            BY <1>1, <2>2
        <3>2. b[q[k]].next = IF q[k] = 0 THEN 0 ELSE IF q[k] = N THEN -1 ELSE q[k] + 1
            BY <1>4, <3>1
        <3>3. q[k - 1] = IF k = 1 THEN -1 ELSE N + 2 - k
            BY <2>3
        <3> QED BY <1>1, <3>1, <3>2, <3>3
    <2>5. ASSUME NEW r \in 1..N PROVE \E k \in 1..N : q[k] = r
        <3>1. N + 1 - r \in 1..N /\ N + 1 - (N + 1 - r) = r
            BY <1>1
        <3> QED BY <2>2, <3>1
    <2>6. \A j, k \in 1..N : q[j] = q[k] => j = k
        BY <1>1, <2>2
    <2>7. N - l.m_size = N
        BY <1>1, <1>3
    <2> QED BY <1>3, <1>8, <2>1, <2>4, <2>5, <2>6, <2>7 DEF IsChain
<1>12. IsRing(l, EmptyFun, p)
    <2>1. b[0].next = 0 /\ b[0].prev = 0
        BY <1>1, <1>4
    <2> QED BY <1>3, <1>8, <2>1 DEF IsRing
<1> QED BY <1>3, <1>7, <1>9, <1>10, <1>11, <1>12 DEF l, N

LEMMA InsertBackIs ==
    ASSUME NEW l, NEW N \in Nat, NEW h, NEW q, NEW p, NEW val, NEW junk,
           IsList(l, N), IsHeld(l, N, h), IsChain(l, N, h, q), IsRing(l, h, p), ~full(l)
    PROVE  LET new == insert_back(l, val, junk)
           IN  new.ref = l.m_free_head_ref /\ IsInserted(l, new.list, N, p[l.m_size], val)
<1> DEFINE ref == p[l.m_size]
<1>1. l.m_free_head_ref \in (1..N) \ DOMAIN h /\ DOMAIN h \subseteq 1..N /\ l.m_size \in 0..N
    BY ChainHead DEF IsHeld, IsList
<1>2. ref \in {0} \cup DOMAIN h /\ l.m_buffer[0].prev = ref
    BY <1>1 DEF IsRing
<1>3. tail(l) = ref
    BY <1>2 DEF tail, IsList, Lst
<1>4. ref \in 0..N /\ ref # l.m_free_head_ref /\ l.m_free_head_ref \in 0..N
    BY <1>1, <1>2
<1> HIDE DEF ref
<1>5. insert_back(l, val, junk) = insert_after(l, ref, val, junk)
    BY <1>3 DEF insert_back
<1> QED BY <1>4, <1>5, InsertAfterIs DEF ref

(* Before the element at place j of the ring is after the one that         *)
(* precedes it, which for the ghost is the last.                           *)
LEMMA InsertBeforeRing ==
    ASSUME NEW l, NEW N \in Nat, NEW h, NEW q, NEW p, NEW val, NEW junk,
           IsList(l, N), IsHeld(l, N, h), IsChain(l, N, h, q), IsRing(l, h, p), ~full(l),
           NEW j \in 0..l.m_size
    PROVE  LET new == insert_before(l, p[j], val, junk)
               i   == IF j = 0 THEN l.m_size ELSE j - 1
           IN  new.ref = l.m_free_head_ref /\ IsInserted(l, new.list, N, p[i], val)
<1> DEFINE z  == l.m_size
           i  == IF j = 0 THEN z ELSE j - 1
           pv == p[i]
           ref == p[j]
           b == l.m_buffer
<1>1. l.m_free_head_ref \in (1..N) \ DOMAIN h /\ DOMAIN h \subseteq 1..N /\ z \in 0..N
    BY ChainHead DEF IsHeld, IsList
<1>2. i \in 0..z
    BY <1>1
<1>3. /\ p \in [0..z -> {0} \cup DOMAIN h] /\ p[0] = 0
      /\ \A k \in 1..z : b[p[k - 1]].next = p[k] /\ b[p[k]].prev = p[k - 1]
      /\ b[p[z]].next = 0 /\ b[0].prev = p[z]
    BY DEF IsRing
<1>4. pv \in {0} \cup DOMAIN h /\ ref \in {0} \cup DOMAIN h
    BY <1>2, <1>3
<1>5. b[ref].prev = pv /\ b[pv].next = ref
    <2>1. CASE j = 0
        BY <1>3, <2>1
    <2>2. CASE j # 0
        <3>1. j \in 1..z
            BY <1>1, <2>2
        <3> QED BY <1>3, <2>2, <3>1
    <2> QED BY <2>1, <2>2
<1>6. pv \in 0..N /\ ref \in 0..N /\ pv # l.m_free_head_ref /\ ref # l.m_free_head_ref /\ l.m_free_head_ref \in 0..N
    BY <1>1, <1>4
<1> HIDE DEF pv, ref
<1>7. LET new == insert_before(l, ref, val, junk)
      IN  new.ref = l.m_free_head_ref /\ IsInserted(l, new.list, N, pv, val)
    BY <1>5, <1>6, InsertBeforeIs
<1> QED BY <1>7 DEF pv, ref

LEMMA InsertFrontIs ==
    ASSUME NEW l, NEW N \in Nat, NEW h, NEW q, NEW p, NEW val, NEW junk,
           IsList(l, N), IsHeld(l, N, h), IsChain(l, N, h, q), IsRing(l, h, p), ~full(l)
    PROVE  LET new == insert_front(l, val, junk)
           IN  new.ref = l.m_free_head_ref /\ IsInserted(l, new.list, N, p[0], val)
<1> DEFINE z == l.m_size
           j == IF z = 0 THEN 0 ELSE 1
<1>1. z \in 0..N /\ j \in 0..z
    BY DEF IsList
<1>2. head(l) = p[j]
    <2>1. CASE z = 0
        BY <2>1 DEF head, IsRing, IsList, Lst
    <2>2. CASE z # 0
        <3>1. 1 \in 1..z /\ 1 - 1 = 0
            BY <1>1, <2>2
        <3>2. l.m_buffer[p[0]].next = p[1] /\ p[0] = 0
            BY <3>1 DEF IsRing
        <3> QED BY <2>2, <3>2 DEF head, IsList, Lst
    <2> QED BY <2>1, <2>2
<1>3. insert_front(l, val, junk) = insert_before(l, p[j], val, junk)
    BY <1>2 DEF insert_front
<1>4. (IF j = 0 THEN z ELSE j - 1) = 0
    BY <1>1
<1> HIDE DEF j
<1>5. LET new == insert_before(l, p[j], val, junk)
      IN  new.ref = l.m_free_head_ref /\ IsInserted(l, new.list, N, p[IF j = 0 THEN z ELSE j - 1], val)
    BY <1>1, InsertBeforeRing
<1> QED BY <1>3, <1>4, <1>5

-----------------------------------------------------------------------------
(* Construction from an initializer list.                                  *)

Built(l, N, vals, k) ==
    /\ IsList(l, N) /\ IsHeld(l, N, [r \in 1..k |-> vals[r]]) /\ l.m_size = k /\ Untouched(l, N, k)
    /\ \E q : IsChain(l, N, [r \in 1..k |-> vals[r]], q)
    /\ \E p : IsRing(l, [r \in 1..k |-> vals[r]], p)

LEMMA BuiltStep ==
    ASSUME NEW vals \in Seq(Vals), NEW N \in Nat, NEW junk, NEW l, NEW k \in Nat, k < Len(vals), k < N,
           Built(l, N, vals, k)
    PROVE  Built(insert_back(l, vals[k + 1], junk).list, N, vals, k + 1)
<1> DEFINE h == [r \in 1..k |-> vals[r]]
           val == vals[k + 1]
           a == l.m_free_head_ref
           new == insert_back(l, val, junk)
           m == new.list
           g == [r \in 1..(k + 1) |-> vals[r]]
<1>1. Len(vals) \in Nat /\ val \in Vals
    OBVIOUS
<1>2. PICK q : IsChain(l, N, h, q)
    BY DEF Built
<1>3. PICK p : IsRing(l, h, p)
    BY DEF Built
<1>4. IsList(l, N) /\ IsHeld(l, N, h) /\ l.m_size = k /\ Untouched(l, N, k) /\ DOMAIN h = 1..k
    BY DEF Built
<1>5. a = k + 1
    BY <1>4 DEF Untouched
<1>6. ~full(l)
    <2>1. capacity(l) = N + 1
        BY <1>4, CapacityIs
    <2> QED BY <1>4, <2>1 DEF full
<1>7. g = With(h, a, val)
    <2>1. DOMAIN h \cup {a} = 1..(k + 1)
        BY <1>4, <1>5
    <2>2. \A r \in 1..(k + 1) : g[r] = IF r = a THEN val ELSE h[r]
        BY <1>5
    <2> QED BY <2>1, <2>2 DEF With
<1> HIDE DEF h, g, val, new, a
<1>8. new.ref = a /\ IsInserted(l, m, N, p[k], val)
    BY <1>2, <1>3, <1>4, <1>6, InsertBackIs DEF new, a
<1> HIDE DEF m
<1>9. p[k] \in {0} \cup DOMAIN h /\ k \in 0..l.m_size
    BY <1>3, <1>4 DEF IsRing
<1>10. /\ IsList(m, N) /\ IsHeld(m, N, g) /\ m.m_size = k + 1
       /\ \E x : IsChain(m, N, g, x)
       /\ Linked(l.m_buffer, m.m_buffer, N, p[k], a, val)
    <2> DEFINE x == [j \in 0..(N - m.m_size) |-> q[j]]
    <2>1. /\ IsList(m, N) /\ IsHeld(m, N, g) /\ IsChain(m, N, g, x) /\ m.m_size = l.m_size + 1
          /\ Linked(l.m_buffer, m.m_buffer, N, p[k], a, val)
        BY <1>1, <1>2, <1>4, <1>6, <1>7, <1>8, <1>9, InsertedList DEF a
    <2> HIDE DEF x
    <2> QED BY <1>4, <2>1
<1>11. \E w : IsRing(m, g, w)
    <2>1. IsRing(m, g, Widened(p, l.m_size, k, a))
        BY <1>1, <1>2, <1>3, <1>4, <1>6, <1>7, <1>8, <1>9, InsertedRing DEF a
    <2> QED BY <2>1
<1>12. Untouched(m, N, k + 1)
    <2>1. m.m_free_head_ref = l.m_buffer[a].next
        BY <1>8 DEF IsInserted, Lst, a
    <2>2. l.m_buffer[a].next = IF a = N THEN -1 ELSE a + 1
        BY <1>4, <1>5 DEF Untouched
    <2>3. ASSUME NEW r \in (k + 1 + 1)..N PROVE m.m_buffer[r].next = IF r = N THEN -1 ELSE r + 1
        <3>1. r \in 0..N \ {a, p[k]} /\ r \in (k + 1)..N
            BY <1>4, <1>5, <1>9
        <3>2. m.m_buffer[r].next = l.m_buffer[r].next
            BY <1>10, <3>1 DEF Linked
        <3> QED BY <1>4, <3>1, <3>2 DEF Untouched
    <2> QED BY <1>5, <2>1, <2>2, <2>3 DEF Untouched
<1> QED BY <1>10, <1>11, <1>12 DEF Built, g, m, new, val

Stages(f, vals, junk, n) ==
    f = [k \in 0..n |-> IF k = 0 THEN List(Len(vals), junk) ELSE insert_back(f[k - 1], vals[k], junk).list]

LEMMA StagesExist ==
    ASSUME NEW vals \in Seq(Vals), NEW junk, NEW n \in Nat
    PROVE  \E f : Stages(f, vals, junk, n)
<1> DEFINE T == {i \in Nat : ~ \E f : Stages(f, vals, junk, i)}
<1> SUFFICES ASSUME T # {} PROVE FALSE
    OBVIOUS
<1>1. PICK i \in T : \A j \in T : i <= j
    <2>1. T \in SUBSET Nat
        OBVIOUS
    <2> HIDE DEF T
    <2> QED BY <2>1, LeastNumber
<1>2. CASE i = 0
    <2>1. Stages([k \in 0..0 |-> List(Len(vals), junk)], vals, junk, 0)
        BY DEF Stages
    <2> QED BY <1>2, <2>1
<1>3. CASE i # 0
    <2>1. i - 1 \in Nat /\ i - 1 \notin T
        BY <1>1, <1>3
    <2>2. PICK f : Stages(f, vals, junk, i - 1)
        BY <2>1
    <2> DEFINE step(k) == IF k = i THEN insert_back(f[i - 1], vals[i], junk).list ELSE f[k]
               g == [k \in 0..i |-> step(k)]
    <2>3. \A k \in 0..i : k # 0 => g[k - 1] = f[k - 1]
        BY <1>1
    <2>4. \A k \in 0..(i - 1) : f[k] = IF k = 0 THEN List(Len(vals), junk) ELSE insert_back(f[k - 1], vals[k], junk).list
        BY <2>2 DEF Stages
    <2>5. ASSUME NEW k \in 0..i
          PROVE  step(k) = IF k = 0 THEN List(Len(vals), junk) ELSE insert_back(g[k - 1], vals[k], junk).list
        <3>1. CASE k = i
            BY <1>3, <2>3, <3>1
        <3>2. CASE k # i
            <4>1. k \in 0..(i - 1)
                BY <1>1, <3>2
            <4> QED BY <2>3, <2>4, <3>2, <4>1
        <3> QED BY <3>1, <3>2
    <2> HIDE DEF step
    <2>6. g = [k \in 0..i |-> IF k = 0 THEN List(Len(vals), junk) ELSE insert_back(g[k - 1], vals[k], junk).list]
        BY <2>5
    <2>7. Stages(g, vals, junk, i)
        BY <2>6 DEF Stages
    <2> QED BY <1>1, <2>7
<1> QED BY <1>2, <1>3

LEMMA ListOfIs ==
    ASSUME NEW vals \in Seq(Vals), NEW junk \in JunkNodes
    PROVE  Built(ListOf(vals, junk), Room(Len(vals)), vals, Len(vals))
<1> DEFINE n == Len(vals)
           N == Room(n)
           built == CHOOSE f : Stages(f, vals, junk, n)
           T == {k \in 0..n : ~Built(built[k], N, vals, k)}
<1>1. n \in Nat /\ N \in Nat /\ N >= n
    BY RoomIs
<1>2. Stages(built, vals, junk, n)
    BY <1>1, StagesExist
<1>3. ListOf(vals, junk) = built[n]
    BY DEF ListOf, Stages
<1> HIDE DEF built, n, N
<1>4. T = {}
    <2> SUFFICES ASSUME T # {} PROVE FALSE
        OBVIOUS
    <2>1. PICK k \in T : \A j \in T : k <= j
        <3>1. T \in SUBSET Nat
            BY <1>1
        <3> HIDE DEF T
        <3> QED BY <3>1, LeastNumber
    <2>2. CASE k = 0
        <3>1. built[0] = List(n, junk)
            BY <1>1, <1>2 DEF Stages, n
        <3>2. [r \in 1..0 |-> vals[r]] = EmptyFun
            BY DEF EmptyFun
        <3>3. Built(built[0], N, vals, 0)
            <4>1. /\ IsList(built[0], N) /\ IsHeld(built[0], N, EmptyFun) /\ built[0].m_size = 0 /\ Untouched(built[0], N, 0)
                  /\ \E q : IsChain(built[0], N, EmptyFun, q)
                  /\ \E p : IsRing(built[0], EmptyFun, p)
                BY <1>1, <3>1, ListMade DEF N
            <4> QED BY <3>2, <4>1 DEF Built
        <3> QED BY <2>2, <3>3
    <2>3. CASE k # 0
        <3>1. k - 1 \in Nat /\ k - 1 < n /\ k - 1 < N /\ k \in 0..n /\ k - 1 + 1 = k /\ k - 1 \in 0..n
            BY <1>1, <2>1, <2>3
        <3>2. k - 1 \notin T
            BY <2>1, <3>1
        <3>3. Built(built[k - 1], N, vals, k - 1)
            BY <3>1, <3>2
        <3>4. built[k] = insert_back(built[k - 1], vals[k], junk).list
            BY <1>2, <2>3, <3>1 DEF Stages
        <3>5. Built(insert_back(built[k - 1], vals[k - 1 + 1], junk).list, N, vals, k - 1 + 1)
            BY <1>1, <3>1, <3>3, BuiltStep DEF n
        <3>6. Built(built[k], N, vals, k)
            BY <3>1, <3>4, <3>5
        <3> QED BY <2>1, <3>6
    <2> QED BY <2>2, <2>3
<1>5. Built(built[n], N, vals, n)
    BY <1>1, <1>4
<1> QED BY <1>3, <1>5 DEF N, n

-----------------------------------------------------------------------------
(* Following the links.                                                    *)

Followed(f, l, from, n) ==
    f = [k \in 0..n |-> IF k = 0 THEN from
                        ELSE IF f[k - 1] \in Slots(l) THEN l.m_buffer[f[k - 1]].next ELSE BAD_REF]

LEMMA FollowedExists ==
    ASSUME NEW l, NEW from, NEW n \in Nat
    PROVE  \E f : Followed(f, l, from, n)
<1> DEFINE T == {i \in Nat : ~ \E f : Followed(f, l, from, i)}
           Next1(x) == IF x \in Slots(l) THEN l.m_buffer[x].next ELSE BAD_REF
<1> SUFFICES ASSUME T # {} PROVE FALSE
    OBVIOUS
<1>1. PICK i \in T : \A j \in T : i <= j
    <2>1. T \in SUBSET Nat
        OBVIOUS
    <2> HIDE DEF T
    <2> QED BY <2>1, LeastNumber
<1>2. CASE i = 0
    <2>1. Followed([k \in 0..0 |-> from], l, from, 0)
        BY DEF Followed
    <2> QED BY <1>2, <2>1
<1>3. CASE i # 0
    <2>1. i - 1 \in Nat /\ i - 1 \notin T
        BY <1>1, <1>3
    <2>2. PICK f : Followed(f, l, from, i - 1)
        BY <2>1
    <2> DEFINE step(k) == IF k = i THEN Next1(f[i - 1]) ELSE f[k]
               g == [k \in 0..i |-> step(k)]
    <2>3. \A k \in 0..i : k # 0 => g[k - 1] = f[k - 1]
        BY <1>1
    <2>4. \A k \in 0..(i - 1) : f[k] = IF k = 0 THEN from ELSE Next1(f[k - 1])
        BY <2>2 DEF Followed
    <2> HIDE DEF Next1
    <2>5. ASSUME NEW k \in 0..i
          PROVE  step(k) = IF k = 0 THEN from ELSE Next1(g[k - 1])
        <3>1. CASE k = i
            BY <1>3, <2>3, <3>1
        <3>2. CASE k # i
            <4>1. k \in 0..(i - 1)
                BY <1>1, <3>2
            <4> QED BY <2>3, <2>4, <3>2, <4>1
        <3> QED BY <3>1, <3>2
    <2> HIDE DEF step
    <2>6. g = [k \in 0..i |-> IF k = 0 THEN from ELSE Next1(g[k - 1])]
        BY <2>5
    <2>7. Followed(g, l, from, i)
        BY <2>6 DEF Followed, Next1
    <2> QED BY <1>1, <2>7
<1> QED BY <1>2, <1>3

(* What follows the links is the walk.                                     *)
LEMMA WalkIs ==
    ASSUME NEW l, NEW N \in Nat, IsList(l, N), NEW from, NEW m \in 0..(N + 1), NEW f, f[0] = from,
           \A k \in 1..m : f[k] = IF f[k - 1] \in 0..N THEN l.m_buffer[f[k - 1]].next ELSE BAD_REF
    PROVE  \A k \in 0..m : Walk(l, from)[k] = f[k]
<1> DEFINE w == Walk(l, from)
           T == {k \in 0..m : w[k] # f[k]}
<1>1. Slots(l) = 0..N /\ capacity(l) = N + 1
    BY CapacityIs
<1>2. Walk(l, from) = CHOOSE g : Followed(g, l, from, N + 1)
    BY <1>1 DEF Walk, Followed
<1>3. Followed(w, l, from, N + 1)
    <2>1. N + 1 \in Nat
        OBVIOUS
    <2> QED BY <1>2, <2>1, FollowedExists
<1> HIDE DEF w
<1>4. \A k \in 0..(N + 1) : w[k] = IF k = 0 THEN from ELSE IF w[k - 1] \in 0..N THEN l.m_buffer[w[k - 1]].next ELSE BAD_REF
    BY <1>1, <1>3 DEF Followed
<1>5. T = {}
    <2> SUFFICES ASSUME T # {} PROVE FALSE
        OBVIOUS
    <2>1. PICK k \in T : \A j \in T : k <= j
        <3>1. T \in SUBSET Nat
            OBVIOUS
        <3> HIDE DEF T
        <3> QED BY <3>1, LeastNumber
    <2>2. k # 0
        <3>1. w[0] = from
            BY <1>4
        <3> QED BY <2>1, <3>1
    <2>3. k - 1 \in 0..m /\ k \in 1..m /\ k \in 0..(N + 1) /\ k - 1 < k
        BY <2>1, <2>2
    <2>4. w[k - 1] = f[k - 1]
        BY <2>1, <2>3
    <2>5. w[k] = f[k]
        BY <1>4, <2>2, <2>3, <2>4
    <2> QED BY <2>1, <2>5
<1> QED BY <1>5 DEF w

LEMMA RingWalk ==
    ASSUME NEW l, NEW N \in Nat, NEW h, NEW p, IsList(l, N), IsHeld(l, N, h), IsRing(l, h, p)
    PROVE  /\ \A k \in 0..l.m_size : Walk(l, 0)[k] = p[k]
           /\ Walk(l, 0)[l.m_size + 1] = 0
<1> DEFINE z == l.m_size
           f == [k \in 0..(z + 1) |-> IF k <= z THEN p[k] ELSE 0]
           b == l.m_buffer
<1>1. z \in 0..N /\ z + 1 \in 0..(N + 1) /\ DOMAIN h \subseteq 1..N
    BY DEF IsList, IsHeld
<1>2. /\ p \in [0..z -> {0} \cup DOMAIN h] /\ p[0] = 0 /\ b[p[z]].next = 0
      /\ \A k \in 1..z : b[p[k - 1]].next = p[k]
    BY DEF IsRing
<1> HIDE DEF z, b
<1>3. ASSUME NEW k \in 1..(z + 1)
      PROVE  f[k] = IF f[k - 1] \in 0..N THEN b[f[k - 1]].next ELSE BAD_REF
    <2>1. f[k - 1] = p[k - 1] /\ k - 1 \in 0..z
        BY <1>1
    <2>2. p[k - 1] \in 0..N
        BY <1>1, <1>2, <2>1
    <2>3. CASE k <= z
        BY <1>1, <1>2, <2>1, <2>2, <2>3
    <2>4. CASE k = z + 1
        <3>1. k - 1 = z /\ f[k] = 0
            BY <1>1, <2>4
        <3> QED BY <1>2, <2>1, <2>2, <3>1
    <2> QED BY <1>1, <2>3, <2>4
<1>4. f[0] = 0
    BY <1>1, <1>2
<1>5. \A k \in 0..z : f[k] = p[k]
    BY <1>1
<1>6. f[z + 1] = 0 /\ z + 1 \in 0..(z + 1) /\ \A k \in 0..z : k \in 0..(z + 1)
    BY <1>1
<1> HIDE DEF f
<1>7. \A k \in 0..(z + 1) : Walk(l, 0)[k] = f[k]
    BY <1>1, <1>3, <1>4, WalkIs DEF b
<1> QED BY <1>5, <1>6, <1>7 DEF z

LEMMA ChainWalk ==
    ASSUME NEW l, NEW N \in Nat, NEW h, NEW q, IsList(l, N), IsHeld(l, N, h), IsChain(l, N, h, q)
    PROVE  \A k \in 0..(N - l.m_size) : Walk(l, l.m_free_head_ref)[k] = q[N - l.m_size - k]
<1> DEFINE F == N - l.m_size
           f == [k \in 0..F |-> q[F - k]]
           b == l.m_buffer
<1>1. F \in Nat /\ F \in 0..(N + 1) /\ DOMAIN h \subseteq 1..N
    BY DEF IsList, IsHeld
<1>2. /\ q \in [0..F -> -1..N] /\ q[0] = -1 /\ q[F] = l.m_free_head_ref
      /\ \A k \in 1..F : q[k] \in 1..N /\ b[q[k]].next = q[k - 1]
    BY DEF IsChain
<1> HIDE DEF F, b
<1>3. ASSUME NEW k \in 1..F
      PROVE  f[k] = IF f[k - 1] \in 0..N THEN b[f[k - 1]].next ELSE BAD_REF
    <2>1. F - (k - 1) \in 1..F /\ F - (k - 1) - 1 = F - k /\ k - 1 \in 0..F /\ k \in 0..F
        BY <1>1
    <2>2. f[k - 1] = q[F - (k - 1)] /\ f[k] = q[F - k]
        BY <2>1
    <2>3. q[F - (k - 1)] \in 0..N /\ b[q[F - (k - 1)]].next = q[F - k]
        BY <1>2, <2>1
    <2> QED BY <2>2, <2>3
<1>4. f[0] = l.m_free_head_ref
    BY <1>1, <1>2
<1>5. \A k \in 0..F : f[k] = q[F - k]
    OBVIOUS
<1> HIDE DEF f
<1>6. \A k \in 0..F : Walk(l, l.m_free_head_ref)[k] = f[k]
    BY <1>1, <1>3, <1>4, WalkIs DEF b
<1> QED BY <1>5, <1>6 DEF F

-----------------------------------------------------------------------------
(* The invariant.                                                          *)

(* What holds of a list and of what its client holds.                      *)
Sound(l, h, e) ==
    \E N \in Rooms :
       /\ IsList(l, N) /\ IsHeld(l, N, h)
       /\ \E q : IsChain(l, N, h, q)
       /\ ~e => \E p : IsRing(l, h, p)

IInv ==
    /\ made \in BOOLEAN /\ erased \in BOOLEAN
    /\ made => Sound(list, held, erased)
    /\ ~made => list = NoList /\ held = EmptyFun /\ erased = FALSE

LEMMA RoomsAre == Rooms \subseteq Nat \ {0}
<1>1. \A cap \in Caps \cup {Len(vals) : vals \in InitLists} : cap \in Nat
    BY ListAssumption
<1>2. \A cap \in Nat : Room(cap) \in Nat \ {0}
    BY RoomIs
<1> QED BY <1>1, <1>2 DEF Rooms

LEMMA InsertedSound ==
    ASSUME NEW l, NEW m, NEW N \in Rooms, NEW h, NEW q, NEW val \in Vals,
           IsList(l, N), IsHeld(l, N, h), IsChain(l, N, h, q), ~full(l),
           NEW ref \in {0} \cup DOMAIN h, IsInserted(l, m, N, ref, val),
           NEW e, ~e => \E p : IsRing(l, h, p)
    PROVE  Sound(m, With(h, l.m_free_head_ref, val), e)
<1> DEFINE g == With(h, l.m_free_head_ref, val)
<1>0. N \in Nat
    BY RoomsAre
<1>1. IsList(m, N) /\ IsHeld(m, N, g) /\ IsChain(m, N, g, [k \in 0..(N - m.m_size) |-> q[k]])
    BY <1>0, InsertedList
<1>2. ASSUME ~e PROVE \E p : IsRing(m, g, p)
    <2>1. PICK p : IsRing(l, h, p)
        BY <1>2
    <2>2. PICK i \in 0..l.m_size : p[i] = ref
        BY <2>1 DEF IsRing
    <2>3. IsInserted(l, m, N, p[i], val)
        BY <2>2
    <2>4. IsRing(m, g, Widened(p, l.m_size, i, l.m_free_head_ref))
        BY <1>0, <2>1, <2>3, InsertedRing
    <2> QED BY <2>4
<1> HIDE DEF g
<1>3. Sound(m, g, e)
    BY <1>1, <1>2 DEF Sound
<1> QED BY <1>3 DEF g

(* What Inserted does to the client, in terms of the list.                 *)
LEMMA InsertedInv ==
    ASSUME IInv, made, ~full(list), NEW op, NEW at, NEW new, NEW val \in Vals, Inserted(op, at, new, val),
           \A N \in Rooms : \A q :
              IsList(list, N) /\ IsHeld(list, N, held) /\ IsChain(list, N, held, q)
              /\ (~erased => \E p : IsRing(list, held, p))
              => /\ new.ref = list.m_free_head_ref
                 /\ \E ref \in {0} \cup DOMAIN held : IsInserted(list, new.list, N, ref, val)
    PROVE  IInv'
<1>1. PICK N \in Rooms :
         /\ IsList(list, N) /\ IsHeld(list, N, held)
         /\ \E q : IsChain(list, N, held, q)
         /\ ~erased => \E p : IsRing(list, held, p)
    BY DEF IInv, Sound
<1>2. PICK q : IsChain(list, N, held, q)
    BY <1>1
<1>3. new.ref = list.m_free_head_ref /\ \E ref \in {0} \cup DOMAIN held : IsInserted(list, new.list, N, ref, val)
    BY <1>1, <1>2
<1>4. PICK ref \in {0} \cup DOMAIN held : IsInserted(list, new.list, N, ref, val)
    BY <1>3
<1>5. Sound(new.list, With(held, list.m_free_head_ref, val), erased)
    BY <1>1, <1>2, <1>4, InsertedSound
<1>6. new.ref # BAD_REF
    <2>1. N \in Nat
        BY RoomsAre
    <2>2. list.m_free_head_ref \in (1..N) \ DOMAIN held
        BY <1>1, <1>2, <2>1, ChainHead
    <2> QED BY <1>3, <2>1, <2>2 DEF BAD_REF
<1>7. list' = new.list /\ held' = With(held, list.m_free_head_ref, val) /\ made' = made /\ erased' = erased
    BY <1>3, <1>6 DEF Inserted
<1>8. Sound(list', held', erased')
    BY <1>5, <1>7
<1> QED BY <1>7, <1>8 DEF IInv

LEMMA InsertAfterInv ==
    ASSUME IInv, ~full(list), NEW ref \in Refs, NEW val \in Vals, NEW junk \in JunkNodes, InsertAfter(ref, val, junk)
    PROVE  IInv'
<1> DEFINE new == insert_after(list, ref, val, junk)
<1>1. made /\ Inserted("insert_after", ref, new, val)
    BY DEF InsertAfter
<1>2. CASE ref = BAD_REF
    <2>1. new.list = list /\ new.ref = BAD_REF
        BY <1>2 DEF insert_after, is_valid_ref
    <2>2. UNCHANGED <<list, held, made, erased>>
        BY <1>1, <2>1 DEF Inserted
    <2> QED BY <2>2 DEF IInv
<1>3. CASE ref # BAD_REF
    <2>1. ASSUME NEW N \in Rooms, NEW q,
                 IsList(list, N) /\ IsHeld(list, N, held) /\ IsChain(list, N, held, q)
                 /\ (~erased => \E p : IsRing(list, held, p))
          PROVE  /\ new.ref = list.m_free_head_ref
                 /\ \E r \in {0} \cup DOMAIN held : IsInserted(list, new.list, N, r, val)
        <3>1. N \in Nat /\ IsList(list, N) /\ IsHeld(list, N, held) /\ IsChain(list, N, held, q)
            BY <2>1, RoomsAre
        <3>2. list.m_free_head_ref \in (1..N) \ DOMAIN held /\ DOMAIN held \subseteq 1..N
            BY <3>1, ChainHead DEF IsHeld
        <3>3. list.m_ghost = 0
            BY <3>1 DEF IsList, Lst
        <3>4. ref \in {0} \cup DOMAIN held
            BY <1>3, <3>3 DEF Refs
        <3>5. ref \in 0..N /\ ref # list.m_free_head_ref /\ list.m_free_head_ref \in 0..N
            BY <3>1, <3>2, <3>4
        <3>6. new.ref = list.m_free_head_ref /\ IsInserted(list, new.list, N, ref, val)
            BY <3>1, <3>5, InsertAfterIs
        <3> QED BY <3>4, <3>6
    <2> HIDE DEF new
    <2> QED BY <1>1, <2>1, InsertedInv
<1> QED BY <1>2, <1>3

LEMMA InsertFrontInv ==
    ASSUME IInv, ~full(list), ~erased, NEW val \in Vals, NEW junk \in JunkNodes, InsertFront(val, junk)
    PROVE  IInv'
<1> DEFINE new == insert_front(list, val, junk)
<1>1. made /\ Inserted("insert_front", BAD_REF, new, val)
    BY DEF InsertFront
<1>2. ASSUME NEW N \in Rooms, NEW q,
             IsList(list, N) /\ IsHeld(list, N, held) /\ IsChain(list, N, held, q)
             /\ (~erased => \E p : IsRing(list, held, p))
      PROVE  /\ new.ref = list.m_free_head_ref
             /\ \E r \in {0} \cup DOMAIN held : IsInserted(list, new.list, N, r, val)
    <2>1. N \in Nat /\ IsList(list, N) /\ IsHeld(list, N, held) /\ IsChain(list, N, held, q)
        BY <1>2, RoomsAre
    <2>2. PICK p : IsRing(list, held, p)
        BY <1>2
    <2>3. new.ref = list.m_free_head_ref /\ IsInserted(list, new.list, N, p[0], val)
        BY <2>1, <2>2, InsertFrontIs
    <2>4. p[0] \in {0} \cup DOMAIN held
        BY <2>2 DEF IsRing
    <2> QED BY <2>3, <2>4
<1> HIDE DEF new
<1> QED BY <1>1, <1>2, InsertedInv

LEMMA InsertBackInv ==
    ASSUME IInv, ~full(list), ~erased, NEW val \in Vals, NEW junk \in JunkNodes, InsertBack(val, junk)
    PROVE  IInv'
<1> DEFINE new == insert_back(list, val, junk)
<1>1. made /\ Inserted("insert_back", BAD_REF, new, val)
    BY DEF InsertBack
<1>2. ASSUME NEW N \in Rooms, NEW q,
             IsList(list, N) /\ IsHeld(list, N, held) /\ IsChain(list, N, held, q)
             /\ (~erased => \E p : IsRing(list, held, p))
      PROVE  /\ new.ref = list.m_free_head_ref
             /\ \E r \in {0} \cup DOMAIN held : IsInserted(list, new.list, N, r, val)
    <2>1. N \in Nat /\ IsList(list, N) /\ IsHeld(list, N, held) /\ IsChain(list, N, held, q)
        BY <1>2, RoomsAre
    <2>2. PICK p : IsRing(list, held, p)
        BY <1>2
    <2>3. new.ref = list.m_free_head_ref /\ IsInserted(list, new.list, N, p[list.m_size], val)
        BY <2>1, <2>2, InsertBackIs
    <2>4. list.m_size \in 0..list.m_size
        BY <2>1 DEF IsList
    <2>5. p[list.m_size] \in {0} \cup DOMAIN held
        BY <2>2, <2>4 DEF IsRing
    <2> QED BY <2>3, <2>5
<1> HIDE DEF new
<1> QED BY <1>1, <1>2, InsertedInv

LEMMA InsertBeforeInv ==
    ASSUME IInv, ~full(list), ~erased, NEW ref \in Refs, NEW val \in Vals, NEW junk \in JunkNodes,
           InsertBefore(ref, val, junk)
    PROVE  IInv'
<1> DEFINE new == insert_before(list, ref, val, junk)
<1>1. made /\ Inserted("insert_before", ref, new, val)
    BY DEF InsertBefore
<1>2. CASE ref = BAD_REF
    <2>1. new.list = list /\ new.ref = BAD_REF
        BY <1>2 DEF insert_before, is_valid_ref
    <2>2. UNCHANGED <<list, held, made, erased>>
        BY <1>1, <2>1 DEF Inserted
    <2> QED BY <2>2 DEF IInv
<1>3. CASE ref # BAD_REF
    <2>1. ASSUME NEW N \in Rooms, NEW q,
                 IsList(list, N) /\ IsHeld(list, N, held) /\ IsChain(list, N, held, q)
                 /\ (~erased => \E p : IsRing(list, held, p))
          PROVE  /\ new.ref = list.m_free_head_ref
                 /\ \E r \in {0} \cup DOMAIN held : IsInserted(list, new.list, N, r, val)
        <3>1. N \in Nat /\ IsList(list, N) /\ IsHeld(list, N, held) /\ IsChain(list, N, held, q)
            BY <2>1, RoomsAre
        <3>2. PICK p : IsRing(list, held, p)
            BY <2>1
        <3>3. list.m_ghost = 0
            BY <3>1 DEF IsList, Lst
        <3>4. ref \in {0} \cup DOMAIN held
            BY <1>3, <3>3 DEF Refs
        <3>5. PICK j \in 0..list.m_size : p[j] = ref
            BY <3>2, <3>4 DEF IsRing
        <3> DEFINE i == IF j = 0 THEN list.m_size ELSE j - 1
                   at == insert_before(list, p[j], val, junk)
        <3>6. at.ref = list.m_free_head_ref /\ IsInserted(list, at.list, N, p[i], val)
            BY <3>1, <3>2, InsertBeforeRing
        <3>7. at = new
            BY <3>5
        <3>8. i \in 0..list.m_size
            BY <3>1 DEF IsList
        <3> HIDE DEF i, at, new
        <3>9. p[i] \in {0} \cup DOMAIN held
            BY <3>2, <3>8 DEF IsRing
        <3> QED BY <3>6, <3>7, <3>9
    <2> HIDE DEF new
    <2> QED BY <1>1, <2>1, InsertedInv
<1> QED BY <1>2, <1>3

LEMMA CreateInv ==
    ASSUME IInv, NEW cap \in Caps, NEW junk \in JunkNodes, Create(cap, junk)
    PROVE  IInv'
<1> DEFINE N == Room(cap)
           l == List(cap, junk)
<1>1. cap \in Nat
    BY ListAssumption
<1>2. N \in Rooms
    BY DEF Rooms
<1>3. /\ IsList(l, N) /\ IsHeld(l, N, EmptyFun)
      /\ IsChain(l, N, EmptyFun, [k \in 0..N |-> IF k = 0 THEN -1 ELSE N + 1 - k])
      /\ IsRing(l, EmptyFun, [k \in 0..0 |-> 0])
    BY <1>1, ListMade
<1>4. list' = l /\ made' = TRUE /\ held' = EmptyFun /\ erased' = FALSE
    BY DEF Create, Construct, EmptyFun
<1> HIDE DEF l, N
<1>5. Sound(l, EmptyFun, FALSE)
    BY <1>2, <1>3 DEF Sound
<1>6. Sound(list', held', erased')
    BY <1>4, <1>5
<1> QED BY <1>4, <1>6 DEF IInv

LEMMA CreateFromInv ==
    ASSUME IInv, NEW vals \in InitLists, NEW junk \in JunkNodes, CreateFrom(vals, junk)
    PROVE  IInv'
<1> DEFINE n == Len(vals)
           N == Room(n)
           l == ListOf(vals, junk)
           h == [r \in 1..n |-> vals[r]]
<1>1. vals \in Seq(Vals) /\ n \in Nat
    BY ListAssumption
<1>2. N \in Rooms
    BY DEF Rooms
<1>3. Built(l, N, vals, n)
    BY <1>1, ListOfIs
<1>4. list' = l /\ made' = TRUE /\ held' = h /\ erased' = FALSE
    BY DEF CreateFrom, Construct
<1> HIDE DEF l, N
<1>5. Sound(l, h, FALSE)
    BY <1>2, <1>3 DEF Sound, Built
<1>6. Sound(list', held', erased')
    BY <1>4, <1>5
<1> QED BY <1>4, <1>6 DEF IInv

LEMMA AssignInv ==
    ASSUME IInv, NEW ref \in DOMAIN held, NEW val \in Vals, Assign(ref, val)
    PROVE  IInv'
<1> DEFINE m == [list EXCEPT !.m_buffer[ref].val = val]
           g == With(held, ref, val)
<1>1. PICK N \in Rooms :
         /\ IsList(list, N) /\ IsHeld(list, N, held)
         /\ \E q : IsChain(list, N, held, q)
         /\ ~erased => \E p : IsRing(list, held, p)
    BY DEF IInv, Sound, Assign
<1>2. PICK q : IsChain(list, N, held, q)
    BY <1>1
<1>3. /\ IsList(m, N) /\ IsHeld(m, N, g) /\ IsChain(m, N, g, q)
      /\ \A p : IsRing(list, held, p) => IsRing(m, g, p)
    <2>1. N \in Nat
        BY RoomsAre
    <2> QED BY <1>1, <1>2, <2>1, AssignedList
<1>4. made /\ list' = m /\ held' = g /\ made' = made /\ erased' = erased
    BY DEF Assign
<1> HIDE DEF m, g
<1>5. Sound(m, g, erased)
    BY <1>1, <1>3 DEF Sound
<1>6. Sound(list', held', erased')
    BY <1>4, <1>5
<1> QED BY <1>4, <1>6 DEF IInv

LEMMA EraseInv ==
    ASSUME IInv, NEW ref \in DOMAIN held \cup {BAD_REF}, Erase(ref)
    PROVE  IInv'
<1> DEFINE m == erase(list, ref)
           g == [r \in DOMAIN held \ {ref} |-> held[r]]
<1>1. PICK N \in Rooms :
         /\ IsList(list, N) /\ IsHeld(list, N, held)
         /\ \E q : IsChain(list, N, held, q)
         /\ ~erased => \E p : IsRing(list, held, p)
    BY DEF IInv, Sound, Erase
<1>2. DOMAIN held \subseteq 1..N /\ held = [r \in DOMAIN held |-> held[r]]
    BY <1>1 DEF IsHeld
<1>3. made /\ list' = m /\ held' = g /\ made' = made /\ erased' = (erased \/ is_valid_ref(ref))
    BY DEF Erase
<1>4. CASE ref = BAD_REF
    <2>1. m = list /\ ~is_valid_ref(ref)
        BY <1>4 DEF erase, is_valid_ref
    <2>2. BAD_REF \notin DOMAIN held
        BY <1>2 DEF BAD_REF
    <2>3. g = held
        BY <1>2, <1>4, <2>2
    <2>4. list' = list /\ held' = held /\ made' = made /\ erased' = erased
        BY <1>3, <2>1, <2>3 DEF IInv
    <2> QED BY <2>4 DEF IInv
<1>5. CASE ref # BAD_REF
    <2>1. ref \in DOMAIN held /\ is_valid_ref(ref)
        BY <1>5 DEF is_valid_ref
    <2>2. PICK q : IsChain(list, N, held, q)
        BY <1>1
    <2>3. IsList(m, N) /\ IsHeld(m, N, g) /\ \E x : IsChain(m, N, g, x)
        <3>1. N \in Nat /\ IsList(list, N) /\ IsHeld(list, N, held)
            BY <1>1, RoomsAre
        <3>2. g = Without(held, ref)
            BY DEF Without
        <3> HIDE DEF g
        <3> QED BY <2>1, <2>2, <3>1, <3>2, ErasedList
    <2>4. erased' = TRUE
        BY <1>3, <2>1
    <2> HIDE DEF m, g
    <2>5. Sound(m, g, TRUE)
        BY <2>3 DEF Sound
    <2>6. Sound(list', held', erased')
        BY <1>3, <2>4, <2>5
    <2> QED BY <1>3, <2>4, <2>6 DEF IInv
<1> QED BY <1>4, <1>5

LEMMA InitInv == Init => IInv
BY DEF Init, IInv, EmptyFun

LEMMA NextInv == IInv /\ [Next]_vars => IInv'
<1> SUFFICES ASSUME IInv, [Next]_vars PROVE IInv'
    OBVIOUS
<1>1. CASE Lifecycle
    <2>1. CASE \E cap \in Caps, junk \in JunkNodes : Create(cap, junk)
        BY <2>1, CreateInv
    <2>2. CASE \E vals \in InitLists, junk \in JunkNodes : CreateFrom(vals, junk)
        BY <2>2, CreateFromInv
    <2>3. CASE Destroy
        BY <2>3 DEF Destroy, IInv, EmptyFun
    <2> QED BY <1>1, <2>1, <2>2, <2>3 DEF Lifecycle
<1>2. CASE Assignments
    BY <1>2, AssignInv DEF Assignments
<1>3. CASE Erasures
    BY <1>3, EraseInv DEF Erasures
<1>4. CASE ~full(list) /\ InsertionsAfter
    BY <1>4, InsertAfterInv DEF InsertionsAfter
<1>5. CASE ~full(list) /\ ~erased /\ Insertions
    BY <1>5, InsertFrontInv, InsertBackInv, InsertBeforeInv DEF Insertions
<1>6. CASE UNCHANGED vars
    BY <1>6 DEF vars, IInv
<1> QED BY <1>1, <1>2, <1>3, <1>4, <1>5, <1>6 DEF Next

-----------------------------------------------------------------------------
(* What the invariant says of the properties.                              *)

LEMMA InvTypeOK == IInv => TypeOK
<1> SUFFICES ASSUME IInv PROVE TypeOK
    OBVIOUS
<1>1. CASE ~made
    <2>1. list = NoList /\ held = EmptyFun /\ erased = FALSE
        BY <1>1 DEF IInv
    <2>2. /\ list.m_buffer = EmptyFun /\ list.m_ghost = BAD_REF /\ list.m_free_head_ref = BAD_REF
          /\ list.m_size = 0
        BY <2>1 DEF NoList, EmptyFun
    <2>3. DOMAIN EmptyFun = {} /\ Slots(list) = {}
        BY <2>2 DEF EmptyFun, Slots
    <2>4. \A X : EmptyFun \in [{} -> X]
        BY DEF EmptyFun
    <2> DEFINE RefType == Slots(list) \cup {BAD_REF}
    <2>5. list.m_buffer \in [Slots(list) -> [val : {list.m_buffer[r].val : r \in Slots(list)},
                                             next : RefType, prev : RefType]]
        BY <2>2, <2>3, <2>4
    <2>6. list.m_ghost \in RefType /\ list.m_free_head_ref \in RefType /\ list.m_size \in Nat
        BY <2>2
    <2>7. DOMAIN held = {}
        BY <2>1, <2>3
    <2> HIDE DEF RefType
    <2>8. made = (list # NoList) /\ erased \in BOOLEAN /\ (erased => made)
        <3>1. made = FALSE
            BY <1>1 DEF IInv
        <3> QED BY <2>1, <3>1
    <2> QED BY <2>5, <2>6, <2>7, <2>8 DEF TypeOK, RefType
<1>2. CASE made
    <2>1. PICK N \in Rooms : IsList(list, N) /\ IsHeld(list, N, held)
        BY <1>2 DEF IInv, Sound
    <2> DEFINE b == list.m_buffer
               RefType == Slots(list) \cup {BAD_REF}
    <2>2. N \in Nat /\ 0 \in 0..N
        BY RoomsAre
    <2>3. Slots(list) = 0..N /\ RefType = -1..N
        <3>1. Slots(list) = 0..N
            BY <2>1, <2>2, CapacityIs
        <3> QED BY <2>2, <3>1 DEF BAD_REF
    <2>4. b \in [Slots(list) -> [val : {b[r].val : r \in Slots(list)}, next : RefType, prev : RefType]]
        <3>1. Fun(b, N) /\ \A r \in 0..N : Node(b[r]) /\ b[r].next \in -1..N /\ b[r].prev \in -1..N
            BY <2>1 DEF IsList, IsArray
        <3> HIDE DEF b, RefType
        <3>2. ASSUME NEW r \in 0..N
              PROVE  b[r] \in [val : {b[s].val : s \in 0..N}, next : RefType, prev : RefType]
            <4>1. b[r].val \in {b[s].val : s \in 0..N} /\ b[r].next \in RefType /\ b[r].prev \in RefType
                BY <2>3, <3>1
            <4>2. b[r] = [val |-> b[r].val, next |-> b[r].next, prev |-> b[r].prev]
                BY <3>1 DEF Node
            <4> QED BY <4>1, <4>2
        <3> QED BY <2>3, <3>1, <3>2 DEF Fun
    <2>5. list.m_ghost = 0 /\ list.m_free_head_ref \in RefType /\ list.m_size \in Nat
        <3>1. list.m_ghost = 0 /\ list.m_free_head_ref \in -1..N /\ list.m_size \in 0..N
            BY <2>1 DEF IsList, Lst
        <3> QED BY <2>2, <2>3, <3>1
    <2>6. list # NoList
        BY <2>5 DEF NoList, BAD_REF
    <2>7. DOMAIN held \subseteq 1..N /\ \A r \in DOMAIN held : held[r] \in Vals
        BY <2>1 DEF IsHeld
    <2>8. DOMAIN held \subseteq Slots(list) \ {list.m_ghost}
        BY <2>2, <2>3, <2>5, <2>7
    <2>9. erased \in BOOLEAN
        BY DEF IInv
    <2> QED BY <1>2, <2>2, <2>3, <2>4, <2>5, <2>6, <2>7, <2>8, <2>9 DEF TypeOK
<1> QED BY <1>1, <1>2 DEF IInv

LEMMA InvRing == IInv => RingWellFormed
<1> SUFFICES ASSUME IInv, made, ~erased PROVE RingWellFormed
    BY DEF RingWellFormed
<1>1. PICK N \in Rooms :
         IsList(list, N) /\ IsHeld(list, N, held) /\ \E p : IsRing(list, held, p)
    BY DEF IInv, Sound
<1>2. PICK p : IsRing(list, held, p)
    BY <1>1
<1> DEFINE z    == list.m_size
           b    == list.m_buffer
           ring == DOMAIN held \cup {list.m_ghost}
           path == Walk(list, 0)
<1>3. N \in Nat /\ IsList(list, N) /\ IsHeld(list, N, held)
    BY <1>1, RoomsAre
<1>4. list.m_ghost = 0 /\ z \in 0..N
    BY <1>3 DEF IsList, Lst
<1>5. z = Cardinality(DOMAIN held)
    BY <1>3 DEF IsHeld
<1>6. (\A k \in 0..z : path[k] = p[k]) /\ path[z + 1] = 0
    BY <1>2, <1>3, RingWalk
<1>7. /\ p \in [0..z -> {0} \cup DOMAIN held] /\ p[0] = 0
      /\ \A k \in 1..z : b[p[k - 1]].next = p[k] /\ b[p[k]].prev = p[k - 1]
      /\ b[p[z]].next = 0 /\ b[0].prev = p[z]
      /\ \A r \in {0} \cup DOMAIN held : \E k \in 0..z : p[k] = r
    BY <1>2 DEF IsRing
<1> HIDE DEF z, b, path
<1>8. {path[k] : k \in 0..z} = ring
    <2>1. \A k \in 0..z : path[k] \in ring
        BY <1>4, <1>6, <1>7
    <2>2. ASSUME NEW r \in ring PROVE \E k \in 0..z : path[k] = r
        <3>1. PICK k \in 0..z : p[k] = r
            BY <1>4, <1>7
        <3> QED BY <1>6, <3>1
    <2> QED BY <2>1, <2>2
<1>9. ASSUME NEW r \in ring PROVE b[b[r].next].prev = r
    <2>1. PICK k \in 0..z : p[k] = r
        BY <1>4, <1>7, <1>9
    <2>2. CASE k = z
        BY <1>7, <2>1, <2>2
    <2>3. CASE k # z
        <3>1. k + 1 \in 1..z /\ k + 1 - 1 = k
            BY <1>4, <2>3
        <3>2. b[p[k + 1 - 1]].next = p[k + 1] /\ b[p[k + 1]].prev = p[k + 1 - 1]
            BY <1>7, <3>1
        <3>3. p[k + 1 - 1] = r
            BY <2>1, <3>1
        <3>4. b[r].next = p[k + 1] /\ b[p[k + 1]].prev = r
            BY <3>2, <3>3
        <3> QED BY <3>4
    <2> QED BY <2>2, <2>3
<1> QED BY <1>4, <1>5, <1>6, <1>8, <1>9 DEF RingWellFormed, z, b, path

LEMMA InvChain == IInv => FreeChain
<1> SUFFICES ASSUME IInv, made PROVE FreeChain
    BY DEF FreeChain
<1>1. PICK N \in Rooms :
         IsList(list, N) /\ IsHeld(list, N, held) /\ \E q : IsChain(list, N, held, q)
    BY DEF IInv, Sound
<1>2. PICK q : IsChain(list, N, held, q)
    BY <1>1
<1> DEFINE F    == N - list.m_size
           free == Slots(list) \ (DOMAIN held \cup {list.m_ghost})
           path == Walk(list, list.m_free_head_ref)
<1>3. N \in Nat /\ IsList(list, N) /\ IsHeld(list, N, held)
    BY <1>1, RoomsAre
<1>4. F \in Nat
    BY <1>3 DEF IsList
<1>5. free = (1..N) \ DOMAIN held
    <2>1. Slots(list) = 0..N /\ list.m_ghost = 0
        BY <1>3, CapacityIs DEF IsList, Lst
    <2> QED BY <1>3, <2>1
<1>6. Cardinality(free) = F
    <2>1. IsFiniteSet(DOMAIN held) /\ DOMAIN held \subseteq 1..N /\ list.m_size = Cardinality(DOMAIN held)
        BY <1>3 DEF IsHeld
    <2>2. IsFiniteSet(1..N) /\ Cardinality(1..N) = N
        <3>1. Cardinality(1..N) = IF 1 > N THEN 0 ELSE N - 1 + 1
            BY <1>3, FS_Interval
        <3>2. IsFiniteSet(1..N)
            BY <1>3, FS_Interval
        <3> QED BY <1>3, <3>1, <3>2
    <2>3. IsFiniteSet(free)
        BY <1>5, <2>2, FS_Subset
    <2>4. free \cap DOMAIN held = {} /\ free \cup DOMAIN held = 1..N
        BY <1>5, <2>1
    <2> HIDE DEF free
    <2>5. Cardinality(free \cup DOMAIN held) = Cardinality(free) + Cardinality(DOMAIN held)
        BY <2>1, <2>3, <2>4, DisjointAdd
    <2>6. Cardinality(free) \in Nat /\ list.m_size \in Nat
        <3>1. list.m_size \in 0..N
            BY <1>3 DEF IsList
        <3> QED BY <1>3, <2>3, <3>1, FS_CardinalityType
    <2>7. Cardinality(free) + list.m_size = N
        BY <2>1, <2>2, <2>4, <2>5
    <2> QED BY <1>3, <2>6, <2>7
<1>7. \A k \in 0..F : path[k] = q[F - k]
    BY <1>2, <1>3, ChainWalk
<1>8. /\ q[0] = -1
      /\ \A k \in 1..F : q[k] \in (1..N) \ DOMAIN held
      /\ \A r \in (1..N) \ DOMAIN held : \E k \in 1..F : q[k] = r
    BY <1>2 DEF IsChain
<1> HIDE DEF F, free, path
<1>9. {path[k] : k \in 0..(F - 1)} = free
    <2>1. ASSUME NEW k \in 0..(F - 1) PROVE path[k] \in free
        <3>1. k \in 0..F /\ F - k \in 1..F
            BY <1>4
        <3> QED BY <1>5, <1>7, <1>8, <3>1
    <2>2. ASSUME NEW r \in free PROVE \E k \in 0..(F - 1) : path[k] = r
        <3>1. PICK j \in 1..F : q[j] = r
            BY <1>5, <1>8, <2>2
        <3>2. F - j \in 0..(F - 1) /\ F - j \in 0..F /\ F - (F - j) = j
            BY <1>4
        <3>3. path[F - j] = q[F - (F - j)]
            BY <1>7, <3>2
        <3>4. path[F - j] = r
            BY <3>1, <3>2, <3>3
        <3> QED BY <3>2, <3>4
    <2> QED BY <2>1, <2>2
<1>10. path[F] = BAD_REF
    <2>1. F \in 0..F /\ F - F = 0
        BY <1>4
    <2> QED BY <1>7, <1>8, <2>1 DEF BAD_REF
<1> QED BY <1>6, <1>9, <1>10 DEF FreeChain, free, path

LEMMA InvValues == IInv => RefsKeepValues
<1> SUFFICES ASSUME IInv, made, NEW r \in DOMAIN held PROVE get(list, r) = held[r]
    BY DEF RefsKeepValues
<1>1. PICK N \in Rooms : IsHeld(list, N, held)
    BY DEF IInv, Sound
<1>2. r # BAD_REF /\ list.m_buffer[r].val = held[r]
    BY <1>1 DEF IsHeld, BAD_REF
<1> QED BY <1>2 DEF get, is_valid_ref

-----------------------------------------------------------------------------
(* Theorems of the specification.                                          *)

(* For every capacity a client may ask for and whatever it inserts, erases *)
(* and assigns without filling the list (class List, list.h:12): the free  *)
(* slots form one chain that ends, the client's references are the slots   *)
(* in use, and until the first erasure these form one ring.                *)
THEOREM Inductive == Spec => []IInv
<1>1. IInv /\ [Next]_vars => IInv'
    BY NextInv
<1> QED BY InitInv, <1>1, PTL DEF Spec

(* Every reference in the array is to a node or BAD_REF, and what the      *)
(* client holds are slots of the array (class List, list.h:12).            *)
THEOREM TypeCorrect == Spec => []TypeOK
BY Inductive, InvTypeOK, PTL

(* As long as nothing is erased, next leads from the ghost through every   *)
(* element once and back, and prev is the way back (insert_after and       *)
(* insert_before, list.cpp:120 and 136).                                   *)
THEOREM RingIsWellFormed == Spec => []RingWellFormed
BY Inductive, InvRing, PTL

(* After any insertions and erasures the chain of free slots ends, and     *)
(* holds every slot not in use once: no insertion gets a slot that the     *)
(* client still refers to (allocate_val and erase, list.cpp:82).           *)
THEOREM FreeChainIsRight == Spec => []FreeChain
BY Inductive, InvChain, PTL

(* A reference keeps the value stored under it through every insertion,    *)
(* erasure and assignment elsewhere (get; Tests/test.cpp:17).              *)
THEOREM ReferencesKeepValues == Spec => []RefsKeepValues
BY Inductive, InvValues, PTL

-----------------------------------------------------------------------------
(* The list implements RefList.                                            *)

(* What InsertAt makes of a sequence, place by place.                       *)
Shifted(s, i, e) == [k \in 1..(Len(s) + 1) |-> IF k < i THEN s[k] ELSE IF k = i THEN e ELSE s[k - 1]]
LEMMA InsertAtIs ==
    ASSUME NEW S, NEW s \in Seq(S), NEW i \in 1..(Len(s) + 1), NEW e \in S
    PROVE  InsertAt(s, i, e) = Shifted(s, i, e)
<1> DEFINE n == Len(s)
           a == SubSeq(s, 1, i - 1)
           b == SubSeq(s, i, n)
           c == a \o <<e>>
<1>1. n \in Nat /\ i \in 1..(n + 1)
    OBVIOUS
<1>2. a \in Seq(S) /\ Len(a) = i - 1 /\ \A k \in 1..(i - 1) : a[k] = s[k]
    OBVIOUS
<1>3. b \in Seq(S) /\ Len(b) = n + 1 - i /\ \A k \in 1..(n + 1 - i) : b[k] = s[i + k - 1]
    OBVIOUS
<1>4. c \in Seq(S) /\ Len(c) = i /\ c[i] = e /\ \A k \in 1..(i - 1) : c[k] = s[k]
    <2> HIDE DEF a
    <2> QED BY <1>1, <1>2
<1> HIDE DEF c, b, n
<1> DEFINE w == c \o b
<1>5. /\ w \in Seq(S) /\ Len(w) = n + 1
      /\ \A k \in 1..(n + 1) : w[k] = IF k <= i THEN c[k] ELSE b[k - i]
    <2>1. c \in Seq(S) /\ b \in Seq(S) /\ Len(c) = i /\ Len(b) = n + 1 - i
        BY <1>3, <1>4
    <2>2. /\ w \in Seq(S) /\ Len(w) = Len(c) + Len(b)
          /\ \A k \in 1..(Len(c) + Len(b)) : w[k] = IF k <= Len(c) THEN c[k] ELSE b[k - Len(c)]
        BY <2>1, ConcatProperties
    <2>3. Len(c) + Len(b) = n + 1
        BY <1>1, <2>1
    <2> QED BY <2>1, <2>2, <2>3
<1> HIDE DEF w
<1>6. ASSUME NEW k \in 1..(n + 1) PROVE w[k] = IF k < i THEN s[k] ELSE IF k = i THEN e ELSE s[k - 1]
    <2>1. CASE k <= i
        BY <1>1, <1>4, <1>5, <2>1
    <2>2. CASE k > i
        <3>1. w[k] = b[k - i]
            BY <1>1, <1>5, <2>2
        <3>2. k - i \in 1..(n + 1 - i) /\ i + (k - i) - 1 = k - 1
            BY <1>1, <2>2
        <3> QED BY <1>1, <1>3, <2>2, <3>1, <3>2
    <2> QED BY <1>1, <2>1, <2>2
<1>7. InsertAt(s, i, e) = w
    BY DEF InsertAt, w, c, b, n
<1>8. w = [k \in 1..(n + 1) |-> w[k]]
    <2>1. w \in [1..(n + 1) -> S]
        BY <1>5, LenProperties
    <2> QED BY <2>1
<1> QED BY <1>6, <1>7, <1>8 DEF Shifted, n

(* The elements, in the order of the ring p.                               *)
Elements(z, p, h) == [k \in 1..z |-> [ref |-> p[k], val |-> h[p[k]]]]

LEMMA RingRefs ==
    ASSUME NEW l, NEW N \in Nat, NEW h, NEW p, IsList(l, N), IsHeld(l, N, h), IsRing(l, h, p)
    PROVE  \A k \in 1..l.m_size : p[k] \in DOMAIN h
<1>1. l.m_size \in 0..N
    BY DEF IsList
<1>2. /\ p \in [0..l.m_size -> {0} \cup DOMAIN h] /\ p[0] = 0
      /\ \A j, k \in 0..l.m_size : p[j] = p[k] => j = k
    BY DEF IsRing
<1> QED BY <1>1, <1>2

LEMMA ItemsAre ==
    ASSUME NEW l, NEW N \in Nat, NEW h, NEW p, IsList(l, N), IsHeld(l, N, h), IsRing(l, h, p)
    PROVE  Items(l) = Elements(l.m_size, p, h)
<1> DEFINE z    == l.m_size
           path == Walk(l, 0)
<1>1. l.m_ghost = 0 /\ z \in 0..N
    BY DEF IsList, Lst
<1>2. \A k \in 0..z : path[k] = p[k]
    BY RingWalk
<1>3. \A k \in 1..z : p[k] \in DOMAIN h
    BY RingRefs
<1>4. \A r \in DOMAIN h : r # BAD_REF /\ l.m_buffer[r].val = h[r]
    BY DEF IsHeld, BAD_REF
<1>5. Items(l) = [k \in 1..z |-> [ref |-> path[k], val |-> get(l, path[k])]]
    BY <1>1 DEF Items
<1> HIDE DEF z, path
<1>6. ASSUME NEW k \in 1..z PROVE path[k] = p[k] /\ get(l, path[k]) = h[p[k]]
    <2>1. k \in 0..z
        BY <1>1
    <2>2. path[k] = p[k]
        BY <1>2, <2>1
    <2>3. p[k] # BAD_REF /\ l.m_buffer[p[k]].val = h[p[k]]
        BY <1>3, <1>4
    <2> QED BY <2>2, <2>3 DEF get, is_valid_ref
<1> QED BY <1>5, <1>6 DEF Elements, z

LEMMA ElementsSeq ==
    ASSUME NEW z \in Nat, NEW p, NEW h, NEW R, \A k \in 1..z : p[k] \in DOMAIN h,
           \A r \in DOMAIN h : r \in R /\ h[r] \in Vals
    PROVE  Elements(z, p, h) \in Seq([ref : R, val : Vals]) /\ Len(Elements(z, p, h)) = z
BY DEF Elements

(* An insertion into the ring is one into the sequence.                    *)
LEMMA InsertedElements ==
    ASSUME NEW z \in Nat, NEW p, NEW h, NEW a, a \notin DOMAIN h, NEW val \in Vals, NEW i \in 0..z,
           \A k \in 1..z : p[k] \in DOMAIN h, \A r \in DOMAIN h : h[r] \in Vals
    PROVE  Elements(z + 1, Widened(p, z, i, a), With(h, a, val))
           = InsertAt(Elements(z, p, h), i + 1, [ref |-> a, val |-> val])
<1> DEFINE s == Elements(z, p, h)
           e == [ref |-> a, val |-> val]
           S == [ref : DOMAIN h \cup {a}, val : Vals]
           w == Widened(p, z, i, a)
           g == With(h, a, val)
<1>1. s \in Seq(S) /\ Len(s) = z
    <2>1. \A r \in DOMAIN h : r \in DOMAIN h \cup {a} /\ h[r] \in Vals
        OBVIOUS
    <2> QED BY <2>1, ElementsSeq
<1>2. e \in S /\ i + 1 \in 1..(Len(s) + 1)
    BY <1>1
<1>3. \A k \in 1..z : s[k] = [ref |-> p[k], val |-> h[p[k]]]
    BY DEF Elements
<1> HIDE DEF s, e, S
<1>4. InsertAt(s, i + 1, e) = Shifted(s, i + 1, e)
    BY <1>1, <1>2, InsertAtIs
<1>5. ASSUME NEW k \in 1..(z + 1)
      PROVE  [ref |-> w[k], val |-> g[w[k]]]
             = IF k < i + 1 THEN s[k] ELSE IF k = i + 1 THEN e ELSE s[k - 1]
    <2>1. w[k] = IF k <= i THEN p[k] ELSE IF k = i + 1 THEN a ELSE p[k - 1]
        BY DEF Widened
    <2>2. g[a] = val /\ \A r \in DOMAIN h : g[r] = h[r]
        BY DEF With
    <2> HIDE DEF w, g
    <2>3. CASE k <= i
        <3>1. k \in 1..z
            BY <2>3
        <3>2. w[k] = p[k] /\ p[k] \in DOMAIN h
            BY <2>1, <2>3, <3>1
        <3>3. k < i + 1
            BY <2>3
        <3> QED BY <1>3, <2>2, <3>1, <3>2, <3>3
    <2>4. CASE k = i + 1
        <3>1. w[k] = a /\ ~(k < i + 1)
            BY <2>1, <2>4
        <3> QED BY <2>2, <2>4, <3>1 DEF e
    <2>5. CASE k > i + 1
        <3>1. k - 1 \in 1..z /\ ~(k < i + 1) /\ k # i + 1 /\ ~(k <= i)
            BY <2>5
        <3>2. w[k] = p[k - 1] /\ p[k - 1] \in DOMAIN h
            BY <2>1, <3>1
        <3> QED BY <1>3, <2>2, <3>1, <3>2
    <2> QED BY <2>3, <2>4, <2>5
<1> HIDE DEF w, g
<1>6. Elements(z + 1, w, g) = [k \in 1..(z + 1) |-> [ref |-> w[k], val |-> g[w[k]]]]
    BY DEF Elements
<1>7. Elements(z + 1, w, g) = Shifted(s, i + 1, e)
    BY <1>1, <1>5, <1>6 DEF Shifted
<1> QED BY <1>4, <1>7 DEF s, e, w, g

AllRefs == UNION {0..N : N \in Rooms}

LEMMA RefsAre == \A N \in Rooms : N \in Nat /\ \A r \in 0..N : r \in AllRefs
BY RoomsAre DEF AllRefs

(* Until the first erasure: the sequence and what is used of the slots.    *)
LEMMA OrderlyItems ==
    ASSUME NEW N \in Rooms, NEW p, Orderly, IsList(list, N), IsHeld(list, N, held), IsRing(list, held, p)
    PROVE  LET items == IF Orderly THEN Items(list) ELSE <<>>
               z     == list.m_size
           IN  /\ items = Elements(z, p, held) /\ items \in Seq([ref : AllRefs, val : Vals]) /\ Len(items) = z
               /\ z \in Nat
               /\ \A k \in 1..z : p[k] \in DOMAIN held /\ items[k].ref = p[k]
               /\ RefSeq!Used = DOMAIN held
<1> DEFINE items == IF Orderly THEN Items(list) ELSE <<>>
           z     == list.m_size
<1>1. N \in Nat
    BY RoomsAre
<1>2. z \in Nat /\ z \in 0..N
    BY <1>1 DEF IsList
<1>3. items = Elements(z, p, held)
    BY <1>1, ItemsAre
<1>4. \A k \in 1..z : p[k] \in DOMAIN held
    BY <1>1, RingRefs
<1>5. \A r \in DOMAIN held : r \in AllRefs /\ held[r] \in Vals
    <2>1. \A r \in DOMAIN held : r \in 0..N /\ held[r] \in Vals
        BY <1>1 DEF IsHeld
    <2> QED BY <2>1, RefsAre
<1>6. \A r \in DOMAIN held : \E k \in 1..z : p[k] = r
    <2>1. p[0] = 0 /\ \A r \in {0} \cup DOMAIN held : \E k \in 0..z : p[k] = r
        BY DEF IsRing
    <2>2. 0 \notin DOMAIN held
        BY <1>1 DEF IsHeld
    <2>3. ASSUME NEW r \in DOMAIN held PROVE \E k \in 1..z : p[k] = r
        <3>1. PICK k \in 0..z : p[k] = r
            BY <2>1
        <3>2. k # 0
            BY <2>1, <2>2, <3>1
        <3> QED BY <1>2, <3>1, <3>2
    <2> QED BY <2>3
<1> HIDE DEF z
<1>7. Elements(z, p, held) \in Seq([ref : AllRefs, val : Vals]) /\ Len(Elements(z, p, held)) = z
    BY <1>2, <1>4, <1>5, ElementsSeq
<1>8. \A k \in 1..z : Elements(z, p, held)[k].ref = p[k]
    BY DEF Elements
<1>9. RefSeq!Used = {items[k].ref : k \in 1..Len(items)}
    BY DEF RefSeq!Used
<1> HIDE DEF items
<1>10. RefSeq!Used = DOMAIN held
    <2>1. \A k \in 1..z : items[k].ref = p[k] /\ p[k] \in DOMAIN held
        BY <1>3, <1>4, <1>8
    <2>2. Len(items) = z
        BY <1>3, <1>7
    <2>3. RefSeq!Used = {items[k].ref : k \in 1..z}
        BY <1>9, <2>2
    <2>4. ASSUME NEW r PROVE r \in RefSeq!Used <=> r \in DOMAIN held
        <3>1. r \in RefSeq!Used <=> \E k \in 1..z : r = items[k].ref
            BY <2>3
        <3>2. (\E k \in 1..z : r = items[k].ref) <=> \E k \in 1..z : r = p[k]
            BY <2>1
        <3>3. (\E k \in 1..z : r = p[k]) <=> r \in DOMAIN held
            BY <1>6, <2>1
        <3> QED BY <3>1, <3>2, <3>3
    <2> HIDE DEF RefSeq!Used
    <2> QED BY <2>4
<1> QED BY <1>2, <1>3, <1>4, <1>7, <1>8, <1>10 DEF items, z

(* An insertion of the list is one of the sequence, at the same place.     *)
LEMMA InsertStep ==
    ASSUME NEW N \in Rooms, NEW q, NEW p, made, ~erased, ~full(list),
           IsList(list, N), IsHeld(list, N, held), IsChain(list, N, held, q), IsRing(list, held, p),
           NEW op, NEW at, NEW new, NEW val \in Vals, Inserted(op, at, new, val),
           NEW i \in 0..list.m_size,
           new.ref = list.m_free_head_ref, IsInserted(list, new.list, N, p[i], val)
    PROVE  RefSeq!Insert(op, at, i + 1)
<1> DEFINE a == list.m_free_head_ref
           z == list.m_size
           w == Widened(p, z, i, a)
           g == With(held, a, val)
           items == IF Orderly THEN Items(list) ELSE <<>>
           Items1 == Items(new.list)
<1>1. N \in Nat
    BY RoomsAre
<1>2. Orderly
    BY DEF Orderly
<1>3. /\ items = Elements(z, p, held) /\ items \in Seq([ref : AllRefs, val : Vals]) /\ Len(items) = z /\ z \in Nat
      /\ \A k \in 1..z : p[k] \in DOMAIN held
      /\ RefSeq!Used = DOMAIN held
    BY <1>2, OrderlyItems
<1>4. a \in (1..N) \ DOMAIN held
    BY <1>1, ChainHead
<1>5. a \in AllRefs /\ a # BAD_REF
    <2>1. a \in 0..N
        BY <1>1, <1>4
    <2> QED BY <1>1, <1>4, <2>1, RefsAre DEF BAD_REF
<1>6. IsList(new.list, N) /\ IsHeld(new.list, N, g) /\ new.list.m_size = z + 1
    <2>1. p[i] \in {0} \cup DOMAIN held
        BY DEF IsRing
    <2> QED BY <1>1, <2>1, InsertedList
<1>7. IsRing(new.list, g, w)
    BY <1>1, InsertedRing
<1> HIDE DEF a, z, w, g
<1>8. Items1 = Elements(z + 1, w, g)
    BY <1>1, <1>6, <1>7, ItemsAre
<1> HIDE DEF Items1
<1>9. Items1 = InsertAt(items, i + 1, [ref |-> a, val |-> val])
    <2>1. \A r \in DOMAIN held : held[r] \in Vals
        BY DEF IsHeld
    <2>2. i \in 0..z /\ a \notin DOMAIN held
        BY <1>4 DEF z
    <2>3. Elements(z + 1, w, g) = InsertAt(Elements(z, p, held), i + 1, [ref |-> a, val |-> val])
        BY <1>3, <2>1, <2>2, InsertedElements DEF w, g
    <2> QED BY <1>3, <1>8, <2>3
<1>10. /\ list' = new.list /\ held' = g /\ made' = made /\ erased' = erased
       /\ ret' = [op |-> op, at |-> at, ref |-> a]
    BY <1>5 DEF Inserted, Return, a, g
<1>11. Orderly' /\ Orderly' = Orderly
    BY <1>2, <1>10 DEF Orderly
<1>12. (IF Orderly THEN Items(list) ELSE <<>>)' = Items1
    BY <1>10, <1>11 DEF Items1
<1>13. (IF erased THEN Erased ELSE ret)' = [op |-> op, at |-> at, ref |-> a]
    BY <1>10
<1>14. RefSeq!InsertAt(items, i + 1, [ref |-> a, val |-> val]) = InsertAt(items, i + 1, [ref |-> a, val |-> val])
    BY DEF RefSeq!InsertAt, InsertAt
<1>15. a \in UNION {0..M : M \in Rooms} /\ a \notin RefSeq!Used
    BY <1>3, <1>4, <1>5 DEF AllRefs
<1> QED BY <1>9, <1>11, <1>12, <1>13, <1>14, <1>15 DEF RefSeq!Insert, RefSeq!Result, items

(* What there is of a list that has lost no element.                       *)
LEMMA OrderlyParts ==
    ASSUME IInv, made, ~erased
    PROVE  \E N, q, p :
              /\ N \in Rooms
              /\ IsList(list, N) /\ IsHeld(list, N, held)
              /\ IsChain(list, N, held, q) /\ IsRing(list, held, p)
BY DEF IInv, Sound

LEMMA CreateStep ==
    ASSUME IInv, NEW l, NEW h, NEW N \in Rooms, NEW p,
           IsList(l, N), IsHeld(l, N, h), IsRing(l, h, p), Construct(l, h)
    PROVE  RefSeq!Create
<1> DEFINE z == l.m_size
           Items1 == Items(l)
<1>1. N \in Nat
    BY RoomsAre
<1>2. z \in Nat /\ \A k \in 1..z : k \in 0..z
    BY <1>1 DEF IsList
<1>3. \A k \in 1..z : p[k] \in DOMAIN h
    BY <1>1, RingRefs
<1>4. Items1 = Elements(z, p, h)
    BY <1>1, ItemsAre
<1>5. \A j, k \in 0..z : p[j] = p[k] => j = k
    BY DEF IsRing
<1>6. \A r \in DOMAIN h : r \in AllRefs /\ h[r] \in Vals
    <2>1. \A r \in DOMAIN h : r \in 0..N /\ h[r] \in Vals
        BY <1>1 DEF IsHeld
    <2> QED BY <2>1, RefsAre
<1> HIDE DEF z, Items1
<1>7. Elements(z, p, h) \in Seq([ref : AllRefs, val : Vals]) /\ Len(Elements(z, p, h)) = z
    BY <1>2, <1>3, <1>6, ElementsSeq
<1>8. \A k \in 1..z : Elements(z, p, h)[k].ref = p[k]
    BY DEF Elements
<1>9. Items1 \in Seq([ref : AllRefs, val : Vals])
      /\ \A j, k \in 1..Len(Items1) : Items1[j].ref = Items1[k].ref => j = k
    BY <1>2, <1>4, <1>5, <1>7, <1>8
<1>10. /\ ~made /\ made' = TRUE /\ list' = l /\ erased' = FALSE
       /\ ret' = [op |-> "ctor", at |-> BAD_REF, ref |-> BAD_REF]
    BY DEF Construct, Return
<1>11. ~Orderly /\ Orderly'
    BY <1>10 DEF Orderly
<1>12. (IF Orderly THEN Items(list) ELSE <<>>)' = Items1
    BY <1>10, <1>11 DEF Items1
<1>13. (IF erased THEN Erased ELSE ret)' = [op |-> "ctor", at |-> BAD_REF, ref |-> BAD_REF]
    BY <1>10
<1> QED BY <1>9, <1>11, <1>12, <1>13 DEF RefSeq!Create, RefSeq!Result, AllRefs

LEMMA InsertAfterStep ==
    ASSUME IInv, ~full(list), ~erased, NEW ref \in Refs, NEW val \in Vals, NEW junk \in JunkNodes,
           InsertAfter(ref, val, junk)
    PROVE  RefSeq!Next
<1> DEFINE new == insert_after(list, ref, val, junk)
<1>1. made /\ Inserted("insert_after", ref, new, val)
    BY DEF InsertAfter
<1>2. Orderly
    BY <1>1 DEF Orderly
<1>3. CASE ref = BAD_REF
    <2>1. new.list = list /\ new.ref = BAD_REF
        BY <1>3 DEF insert_after, is_valid_ref
    <2>2. /\ UNCHANGED <<list, held, made, erased>>
          /\ ret' = [op |-> "insert_after", at |-> BAD_REF, ref |-> BAD_REF]
        BY <1>1, <1>3, <2>1 DEF Inserted, Return
    <2>3. RefSeq!Refuse("insert_after")
        BY <2>2 DEF RefSeq!Refuse, RefSeq!Result, Orderly
    <2> QED BY <1>2, <2>3 DEF RefSeq!Next
<1>4. CASE ref # BAD_REF
    <2>1. PICK N, q, p :
             /\ N \in Rooms
             /\ IsList(list, N) /\ IsHeld(list, N, held)
             /\ IsChain(list, N, held, q) /\ IsRing(list, held, p)
        BY <1>1, OrderlyParts
    <2> DEFINE z == list.m_size
               items == IF Orderly THEN Items(list) ELSE <<>>
    <2>2. N \in Nat
        BY <2>1, RoomsAre
    <2>3. list.m_free_head_ref \in (1..N) \ DOMAIN held /\ DOMAIN held \subseteq 1..N
        BY <2>1, <2>2, ChainHead DEF IsHeld
    <2>4. ref \in {0} \cup DOMAIN held
        BY <1>4, <2>1 DEF Refs, IsList, Lst
    <2>5. PICK i \in 0..z : p[i] = ref
        BY <2>1, <2>4 DEF IsRing
    <2>6. ref \in 0..N /\ ref # list.m_free_head_ref /\ list.m_free_head_ref \in 0..N
        BY <2>2, <2>3, <2>4
    <2>7. new.ref = list.m_free_head_ref /\ IsInserted(list, new.list, N, ref, val)
        BY <2>1, <2>2, <2>6, InsertAfterIs
    <2> HIDE DEF new
    <2>8. RefSeq!Insert("insert_after", ref, i + 1)
        BY <1>1, <2>1, <2>5, <2>7, InsertStep
    <2>9. /\ items = Elements(z, p, held) /\ Len(items) = z /\ z \in Nat
          /\ \A k \in 1..z : p[k] \in DOMAIN held /\ items[k].ref = p[k]
          /\ RefSeq!Used = DOMAIN held
        BY <1>2, <2>1, OrderlyItems
    <2> HIDE DEF items, z
    <2>10. CASE i = 0
        <3>1. ref = 0 /\ i + 1 = 1
            BY <2>1, <2>5, <2>10 DEF IsRing
        <3>2. 0 \in AllRefs \ RefSeq!Used
            <4>1. 0 \in 0..N
                BY <2>2
            <4>2. 0 \notin DOMAIN held
                BY <2>2, <2>3
            <4> QED BY <2>9, <4>1, <4>2, RefsAre, <2>1
        <3>3. RefSeq!InsertAtEnd(0)
            BY <2>8, <3>1 DEF RefSeq!InsertAtEnd
        <3> QED BY <1>2, <3>2, <3>3 DEF RefSeq!Next, AllRefs
    <2>11. CASE i # 0
        <3>1. i \in 1..Len(items)
            BY <2>9, <2>11
        <3>2. items[i].ref = ref
            BY <2>5, <2>9, <3>1
        <3>3. RefSeq!InsertAfter(i)
            BY <2>8, <3>2 DEF RefSeq!InsertAfter, items
        <3> QED BY <1>2, <3>1, <3>3 DEF RefSeq!Next, items
    <2> QED BY <2>10, <2>11
<1> QED BY <1>3, <1>4

LEMMA InsertBeforeStep ==
    ASSUME IInv, ~full(list), ~erased, NEW ref \in Refs, NEW val \in Vals, NEW junk \in JunkNodes,
           InsertBefore(ref, val, junk)
    PROVE  RefSeq!Next
<1> DEFINE new == insert_before(list, ref, val, junk)
<1>1. made /\ Inserted("insert_before", ref, new, val)
    BY DEF InsertBefore
<1>2. Orderly
    BY <1>1 DEF Orderly
<1>3. CASE ref = BAD_REF
    <2>1. new.list = list /\ new.ref = BAD_REF
        BY <1>3 DEF insert_before, is_valid_ref
    <2>2. /\ UNCHANGED <<list, held, made, erased>>
          /\ ret' = [op |-> "insert_before", at |-> BAD_REF, ref |-> BAD_REF]
        BY <1>1, <1>3, <2>1 DEF Inserted, Return
    <2>3. RefSeq!Refuse("insert_before")
        BY <2>2 DEF RefSeq!Refuse, RefSeq!Result, Orderly
    <2> QED BY <1>2, <2>3 DEF RefSeq!Next
<1>4. CASE ref # BAD_REF
    <2>1. PICK N, q, p :
             /\ N \in Rooms
             /\ IsList(list, N) /\ IsHeld(list, N, held)
             /\ IsChain(list, N, held, q) /\ IsRing(list, held, p)
        BY <1>1, OrderlyParts
    <2> DEFINE z == list.m_size
               items == IF Orderly THEN Items(list) ELSE <<>>
    <2>2. N \in Nat
        BY <2>1, RoomsAre
    <2>3. DOMAIN held \subseteq 1..N
        BY <2>1 DEF IsHeld
    <2>4. ref \in {0} \cup DOMAIN held
        BY <1>4, <2>1 DEF Refs, IsList, Lst
    <2>5. PICK j \in 0..z : p[j] = ref
        BY <2>1, <2>4 DEF IsRing
    <2> DEFINE i  == IF j = 0 THEN z ELSE j - 1
               at == insert_before(list, p[j], val, junk)
    <2>6. at.ref = list.m_free_head_ref /\ IsInserted(list, at.list, N, p[i], val)
        BY <2>1, <2>2, InsertBeforeRing
    <2>7. at = new
        BY <2>5
    <2>8. i \in 0..z
        BY <2>1, <2>2 DEF IsList
    <2> HIDE DEF new, at, i
    <2>9. RefSeq!Insert("insert_before", ref, i + 1)
        BY <1>1, <2>1, <2>6, <2>7, <2>8, InsertStep
    <2>10. /\ items = Elements(z, p, held) /\ Len(items) = z /\ z \in Nat
           /\ \A k \in 1..z : p[k] \in DOMAIN held /\ items[k].ref = p[k]
           /\ RefSeq!Used = DOMAIN held
        BY <1>2, <2>1, OrderlyItems
    <2> HIDE DEF items, z
    <2>11. CASE j = 0
        <3>1. ref = 0
            BY <2>1, <2>5, <2>11 DEF IsRing
        <3>2. 0 \in AllRefs \ RefSeq!Used
            <4>1. 0 \in 0..N
                BY <2>2
            <4>2. 0 \notin DOMAIN held
                BY <2>2, <2>3
            <4> QED BY <2>10, <4>1, <4>2, RefsAre, <2>1
        <3>3. i + 1 = Len(items) + 1
            BY <2>10, <2>11 DEF i
        <3>4. RefSeq!InsertAtEnd(0)
            BY <2>9, <3>1, <3>3 DEF RefSeq!InsertAtEnd, items
        <3> QED BY <1>2, <3>2, <3>4 DEF RefSeq!Next, AllRefs
    <2>12. CASE j # 0
        <3>1. j \in 1..Len(items) /\ i + 1 = j
            BY <2>10, <2>12 DEF i
        <3>2. items[j].ref = ref
            BY <2>5, <2>10, <3>1
        <3>3. RefSeq!InsertBefore(j)
            BY <2>9, <3>1, <3>2 DEF RefSeq!InsertBefore, items
        <3> QED BY <1>2, <3>1, <3>3 DEF RefSeq!Next, items
    <2> QED BY <2>11, <2>12
<1> QED BY <1>3, <1>4

LEMMA InsertEndsStep ==
    ASSUME IInv, ~full(list), ~erased, NEW val \in Vals, NEW junk \in JunkNodes,
           InsertFront(val, junk) \/ InsertBack(val, junk)
    PROVE  RefSeq!Next
<1>1. made
    BY DEF InsertFront, InsertBack
<1>2. PICK N, q, p :
         /\ N \in Rooms
         /\ IsList(list, N) /\ IsHeld(list, N, held)
         /\ IsChain(list, N, held, q) /\ IsRing(list, held, p)
    BY <1>1, OrderlyParts
<1> DEFINE z == list.m_size
           items == IF Orderly THEN Items(list) ELSE <<>>
<1>3. N \in Nat
    BY <1>2, RoomsAre
<1>4. Orderly
    BY <1>1 DEF Orderly
<1>5. Len(items) = z /\ 0 \in 0..z /\ z \in 0..z
    <2>1. Len(items) = z /\ z \in Nat
        BY <1>2, <1>4, OrderlyItems
    <2> QED BY <2>1
<1>6. CASE InsertFront(val, junk)
    <2> DEFINE new == insert_front(list, val, junk)
    <2>1. Inserted("insert_front", BAD_REF, new, val)
        BY <1>6 DEF InsertFront
    <2>2. new.ref = list.m_free_head_ref /\ IsInserted(list, new.list, N, p[0], val)
        BY <1>2, <1>3, InsertFrontIs
    <2> HIDE DEF new
    <2>3. RefSeq!Insert("insert_front", BAD_REF, 0 + 1)
        BY <1>1, <1>2, <1>5, <2>1, <2>2, InsertStep
    <2> QED BY <1>4, <2>3 DEF RefSeq!InsertFront, RefSeq!Next
<1>7. CASE InsertBack(val, junk)
    <2> DEFINE new == insert_back(list, val, junk)
    <2>1. Inserted("insert_back", BAD_REF, new, val)
        BY <1>7 DEF InsertBack
    <2>2. new.ref = list.m_free_head_ref /\ IsInserted(list, new.list, N, p[z], val)
        BY <1>2, <1>3, InsertBackIs
    <2> HIDE DEF new
    <2>3. RefSeq!Insert("insert_back", BAD_REF, z + 1)
        BY <1>1, <1>2, <1>5, <2>1, <2>2, InsertStep
    <2> HIDE DEF z
    <2>4. RefSeq!InsertBack
        BY <1>5, <2>3 DEF RefSeq!InsertBack, items
    <2> QED BY <1>4, <2>4 DEF RefSeq!Next
<1> QED BY <1>6, <1>7

LEMMA AssignStep ==
    ASSUME IInv, ~erased, NEW ref \in DOMAIN held, NEW val \in Vals, Assign(ref, val)
    PROVE  RefSeq!Next
<1>1. made
    BY DEF Assign
<1>2. PICK N, q, p :
         /\ N \in Rooms
         /\ IsList(list, N) /\ IsHeld(list, N, held)
         /\ IsChain(list, N, held, q) /\ IsRing(list, held, p)
    BY <1>1, OrderlyParts
<1> DEFINE z == list.m_size
           m == [list EXCEPT !.m_buffer[ref].val = val]
           g == With(held, ref, val)
           items == IF Orderly THEN Items(list) ELSE <<>>
           Items1 == Items(m)
<1>3. N \in Nat
    BY <1>2, RoomsAre
<1>4. Orderly
    BY <1>1 DEF Orderly
<1>5. /\ items = Elements(z, p, held) /\ Len(items) = z /\ z \in Nat
      /\ \A k \in 1..z : p[k] \in DOMAIN held /\ items[k].ref = p[k]
    BY <1>2, <1>4, OrderlyItems
<1>6. IsList(m, N) /\ IsHeld(m, N, g) /\ IsRing(m, g, p) /\ m.m_size = z
    BY <1>2, <1>3, AssignedList
<1>7. PICK i \in 1..z : p[i] = ref
    <2>1. PICK i \in 0..z : p[i] = ref
        BY <1>2 DEF IsRing
    <2>2. p[0] = 0 /\ ref # 0
        BY <1>2, <1>3 DEF IsRing, IsHeld
    <2> QED BY <1>5, <2>1, <2>2
<1>8. /\ list' = m /\ held' = g /\ made' = made /\ erased' = erased
      /\ ret' = [op |-> "get", at |-> ref, ref |-> ref]
    BY DEF Assign, Return
<1>9. \A j, k \in 1..z : p[j] = p[k] => j = k
    <2>1. \A j, k \in 0..z : p[j] = p[k] => j = k
        BY <1>2 DEF IsRing
    <2> QED BY <1>5, <2>1
<1> HIDE DEF m
<1>10. Items1 = Elements(z, p, g)
    BY <1>3, <1>6, ItemsAre
<1>11. g = [r \in DOMAIN held |-> IF r = ref THEN val ELSE held[r]]
    BY DEF With
<1> HIDE DEF g, Items1, items, z
<1>12. Items1 = [items EXCEPT ![i].val = val]
    <2>1. items = [k \in 1..z |-> [ref |-> p[k], val |-> held[p[k]]]]
        BY <1>5 DEF Elements
    <2>2. Items1 = [k \in 1..z |-> [ref |-> p[k], val |-> g[p[k]]]]
        BY <1>10 DEF Elements
    <2>3. [items EXCEPT ![i].val = val] = [k \in 1..z |-> IF k = i THEN [items[k] EXCEPT !.val = val] ELSE items[k]]
        BY <1>7, <2>1
    <2>4. \A k \in 1..z : items[k] = [ref |-> p[k], val |-> held[p[k]]]
        BY <2>1
    <2>5. ASSUME NEW k \in 1..z
          PROVE  (IF k = i THEN [items[k] EXCEPT !.val = val] ELSE items[k]) = [ref |-> p[k], val |-> g[p[k]]]
        <3>1. p[k] \in DOMAIN held /\ (p[k] = ref <=> k = i)
            BY <1>5, <1>7, <1>9
        <3>2. g[p[k]] = IF k = i THEN val ELSE held[p[k]]
            BY <1>11, <3>1
        <3>3. \A u, v : [[ref |-> u, val |-> v] EXCEPT !.val = val] = [ref |-> u, val |-> val]
            OBVIOUS
        <3>4. [items[k] EXCEPT !.val = val] = [ref |-> p[k], val |-> val]
            BY <2>4, <3>3
        <3>5. items[k] = [ref |-> p[k], val |-> held[p[k]]]
            BY <2>4
        <3>6. CASE k = i
            BY <3>2, <3>4, <3>6
        <3>7. CASE k # i
            BY <3>2, <3>5, <3>7
        <3> QED BY <3>6, <3>7
    <2> QED BY <2>2, <2>3, <2>5
<1>13. Orderly'
    BY <1>4, <1>8 DEF Orderly
<1>14. (IF Orderly THEN Items(list) ELSE <<>>)' = Items1
    BY <1>8, <1>13 DEF Items1
<1>15. (IF erased THEN Erased ELSE ret)' = [op |-> "get", at |-> ref, ref |-> ref]
    BY <1>8
<1>16. i \in 1..Len(items) /\ items[i].ref = ref
    BY <1>5, <1>7
<1>17. RefSeq!Assign(i)
    BY <1>4, <1>12, <1>13, <1>14, <1>15, <1>16 DEF RefSeq!Assign, RefSeq!Result, items
<1> QED BY <1>4, <1>16, <1>17 DEF RefSeq!Next, items

LEMMA EraseStep ==
    ASSUME IInv, ~erased, NEW ref \in DOMAIN held \cup {BAD_REF}, Erase(ref)
    PROVE  RefSeq!Next
<1>1. PICK N \in Rooms : IsList(list, N) /\ IsHeld(list, N, held)
    BY DEF IInv, Sound, Erase
<1>2. Orderly
    BY DEF Orderly, Erase
<1>3. CASE ref = BAD_REF
    <2>1. ~is_valid_ref(ref)
        BY <1>3 DEF is_valid_ref
    <2>2. list' = list /\ made' = made /\ ~erased' /\ ret' = [op |-> "erase", at |-> BAD_REF, ref |-> BAD_REF]
        BY <1>3, <2>1 DEF Erase, erase, Return
    <2>3. Orderly'
        BY <1>2, <2>2 DEF Orderly
    <2>4. (IF Orderly THEN Items(list) ELSE <<>>)' = IF Orderly THEN Items(list) ELSE <<>>
        BY <1>2, <2>2, <2>3
    <2>5. (IF erased THEN Erased ELSE ret)' = [op |-> "erase", at |-> BAD_REF, ref |-> BAD_REF]
        BY <2>2
    <2>6. Orderly' = Orderly
        BY <2>2 DEF Orderly
    <2>7. RefSeq!Refuse("erase")
        BY <2>4, <2>5, <2>6 DEF RefSeq!Refuse, RefSeq!Result
    <2> QED BY <1>2, <2>7 DEF RefSeq!Next
<1>4. CASE ref # BAD_REF
    <2>1. erased'
        BY <1>4 DEF Erase, is_valid_ref
    <2>2. ~Orderly'
        BY <2>1 DEF Orderly
    <2>3. (IF Orderly THEN Items(list) ELSE <<>>)' = <<>>
        BY <2>2
    <2>4. (IF erased THEN Erased ELSE ret)' = [op |-> "erase", at |-> BAD_REF, ref |-> BAD_REF]
        BY <2>1 DEF Erased
    <2>5. RefSeq!GiveUp("erase")
        BY <2>2, <2>3, <2>4 DEF RefSeq!GiveUp, RefSeq!Result
    <2> QED BY <1>2, <2>5 DEF RefSeq!Next
<1> QED BY <1>3, <1>4

LEMMA DestroyStep == Destroy => RefSeq!Next
<1> SUFFICES ASSUME Destroy PROVE RefSeq!Next
    OBVIOUS
<1>1. made' = FALSE /\ erased' = FALSE /\ ret' = [op |-> "dtor", at |-> BAD_REF, ref |-> BAD_REF]
    BY DEF Destroy, Return
<1>2. ~Orderly'
    BY <1>1 DEF Orderly
<1>3. (IF Orderly THEN Items(list) ELSE <<>>)' = <<>>
    BY <1>2
<1>4. (IF erased THEN Erased ELSE ret)' = [op |-> "dtor", at |-> BAD_REF, ref |-> BAD_REF]
    BY <1>1
<1> QED BY <1>2, <1>3, <1>4 DEF RefSeq!GiveUp, RefSeq!Result, RefSeq!Next

(* After an erasure nothing is promised, until the list is destroyed.      *)
LEMMA ErasedStep ==
    ASSUME erased, erased'
    PROVE  UNCHANGED RefSeq!vars
<1>1. ~Orderly /\ ~Orderly' /\ Orderly' = Orderly
    BY DEF Orderly
<1>2. (IF Orderly THEN Items(list) ELSE <<>>)' = IF Orderly THEN Items(list) ELSE <<>>
    BY <1>1
<1>3. (IF erased THEN Erased ELSE ret)' = IF erased THEN Erased ELSE ret
    BY DEF Erased
<1> QED BY <1>1, <1>2, <1>3 DEF RefSeq!vars

LEMMA RefNext == IInv /\ [Next]_vars => [RefSeq!Next]_(RefSeq!vars)
<1> SUFFICES ASSUME IInv, [Next]_vars PROVE RefSeq!Next \/ UNCHANGED RefSeq!vars
    OBVIOUS
<1>1. ASSUME NEW cap \in Caps, NEW junk \in JunkNodes, Create(cap, junk) PROVE RefSeq!Next
    <2> DEFINE N == Room(cap)
               l == List(cap, junk)
    <2>1. cap \in Nat /\ N \in Rooms
        BY ListAssumption DEF Rooms
    <2>2. IsList(l, N) /\ IsHeld(l, N, EmptyFun) /\ IsRing(l, EmptyFun, [k \in 0..0 |-> 0])
        BY <2>1, ListMade
    <2>3. Construct(l, EmptyFun)
        BY <1>1 DEF Create, EmptyFun
    <2> HIDE DEF l, N
    <2>4. RefSeq!Create
        BY <2>1, <2>2, <2>3, CreateStep
    <2> QED BY <2>4 DEF RefSeq!Next
<1>2. ASSUME NEW vals \in InitLists, NEW junk \in JunkNodes, CreateFrom(vals, junk) PROVE RefSeq!Next
    <2> DEFINE N == Room(Len(vals))
               l == ListOf(vals, junk)
               h == [r \in 1..Len(vals) |-> vals[r]]
    <2>1. vals \in Seq(Vals) /\ N \in Rooms
        BY ListAssumption DEF Rooms
    <2>2. Built(l, N, vals, Len(vals))
        BY <2>1, ListOfIs
    <2>3. Construct(l, h)
        BY <1>2 DEF CreateFrom
    <2> HIDE DEF l, N
    <2>4. PICK p : IsRing(l, h, p)
        BY <2>2 DEF Built
    <2>5. IsList(l, N) /\ IsHeld(l, N, h)
        BY <2>2 DEF Built
    <2> HIDE DEF h
    <2>6. RefSeq!Create
        BY <2>1, <2>3, <2>4, <2>5, CreateStep
    <2> QED BY <2>6 DEF RefSeq!Next
<1>3. CASE Lifecycle
    BY <1>1, <1>2, <1>3, DestroyStep DEF Lifecycle
<1>4. CASE Assignments
    <2>1. CASE erased
        BY <1>4, <2>1, ErasedStep DEF Assignments, Assign
    <2>2. CASE ~erased
        BY <1>4, <2>2, AssignStep DEF Assignments
    <2> QED BY <2>1, <2>2
<1>5. CASE Erasures
    <2>1. CASE erased
        BY <1>5, <2>1, ErasedStep DEF Erasures, Erase
    <2>2. CASE ~erased
        BY <1>5, <2>2, EraseStep DEF Erasures
    <2> QED BY <2>1, <2>2
<1>6. CASE ~full(list) /\ InsertionsAfter
    <2>1. CASE erased
        BY <1>6, <2>1, ErasedStep DEF InsertionsAfter, InsertAfter, Inserted
    <2>2. CASE ~erased
        BY <1>6, <2>2, InsertAfterStep DEF InsertionsAfter
    <2> QED BY <2>1, <2>2
<1>7. CASE ~full(list) /\ ~erased /\ Insertions
    BY <1>7, InsertEndsStep, InsertBeforeStep DEF Insertions
<1>8. CASE UNCHANGED vars
    <2>1. list' = list /\ made' = made /\ erased' = erased /\ ret' = ret
        BY <1>8 DEF vars
    <2>2. Orderly' = Orderly /\ (IF Orderly THEN Items(list) ELSE <<>>)' = IF Orderly THEN Items(list) ELSE <<>>
        BY <2>1 DEF Orderly
    <2>3. (IF erased THEN Erased ELSE ret)' = IF erased THEN Erased ELSE ret
        BY <2>1
    <2> QED BY <2>2, <2>3 DEF RefSeq!vars
<1> QED BY <1>3, <1>4, <1>5, <1>6, <1>7, <1>8 DEF Next

LEMMA RefInit == Init => RefSeq!Init
<1> SUFFICES ASSUME Init PROVE RefSeq!Init
    OBVIOUS
<1>1. ~Orderly /\ ~erased /\ ret = [op |-> "none", at |-> BAD_REF, ref |-> BAD_REF]
    BY DEF Init, Orderly
<1> QED BY <1>1 DEF RefSeq!Init

(* To its client the list is a sequence: whatever the capacity and the     *)
(* values, an insertion puts the element where it was asked for, under a   *)
(* reference that no other element has, and moves none of the others       *)
(* (insert_after and insert_before, list.cpp:120 and 136; list.h).         *)
THEOREM ListImplementsRefList == Spec => ImplementsRefList
<1>1. IInv /\ [Next]_vars => [RefSeq!Next]_(RefSeq!vars)
    BY RefNext
<1> QED BY RefInit, <1>1, Inductive, PTL DEF Spec, ImplementsRefList, RefSeq!Spec
=============================================================================
