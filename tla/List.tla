-------------------------------- MODULE List --------------------------------
(***************************************************************************)
(* CacheFriendlyList/ListLib/list.cpp: a doubly linked list whose nodes    *)
(* live in one array and refer to each other by index.  Slot m_ghost ties  *)
(* the elements to a ring; the slots that are not in use are chained from  *)
(* m_free_head_ref.                                                        *)
(*                                                                         *)
(* One list and one client, who keeps the references that insertions       *)
(* return.  Reads (next, prev, get, size) change nothing and appear in the *)
(* properties.  A write through a reference outside the array is undefined *)
(* behaviour; here it does not touch the list.                             *)
(***************************************************************************)
EXTENDS Integers, Sequences, FiniteSets, SequencesExt

CONSTANTS
    MinCapacity,        \* 16: a list asked for fewer gets DEFAULT_CAPACITY
    DEFAULT_CAPACITY,   \* 32
    Caps,               \* the capacities a client asks for
    Vals,               \* the values it stores
    InitLists,          \* the initializer lists it constructs a list from
    JunkNodes           \* what new Node[] may find in its memory

ASSUME ListAssumption ==
    /\ MinCapacity \in Nat \ {0}
    /\ DEFAULT_CAPACITY \in Nat /\ DEFAULT_CAPACITY >= MinCapacity
    /\ Caps \subseteq Nat
    /\ InitLists \subseteq Seq(Vals)
    /\ \A node \in JunkNodes : node = [val |-> node.val, next |-> node.next, prev |-> node.prev]

VARIABLES
    list,       \* the List object
    made,       \* it has been constructed and not yet destroyed
    held,       \* the client's references, each with the value it stored there
    erased,     \* it has erased an element
    ret         \* the last call: its name, the reference it got, the one it returned

vars == <<list, made, held, erased, ret>>

BAD_REF == -1       \* (ref_t)-1 is in no array

NoList == [m_buffer |-> [r \in {} |-> 0], m_ghost |-> BAD_REF, m_free_head_ref |-> BAD_REF, m_size |-> 0]

Slots(l) == DOMAIN l.m_buffer
capacity(l) == Cardinality(Slots(l))

is_valid_ref(ref) == ref # BAD_REF

head(l) == l.m_buffer[l.m_ghost].next
tail(l) == l.m_buffer[l.m_ghost].prev

(* A reference that is not valid reads the tail.                           *)
get(l, ref) == l.m_buffer[IF is_valid_ref(ref) THEN ref ELSE tail(l)].val

With(f, x, y) == [z \in DOMAIN f \cup {x} |-> IF z = x THEN y ELSE f[z]]

SetNext(buffer, ref, to) ==
    IF ref \in DOMAIN buffer THEN [buffer EXCEPT ![ref].next = to] ELSE buffer

SetPrev(buffer, ref, to) ==
    IF ref \in DOMAIN buffer THEN [buffer EXCEPT ![ref].prev = to] ELSE buffer

-----------------------------------------------------------------------------
(* Slots.                                                                  *)

full(l) == capacity(l) - 1 = l.m_size

(* The new array takes the first m_size nodes, and swap leaves capacity as *)
(* it was: what is beyond the old capacity is never referred to again.     *)
grow(l, junk) ==
    [l EXCEPT !.m_buffer = [r \in DOMAIN @ |-> IF r < l.m_size THEN @[r] ELSE junk]]

(* Mutant of allocate_val: the array grows one insertion early.            *)
allocate_val_early(l, val, junk) ==
    LET ref  == l.m_free_head_ref
        room == IF capacity(l) - 2 = l.m_size THEN grow(l, junk) ELSE l
    IN  IF ref = BAD_REF THEN [list |-> room, ref |-> BAD_REF]
        ELSE [list |-> [room EXCEPT !.m_free_head_ref = room.m_buffer[ref].next,
                                    !.m_buffer[ref] = [val |-> val, next |-> BAD_REF, prev |-> BAD_REF],
                                    !.m_size = @ + 1],
              ref  |-> ref]

(* [list, ref]: the slot was chosen before the array grows.                *)
allocate_val(l, val, junk) ==
    LET ref  == l.m_free_head_ref
        room == IF full(l) THEN grow(l, junk) ELSE l
    IN  IF ref = BAD_REF THEN [list |-> room, ref |-> BAD_REF]
        ELSE [list |-> [room EXCEPT !.m_free_head_ref = room.m_buffer[ref].next,
                                    !.m_buffer[ref] = [val |-> val, next |-> BAD_REF, prev |-> BAD_REF],
                                    !.m_size = @ + 1],
              ref  |-> ref]

(* Mutant of erase: becomes the free head before it is tied to it.         *)
erase_untied(l, ref) ==
    IF ~is_valid_ref(ref) THEN l
    ELSE [l EXCEPT !.m_buffer[ref].prev = ref,
                   !.m_buffer[ref].next = ref,
                   !.m_free_head_ref = ref,
                   !.m_size = @ - 1]

(* Neighbours keep referring to an erased slot.                            *)
erase(l, ref) ==
    IF ~is_valid_ref(ref) THEN l
    ELSE [l EXCEPT !.m_buffer[ref].prev = ref,
                   !.m_buffer[ref].next = l.m_free_head_ref,
                   !.m_free_head_ref = ref,
                   !.m_size = @ - 1]

-----------------------------------------------------------------------------
(* Construction and insertion: [list, ref].                                *)

(* The elements a list has room for, besides the ghost.                    *)
Room(cap) == IF cap < MinCapacity THEN DEFAULT_CAPACITY ELSE cap

(* Mutant of List: the free chain does not end.                            *)
ListUnended(cap, junk) ==
    LET n    == Room(cap) + 1
        free == [m_buffer |-> [r \in 0..(n - 1) |-> [junk EXCEPT !.prev = r, !.next = r + 1]],
                 m_ghost |-> BAD_REF, m_free_head_ref |-> 0, m_size |-> 0]
        new  == allocate_val(free, 0, junk)
    IN  [new.list EXCEPT !.m_ghost = new.ref,
                         !.m_size = @ - 1,
                         !.m_buffer[new.ref].next = new.ref,
                         !.m_buffer[new.ref].prev = new.ref]

List(cap, junk) ==
    LET n    == Room(cap) + 1
        free == [m_buffer |-> [r \in 0..(n - 1) |->
                                  [junk EXCEPT !.prev = r, !.next = IF r = n - 1 THEN BAD_REF ELSE r + 1]],
                 m_ghost |-> BAD_REF, m_free_head_ref |-> 0, m_size |-> 0]
        new  == allocate_val(free, 0, junk)
    IN  [new.list EXCEPT !.m_ghost = new.ref,
                         !.m_size = @ - 1,
                         !.m_buffer[new.ref].next = new.ref,
                         !.m_buffer[new.ref].prev = new.ref]

(* Mutant of insert_after: moves ref's link before reading it.             *)
insert_after_swapped(l, ref, val, junk) ==
    LET new == allocate_val(l, val, junk)
        b0  == new.list.m_buffer
        b1  == [b0 EXCEPT ![new.ref].prev = ref, ![new.ref].next = b0[ref].next]
        b2  == [b1 EXCEPT ![ref].next = new.ref]
        b3  == SetPrev(b2, b2[ref].next, new.ref)
    IN  IF ~is_valid_ref(ref)    THEN [list |-> l, ref |-> BAD_REF]
        ELSE IF new.ref = BAD_REF THEN new
        ELSE [list |-> [new.list EXCEPT !.m_buffer = b3], ref |-> new.ref]

insert_after(l, ref, val, junk) ==
    LET new == allocate_val(l, val, junk)
        b0  == new.list.m_buffer
        b1  == [b0 EXCEPT ![new.ref].prev = ref, ![new.ref].next = b0[ref].next]
        b2  == SetPrev(b1, b1[ref].next, new.ref)
        b3  == [b2 EXCEPT ![ref].next = new.ref]
    IN  IF ~is_valid_ref(ref)    THEN [list |-> l, ref |-> BAD_REF]
        ELSE IF new.ref = BAD_REF THEN new
        ELSE [list |-> [new.list EXCEPT !.m_buffer = b3], ref |-> new.ref]

insert_before(l, ref, val, junk) ==
    LET new == allocate_val(l, val, junk)
        b0  == new.list.m_buffer
        b1  == [b0 EXCEPT ![new.ref].next = ref, ![new.ref].prev = b0[ref].prev]
        b2  == SetNext(b1, b1[ref].prev, new.ref)
        b3  == [b2 EXCEPT ![ref].prev = new.ref]
    IN  IF ~is_valid_ref(ref)    THEN [list |-> l, ref |-> BAD_REF]
        ELSE IF new.ref = BAD_REF THEN new
        ELSE [list |-> [new.list EXCEPT !.m_buffer = b3], ref |-> new.ref]

(* Mutant of insert_front: behind the head.                                *)
insert_front_after(l, val, junk) == insert_after(l, head(l), val, junk)

insert_front(l, val, junk) == insert_before(l, head(l), val, junk)

insert_back(l, val, junk) == insert_after(l, tail(l), val, junk)

(* The references are 1, 2, ... in the order of the initializer list.      *)
ListOf(vals, junk) ==
    LET built[k \in 0..Len(vals)] ==
            IF k = 0 THEN List(Len(vals), junk) ELSE insert_back(built[k - 1], vals[k], junk).list
    IN  built[Len(vals)]

-----------------------------------------------------------------------------
(* The client.                                                             *)

Init ==
    /\ list = NoList
    /\ made = FALSE
    /\ held = [r \in {} |-> 0]
    /\ erased = FALSE
    /\ ret = [op |-> "none", at |-> BAD_REF, ref |-> BAD_REF]

Return(op, at, ref) == ret' = [op |-> op, at |-> at, ref |-> ref]

Construct(new, refs) ==
    /\ ~made
    /\ list' = new
    /\ made' = TRUE
    /\ held' = refs
    /\ erased' = FALSE
    /\ Return("ctor", BAD_REF, BAD_REF)

Create(cap, junk) == Construct(List(cap, junk), [r \in {} |-> 0])

CreateFrom(vals, junk) == Construct(ListOf(vals, junk), [r \in 1..Len(vals) |-> vals[r]])

Destroy ==
    /\ made
    /\ list' = NoList
    /\ made' = FALSE
    /\ held' = [r \in {} |-> 0]
    /\ erased' = FALSE
    /\ Return("dtor", BAD_REF, BAD_REF)

Inserted(op, at, new, val) ==
    /\ list' = new.list
    /\ held' = IF new.ref = BAD_REF THEN held ELSE With(held, new.ref, val)
    /\ Return(op, at, new.ref)
    /\ UNCHANGED <<made, erased>>

(* References a careful client has: its own, the end of the list (head of  *)
(* an empty list, next of its last element), and BAD_REF.                  *)
Refs == DOMAIN held \cup {list.m_ghost, BAD_REF}

InsertFront(val, junk) ==
    made /\ Inserted("insert_front", BAD_REF, insert_front(list, val, junk), val)

InsertBack(val, junk) ==
    made /\ Inserted("insert_back", BAD_REF, insert_back(list, val, junk), val)

InsertAfter(ref, val, junk) ==
    made /\ Inserted("insert_after", ref, insert_after(list, ref, val, junk), val)

InsertBefore(ref, val, junk) ==
    made /\ Inserted("insert_before", ref, insert_before(list, ref, val, junk), val)

(* list.get (ref) = val                                                    *)
Assign(ref, val) ==
    /\ made
    /\ list' = [list EXCEPT !.m_buffer[ref].val = val]
    /\ held' = With(held, ref, val)
    /\ Return("get", ref, ref)
    /\ UNCHANGED <<made, erased>>

Erase(ref) ==
    /\ made
    /\ list' = erase(list, ref)
    /\ held' = [r \in DOMAIN held \ {ref} |-> held[r]]
    /\ erased' = (erased \/ is_valid_ref(ref))
    /\ Return("erase", ref, ref)
    /\ UNCHANGED made

Lifecycle ==
    \/ \E cap \in Caps, junk \in JunkNodes : Create(cap, junk)
    \/ \E vals \in InitLists, junk \in JunkNodes : CreateFrom(vals, junk)
    \/ Destroy

Assignments == \E ref \in DOMAIN held, val \in Vals : Assign(ref, val)

Insertions ==
    \E val \in Vals, junk \in JunkNodes :
       \/ InsertFront(val, junk)
       \/ InsertBack(val, junk)
       \/ \E ref \in Refs : InsertBefore(ref, val, junk)

InsertionsAfter == \E ref \in Refs, val \in Vals, junk \in JunkNodes : InsertAfter(ref, val, junk)

Erasures == \E ref \in DOMAIN held \cup {BAD_REF} : Erase(ref)

(* A client that stays within the capacity, inserts anywhere until it      *)
(* erases for the first time, and from then on only after elements it      *)
(* still has: the neighbours of those need not be elements any more.       *)
Next ==
    \/ Lifecycle
    \/ Assignments
    \/ Erasures
    \/ ~full(list) /\ InsertionsAfter
    \/ ~full(list) /\ ~erased /\ Insertions

Spec == Init /\ [][Next]_vars

(* A client with no regard to the capacity, which does not erase.          *)
SpecOverfull == Init /\ [][Lifecycle \/ Assignments \/ InsertionsAfter \/ Insertions]_vars

(* A client that goes on to insert anywhere.                               *)
SpecErasing == Init /\ [][Next \/ (~full(list) /\ Insertions)]_vars

-----------------------------------------------------------------------------
(* Properties.                                                             *)

(* References to a node or BAD_REF everywhere, a size that is a number     *)
(* (class List, list.h:12).                                                *)
TypeOK ==
    LET RefType == Slots(list) \cup {BAD_REF}
    IN  /\ list.m_buffer \in [Slots(list) -> [val : {list.m_buffer[r].val : r \in Slots(list)},
                                              next : RefType, prev : RefType]]
        /\ list.m_ghost \in RefType /\ list.m_free_head_ref \in RefType
        /\ list.m_size \in Nat
        /\ made = (list # NoList) /\ erased \in BOOLEAN /\ (erased => made)
        /\ DOMAIN held \subseteq Slots(list) \ {list.m_ghost} /\ \A r \in DOMAIN held : held[r] \in Vals

(* The slots from `from' on, following next.                               *)
Walk(l, from) ==
    LET path[k \in 0..capacity(l)] ==
            IF k = 0 THEN from
            ELSE IF path[k - 1] \in Slots(l) THEN l.m_buffer[path[k - 1]].next ELSE BAD_REF
    IN  path

(* Until the first erasure, from the ghost, "Ref to ghost element for loop *)
(* the list" (list.h:60), next leads through every element the client has, *)
(* once, and back to it; prev is the way back (insert_after and            *)
(* insert_before, list.cpp:120 and 136).                                   *)
RingWellFormed ==
    made /\ ~erased =>
        LET ring == DOMAIN held \cup {list.m_ghost}
            path == Walk(list, list.m_ghost)
        IN  /\ list.m_size = Cardinality(DOMAIN held)
            /\ {path[k] : k \in 0..list.m_size} = ring
            /\ path[list.m_size + 1] = list.m_ghost
            /\ \A r \in ring : list.m_buffer[list.m_buffer[r].next].prev = r

(* The chain of free slots ends, and holds every slot that is not in use   *)
(* once and none that is: the next insertion cannot get a slot the client  *)
(* still refers to (erase: "tie with free list", list.cpp:82).             *)
FreeChain ==
    made =>
        LET free == Slots(list) \ (DOMAIN held \cup {list.m_ghost})
            path == Walk(list, list.m_free_head_ref)
        IN  /\ {path[k] : k \in 0..(Cardinality(free) - 1)} = free
            /\ path[Cardinality(free)] = BAD_REF

(* A reference stays good for the value stored under it, whatever is       *)
(* inserted, erased and assigned elsewhere: get returns what went in       *)
(* (ASSERT_EQ (list.get (lcurr), array[i]), Tests/test.cpp:17).            *)
RefsKeepValues == made => \A r \in DOMAIN held : get(list, r) = held[r]

(* The elements in the order in which list_dump (main.cpp:7) meets them.   *)
Items(l) ==
    LET path == Walk(l, l.m_ghost)
    IN  [i \in 1..l.m_size |-> [ref |-> path[i], val |-> get(l, path[i])]]

Orderly == made /\ ~erased

Rooms == {Room(cap) : cap \in Caps \cup {Len(vals) : vals \in InitLists}}

Erased == [op |-> "erase", at |-> BAD_REF, ref |-> BAD_REF]

RefSeq == INSTANCE RefList WITH
    Refs  <- UNION {0..N : N \in Rooms},
    NoRef <- BAD_REF,
    items <- IF Orderly THEN Items(list) ELSE <<>>,
    made  <- Orderly,
    ret   <- IF erased THEN Erased ELSE ret

(* Inserting is inserting into a sequence, at the place asked for: links   *)
(* and free slots show neither in the order nor in the references.  With   *)
(* the first erasure the promise ends.                                     *)
ImplementsRefList == RefSeq!Spec
=============================================================================
