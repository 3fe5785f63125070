----------------------------- MODULE ObjectPool -----------------------------
(***************************************************************************)
(* WM/src/ObjectPool/obj_pool.cpp: the constants of a program, each stored *)
(* once and referred to by its index.                                      *)
(*                                                                         *)
(* An object is a tag and a value; what the assembler makes of a number    *)
(* (make_object, asm.cpp:152) is an INT or a DEC.  The block OBJS points   *)
(* at is the number of whole objects that fit in it and what is in them.   *)
(* Reading past it gives any object; writing past it is undefined, sets    *)
(* `overrun' and is the last thing modelled.  obj_pool_size and            *)
(* obj_pool_dump change nothing.                                           *)
(***************************************************************************)
EXTENDS Integers

CONSTANTS
    Objects,    \* the objects a client inserts
    Sizes,      \* the initial sizes it asks for
    OBJ_SIZE,   \* sizeof (Object)
    BAD_IDX     \* OBJ_POOL_BAD_IDX, which is no index

ASSUME PoolAssumption ==
    /\ \A obj \in Objects : obj \in [tag : {"INT", "DEC"}, val : Int]
    /\ Sizes \subseteq Nat \ {0}
    /\ OBJ_SIZE \in Nat \ {0}
    /\ BAD_IDX \notin Nat

VARIABLES
    pool,       \* the ObjectPool
    given,      \* the objects the client inserted, with the indices it got
    errors,     \* whether the last call reported an error (error, err.cpp:38)
    overrun,    \* it wrote past the block
    ret         \* the last call, the index and the object it returned

vars == <<pool, given, errors, overrun, ret>>

Zero == [tag |-> "INT", val |-> 0]          \* what calloc leaves
Void == [tag |-> "VOID", val |-> 0]

NULL == [room |-> 0, cells |-> [i \in {} |-> Zero]]

obj_pool_destroyable == [objs |-> NULL, nobjs |-> 0, capacity |-> 0]

Live(p) == p.objs # NULL

-----------------------------------------------------------------------------
(* obj.cpp: an operator returns the result and whether it is an error.     *)

val_is_equal(lhs, rhs, tag) == [eq |-> tag \in {"INT", "DEC"} /\ lhs = rhs, error |-> tag = "VOID"]

obj_is_equal(lhs, rhs) ==
    IF lhs.tag = rhs.tag THEN val_is_equal(lhs.val, rhs.val, lhs.tag) ELSE [eq |-> FALSE, error |-> TRUE]

(* obj_pool.cpp.                                                           *)

(* The first of the indices in Equal, or none; looking stops there.        *)
FirstOf(Equal) == IF Equal = {} THEN BAD_IDX ELSE CHOOSE i \in Equal : \A j \in Equal : i <= j

Hits(p, obj) == {i \in 0..(p.nobjs - 1) : p.objs.cells[i].tag = obj.tag /\ obj_is_equal(p.objs.cells[i], obj).eq}

(* Mutant of obj_pool_look_up: leaves the comparison of tags to            *)
(* obj_is_equal.                                                           *)
obj_pool_look_up_untagged(p, obj) ==
    LET found    == FirstOf({i \in 0..(p.nobjs - 1) : obj_is_equal(p.objs.cells[i], obj).eq})
        Compared == IF found = BAD_IDX THEN 0..(p.nobjs - 1) ELSE 0..found
    IN  [idx |-> found, error |-> \E i \in Compared : obj_is_equal(p.objs.cells[i], obj).error]

(* Mutant of obj_pool_look_up: does not look at the last object.           *)
obj_pool_look_up_short(p, obj) == [idx |-> FirstOf(Hits(p, obj) \ {p.nobjs - 1}), error |-> FALSE]

obj_pool_look_up(p, obj) ==
    LET found    == FirstOf(Hits(p, obj))
        Compared == {i \in 0..(p.nobjs - 1) : p.objs.cells[i].tag = obj.tag /\ (found = BAD_IDX \/ i <= found)}
    IN  [idx |-> found, error |-> \E i \in Compared : obj_is_equal(p.objs.cells[i], obj).error]

(* realloc to 2*CAPACITY bytes, which hold that many objects only if an    *)
(* object is a byte.                                                       *)
obj_pool_grow(p) ==
    LET room == (2 * p.capacity) \div OBJ_SIZE
        kept == [i \in 0..(room - 1) |-> IF i < p.objs.room THEN p.objs.cells[i] ELSE Zero]
    IN  [p EXCEPT !.objs = [room |-> room, cells |-> kept], !.capacity = 2 * @]

(* OBJS[NOBJS++] = obj.                                                    *)
Store(p, obj) ==
    [p EXCEPT !.objs.cells = [i \in DOMAIN @ |-> IF i = p.nobjs THEN obj ELSE @[i]], !.nobjs = @ + 1]

(* Mutant of obj_pool_get: the range ends one too early.                   *)
obj_pool_get_short(p, idx, beyond) ==
    IF idx + 1 < p.nobjs THEN p.objs.cells[idx] ELSE Void

obj_pool_get(p, idx, beyond) ==
    IF idx <= p.nobjs THEN IF idx < p.objs.room THEN p.objs.cells[idx] ELSE beyond ELSE Void

-----------------------------------------------------------------------------
(* Calls.                                                                  *)

Init ==
    /\ pool = obj_pool_destroyable
    /\ given = [obj \in {} |-> BAD_IDX]
    /\ errors = FALSE /\ overrun = FALSE
    /\ ret = [op |-> "none", idx |-> BAD_IDX, obj |-> Void]

Result(op, idx, obj) == ret' = [op |-> op, idx |-> idx, obj |-> obj]

(* calloc returns zeroed memory or NULL, and then the rest stays.          *)
InitPool(size, ok) ==
    /\ ~Live(pool)
    /\ pool' = IF ok THEN [objs |-> [room |-> size, cells |-> [i \in 0..(size - 1) |-> Zero]],
                           nobjs |-> 0, capacity |-> size]
               ELSE [pool EXCEPT !.objs = NULL]
    /\ Result("init", BAD_IDX, Void)
    /\ errors' = FALSE
    /\ UNCHANGED <<given, overrun>>

FreePool ==
    /\ pool' = obj_pool_destroyable
    /\ given' = [obj \in {} |-> BAD_IDX]
    /\ Result("free", BAD_IDX, Void)
    /\ errors' = FALSE
    /\ UNCHANGED overrun

(* The client notes the index it gets.                                     *)
Note(obj, idx) ==
    /\ given' = [o \in DOMAIN given \cup {obj} |-> IF o = obj THEN idx ELSE given[o]]
    /\ Result("insert", idx, obj)

Found(obj) ==
    LET look == obj_pool_look_up(pool, obj) IN
    /\ Live(pool) /\ look.idx # BAD_IDX
    /\ Note(obj, look.idx)
    /\ errors' = look.error
    /\ UNCHANGED <<pool, overrun>>

(* Mutant of Stored: returns NOBJS, not NOBJS-1.                           *)
StoredNext(obj, p) ==
    LET look == obj_pool_look_up(pool, obj) IN
    /\ Live(pool) /\ look.idx = BAD_IDX
    /\ pool' = Store(p, obj)
    /\ overrun' = (p.nobjs >= p.objs.room)
    /\ Note(obj, p.nobjs + 1)
    /\ errors' = look.error

(* The object goes to the end of p, which may have grown.                  *)
Stored(obj, p) ==
    LET look == obj_pool_look_up(pool, obj) IN
    /\ Live(pool) /\ look.idx = BAD_IDX
    /\ pool' = Store(p, obj)
    /\ overrun' = (p.nobjs >= p.objs.room)
    /\ Note(obj, p.nobjs)
    /\ errors' = look.error

(* Mutant of Insert: does not look whether there is room.                  *)
InsertUnchecked(obj) == Stored(obj, pool)

Insert(obj)     == pool.nobjs # pool.capacity /\ Stored(obj, pool)
InsertGrow(obj) == pool.nobjs = pool.capacity /\ Stored(obj, obj_pool_grow(pool))

(* There is no memory to grow.                                             *)
InsertFail(obj) ==
    /\ Live(pool) /\ obj_pool_look_up(pool, obj).idx = BAD_IDX
    /\ pool.nobjs = pool.capacity
    /\ Result("insert", BAD_IDX, obj)
    /\ errors' = TRUE
    /\ UNCHANGED <<pool, given, overrun>>

Get(idx) ==
    /\ Live(pool)
    /\ \E beyond \in Objects \cup {Zero} : Result("get", idx, obj_pool_get(pool, idx, beyond))
    /\ errors' = (idx > pool.nobjs)
    /\ UNCHANGED <<pool, given, overrun>>

Indices == {given[obj] : obj \in DOMAIN given}

(* A client that has no more constants than it asked room for, unless      *)
(* there is no memory anyway, and reads what it inserted.                  *)
NextWithin ==
    \/ \E size \in Sizes, ok \in BOOLEAN : InitPool(size, ok)
    \/ FreePool
    \/ \E obj \in Objects : Found(obj) \/ Insert(obj) \/ InsertFail(obj)
    \/ \E idx \in Indices : Get(idx)

SpecWithin == Init /\ [][NextWithin]_vars

(* Any client.                                                             *)
Next ==
    /\ ~overrun
    /\ \/ NextWithin
       \/ \E obj \in Objects : InsertGrow(obj)
       \/ \E idx \in 0..(pool.capacity + 1) : Get(idx)

Spec == Init /\ [][Next]_vars

-----------------------------------------------------------------------------
(* Properties.                                                             *)

(* Types; the counts are in order.                                         *)
TypeOK ==
    /\ pool.objs.room \in Nat
    /\ pool.objs.cells \in [0..(pool.objs.room - 1) -> Objects \cup {Zero}]
    /\ pool.nobjs \in 0..pool.capacity
    /\ pool.capacity \in Nat
    /\ given \in [DOMAIN given -> Nat] /\ DOMAIN given \subseteq Objects
    /\ errors \in BOOLEAN
    /\ overrun \in BOOLEAN
    /\ ret \in [op : {"none", "init", "free", "insert", "get"}, idx : Nat \cup {BAD_IDX},
                obj : Objects \cup {Zero, Void}]

(* An index once returned refers to an object equal to the one inserted,   *)
(* whatever was inserted since (the pool_idx in the operands of an         *)
(* instruction, handle_constant, asm.cpp:244).                             *)
IndicesStayGood ==
    \A obj \in DOMAIN given : given[obj] < pool.objs.room /\ obj_pool_get(pool, given[obj], Void) = obj

(* No constant is stored twice, of either tag, and nothing else is: every  *)
(* slot in use is the one index of an object that was inserted             *)
(* (obj_pool_insert, obj_pool.cpp:54).                                     *)
StoredOnce == Indices = 0..(pool.nobjs - 1)

(* A call reports an error only when it fails: looking a constant up among *)
(* those of another type does not (obj_is_equal does, obj.cpp:28; the tags *)
(* are compared first, obj_pool.cpp:42).                                   *)
NoFalseErrors == errors => ret.idx = BAD_IDX \/ ret.obj = Void

AllIndices == UNION {0..(size - 1) : size \in Sizes}

Table == INSTANCE ConstTable WITH
    Indices <- AllIndices, NoIdx <- BAD_IDX, NoObj <- Void,
    open <- Live(pool), index <- given

(* The pool is a table of constants: equal ones get the same index, others *)
(* another, and it is given back for it (obj_pool_insert, obj_pool_get).   *)
ImplementsConstTable == Table!Spec
=============================================================================
