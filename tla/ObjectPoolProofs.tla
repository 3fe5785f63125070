-------------------------- MODULE ObjectPoolProofs --------------------------
(***************************************************************************)
(* Theorems about ObjectPool: for all constants and pool sizes, a client   *)
(* that stays within its pool has a table of constants.                    *)
(***************************************************************************)
EXTENDS ObjectPool, TLAPS

(* What every state of such a client satisfies.  The block holds what the  *)
(* counts say, and the indices given away are those of the slots in use,   *)
(* each with its own object in it.                                         *)
Holds(obj, idx) == pool.objs.cells[idx] = obj

IInv ==
    /\ TypeOK
    /\ pool \in [objs : [room : Nat, cells : [0..(pool.objs.room - 1) -> Objects \cup {Zero}]],
                 nobjs : Nat, capacity : Nat]
    /\ pool.objs.room = pool.capacity
    /\ Live(pool) <=> pool.capacity # 0
    /\ pool.capacity # 0 => pool.capacity \in Sizes
    /\ StoredOnce
    /\ NoFalseErrors
    /\ \A obj \in DOMAIN given : Holds(obj, given[obj])

(* Objects are equal for obj_is_equal when they are equal, and comparing   *)
(* objects of the same type is not an error.                               *)
LEMMA ComparesEqual ==
    ASSUME NEW a \in Objects \cup {Zero}, NEW b \in Objects
    PROVE  /\ a.tag = b.tag /\ obj_is_equal(a, b).eq <=> a = b
           /\ a.tag = b.tag => ~obj_is_equal(a, b).error
<1>1. a \in [tag : {"INT", "DEC"}, val : Int] /\ b \in [tag : {"INT", "DEC"}, val : Int]
    BY PoolAssumption DEF Zero
<1>2. a = [tag |-> a.tag, val |-> a.val] /\ b = [tag |-> b.tag, val |-> b.val]
    BY <1>1
<1>3. a.tag = b.tag /\ a.val = b.val <=> a = b
    BY <1>2
<1>4. a.tag \in {"INT", "DEC"} /\ ~(a.tag = "VOID")
    BY <1>1
<1>5. val_is_equal(a.val, b.val, a.tag).eq <=> a.val = b.val
    BY <1>4, Zenon DEF val_is_equal
<1>6. ~val_is_equal(a.val, b.val, a.tag).error
    BY <1>4, Zenon DEF val_is_equal
<1>7. a.tag = b.tag => obj_is_equal(a, b) = val_is_equal(a.val, b.val, a.tag)
    BY Zenon DEF obj_is_equal
<1> QED BY <1>3, <1>5, <1>6, <1>7, Zenon

(* An object is found exactly if it was inserted, and at its index.        *)
LEMMA LooksUp ==
    ASSUME IInv, NEW obj \in Objects
    PROVE  /\ obj \in DOMAIN given => given[obj] \in 0..(pool.nobjs - 1)
           /\ obj_pool_look_up(pool, obj) =
                [idx |-> IF obj \in DOMAIN given THEN given[obj] ELSE BAD_IDX, error |-> FALSE]
<1> DEFINE look == obj_pool_look_up(pool, obj)
<1>1. /\ pool.nobjs \in Nat /\ pool.nobjs <= pool.objs.room /\ pool.objs.room \in Nat
      /\ pool.objs.cells \in [0..(pool.objs.room - 1) -> Objects \cup {Zero}]
      /\ Indices = 0..(pool.nobjs - 1)
    BY DEF IInv, TypeOK, StoredOnce
<1>2. \A i \in 0..(pool.nobjs - 1) : pool.objs.cells[i] \in Objects \cup {Zero}
    BY <1>1
<1>3. Hits(pool, obj) = {i \in 0..(pool.nobjs - 1) : pool.objs.cells[i] = obj}
    BY <1>2, ComparesEqual DEF Hits
<1>4. look = [idx |-> FirstOf(Hits(pool, obj)), error |-> FALSE]
    <2> DEFINE Compared == {i \in 0..(pool.nobjs - 1) : pool.objs.cells[i].tag = obj.tag
                               /\ (FirstOf(Hits(pool, obj)) = BAD_IDX \/ i <= FirstOf(Hits(pool, obj)))}
    <2>1. ~\E i \in Compared : obj_is_equal(pool.objs.cells[i], obj).error
        BY <1>2, ComparesEqual
    <2> QED BY <2>1, Zenon DEF obj_pool_look_up
<1>5. CASE obj \in DOMAIN given
    <2>1. given[obj] \in 0..(pool.nobjs - 1)
        BY <1>1, <1>5 DEF Indices
    <2>2. \A i \in 0..(pool.nobjs - 1) : pool.objs.cells[i] = obj <=> i = given[obj]
        <3>1. ASSUME NEW i \in 0..(pool.nobjs - 1), pool.objs.cells[i] = obj
              PROVE  i = given[obj]
            <4>1. PICK o \in DOMAIN given : given[o] = i
                BY <1>1 DEF Indices
            <4> QED BY <3>1, <4>1 DEF IInv, Holds
        <3> QED BY <1>5, <3>1 DEF IInv, Holds
    <2>3. Hits(pool, obj) = {given[obj]}
        BY <1>3, <2>1, <2>2
    <2>4. FirstOf(Hits(pool, obj)) = given[obj]
        BY <2>1, <2>3 DEF FirstOf
    <2> QED BY <1>4, <1>5, <2>1, <2>4
<1>6. CASE obj \notin DOMAIN given
    <2>1. ASSUME NEW i \in 0..(pool.nobjs - 1)
          PROVE  pool.objs.cells[i] # obj
        <3>1. PICK o \in DOMAIN given : given[o] = i
            BY <1>1 DEF Indices
        <3> QED BY <1>6, <3>1 DEF IInv, Holds
    <2>2. FirstOf(Hits(pool, obj)) = BAD_IDX
        BY <1>3, <2>1 DEF FirstOf
    <2> QED BY <1>4, <1>6, <2>2
<1> QED BY <1>5, <1>6

-----------------------------------------------------------------------------
(* The invariant.                                                          *)

USE PoolAssumption

(* A pool that is not there.                                               *)
LEMMA EmptyPool ==
    ASSUME NEW p, p = [objs |-> NULL, nobjs |-> 0, capacity |-> 0]
    PROVE  /\ p.objs.room = 0 /\ p.capacity = 0 /\ p.nobjs = 0 /\ ~Live(p)
           /\ p.objs.cells \in [0..(p.objs.room - 1) -> Objects \cup {Zero}]
           /\ p \in [objs : [room : Nat, cells : [0..(p.objs.room - 1) -> Objects \cup {Zero}]],
                     nobjs : Nat, capacity : Nat]
<1>1. NULL = [room |-> 0, cells |-> [i \in {} |-> Zero]]
    BY DEF NULL
<1>2. NULL.room = 0 /\ NULL.cells = [i \in {} |-> Zero] /\ 0..(0 - 1) = {}
    BY <1>1
<1>3. NULL.cells \in [0..(NULL.room - 1) -> Objects \cup {Zero}]
    BY <1>2
<1>4. NULL \in [room : Nat, cells : [0..(NULL.room - 1) -> Objects \cup {Zero}]]
    BY <1>1, <1>2, <1>3
<1>5. p.objs = NULL /\ p.capacity = 0 /\ p.nobjs = 0
    OBVIOUS
<1> QED BY <1>2, <1>3, <1>4, <1>5 DEF Live

(* A client that was given nothing.                                        *)
LEMMA NothingGiven ==
    ASSUME NEW g, g = [obj \in {} |-> BAD_IDX]
    PROVE  DOMAIN g = {} /\ g \in [DOMAIN g -> Nat] /\ {g[obj] : obj \in DOMAIN g} = 0..(0 - 1)
<1>1. DOMAIN g = {}
    OBVIOUS
<1>2. g \in [DOMAIN g -> Nat]
    BY <1>1
<1>3. {g[obj] : obj \in DOMAIN g} = {} /\ 0..(0 - 1) = {}
    BY <1>1
<1> QED BY <1>1, <1>2, <1>3

(* So it is at first.                                                      *)
LEMMA InitInv == Init => IInv
<1> SUFFICES ASSUME Init PROVE IInv
    OBVIOUS
<1>1. /\ pool = [objs |-> NULL, nobjs |-> 0, capacity |-> 0]
      /\ given = [obj \in {} |-> BAD_IDX]
      /\ errors = FALSE /\ overrun = FALSE
      /\ ret = [op |-> "none", idx |-> BAD_IDX, obj |-> Void]
    BY DEF Init, obj_pool_destroyable
<1>2. TypeOK
    <2>1. ret \in [op : {"none", "init", "free", "insert", "get"}, idx : Nat \cup {BAD_IDX},
                   obj : Objects \cup {Zero, Void}]
        BY <1>1
    <2>2. /\ pool.objs.room = 0 /\ pool.capacity = 0 /\ pool.nobjs = 0
          /\ pool.objs.cells \in [0..(pool.objs.room - 1) -> Objects \cup {Zero}]
        BY <1>1, EmptyPool
    <2>3. given \in [DOMAIN given -> Nat] /\ DOMAIN given \subseteq Objects
        BY <1>1, NothingGiven
    <2>4. 0 \in 0..0 /\ 0 \in Nat
        OBVIOUS
    <2>5. errors \in BOOLEAN /\ overrun \in BOOLEAN
        BY <1>1
    <2> QED BY <2>1, <2>2, <2>3, <2>4, <2>5, Zenon DEF TypeOK
<1>3. StoredOnce
    BY <1>1, EmptyPool, NothingGiven DEF StoredOnce, Indices
<1> QED BY <1>1, <1>2, <1>3, EmptyPool, NothingGiven DEF IInv, NoFalseErrors

(* A slot more, for an object that had none.                               *)
LEMMA StoreKeeps ==
    ASSUME IInv, NEW obj \in Objects, Insert(obj)
    PROVE  IInv'
<1> DEFINE n == pool.nobjs
           room == pool.objs.room
           cells == pool.objs.cells
           new == [i \in 0..(room - 1) |-> IF i = n THEN obj ELSE cells[i]]
<1>1. /\ n \in Nat /\ room \in Nat /\ room = pool.capacity /\ n < room
      /\ cells \in [0..(room - 1) -> Objects \cup {Zero}]
    BY DEF IInv, TypeOK, Insert
<1>2. /\ pool' = Store(pool, obj)
      /\ given' = [o \in DOMAIN given \cup {obj} |-> IF o = obj THEN n ELSE given[o]]
      /\ ret' = [op |-> "insert", idx |-> n, obj |-> obj]
      /\ overrun' = (n >= room) /\ errors' = obj_pool_look_up(pool, obj).error
    BY DEF Insert, Stored, Note, Result
<1>3. obj \notin DOMAIN given
    <2>1. obj_pool_look_up(pool, obj).idx = BAD_IDX
        BY DEF Insert, Stored
    <2>2. ASSUME obj \in DOMAIN given PROVE FALSE
        BY <1>1, <2>1, <2>2, LooksUp
    <2> QED BY <2>2
<1>4. pool' = [objs |-> [room |-> room, cells |-> new], nobjs |-> n + 1, capacity |-> pool.capacity]
    BY <1>1, <1>2 DEF Store, IInv
<1>5. new \in [0..(room - 1) -> Objects \cup {Zero}]
    BY <1>1
<1>6. errors' = FALSE /\ overrun' \in BOOLEAN
    BY <1>2, LooksUp
<1>7. DOMAIN given' = DOMAIN given \cup {obj} /\ given'[obj] = n
      /\ \A o \in DOMAIN given : given'[o] = given[o] /\ given[o] \in 0..(n - 1)
    BY <1>1, <1>2, <1>3 DEF IInv, StoredOnce, Indices
<1> HIDE DEF new
<1>8. TypeOK'
    <2>1. given' \in [DOMAIN given' -> Nat] /\ DOMAIN given' \subseteq Objects
        BY <1>1, <1>2, <1>7 DEF IInv, TypeOK
    <2>2. /\ pool'.objs.room \in Nat /\ pool'.capacity \in Nat /\ pool'.nobjs \in 0..pool'.capacity
          /\ pool'.objs.cells \in [0..(pool'.objs.room - 1) -> Objects \cup {Zero}]
        BY <1>1, <1>4, <1>5
    <2>3. ret' \in [op : {"none", "init", "free", "insert", "get"}, idx : Nat \cup {BAD_IDX},
                    obj : Objects \cup {Zero, Void}]
        BY <1>1, <1>2
    <2> QED BY <1>6, <2>1, <2>2, <2>3 DEF TypeOK
<1>9. StoredOnce'
    <2>1. Indices = 0..(n - 1)
        BY DEF IInv, StoredOnce
    <2>2. Indices' = Indices \cup {n}
        BY <1>7 DEF Indices
    <2> QED BY <1>1, <1>4, <2>1, <2>2 DEF StoredOnce
<1>10. \A o \in DOMAIN given' : Holds(o, given[o])'
    <2>1. \A i \in 0..(n - 1) : new[i] = cells[i]
        BY <1>1 DEF new
    <2>2. new[n] = obj
        BY <1>1 DEF new
    <2>3. pool'.objs.cells = new
        BY <1>4
    <2>4. \A o \in DOMAIN given : cells[given[o]] = o
        BY DEF IInv, Holds
    <2> QED BY <1>7, <2>1, <2>2, <2>3, <2>4 DEF Holds
<1>11. Live(pool') /\ pool.capacity \in Sizes
    BY <1>1, <1>4 DEF Live, NULL, IInv, Insert, Stored
<1> QED BY <1>1, <1>4, <1>5, <1>6, <1>8, <1>9, <1>10, <1>11 DEF IInv, NoFalseErrors

(* Calls that change neither the pool nor what the client knows.           *)
LEMMA KeepingKeeps ==
    ASSUME IInv, UNCHANGED <<pool, given, overrun>>, errors' \in BOOLEAN,
           ret' \in [op : {"insert", "get"}, idx : Nat \cup {BAD_IDX}, obj : Objects \cup {Zero, Void}],
           errors' => ret'.idx = BAD_IDX
    PROVE  IInv'
<1>1. TypeOK'
    BY DEF IInv, TypeOK
<1>2. StoredOnce'
    BY DEF IInv, StoredOnce, Indices
<1>3. \A o \in DOMAIN given' : Holds(o, given[o])'
    BY DEF IInv, Holds
<1> QED BY <1>1, <1>2, <1>3 DEF IInv, NoFalseErrors

LEMMA FoundKeeps ==
    ASSUME IInv, NEW obj \in Objects, Found(obj)
    PROVE  obj \in DOMAIN given /\ given' = given /\ given[obj] \in Nat /\ IInv'
<1>1. obj_pool_look_up(pool, obj).idx # BAD_IDX
    BY DEF Found
<1>2. obj \in DOMAIN given /\ obj_pool_look_up(pool, obj).idx = given[obj] /\ given[obj] \in Nat
      /\ obj_pool_look_up(pool, obj).error = FALSE
    BY <1>1, LooksUp DEF IInv, TypeOK
<1>3. given' = [o \in DOMAIN given \cup {obj} |-> IF o = obj THEN given[obj] ELSE given[o]]
      /\ ret' = [op |-> "insert", idx |-> given[obj], obj |-> obj]
      /\ errors' = FALSE /\ pool' = pool /\ overrun' = overrun
    BY <1>2 DEF Found, Note, Result
<1>4. given = [o \in DOMAIN given |-> given[o]]
    BY DEF IInv, TypeOK
<1>5. given' = given
    <2>1. DOMAIN given \cup {obj} = DOMAIN given
        BY <1>2
    <2> QED BY <1>3, <1>4, <2>1
<1> QED BY <1>2, <1>3, <1>5, KeepingKeeps

(* What the client gets for an index it was given is the object.           *)
LEMMA GetsBack ==
    ASSUME IInv, NEW obj \in DOMAIN given, NEW beyond
    PROVE  /\ obj_pool_get(pool, given[obj], beyond) = obj
           /\ given[obj] \in 0..(pool.nobjs - 1) /\ given[obj] < pool.objs.room
<1>1. given[obj] \in 0..(pool.nobjs - 1) /\ pool.nobjs \in Nat /\ pool.nobjs <= pool.objs.room
      /\ pool.objs.room \in Nat
    BY DEF IInv, TypeOK, StoredOnce, Indices
<1> QED BY <1>1 DEF obj_pool_get, IInv, Holds

LEMMA InitPoolKeeps ==
    ASSUME IInv, NEW size \in Sizes, NEW ok \in BOOLEAN, InitPool(size, ok)
    PROVE  IInv'
<1>1. pool.objs = NULL /\ pool.capacity = 0 /\ pool.nobjs = 0 /\ Indices = {}
    BY DEF InitPool, IInv, Live, TypeOK, StoredOnce
<1>2. DOMAIN given = {}
    <2>1. ASSUME NEW obj \in DOMAIN given PROVE FALSE
        BY <1>1, <2>1 DEF Indices
    <2> QED BY <2>1
<1>3. ret' = [op |-> "init", idx |-> BAD_IDX, obj |-> Void] /\ errors' = FALSE
      /\ given' = given /\ overrun' = overrun
    BY DEF InitPool, Result
<1>4. Indices' = {}
    BY <1>2, <1>3 DEF Indices
<1>5. CASE ok
    <2> DEFINE c == [i \in 0..(size - 1) |-> Zero]
    <2>1. pool' = [objs |-> [room |-> size, cells |-> c], nobjs |-> 0, capacity |-> size]
        BY <1>5 DEF InitPool
    <2>2. size \in Nat /\ size # 0 /\ c \in [0..(size - 1) -> Objects \cup {Zero}]
        OBVIOUS
    <2> HIDE DEF c
    <2>3. TypeOK'
        <3>1. /\ pool'.objs.room \in Nat /\ pool'.capacity \in Nat /\ pool'.nobjs \in 0..pool'.capacity
              /\ pool'.objs.cells \in [0..(pool'.objs.room - 1) -> Objects \cup {Zero}]
            BY <2>1, <2>2
        <3>2. ret' \in [op : {"none", "init", "free", "insert", "get"}, idx : Nat \cup {BAD_IDX},
                        obj : Objects \cup {Zero, Void}]
            BY <1>3
        <3> QED BY <1>3, <3>1, <3>2 DEF IInv, TypeOK
    <2>4. StoredOnce' /\ Live(pool')
        BY <1>4, <2>1, <2>2 DEF StoredOnce, Live, NULL
    <2> QED BY <1>2, <1>3, <2>1, <2>2, <2>3, <2>4 DEF IInv, NoFalseErrors
<1>6. CASE ~ok
    <2>1. pool' = pool
        BY <1>1, <1>6 DEF InitPool, IInv
    <2>2. TypeOK'
        BY <1>3, <2>1 DEF IInv, TypeOK
    <2>3. StoredOnce'
        BY <1>1, <1>4, <2>1 DEF StoredOnce, IInv
    <2> QED BY <1>2, <1>3, <2>1, <2>2, <2>3 DEF IInv, NoFalseErrors
<1> QED BY <1>5, <1>6

LEMMA FreeKeeps ==
    ASSUME IInv, FreePool
    PROVE  IInv'
<1>1. /\ pool' = [objs |-> NULL, nobjs |-> 0, capacity |-> 0]
      /\ given' = [obj \in {} |-> BAD_IDX]
      /\ errors' = FALSE /\ overrun' = overrun
      /\ ret' = [op |-> "free", idx |-> BAD_IDX, obj |-> Void]
    BY DEF FreePool, obj_pool_destroyable, Result
<1>2. TypeOK'
    <2>1. ret' \in [op : {"none", "init", "free", "insert", "get"}, idx : Nat \cup {BAD_IDX},
                    obj : Objects \cup {Zero, Void}]
        BY <1>1
    <2>2. /\ pool'.objs.room = 0 /\ pool'.capacity = 0 /\ pool'.nobjs = 0
          /\ pool'.objs.cells \in [0..(pool'.objs.room - 1) -> Objects \cup {Zero}]
        BY <1>1, EmptyPool
    <2>3. given' \in [DOMAIN given' -> Nat] /\ DOMAIN given' \subseteq Objects
        BY <1>1, NothingGiven
    <2>4. 0 \in 0..0 /\ 0 \in Nat
        OBVIOUS
    <2>5. errors' \in BOOLEAN /\ overrun' \in BOOLEAN
        BY <1>1 DEF IInv, TypeOK
    <2> QED BY <2>1, <2>2, <2>3, <2>4, <2>5, Zenon DEF TypeOK
<1>3. StoredOnce'
    BY <1>1, EmptyPool, NothingGiven DEF StoredOnce, Indices
<1> QED BY <1>1, <1>2, <1>3, EmptyPool, NothingGiven DEF IInv, NoFalseErrors

(* Every call of a client that stays within its pool keeps the invariant.  *)
LEMMA NextInv == IInv /\ [NextWithin]_vars => IInv'
<1> SUFFICES ASSUME IInv, [NextWithin]_vars PROVE IInv'
    OBVIOUS
<1>1. ASSUME NEW size \in Sizes, NEW ok \in BOOLEAN, InitPool(size, ok) PROVE IInv'
    BY <1>1, InitPoolKeeps
<1>2. CASE FreePool
    BY <1>2, FreeKeeps
<1>3. ASSUME NEW obj \in Objects, Found(obj) PROVE IInv'
    BY <1>3, FoundKeeps
<1>4. ASSUME NEW obj \in Objects, Insert(obj) PROVE IInv'
    BY <1>4, StoreKeeps
<1>5. ASSUME NEW obj \in Objects, InsertFail(obj) PROVE IInv'
    <2>1. ret' = [op |-> "insert", idx |-> BAD_IDX, obj |-> obj] /\ errors' = TRUE
          /\ UNCHANGED <<pool, given, overrun>>
        BY <1>5 DEF InsertFail, Result
    <2>2. ret' \in [op : {"insert", "get"}, idx : Nat \cup {BAD_IDX}, obj : Objects \cup {Zero, Void}]
          /\ ret'.idx = BAD_IDX
        BY <2>1
    <2> QED BY <2>1, <2>2, KeepingKeeps
<1>6. ASSUME NEW idx \in Indices, Get(idx) PROVE IInv'
    <2>1. PICK obj \in DOMAIN given : idx = given[obj]
        BY DEF Indices
    <2>2. ret' = [op |-> "get", idx |-> idx, obj |-> obj]
        BY <1>6, <2>1, GetsBack DEF Get, Result
    <2>3. idx \in Nat /\ obj \in Objects
        BY <2>1 DEF IInv, TypeOK
    <2>4. ret' \in [op : {"insert", "get"}, idx : Nat \cup {BAD_IDX}, obj : Objects \cup {Zero, Void}]
        BY <2>2, <2>3
    <2>5. UNCHANGED <<pool, given, overrun>>
        BY <1>6 DEF Get
    <2>6. errors' \in BOOLEAN /\ ~errors'
        <3>1. idx \in 0..(pool.nobjs - 1) /\ pool.nobjs \in Nat
            BY <2>1, GetsBack DEF IInv, TypeOK
        <3>2. ~(idx > pool.nobjs)
            BY <3>1
        <3>3. errors' = (idx > pool.nobjs)
            BY <1>6 DEF Get
        <3>4. errors' \in BOOLEAN
            BY <3>3
        <3>5. ~errors'
            BY <3>2, <3>3, <3>4
        <3> QED BY <3>4, <3>5
    <2> QED BY <2>4, <2>5, <2>6, KeepingKeeps
<1>7. CASE UNCHANGED vars
    <2>1. TypeOK'
        BY <1>7 DEF vars, IInv, TypeOK
    <2>2. StoredOnce' /\ \A o \in DOMAIN given' : Holds(o, given[o])'
        BY <1>7 DEF vars, IInv, StoredOnce, Indices, Holds
    <2> QED BY <1>7, <2>1, <2>2 DEF vars, IInv, NoFalseErrors
<1> QED BY <1>1, <1>2, <1>3, <1>4, <1>5, <1>6, <1>7 DEF NextWithin

(* The invariant is one: it holds in every state.                          *)
THEOREM Inductive == SpecWithin => []IInv
<1> QED BY InitInv, NextInv, PTL DEF SpecWithin

(* Types; the counts are in order.                                         *)
THEOREM TypeCorrect == SpecWithin => []TypeOK
<1>1. IInv => TypeOK
    BY DEF IInv
<1> QED BY <1>1, Inductive, PTL

(* An index once returned refers to the object that was inserted for it,   *)
(* within the block (obj_pool_insert, obj_pool_get).                       *)
THEOREM IndicesGood == SpecWithin => []IndicesStayGood
<1>1. IInv => IndicesStayGood
    BY GetsBack DEF IndicesStayGood
<1> QED BY <1>1, Inductive, PTL

(* No constant is stored twice, and nothing but constants (obj_pool_insert, *)
(* obj_pool.cpp:54).                                                       *)
THEOREM EachStoredOnce == SpecWithin => []StoredOnce
<1>1. IInv => StoredOnce
    BY DEF IInv
<1> QED BY <1>1, Inductive, PTL

(* Looking a constant up among those of another type is no error           *)
(* (obj_pool_look_up, obj_pool.cpp:42).                                    *)
THEOREM NeverFalseError == SpecWithin => []NoFalseErrors
<1>1. IInv => NoFalseErrors
    BY DEF IInv
<1> QED BY <1>1, Inductive, PTL

-----------------------------------------------------------------------------
(* The pool is a table of constants.                                       *)

(* Before the first call there is no table.                                *)
LEMMA InitRefines == Init => Table!Init
<1> SUFFICES ASSUME Init PROVE Table!Init
    OBVIOUS
<1>1. ~Live(pool)
    BY EmptyPool DEF Init, obj_pool_destroyable
<1> QED BY <1>1 DEF Init, Table!Init

(* Each call is a step of the table.                                       *)
LEMMA NextRefines == IInv /\ [NextWithin]_vars => [Table!Next]_(Table!vars)
<1> SUFFICES ASSUME IInv, [NextWithin]_vars PROVE [Table!Next]_(Table!vars)
    OBVIOUS
<1>1. ASSUME NEW size \in Sizes, NEW ok \in BOOLEAN, InitPool(size, ok) PROVE Table!Open
    <2>1. Live(pool') \in BOOLEAN
        BY DEF Live
    <2> QED BY <1>1, <2>1 DEF InitPool, Result, Table!Open, Table!Result
<1>2. CASE FreePool
    <2>1. ~Live(pool')
        BY <1>2, EmptyPool DEF FreePool, obj_pool_destroyable
    <2> QED BY <1>2, <2>1 DEF FreePool, Result, Table!Next, Table!Close, Table!Result
<1>3. ASSUME NEW obj \in Objects, Found(obj) PROVE Table!Find(obj)
    <2>1. obj \in DOMAIN given /\ given' = given
        BY <1>3, FoundKeeps
    <2>2. obj_pool_look_up(pool, obj).idx = given[obj]
        BY <2>1, LooksUp
    <2>3. ret' = [op |-> "insert", idx |-> given[obj], obj |-> obj] /\ pool' = pool /\ Live(pool)
        BY <1>3, <2>2 DEF Found, Note, Result
    <2> QED BY <2>1, <2>3 DEF Table!Find, Table!Known, Table!Result
<1>4. ASSUME NEW obj \in Objects, Insert(obj) PROVE Table!Add(obj)
    <2>1. obj \notin DOMAIN given
        <3>1. obj_pool_look_up(pool, obj).idx = BAD_IDX
            BY <1>4 DEF Insert, Stored
        <3> QED BY <3>1, LooksUp DEF IInv, TypeOK
    <2>2. /\ given' = [o \in DOMAIN given \cup {obj} |-> IF o = obj THEN pool.nobjs ELSE given[o]]
          /\ ret' = [op |-> "insert", idx |-> pool.nobjs, obj |-> obj] /\ Live(pool)
        BY <1>4 DEF Insert, Stored, Note, Result
    <2>3. pool.nobjs \in AllIndices
        <3>1. /\ pool.nobjs \in Nat /\ pool.capacity \in Nat
              /\ pool.nobjs <= pool.capacity /\ pool.nobjs # pool.capacity
            BY <1>4 DEF Insert, IInv, TypeOK
        <3>2. pool.capacity \in Sizes /\ pool.nobjs \in 0..(pool.capacity - 1)
            BY <3>1 DEF IInv
        <3> QED BY <3>2 DEF AllIndices
    <2>4. pool.nobjs \notin Indices
        BY DEF IInv, TypeOK, StoredOnce
    <2>5. Live(pool')
        <3>1. IInv'
            BY <1>4, StoreKeeps
        <3>2. pool'.capacity = pool.capacity /\ pool.capacity # 0
            BY <1>4, <2>2 DEF Insert, Stored, Store, IInv
        <3> QED BY <3>1, <3>2 DEF IInv
    <2> QED BY <2>1, <2>2, <2>3, <2>4, <2>5 DEF Table!Add, Table!Known, Table!Taken, Table!Result, Indices
<1>5. ASSUME NEW obj \in Objects, InsertFail(obj) PROVE Table!Refuse(obj)
    <2>1. obj \notin DOMAIN given
        <3>1. obj_pool_look_up(pool, obj).idx = BAD_IDX
            BY <1>5 DEF InsertFail
        <3> QED BY <3>1, LooksUp DEF IInv, TypeOK
    <2> QED BY <1>5, <2>1 DEF InsertFail, Result, Table!Refuse, Table!Known, Table!Result
<1>6. ASSUME NEW idx \in Indices, Get(idx) PROVE \E obj \in Objects : Table!Find(obj)
    <2>1. PICK obj \in DOMAIN given : idx = given[obj]
        BY DEF Indices
    <2>2. ret' = [op |-> "get", idx |-> given[obj], obj |-> obj]
        BY <1>6, <2>1, GetsBack DEF Get, Result
    <2>3. Live(pool) /\ pool' = pool /\ given' = given /\ obj \in Objects
        BY <1>6 DEF Get, IInv, TypeOK
    <2> QED BY <2>1, <2>2, <2>3 DEF Table!Find, Table!Known, Table!Result
<1>7. CASE UNCHANGED vars
    BY <1>7 DEF vars, Table!vars
<1> QED BY <1>1, <1>2, <1>3, <1>4, <1>5, <1>6, <1>7 DEF NextWithin, Table!Next

(* The pool of a client that stays within it implements the table of       *)
(* constants (obj_pool.h).                                                 *)
THEOREM ImplementsTable == SpecWithin => ImplementsConstTable
<1> QED BY InitRefines, NextRefines, Inductive, PTL DEF SpecWithin, ImplementsConstTable, Table!Spec
=============================================================================
