------------------------------ MODULE LevelHash ------------------------------
(***************************************************************************)
(* The two-level hash table of levelkv/src/levelhashing/level_hashing.c,   *)
(* which the host runs for the DPU (host/levelhashing_host.cpp).           *)
(*                                                                         *)
(* A call runs to completion on one thread.  level_insert is cut at its    *)
(* calls of level_expand, and level_expand and level_shrink at each item   *)
(* they rehash, so that what a loop has done so far is a state.  An        *)
(* allocation that fails, and a null table, are left out.                  *)
(***************************************************************************)
EXTENDS Integers, FiniteSets

CONSTANTS
    Key, Value, NULL,
    JunkKeys,       \* what the key bytes of memory that was never written may be
    F_HASH, S_HASH, \* the two seeded hashes, as functions of the key
    ASSOC_NUM,      \* slots of a bucket
    LEVEL_START,    \* the argument of level_init
    JunkTokens,     \* non-zero token bytes uninitialised memory may hold
    MaxJunk,        \* bound: slots of an allocation that hold such a token
    WORD,           \* uint64_t counts modulo WORD
    MinLevel,       \* bound: level_shrink is not called at or below this level
    MaxLevel,       \* bound: level_expand does not go above this level
    MaxItems        \* bound: level_insert is not called with more items stored

AnyKey == Key \cup JunkKeys

ASSUME HashAssumption ==
    /\ JunkKeys # {} /\ JunkKeys \cap Key = {}
    /\ F_HASH \in [AnyKey -> Nat]
    /\ S_HASH \in [AnyKey -> Nat]

ASSUME SizeAssumption ==
    /\ ASSOC_NUM \in Nat \ {0}
    /\ MinLevel \in Nat \ {0, 1}
    /\ LEVEL_START \in Nat /\ LEVEL_START >= MinLevel
    /\ MaxLevel \in Nat
    /\ MaxItems \in Nat /\ MaxJunk \in Nat
    /\ WORD \in Nat \ {0}
    /\ JunkTokens \subseteq 1..255

VARIABLES
    buckets,            \* buckets[0] the top level, buckets[1] the bottom level
    level_item_num,
    addr_capacity,
    level_size,
    level_expand_time,
    resize_state,
    newBuckets,         \* the new top level while level_expand runs, else Nil
    new_level_item_num,
    interimBuckets,     \* the old top level while level_shrink runs, else Nil
    item,               \* the arguments of the level_insert in progress
    pc,
    result              \* what the last completed call returned

table == <<buckets, level_item_num, addr_capacity, level_size,
           level_expand_time, resize_state>>
rehash == <<newBuckets, new_level_item_num, interimBuckets>>
vars == <<table, rehash, item, pc, result>>

Slots == 0 .. ASSOC_NUM - 1
Levels == {0, 1}
Nil == <<>>

Entry(k, v) == [token |-> 1, key |-> k, value |-> v]
\* A slot with token 0; its key and value bytes are never read.
Empty == [token |-> 0, key |-> CHOOSE k \in JunkKeys : TRUE, value |-> NULL]
Junk == [token : JunkTokens, key : JunkKeys, value : {NULL}]
AnyEntry == [token : 0..255, key : AnyKey, value : Value \cup {NULL}]
Bucket == [Slots -> AnyEntry]

\* What alignedmalloc returns for n buckets: nothing clears it, so a slot may
\* hold junk.
Fresh(n) ==
    {B \in [0 .. n - 1 -> [Slots -> {Empty} \cup Junk]] :
        Cardinality({p \in (0 .. n - 1) \X Slots : B[p[1]][p[2]] # Empty}) <= MaxJunk}

------------------------------------------------------------------------------
(* Hash locations *)

F_IDX(h, capacity) == h % (capacity \div 2)

\* Mutant: the second half of the array is never used.
S_IDX_NoOffset(h, capacity) == h % (capacity \div 2)

S_IDX(h, capacity) == (h % (capacity \div 2)) + (capacity \div 2)

\* The capacity the code hashes into for level l.
Capacity(l) == addr_capacity \div (1 + l)

\* The first (s = 0) or second (s = 1) location of a key in an array of buckets.
Loc(k, s, capacity) ==
    IF s = 0 THEN F_IDX(F_HASH[k], capacity) ELSE S_IDX(S_HASH[k], capacity)

Locs(k, capacity) == {Loc(k, s, capacity) : s \in {0, 1}}

FreeSlots(B, f, s) == {p \in {f, s} \X Slots : B[p[1]][p[2]].token = 0}

\* p is the slot that the loop over j, trying f before s, takes.
FirstFree(p, B, f, s) ==
    /\ p \in FreeSlots(B, f, s)
    /\ \A q \in FreeSlots(B, f, s) :
          p[2] < q[2] \/ (p[2] = q[2] /\ (p[1] = f \/ q[1] = s))

HasFree(B, f, s) == FreeSlots(B, f, s) # {}

\* m = <<l, s, i>> is slot i of the bucket at the s-th location in level l; the
\* nested loops over levels, locations and slots meet it at this position.
Rank(m) == (2 * m[1] + m[2]) * ASSOC_NUM + m[3]

First(m, M) == m \in M /\ \A n \in M : Rank(m) <= Rank(n)

\* The filled slots of an array, in the order a rehashing loop visits them.
Filled(B) == {p \in (DOMAIN B) \X Slots : B[p[1]][p[2]].token = 1}

NextFilled(p, B) ==
    /\ p \in Filled(B)
    /\ \A q \in Filled(B) : p[1] * ASSOC_NUM + p[2] <= q[1] * ASSOC_NUM + q[2]

------------------------------------------------------------------------------
Init ==
    /\ \E top \in Fresh(2^LEVEL_START), bottom \in Fresh(2^(LEVEL_START - 1)) :
          buckets = [l \in Levels |-> IF l = 0 THEN top ELSE bottom]
    /\ level_item_num = [l \in Levels |-> 0]
    /\ addr_capacity = 2^LEVEL_START
    /\ level_size = LEVEL_START
    /\ level_expand_time = 0
    /\ resize_state = 0
    /\ newBuckets = Nil
    /\ new_level_item_num = 0
    /\ interimBuckets = Nil
    /\ item = Nil
    /\ pc = "idle"
    /\ result = [fn |-> "none"]

Return(r) == pc' = "idle" /\ result' = r

Exit == pc' = "exited"

------------------------------------------------------------------------------
(* Queries, delete and update: the first slot holding the key decides. *)

\* Mutant: the second location is not searched.
Matches_FirstOnly(k) ==
    {m \in Levels \X {0} \X Slots :
        LET e == buckets[m[1]][Loc(k, m[2], Capacity(m[1]))][m[3]]
        IN  e.token = 1 /\ e.key = k}

\* Mutant: the key is not compared.
Matches_AnyKey(k) ==
    {m \in Levels \X {0, 1} \X Slots :
        buckets[m[1]][Loc(k, m[2], Capacity(m[1]))][m[3]].token = 1}

\* Where a search for k looks, level by level.
Matches(k) ==
    {m \in Levels \X {0, 1} \X Slots :
        LET e == buckets[m[1]][Loc(k, m[2], Capacity(m[1]))][m[3]]
        IN  e.token = 1 /\ e.key = k}

At(k, m) == buckets[m[1]][Loc(k, m[2], Capacity(m[1]))][m[3]]

\* level_dynamic_query visits the bottom level first unless the top has more items.
DynamicRank(m) ==
    IF level_item_num[0] > level_item_num[1]
    THEN Rank(m)
    ELSE Rank(<<1 - m[1], m[2], m[3]>>)

level_static_query(k) ==
    /\ pc = "idle"
    /\ \/ /\ Matches(k) = {}
          /\ Return([fn |-> "query", key |-> k, out |-> NULL])
       \/ \E m \in Matches(k) :
             /\ First(m, Matches(k))
             /\ Return([fn |-> "query", key |-> k, out |-> At(k, m).value])
    /\ UNCHANGED <<table, rehash, item>>

level_dynamic_query(k) ==
    /\ pc = "idle"
    /\ \/ /\ Matches(k) = {}
          /\ Return([fn |-> "query", key |-> k, out |-> NULL])
       \/ \E m \in Matches(k) :
             /\ \A n \in Matches(k) : DynamicRank(m) <= DynamicRank(n)
             /\ Return([fn |-> "query", key |-> k, out |-> At(k, m).value])
    /\ UNCHANGED <<table, rehash, item>>

level_delete(k) ==
    /\ pc = "idle"
    /\ \/ /\ Matches(k) = {}
          /\ Return([fn |-> "delete", key |-> k, out |-> 1])
          /\ UNCHANGED <<buckets, level_item_num>>
       \/ \E m \in Matches(k) :
             /\ First(m, Matches(k))
             /\ buckets' = [buckets EXCEPT
                   ![m[1]][Loc(k, m[2], Capacity(m[1]))][m[3]] = Empty]
             /\ level_item_num' = [level_item_num EXCEPT ![m[1]] = (@ - 1) % WORD]
             /\ Return([fn |-> "delete", key |-> k, out |-> 0])
    /\ UNCHANGED <<addr_capacity, level_size, level_expand_time, resize_state,
                   rehash, item>>

level_update(k, v) ==
    /\ pc = "idle"
    /\ \/ /\ Matches(k) = {}
          /\ Return([fn |-> "update", key |-> k, out |-> 1])
          /\ UNCHANGED buckets
       \/ \E m \in Matches(k) :
             /\ First(m, Matches(k))
             /\ buckets' = [buckets EXCEPT
                   ![m[1]][Loc(k, m[2], Capacity(m[1]))][m[3]] = Entry(k, v)]
             /\ Return([fn |-> "update", key |-> k, out |-> 0])
    /\ UNCHANGED <<level_item_num, addr_capacity, level_size, level_expand_time,
                   resize_state, rehash, item>>

------------------------------------------------------------------------------
(* level_insert *)

StoredItems(K) ==
    Cardinality({m \in Levels \X (DOMAIN buckets[0]) \X Slots :
                    /\ <<m[2], m[3]>> \in Filled(buckets[m[1]])
                    /\ buckets[m[1]][m[2]][m[3]].key \in K})

InsertCall(k, v) ==
    /\ pc = "idle"
    /\ StoredItems(AnyKey) < MaxItems
    /\ item' = [key |-> k, value |-> v]
    /\ pc' = "insert"
    /\ UNCHANGED <<table, rehash, result>>

NewEntry == Entry(item.key, item.value)

ItemHasFree(l) ==
    HasFree(buckets[l], Loc(item.key, 0, Capacity(l)), Loc(item.key, 1, Capacity(l)))

Full == \A l \in Levels : ~ItemHasFree(l)

\* level_insert returns 0: to the caller, or to the loop of level_shrink, which
\* then clears the token of the slot it copied.
Inserted ==
    /\ item' = Nil
    /\ \/ /\ interimBuckets = Nil
          /\ Return([fn |-> "insert", key |-> item.key, out |-> 0])
          /\ UNCHANGED interimBuckets
       \/ /\ interimBuckets # Nil
          /\ \E p \in Filled(interimBuckets) :
                /\ NextFilled(p, interimBuckets)
                /\ interimBuckets' = [interimBuckets EXCEPT ![p[1]][p[2]] = Empty]
          /\ pc' = "shrink"
          /\ UNCHANGED result
    /\ UNCHANGED <<addr_capacity, level_size, level_expand_time, resize_state,
                   newBuckets, new_level_item_num>>

\* Mutant: an item put in the bottom level is counted in the top level.
InsertFree_CountsTop(l) ==
    /\ pc = "insert"
    /\ l = 1 => ~ItemHasFree(0)
    /\ \E p \in (DOMAIN buckets[l]) \X Slots :
          /\ FirstFree(p, buckets[l], Loc(item.key, 0, Capacity(l)),
                                      Loc(item.key, 1, Capacity(l)))
          /\ buckets' = [buckets EXCEPT ![l][p[1]][p[2]] = NewEntry]
    /\ level_item_num' = [level_item_num EXCEPT ![0] = (@ + 1) % WORD]
    /\ Inserted

\* The first two loops: a free slot in the top level, else in the bottom level.
InsertFree(l) ==
    /\ pc = "insert"
    /\ l = 1 => ~ItemHasFree(0)
    /\ \E p \in (DOMAIN buckets[l]) \X Slots :
          /\ FirstFree(p, buckets[l], Loc(item.key, 0, Capacity(l)),
                                      Loc(item.key, 1, Capacity(l)))
          /\ buckets' = [buckets EXCEPT ![l][p[1]][p[2]] = NewEntry]
    /\ level_item_num' = [level_item_num EXCEPT ![l] = (@ + 1) % WORD]
    /\ Inserted

\* Mutant: the next bucket, as in linear probing.
jdx_Next(e, idx, l) == (idx + 1) % Capacity(l)

\* The bucket where try_movement would put the entry of bucket idx of level l.
jdx(e, idx, l) ==
    IF Loc(e.key, 0, Capacity(l)) = idx
    THEN Loc(e.key, 1, Capacity(l)) ELSE Loc(e.key, 0, Capacity(l))

\* The slots of the item's four buckets whose entry can move within its level.
Movable ==
    {m \in Levels \X {0, 1} \X Slots :
        LET idx == Loc(item.key, m[2], Capacity(m[1]))
            j   == jdx(buckets[m[1]][idx][m[3]], idx, m[1])
        IN  HasFree(buckets[m[1]], j, j)}

try_movement ==
    /\ pc = "insert"
    /\ Full
    /\ \E m \in Movable :
          /\ First(m, Movable)
          /\ LET l   == m[1]
                 idx == Loc(item.key, m[2], Capacity(l))
                 e   == buckets[l][idx][m[3]]
                 j   == jdx(e, idx, l)
             IN  /\ \E p \in (DOMAIN buckets[l]) \X Slots :
                       /\ FirstFree(p, buckets[l], j, j)
                       /\ buckets' = [buckets EXCEPT
                             ![l][p[1]][p[2]] = Entry(e.key, e.value),
                             ![l][idx][m[3]] = NewEntry]
                 /\ level_item_num' = [level_item_num EXCEPT ![l] = (@ + 1) % WORD]
    /\ Inserted

\* The slots of the item's bottom buckets whose entry can move to the top level.
Liftable ==
    {m \in {1} \X {0, 1} \X Slots :
        LET e == buckets[1][Loc(item.key, m[2], Capacity(1))][m[3]]
        IN  HasFree(buckets[0], Loc(e.key, 0, Capacity(0)), Loc(e.key, 1, Capacity(0)))}

b2t_movement ==
    /\ pc = "insert"
    /\ Full
    /\ Movable = {}
    /\ level_expand_time > 0
    /\ \E m \in Liftable :
          /\ First(m, Liftable)
          /\ LET idx == Loc(item.key, m[2], Capacity(1))
                 e   == buckets[1][idx][m[3]]
             IN  \E p \in (DOMAIN buckets[0]) \X Slots :
                    /\ FirstFree(p, buckets[0], Loc(e.key, 0, Capacity(0)),
                                                Loc(e.key, 1, Capacity(0)))
                    /\ buckets' = [buckets EXCEPT
                          ![0][p[1]][p[2]] = Entry(e.key, e.value),
                          ![1][idx][m[3]] = NewEntry]
    /\ level_item_num' = [level_item_num EXCEPT ![0] = (@ + 1) % WORD]
    /\ Inserted

------------------------------------------------------------------------------
(* level_expand, called by level_insert when nothing above made room *)

\* Mutant: addr_capacity is not doubled.
ExpandBegin_OldCapacity ==
    /\ pc = "insert"
    /\ Full
    /\ Movable = {}
    /\ level_expand_time > 0 => Liftable = {}
    /\ level_size < MaxLevel
    /\ resize_state' = 1
    /\ newBuckets' \in Fresh(2^(level_size + 1))
    /\ new_level_item_num' = 0
    /\ pc' = "expand"
    /\ UNCHANGED <<buckets, level_item_num, addr_capacity, level_size,
                   level_expand_time, interimBuckets, item, result>>

ExpandBegin ==
    /\ pc = "insert"
    /\ Full
    /\ Movable = {}
    /\ level_expand_time > 0 => Liftable = {}
    /\ level_size < MaxLevel
    /\ resize_state' = 1
    /\ addr_capacity' = 2^(level_size + 1)
    /\ newBuckets' \in Fresh(addr_capacity')
    /\ new_level_item_num' = 0
    /\ pc' = "expand"
    /\ UNCHANGED <<buckets, level_item_num, level_size, level_expand_time,
                   interimBuckets, item, result>>

\* One rehashed item; the loop over old_idx and i visits the filled slots in order.
ExpandItem ==
    /\ pc = "expand"
    /\ \E p \in Filled(buckets[1]) :
          /\ NextFilled(p, buckets[1])
          /\ LET e == buckets[1][p[1]][p[2]]
                 f == Loc(e.key, 0, addr_capacity)
                 s == Loc(e.key, 1, addr_capacity)
             IN  \/ \E q \in (DOMAIN newBuckets) \X Slots :
                       /\ FirstFree(q, newBuckets, f, s)
                       /\ newBuckets' = [newBuckets EXCEPT
                             ![q[1]][q[2]] = Entry(e.key, e.value)]
                       /\ new_level_item_num' = (new_level_item_num + 1) % WORD
                       /\ buckets' = [buckets EXCEPT ![1][p[1]][p[2]] = Empty]
                       /\ UNCHANGED pc
                 \/ /\ ~HasFree(newBuckets, f, s)
                    /\ Exit
                    /\ UNCHANGED <<newBuckets, new_level_item_num, buckets>>
    /\ UNCHANGED <<level_item_num, addr_capacity, level_size, level_expand_time,
                   resize_state, interimBuckets, item, result>>

\* The old top level becomes the bottom level, and level_insert starts again.
ExpandEnd ==
    /\ pc = "expand"
    /\ Filled(buckets[1]) = {}
    /\ level_size' = level_size + 1
    /\ buckets' = [l \in Levels |-> IF l = 0 THEN newBuckets ELSE buckets[0]]
    /\ level_item_num' =
          [l \in Levels |-> IF l = 0 THEN new_level_item_num ELSE level_item_num[0]]
    /\ level_expand_time' = (level_expand_time + 1) % 256
    /\ resize_state' = 0
    /\ newBuckets' = Nil
    /\ new_level_item_num' = 0
    /\ pc' = "insert"
    /\ UNCHANGED <<addr_capacity, interimBuckets, item, result>>

------------------------------------------------------------------------------
(* level_shrink *)

total_capacity == 2^level_size + 2^(level_size - 1)

\* The old top level is set aside and a new bottom level allocated.
ShrinkBegin ==
    /\ pc = "idle"
    /\ level_size > MinLevel
    /\ \/ /\ 10 * (level_item_num[0] + level_item_num[1]) > 4 * total_capacity * ASSOC_NUM
          /\ Exit
          /\ UNCHANGED <<table, interimBuckets>>
       \/ /\ 10 * (level_item_num[0] + level_item_num[1]) <= 4 * total_capacity * ASSOC_NUM
          /\ resize_state' = 2
          /\ level_size' = level_size - 1
          /\ interimBuckets' = buckets[0]
          /\ \E bottom \in Fresh(2^(level_size - 2)) :
                buckets' = [l \in Levels |-> IF l = 0 THEN buckets[1] ELSE bottom]
          /\ level_item_num' = [l \in Levels |-> IF l = 0 THEN level_item_num[1] ELSE 0]
          /\ addr_capacity' = 2^(level_size - 1)
          /\ pc' = "shrink"
          /\ UNCHANGED level_expand_time
    /\ UNCHANGED <<newBuckets, new_level_item_num, item, result>>

\* The next item set aside is given to level_insert.
ShrinkItem ==
    /\ pc = "shrink"
    /\ \E p \in Filled(interimBuckets) :
          /\ NextFilled(p, interimBuckets)
          /\ item' = [key   |-> interimBuckets[p[1]][p[2]].key,
                      value |-> interimBuckets[p[1]][p[2]].value]
    /\ pc' = "insert"
    /\ UNCHANGED <<table, rehash, result>>

\* The loop runs to pow(2, level_size + 1), read on each iteration: a level_insert
\* that expanded the table has moved it past the end of interimBuckets.
ShrinkEnd ==
    /\ pc = "shrink"
    /\ Filled(interimBuckets) = {}
    /\ \/ /\ 2^(level_size + 1) - 1 \in DOMAIN interimBuckets
          /\ interimBuckets' = Nil
          /\ level_expand_time' = 0
          /\ resize_state' = 0
          /\ Return([fn |-> "shrink"])
       \/ /\ 2^(level_size + 1) - 1 \notin DOMAIN interimBuckets
          /\ pc' = "overrun"
          /\ UNCHANGED <<interimBuckets, level_expand_time, resize_state, result>>
    /\ UNCHANGED <<buckets, level_item_num, addr_capacity, level_size,
                   newBuckets, new_level_item_num, item>>

------------------------------------------------------------------------------
Expand == ExpandBegin \/ ExpandItem \/ ExpandEnd

Run == \* the steps of a call already made
    \/ \E l \in Levels : InsertFree(l)
    \/ try_movement
    \/ b2t_movement
    \/ Expand
    \/ ShrinkItem
    \/ ShrinkEnd

Next ==
    \/ \E k \in Key : \/ level_static_query(k)
                      \/ level_dynamic_query(k)
                      \/ level_delete(k)
    \/ \E k \in Key, v \in Value : level_update(k, v) \/ InsertCall(k, v)
    \/ ShrinkBegin
    \/ Run

Spec == Init /\ [][Next]_vars

\* The thread that made a call keeps running it.
FairSpec == Spec /\ WF_vars(Run)

------------------------------------------------------------------------------
(* Properties *)

TableType ==
    /\ level_size \in Nat /\ level_size >= MinLevel
    /\ buckets = [l \in Levels |-> buckets[l]]
    /\ buckets[0] \in [0 .. 2^level_size - 1 -> Bucket]
    /\ buckets[1] \in [0 .. 2^(level_size - 1) - 1 -> Bucket]

RehashType ==
    /\ resize_state \in 0..2
    /\ addr_capacity = IF resize_state = 1 THEN 2^(level_size + 1) ELSE 2^level_size
    /\ IF resize_state = 1 THEN newBuckets \in [0 .. 2^(level_size + 1) - 1 -> Bucket]
                           ELSE newBuckets = Nil
    /\ interimBuckets \in [DOMAIN interimBuckets -> Bucket]

CounterType ==
    /\ level_item_num \in [Levels -> 0 .. WORD - 1]
    /\ new_level_item_num \in 0 .. WORD - 1
    /\ level_expand_time \in 0..255

ControlType ==
    /\ pc \in {"idle", "insert", "expand", "shrink", "exited", "overrun"}
    /\ pc = "expand" => resize_state = 1
    /\ pc \in {"idle", "insert", "shrink"} => resize_state # 1
    /\ pc \in {"insert", "expand"} => item \in [key : AnyKey, value : Value \cup {NULL}]

\* Every variable keeps the shape the C declarations give it, the two levels have
\* the sizes that level_size stands for ("level_size = log2(addr_capacity)"), and
\* addr_capacity runs ahead of them only inside level_expand.
TypeOK == TableType /\ RehashType /\ CounterType /\ ControlType

PlacedIn(B, capacity) ==
    \A p \in Filled(B) :
        LET k == B[p[1]][p[2]].key
        IN  k \in Key => p[1] \in Locs(k, capacity)

\* An item is always in one of the two buckets its key hashes to in its level,
\* also while a resize has moved only part of the items: this is what makes a
\* search of four buckets complete (level_static_query and the like).
Placed ==
    /\ PlacedIn(buckets[0], 2^level_size)
    /\ PlacedIn(buckets[1], 2^level_size \div 2)
    /\ PlacedIn(newBuckets, 2^(level_size + 1))

\* Between calls a search of a stored key, which looks in four buckets only, meets
\* an item of that key (level_static_query, level_delete, level_update).
Findable ==
    pc = "idle" =>
        \A k \in Key, l \in Levels :
            (\E p \in Filled(buckets[l]) : buckets[l][p[1]][p[2]].key = k)
            => Matches(k) # {}

\* Between calls, level_item_num[l] is "the numbers of items stored in the top
\* and bottom levels respectively" (level_hashing.h).
ItemCounts ==
    pc = "idle" =>
        \A l \in Levels : level_item_num[l] = Cardinality(Filled(buckets[l]))

\* The item of the level_insert in progress finds its four buckets filled with
\* copies of its own key.  No movement and no level_expand makes room for it.
OwnKeyEverywhere ==
    /\ pc = "insert"
    /\ \A l \in Levels, s \in {0, 1}, i \in Slots :
          LET e == buckets[l][Loc(item.key, s, Capacity(l))][i]
          IN  e.token = 1 /\ e.key = item.key

\* Every call returns, or ends the process: movements and expansions make room for
\* the item of level_insert, and its recursion ends, unless the four buckets it
\* looks at come to hold nothing but copies of its own key.  That insert expands
\* the table for ever: no line of level_insert stops it.
CallsReturn == (pc # "idle") ~> (pc \in {"idle", "exited"} \/ OwnKeyEverywhere)

\* The bag of items held by the table and by the arrays a resize is copying from
\* and to; no item is lost or doubled by a movement or a resize.
Copies(B, q) ==
    {p \in Filled(B) : B[p[1]][p[2]].key = q[1] /\ B[p[1]][p[2]].value = q[2]}

Items ==
    [q \in Key \X Value |->
        Cardinality(Copies(buckets[0], q)) + Cardinality(Copies(buckets[1], q))
        + Cardinality(Copies(newBuckets, q)) + Cardinality(Copies(interimBuckets, q))]

Store == INSTANCE KVStore WITH items <- Items

\* The table implements a bag of items: each call does to the bag, and returns,
\* what KVStore says, and movements and resizes are invisible.
ImplementsStore == Store!Spec
==============================================================================
