--------------------------- MODULE LevelHashProofs ---------------------------
(***************************************************************************)
(* For every set of keys and values, every pair of hash functions, every   *)
(* ASSOC_NUM and any number of slots of uninitialised memory that read as  *)
(* full, provided none of them reads as a key of the caller: the table     *)
(* keeps its shape, every item stays where its key hashes to, and the      *)
(* table is a bag of items for its callers; where memory comes cleared,    *)
(* the counters count them.  The steps are in LevelHashTables and          *)
(* LevelHashItems, those of the counters here, with the laws they all rest *)
(* on and the theorems.                                                    *)
(***************************************************************************)
EXTENDS LevelHashItems

------------------------------------------------------------------------------
(* The item counters *)

\* While level_expand empties the bottom level, level_item_num[1] is stale; it is
\* dropped with that level.
CountInv ==
    /\ MayBe(level_size)
    /\ pc = "expand" => level_size < MaxLevel
    /\ Binary(buckets[0]) /\ Binary(buckets[1]) /\ Binary(newBuckets)
    /\ pc \in {"idle", "insert", "shrink"} =>
          /\ level_item_num[0] = Count(buckets[0])
          /\ level_item_num[1] = Count(buckets[1])
    /\ pc = "expand" => /\ level_item_num[0] = Count(buckets[0])
                        /\ new_level_item_num = Count(newBuckets)

\* What the counting starts from.
LEMMA CountFacts ==
    ASSUME Inv, CountInv
    PROVE  /\ MayBe(level_size) /\ Binary(buckets[0]) /\ Binary(buckets[1])
           /\ level_item_num \in [Levels -> Int]
<1>1. level_item_num \in [Levels -> Int]
  BY SizeAssumption DEF Inv, TypeOK, CounterType
<1> QED BY <1>1, Zenon DEF CountInv

\* A call that changes the filled slots of level l by d and its counter as much.
LEMMA Recount ==
    ASSUME Inv, CountInv, pc \in {"idle", "insert"}, pc' \in {"idle", "shrink"},
           UNCHANGED <<level_size, newBuckets>>, NEW l \in Levels, NEW d \in Int,
           Counts(buckets, l, d, buckets'),
           level_item_num' = [level_item_num EXCEPT ![l] = (level_item_num[l] + d) % WORD]
    PROVE  CountInv'
<1>1. \A m \in Levels : level_item_num[m] = Count(buckets[m])
  BY DEF CountInv, Levels
<1>2. DOMAIN level_item_num = Levels
  BY CountFacts, Zenon
<1>3. level_item_num'[l] = (level_item_num[l] + d) % WORD
  BY <1>2, Zenon
<1>4. \A m \in Levels : m # l => level_item_num'[m] = level_item_num[m]
  BY <1>2, Zenon
<1>5. level_item_num'[l] = Count(buckets'[l])
  <2>1. Count(buckets'[l]) % WORD = Count(buckets'[l])
    BY ModSame, Zenon DEF Counts
  <2>2. level_item_num[l] + d = Count(buckets'[l])
    BY <1>1, Zenon DEF Counts
  <2> QED BY <1>3, <2>1, <2>2, Zenon
<1>6. \A m \in Levels : level_item_num'[m] = Count(buckets'[m])
  BY <1>1, <1>4, <1>5, Zenon DEF Counts
<1>7. level_item_num'[0] = Count(buckets'[0]) /\ level_item_num'[1] = Count(buckets'[1])
  BY <1>6, Zenon DEF Levels
<1>8. Binary(buckets'[0]) /\ Binary(buckets'[1])
  BY Zenon DEF Counts
<1>9. MayBe(level_size') /\ Binary(newBuckets')
  BY Zenon DEF CountInv
<1>10. pc' # "expand"
  OBVIOUS
<1> QED BY <1>7, <1>8, <1>9, <1>10, Zenon DEF CountInv

\* level_insert returns having counted the item it put into level l.
LEMMA InsertedCount ==
    ASSUME Inv, CountInv, pc = "insert", Inserted, NEW l \in Levels,
           Counts(buckets, l, 1, buckets'),
           level_item_num' = [level_item_num EXCEPT ![l] = (@ + 1) % WORD]
    PROVE  CountInv'
<1>1. UNCHANGED <<level_size, newBuckets>> /\ pc' \in {"idle", "shrink"}
  BY DEF Inserted, Return
<1>2. level_item_num' = [level_item_num EXCEPT ![l] = (level_item_num[l] + 1) % WORD]
  BY Zenon
<1>3. 1 \in Int /\ pc \in {"idle", "insert"}
  OBVIOUS
<1> QED BY <1>1, <1>2, <1>3, Recount, Zenon

\* The token of the entry of an item, and of a cleared slot.
LEMMA NewToken == NewEntry.token = 1 /\ Empty.token = 0
BY DEF NewEntry, Entry, Empty

\* An item put into a free slot is counted.
LEMMA InsertFreeCount ==
    ASSUME Laws, Clean, Inv, CountInv, NEW l \in Levels, InsertFree(l)
    PROVE  CountInv'
<1>1. /\ pc = "insert" /\ Inserted
      /\ level_item_num' = [level_item_num EXCEPT ![l] = (@ + 1) % WORD]
  BY InsertFreeFacts, Zenon
<1>2. PICK x, i : /\ Put(buckets, level_size, l, x, i, NewEntry, buckets')
                  /\ buckets[l][x][i].token = 0
  BY InsertFreeFacts, Zenon
<1>3. MayBe(level_size) /\ Binary(buckets[0]) /\ Binary(buckets[1])
  BY CountFacts, Zenon
<1>4. /\ NewEntry.token \in {0, 1} /\ 1 \in Int
      /\ One(NewEntry.token = 1) - One(buckets[l][x][i].token = 1) = 1
  BY <1>2, NewToken DEF One
<1>5. Counts(buckets, l, 1, buckets')
  BY <1>2, <1>3, <1>4, CountPut
<1> QED BY <1>1, <1>5, InsertedCount, Zenon

\* Moving an entry counts the item in the level that entry moved to.
LEMMA MovementCount ==
    ASSUME Laws, Clean, Inv, CountInv, try_movement \/ b2t_movement
    PROVE  CountInv'
<1>1. pc = "insert" /\ Inserted
  BY MovementFacts, B2TFacts, Zenon
<1>2. PICK l \in Levels :
         /\ Moved(buckets, level_size, l, NewEntry, buckets')
         /\ level_item_num' = [level_item_num EXCEPT ![l] = (@ + 1) % WORD]
  BY MovementFacts, B2TFacts, Zenon DEF Levels
<1>3. /\ MayBe(level_size) /\ Binary(buckets[0]) /\ Binary(buckets[1])
      /\ NewEntry.token = 1
  BY CountFacts, NewToken, Zenon
<1>4. Counts(buckets, l, 1, buckets')
  BY <1>2, <1>3, CountMove, Zenon
<1> QED BY <1>1, <1>2, <1>4, InsertedCount, Zenon

\* level_expand starts counting the new level at 0, and it is empty.
LEMMA ExpandBeginCount ==
    ASSUME Laws, Clean, Inv, CountInv, ExpandBegin
    PROVE  CountInv'
<1>1. /\ pc = "insert" /\ pc' = "expand" /\ level_size < MaxLevel
      /\ new_level_item_num' = 0 /\ newBuckets' \in Fresh(2^(level_size + 1))
      /\ UNCHANGED <<buckets, level_item_num, level_size>>
  BY DEF ExpandBegin
<1>2. 2^(level_size + 1) \in Nat
  BY TableFacts, PowPositive
<1>3. Binary(newBuckets') /\ Count(newBuckets') = 0
  BY <1>1, <1>2, FreshCount, Zenon
<1> QED BY <1>1, <1>3 DEF CountInv, MayBe

\* level_expand counts in the new level what it moves there.
LEMMA ExpandItemCount ==
    ASSUME Laws, Clean, Inv, CountInv, ExpandItem
    PROVE  CountInv'
<1>1. pc = "expand" /\ UNCHANGED <<level_item_num, level_size>>
  BY ZenonT(30) DEF ExpandItem
<1>2. PICK p \in Filled(buckets[1]) :
         LET e == buckets[1][p[1]][p[2]]
             f == Loc(e.key, 0, addr_capacity)
             s == Loc(e.key, 1, addr_capacity)
         IN  \/ \E q \in (DOMAIN newBuckets) \X Slots :
                   /\ FirstFree(q, newBuckets, f, s)
                   /\ newBuckets' = [newBuckets EXCEPT
                         ![q[1]][q[2]] = Entry(e.key, e.value)]
                   /\ new_level_item_num' = (new_level_item_num + 1) % WORD
                   /\ buckets' = [buckets EXCEPT ![1][p[1]][p[2]] = Empty]
                   /\ UNCHANGED pc
             \/ Exit /\ UNCHANGED <<newBuckets, buckets>>
  BY Zenon DEF ExpandItem
<1> DEFINE e == buckets[1][p[1]][p[2]]
<1>3. CASE \E q \in (DOMAIN newBuckets) \X Slots :
             /\ FirstFree(q, newBuckets, Loc(e.key, 0, addr_capacity),
                                         Loc(e.key, 1, addr_capacity))
             /\ newBuckets' = [newBuckets EXCEPT ![q[1]][q[2]] = Entry(e.key, e.value)]
             /\ new_level_item_num' = (new_level_item_num + 1) % WORD
             /\ buckets' = [buckets EXCEPT ![1][p[1]][p[2]] = Empty]
             /\ UNCHANGED pc
  <2>1. PICK r \in (DOMAIN newBuckets) \X Slots :
             /\ FirstFree(r, newBuckets, Loc(e.key, 0, addr_capacity),
                                         Loc(e.key, 1, addr_capacity))
             /\ newBuckets' = [newBuckets EXCEPT ![r[1]][r[2]] = Entry(e.key, e.value)]
    BY <1>3, Zenon
  <2>2. /\ buckets' = [buckets EXCEPT ![1][p[1]][p[2]] = Empty] /\ UNCHANGED pc
        /\ new_level_item_num' = (new_level_item_num + 1) % WORD
    BY <1>3, Zenon
  <2>3. newBuckets[r[1]][r[2]].token = 0 /\ r[1] \in DOMAIN newBuckets /\ r[2] \in Slots
    BY <2>1, FreeFacts, Zenon
  <2>4. 1 \in Levels /\ p[1] \in DOMAIN buckets[1] /\ p[2] \in Slots /\ e \in AnyEntry
    BY TableSlot DEF Filled, Levels
  <2> HIDE DEF e
  <2> DEFINE d == Entry(e.key, e.value)
  <2>5. d \in AnyEntry /\ d.token = 1 /\ Empty \in AnyEntry /\ Empty.token \in {0, 1}
    BY <2>4, MovedType, EntryType, Zenon DEF Entry, Empty
  <2>6. newBuckets' = [newBuckets EXCEPT ![r[1]][r[2]] = d]
    BY <2>1
  <2> HIDE DEF d
  <2>7. /\ MayBe(level_size) /\ Binary(buckets[0]) /\ Binary(buckets[1])
        /\ Put(buckets, level_size, 1, p[1], p[2], Empty, buckets')
    BY <2>2, <2>4, <2>5, CountFacts, TableFacts, ZenonT(30) DEF Put
  <2>8. Wrote(buckets, level_size, 1, p[1], p[2], Empty, buckets')
    BY <2>7, TableWrite, ZenonT(30)
  <2>9. buckets'[0] = buckets[0] /\ Binary(buckets'[1])
    <3>1. buckets'[0] = buckets[0] /\ Written(buckets[1], p[1], p[2], Empty, buckets'[1])
      BY <2>8, SMT DEF Wrote, Levels
    <3> QED BY <2>5, <2>7, <3>1 DEF Written, Binary
  <2>10. /\ newBuckets \in [0 .. 2^(level_size + 1) - 1 -> Bucket]
         /\ Array(newBuckets) /\ Binary(newBuckets)
    BY <1>1, Arrays, Zenon DEF Inv, TypeOK, RehashType, ControlType, CountInv
  <2>11. Written(newBuckets, r[1], r[2], d, newBuckets')
    BY <2>3, <2>5, <2>6, <2>10, WriteSlot, ZenonT(30)
  <2>12. newBuckets' \in [0 .. 2^(level_size + 1) - 1 -> Bucket]
    BY <2>5, <2>6, <2>10, WriteType, ZenonT(30)
  <2>13. Binary(newBuckets')
    BY <2>5, <2>10, <2>11 DEF Binary, Written
  <2>14. Count(newBuckets') = Count(newBuckets) + 1
    <3>1. /\ Count(newBuckets) \in Nat
          /\ Count(newBuckets') = Count(newBuckets) + One(d.token = 1)
                                  - One(newBuckets[r[1]][r[2]].token = 1)
      BY <2>10, <2>11, FilledWrite, ZenonT(30) DEF Count
    <3> QED BY <2>3, <2>5, <3>1 DEF One
  <2>15. MayBe(level_size + 1)
    BY <1>1, SizeAssumption DEF CountInv, MayBe
  <2>16. Count(newBuckets') \in 0 .. WORD - 1
    BY <2>12, <2>15, CountFits, Zenon
  <2>17. new_level_item_num' = Count(newBuckets')
    <3>1. new_level_item_num = Count(newBuckets)
      BY <1>1 DEF CountInv
    <3>2. Count(newBuckets') % WORD = Count(newBuckets')
      BY <2>16, ModSame
    <3> QED BY <2>2, <2>14, <3>1, <3>2, ZenonT(30)
  <2>18. level_size < MaxLevel /\ level_item_num[0] = Count(buckets[0]) /\ pc' = "expand"
    BY <1>1, <2>2 DEF CountInv
  <2> QED BY <1>1, <2>7, <2>9, <2>13, <2>17, <2>18, ZenonT(30) DEF CountInv
<1>4. CASE Exit /\ UNCHANGED <<newBuckets, buckets>>
  <2>1. pc' = "exited"
    BY <1>4 DEF Exit
  <2> QED BY <1>1, <1>4, <2>1 DEF CountInv
<1> QED BY <1>2, <1>3, <1>4, ZenonT(30)

\* level_expand ends: the counters move down a level with the arrays.
LEMMA ExpandEndCount ==
    ASSUME Laws, Clean, Inv, CountInv, ExpandEnd
    PROVE  CountInv'
<1>1. /\ pc = "expand" /\ pc' = "insert" /\ level_size' = level_size + 1 /\ newBuckets' = Nil
      /\ level_item_num' =
            [l \in Levels |-> IF l = 0 THEN new_level_item_num ELSE level_item_num[0]]
  BY DEF ExpandEnd
<1>2. buckets'[0] = newBuckets /\ buckets'[1] = buckets[0]
  BY DEF ExpandEnd, Levels
<1>3. level_item_num'[0] = new_level_item_num /\ level_item_num'[1] = level_item_num[0]
  BY <1>1 DEF Levels
<1>4. MayBe(level_size')
  BY <1>1, SizeAssumption DEF CountInv, MayBe
<1> QED BY <1>1, <1>2, <1>3, <1>4, NilCount, ZenonT(30) DEF CountInv

\* level_shrink starts: the counters move up a level with the arrays.
LEMMA ShrinkBeginCount ==
    ASSUME Laws, Clean, Inv, CountInv, ShrinkBegin
    PROVE  CountInv'
<1>1. pc = "idle" /\ UNCHANGED newBuckets
  BY DEF ShrinkBegin
<1>2. CASE Exit /\ UNCHANGED table
  BY <1>1, <1>2 DEF Exit, table, CountInv
<1>3. CASE pc' = "shrink"
  <2>1. /\ level_size' = level_size - 1
        /\ level_item_num' = [l \in Levels |-> IF l = 0 THEN level_item_num[1] ELSE 0]
    BY <1>3 DEF ShrinkBegin, Exit
  <2>2. PICK bottom \in Fresh(2^(level_size - 2)) :
           buckets' = [l \in Levels |-> IF l = 0 THEN buckets[1] ELSE bottom]
    BY <1>3 DEF ShrinkBegin, Exit
  <2>3. buckets'[0] = buckets[1] /\ buckets'[1] = bottom
    BY <2>2 DEF Levels
  <2>4. level_item_num'[0] = level_item_num[1] /\ level_item_num'[1] = 0
    BY <2>1 DEF Levels
  <2>5. level_size \in Nat /\ level_size >= 2
    BY TableFacts
  <2>6. 2^(level_size - 2) \in Nat
    BY <2>5, PowPositive
  <2>7. Binary(bottom) /\ Count(bottom) = 0
    BY <2>6, FreshCount, Zenon
  <2>8. MayBe(level_size')
    BY <2>1, <2>5, SizeAssumption DEF CountInv, MayBe
  <2> QED BY <1>1, <1>3, <2>3, <2>4, <2>7, <2>8, ZenonT(30) DEF CountInv
<1> QED BY <1>2, <1>3, Zenon DEF ShrinkBegin

\* The steps that write no slot and count nothing.
LEMMA SameCount ==
    ASSUME CountInv, UNCHANGED <<buckets, level_item_num, level_size, newBuckets>>,
           pc' # "expand",
           pc' \in {"idle", "insert", "shrink"} => pc \in {"idle", "insert", "shrink"}
    PROVE  CountInv'
BY Zenon DEF CountInv, MayBe

\* The filled slot that a search met is overwritten: the count changes by d.
LEMMA OverwriteCount ==
    ASSUME Laws, Clean, Inv, BagInv, CountInv, pc = "idle", NEW k \in Key, NEW m \in Matches(k),
           NEW e \in AnyEntry, Overwritten(k, m, e), e.token \in {0, 1},
           NEW d \in Int, One(e.token = 1) - 1 = d
    PROVE  m[1] \in Levels /\ Counts(buckets, m[1], d, buckets')
<1> DEFINE l == m[1]
<1>1. PutOver(k, m, e)
  BY MatchPut, Zenon
<1>2. At(k, m).token = 1 /\ l \in Levels
  BY MatchFacts, Zenon
<1>3. PICK x, i : /\ Put(buckets, level_size, l, x, i, e, buckets')
                  /\ buckets[l][x][i] = At(k, m)
  BY <1>1, Zenon DEF PutOver
<1> HIDE DEF l
<1>4. MayBe(level_size) /\ Binary(buckets[0]) /\ Binary(buckets[1])
  BY CountFacts, Zenon
<1>5. One(buckets[l][x][i].token = 1) = 1
  BY <1>2, <1>3, Zenon DEF One
<1>6. One(e.token = 1) - One(buckets[l][x][i].token = 1) = d
  BY <1>5, ZenonT(30)
<1>7. Counts(buckets, l, d, buckets')
  BY <1>3, <1>4, <1>6, CountPut
<1> QED BY <1>2, <1>7, ZenonT(30) DEF l

\* level_delete takes the item it clears out of the count.
LEMMA DeleteCount ==
    ASSUME Laws, Clean, Inv, CountInv, BagInv, NEW k \in Key, level_delete(k)
    PROVE  CountInv'
<1>1. pc = "idle" /\ pc' = "idle" /\ UNCHANGED <<newBuckets, level_size>>
  BY DeleteFacts, Zenon
<1>2. pc \in {"idle", "insert"} /\ pc' \in {"idle", "shrink"} /\ pc' # "expand"
  BY <1>1
<1>3. CASE UNCHANGED <<buckets, level_item_num>>
  <2>1. pc \in {"idle", "insert", "shrink"}
    BY <1>1
  <2> QED BY <1>1, <1>2, <1>3, <2>1, SameCount, ZenonT(30)
<1>4. CASE \E m \in Matches(k) :
             /\ Overwritten(k, m, Empty)
             /\ level_item_num' = [level_item_num EXCEPT ![m[1]] = (@ - 1) % WORD]
  <2>1. PICK m \in Matches(k) :
             /\ Overwritten(k, m, Empty)
             /\ level_item_num' = [level_item_num EXCEPT ![m[1]] = (@ - 1) % WORD]
    BY <1>4, Zenon
  <2>2. Empty \in AnyEntry /\ Empty.token \in {0, 1} /\ -1 \in Int /\ One(Empty.token = 1) - 1 = -1
    BY EntryType, NewToken DEF One
  <2> DEFINE d == -1
             l == m[1]
  <2>3. l \in Levels /\ Counts(buckets, l, d, buckets')
    BY <1>1, <2>1, <2>2, OverwriteCount, ZenonT(30)
  <2>4. d \in Int /\ \A n \in Int : n - 1 = n + d
    OBVIOUS
  <2>5. level_item_num' = [level_item_num EXCEPT ![l] = (level_item_num[l] - 1) % WORD]
    BY <2>1, Zenon
  <2> HIDE DEF d, l
  <2>6. level_item_num[l] - 1 = level_item_num[l] + d
    BY <2>3, <2>4, CountFacts, Zenon
  <2>7. level_item_num' = [level_item_num EXCEPT ![l] = (level_item_num[l] + d) % WORD]
    BY <2>5, <2>6, Zenon
  <2> QED BY <1>1, <1>2, <2>3, <2>4, <2>7, Recount, ZenonT(30)
<1> QED BY <1>3, <1>4, DeleteFacts, Zenon

\* level_update counts nothing: the slot it writes was filled.
LEMMA UpdateCount ==
    ASSUME Laws, Clean, Inv, CountInv, BagInv, NEW k \in Key, NEW v \in Value, level_update(k, v)
    PROVE  CountInv'
<1>1. pc = "idle" /\ pc' = "idle" /\ UNCHANGED <<newBuckets, level_size, level_item_num>>
  BY UpdateFacts, Zenon
<1>2. CASE UNCHANGED buckets
  <2>1. pc \in {"idle", "insert", "shrink"} /\ pc' # "expand"
    BY <1>1
  <2> QED BY <1>1, <1>2, <2>1, SameCount, ZenonT(30)
<1>3. CASE \E m \in Matches(k) : Overwritten(k, m, Entry(k, v))
  <2>1. PICK m \in Matches(k) : Overwritten(k, m, Entry(k, v))
    BY <1>3, ZenonT(30)
  <2>2. /\ Entry(k, v) \in AnyEntry /\ Entry(k, v).token \in {0, 1}
        /\ 0 \in Int /\ One(Entry(k, v).token = 1) - 1 = 0
    BY EntryType DEF Entry, AnyKey, One
  <2> DEFINE l == m[1]
  <2>3. l \in Levels /\ Counts(buckets, l, 0, buckets')
    BY <1>1, <2>1, <2>2, OverwriteCount, ZenonT(30)
  <2> HIDE DEF l
  <2>4. Count(buckets'[l]) = Count(buckets[l])
    BY <2>3 DEF Counts
  <2>5. \A n \in Levels : Count(buckets'[n]) = Count(buckets[n])
    BY <2>3, <2>4, Zenon DEF Counts
  <2>6. /\ Binary(buckets'[0]) /\ Binary(buckets'[1])
        /\ Count(buckets'[0]) = Count(buckets[0]) /\ Count(buckets'[1]) = Count(buckets[1])
    BY <2>3, <2>5, Zenon DEF Levels, Counts
  <2> QED BY <1>1, <2>6, Zenon DEF CountInv, MayBe
<1> QED BY <1>2, <1>3, UpdateFacts, Zenon

\* The counters of an empty table.
LEMMA InitCount == ASSUME Laws, Clean PROVE Init => CountInv
<1> SUFFICES ASSUME Init PROVE CountInv
  OBVIOUS
<1>1. PICK top \in Fresh(2^LEVEL_START), bottom \in Fresh(2^(LEVEL_START - 1)) :
          buckets = [l \in Levels |-> IF l = 0 THEN top ELSE bottom]
  BY DEF Init
<1>2. 2^LEVEL_START \in Nat /\ 2^(LEVEL_START - 1) \in Nat
  BY PowDouble, SizeAssumption
<1>3. buckets[0] = top /\ buckets[1] = bottom
  BY <1>1, SMTT(30) DEF Levels
<1>4. Binary(top) /\ Binary(bottom) /\ Count(top) = 0 /\ Count(bottom) = 0
  BY <1>2, FreshCount
<1>5. /\ newBuckets = Nil /\ pc = "idle" /\ level_size = LEVEL_START
      /\ level_item_num[0] = 0 /\ level_item_num[1] = 0
  BY DEF Init, Levels
<1>6. MayBe(level_size)
  BY <1>5, SizeAssumption DEF MayBe
<1> QED BY <1>3, <1>4, <1>5, <1>6, NilCount, ZenonT(30) DEF CountInv

\* Every step keeps the counters.
LEMMA NextCount ==
    ASSUME Laws, Clean, Inv, BagInv, CountInv, [Next]_vars
    PROVE  CountInv'
<1>1. CASE UNCHANGED vars
  BY <1>1, Zenon DEF vars, table, rehash, CountInv, MayBe
<1>2. ASSUME NEW k \in Key, level_static_query(k) \/ level_dynamic_query(k) PROVE CountInv'
  <2>1. /\ UNCHANGED <<buckets, level_item_num, level_size, newBuckets>>
        /\ pc = "idle" /\ pc' = "idle"
    BY <1>2 DEF level_static_query, level_dynamic_query, Return, table, rehash
  <2> QED BY <2>1, SameCount
<1>3. ASSUME NEW k \in Key, level_delete(k) PROVE CountInv'
  BY <1>3, DeleteCount, Zenon
<1>4. ASSUME NEW k \in Key, NEW v \in Value, level_update(k, v) PROVE CountInv'
  BY <1>4, UpdateCount, Zenon
<1>5. ASSUME NEW k \in Key, NEW v \in Value, InsertCall(k, v) PROVE CountInv'
  <2>1. /\ UNCHANGED <<buckets, level_item_num, level_size, newBuckets>>
        /\ pc = "idle" /\ pc' = "insert"
    BY <1>5, Zenon DEF InsertCall, table, rehash
  <2> QED BY <2>1, SameCount
<1>6. CASE ShrinkBegin
  BY <1>6, ShrinkBeginCount, Zenon
<1>7. CASE \E l \in Levels : InsertFree(l)
  BY <1>7, InsertFreeCount, Zenon
<1>8. CASE try_movement \/ b2t_movement
  BY <1>8, MovementCount, Zenon
<1>9. CASE Expand
  BY <1>9, ExpandBeginCount, ExpandItemCount, ExpandEndCount, ZenonT(30) DEF Expand
<1>10. CASE ShrinkItem
  <2>1. /\ UNCHANGED <<buckets, level_item_num, level_size, newBuckets>>
        /\ pc = "shrink" /\ pc' = "insert"
    BY <1>10, Zenon DEF ShrinkItem, table, rehash
  <2> QED BY <2>1, SameCount
<1>11. CASE ShrinkEnd
  <2>1. /\ UNCHANGED <<buckets, level_item_num, level_size, newBuckets>>
        /\ pc = "shrink" /\ pc' \in {"idle", "overrun"}
    BY <1>11 DEF ShrinkEnd, Return
  <2> QED BY <2>1, SameCount
<1> QED BY <1>1, <1>2, <1>3, <1>4, <1>5, <1>6, <1>7, <1>8, <1>9, <1>10, <1>11, ZenonT(30)
       DEF Next, Run

------------------------------------------------------------------------------
(* Powers of two and cardinalities.  The theorems about finite sets are *)
(* taken as an instance, which keeps them out of the proofs above.      *)

F == INSTANCE FiniteSetTheorems

\* The instance defines cardinality as FiniteSets does ...
LEMMA SameCardinality == \A S : F!Cardinality(S) = Cardinality(S)
BY ZenonT(30) DEF F!Cardinality, Cardinality

\* ... and finite sets.
LEMMA SameFinite == \A S : F!IsFiniteSet(S) <=> IsFiniteSet(S)
BY Zenon DEF F!IsFiniteSet, IsFiniteSet

\* The set 1..n+1 has twice as many subsets as 1..n, those with and those
\* without n+1.
LEMMA PowerDoubles ==
    ASSUME NEW n \in Nat
    PROVE  2^n \in Nat /\ 2^(n + 1) = 2^n + 2^n
<1> DEFINE S == 1 .. n
           x == n + 1
           A == SUBSET S
           B == {T \cup {x} : T \in A}
<1>1. F!IsFiniteSet(S) /\ F!Cardinality(S) = n
  BY F!FS_Interval, SMT
<1>2. x \notin S
  BY SMT
<1>3. F!IsFiniteSet(S \cup {x}) /\ F!Cardinality(S \cup {x}) = n + 1
  BY <1>1, <1>2, F!FS_AddElement, ZenonT(30)
<1>4. F!IsFiniteSet(A) /\ F!Cardinality(A) = 2^n
  BY <1>1, F!FS_SUBSET, ZenonT(30)
<1>5. F!Cardinality(SUBSET (S \cup {x})) = 2^(n + 1)
  BY <1>3, F!FS_SUBSET, ZenonT(30)
<1>6. F!IsFiniteSet(B) /\ F!Cardinality(B) = F!Cardinality(A)
  <2> DEFINE f == [T \in A |-> T \cup {x}]
  <2>1. f \in [A -> B]
    OBVIOUS
  <2>2. \A T, U \in A : f[T] = f[U] => T = U
    BY <1>2
  <2>3. \A y \in B : \E T \in A : f[T] = y
    OBVIOUS
  <2>4. f \in F!Bijection(A, B)
    BY <2>1, <2>2, <2>3, Zenon DEF F!Bijection, F!Injection, F!Surjection, F!IsInjective
  <2> QED BY <1>4, <2>4, F!FS_Bijection DEF F!ExistsBijection
<1>7. A \cap B = {}
  BY SMT
<1>8. A \cup B = SUBSET (S \cup {x})
  <2>1. ASSUME NEW U \in SUBSET (S \cup {x}) PROVE U \in A \cup B
    <3>1. CASE x \in U
      <4>1. U = (U \ {x}) \cup {x} BY <3>1
      <4>2. U \ {x} \in A BY <2>1
      <4> QED BY <4>1, <4>2, ZenonT(30)
    <3>2. CASE x \notin U
      <4>1. U \in A BY <2>1, <3>2, ZenonT(30)
      <4> QED BY <4>1
    <3> QED BY <3>1, <3>2
  <2>2. A \cup B \subseteq SUBSET (S \cup {x})
    BY ZenonT(30)
  <2> QED BY <2>1, <2>2, ZenonT(30)
<1>9. F!Cardinality(A \cup B) = F!Cardinality(A) + F!Cardinality(B)
  <2>1. F!Cardinality(A \cup B)
           = F!Cardinality(A) + F!Cardinality(B) - F!Cardinality(A \cap B)
    BY <1>4, <1>6, F!FS_Union, ZenonT(30)
  <2>2. F!Cardinality(A \cap B) = 0
    BY <1>7, F!FS_EmptySet, ZenonT(30)
  <2>3. F!Cardinality(A) \in Nat /\ F!Cardinality(B) \in Nat
    BY <1>4, <1>6, F!FS_CardinalityType, ZenonT(30)
  <2> QED BY <2>1, <2>2, <2>3
<1>10. 2^n \in Nat
  BY <1>4, F!FS_CardinalityType, ZenonT(30)
<1> QED BY <1>4, <1>5, <1>6, <1>8, <1>9, <1>10, ZenonT(30)

\* There is a subset at least.
LEMMA PowerPositive ==
    ASSUME NEW n \in Nat
    PROVE  2^n \in Nat /\ 2^n > 0
<1>1. F!IsFiniteSet(1 .. n) /\ F!Cardinality(1 .. n) = n
  BY F!FS_Interval, SMT
<1>2. F!IsFiniteSet(SUBSET (1 .. n)) /\ F!Cardinality(SUBSET (1 .. n)) = 2^n
  BY <1>1, F!FS_SUBSET, ZenonT(30)
<1>3. SUBSET (1 .. n) # {}
  BY ZenonT(30)
<1>4. 2^n \in Nat /\ 2^n # 0
  BY <1>2, <1>3, F!FS_CardinalityType, F!FS_EmptySet, ZenonT(30)
<1> QED BY <1>4

\* Two finite sets that differ in one element at most.
LEMMA DifferInOne ==
    ASSUME NEW S, F!IsFiniteSet(S), NEW T, NEW p, T \ {p} = S \ {p}
    PROVE  /\ F!IsFiniteSet(T) /\ F!Cardinality(T) \in Nat /\ F!Cardinality(S) \in Nat
           /\ F!Cardinality(T) = F!Cardinality(S) + One(p \in T) - One(p \in S)
<1>1. F!Cardinality(S) \in Nat
  BY F!FS_CardinalityType, ZenonT(30)
<1>2. F!IsFiniteSet(S \ {p}) /\ F!Cardinality(S \ {p}) = F!Cardinality(S) - One(p \in S)
  BY <1>1, F!FS_RemoveElement DEF One
<1>3. p \notin S \ {p}
  BY ZenonT(30)
<1>4. CASE p \in T
  <2>1. T = (S \ {p}) \cup {p}
    BY <1>4, ZenonT(30)
  <2>2. /\ F!IsFiniteSet((S \ {p}) \cup {p})
        /\ F!Cardinality((S \ {p}) \cup {p}) = F!Cardinality(S \ {p}) + 1
    BY <1>2, <1>3, F!FS_AddElement, ZenonT(30)
  <2>3. F!Cardinality(S \ {p}) \in Nat /\ F!Cardinality(T) \in Nat
    BY <1>2, <2>1, <2>2, F!FS_CardinalityType, ZenonT(30)
  <2> QED BY <1>1, <1>2, <1>4, <2>1, <2>2, <2>3 DEF One
<1>5. CASE p \notin T
  <2>1. T = S \ {p}
    BY <1>5, ZenonT(30)
  <2>2. F!Cardinality(T) \in Nat
    BY <1>2, <2>1, F!FS_CardinalityType, ZenonT(30)
  <2> QED BY <1>1, <1>2, <1>5, <2>1, <2>2 DEF One
<1> QED BY <1>4, <1>5, ZenonT(30)

\* An array of m buckets of n slots has m * n slots.
LEMMA Product ==
    ASSUME NEW m \in Nat, NEW n \in Nat
    PROVE  /\ F!IsFiniteSet((0 .. m - 1) \X (0 .. n - 1))
           /\ F!Cardinality((0 .. m - 1) \X (0 .. n - 1)) = m * n
<1>1. F!IsFiniteSet(0 .. m - 1) /\ F!Cardinality(0 .. m - 1) = m
  BY F!FS_Interval, SMT
<1>2. F!IsFiniteSet(0 .. n - 1) /\ F!Cardinality(0 .. n - 1) = n
  BY F!FS_Interval, SMT
<1>3. /\ F!IsFiniteSet((0 .. m - 1) \X (0 .. n - 1))
      /\ F!Cardinality((0 .. m - 1) \X (0 .. n - 1))
            = F!Cardinality(0 .. m - 1) * F!Cardinality(0 .. n - 1)
  BY <1>1, <1>2, F!FS_Product, ZenonT(30)
<1> QED BY <1>1, <1>2, <1>3, ZenonT(30)

\* The hypothesis of the lemmas of LevelHashTables and LevelHashItems.
LEMMA LawsHold == Laws
<1>1. Powers
  BY PowerDoubles, PowerPositive, ZenonT(30) DEF Powers
<1>2. Cardinality({}) = 0
  BY F!FS_EmptySet, SameCardinality, ZenonT(30)
<1>3. ASSUME NEW S, IsFiniteSet(S)
      PROVE  Cardinality(S) \in Nat /\ (Cardinality(S) = 0 => S = {})
  <2>1. F!IsFiniteSet(S)
    BY <1>3, SameFinite, ZenonT(30)
  <2>2. F!Cardinality(S) \in Nat /\ (F!Cardinality(S) = 0 => S = {})
    BY <2>1, F!FS_CardinalityType, F!FS_EmptySet, ZenonT(30)
  <2> QED BY <2>2, SameCardinality, ZenonT(30)
<1>4. ASSUME NEW S, NEW T, IsFiniteSet(S), T \subseteq S
      PROVE  IsFiniteSet(T) /\ Cardinality(T) <= Cardinality(S)
  <2>1. F!IsFiniteSet(S)
    BY <1>4, SameFinite, ZenonT(30)
  <2>2. F!IsFiniteSet(T) /\ F!Cardinality(T) <= F!Cardinality(S)
    BY <1>4, <2>1, F!FS_Subset, ZenonT(30)
  <2> QED BY <2>2, SameCardinality, SameFinite, ZenonT(30)
<1>5. ASSUME NEW S, NEW T, NEW p, IsFiniteSet(S), T \ {p} = S \ {p}
      PROVE  IsFiniteSet(T) /\ Cardinality(T) = Cardinality(S) + One(p \in T) - One(p \in S)
  <2>1. F!IsFiniteSet(S)
    BY <1>5, SameFinite, ZenonT(30)
  <2>2. /\ F!IsFiniteSet(T)
        /\ F!Cardinality(T) = F!Cardinality(S) + One(p \in T) - One(p \in S)
    BY <1>5, <2>1, DifferInOne, ZenonT(30)
  <2> QED BY <2>2, SameCardinality, SameFinite, ZenonT(30)
<1>6. \A m, n \in Nat : /\ IsFiniteSet((0 .. m - 1) \X (0 .. n - 1))
                        /\ Cardinality((0 .. m - 1) \X (0 .. n - 1)) = m * n
  BY Product, SameCardinality, SameFinite, ZenonT(30)
<1>7. Cardinalities
  BY <1>2, <1>3, <1>4, <1>5, <1>6, ZenonT(30) DEF Cardinalities
<1> QED BY <1>1, <1>7, ZenonT(30) DEF Laws

------------------------------------------------------------------------------
(* The theorems *)

\* The invariants hold at the start.
LEMMA Start == Init => Inv /\ BagInv /\ Store!Init /\ (Clean => CountInv)
<1>1. Init => Inv
  BY LawsHold, InitInv, ZenonT(30)
<1>2. Init => BagInv /\ Store!Init
  BY LawsHold, InitBag, ZenonT(30)
<1>3. Init => (Clean => CountInv)
  BY LawsHold, InitCount, ZenonT(30)
<1> QED BY <1>1, <1>2, <1>3, ZenonT(30)

\* Every step of every call keeps the shape and the places of the items.
LEMMA Keeps == Inv /\ [Next]_vars => Inv'
BY LawsHold, NextInv, ZenonT(30)

\* Every step of every call is a step of the bag or invisible.
LEMMA Serves == Inv /\ BagInv /\ [Next]_vars => BagInv' /\ [Store!Next]_(Store!vars)
BY LawsHold, NextBag, ZenonT(30)

\* Every step of every call keeps the counters right.
LEMMA KeepsCount == Inv /\ BagInv /\ (Clean => CountInv) /\ [Next]_vars => (Clean => CountInv)'
<1> SUFFICES ASSUME Inv, BagInv, Clean => CountInv, [Next]_vars, Clean' PROVE CountInv'
  BY ZenonT(30)
<1>1. Clean
  BY Zenon DEF Clean
<1> QED BY <1>1, LawsHold, NextCount, ZenonT(30)

\* The arrays of the table always have the sizes level_size stands for, through
\* every insert, expansion and shrinking (level_hashing.c).
THEOREM TypeCorrect == Spec => []TypeOK
<1>1. Inv => TypeOK
  BY ZenonT(30) DEF Inv
<1> QED BY <1>1, Start, Keeps, PTL DEF Spec

\* An item is always in a bucket its key hashes to: level_static_query and the
\* other searches, which look in those four buckets only, never miss an item.
THEOREM AlwaysPlaced == Spec => []Placed
<1>1. Inv => Placed
  BY ZenonT(30) DEF Inv
<1> QED BY <1>1, Start, Keeps, PTL DEF Spec

\* Between calls, what is stored can be found: if any slot of the table holds an
\* item of the key, a search of the key's four buckets meets one.
THEOREM AlwaysFindable == Spec => []Findable
<1>1. Inv => Findable
  BY LawsHold, FindableInv, ZenonT(30)
<1> QED BY <1>1, Start, Keeps, PTL DEF Spec

\* The table is a bag of items for its callers: every call of level_hashing.c does
\* to the bag, and returns, what KVStore says, and no movement, expansion or
\* shrinking loses, doubles or alters an item, however many slots of uninitialised
\* memory read as full, provided none of them reads as a key of the caller.
THEOREM StoreImplemented == Spec => ImplementsStore
BY Start, Keeps, Serves, PTL DEF Spec, ImplementsStore, Store!Spec

\* Between calls the counters level_item_num of level_hashing.c are the numbers of
\* items stored, through every movement and resize, where memory comes cleared and
\* a level has fewer slots than uint64_t counts.
THEOREM CountsExact == Spec => [](Clean => ItemCounts)
<1>1. (Clean => CountInv) => (Clean => ItemCounts)
  BY DEF CountInv, ItemCounts, Count, Levels
<1> QED BY <1>1, Start, Keeps, Serves, KeepsCount, PTL DEF Spec

==============================================================================
