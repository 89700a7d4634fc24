--------------------------- MODULE LevelHashItems ---------------------------
(***************************************************************************)
(* The table as a bag of items: every step of level_hashing.c keeps BagInv *)
(* and is a step of KVStore or invisible.                                  *)
(***************************************************************************)
EXTENDS LevelHashTables

\* All the arrays are arrays.
LEMMA Arrays ==
    ASSUME Laws, Inv
    PROVE  Array(buckets[0]) /\ Array(buckets[1]) /\ Array(newBuckets)
<1>1. level_size \in Nat /\ level_size >= 2 /\ Shape(buckets, level_size)
  BY InvTable, SizeAssumption
<1>2. Array(buckets[0]) /\ Array(buckets[1])
  BY <1>1, ShapeArrays DEF Levels
<1>3. CASE resize_state = 1
  <2>1. 2^(level_size + 1) \in Nat
    BY <1>1, PowPositive
  <2> QED BY <1>2, <1>3, <2>1, Zenon DEF Inv, TypeOK, RehashType, Array
<1>4. CASE resize_state # 1
  BY <1>2, <1>4, NilItems, Zenon DEF Inv, TypeOK, RehashType
<1> QED BY <1>3, <1>4, Zenon

\* The entry is that of the item that level_insert is storing.
Item(e) == e.key = item.key /\ e.value = item.value

\* level_shrink has set the old top level aside, and the item that level_insert
\* stores for it is still there; outside level_shrink that item is the caller's.
Aside ==
    /\ Array(interimBuckets)
    /\ pc = "idle" => interimBuckets = Nil
    /\ pc = "shrink" => interimBuckets # Nil
    /\ pc \in {"insert", "expand"} /\ interimBuckets = Nil =>
          item.key \in Key /\ item.value \in Value
    /\ pc \in {"insert", "expand"} /\ interimBuckets # Nil =>
          \E p \in Filled(interimBuckets) :
             NextFilled(p, interimBuckets) /\ Item(interimBuckets[p[1]][p[2]])

\* With Inv, what the refinement of KVStore needs.
BagInv == Aside /\ HonestTable(buckets) /\ HonestIn(newBuckets) /\ HonestIn(interimBuckets)

\* The copies of an item, wherever they are.
Tot(q) == TableNum(buckets, q) + Num(newBuckets, q) + Num(interimBuckets, q)

\* The bag that refines KVStore, in terms of Tot.
LEMMA ItemsAre ==
    /\ Items = [q \in Key \X Value |-> Tot(q)]
    /\ Items' = [q \in Key \X Value |-> Tot(q)']
BY Zenon DEF Items, Tot, TableNum, Num

\* The copies of an item are a number of them in each array.
LEMMA TotType ==
    ASSUME Laws, Inv, BagInv, NEW q
    PROVE  /\ TableNum(buckets, q) \in Nat
           /\ Num(newBuckets, q) \in Nat /\ Num(interimBuckets, q) \in Nat /\ Tot(q) \in Nat
<1>1. /\ Num(buckets[0], q) \in Nat /\ Num(buckets[1], q) \in Nat
      /\ Num(newBuckets, q) \in Nat /\ Num(interimBuckets, q) \in Nat
  BY Arrays, NumType DEF BagInv, Aside
<1> QED BY <1>1 DEF TableNum, Tot

\* The rehashing loops visit one slot at a time.
LEMMA NextUnique ==
    ASSUME NEW B, Array(B), NEW p \in Filled(B), NextFilled(p, B),
           NEW r \in Filled(B), NextFilled(r, B)
    PROVE  p = r
<1>1. PICK n \in Nat : B \in [0 .. n - 1 -> Bucket]
  BY Zenon DEF Array
<1>2. /\ p = <<p[1], p[2]>> /\ p[1] \in Nat /\ p[2] \in 0 .. ASSOC_NUM - 1
      /\ r = <<r[1], r[2]>> /\ r[1] \in Nat /\ r[2] \in 0 .. ASSOC_NUM - 1
  BY <1>1 DEF Filled, Slots
<1>3. /\ p[1] * ASSOC_NUM + p[2] <= r[1] * ASSOC_NUM + r[2]
      /\ r[1] * ASSOC_NUM + r[2] <= p[1] * ASSOC_NUM + p[2]
  BY Zenon DEF NextFilled
<1>4. ASSUME NEW x \in Nat, NEW y \in Nat, x < y
      PROVE  x * ASSOC_NUM + ASSOC_NUM <= y * ASSOC_NUM
  <2>1. PICK d \in Nat : y = x + 1 + d
    <3>1. y - x - 1 \in Nat /\ y = x + 1 + (y - x - 1)
      BY <1>4, SMT
    <3> QED BY <3>1
  <2>2. y * ASSOC_NUM = x * ASSOC_NUM + ASSOC_NUM + d * ASSOC_NUM /\ d * ASSOC_NUM \in Nat
    BY <2>1, SizeAssumption, SMT
  <2> QED BY <2>2, SizeAssumption, SMT
<1>5. p[1] * ASSOC_NUM \in Nat /\ r[1] * ASSOC_NUM \in Nat
  BY <1>2, SizeAssumption, SMT
<1>6. ~(p[1] < r[1]) /\ ~(r[1] < p[1])
  BY <1>2, <1>3, <1>4, <1>5, SizeAssumption, SMT
<1>7. p[1] = r[1]
  BY <1>2, <1>6, SMT
<1>8. p[2] = r[2]
  BY <1>2, <1>3, <1>5, <1>7, SizeAssumption, SMT
<1> QED BY <1>2, <1>7, <1>8, Zenon

\* The item that level_insert stores has the caller's key and value, or is junk.
LEMMA NewHonest ==
    ASSUME Inv, BagInv, pc = "insert"
    PROVE  Honest(NewEntry) /\ NewEntry.token = 1
<1>1. NewEntry.token = 1 /\ NewEntry.key = item.key /\ NewEntry.value = item.value
  BY DEF NewEntry, Entry
<1>2. CASE interimBuckets = Nil
  BY <1>1, <1>2 DEF BagInv, Aside, Honest
<1>3. CASE interimBuckets # Nil
  <2>1. PICK p \in Filled(interimBuckets) : Item(interimBuckets[p[1]][p[2]])
    BY <1>3 DEF BagInv, Aside
  <2>2. Honest(interimBuckets[p[1]][p[2]])
    BY DEF BagInv, HonestIn, Filled
  <2> QED BY <1>1, <2>1, <2>2 DEF Item, Honest
<1> QED BY <1>2, <1>3

\* A step that neither changes the bag nor returns is invisible.
LEMMA StepHidden ==
    ASSUME \A q \in Key \X Value : Tot(q)' = Tot(q), UNCHANGED result
    PROVE  [Store!Next]_(Store!vars)
<1>1. Items' = Items
  BY ItemsAre
<1> QED BY <1>1 DEF Store!vars

\* level_insert returns, to its caller or to level_shrink, having stored the item
\* once more: for the caller the bag has grown by the item; for level_shrink, which
\* clears the slot it copied, it is the same.
LEMMA InsertedBag ==
    ASSUME Laws, Inv, BagInv, pc = "insert", Inserted, Gains(buckets, NewEntry, buckets')
    PROVE  BagInv' /\ [Store!Next]_(Store!vars)
<1>1. UNCHANGED newBuckets /\ HonestIn(newBuckets') /\ HonestTable(buckets')
  BY Zenon DEF Inserted, BagInv, Gains
<1>2. CASE interimBuckets = Nil
  <2>1. /\ pc' = "idle" /\ UNCHANGED interimBuckets
        /\ result' = [fn |-> "insert", key |-> item.key, out |-> 0]
    BY <1>2 DEF Inserted, Return
  <2>2. item.key \in Key /\ item.value \in Value
    BY <1>2 DEF BagInv, Aside
  <2>3. BagInv'
    BY <1>1, <1>2, <2>1 DEF BagInv, Aside
  <2>4. ASSUME NEW q \in Key \X Value
        PROVE  Tot(q)' = Tot(q) + One(q = <<item.key, item.value>>)
    <3>1. One(Has(NewEntry, q)) = One(q = <<item.key, item.value>>)
      BY EntryHas, Zenon DEF NewEntry, One
    <3>2. One(Has(NewEntry, q)) \in Int
      BY DEF One
    <3>3. TableNum(buckets', q) = TableNum(buckets, q) + One(Has(NewEntry, q))
      BY Zenon DEF Gains
    <3> QED BY <1>1, <2>1, <3>1, <3>2, <3>3, TotType DEF Tot
  <2>5. Items' = [Items EXCEPT ![<<item.key, item.value>>] = @ + 1]
    <3>1. /\ DOMAIN Items = Key \X Value
          /\ \A q \in Key \X Value : Items[q] = Tot(q)
          /\ Items' = [q \in Key \X Value |-> Tot(q)']
      BY ItemsAre, Zenon
    <3>2. \A q \in Key \X Value : Tot(q) \in Nat
      BY TotType, Zenon
    <3>3. \A q \in Key \X Value :
             Items[q] \in Nat /\ Items'[q] = Items[q] + One(q = <<item.key, item.value>>)
      BY <2>4, <3>1, <3>2
    <3>4. Items = [q \in Key \X Value |-> Items[q]] /\ Items' = [q \in Key \X Value |-> Items'[q]]
      BY ItemsAre, Zenon
    <3> DEFINE c == <<item.key, item.value>>
               h == [Items EXCEPT ![c] = @ + 1]
    <3>5. c \in Key \X Value
      BY <2>2
    <3> HIDE DEF c
    <3>6. h = [q \in Key \X Value |-> h[q]]
      BY <3>1, Zenon
    <3>7. \A q \in Key \X Value : h[q] = IF q = c THEN Items[q] + 1 ELSE Items[q]
      BY <3>4, <3>5, SMT
    <3> HIDE DEF h
    <3>8. \A q \in Key \X Value : h[q] = Items'[q]
      BY <3>3, <3>7 DEF One, c
    <3>9. Items' = h
      BY <3>4, <3>6, <3>8
    <3> QED BY <3>9, Zenon DEF h, c
  <2>6. Store!Insert(item.key, item.value)
    BY <2>1, <2>5, Zenon DEF Store!Insert
  <2> QED BY <2>2, <2>3, <2>6, ZenonT(30) DEF Store!Next
<1>3. CASE interimBuckets # Nil
  <2>1. PICK p \in Filled(interimBuckets) :
           /\ NextFilled(p, interimBuckets)
           /\ interimBuckets' = [interimBuckets EXCEPT ![p[1]][p[2]] = Empty]
    BY <1>3, Zenon DEF Inserted
  <2>2. pc' = "shrink" /\ UNCHANGED result
    BY <1>3 DEF Inserted
  <2>3. Array(interimBuckets) /\ HonestIn(interimBuckets)
    BY Zenon DEF BagInv, Aside
  <2>4. p[1] \in DOMAIN interimBuckets /\ p[2] \in Slots /\ Empty \in AnyEntry
    BY EntryType DEF Filled
  <2>5. Array(interimBuckets') /\ Written(interimBuckets, p[1], p[2], Empty, interimBuckets')
    BY <2>1, <2>3, <2>4, WriteSlot, Zenon
  <2>6. HonestIn(interimBuckets')
    BY <2>3, <2>5, HonestWrite, EmptyHas, ZenonT(30)
  <2>7. interimBuckets' # Nil
    BY <2>5 DEF Written, Nil
  <2>8. BagInv'
    BY <1>1, <2>2, <2>5, <2>6, <2>7 DEF BagInv, Aside
  <2>9. Item(interimBuckets[p[1]][p[2]]) /\ interimBuckets[p[1]][p[2]].token = 1
    <3>1. PICK r \in Filled(interimBuckets) :
             NextFilled(r, interimBuckets) /\ Item(interimBuckets[r[1]][r[2]])
      BY <1>3 DEF BagInv, Aside
    <3>2. p = r
      BY <2>1, <2>3, <3>1, NextUnique, Zenon
    <3> QED BY <3>1, <3>2, Zenon DEF Filled
  <2>10. ASSUME NEW q \in Key \X Value PROVE Tot(q)' = Tot(q)
    <3>1. Num(interimBuckets', q) = Num(interimBuckets, q) + One(Has(Empty, q))
                                    - One(Has(interimBuckets[p[1]][p[2]], q))
      BY <2>3, <2>5, NumWrite
    <3>2. Has(interimBuckets[p[1]][p[2]], q) <=> Has(NewEntry, q)
      BY <2>9 DEF Has, Item, NewEntry, Entry
    <3>3. One(Has(Empty, q)) = 0
      BY EmptyHas DEF One
    <3>4. One(Has(NewEntry, q)) \in Int
          /\ One(Has(interimBuckets[p[1]][p[2]], q)) = One(Has(NewEntry, q))
      BY <3>2 DEF One
    <3>5. TableNum(buckets', q) = TableNum(buckets, q) + One(Has(NewEntry, q))
      BY Zenon DEF Gains
    <3> QED BY <1>1, <3>1, <3>3, <3>4, <3>5, TotType DEF Tot
  <2> QED BY <2>2, <2>8, <2>10, StepHidden
<1> QED BY <1>2, <1>3

\* What Inv says of the two levels.
LEMMA TableFacts ==
    ASSUME Inv
    PROVE  level_size \in Nat /\ level_size >= 2 /\ Shape(buckets, level_size)
BY InvTable, SizeAssumption

\* The slot that a search for room takes is free.
LEMMA FreeFacts ==
    ASSUME NEW B, NEW f, NEW g, NEW p, FirstFree(p, B, f, g)
    PROVE  p[2] \in Slots /\ B[p[1]][p[2]].token = 0
BY DEF FirstFree, FreeSlots

\* When there is no free slot for the item, its four buckets have none.
LEMMA FullSlots ==
    ASSUME Full, NEW l \in Levels, NEW s \in {0, 1}, NEW i \in Slots
    PROVE  buckets[l][Loc(item.key, s, Capacity(l))][i].token # 0
<1> DEFINE f == Loc(item.key, 0, Capacity(l))
           g == Loc(item.key, 1, Capacity(l))
           x == Loc(item.key, s, Capacity(l))
<1>1. x \in {f, g}
  OBVIOUS
<1>2. FreeSlots(buckets[l], f, g) = {}
  BY Zenon DEF Full, ItemHasFree, HasFree
<1> HIDE DEF f, g, x
<1> DEFINE B == buckets[l]
           r == <<x, i>>
<1>3. r \in {f, g} \X Slots /\ r[1] = x /\ r[2] = i
  BY <1>1
<1> HIDE DEF B, r
<1>4. FreeSlots(B, f, g) = {}
  BY <1>2, Zenon DEF B
<1>5. B[r[1]][r[2]].token # 0
  BY <1>3, <1>4, Zenon DEF FreeSlots
<1> QED BY <1>3, <1>5, Zenon DEF x, B

\* level_insert puts the item into a free slot of level l.
LEMMA InsertFreeFacts ==
    ASSUME Inv, NEW l \in Levels, InsertFree(l)
    PROVE  /\ pc = "insert" /\ Inserted
           /\ level_item_num' = [level_item_num EXCEPT ![l] = (@ + 1) % WORD]
           /\ \E x, i : /\ Put(buckets, level_size, l, x, i, NewEntry, buckets')
                        /\ buckets[l][x][i].token = 0
<1>1. /\ pc = "insert" /\ Inserted
      /\ level_item_num' = [level_item_num EXCEPT ![l] = (@ + 1) % WORD]
  BY Zenon DEF InsertFree
<1>2. PICK p \in (DOMAIN buckets[l]) \X Slots :
         /\ FirstFree(p, buckets[l], Loc(item.key, 0, Capacity(l)),
                                     Loc(item.key, 1, Capacity(l)))
         /\ buckets' = [buckets EXCEPT ![l][p[1]][p[2]] = NewEntry]
  BY Zenon DEF InsertFree
<1>3. p[1] \in DOMAIN buckets[l] /\ p[2] \in Slots /\ buckets[l][p[1]][p[2]].token = 0
  BY <1>2, FreeFacts, Zenon
<1>4. NewEntry \in AnyEntry
  BY <1>1, NewEntryType, Zenon
<1>5. Put(buckets, level_size, l, p[1], p[2], NewEntry, buckets')
  BY <1>2, <1>3, <1>4, TableFacts, Zenon DEF Put
<1> QED BY <1>1, <1>3, <1>5, ZenonT(30)

\* level_insert by moving an entry to its other bucket in the same level.
LEMMA MovementFacts ==
    ASSUME Laws, Inv, try_movement
    PROVE  /\ pc = "insert" /\ Inserted
           /\ \E l \in Levels :
                 /\ Moved(buckets, level_size, l, NewEntry, buckets')
                 /\ level_item_num' = [level_item_num EXCEPT ![l] = (@ + 1) % WORD]
<1>1. pc = "insert" /\ Inserted /\ Full
  BY Zenon DEF try_movement
<1>2. PICK m \in Movable :
         LET l   == m[1]
             idx == Loc(item.key, m[2], Capacity(l))
             e   == buckets[l][idx][m[3]]
             j   == jdx(e, idx, l)
         IN  /\ \E p \in (DOMAIN buckets[l]) \X Slots :
                   /\ FirstFree(p, buckets[l], j, j)
                   /\ buckets' = [buckets EXCEPT
                         ![l][p[1]][p[2]] = Entry(e.key, e.value),
                         ![l][idx][m[3]] = NewEntry]
             /\ level_item_num' = [level_item_num EXCEPT ![l] = (@ + 1) % WORD]
  BY ZenonT(30) DEF try_movement
<1>3. m[1] \in Levels /\ m[2] \in {0, 1} /\ m[3] \in Slots
  BY SMTT(30) DEF Movable
<1> DEFINE l   == m[1]
           idx == Loc(item.key, m[2], Capacity(l))
           e   == buckets[l][idx][m[3]]
<1>4. PICK p \in (DOMAIN buckets[l]) \X Slots :
         /\ FirstFree(p, buckets[l], jdx(e, idx, l), jdx(e, idx, l))
         /\ buckets' = [buckets EXCEPT
               ![l][p[1]][p[2]] = Entry(e.key, e.value),
               ![l][idx][m[3]] = NewEntry]
  BY <1>2, ZenonT(30)
<1>5. p[1] \in DOMAIN buckets[l] /\ p[2] \in Slots /\ buckets[l][p[1]][p[2]].token = 0
  BY <1>4, FreeFacts, ZenonT(30)
<1>6. idx \in DOMAIN buckets[l] /\ buckets[l][idx][m[3]].token # 0 /\ e \in AnyEntry
  BY <1>1, <1>3, NewEntryType, LocType, TableSlot, FullSlots, ZenonT(30)
<1>7. /\ e = buckets[l][idx][m[3]] /\ l \in Levels
      /\ level_item_num' = [level_item_num EXCEPT ![l] = (@ + 1) % WORD]
  BY <1>2, <1>3, Zenon
<1> HIDE DEF l, idx, e
<1> DEFINE U == [buckets EXCEPT ![l][p[1]][p[2]] = Entry(e.key, e.value)]
<1>8. buckets' = [U EXCEPT ![l][idx][m[3]] = NewEntry]
  BY <1>4, Zenon
<1>9. NewEntry \in AnyEntry /\ Entry(e.key, e.value) \in AnyEntry
  BY <1>1, <1>6, NewEntryType, MovedType, Zenon
<1>10. Put(buckets, level_size, l, p[1], p[2], Entry(e.key, e.value), U)
  BY <1>5, <1>7, <1>9, TableFacts, ZenonT(30) DEF Put
<1> HIDE DEF U
<1>11. Moved(buckets, level_size, l, NewEntry, buckets')
  BY <1>3, <1>5, <1>6, <1>7, <1>8, <1>9, <1>10, MovedBy, ZenonT(30)
<1> QED BY <1>1, <1>7, <1>11, Zenon

\* level_insert by moving a bottom entry to the top level.
LEMMA B2TFacts ==
    ASSUME Laws, Inv, b2t_movement
    PROVE  /\ pc = "insert" /\ Inserted
           /\ Moved(buckets, level_size, 0, NewEntry, buckets')
           /\ level_item_num' = [level_item_num EXCEPT ![0] = (@ + 1) % WORD]
<1>1. /\ pc = "insert" /\ Inserted /\ Full
      /\ level_item_num' = [level_item_num EXCEPT ![0] = (@ + 1) % WORD]
  BY ZenonT(30) DEF b2t_movement
<1>2. PICK m \in Liftable :
         LET idx == Loc(item.key, m[2], Capacity(1))
             e   == buckets[1][idx][m[3]]
         IN  \E p \in (DOMAIN buckets[0]) \X Slots :
                /\ FirstFree(p, buckets[0], Loc(e.key, 0, Capacity(0)),
                                            Loc(e.key, 1, Capacity(0)))
                /\ buckets' = [buckets EXCEPT
                      ![0][p[1]][p[2]] = Entry(e.key, e.value),
                      ![1][idx][m[3]] = NewEntry]
  BY ZenonT(30) DEF b2t_movement
<1>3. m[2] \in {0, 1} /\ m[3] \in Slots /\ 0 \in Levels /\ 1 \in Levels
  BY SMTT(30) DEF Liftable, Levels
<1> DEFINE idx == Loc(item.key, m[2], Capacity(1))
           e   == buckets[1][idx][m[3]]
<1>4. PICK p \in (DOMAIN buckets[0]) \X Slots :
         /\ FirstFree(p, buckets[0], Loc(e.key, 0, Capacity(0)),
                                     Loc(e.key, 1, Capacity(0)))
         /\ buckets' = [buckets EXCEPT
               ![0][p[1]][p[2]] = Entry(e.key, e.value),
               ![1][idx][m[3]] = NewEntry]
  BY <1>2, ZenonT(30)
<1>5. p[1] \in DOMAIN buckets[0] /\ p[2] \in Slots /\ buckets[0][p[1]][p[2]].token = 0
  BY <1>4, FreeFacts, ZenonT(30)
<1>6. idx \in DOMAIN buckets[1] /\ buckets[1][idx][m[3]].token # 0 /\ e \in AnyEntry
  BY <1>1, <1>3, NewEntryType, LocType, TableSlot, FullSlots, ZenonT(30)
<1>7. e = buckets[1][idx][m[3]]
  OBVIOUS
<1> HIDE DEF idx, e
<1> DEFINE U == [buckets EXCEPT ![0][p[1]][p[2]] = Entry(e.key, e.value)]
<1>8. buckets' = [U EXCEPT ![1][idx][m[3]] = NewEntry]
  BY <1>4, Zenon
<1>9. NewEntry \in AnyEntry /\ Entry(e.key, e.value) \in AnyEntry
  BY <1>1, <1>6, NewEntryType, MovedType, ZenonT(30)
<1>10. Put(buckets, level_size, 0, p[1], p[2], Entry(e.key, e.value), U)
  BY <1>3, <1>5, <1>9, TableFacts, ZenonT(30) DEF Put
<1> HIDE DEF U
<1>11. Moved(buckets, level_size, 0, NewEntry, buckets')
  BY <1>3, <1>5, <1>6, <1>7, <1>8, <1>9, <1>10, MovedBy, ZenonT(30)
<1> QED BY <1>1, <1>11, Zenon

\* level_insert returns having put the item into a free slot.
LEMMA InsertFreeBag ==
    ASSUME Laws, Inv, BagInv, NEW l \in Levels, InsertFree(l)
    PROVE  BagInv' /\ [Store!Next]_(Store!vars)
<1>1. pc = "insert" /\ Inserted
  BY InsertFreeFacts, Zenon
<1>2. PICK x, i : /\ Put(buckets, level_size, l, x, i, NewEntry, buckets')
                  /\ buckets[l][x][i].token = 0
  BY InsertFreeFacts, Zenon
<1>3. Honest(NewEntry) /\ HonestTable(buckets)
  BY <1>1, NewHonest, Zenon DEF BagInv
<1>4. Gains(buckets, NewEntry, buckets')
  BY <1>2, <1>3, PutTable, Zenon
<1> QED BY <1>1, <1>4, InsertedBag, Zenon

\* level_insert returns having moved an entry out of the item's way.
LEMMA MovementBag ==
    ASSUME Laws, Inv, BagInv, try_movement \/ b2t_movement
    PROVE  BagInv' /\ [Store!Next]_(Store!vars)
<1>1. pc = "insert" /\ Inserted
  BY MovementFacts, B2TFacts, Zenon
<1>2. PICK l : Moved(buckets, level_size, l, NewEntry, buckets')
  BY MovementFacts, B2TFacts, Zenon
<1>3. Honest(NewEntry) /\ HonestTable(buckets)
  BY <1>1, NewHonest, Zenon DEF BagInv
<1>4. Gains(buckets, NewEntry, buckets')
  BY <1>2, <1>3, MoveTable, Zenon
<1> QED BY <1>1, <1>4, InsertedBag, Zenon

\* A step that changes no array leaves the bag alone.
LEMMA TotSame ==
    ASSUME UNCHANGED <<buckets, newBuckets, interimBuckets>>
    PROVE  \A q : Tot(q)' = Tot(q)
BY Zenon DEF Tot

\* So does the rest of the invariant, when the call goes on, returns from a search
\* or ends the process.
LEMMA AloneBag ==
    ASSUME BagInv, UNCHANGED <<buckets, newBuckets, interimBuckets, item>>,
           pc' \in {pc, "exited", "overrun"}
    PROVE  BagInv' /\ Items' = Items
<1>1. Aside'
  <2>1. CASE pc' = pc
    BY <2>1, Zenon DEF BagInv, Aside, Item
  <2>2. CASE pc' \in {"exited", "overrun"}
    BY <2>2 DEF BagInv, Aside
  <2> QED BY <2>1, <2>2
<1>2. BagInv'
  BY <1>1, Zenon DEF BagInv, HonestTable
<1>3. Items' = Items
  BY TotSame, ItemsAre, Zenon
<1> QED BY <1>2, <1>3

\* The new level holds nothing yet.
LEMMA ExpandBeginBag ==
    ASSUME Laws, Inv, BagInv, ExpandBegin
    PROVE  BagInv' /\ [Store!Next]_(Store!vars)
<1>1. /\ pc = "insert" /\ pc' = "expand"
      /\ UNCHANGED <<buckets, interimBuckets, item, result>>
  BY DEF ExpandBegin
<1>2. newBuckets = Nil
  BY <1>1 DEF Inv, TypeOK, RehashType, ControlType
<1>3. newBuckets' \in Fresh(2^(level_size + 1)) /\ 2^(level_size + 1) \in Nat
  <2>1. level_size + 1 \in Nat
    BY TableFacts
  <2> QED BY <2>1, PowPositive DEF ExpandBegin
<1>4. HonestIn(newBuckets') /\ \A q \in Key \X Value : Num(newBuckets', q) = 0
  BY <1>3, FreshItems, Zenon
<1>5. Aside'
  BY <1>1, Zenon DEF BagInv, Aside, Item
<1>6. BagInv'
  BY <1>1, <1>4, <1>5 DEF BagInv
<1>7. ASSUME NEW q \in Key \X Value PROVE Tot(q)' = Tot(q)
  <2>1. Num(newBuckets', q) = Num(newBuckets, q)
    BY <1>2, <1>4, NilItems, Zenon
  <2> QED BY <1>1, <2>1, Zenon DEF Tot
<1> QED BY <1>1, <1>6, <1>7, StepHidden

\* One item is moved from the old bottom level to the new level, or the process
\* exits.
LEMMA ExpandItemBag ==
    ASSUME Laws, Inv, BagInv, ExpandItem
    PROVE  BagInv' /\ [Store!Next]_(Store!vars)
<1>1. pc = "expand" /\ UNCHANGED <<interimBuckets, item, result>>
  BY ZenonT(30) DEF ExpandItem
<1>2. PICK p \in Filled(buckets[1]) :
         LET e == buckets[1][p[1]][p[2]]
             f == Loc(e.key, 0, addr_capacity)
             s == Loc(e.key, 1, addr_capacity)
         IN  \/ \E q \in (DOMAIN newBuckets) \X Slots :
                   /\ FirstFree(q, newBuckets, f, s)
                   /\ newBuckets' = [newBuckets EXCEPT
                         ![q[1]][q[2]] = Entry(e.key, e.value)]
                   /\ buckets' = [buckets EXCEPT ![1][p[1]][p[2]] = Empty]
                   /\ UNCHANGED pc
             \/ Exit /\ UNCHANGED <<newBuckets, buckets>>
  BY Zenon DEF ExpandItem
<1> DEFINE e == buckets[1][p[1]][p[2]]
<1>3. /\ 1 \in Levels /\ p[1] \in DOMAIN buckets[1] /\ p[2] \in Slots
      /\ e.token = 1 /\ e \in AnyEntry /\ Honest(e)
  BY TableSlot DEF Filled, Levels, BagInv, HonestTable, HonestIn
<1>4. CASE \E q \in (DOMAIN newBuckets) \X Slots :
             /\ FirstFree(q, newBuckets, Loc(e.key, 0, addr_capacity),
                                         Loc(e.key, 1, addr_capacity))
             /\ newBuckets' = [newBuckets EXCEPT ![q[1]][q[2]] = Entry(e.key, e.value)]
             /\ buckets' = [buckets EXCEPT ![1][p[1]][p[2]] = Empty]
             /\ UNCHANGED pc
  <2>1. PICK r \in (DOMAIN newBuckets) \X Slots :
             /\ FirstFree(r, newBuckets, Loc(e.key, 0, addr_capacity),
                                         Loc(e.key, 1, addr_capacity))
             /\ newBuckets' = [newBuckets EXCEPT ![r[1]][r[2]] = Entry(e.key, e.value)]
    BY <1>4, Zenon
  <2>2. UNCHANGED pc /\ buckets' = [buckets EXCEPT ![1][p[1]][p[2]] = Empty]
    BY <1>4, Zenon
  <2>3. e = buckets[1][p[1]][p[2]]
    OBVIOUS
  <2> DEFINE d == Entry(e.key, e.value)
  <2>4. newBuckets[r[1]][r[2]].token = 0 /\ r[1] \in DOMAIN newBuckets /\ r[2] \in Slots
    BY <2>1, FreeFacts, Zenon
  <2> HIDE DEF e
  <2>5. d \in AnyEntry /\ Honest(d) /\ \A q \in Key \X Value : Has(d, q) <=> Has(e, q)
    BY <1>3, MovedType, EntryHas, Zenon DEF Honest, Has, Entry
  <2>6. newBuckets' = [newBuckets EXCEPT ![r[1]][r[2]] = d]
    BY <2>1
  <2> HIDE DEF d
  <2>7. Array(newBuckets) /\ HonestIn(newBuckets) /\ HonestTable(buckets)
    BY Arrays, Zenon DEF BagInv
  <2>8. Written(newBuckets, r[1], r[2], d, newBuckets')
    BY <2>4, <2>5, <2>6, <2>7, WriteSlot, Zenon
  <2>9. HonestIn(newBuckets')
    BY <2>5, <2>7, <2>8, HonestWrite, Zenon
  <2>10. Put(buckets, level_size, 1, p[1], p[2], Empty, buckets')
    BY <1>3, <2>2, EntryType, TableFacts, Zenon DEF Put
  <2>11. Wrote(buckets, level_size, 1, p[1], p[2], Empty, buckets')
    BY <2>10, TableWrite, Zenon
  <2>12. HonestTable(buckets')
    BY <1>3, <2>7, <2>11, EmptyHas, HonestWriteTable, Zenon DEF Wrote
  <2>13. Aside'
    BY <1>1, <2>2, Zenon DEF BagInv, Aside, Item
  <2>14. BagInv'
    BY <1>1, <2>9, <2>12, <2>13, ZenonT(30) DEF BagInv
  <2>15. ASSUME NEW q \in Key \X Value PROVE Tot(q)' = Tot(q)
    <3>1. Num(newBuckets', q) = Num(newBuckets, q) + One(Has(d, q))
                                - One(Has(newBuckets[r[1]][r[2]], q))
      BY <2>7, <2>8, NumWrite
    <3>2. /\ One(Has(newBuckets[r[1]][r[2]], q)) = 0 /\ One(Has(Empty, q)) = 0
          /\ One(Has(d, q)) = One(Has(e, q)) /\ One(Has(e, q)) \in Int
      BY <2>4, <2>5, EmptyHas DEF One, Has
    <3>3. TableNum(buckets', q) = TableNum(buckets, q) + One(Has(Empty, q)) - One(Has(e, q))
      BY <2>3, <2>11, Zenon DEF Wrote
    <3> QED BY <1>1, <3>1, <3>2, <3>3, TotType DEF Tot
  <2> QED BY <1>1, <2>14, <2>15, StepHidden, Zenon
<1>5. CASE Exit /\ UNCHANGED <<newBuckets, buckets>>
  <2>1. pc' = "exited"
    BY <1>5 DEF Exit
  <2>2. BagInv'
    BY <1>1, <1>5, <2>1, AloneBag, Zenon
  <2> QED BY <1>1, <1>5, <2>2, TotSame, StepHidden, Zenon
<1> QED BY <1>2, <1>4, <1>5, ZenonT(30)

\* The old bottom level, which holds nothing any more, is dropped.
LEMMA ExpandEndBag ==
    ASSUME Laws, Inv, BagInv, ExpandEnd
    PROVE  BagInv' /\ [Store!Next]_(Store!vars)
<1>1. /\ pc = "expand" /\ pc' = "insert" /\ newBuckets' = Nil
      /\ UNCHANGED <<interimBuckets, item, result>>
  BY DEF ExpandEnd
<1>2. buckets'[0] = newBuckets /\ buckets'[1] = buckets[0]
  BY DEF ExpandEnd, Levels
<1>3. \A q : Num(buckets[1], q) = 0
  <2>1. Filled(buckets[1]) = {}
    BY DEF ExpandEnd
  <2> QED BY <2>1, NoneFilled
<1>4. Aside'
  BY <1>1, Zenon DEF BagInv, Aside, Item
<1>5. HonestTable(buckets') /\ HonestIn(newBuckets') /\ HonestIn(interimBuckets')
  BY <1>1, <1>2, NilItems DEF BagInv, HonestTable
<1>6. ASSUME NEW q \in Key \X Value PROVE Tot(q)' = Tot(q)
  <2>1. Num(buckets[0], q) \in Nat /\ Num(newBuckets, q) \in Nat /\ Num(interimBuckets, q) \in Nat
    BY Arrays, NumType DEF BagInv, Aside
  <2>2. Num(newBuckets', q) = 0 /\ Num(buckets[1], q) = 0
    BY <1>1, <1>3, NilItems
  <2> QED BY <1>1, <1>2, <2>1, <2>2 DEF Tot, TableNum
<1> QED BY <1>1, <1>4, <1>5, <1>6, StepHidden, Zenon DEF BagInv

\* The old top level is set aside with all its items, or the process exits.
LEMMA ShrinkBeginBag ==
    ASSUME Laws, Inv, BagInv, ShrinkBegin
    PROVE  BagInv' /\ [Store!Next]_(Store!vars)
<1>1. pc = "idle" /\ UNCHANGED <<newBuckets, item, result>>
  BY DEF ShrinkBegin
<1>2. CASE Exit /\ UNCHANGED <<table, interimBuckets>>
  <2>1. pc' = "exited" /\ UNCHANGED <<buckets, interimBuckets>>
    BY <1>2 DEF Exit, table
  <2>2. BagInv'
    BY <1>1, <2>1, AloneBag
  <2> QED BY <1>1, <2>1, <2>2, TotSame, StepHidden, Zenon
<1>3. CASE pc' = "shrink"
  <2>1. interimBuckets' = buckets[0] /\ level_size > MinLevel
    BY <1>3 DEF ShrinkBegin, Exit
  <2>2. PICK bottom \in Fresh(2^(level_size - 2)) :
           buckets' = [l \in Levels |-> IF l = 0 THEN buckets[1] ELSE bottom]
    BY <1>3 DEF ShrinkBegin, Exit
  <2>3. buckets'[0] = buckets[1] /\ buckets'[1] = bottom
    BY <2>2 DEF Levels
  <2>4. level_size \in Nat /\ level_size >= 2
    BY TableFacts
  <2>5. 2^(level_size - 2) \in Nat /\ 2^level_size \in Nat /\ 2^level_size > 0
    BY <2>4, PowPositive
  <2>6. HonestIn(bottom) /\ \A q \in Key \X Value : Num(bottom, q) = 0
    BY <2>5, FreshItems, Zenon
  <2>7. interimBuckets = Nil
    BY <1>1, Zenon DEF BagInv, Aside
  <2>8. interimBuckets' # Nil
    <3>1. DOMAIN buckets[0] = 0 .. 2^level_size - 1
      BY Zenon DEF Inv, TypeOK, TableType
    <3>2. 0 \in DOMAIN buckets[0]
      BY <2>5, <3>1
    <3> QED BY <2>1, <3>2 DEF Nil
  <2>9. Aside'
    BY <1>3, <2>1, <2>8, Arrays, Zenon DEF Aside
  <2>10. HonestTable(buckets') /\ HonestIn(newBuckets') /\ HonestIn(interimBuckets')
    BY <1>1, <2>1, <2>3, <2>6, ZenonT(30) DEF BagInv, HonestTable
  <2>11. ASSUME NEW q \in Key \X Value PROVE Tot(q)' = Tot(q)
    <3>1. Num(buckets[0], q) \in Nat /\ Num(buckets[1], q) \in Nat /\ Num(newBuckets, q) \in Nat
      BY Arrays, NumType
    <3>2. Num(interimBuckets, q) = 0 /\ Num(bottom, q) = 0
      BY <2>6, <2>7, NilItems, Zenon
    <3> QED BY <1>1, <2>1, <2>3, <3>1, <3>2 DEF Tot, TableNum
  <2> QED BY <1>1, <2>9, <2>10, <2>11, StepHidden, ZenonT(30) DEF BagInv
<1> QED BY <1>2, <1>3, SMTT(30) DEF ShrinkBegin

\* The next item set aside is given to level_insert.
LEMMA ShrinkItemBag ==
    ASSUME Inv, BagInv, ShrinkItem
    PROVE  BagInv' /\ [Store!Next]_(Store!vars)
<1>1. /\ pc = "shrink" /\ pc' = "insert"
      /\ UNCHANGED <<buckets, newBuckets, interimBuckets, result>>
  BY DEF ShrinkItem, table, rehash
<1>2. PICK p \in Filled(interimBuckets) :
         /\ NextFilled(p, interimBuckets)
         /\ item' = [key   |-> interimBuckets[p[1]][p[2]].key,
                     value |-> interimBuckets[p[1]][p[2]].value]
  BY Zenon DEF ShrinkItem
<1>3. Item(interimBuckets[p[1]][p[2]])'
  BY <1>1, <1>2, Zenon DEF Item
<1>4. interimBuckets # Nil /\ Array(interimBuckets)
  BY <1>1, Zenon DEF BagInv, Aside
<1>5. Aside'
  BY <1>1, <1>2, <1>3, <1>4, Zenon DEF Aside
<1>6. BagInv'
  BY <1>1, <1>5 DEF BagInv
<1> QED BY <1>1, <1>6, TotSame, StepHidden, ZenonT(30)

\* level_shrink returns when nothing is left in the level it set aside.
LEMMA ShrinkEndBag ==
    ASSUME Laws, Inv, BagInv, ShrinkEnd
    PROVE  BagInv' /\ [Store!Next]_(Store!vars)
<1>1. pc = "shrink" /\ Filled(interimBuckets) = {} /\ UNCHANGED <<buckets, newBuckets, item>>
  BY DEF ShrinkEnd
<1>2. CASE interimBuckets' = Nil /\ Return([fn |-> "shrink"])
  <2>1. pc' = "idle" /\ result' = [fn |-> "shrink"]
    BY <1>2, ZenonT(30) DEF Return
  <2>2. BagInv'
    BY <1>1, <1>2, <2>1, NilItems DEF BagInv, Aside
  <2>3. ASSUME NEW q PROVE Tot(q)' = Tot(q)
    <3>1. Num(interimBuckets', q) = Num(interimBuckets, q)
      BY <1>1, <1>2, NoneFilled, NilItems
    <3> QED BY <1>1, <3>1, Zenon DEF Tot
  <2>4. Items' = Items
    BY <2>3, ItemsAre
  <2>5. Store!Shrink
    BY <2>1, <2>4 DEF Store!Shrink
  <2> QED BY <2>2, <2>5, Zenon DEF Store!Next
<1>3. CASE pc' = "overrun" /\ UNCHANGED <<interimBuckets, result>>
  <2>1. BagInv'
    BY <1>1, <1>3, AloneBag, ZenonT(30)
  <2> QED BY <1>1, <1>3, <2>1, TotSame, StepHidden, ZenonT(30)
<1> QED BY <1>2, <1>3 DEF ShrinkEnd

------------------------------------------------------------------------------
(* The calls that only touch one slot *)

\* Between calls all items are in the table.
LEMMA IdleItems ==
    ASSUME Laws, Inv, BagInv, pc = "idle", NEW q \in Key \X Value
    PROVE  /\ Items[q] = TableNum(buckets, q) /\ Items[q] \in Nat
           /\ Num(buckets[0], q) \in Nat /\ Num(buckets[1], q) \in Nat
<1>1. newBuckets = Nil /\ interimBuckets = Nil
  BY DEF Inv, TypeOK, RehashType, ControlType, BagInv, Aside
<1>2. Num(newBuckets, q) = 0 /\ Num(interimBuckets, q) = 0
  BY <1>1, NilItems, Zenon
<1>3. Items[q] = Tot(q)
  BY ItemsAre, Zenon
<1>4. Num(buckets[0], q) \in Nat /\ Num(buckets[1], q) \in Nat
  BY Arrays, NumType
<1> QED BY <1>2, <1>3, <1>4 DEF Tot, TableNum

\* A search that meets nothing has no copy to meet.
LEMMA NoneStored ==
    ASSUME Laws, Inv, BagInv, pc = "idle", NEW k \in Key, Matches(k) = {}
    PROVE  Store!Stored(k) = {}
<1> SUFFICES ASSUME NEW v \in Value, Items[<<k, v>>] > 0 PROVE FALSE
  BY Zenon DEF Store!Stored
<1> DEFINE q == <<k, v>>
<1>1. q \in Key \X Value /\ q[1] = k /\ q[2] = v
  OBVIOUS
<1> HIDE DEF q
<1>2. Items[q] > 0
  BY DEF q
<1>3. Num(buckets[0], q) # 0 \/ Num(buckets[1], q) # 0
  BY <1>1, <1>2, IdleItems DEF TableNum
<1>4. PICK l \in Levels : Num(buckets[l], q) # 0
  BY <1>3 DEF Levels
<1>5. Array(buckets[l])
  BY Arrays DEF Levels
<1>6. \E p \in Filled(buckets[l]) : buckets[l][p[1]][p[2]].key = k
  BY <1>1, <1>4, <1>5, NumPositive, ZenonT(30)
<1> QED BY <1>6, FindableInv, Zenon DEF Findable

\* What a search meets is a copy that is stored.
LEMMA MatchFacts ==
    ASSUME Laws, Inv, BagInv, pc = "idle", NEW k \in Key, NEW m \in Matches(k)
    PROVE  /\ m[1] \in Levels /\ m[3] \in Slots
           /\ Loc(k, m[2], Capacity(m[1])) \in DOMAIN buckets[m[1]]
           /\ At(k, m).token = 1 /\ At(k, m).key = k /\ At(k, m).value \in Value
           /\ At(k, m).value \in Store!Stored(k)
<1> DEFINE x == Loc(k, m[2], Capacity(m[1]))
           l == m[1]
           i == m[3]
           e == buckets[l][x][i]
           q == <<k, e.value>>
           r == <<x, i>>
<1>1. l \in Levels /\ m[2] \in {0, 1} /\ i \in Slots
  BY MatchType
<1>2. x \in DOMAIN buckets[l]
  BY <1>1, LocType DEF AnyKey
<1>3. e.token = 1 /\ e.key = k
  BY Zenon DEF Matches
<1>4. At(k, m) = e
  BY DEF At
<1> HIDE DEF x, l, i
<1>5. HonestIn(buckets[l]) /\ Array(buckets[l])
  BY <1>1, Arrays, Zenon DEF BagInv, HonestTable, Levels
<1>6. e.value \in Value
  BY <1>1, <1>2, <1>3, <1>5, Zenon DEF HonestIn, Honest
<1>7. r \in Filled(buckets[l]) /\ r[1] = x /\ r[2] = i
  BY <1>1, <1>2, <1>3, ZenonT(30) DEF Filled
<1>8. q \in Key \X Value /\ q[1] = e.key /\ q[2] = e.value
  BY <1>3, <1>6
<1> HIDE DEF q, r
<1>9. Num(buckets[l], q) # 0
  <2>1. buckets[l][r[1]][r[2]].key = q[1] /\ buckets[l][r[1]][r[2]].value = q[2]
    BY <1>7, <1>8, ZenonT(30)
  <2> QED BY <1>5, <1>7, <2>1, NumPositive, ZenonT(30)
<1>10. Items[q] > 0
  <2>1. Num(buckets[0], q) # 0 \/ Num(buckets[1], q) # 0
    BY <1>1, <1>9 DEF Levels
  <2> QED BY <1>8, <2>1, IdleItems DEF TableNum
<1>11. e.value \in Store!Stored(k)
  BY <1>6, <1>10, ZenonT(30) DEF Store!Stored, q
<1> HIDE DEF e
<1> QED BY <1>1, <1>2, <1>3, <1>4, <1>6, <1>11 DEF l, x, i

\* The two searches.
LEMMA QueryBag ==
    ASSUME Laws, Inv, BagInv, NEW k \in Key, level_static_query(k) \/ level_dynamic_query(k)
    PROVE  BagInv' /\ [Store!Next]_(Store!vars)
<1>1. /\ pc = "idle" /\ pc' = "idle"
      /\ UNCHANGED <<buckets, newBuckets, interimBuckets, item>>
  BY DEF level_static_query, level_dynamic_query, Return, table, rehash
<1>2. pc' \in {pc, "exited", "overrun"}
  BY <1>1
<1>3. BagInv' /\ Items' = Items
  BY <1>1, <1>2, AloneBag, Zenon
<1>4. \/ Matches(k) = {} /\ result' = [fn |-> "query", key |-> k, out |-> NULL]
      \/ \E m \in Matches(k) : result' = [fn |-> "query", key |-> k, out |-> At(k, m).value]
  BY ZenonT(30) DEF level_static_query, level_dynamic_query, Return
<1>5. Store!Query(k)
  <2>1. CASE Matches(k) = {} /\ result' = [fn |-> "query", key |-> k, out |-> NULL]
    <3>1. Store!Stored(k) = {}
      BY <1>1, <2>1, NoneStored, Zenon
    <3> QED BY <1>3, <2>1, <3>1, Zenon DEF Store!Query
  <2>2. CASE \E m \in Matches(k) : result' = [fn |-> "query", key |-> k, out |-> At(k, m).value]
    <3>1. PICK m \in Matches(k) : result' = [fn |-> "query", key |-> k, out |-> At(k, m).value]
      BY <2>2, ZenonT(30)
    <3>2. At(k, m).value \in Store!Stored(k)
      BY <1>1, MatchFacts
    <3> QED BY <1>3, <3>1, <3>2 DEF Store!Query
  <2> QED BY <1>4, <2>1, <2>2
<1> QED BY <1>3, <1>5, ZenonT(30) DEF Store!Next

\* The slot that a search for k met at m is overwritten.
Overwritten(k, m, e) ==
    buckets' = [buckets EXCEPT ![m[1]][Loc(k, m[2], Capacity(m[1]))][m[3]] = e]

\* The same with the slot named, and what the slot held.
PutOver(k, m, e) ==
    /\ m[1] \in Levels
    /\ \E x, i : /\ Put(buckets, level_size, m[1], x, i, e, buckets')
                 /\ buckets[m[1]][x][i] = At(k, m)

\* The slot that a search met is a slot of the table.
LEMMA MatchPut ==
    ASSUME Laws, Inv, BagInv, pc = "idle", NEW k \in Key, NEW m \in Matches(k),
           NEW e \in AnyEntry, Overwritten(k, m, e)
    PROVE  PutOver(k, m, e)
<1>1. /\ m[1] \in Levels /\ m[3] \in Slots
      /\ Loc(k, m[2], Capacity(m[1])) \in DOMAIN buckets[m[1]]
  BY MatchFacts, Zenon
<1>2. Put(buckets, level_size, m[1], Loc(k, m[2], Capacity(m[1])), m[3], e, buckets')
  BY <1>1, TableFacts, Zenon DEF Put, Overwritten
<1>3. buckets[m[1]][Loc(k, m[2], Capacity(m[1]))][m[3]] = At(k, m)
  BY Zenon DEF At
<1> QED BY <1>1, <1>2, <1>3, Zenon DEF PutOver

\* What the overwriting does to the bag.
LEMMA OverwriteBag ==
    ASSUME Laws, Inv, BagInv, pc = "idle", pc' = "idle", UNCHANGED <<newBuckets, interimBuckets>>,
           NEW k \in Key, NEW m \in Matches(k), NEW e \in AnyEntry, Honest(e),
           Overwritten(k, m, e)
    PROVE  /\ BagInv'
           /\ \A q \in Key \X Value :
                 Tot(q)' = Tot(q) + One(Has(e, q)) - One(q = <<k, At(k, m).value>>)
<1> DEFINE c == At(k, m)
           l == m[1]
<1>1. c.token = 1 /\ c.key = k /\ l \in Levels
  BY MatchFacts, Zenon
<1>2. PutOver(k, m, e)
  BY MatchPut, Zenon
<1>3. PICK x, i : Put(buckets, level_size, l, x, i, e, buckets') /\ buckets[l][x][i] = c
  BY <1>2, Zenon DEF PutOver
<1> HIDE DEF c, l
<1>4. Wrote(buckets, level_size, l, x, i, e, buckets')
  BY <1>3, TableWrite, Zenon
<1>5. HonestTable(buckets')
  <2>1. HonestTable(buckets)
    BY Zenon DEF BagInv
  <2> QED BY <1>1, <1>4, <2>1, HonestWriteTable, Zenon DEF Wrote
<1>6. BagInv'
  <2>1. Aside'
    BY Zenon DEF BagInv, Aside
  <2> QED BY <1>5, <2>1, Zenon DEF BagInv
<1>7. ASSUME NEW q \in Key \X Value
      PROVE  Tot(q)' = Tot(q) + One(Has(e, q)) - One(q = <<k, c.value>>)
  <2>1. Has(c, q) <=> q = <<k, c.value>>
    BY <1>1 DEF Has
  <2>2. /\ One(Has(c, q)) = One(q = <<k, c.value>>)
        /\ One(Has(c, q)) \in Int /\ One(Has(e, q)) \in Int
    BY <2>1 DEF One
  <2>3. TableNum(buckets', q) = TableNum(buckets, q) + One(Has(e, q)) - One(Has(c, q))
    BY <1>3, <1>4, Zenon DEF Wrote
  <2>4. Num(newBuckets', q) = Num(newBuckets, q) /\ Num(interimBuckets', q) = Num(interimBuckets, q)
    BY Zenon
  <2>5. /\ TableNum(buckets, q) \in Nat
        /\ Num(newBuckets, q) \in Nat /\ Num(interimBuckets, q) \in Nat
    BY TotType, Zenon
  <2> QED BY <2>2, <2>3, <2>4, <2>5 DEF Tot
<1> QED BY <1>6, <1>7, Zenon DEF c

\* level_delete meets nothing, or clears the slot it meets.
LEMMA DeleteFacts ==
    ASSUME NEW k, level_delete(k)
    PROVE  /\ pc = "idle" /\ pc' = "idle"
           /\ UNCHANGED <<newBuckets, interimBuckets, item, level_size>>
           /\ \/ /\ Matches(k) = {} /\ UNCHANGED <<buckets, level_item_num>>
                 /\ result' = [fn |-> "delete", key |-> k, out |-> 1]
              \/ /\ result' = [fn |-> "delete", key |-> k, out |-> 0]
                 /\ \E m \in Matches(k) :
                       /\ Overwritten(k, m, Empty)
                       /\ level_item_num' = [level_item_num EXCEPT ![m[1]] = (@ - 1) % WORD]
BY ZenonT(30) DEF level_delete, Return, rehash, Overwritten

\* level_update meets nothing, or writes the value into the slot it meets.
LEMMA UpdateFacts ==
    ASSUME NEW k, NEW v, level_update(k, v)
    PROVE  /\ pc = "idle" /\ pc' = "idle"
           /\ UNCHANGED <<newBuckets, interimBuckets, item, level_size, level_item_num>>
           /\ \/ /\ Matches(k) = {} /\ UNCHANGED buckets
                 /\ result' = [fn |-> "update", key |-> k, out |-> 1]
              \/ /\ result' = [fn |-> "update", key |-> k, out |-> 0]
                 /\ \E m \in Matches(k) : Overwritten(k, m, Entry(k, v))
BY ZenonT(30) DEF level_update, Return, rehash, Overwritten

\* level_delete removes one copy.
LEMMA DeleteBag ==
    ASSUME Laws, Inv, BagInv, NEW k \in Key, level_delete(k)
    PROVE  BagInv' /\ [Store!Next]_(Store!vars)
<1>1. pc = "idle" /\ pc' = "idle" /\ UNCHANGED <<newBuckets, interimBuckets, item>>
  BY DeleteFacts, Zenon
<1>2. CASE /\ Matches(k) = {} /\ UNCHANGED buckets
           /\ result' = [fn |-> "delete", key |-> k, out |-> 1]
  <2>1. BagInv' /\ Items' = Items
    <3>1. pc' \in {pc, "exited", "overrun"}
      BY <1>1
    <3> QED BY <1>1, <1>2, <3>1, AloneBag, Zenon
  <2>2. Store!Stored(k) = {}
    BY <1>1, <1>2, NoneStored, Zenon
  <2>3. Store!Delete(k)
    BY <1>2, <2>1, <2>2, Zenon DEF Store!Delete
  <2> QED BY <2>1, <2>3, Zenon DEF Store!Next
<1>3. CASE /\ result' = [fn |-> "delete", key |-> k, out |-> 0]
           /\ \E m \in Matches(k) : Overwritten(k, m, Empty)
  <2>1. PICK m \in Matches(k) : Overwritten(k, m, Empty)
    BY <1>3, Zenon
  <2>2. Empty \in AnyEntry /\ Honest(Empty)
    BY EntryType, EmptyHas, Zenon
  <2> DEFINE w == At(k, m).value
             c == <<k, w>>
             S == Key \X Value
  <2>3. /\ BagInv'
        /\ \A q \in S : Tot(q)' = Tot(q) + One(Has(Empty, q)) - One(q = c)
    BY <1>1, <2>1, <2>2, OverwriteBag, ZenonT(30)
  <2>4. w \in Value /\ w \in Store!Stored(k)
    BY <1>1, MatchFacts, Zenon
  <2>5. c \in S
    BY <2>4, Zenon
  <2> HIDE DEF c, w
  <2>6. \A q \in S : Tot(q) \in Nat /\ Tot(q)' = IF q = c THEN Tot(q) - 1 ELSE Tot(q)
    <3>1. \A q : One(Has(Empty, q)) = 0
      BY EmptyHas, Zenon DEF One
    <3>2. \A q \in S : Tot(q) \in Nat
      BY TotType, Zenon
    <3> QED BY <2>3, <3>1, <3>2 DEF One
  <2> DEFINE h == [Items EXCEPT ![c] = @ - 1]
  <2>7. Items = [q \in S |-> Tot(q)] /\ Items' = [q \in S |-> Tot(q)']
    BY ItemsAre, Zenon
  <2> HIDE DEF S
  <2>8. h = [q \in S |-> h[q]] /\ \A q \in S : Items[q] = Tot(q) /\ Items'[q] = Tot(q)'
    BY <2>7, Zenon
  <2>9. \A q \in S : h[q] = IF q = c THEN Items[q] - 1 ELSE Items[q]
    BY <2>5, <2>7, Zenon
  <2> HIDE DEF h
  <2>10. \A q \in S : h[q] = Tot(q)'
    BY <2>6, <2>8, <2>9, Zenon
  <2>11. Items' = h
    BY <2>7, <2>8, <2>10, Zenon
  <2>12. Store!Delete(k)
    BY <1>3, <2>4, <2>11, ZenonT(30) DEF Store!Delete, h, c
  <2> QED BY <2>3, <2>12, Zenon DEF Store!Next
<1> QED BY <1>2, <1>3, DeleteFacts, Zenon

\* level_update changes the value of one copy.
LEMMA UpdateBag ==
    ASSUME Laws, Inv, BagInv, NEW k \in Key, NEW v \in Value, level_update(k, v)
    PROVE  BagInv' /\ [Store!Next]_(Store!vars)
<1>1. pc = "idle" /\ pc' = "idle" /\ UNCHANGED <<newBuckets, interimBuckets, item>>
  BY UpdateFacts, Zenon
<1>2. CASE /\ Matches(k) = {} /\ UNCHANGED buckets
           /\ result' = [fn |-> "update", key |-> k, out |-> 1]
  <2>1. BagInv' /\ Items' = Items
    <3>1. pc' \in {pc, "exited", "overrun"}
      BY <1>1
    <3> QED BY <1>1, <1>2, <3>1, AloneBag, ZenonT(30)
  <2>2. Store!Stored(k) = {}
    BY <1>1, <1>2, NoneStored, Zenon
  <2>3. Store!Update(k, v)
    BY <1>2, <2>1, <2>2, Zenon DEF Store!Update
  <2> QED BY <2>1, <2>3, Zenon DEF Store!Next
<1>3. CASE /\ result' = [fn |-> "update", key |-> k, out |-> 0]
           /\ \E m \in Matches(k) : Overwritten(k, m, Entry(k, v))
  <2>1. PICK m \in Matches(k) : Overwritten(k, m, Entry(k, v))
    BY <1>3, Zenon
  <2>2. Entry(k, v) \in AnyEntry /\ Honest(Entry(k, v))
    BY EntryType DEF Entry, AnyKey, Honest
  <2> DEFINE w == At(k, m).value
             S == Key \X Value
  <2>3. /\ BagInv'
        /\ \A q \in S : Tot(q)' = Tot(q) + One(Has(Entry(k, v), q)) - One(q = <<k, w>>)
    BY <1>1, <2>1, <2>2, OverwriteBag, ZenonT(30)
  <2>4. w \in Value /\ w \in Store!Stored(k)
    BY <1>1, MatchFacts, Zenon
  <2> HIDE DEF w
  <2>5. \A q \in S : One(Has(Entry(k, v), q)) = One(q = <<k, v>>)
    BY EntryHas, Zenon DEF One
  <2>6. Items = [q \in S |-> Tot(q)] /\ Items' = [q \in S |-> Tot(q)']
    BY ItemsAre, Zenon
  <2>7. \A q \in S : Tot(q)' = Items[q] + (IF q = <<k, v>> THEN 1 ELSE 0)
                                        - (IF q = <<k, w>> THEN 1 ELSE 0)
    BY <2>3, <2>5, <2>6, ZenonT(30) DEF One
  <2>8. Items' = [q \in S |-> Items[q] + (IF q = <<k, v>> THEN 1 ELSE 0)
                                       - (IF q = <<k, w>> THEN 1 ELSE 0)]
    BY <2>6, <2>7, Zenon
  <2>9. Store!Update(k, v)
    BY <1>3, <2>4, <2>8, Zenon DEF Store!Update, Store!Pair
  <2> QED BY <2>3, <2>9, Zenon DEF Store!Next
<1> QED BY <1>2, <1>3, UpdateFacts, Zenon

\* A call of level_insert.
LEMMA InsertCallBag ==
    ASSUME Inv, BagInv, NEW k \in Key, NEW v \in Value, InsertCall(k, v)
    PROVE  BagInv' /\ [Store!Next]_(Store!vars)
<1>1. /\ pc = "idle" /\ pc' = "insert" /\ item' = [key |-> k, value |-> v]
      /\ UNCHANGED <<buckets, newBuckets, interimBuckets, result>>
  BY Zenon DEF InsertCall, table, rehash
<1>2. Aside'
  <2>1. Array(interimBuckets') /\ interimBuckets' = Nil
    BY <1>1, Zenon DEF BagInv, Aside
  <2>2. item'.key \in Key /\ item'.value \in Value /\ pc' \notin {"idle", "shrink"}
    BY <1>1
  <2> QED BY <2>1, <2>2, Zenon DEF Aside
<1>3. BagInv'
  BY <1>1, <1>2, Zenon DEF BagInv, HonestTable
<1> QED BY <1>1, <1>3, TotSame, StepHidden, Zenon

------------------------------------------------------------------------------
\* level_init builds an empty table.
LEMMA InitBag ==
    ASSUME Laws
    PROVE  Init => BagInv /\ Store!Init
<1> SUFFICES ASSUME Init PROVE BagInv /\ Store!Init
  OBVIOUS
<1>1. PICK top \in Fresh(2^LEVEL_START), bottom \in Fresh(2^(LEVEL_START - 1)) :
          buckets = [l \in Levels |-> IF l = 0 THEN top ELSE bottom]
  BY DEF Init
<1>2. 2^LEVEL_START \in Nat /\ 2^(LEVEL_START - 1) \in Nat
  BY PowDouble, SizeAssumption
<1>3. buckets[0] = top /\ buckets[1] = bottom
  BY <1>1, SMTT(30) DEF Levels
<1>4. /\ HonestIn(top) /\ HonestIn(bottom)
      /\ \A q \in Key \X Value : Num(top, q) = 0 /\ Num(bottom, q) = 0
  BY <1>2, FreshItems, Zenon
<1>5. /\ newBuckets = Nil /\ interimBuckets = Nil /\ pc = "idle"
      /\ result = [fn |-> "none"]
  BY Zenon DEF Init
<1>6. BagInv
  BY <1>3, <1>4, <1>5, NilItems, ZenonT(30) DEF BagInv, Aside, HonestTable
<1>7. \A q \in Key \X Value : Tot(q) = 0
  BY <1>3, <1>4, <1>5, NilItems DEF Tot, TableNum
<1>8. Items = [q \in Key \X Value |-> 0]
  BY <1>7, ItemsAre
<1> QED BY <1>5, <1>6, <1>8, Zenon DEF Store!Init, Store!Pair, Store!Nothing

\* Every step of every call is a step of the bag or invisible.
LEMMA NextBag ==
    ASSUME Laws
    PROVE  Inv /\ BagInv /\ [Next]_vars => BagInv' /\ [Store!Next]_(Store!vars)
<1> SUFFICES ASSUME Inv, BagInv, [Next]_vars
             PROVE  BagInv' /\ [Store!Next]_(Store!vars)
  BY Zenon
<1>1. CASE UNCHANGED vars
  <2>1. UNCHANGED <<buckets, newBuckets, interimBuckets, item, pc, result>>
    BY <1>1, Zenon DEF vars, table, rehash
  <2>2. BagInv'
    BY <2>1, AloneBag
  <2> QED BY <2>1, <2>2, TotSame, StepHidden, ZenonT(30)
<1>2. ASSUME NEW k \in Key, level_static_query(k) \/ level_dynamic_query(k) \/ level_delete(k)
      PROVE  BagInv' /\ [Store!Next]_(Store!vars)
  BY <1>2, QueryBag, DeleteBag, Zenon
<1>3. ASSUME NEW k \in Key, NEW v \in Value, level_update(k, v) \/ InsertCall(k, v)
      PROVE  BagInv' /\ [Store!Next]_(Store!vars)
  BY <1>3, UpdateBag, InsertCallBag, Zenon
<1>4. CASE ShrinkBegin
  BY <1>4, ShrinkBeginBag, ZenonT(30)
<1>5. CASE \E l \in Levels : InsertFree(l)
  BY <1>5, InsertFreeBag, Zenon
<1>6. CASE try_movement \/ b2t_movement
  BY <1>6, MovementBag, ZenonT(30)
<1>7. CASE Expand
  BY <1>7, ExpandBeginBag, ExpandItemBag, ExpandEndBag, ZenonT(30) DEF Expand
<1>8. CASE ShrinkItem \/ ShrinkEnd
  BY <1>8, ShrinkItemBag, ShrinkEndBag, Zenon
<1> QED BY <1>1, <1>2, <1>3, <1>4, <1>5, <1>6, <1>7, <1>8, ZenonT(30) DEF Next, Run

==============================================================================
