-------------------------- MODULE LevelHashTables --------------------------
(***************************************************************************)
(* The tables of level_hashing.c: the arrays keep their shape and every    *)
(* item stays in a bucket its key hashes to; and what writing, moving and  *)
(* clearing a slot does to the numbers of items and of filled slots.       *)
(*                                                                         *)
(* What the lemmas need of powers of two and of cardinalities is Laws,     *)
(* which LevelHashProofs proves from the theorems on finite sets.  It is a *)
(* hypothesis here, so that these modules do without those theorems.       *)
(***************************************************************************)
EXTENDS LevelHash, TLAPS

One(P) == IF P THEN 1 ELSE 0

\* pow(2, n + 1) is twice pow(2, n), and no power is 0.
Powers == \A n \in Nat : 2^n \in Nat /\ 2^n > 0 /\ 2^(n + 1) = 2^n + 2^n

\* What adding or dropping an element does to a cardinality, and how many slots
\* an array of m buckets of n slots has.
Cardinalities ==
    /\ Cardinality({}) = 0
    /\ \A S : IsFiniteSet(S) => Cardinality(S) \in Nat /\ (Cardinality(S) = 0 => S = {})
    /\ \A S, T : IsFiniteSet(S) /\ T \subseteq S => IsFiniteSet(T) /\ Cardinality(T) <= Cardinality(S)
    /\ \A S, T, p : IsFiniteSet(S) /\ T \ {p} = S \ {p} =>
          IsFiniteSet(T) /\ Cardinality(T) = Cardinality(S) + One(p \in T) - One(p \in S)
    /\ \A m, n \in Nat :
          /\ IsFiniteSet((0 .. m - 1) \X (0 .. n - 1))
          /\ Cardinality((0 .. m - 1) \X (0 .. n - 1)) = m * n

Laws == Powers /\ Cardinalities

------------------------------------------------------------------------------
(* Powers of two *)

\* The capacities of the two levels.
LEMMA PowDouble ==
    ASSUME Laws, NEW n \in Nat
    PROVE  2^n \in Nat /\ 2^(n + 1) = 2^n + 2^n
BY Zenon DEF Laws, Powers

\* A level has at least one bucket.
LEMMA PowPositive ==
    ASSUME Laws, NEW n \in Nat
    PROVE  2^n \in Nat /\ 2^n > 0
BY Zenon DEF Laws, Powers

\* Half the capacity of a level is the capacity of the level below it.
LEMMA PowHalf ==
    ASSUME Laws, NEW n \in Nat
    PROVE  2^(n + 1) \div 2 = 2^n
<1> DEFINE h == 2^n
<1>1. h \in Nat /\ 2^(n + 1) = h + h
  BY PowDouble
<1> HIDE DEF h
<1>2. (h + h) \div 2 = h
  BY <1>1, SMT
<1> QED BY <1>1, <1>2 DEF h

------------------------------------------------------------------------------
(* Writing one slot *)

\* A slot without an item of the caller: a cleared one, or one never written.
Unwritten == {Empty} \cup Junk

\* An item's entry is an entry; so is that of a slot without one, whose key is
\* no key of the caller.
LEMMA EntryType ==
    /\ \A k \in AnyKey, v \in Value \cup {NULL} : Entry(k, v) \in AnyEntry
    /\ Empty \in AnyEntry
    /\ Unwritten \subseteq AnyEntry
    /\ \A e \in Unwritten : e.key \notin Key
<1>1. (CHOOSE k \in JunkKeys : TRUE) \in JunkKeys
  BY HashAssumption
<1>2. \A k \in JunkKeys : k \in AnyKey /\ k \notin Key
  BY HashAssumption DEF AnyKey
<1>3. Empty \in AnyEntry /\ Empty.key \notin Key
  BY <1>1, <1>2 DEF Empty, AnyEntry
<1>4. ASSUME NEW e \in Junk PROVE e \in AnyEntry /\ e.key \notin Key
  <2>1. PICK t \in JunkTokens, k \in JunkKeys : e = [token |-> t, key |-> k, value |-> NULL]
    BY DEF Junk
  <2>2. t \in 0..255 /\ k \in AnyKey /\ k \notin Key
    BY <1>2, SizeAssumption
  <2> QED BY <2>1, <2>2 DEF AnyEntry
<1>5. \A k \in AnyKey, v \in Value \cup {NULL} : Entry(k, v) \in AnyEntry
  BY DEF Entry, AnyEntry
<1> QED BY <1>3, <1>4, <1>5 DEF Unwritten

\* An entry that is moved keeps its key and value, and becomes an item.
LEMMA MovedType ==
    ASSUME NEW e \in AnyEntry
    PROVE  Entry(e.key, e.value) \in AnyEntry /\ Entry(e.key, e.value).key = e.key
BY EntryType DEF Entry, AnyEntry

\* Writing a slot leaves an array of buckets an array of buckets.
LEMMA WriteType ==
    ASSUME NEW D, NEW B \in [D -> Bucket], NEW x, NEW i, NEW e \in AnyEntry
    PROVE  [B EXCEPT ![x][i] = e] \in [D -> Bucket]
BY Zenon DEF Bucket

\* Writing a slot keeps an array placed if the written entry, when it is an item,
\* is written to a bucket its key hashes to.
LEMMA WritePlaced ==
    ASSUME NEW D, NEW B \in [D -> Bucket], NEW capacity, NEW x, NEW i,
           NEW e \in AnyEntry,
           PlacedIn(B, capacity),
           e.token = 1 /\ e.key \in Key => x \in Locs(e.key, capacity)
    PROVE  PlacedIn([B EXCEPT ![x][i] = e], capacity)
<1> DEFINE C == [B EXCEPT ![x][i] = e]
<1>1. C \in [D -> Bucket]
  BY WriteType, Zenon
<1>2. SUFFICES ASSUME NEW y \in D, NEW j \in Slots, C[y][j].token = 1,
                      C[y][j].key \in Key
               PROVE  y \in Locs(C[y][j].key, capacity)
  BY <1>1 DEF PlacedIn, Filled
<1>3. CASE y = x /\ j = i
  <2>1. C[y][j] = e
    BY <1>2, <1>3 DEF Bucket
  <2> QED BY <1>2, <1>3, <2>1
<1>4. CASE ~(y = x /\ j = i)
  <2>1. C[y][j] = B[y][j]
    BY <1>2, <1>4 DEF Bucket
  <2>2. <<y, j>> \in Filled(B)
    BY <1>2, <2>1 DEF Filled
  <2> QED BY <1>2, <2>1, <2>2 DEF PlacedIn
<1> QED BY <1>3, <1>4

\* Memory from alignedmalloc is an array of slots that were never written.
LEMMA FreshIs ==
    ASSUME NEW n, NEW B \in Fresh(n)
    PROVE  B \in [0 .. n - 1 -> [Slots -> Unwritten]]
BY DEF Fresh, Unwritten

\* Memory from alignedmalloc is an array of buckets without items, junk aside.
LEMMA FreshType ==
    ASSUME NEW n \in Int, NEW B \in Fresh(n), NEW capacity
    PROVE  B \in [0 .. n - 1 -> Bucket] /\ PlacedIn(B, capacity)
<1>1. B \in [0 .. n - 1 -> [Slots -> Unwritten]]
  BY FreshIs, Zenon
<1>2. \A y \in DOMAIN B, j \in Slots : B[y][j] \in AnyEntry /\ B[y][j].key \notin Key
  BY <1>1, EntryType
<1>3. B \in [0 .. n - 1 -> Bucket]
  BY <1>1, EntryType DEF Bucket
<1>4. PlacedIn(B, capacity)
  BY <1>2 DEF PlacedIn, Filled
<1> QED BY <1>3, <1>4

------------------------------------------------------------------------------
(* The shape of the table *)

\* A counter stays a counter under the arithmetic of uint64_t and uint8_t.
LEMMA ModType ==
    /\ \A x \in Int : x % WORD \in 0 .. WORD - 1
    /\ \A x \in Int : x % 256 \in 0 .. 255
BY SizeAssumption, SMT

\* level_init builds a table of the declared shape.
LEMMA InitType ==
    ASSUME Laws
    PROVE  Init => TypeOK
<1> SUFFICES ASSUME Init PROVE TypeOK
  OBVIOUS
<1>1. PICK top \in Fresh(2^LEVEL_START), bottom \in Fresh(2^(LEVEL_START - 1)) :
          buckets = [l \in Levels |-> IF l = 0 THEN top ELSE bottom]
  BY DEF Init
<1>2. 2^LEVEL_START \in Nat /\ 2^(LEVEL_START - 1) \in Nat
  BY PowDouble, SizeAssumption
<1>3. /\ top \in [0 .. 2^LEVEL_START - 1 -> Bucket]
      /\ bottom \in [0 .. 2^(LEVEL_START - 1) - 1 -> Bucket]
  BY <1>2, FreshType, SMTT(30)
<1>4. TableType
  BY <1>1, <1>3, SizeAssumption DEF Levels, Init, TableType
<1>5. RehashType
  BY DEF Init, RehashType, Nil
<1>6. CounterType
  BY SizeAssumption DEF Init, CounterType
<1>7. ControlType
  BY DEF Init, ControlType
<1> QED BY <1>4, <1>5, <1>6, <1>7 DEF TypeOK

------------------------------------------------------------------------------
(* A table, as a value: its shape and the placement of its items *)

Shape(T, n) ==
    /\ T = [l \in Levels |-> T[l]]
    /\ T[0] \in [0 .. 2^n - 1 -> Bucket]
    /\ T[1] \in [0 .. 2^(n - 1) - 1 -> Bucket]

Good(T, n) == PlacedIn(T[0], 2^n) /\ PlacedIn(T[1], 2^n \div 2)

\* The entry may be written to bucket x of level l of a table of size n.
Fits(e, l, x, n) ==
    e.token = 1 /\ e.key \in Key => x \in Locs(e.key, 2^n \div (1 + l))

\* A cleared slot fits anywhere.
LEMMA EmptyFits ==
    Empty \in AnyEntry /\ \A l, x, n : Fits(Empty, l, x, n)
<1>1. Empty \in AnyEntry
  BY EntryType
<1>2. Empty.token # 1
  BY DEF Empty
<1> QED BY <1>1, <1>2, Zenon DEF Fits

\* Assigning to one slot of one level leaves the other level alone.
LEMMA SetLevel ==
    ASSUME NEW T, T = [m \in Levels |-> T[m]], NEW l \in Levels, NEW x, NEW i, NEW e
    PROVE  LET W == [T EXCEPT ![l][x][i] = e]
           IN  /\ W = [m \in Levels |-> W[m]]
               /\ W[l] = [T[l] EXCEPT ![x][i] = e]
               /\ \A m \in Levels : m # l => W[m] = T[m]
<1> DEFINE B == [T[l] EXCEPT ![x][i] = e]
           W == [T EXCEPT ![l][x][i] = e]
<1>1. W = [T EXCEPT ![l] = B]
  BY Zenon
<1>2. DOMAIN T = Levels
  BY Zenon
<1> HIDE DEF B
<1>3. W[l] = B /\ \A m \in Levels : m # l => W[m] = T[m]
  BY <1>1, <1>2, Zenon
<1>4. W = [m \in Levels |-> W[m]]
  BY <1>1, <1>2, Zenon
<1> QED BY <1>3, <1>4, Zenon DEF B

\* Writing one slot keeps the shape, and the placement if the entry fits there.
LEMMA WriteTable ==
    ASSUME Laws, NEW n \in Nat, NEW T, Shape(T, n),
           NEW l \in Levels, NEW x, NEW i, NEW e \in AnyEntry
    PROVE  LET W == [T EXCEPT ![l][x][i] = e]
           IN  Shape(W, n) /\ (Good(T, n) /\ Fits(e, l, x, n) => Good(W, n))
<1> DEFINE W == [T EXCEPT ![l][x][i] = e]
           D == [m \in Levels |-> IF m = 0 THEN 0 .. 2^n - 1 ELSE 0 .. 2^(n - 1) - 1]
           C == [m \in Levels |-> 2^n \div (1 + m)]
<1>1. /\ W = [m \in Levels |-> W[m]]
      /\ W[l] = [T[l] EXCEPT ![x][i] = e]
      /\ \A m \in Levels : m # l => W[m] = T[m]
  <2>1. T = [m \in Levels |-> T[m]]
    BY Zenon DEF Shape
  <2> QED BY <2>1, SetLevel, Zenon
<1>2. \A m \in Levels : T[m] \in [D[m] -> Bucket]
  BY DEF Shape, Levels
<1>3. C[0] = 2^n /\ C[1] = 2^n \div 2
  <2>1. 2^n \in Nat
    BY PowDouble
  <2> QED BY <2>1 DEF Levels
<1>4. Fits(e, l, x, n) <=> (e.token = 1 /\ e.key \in Key => x \in Locs(e.key, C[l]))
  BY DEF Fits
<1>5. /\ Shape(W, n) <=> /\ W = [m \in Levels |-> W[m]]
                         /\ W[0] \in [D[0] -> Bucket] /\ W[1] \in [D[1] -> Bucket]
      /\ Good(W, n) <=> PlacedIn(W[0], C[0]) /\ PlacedIn(W[1], C[1])
      /\ Good(T, n) <=> PlacedIn(T[0], C[0]) /\ PlacedIn(T[1], C[1])
  BY <1>3 DEF Shape, Good, Levels
<1> HIDE DEF W, D, C
<1>6. T[l] \in [D[l] -> Bucket]
  BY <1>2
<1>7. W[l] \in [D[l] -> Bucket]
  <2>1. [T[l] EXCEPT ![x][i] = e] \in [D[l] -> Bucket]
    BY <1>6, WriteType, Zenon
  <2> QED BY <1>1, <2>1
<1>8. \A m \in Levels : W[m] \in [D[m] -> Bucket]
  BY <1>1, <1>2, <1>7
<1>9. Shape(W, n)
  BY <1>1, <1>5, <1>8 DEF Levels
<1>10. ASSUME Good(T, n), Fits(e, l, x, n) PROVE Good(W, n)
  <2>1. \A m \in Levels : PlacedIn(T[m], C[m])
    BY <1>5, <1>10 DEF Levels
  <2>2. PlacedIn(T[l], C[l])
    BY <2>1
  <2>3. PlacedIn([T[l] EXCEPT ![x][i] = e], C[l])
    BY <1>4, <1>6, <1>10, <2>2, WritePlaced, Zenon
  <2>4. \A m \in Levels : PlacedIn(W[m], C[m])
    BY <1>1, <2>1, <2>3
  <2> QED BY <1>5, <2>4 DEF Levels
<1> QED BY <1>9, <1>10 DEF W

------------------------------------------------------------------------------
(* Counting slots: what writing one slot does to the number of slots that
   hold something *)

\* An array of buckets as alignedmalloc makes them.
Array(B) == \E n \in Nat : B \in [0 .. n - 1 -> Bucket]

\* The slot holds the item q = <<key, value>>.
Has(e, q) == e.token = 1 /\ e.key = q[1] /\ e.value = q[2]

Num(B, q) == Cardinality(Copies(B, q))

\* The laws of cardinalities, one by one.
LEMMA CardEmpty == ASSUME Laws PROVE Cardinality({}) = 0
BY Zenon DEF Laws, Cardinalities

\* A finite set has a number of elements, 0 if it is empty.
LEMMA CardFinite ==
    ASSUME Laws, NEW S, IsFiniteSet(S)
    PROVE  Cardinality(S) \in Nat /\ (Cardinality(S) = 0 <=> S = {})
BY Zenon DEF Laws, Cardinalities

\* A part of a finite set is finite and no larger.
LEMMA CardSubset ==
    ASSUME Laws, NEW S, IsFiniteSet(S), NEW T, T \subseteq S
    PROVE  IsFiniteSet(T) /\ Cardinality(T) <= Cardinality(S)
BY Zenon DEF Laws, Cardinalities

\* The slots of m buckets of n slots.
LEMMA CardProduct ==
    ASSUME Laws, NEW m \in Nat, NEW n \in Nat
    PROVE  /\ IsFiniteSet((0 .. m - 1) \X (0 .. n - 1))
           /\ Cardinality((0 .. m - 1) \X (0 .. n - 1)) = m * n
BY Zenon DEF Laws, Cardinalities

\* Two sets that differ in one element at most.
LEMMA CountOne ==
    ASSUME Laws, NEW S, IsFiniteSet(S), NEW T, NEW p, T \ {p} = S \ {p}
    PROVE  /\ IsFiniteSet(T) /\ Cardinality(T) \in Nat /\ Cardinality(S) \in Nat
           /\ Cardinality(T) = Cardinality(S) + One(p \in T) - One(p \in S)
<1>1. IsFiniteSet(T) /\ Cardinality(T) = Cardinality(S) + One(p \in T) - One(p \in S)
  BY Zenon DEF Laws, Cardinalities
<1> QED BY <1>1, CardFinite, Zenon

\* The slots of an array are finitely many.
LEMMA ArrayFinite ==
    ASSUME Laws, NEW B, Array(B)
    PROVE  /\ IsFiniteSet((DOMAIN B) \X Slots) /\ IsFiniteSet(Filled(B))
           /\ \A q : IsFiniteSet(Copies(B, q)) /\ Num(B, q) \in Nat
<1>1. PICK n \in Nat : B \in [0 .. n - 1 -> Bucket]
  BY Zenon DEF Array
<1>2. DOMAIN B = 0 .. n - 1 /\ ASSOC_NUM \in Nat
  BY <1>1, SizeAssumption
<1>4. IsFiniteSet((DOMAIN B) \X Slots)
  BY <1>2, CardProduct, Zenon DEF Slots
<1>5. Filled(B) \subseteq (DOMAIN B) \X Slots
  BY Zenon DEF Filled
<1>6. \A q : Copies(B, q) \subseteq (DOMAIN B) \X Slots
  BY <1>5, Zenon DEF Copies
<1> QED BY <1>4, <1>5, <1>6, CardSubset, CardFinite, Zenon DEF Num

\* The copies of an item in an array are a number of them.
LEMMA NumType ==
    ASSUME Laws, NEW B, Array(B), NEW q
    PROVE  Num(B, q) \in Nat
BY ArrayFinite, Zenon

\* C is the array B with the entry e written to slot i of bucket x.
Written(B, x, i, e, C) ==
    /\ x \in DOMAIN B /\ i \in Slots
    /\ DOMAIN C = DOMAIN B /\ C[x][i] = e
    /\ \A y \in DOMAIN B, j \in Slots : y # x \/ j # i => C[y][j] = B[y][j]

\* An assignment to one slot writes that slot only.
LEMMA WriteSlot ==
    ASSUME NEW B, Array(B), NEW x \in DOMAIN B, NEW i \in Slots, NEW e \in AnyEntry
    PROVE  LET C == [B EXCEPT ![x][i] = e] IN Array(C) /\ Written(B, x, i, e, C)
<1> DEFINE C == [B EXCEPT ![x][i] = e]
<1>1. PICK n \in Nat : B \in [0 .. n - 1 -> Bucket]
  BY Zenon DEF Array
<1>2. C \in [0 .. n - 1 -> Bucket]
  BY <1>1, WriteType, Zenon
<1>3. Array(C) /\ DOMAIN C = DOMAIN B
  BY <1>1, <1>2, Zenon DEF Array
<1>4. B[x] \in [Slots -> AnyEntry]
  BY <1>1, Zenon DEF Bucket
<1>5. C[x][i] = e
  BY <1>1, <1>4
<1>6. ASSUME NEW y \in DOMAIN B, NEW j \in Slots, y # x \/ j # i
      PROVE  C[y][j] = B[y][j]
  BY <1>1, <1>4, <1>6
<1> HIDE DEF C
<1>7. Array(C) /\ Written(B, x, i, e, C)
  BY <1>3, <1>5, <1>6 DEF Written
<1> QED BY <1>7 DEF C

\* The copies of an item in an array of which one slot is written.
LEMMA NumWrite ==
    ASSUME Laws, NEW B, Array(B), NEW x, NEW i, NEW e, NEW C, Written(B, x, i, e, C), NEW q
    PROVE  Num(C, q) = Num(B, q) + One(Has(e, q)) - One(Has(B[x][i], q))
<1>1. /\ x \in DOMAIN B /\ i \in Slots
      /\ DOMAIN C = DOMAIN B /\ C[x][i] = e
      /\ \A y \in DOMAIN B, j \in Slots : y # x \/ j # i => C[y][j] = B[y][j]
  BY Zenon DEF Written
<1> DEFINE S == Copies(B, q)
           T == Copies(C, q)
           p == <<x, i>>
<1>2. /\ p \in S <=> Has(B[x][i], q)
      /\ p \in T <=> Has(e, q)
  BY <1>1 DEF Copies, Filled, Has
<1>3. T \ {p} = S \ {p}
  BY <1>1, SMTT(30) DEF Copies, Filled
<1>4. IsFiniteSet(S)
  BY ArrayFinite, Zenon
<1> HIDE DEF S, T, p
<1>5. Cardinality(T) = Cardinality(S) + One(p \in T) - One(p \in S)
  BY <1>3, <1>4, CountOne, Zenon
<1>6. One(p \in T) = One(Has(e, q)) /\ One(p \in S) = One(Has(B[x][i], q))
  BY <1>2, Zenon DEF One
<1> QED BY <1>5, <1>6, Zenon DEF S, T, Num

\* The filled slots of an array of which one slot is written.
LEMMA FilledWrite ==
    ASSUME Laws, NEW B, Array(B), NEW x, NEW i, NEW e, NEW C, Written(B, x, i, e, C)
    PROVE  /\ Cardinality(Filled(B)) \in Nat /\ Cardinality(Filled(C)) \in Nat
           /\ Cardinality(Filled(C))
                 = Cardinality(Filled(B)) + One(e.token = 1) - One(B[x][i].token = 1)
<1>1. /\ x \in DOMAIN B /\ i \in Slots
      /\ DOMAIN C = DOMAIN B /\ C[x][i] = e
      /\ \A y \in DOMAIN B, j \in Slots : y # x \/ j # i => C[y][j] = B[y][j]
  BY Zenon DEF Written
<1> DEFINE S == Filled(B)
           T == Filled(C)
           p == <<x, i>>
<1>2. /\ p \in S <=> B[x][i].token = 1
      /\ p \in T <=> e.token = 1
  BY <1>1 DEF Filled
<1>3. T \ {p} = S \ {p}
  BY <1>1, SMTT(30) DEF Filled
<1>4. IsFiniteSet(S)
  BY ArrayFinite, Zenon
<1> HIDE DEF S, T, p
<1>5. /\ Cardinality(T) \in Nat /\ Cardinality(S) \in Nat
      /\ Cardinality(T) = Cardinality(S) + One(p \in T) - One(p \in S)
  BY <1>3, <1>4, CountOne, Zenon
<1>6. One(p \in T) = One(e.token = 1) /\ One(p \in S) = One(B[x][i].token = 1)
  BY <1>2, Zenon DEF One
<1> QED BY <1>5, <1>6, Zenon DEF S, T

\* The two levels of a table are arrays of at least two buckets.
LEMMA ShapeArrays ==
    ASSUME Laws, NEW n \in Nat, n >= 2, NEW T, Shape(T, n), NEW l \in Levels
    PROVE  Array(T[l])
<1>1. 2^n \in Nat /\ 2^(n - 1) \in Nat
  BY PowPositive, SMT
<1>2. CASE l = 0
  BY <1>1, <1>2 DEF Shape, Array
<1>3. CASE l = 1
  BY <1>1, <1>3 DEF Shape, Array
<1> QED BY <1>2, <1>3 DEF Levels

\* The copies of an item in the two levels.
TableNum(T, q) == Num(T[0], q) + Num(T[1], q)

\* ... and so they are in a table.
LEMMA TableNumType ==
    ASSUME Laws, NEW n \in Nat, n >= 2, NEW T, Shape(T, n), NEW q
    PROVE  TableNum(T, q) \in Nat
<1>1. Array(T[0]) /\ Array(T[1])
  BY ShapeArrays, Zenon DEF Levels
<1>2. Num(T[0], q) \in Nat /\ Num(T[1], q) \in Nat
  BY <1>1, NumType
<1> QED BY <1>2 DEF TableNum

\* W is the table T of size n with e written to slot i of bucket x of level l.
Put(T, n, l, x, i, e, W) ==
    /\ n \in Nat /\ n >= 2 /\ Shape(T, n)
    /\ l \in Levels /\ x \in DOMAIN T[l] /\ i \in Slots /\ e \in AnyEntry
    /\ W = [T EXCEPT ![l][x][i] = e]

\* What writing a slot of the table does: it changes that slot only, and the copies
\* of an item by what is written and what is overwritten.
Wrote(T, n, l, x, i, e, W) ==
    /\ Shape(W, n) /\ Written(T[l], x, i, e, W[l])
    /\ \A m \in Levels : m # l => W[m] = T[m]
    /\ \A q : TableNum(W, q) = TableNum(T, q) + One(Has(e, q)) - One(Has(T[l][x][i], q))

\* Writing a slot of the table does what Wrote says.
LEMMA TableWrite ==
    ASSUME Laws, NEW T, NEW n, NEW l, NEW x, NEW i, NEW e, NEW W, Put(T, n, l, x, i, e, W)
    PROVE  Wrote(T, n, l, x, i, e, W)
<1>1. /\ n \in Nat /\ n >= 2 /\ Shape(T, n)
      /\ l \in Levels /\ x \in DOMAIN T[l] /\ i \in Slots /\ e \in AnyEntry
      /\ W = [T EXCEPT ![l][x][i] = e]
  BY Zenon DEF Put
<1>2. Shape(W, n)
  BY <1>1, WriteTable, Zenon
<1>3. /\ W[l] = [T[l] EXCEPT ![x][i] = e]
      /\ \A m \in Levels : m # l => W[m] = T[m]
  <2>1. T = [m \in Levels |-> T[m]]
    BY <1>1, Zenon DEF Shape
  <2> QED BY <1>1, <2>1, SetLevel, Zenon
<1>4. Array(T[0]) /\ Array(T[1]) /\ Array(T[l])
  BY <1>1, ShapeArrays, Zenon DEF Levels
<1>5. Written(T[l], x, i, e, W[l])
  <2>1. Written(T[l], x, i, e, [T[l] EXCEPT ![x][i] = e])
    BY <1>1, <1>4, WriteSlot, Zenon
  <2> QED BY <1>3, <2>1, Zenon
<1>6. ASSUME NEW q
      PROVE  TableNum(W, q) = TableNum(T, q) + One(Has(e, q)) - One(Has(T[l][x][i], q))
  <2>1. Num(W[l], q) = Num(T[l], q) + One(Has(e, q)) - One(Has(T[l][x][i], q))
    BY <1>4, <1>5, NumWrite
  <2>2. Num(T[0], q) \in Nat /\ Num(T[1], q) \in Nat
    BY <1>4, NumType, Zenon
  <2>3. One(Has(e, q)) \in Int /\ One(Has(T[l][x][i], q)) \in Int
    BY DEF One
  <2>4. CASE l = 0
    <3>1. W[1] = T[1]
      BY <1>3, <2>4 DEF Levels
    <3> QED BY <2>1, <2>2, <2>3, <2>4, <3>1 DEF TableNum
  <2>5. CASE l = 1
    <3>1. W[0] = T[0]
      BY <1>3, <2>5 DEF Levels
    <3> QED BY <2>1, <2>2, <2>3, <2>5, <3>1 DEF TableNum
  <2> QED BY <1>1, <2>4, <2>5 DEF Levels
<1> QED BY <1>2, <1>3, <1>5, <1>6, Zenon DEF Wrote

------------------------------------------------------------------------------
(* The table as a bag of items *)

\* A slot that holds the key of an item is filled and holds a value: the slots
\* that were cleared or never written hold none of the keys.
Honest(e) == e.key \in Key => e.token = 1 /\ e.value \in Value

HonestIn(B) == \A x \in DOMAIN B, i \in Slots : Honest(B[x][i])

\* Writing an honest entry keeps an array honest.
LEMMA HonestWrite ==
    ASSUME NEW B, HonestIn(B), NEW x, NEW i, NEW e, Honest(e), NEW C, Written(B, x, i, e, C)
    PROVE  HonestIn(C)
BY DEF HonestIn, Written

\* A cleared slot holds no item.
LEMMA EmptyHas == Honest(Empty) /\ \A q : ~Has(Empty, q)
<1>1. Empty.key \notin Key
  BY EntryType, Zenon DEF Unwritten
<1>2. Empty.token # 1
  BY DEF Empty
<1> QED BY <1>1, <1>2, Zenon DEF Honest, Has

\* The entry of an item holds that item and no other.
LEMMA EntryHas ==
    ASSUME NEW k, NEW v, NEW q \in Key \X Value
    PROVE  Has(Entry(k, v), q) <=> q = <<k, v>>
BY DEF Has, Entry

\* Memory from alignedmalloc holds no item of the caller.
LEMMA FreshItems ==
    ASSUME Laws, NEW n \in Nat, NEW B \in Fresh(n)
    PROVE  Array(B) /\ HonestIn(B) /\ \A q \in Key \X Value : Num(B, q) = 0
<1>1. B \in [0 .. n - 1 -> Bucket]
  BY FreshType
<1>6. \A y \in DOMAIN B, j \in Slots : B[y][j].key \notin Key
  <2>1. B \in [0 .. n - 1 -> [Slots -> Unwritten]]
    BY FreshIs, Zenon
  <2> QED BY <2>1, EntryType
<1>7. HonestIn(B)
  BY <1>6 DEF HonestIn, Honest
<1>8. ASSUME NEW q \in Key \X Value PROVE Num(B, q) = 0
  <2>1. q[1] \in Key
    OBVIOUS
  <2>2. Copies(B, q) = {}
    BY <1>6, <2>1 DEF Copies, Filled
  <2> QED BY <2>2, CardEmpty, Zenon DEF Num
<1>9. Array(B)
  BY <1>1, Zenon DEF Array
<1> QED BY <1>7, <1>8, <1>9

\* An array that is not there holds nothing.
LEMMA NilItems ==
    ASSUME Laws
    PROVE  Array(Nil) /\ HonestIn(Nil) /\ \A q : Num(Nil, q) = 0
<1>1. DOMAIN Nil = {} /\ 0 .. 0 - 1 = {}
  BY SMT DEF Nil
<1>2. Nil \in [{} -> Bucket]
  BY SMT DEF Nil
<1>3. Array(Nil)
  BY <1>1, <1>2 DEF Array
<1>4. HonestIn(Nil)
  BY <1>1, Zenon DEF HonestIn
<1>5. \A q : Copies(Nil, q) = {}
  BY <1>1 DEF Copies, Filled
<1> QED BY <1>3, <1>4, <1>5, CardEmpty, Zenon DEF Num

HonestTable(T) == HonestIn(T[0]) /\ HonestIn(T[1])

\* ... and so it keeps a table.
LEMMA HonestWriteTable ==
    ASSUME NEW T, HonestTable(T), NEW l \in Levels, NEW W,
           \A m \in Levels : m # l => W[m] = T[m],
           NEW x, NEW i, NEW e, Honest(e), Written(T[l], x, i, e, W[l])
    PROVE  HonestTable(W)
<1>1. \A m \in Levels : HonestIn(T[m])
  BY DEF HonestTable, Levels
<1>2. HonestIn(W[l])
  BY <1>1, HonestWrite, Zenon
<1>3. \A m \in Levels : HonestIn(W[m])
  BY <1>1, <1>2, Zenon
<1> QED BY <1>3 DEF HonestTable, Levels

\* The honest table W holds what the table T holds and what the entry e holds.
Gains(T, e, W) ==
    /\ HonestTable(W)
    /\ \A q \in Key \X Value : TableNum(W, q) = TableNum(T, q) + One(Has(e, q))

\* Writing an honest entry to a free slot of the table adds what it holds.
LEMMA PutTable ==
    ASSUME Laws, NEW T, NEW n, NEW l, NEW x, NEW i, NEW e, NEW W, Put(T, n, l, x, i, e, W),
           HonestTable(T), Honest(e), T[l][x][i].token = 0
    PROVE  Gains(T, e, W)
<1>1. Wrote(T, n, l, x, i, e, W)
  BY TableWrite, Zenon
<1>2. l \in Levels /\ n \in Nat /\ n >= 2 /\ Shape(T, n)
  BY Zenon DEF Put
<1>3. HonestTable(W)
  BY <1>1, <1>2, HonestWriteTable, Zenon DEF Wrote
<1>4. ASSUME NEW q \in Key \X Value PROVE TableNum(W, q) = TableNum(T, q) + One(Has(e, q))
  <2>1. One(Has(T[l][x][i], q)) = 0 /\ One(Has(e, q)) \in Int
    BY DEF One, Has
  <2>2. TableNum(T, q) \in Nat
    BY <1>2, TableNumType, Zenon
  <2>3. TableNum(W, q) = TableNum(T, q) + One(Has(e, q)) - One(Has(T[l][x][i], q))
    BY <1>1, Zenon DEF Wrote
  <2> QED BY <2>1, <2>2, <2>3
<1> QED BY <1>3, <1>4, Zenon DEF Gains

\* W is the table T of size n with one of its entries moved to a free slot of level
\* l and e put in its place.
Moved(T, n, l, e, W) ==
    \E x, i, m, y, j, c, U :
        /\ Put(T, n, l, x, i, Entry(c.key, c.value), U) /\ T[l][x][i].token = 0
        /\ Put(U, n, m, y, j, e, W)
        /\ y \in DOMAIN T[m] /\ T[m][y][j] = c /\ U[m][y][j] = c
        /\ c \in AnyEntry /\ c.token # 0

\* Copying an entry to a free slot and then overwriting it where it was moves it.
LEMMA MovedBy ==
    ASSUME Laws, NEW T, NEW n, NEW l, NEW x, NEW i, NEW m, NEW y, NEW j, NEW c, NEW e,
           NEW U, NEW W, Put(T, n, l, x, i, Entry(c.key, c.value), U), T[l][x][i].token = 0,
           m \in Levels, y \in DOMAIN T[m], j \in Slots, T[m][y][j] = c,
           c \in AnyEntry, c.token # 0, e \in AnyEntry, W = [U EXCEPT ![m][y][j] = e]
    PROVE  Moved(T, n, l, e, W)
<1> DEFINE d == Entry(c.key, c.value)
<1> HIDE DEF d
<1>1. Put(T, n, l, x, i, d, U)
  BY Zenon DEF d
<1>2. Wrote(T, n, l, x, i, d, U)
  BY <1>1, TableWrite, Zenon
<1>3. y \in DOMAIN U[m] /\ U[m][y][j] = c
  <2>1. CASE m = l
    <3>1. y # x \/ j # i
      BY <2>1
    <3>2. Written(T[l], x, i, d, U[l])
      BY <1>2, Zenon DEF Wrote
    <3> QED BY <2>1, <3>1, <3>2, Zenon DEF Written
  <2>2. CASE m # l
    BY <1>2, <2>2, Zenon DEF Wrote
  <2> QED BY <2>1, <2>2, Zenon
<1>4. Put(U, n, m, y, j, e, W)
  BY <1>1, <1>2, <1>3, Zenon DEF Put, Wrote
<1> QED BY <1>3, <1>4 DEF Moved

\* The table gains the overwriting entry only.
LEMMA MoveTable ==
    ASSUME Laws, NEW T, NEW n, NEW l, NEW e, NEW W, Moved(T, n, l, e, W),
           HonestTable(T), Honest(e)
    PROVE  Gains(T, e, W)
<1>1. PICK x, i, m, y, j, c, U :
         /\ Put(T, n, l, x, i, Entry(c.key, c.value), U) /\ T[l][x][i].token = 0
         /\ Put(U, n, m, y, j, e, W)
         /\ y \in DOMAIN T[m] /\ T[m][y][j] = c /\ U[m][y][j] = c
         /\ c \in AnyEntry /\ c.token # 0
  BY Zenon DEF Moved
<1>2. /\ m \in Levels /\ j \in Slots
      /\ n \in Nat /\ n >= 2 /\ Shape(T, n)
  BY <1>1, Zenon DEF Put
<1>3. Honest(c)
  BY <1>1, <1>2, Zenon DEF HonestTable, HonestIn, Levels
<1> DEFINE d == Entry(c.key, c.value)
<1>4. Honest(d) /\ \A q \in Key \X Value : Has(d, q) <=> Has(c, q)
  BY <1>1, <1>3, EntryHas DEF Honest, Has, Entry
<1>5. Put(T, n, l, x, i, d, U)
  BY <1>1, Zenon
<1> HIDE DEF d
<1>6. Gains(T, d, U)
  BY <1>1, <1>4, <1>5, PutTable, Zenon
<1>7. Wrote(U, n, m, y, j, e, W)
  BY <1>1, TableWrite, Zenon
<1>8. HonestTable(W)
  BY <1>2, <1>6, <1>7, HonestWriteTable, Zenon DEF Gains, Wrote
<1>9. ASSUME NEW q \in Key \X Value PROVE TableNum(W, q) = TableNum(T, q) + One(Has(e, q))
  <2>1. One(Has(d, q)) = One(Has(c, q)) /\ One(Has(e, q)) \in Int /\ One(Has(c, q)) \in Int
    BY <1>4 DEF One
  <2>2. TableNum(T, q) \in Nat
    BY <1>2, TableNumType, Zenon
  <2>3. TableNum(W, q) = TableNum(U, q) + One(Has(e, q)) - One(Has(c, q))
    BY <1>1, <1>7, Zenon DEF Wrote
  <2>4. TableNum(U, q) = TableNum(T, q) + One(Has(d, q))
    BY <1>6, Zenon DEF Gains
  <2> QED BY <2>1, <2>2, <2>3, <2>4
<1> QED BY <1>8, <1>9, Zenon DEF Gains

\* An array without filled slots holds no item.
LEMMA NoneFilled ==
    ASSUME Laws, NEW B, Filled(B) = {}
    PROVE  \A q : Num(B, q) = 0
<1>1. \A q : Copies(B, q) = {}
  BY DEF Copies
<1> QED BY <1>1, CardEmpty, Zenon DEF Num

\* An array holds an item when some slot does.
LEMMA NumPositive ==
    ASSUME Laws, NEW B, Array(B), NEW q
    PROVE  Num(B, q) # 0 <=> \E p \in Filled(B) : /\ B[p[1]][p[2]].key = q[1]
                                                  /\ B[p[1]][p[2]].value = q[2]
<1>1. IsFiniteSet(Copies(B, q))
  BY ArrayFinite, Zenon
<1>2. Num(B, q) = 0 <=> Copies(B, q) = {}
  BY <1>1, CardFinite, Zenon DEF Num
<1> QED BY <1>2, Zenon DEF Copies

------------------------------------------------------------------------------
(* The item counters.  They count tokens, so junk in uninitialised memory puts
   them wrong, and they wrap at WORD: the counters are exact where memory comes
   cleared and a level has fewer slots than WORD. *)

Clean ==
    /\ JunkTokens = {}
    /\ \A n \in 0 .. LEVEL_START + MaxLevel :
          n <= LEVEL_START \/ n <= MaxLevel => 2^n * ASSOC_NUM < WORD

Count(B) == Cardinality(Filled(B))

\* No slot holds a token but 0 and 1.
Binary(B) == \A x \in DOMAIN B, i \in Slots : B[x][i].token \in {0, 1}

\* The table may have the size n.
MayBe(n) == n \in Nat /\ (n <= LEVEL_START \/ n <= MaxLevel)

\* The items of a level can be counted.
LEMMA CountFits ==
    ASSUME Laws, Clean, NEW n, MayBe(n), NEW B \in [0 .. 2^n - 1 -> Bucket]
    PROVE  Count(B) \in 0 .. WORD - 1
<1>1. n \in Nat /\ 2^n \in Nat
  BY PowPositive DEF MayBe
<1>2. DOMAIN B = 0 .. 2^n - 1 /\ ASSOC_NUM \in Nat
  BY SizeAssumption
<1>4. /\ IsFiniteSet((DOMAIN B) \X Slots)
      /\ Cardinality((DOMAIN B) \X Slots) = 2^n * ASSOC_NUM
  BY <1>1, <1>2, CardProduct, Zenon DEF Slots
<1>5. Filled(B) \subseteq (DOMAIN B) \X Slots
  BY Zenon DEF Filled
<1>6. /\ IsFiniteSet(Filled(B))
      /\ Cardinality(Filled(B)) <= Cardinality((DOMAIN B) \X Slots)
  BY <1>4, <1>5, CardSubset, Zenon
<1>7. Count(B) \in Nat
  BY <1>6, CardFinite, Zenon DEF Count
<1>8. Count(B) <= 2^n * ASSOC_NUM
  BY <1>4, <1>6, Zenon DEF Count
<1>9. n \in 0 .. LEVEL_START + MaxLevel /\ (n <= LEVEL_START \/ n <= MaxLevel)
  BY SizeAssumption DEF MayBe
<1>10. 2^n * ASSOC_NUM < WORD
  BY <1>9, Zenon DEF Clean
<1> DEFINE t == 2^n * ASSOC_NUM
<1>11. t \in Nat /\ t < WORD /\ Count(B) <= t
  BY <1>1, <1>8, <1>10, SizeAssumption, SMT
<1> HIDE DEF t
<1> QED BY <1>7, <1>11, SizeAssumption, SMT

\* A counter that has not wrapped.
LEMMA ModSame ==
    ASSUME NEW x \in 0 .. WORD - 1
    PROVE  x % WORD = x
BY SizeAssumption, SMT

\* The level l of the table W has d more filled slots than that of the table T, the
\* other level as many, and none of these numbers wraps.
Counts(T, l, d, W) ==
    /\ Binary(W[0]) /\ Binary(W[1])
    /\ Count(W[l]) = Count(T[l]) + d
    /\ \A m \in Levels : m # l => Count(W[m]) = Count(T[m])
    /\ \A m \in Levels : Count(T[m]) \in 0 .. WORD - 1 /\ Count(W[m]) \in 0 .. WORD - 1

\* Writing one slot of the table.
LEMMA CountPut ==
    ASSUME Laws, Clean, NEW T, NEW n, NEW l, NEW x, NEW i, NEW e, NEW W,
           Put(T, n, l, x, i, e, W), MayBe(n), Binary(T[0]), Binary(T[1]), e.token \in {0, 1},
           NEW d \in Int, One(e.token = 1) - One(T[l][x][i].token = 1) = d
    PROVE  Counts(T, l, d, W)
<1>1. n \in Nat /\ n >= 2 /\ Shape(T, n) /\ l \in Levels
  BY Zenon DEF Put
<1>2. Wrote(T, n, l, x, i, e, W)
  BY TableWrite, Zenon
<1>3. /\ Shape(W, n) /\ Written(T[l], x, i, e, W[l])
      /\ \A m \in Levels : m # l => W[m] = T[m]
  BY <1>2, Zenon DEF Wrote
<1>4. Array(T[l])
  BY <1>1, ShapeArrays, Zenon
<1>5. Count(W[l]) = Count(T[l]) + d
  <2>1. /\ Count(T[l]) \in Nat
        /\ Count(W[l]) = Count(T[l]) + One(e.token = 1) - One(T[l][x][i].token = 1)
    BY <1>3, <1>4, FilledWrite DEF Count
  <2>2. One(e.token = 1) \in Int /\ One(T[l][x][i].token = 1) \in Int
    BY DEF One
  <2> QED BY <2>1, <2>2, ZenonT(30)
<1>6. \A m \in Levels : Binary(T[m])
  BY Zenon DEF Levels
<1>7. Binary(W[l])
  <2>1. Binary(T[l])
    BY <1>1, <1>6, Zenon
  <2> QED BY <1>3, <2>1 DEF Binary, Written
<1>8. \A m \in Levels : Binary(W[m])
  BY <1>3, <1>6, <1>7, Zenon
<1>9. MayBe(n - 1)
  BY <1>1, SizeAssumption DEF MayBe
<1>10. ASSUME NEW S, Shape(S, n), NEW m \in Levels PROVE Count(S[m]) \in 0 .. WORD - 1
  <2>1. Count(S[0]) \in 0 .. WORD - 1
    BY <1>10, CountFits, Zenon DEF Shape
  <2>2. Count(S[1]) \in 0 .. WORD - 1
    BY <1>9, <1>10, CountFits, Zenon DEF Shape
  <2> QED BY <1>10, <2>1, <2>2 DEF Levels
<1>11. Binary(W[0]) /\ Binary(W[1])
  BY <1>8, Zenon DEF Levels
<1>12. \A m \in Levels : Count(T[m]) \in 0 .. WORD - 1 /\ Count(W[m]) \in 0 .. WORD - 1
  BY <1>1, <1>3, <1>10, Zenon
<1> QED BY <1>3, <1>5, <1>11, <1>12, Zenon DEF Counts

\* Moving an entry and putting another in its place counts one more in the level
\* it moved to.
LEMMA CountMove ==
    ASSUME Laws, Clean, NEW T, NEW n, NEW l, NEW e, NEW W, Moved(T, n, l, e, W),
           MayBe(n), Binary(T[0]), Binary(T[1]), e.token = 1
    PROVE  Counts(T, l, 1, W)
<1>1. PICK x, i, m, y, j, c, U :
         /\ Put(T, n, l, x, i, Entry(c.key, c.value), U) /\ T[l][x][i].token = 0
         /\ Put(U, n, m, y, j, e, W)
         /\ y \in DOMAIN T[m] /\ T[m][y][j] = c /\ U[m][y][j] = c
         /\ c \in AnyEntry /\ c.token # 0
  BY Zenon DEF Moved
<1>2. l \in Levels /\ m \in Levels /\ j \in Slots
  BY <1>1, Zenon DEF Put
<1> DEFINE d == Entry(c.key, c.value)
<1>3. d.token = 1 /\ d.token \in {0, 1} /\ e.token \in {0, 1}
  BY DEF Entry
<1>4. Put(T, n, l, x, i, d, U)
  BY <1>1, ZenonT(30)
<1> HIDE DEF d
<1>5. U[m][y][j].token = 1
  BY <1>1, <1>2 DEF Binary, Levels
<1>6. One(d.token = 1) - One(T[l][x][i].token = 1) = 1
  BY <1>1, <1>3 DEF One
<1>7. One(e.token = 1) - One(U[m][y][j].token = 1) = 0
  BY <1>5 DEF One
<1>8. 0 \in Int /\ 1 \in Int
  OBVIOUS
<1>9. Counts(T, l, 1, U)
  BY <1>3, <1>4, <1>6, <1>8, CountPut
<1>10. Binary(U[0]) /\ Binary(U[1])
  BY <1>9, ZenonT(30) DEF Counts
<1>11. Counts(U, m, 0, W)
  BY <1>1, <1>3, <1>7, <1>8, <1>10, CountPut
<1>12. Count(W[m]) = Count(U[m])
  BY <1>2, <1>11 DEF Counts
<1>13. \A k \in Levels : Count(W[k]) = Count(U[k])
  BY <1>11, <1>12, Zenon DEF Counts
<1>14. \A k \in Levels : Count(T[k]) \in 0 .. WORD - 1 /\ Count(W[k]) \in 0 .. WORD - 1
  BY <1>9, <1>11, Zenon DEF Counts
<1>15. Count(W[l]) = Count(T[l]) + 1
  BY <1>2, <1>9, <1>13, Zenon DEF Counts
<1>16. \A k \in Levels : k # l => Count(W[k]) = Count(T[k])
  BY <1>9, <1>13, Zenon DEF Counts
<1>17. Binary(W[0]) /\ Binary(W[1])
  BY <1>11, Zenon DEF Counts
<1> QED BY <1>14, <1>15, <1>16, <1>17, Zenon DEF Counts

\* Memory that comes cleared has nothing to count.
LEMMA FreshCount ==
    ASSUME Laws, Clean, NEW n \in Nat, NEW B \in Fresh(n)
    PROVE  Binary(B) /\ Count(B) = 0
<1>1. B \in [0 .. n - 1 -> [Slots -> Unwritten]]
  BY FreshIs, Zenon
<1>2. Unwritten = {Empty} /\ Empty.token = 0
  BY DEF Clean, Unwritten, Junk, Empty
<1>3. \A x \in DOMAIN B, i \in Slots : B[x][i].token = 0
  BY <1>1, <1>2
<1>4. Binary(B)
  BY <1>3 DEF Binary
<1>5. Filled(B) = {}
  BY <1>3 DEF Filled
<1> QED BY <1>4, <1>5, CardEmpty, Zenon DEF Count

\* A level that has been freed or not been allocated has no filled slot.
LEMMA NilCount ==
    ASSUME Laws
    PROVE  Binary(Nil) /\ Count(Nil) = 0
<1>1. DOMAIN Nil = {}
  BY SMT DEF Nil
<1>2. Filled(Nil) = {}
  BY <1>1 DEF Filled
<1> QED BY <1>1, <1>2, CardEmpty, Zenon DEF Binary, Count

------------------------------------------------------------------------------
(* The inductive invariant: Placed needs to know how addr_capacity, which the
   hash locations are computed from, relates to the size of the arrays, and
   that relation is in TypeOK. *)

Inv == TypeOK /\ Placed

\* The invariant, in terms of the table as a value.
LEMMA InvTable ==
    Inv <=> /\ level_size \in Nat /\ level_size >= MinLevel
            /\ Shape(buckets, level_size) /\ Good(buckets, level_size)
            /\ PlacedIn(newBuckets, 2^(level_size + 1))
            /\ RehashType /\ CounterType /\ ControlType
BY Zenon DEF Inv, TypeOK, TableType, Placed, Shape, Good

\* Outside level_expand the locations are those of the table's own capacity.
LEMMA CapacityIs ==
    ASSUME Inv, pc \in {"idle", "insert", "shrink"}, NEW l \in Levels
    PROVE  Capacity(l) = 2^level_size \div (1 + l)
BY DEF Inv, TypeOK, RehashType, ControlType, Capacity

\* The two locations of a key are where it may be.
LEMMA LocIn ==
    ASSUME NEW k, NEW s \in {0, 1}, NEW c
    PROVE  Loc(k, s, c) \in Locs(k, c)
BY DEF Locs

\* Returning from level_insert keeps the rest of the state in shape, also when it
\* returns to level_shrink, which clears a slot of the level set aside.
LEMMA InsertedKeeps ==
    ASSUME Inv, pc = "insert", Inserted
    PROVE  /\ RehashType' /\ ControlType'
           /\ UNCHANGED <<level_size, newBuckets, new_level_item_num, level_expand_time>>
<1> USE DEF Inv, TypeOK
<1>1. UNCHANGED <<addr_capacity, level_size, level_expand_time, resize_state,
                  newBuckets, new_level_item_num>>
  BY DEF Inserted
<1>2. interimBuckets' \in [DOMAIN interimBuckets' -> Bucket]
  <2>1. CASE UNCHANGED interimBuckets
    BY <2>1 DEF RehashType
  <2>2. CASE \E p \in Filled(interimBuckets) :
               interimBuckets' = [interimBuckets EXCEPT ![p[1]][p[2]] = Empty]
    <3>1. PICK p \in Filled(interimBuckets) :
               interimBuckets' = [interimBuckets EXCEPT ![p[1]][p[2]] = Empty]
      BY <2>2, Zenon
    <3>2. interimBuckets' \in [DOMAIN interimBuckets -> Bucket]
      BY <3>1, WriteType, EntryType, ZenonT(30) DEF RehashType
    <3> QED BY <3>2
  <2> QED BY <2>1, <2>2, Zenon DEF Inserted
<1>3. pc' \in {"idle", "shrink"}
  BY DEF Inserted, Return
<1>4. RehashType'
  BY <1>1, <1>2 DEF RehashType
<1>5. ControlType'
  BY <1>1, <1>3 DEF ControlType
<1> QED BY <1>1, <1>4, <1>5

\* The new item's entry, and the place of a key that is in the item's buckets.
LEMMA NewEntryType ==
    ASSUME Inv, pc = "insert"
    PROVE  /\ item.key \in AnyKey
           /\ NewEntry \in AnyEntry /\ NewEntry.key = item.key
BY EntryType, Zenon DEF Inv, TypeOK, ControlType, NewEntry, Entry

\* level_insert into a free slot.
LEMMA InsertFreeInv ==
    ASSUME Laws, Inv, NEW l \in Levels, InsertFree(l)
    PROVE  Inv'
<1>1. pc = "insert"
  BY DEF InsertFree
<1>2. PICK p \in (DOMAIN buckets[l]) \X Slots :
         /\ FirstFree(p, buckets[l], Loc(item.key, 0, Capacity(l)),
                                     Loc(item.key, 1, Capacity(l)))
         /\ buckets' = [buckets EXCEPT ![l][p[1]][p[2]] = NewEntry]
  BY Zenon DEF InsertFree
<1>3. p[1] \in Locs(item.key, Capacity(l))
  BY <1>2, LocIn, ZenonT(30) DEF FirstFree, FreeSlots
<1>4. Fits(NewEntry, l, p[1], level_size)
  BY <1>1, <1>3, CapacityIs, NewEntryType DEF Fits
<1>5. Shape(buckets', level_size) /\ Good(buckets', level_size)
  BY <1>1, <1>2, <1>4, InvTable, NewEntryType, WriteTable, Zenon
<1>6. CounterType'
  <2>1. level_item_num' = [level_item_num EXCEPT ![l] = (@ + 1) % WORD]
    BY DEF InsertFree
  <2>2. Inserted
    BY DEF InsertFree
  <2> QED BY <1>1, <2>1, <2>2, InsertedKeeps, ModType DEF CounterType, Inv, TypeOK
<1>7. /\ RehashType' /\ ControlType'
      /\ UNCHANGED <<level_size, newBuckets>>
  BY <1>1, InsertedKeeps DEF InsertFree
<1> QED BY <1>5, <1>6, <1>7, InvTable, Zenon DEF Inv, TypeOK, TableType, Placed, Shape, Good

\* The invariant holds after a step that leaves a shaped and placed table.
LEMMA InvAfter ==
    ASSUME level_size' \in Nat, level_size' >= MinLevel,
           Shape(buckets', level_size'), Good(buckets', level_size'),
           PlacedIn(newBuckets', 2^(level_size' + 1)),
           RehashType', CounterType', ControlType'
    PROVE  Inv'
BY Zenon DEF Inv, TypeOK, TableType, Placed, Shape, Good

\* The invariant holds after a step that changes no table, if the control is right.
LEMMA Frame ==
    ASSUME Inv, UNCHANGED <<buckets, addr_capacity, level_size, resize_state,
                            newBuckets, interimBuckets>>, CounterType', ControlType'
    PROVE  Inv'
<1>1. TableType'
  BY Zenon DEF Inv, TypeOK, TableType
<1>2. RehashType'
  BY Zenon DEF Inv, TypeOK, RehashType
<1>3. Placed'
  BY Zenon DEF Inv, Placed
<1> QED BY <1>1, <1>2, <1>3, Zenon DEF Inv, TypeOK

\* A filled or unfilled slot of the table holds an entry, whatever the locations.
LEMMA TableSlot ==
    ASSUME Inv, NEW l \in Levels, NEW x \in DOMAIN buckets[l], NEW i \in Slots
    PROVE  buckets[l][x][i] \in AnyEntry
<1>1. \A m \in {0, 1} : buckets[m] \in [DOMAIN buckets[m] -> Bucket]
  BY Zenon DEF Inv, TypeOK, TableType
<1>2. buckets[l] \in [DOMAIN buckets[l] -> Bucket]
  BY <1>1, Zenon DEF Levels
<1> QED BY <1>2, Zenon DEF Bucket

\* F_IDX and S_IDX stay inside an array of capacity c with at least two buckets.
LEMMA IdxType ==
    ASSUME NEW c \in Nat, c >= 2, NEW h \in Nat
    PROVE  F_IDX(h, c) \in 0 .. c - 1 /\ S_IDX(h, c) \in 0 .. c - 1
<1> DEFINE d == c \div 2
<1>1. d \in Nat /\ d > 0 /\ d + d <= c
  BY SMT
<1> HIDE DEF d
<1>2. h % d \in 0 .. d - 1
  BY <1>1, SMT
<1>3. h % d \in 0 .. c - 1 /\ (h % d) + d \in 0 .. c - 1
  BY <1>1, <1>2, SMT
<1> QED BY <1>3 DEF d, F_IDX, S_IDX

\* The locations of a key are buckets of the level.
LEMMA LocType ==
    ASSUME Laws, Inv, pc \in {"idle", "insert", "shrink"}, NEW l \in Levels,
           NEW k \in AnyKey, NEW s \in {0, 1}
    PROVE  Loc(k, s, Capacity(l)) \in DOMAIN buckets[l]
<1>1. level_size \in Nat /\ level_size >= 2
  BY SizeAssumption, InvTable
<1>2. PICK n \in Nat : level_size = n + 2
  <2>1. level_size - 2 \in Nat /\ level_size = (level_size - 2) + 2
    BY <1>1, SMT
  <2> QED BY <2>1
<1>3. /\ 2^n \in Nat /\ 2^n > 0
      /\ 2^(n + 1) = 2^n + 2^n
      /\ 2^((n + 1) + 1) = 2^(n + 1) + 2^(n + 1)
      /\ 2^((n + 1) + 1) \div 2 = 2^(n + 1)
  BY PowPositive, PowDouble, PowHalf
<1>4. level_size = (n + 1) + 1 /\ level_size - 1 = n + 1
  BY <1>2
<1> DEFINE c == 2^level_size \div (1 + l)
<1>5. c \in Nat /\ c >= 2 /\ DOMAIN buckets[l] = 0 .. c - 1
  <2>1. /\ DOMAIN buckets[0] = 0 .. 2^level_size - 1
        /\ DOMAIN buckets[1] = 0 .. 2^(level_size - 1) - 1
    BY DEF Inv, TypeOK, TableType
  <2>2. CASE l = 0
    <3>1. 2^level_size \in Nat /\ 2^level_size >= 2
      BY <1>3, <1>4
    <3>2. c = 2^level_size
      BY <2>2, <3>1
    <3> QED BY <2>1, <2>2, <3>1, <3>2
  <2>3. CASE l = 1
    <3>1. 2^(level_size - 1) \in Nat /\ 2^(level_size - 1) >= 2
      BY <1>3, <1>4
    <3>2. c = 2^(level_size - 1)
      BY <1>3, <1>4, <2>3
    <3> QED BY <2>1, <2>3, <3>1, <3>2
  <2> QED BY <2>2, <2>3 DEF Levels
<1>6. Capacity(l) = c
  BY CapacityIs
<1> HIDE DEF c
<1>7. F_HASH[k] \in Nat /\ S_HASH[k] \in Nat
  BY HashAssumption
<1>8. /\ F_IDX(F_HASH[k], c) \in 0 .. c - 1
      /\ S_IDX(S_HASH[k], c) \in 0 .. c - 1
  BY <1>5, <1>7, IdxType, ZenonT(30)
<1> QED BY <1>5, <1>6, <1>8 DEF Loc

\* level_insert by moving an entry to its other bucket in the same level.
LEMMA MovementInv ==
    ASSUME Laws, Inv, try_movement
    PROVE  Inv'
<1>1. pc = "insert"
  BY Zenon DEF try_movement
<1>2. PICK m \in Movable :
         LET l   == m[1]
             idx == Loc(item.key, m[2], Capacity(l))
             e   == buckets[l][idx][m[3]]
             j   == jdx(e, idx, l)
         IN  /\ \E p \in (DOMAIN buckets[l]) \X Slots :
                   /\ FirstFree(p, buckets[l], j, j)
                   /\ buckets' = [buckets EXCEPT
                         ![l][p[1]][p[2]] = Entry(e.key, e.value),
                         ![l][idx][m[3]] = NewEntry]
             /\ level_item_num' = [level_item_num EXCEPT ![l] = (@ + 1) % WORD]
  BY ZenonT(30) DEF try_movement
<1>3. m[1] \in Levels /\ m[2] \in {0, 1} /\ m[3] \in Slots
  BY SMTT(30) DEF Movable
<1> DEFINE l   == m[1]
           idx == Loc(item.key, m[2], Capacity(l))
           e   == buckets[l][idx][m[3]]
           j   == jdx(e, idx, l)
<1>4. PICK p \in (DOMAIN buckets[l]) \X Slots :
         /\ FirstFree(p, buckets[l], j, j)
         /\ buckets' = [buckets EXCEPT
               ![l][p[1]][p[2]] = Entry(e.key, e.value),
               ![l][idx][m[3]] = NewEntry]
  BY <1>2, ZenonT(30)
<1>5. level_item_num' = [level_item_num EXCEPT ![l] = (@ + 1) % WORD]
  BY <1>2, ZenonT(30)
<1>6. l \in Levels /\ e \in AnyEntry
  BY <1>1, <1>3, NewEntryType, LocType, TableSlot, SMTT(30)
<1>7. p[1] = j /\ j \in Locs(e.key, Capacity(l)) /\ idx \in Locs(item.key, Capacity(l))
  BY <1>3, <1>4, LocIn, ZenonT(30) DEF FirstFree, FreeSlots, jdx
<1>8. Capacity(l) = 2^level_size \div (1 + l)
  BY <1>1, <1>6, CapacityIs, Zenon
<1> HIDE DEF l, idx, e, j
<1>9. /\ Entry(e.key, e.value) \in AnyEntry
      /\ Fits(Entry(e.key, e.value), l, p[1], level_size)
      /\ NewEntry \in AnyEntry
      /\ Fits(NewEntry, l, idx, level_size)
  BY <1>1, <1>6, <1>7, <1>8, MovedType, NewEntryType, ZenonT(30) DEF Fits
<1> DEFINE T == [buckets EXCEPT ![l][p[1]][p[2]] = Entry(e.key, e.value)]
<1>10. buckets' = [T EXCEPT ![l][idx][m[3]] = NewEntry]
  BY <1>4
<1>11. level_size \in Nat /\ Shape(T, level_size) /\ Good(T, level_size)
  BY <1>6, <1>9, InvTable, WriteTable, Zenon
<1> HIDE DEF T
<1>12. Shape(buckets', level_size) /\ Good(buckets', level_size)
  BY <1>6, <1>9, <1>10, <1>11, WriteTable, Zenon
<1>13. Inserted
  BY ZenonT(30) DEF try_movement
<1>14. CounterType'
  BY <1>1, <1>5, <1>6, <1>13, InsertedKeeps, ModType, SMTT(30) DEF CounterType, Inv, TypeOK
<1>15. /\ RehashType' /\ ControlType'
       /\ UNCHANGED <<level_size, newBuckets>>
  BY <1>1, <1>13, InsertedKeeps, ZenonT(30)
<1> QED BY <1>12, <1>14, <1>15, InvTable, InvAfter

\* level_insert by moving a bottom entry to the top level.
LEMMA B2TInv ==
    ASSUME Laws, Inv, b2t_movement
    PROVE  Inv'
<1>1. pc = "insert" /\ Inserted
  BY ZenonT(30) DEF b2t_movement
<1>2. PICK m \in Liftable :
         LET idx == Loc(item.key, m[2], Capacity(1))
             e   == buckets[1][idx][m[3]]
         IN  \E p \in (DOMAIN buckets[0]) \X Slots :
                /\ FirstFree(p, buckets[0], Loc(e.key, 0, Capacity(0)),
                                            Loc(e.key, 1, Capacity(0)))
                /\ buckets' = [buckets EXCEPT
                      ![0][p[1]][p[2]] = Entry(e.key, e.value),
                      ![1][idx][m[3]] = NewEntry]
  BY ZenonT(30) DEF b2t_movement
<1>3. m[2] \in {0, 1} /\ m[3] \in Slots /\ 0 \in Levels /\ 1 \in Levels
  BY SMTT(30) DEF Liftable, Levels
<1> DEFINE idx == Loc(item.key, m[2], Capacity(1))
           e   == buckets[1][idx][m[3]]
<1>4. PICK p \in (DOMAIN buckets[0]) \X Slots :
         /\ FirstFree(p, buckets[0], Loc(e.key, 0, Capacity(0)),
                                     Loc(e.key, 1, Capacity(0)))
         /\ buckets' = [buckets EXCEPT
               ![0][p[1]][p[2]] = Entry(e.key, e.value),
               ![1][idx][m[3]] = NewEntry]
  BY <1>2, ZenonT(30)
<1>5. e \in AnyEntry
  BY <1>1, <1>3, NewEntryType, LocType, TableSlot, SMTT(30)
<1>6. p[1] \in Locs(e.key, Capacity(0)) /\ idx \in Locs(item.key, Capacity(1))
  BY <1>3, <1>4, LocIn, ZenonT(30) DEF FirstFree, FreeSlots
<1>7. Capacity(0) = 2^level_size \div (1 + 0) /\ Capacity(1) = 2^level_size \div (1 + 1)
  BY <1>1, <1>3, CapacityIs
<1> HIDE DEF idx, e
<1>8. /\ Entry(e.key, e.value) \in AnyEntry
      /\ Fits(Entry(e.key, e.value), 0, p[1], level_size)
      /\ NewEntry \in AnyEntry
      /\ Fits(NewEntry, 1, idx, level_size)
  BY <1>1, <1>5, <1>6, <1>7, MovedType, NewEntryType, Zenon DEF Fits
<1> DEFINE T == [buckets EXCEPT ![0][p[1]][p[2]] = Entry(e.key, e.value)]
<1>9. buckets' = [T EXCEPT ![1][idx][m[3]] = NewEntry]
  BY <1>4
<1>10. level_size \in Nat /\ Shape(T, level_size) /\ Good(T, level_size)
  BY <1>3, <1>8, InvTable, WriteTable, ZenonT(30)
<1> HIDE DEF T
<1>11. Shape(buckets', level_size) /\ Good(buckets', level_size)
  BY <1>3, <1>8, <1>9, <1>10, WriteTable, ZenonT(30)
<1>12. CounterType'
  <2>1. level_item_num' = [level_item_num EXCEPT ![0] = (@ + 1) % WORD]
    BY Zenon DEF b2t_movement
  <2> QED BY <1>1, <1>3, <2>1, InsertedKeeps, ModType, SMTT(30) DEF CounterType, Inv, TypeOK
<1>13. /\ RehashType' /\ ControlType'
       /\ UNCHANGED <<level_size, newBuckets>>
  BY <1>1, InsertedKeeps
<1> QED BY <1>11, <1>12, <1>13, InvTable, InvAfter, SMTT(30)

------------------------------------------------------------------------------
(* level_expand *)

\* The new level is allocated and addr_capacity doubled.
LEMMA ExpandBeginInv ==
    ASSUME Laws, Inv, ExpandBegin
    PROVE  Inv'
<1>1. level_size \in Nat /\ 2^(level_size + 1) \in Nat
  BY PowPositive, InvTable
<1>2. /\ newBuckets' \in [0 .. 2^(level_size + 1) - 1 -> Bucket]
      /\ PlacedIn(newBuckets', 2^(level_size + 1))
  <2>1. newBuckets' \in Fresh(2^(level_size + 1))
    BY DEF ExpandBegin
  <2> QED BY <1>1, <2>1, FreshType
<1>3. UNCHANGED <<buckets, level_item_num, level_size, level_expand_time,
                  interimBuckets, item>>
  BY DEF ExpandBegin
<1>4. RehashType'
  BY <1>2, <1>3, SMTT(30) DEF RehashType, ExpandBegin, Inv, TypeOK
<1>5. CounterType'
  BY <1>3, SizeAssumption DEF CounterType, ExpandBegin, Inv, TypeOK
<1>6. ControlType'
  BY <1>3, SMTT(30) DEF ControlType, ExpandBegin, Inv, TypeOK
<1> QED BY <1>2, <1>3, <1>4, <1>5, <1>6, InvTable, InvAfter

\* One item is copied to the new level and cleared in the old bottom level, or
\* the process exits.
LEMMA ExpandItemInv ==
    ASSUME Laws, Inv, ExpandItem
    PROVE  Inv'
<1>1. pc = "expand" /\ resize_state = 1 /\ addr_capacity = 2^(level_size + 1)
  BY ZenonT(30) DEF ExpandItem, Inv, TypeOK, ControlType, RehashType
<1>2. /\ level_size \in Nat /\ 1 \in Levels
      /\ newBuckets \in [0 .. 2^(level_size + 1) - 1 -> Bucket]
      /\ PlacedIn(newBuckets, 2^(level_size + 1))
  BY <1>1, InvTable, SMTT(30) DEF RehashType, Levels
<1>3. UNCHANGED <<level_item_num, addr_capacity, level_size, level_expand_time,
                  resize_state, interimBuckets, item>>
  BY ZenonT(30) DEF ExpandItem
<1>4. PICK p \in Filled(buckets[1]) :
         LET e == buckets[1][p[1]][p[2]]
             f == Loc(e.key, 0, addr_capacity)
             s == Loc(e.key, 1, addr_capacity)
         IN  \/ \E q \in (DOMAIN newBuckets) \X Slots :
                   /\ FirstFree(q, newBuckets, f, s)
                   /\ newBuckets' = [newBuckets EXCEPT
                         ![q[1]][q[2]] = Entry(e.key, e.value)]
                   /\ new_level_item_num' = (new_level_item_num + 1) % WORD
                   /\ buckets' = [buckets EXCEPT ![1][p[1]][p[2]] = Empty]
                   /\ UNCHANGED pc
             \/ /\ Exit
                /\ UNCHANGED <<newBuckets, new_level_item_num, buckets>>
  BY ZenonT(30) DEF ExpandItem
<1> DEFINE e == buckets[1][p[1]][p[2]]
<1>5. e \in AnyEntry
  BY <1>2, TableSlot DEF Filled
<1>6. CASE \E q \in (DOMAIN newBuckets) \X Slots :
             /\ FirstFree(q, newBuckets, Loc(e.key, 0, addr_capacity),
                                         Loc(e.key, 1, addr_capacity))
             /\ newBuckets' = [newBuckets EXCEPT ![q[1]][q[2]] = Entry(e.key, e.value)]
             /\ new_level_item_num' = (new_level_item_num + 1) % WORD
             /\ buckets' = [buckets EXCEPT ![1][p[1]][p[2]] = Empty]
             /\ UNCHANGED pc
  <2>1. PICK q \in (DOMAIN newBuckets) \X Slots :
             /\ FirstFree(q, newBuckets, Loc(e.key, 0, addr_capacity),
                                         Loc(e.key, 1, addr_capacity))
             /\ newBuckets' = [newBuckets EXCEPT ![q[1]][q[2]] = Entry(e.key, e.value)]
    BY <1>6, Zenon
  <2>2. q[1] \in Locs(e.key, 2^(level_size + 1))
    <3>1. q[1] \in {Loc(e.key, 0, addr_capacity), Loc(e.key, 1, addr_capacity)}
      BY <2>1, Zenon DEF FirstFree, FreeSlots
    <3> HIDE DEF e
    <3> QED BY <1>1, <3>1, LocIn, SMTT(30)
  <2> HIDE DEF e
  <2>3. Entry(e.key, e.value) \in AnyEntry /\ Entry(e.key, e.value).key = e.key
    BY <1>5, MovedType, SMTT(30)
  <2>4. newBuckets' \in [0 .. 2^(level_size + 1) - 1 -> Bucket]
    BY <1>2, <2>1, <2>3, WriteType, Zenon
  <2>5. PlacedIn(newBuckets', 2^(level_size + 1))
    BY <1>2, <2>1, <2>2, <2>3, WritePlaced, ZenonT(30)
  <2>6. Empty \in AnyEntry /\ Fits(Empty, 1, p[1], level_size)
    BY EmptyFits, Zenon
  <2>7. Shape(buckets', level_size) /\ Good(buckets', level_size)
    <3>1. buckets' = [buckets EXCEPT ![1][p[1]][p[2]] = Empty]
      BY <1>6
    <3> QED BY <1>2, <2>6, <3>1, InvTable, WriteTable, ZenonT(30)
  <2>8. RehashType'
    BY <1>1, <1>3, <2>4, ZenonT(30) DEF RehashType, Inv, TypeOK
  <2>9. CounterType'
    BY <1>3, <1>6, ModType, SMTT(30) DEF CounterType, Inv, TypeOK
  <2>10. ControlType'
    BY <1>3, <1>6, SMTT(30) DEF ControlType, Inv, TypeOK
  <2> QED BY <1>3, <2>5, <2>7, <2>8, <2>9, <2>10, InvTable, InvAfter, ZenonT(30)
<1>7. CASE Exit /\ UNCHANGED <<newBuckets, new_level_item_num, buckets>>
  BY <1>3, <1>7, ZenonT(30)
  DEF Exit, Inv, TypeOK, TableType, RehashType, CounterType, ControlType, Placed
<1> QED BY <1>4, <1>6, <1>7, ZenonT(30)

\* The old top level becomes the bottom level of a table of twice the size.
LEMMA ExpandEndInv ==
    ASSUME Laws, Inv, ExpandEnd
    PROVE  Inv'
<1>1. resize_state = 1 /\ addr_capacity = 2^(level_size + 1)
  BY DEF ExpandEnd, Inv, TypeOK, ControlType, RehashType
<1>2. /\ level_size \in Nat /\ level_size >= MinLevel
      /\ newBuckets \in [0 .. 2^(level_size + 1) - 1 -> Bucket]
      /\ PlacedIn(newBuckets, 2^(level_size + 1))
      /\ buckets[0] \in [0 .. 2^level_size - 1 -> Bucket]
      /\ PlacedIn(buckets[0], 2^level_size)
  BY <1>1, InvTable, Zenon DEF RehashType, Shape, Good
<1>3. level_size' = level_size + 1 /\ (level_size + 1) - 1 = level_size
  BY <1>2 DEF ExpandEnd
<1>4. 2^(level_size + 1) \div 2 = 2^level_size
  BY <1>2, PowHalf
<1>5. /\ buckets' = [l \in Levels |-> buckets'[l]]
      /\ buckets'[0] = newBuckets /\ buckets'[1] = buckets[0]
  BY DEF ExpandEnd, Levels
<1>6. Shape(buckets', level_size') /\ Good(buckets', level_size')
  BY <1>2, <1>3, <1>4, <1>5, ZenonT(30) DEF Shape, Good
<1>7. PlacedIn(newBuckets', 2^(level_size' + 1))
  BY DEF ExpandEnd, PlacedIn, Filled, Nil
<1>8. RehashType'
  BY <1>1, <1>3, SMTT(30) DEF ExpandEnd, RehashType, Inv, TypeOK
<1>9. CounterType'
  BY SizeAssumption, ModType, SMTT(30) DEF ExpandEnd, CounterType, Levels, Inv, TypeOK
<1>10. ControlType'
  BY DEF ExpandEnd, ControlType, Inv, TypeOK
<1> QED BY <1>2, <1>3, <1>6, <1>7, <1>8, <1>9, <1>10, SizeAssumption, InvAfter, SMTT(30)

------------------------------------------------------------------------------
(* level_shrink *)

\* The old bottom level becomes the top level of a table of half the size.
LEMMA ShrinkBeginInv ==
    ASSUME Laws, Inv, ShrinkBegin
    PROVE  Inv'
<1>1. CASE Exit /\ UNCHANGED <<table, interimBuckets>>
  BY <1>1, Zenon DEF ShrinkBegin, Exit, table, Inv, TypeOK, TableType, RehashType, CounterType,
              ControlType, Placed
<1>2. CASE pc' = "shrink"
  <2>1. /\ resize_state' = 2
        /\ level_size' = level_size - 1
        /\ interimBuckets' = buckets[0]
        /\ level_item_num' = [l \in Levels |-> IF l = 0 THEN level_item_num[1] ELSE 0]
        /\ addr_capacity' = 2^(level_size - 1)
        /\ pc = "idle"
        /\ UNCHANGED <<level_expand_time, newBuckets, new_level_item_num>>
        /\ level_size > MinLevel
    BY <1>2 DEF ShrinkBegin, Exit
  <2>2. PICK bottom \in Fresh(2^(level_size - 2)) :
           buckets' = [l \in Levels |-> IF l = 0 THEN buckets[1] ELSE bottom]
    BY <1>2 DEF ShrinkBegin, Exit
  <2>3. PICK n \in Nat : level_size = n + 2
    <3>1. level_size \in Nat /\ level_size > 2
      BY <2>1, InvTable, SizeAssumption
    <3>2. level_size - 2 \in Nat /\ level_size = (level_size - 2) + 2
      BY <3>1, SMT
    <3> QED BY <3>2
  <2>4. level_size - 1 = n + 1 /\ level_size - 2 = n /\ level_size = (n + 1) + 1
    BY <2>3
  <2>5. 2^n \in Nat /\ 2^((n + 1) + 1) \div 2 = 2^(n + 1)
    BY PowPositive, PowHalf
  <2>6. /\ bottom \in [0 .. 2^n - 1 -> Bucket]
        /\ PlacedIn(bottom, 2^(n + 1) \div 2)
    <3>1. bottom \in Fresh(2^n)
      BY <2>2, <2>4
    <3> QED BY <2>5, <3>1, FreshType
  <2>7. /\ buckets[1] \in [0 .. 2^(n + 1) - 1 -> Bucket]
        /\ PlacedIn(buckets[1], 2^(n + 1))
    <3>1. /\ buckets[1] \in [0 .. 2^(level_size - 1) - 1 -> Bucket]
          /\ PlacedIn(buckets[1], 2^level_size \div 2)
      BY InvTable DEF Shape, Good
    <3> QED BY <2>4, <2>5, <3>1, Zenon
  <2>8. /\ buckets' = [l \in Levels |-> buckets'[l]]
        /\ buckets'[0] = buckets[1] /\ buckets'[1] = bottom
    BY <2>2 DEF Levels
  <2>9. level_size' = n + 1 /\ (n + 1) - 1 = n /\ level_size' >= MinLevel
    BY <2>1, <2>3, <2>4, SizeAssumption
  <2>10. Shape(buckets', level_size') /\ Good(buckets', level_size')
    BY <2>6, <2>7, <2>8, <2>9, Zenon DEF Shape, Good
  <2>11. newBuckets' = Nil
    BY <2>1 DEF Inv, TypeOK, ControlType, RehashType
  <2>12. PlacedIn(newBuckets', 2^(level_size' + 1))
    BY <2>11 DEF PlacedIn, Filled, Nil
  <2>13. RehashType'
    <3>1. interimBuckets' \in [DOMAIN interimBuckets' -> Bucket]
      BY <2>1, InvTable, ZenonT(30) DEF Shape
    <3> QED BY <2>1, <2>11, <3>1 DEF RehashType
  <2>14. CounterType'
    BY <2>1, SizeAssumption DEF CounterType, Levels, Inv, TypeOK
  <2>15. ControlType'
    BY <1>2, <2>1 DEF ControlType
  <2> QED BY <2>9, <2>10, <2>12, <2>13, <2>14, <2>15, InvAfter, SMTT(30)
<1> QED BY <1>1, <1>2, SMTT(30) DEF ShrinkBegin

\* An item set aside is passed to level_insert.
LEMMA ShrinkItemInv ==
    ASSUME Inv, ShrinkItem
    PROVE  Inv'
<1>1. PICK p \in Filled(interimBuckets) :
          item' = [key   |-> interimBuckets[p[1]][p[2]].key,
                   value |-> interimBuckets[p[1]][p[2]].value]
  BY ZenonT(30) DEF ShrinkItem
<1>2. interimBuckets[p[1]][p[2]] \in AnyEntry
  BY DEF Filled, Inv, TypeOK, RehashType, Bucket
<1>3. item' \in [key : AnyKey, value : Value \cup {NULL}]
  BY <1>1, <1>2, Zenon DEF AnyEntry
<1>4. UNCHANGED <<table, rehash>> /\ pc = "shrink" /\ pc' = "insert"
  BY Zenon DEF ShrinkItem
<1>5. ControlType'
  BY <1>3, <1>4 DEF Inv, TypeOK, ControlType, table
<1>6. CounterType'
  BY <1>4, Zenon DEF Inv, TypeOK, CounterType, table, rehash
<1> QED BY <1>4, <1>5, <1>6, Frame, ZenonT(30) DEF table, rehash

\* The level set aside is freed, or its end is overrun.
LEMMA ShrinkEndInv ==
    ASSUME Inv, ShrinkEnd
    PROVE  Inv'
<1>1. /\ UNCHANGED <<buckets, level_item_num, addr_capacity, level_size,
                     newBuckets, new_level_item_num, item>>
      /\ pc = "shrink"
  BY DEF ShrinkEnd
<1>2. CASE interimBuckets' = Nil /\ level_expand_time' = 0 /\ resize_state' = 0 /\ pc' = "idle"
  <2>1. RehashType'
    <3>1. Nil \in [DOMAIN Nil -> Bucket]
      BY DEF Nil
    <3>2. resize_state # 1
      BY <1>1 DEF Inv, TypeOK, ControlType
    <3> QED BY <1>1, <1>2, <3>1, <3>2 DEF Inv, TypeOK, RehashType
  <2>2. TableType' /\ Placed'
    <3>1. TableType'
      BY <1>1 DEF Inv, TypeOK, TableType
    <3>2. Placed'
      BY <1>1 DEF Inv, Placed
    <3> QED BY <3>1, <3>2
  <2>3. CounterType'
    BY <1>1, <1>2 DEF Inv, TypeOK, CounterType
  <2>4. ControlType'
    BY <1>2, SMTT(30) DEF ControlType
  <2> QED BY <2>1, <2>2, <2>3, <2>4 DEF Inv, TypeOK
<1>3. CASE /\ UNCHANGED <<interimBuckets, level_expand_time, resize_state>>
           /\ pc' = "overrun"
  <2>1. ControlType'
    BY <1>1, <1>3 DEF Inv, TypeOK, ControlType
  <2>2. CounterType'
    BY <1>1, <1>3, ZenonT(30) DEF Inv, TypeOK, CounterType
  <2> QED BY <1>1, <1>3, <2>1, <2>2, Frame, ZenonT(30)
<1> QED BY <1>2, <1>3 DEF ShrinkEnd, Return

------------------------------------------------------------------------------
(* The remaining calls *)

\* The calls that only look.
LEMMA QueryInv ==
    ASSUME Inv, NEW k \in Key, level_static_query(k) \/ level_dynamic_query(k)
    PROVE  Inv'
<1>1. UNCHANGED <<table, rehash, item>> /\ pc = "idle" /\ pc' = "idle"
  BY DEF level_static_query, level_dynamic_query, Return
<1>2. ControlType' /\ CounterType'
  BY <1>1, ZenonT(30) DEF Inv, TypeOK, ControlType, CounterType, table, rehash
<1> QED BY <1>1, <1>2, Frame, Zenon DEF table, rehash

\* A slot that a search meets is a slot of the table.
LEMMA MatchType ==
    ASSUME NEW k \in Key, NEW m \in Matches(k)
    PROVE  m[1] \in Levels /\ m[2] \in {0, 1} /\ m[3] \in Slots
BY SMTT(30) DEF Matches

\* level_delete clears one slot.
LEMMA DeleteInv ==
    ASSUME Laws, Inv, NEW k \in Key, level_delete(k)
    PROVE  Inv'
<1>1. /\ UNCHANGED <<addr_capacity, level_size, level_expand_time, resize_state,
                     newBuckets, new_level_item_num, interimBuckets, item>>
      /\ pc = "idle" /\ pc' = "idle"
  BY Zenon DEF level_delete, Return, rehash
<1>2. RehashType' /\ ControlType'
  BY <1>1, SMTT(30) DEF Inv, TypeOK, RehashType, ControlType
<1>3. CASE UNCHANGED <<buckets, level_item_num>>
  <2>1. CounterType'
    BY <1>1, <1>3, Zenon DEF Inv, TypeOK, CounterType
  <2> QED BY <1>1, <1>2, <1>3, <2>1, Frame, Zenon
<1>4. CASE \E m \in Matches(k) :
             /\ buckets' = [buckets EXCEPT
                   ![m[1]][Loc(k, m[2], Capacity(m[1]))][m[3]] = Empty]
             /\ level_item_num' = [level_item_num EXCEPT ![m[1]] = (@ - 1) % WORD]
  <2>1. PICK m \in Matches(k) :
             /\ buckets' = [buckets EXCEPT
                   ![m[1]][Loc(k, m[2], Capacity(m[1]))][m[3]] = Empty]
             /\ level_item_num' = [level_item_num EXCEPT ![m[1]] = (@ - 1) % WORD]
    BY <1>4, Zenon
  <2>2. m[1] \in Levels
    BY MatchType
  <2>3. Empty \in AnyEntry /\ \A x : Fits(Empty, m[1], x, level_size)
    BY EmptyFits, Zenon
  <2>4. Shape(buckets', level_size) /\ Good(buckets', level_size)
    BY <2>1, <2>2, <2>3, InvTable, WriteTable, ZenonT(30)
  <2>5. CounterType'
    BY <1>1, <2>1, <2>2, ModType DEF Inv, TypeOK, CounterType
  <2> QED BY <1>1, <1>2, <2>4, <2>5, InvTable, InvAfter
<1> QED BY <1>3, <1>4, Zenon DEF level_delete

\* level_update writes the value of one slot.
LEMMA UpdateInv ==
    ASSUME Laws, Inv, NEW k \in Key, NEW v \in Value, level_update(k, v)
    PROVE  Inv'
<1>1. /\ UNCHANGED <<level_item_num, addr_capacity, level_size, level_expand_time,
                     resize_state, newBuckets, new_level_item_num, interimBuckets, item>>
      /\ pc = "idle" /\ pc' = "idle"
  BY ZenonT(30) DEF level_update, Return, rehash
<1>2. RehashType' /\ ControlType' /\ CounterType'
  BY <1>1 DEF Inv, TypeOK, RehashType, ControlType, CounterType
<1>3. CASE UNCHANGED buckets
  BY <1>1, <1>2, <1>3, Frame, ZenonT(30)
<1>4. CASE \E m \in Matches(k) :
             buckets' = [buckets EXCEPT
                ![m[1]][Loc(k, m[2], Capacity(m[1]))][m[3]] = Entry(k, v)]
  <2>1. PICK m \in Matches(k) :
             buckets' = [buckets EXCEPT
                ![m[1]][Loc(k, m[2], Capacity(m[1]))][m[3]] = Entry(k, v)]
    BY <1>4, ZenonT(30)
  <2>2. m[1] \in Levels /\ m[2] \in {0, 1}
    BY MatchType
  <2>3. Entry(k, v) \in AnyEntry /\ Entry(k, v).key = k
    BY EntryType, Zenon DEF Entry, AnyKey
  <2>4. Loc(k, m[2], Capacity(m[1])) \in Locs(k, 2^level_size \div (1 + m[1]))
    BY <1>1, <2>2, CapacityIs, LocIn, ZenonT(30)
  <2>5. Fits(Entry(k, v), m[1], Loc(k, m[2], Capacity(m[1])), level_size)
    BY <2>3, <2>4 DEF Fits
  <2>6. Shape(buckets', level_size) /\ Good(buckets', level_size)
    BY <2>1, <2>2, <2>3, <2>5, InvTable, WriteTable, Zenon
  <2> QED BY <1>1, <1>2, <2>6, InvTable, InvAfter, SMTT(30)
<1> QED BY <1>3, <1>4, Zenon DEF level_update

\* A call of level_insert.
LEMMA InsertCallInv ==
    ASSUME Inv, NEW k \in Key, NEW v \in Value, InsertCall(k, v)
    PROVE  Inv'
<1>1. item' \in [key : AnyKey, value : Value \cup {NULL}]
  BY DEF InsertCall, AnyKey
<1>2. UNCHANGED <<table, rehash>> /\ pc = "idle" /\ pc' = "insert"
  BY Zenon DEF InsertCall
<1>3. ControlType'
  BY <1>1, <1>2 DEF Inv, TypeOK, ControlType, table
<1>4. CounterType'
  BY <1>2, Zenon DEF Inv, TypeOK, CounterType, table, rehash
<1> QED BY <1>2, <1>3, <1>4, Frame, Zenon DEF table, rehash

------------------------------------------------------------------------------
\* Placement holds in the table that level_init builds.
LEMMA InitInv ==
    ASSUME Laws
    PROVE  Init => Inv
<1> SUFFICES ASSUME Init PROVE Placed
  BY InitType DEF Inv
<1>1. PICK top \in Fresh(2^LEVEL_START), bottom \in Fresh(2^(LEVEL_START - 1)) :
          buckets = [l \in Levels |-> IF l = 0 THEN top ELSE bottom]
  BY DEF Init
<1>2. 2^LEVEL_START \in Nat /\ 2^(LEVEL_START - 1) \in Nat
  BY PowDouble, SizeAssumption
<1>3. \A c : PlacedIn(top, c) /\ PlacedIn(bottom, c)
  BY <1>2, FreshType
<1>4. buckets[0] = top /\ buckets[1] = bottom
  BY <1>1, SMTT(30) DEF Levels
<1>5. \A c : PlacedIn(newBuckets, c)
  BY DEF Init, PlacedIn, Filled, Nil
<1> QED BY <1>3, <1>4, <1>5 DEF Placed

\* Every step of every call keeps the invariant.
LEMMA NextInv ==
    ASSUME Laws
    PROVE  Inv /\ [Next]_vars => Inv'
<1> SUFFICES ASSUME Inv, [Next]_vars PROVE Inv'
  BY SMTT(30)
<1>1. CASE UNCHANGED vars
  BY <1>1, Zenon DEF vars, table, rehash, Inv, TypeOK, TableType, RehashType, CounterType,
              ControlType, Placed
<1>2. ASSUME NEW k \in Key, level_static_query(k) \/ level_dynamic_query(k) PROVE Inv'
  BY <1>2, QueryInv
<1>3. ASSUME NEW k \in Key, level_delete(k) PROVE Inv'
  BY <1>3, DeleteInv
<1>4. ASSUME NEW k \in Key, NEW v \in Value, level_update(k, v) PROVE Inv'
  BY <1>4, UpdateInv
<1>5. ASSUME NEW k \in Key, NEW v \in Value, InsertCall(k, v) PROVE Inv'
  BY <1>5, InsertCallInv
<1>6. CASE ShrinkBegin
  BY <1>6, ShrinkBeginInv
<1>7. CASE Run
  BY <1>7, InsertFreeInv, MovementInv, B2TInv, ExpandBeginInv, ExpandItemInv,
     ExpandEndInv, ShrinkItemInv, ShrinkEndInv, ZenonT(30) DEF Run, Expand
<1> QED BY <1>1, <1>2, <1>3, <1>4, <1>5, <1>6, <1>7, ZenonT(30) DEF Next

\* An item that is in a bucket its key hashes to is met by a search.
LEMMA FindableInv ==
    ASSUME Laws
    PROVE  Inv => Findable
<1> SUFFICES ASSUME Inv, pc = "idle", NEW k \in Key, NEW l \in Levels,
                    NEW p \in Filled(buckets[l]), buckets[l][p[1]][p[2]].key = k
             PROVE  Matches(k) # {}
  BY ZenonT(30) DEF Findable
<1>1. /\ PlacedIn(buckets[0], 2^level_size)
      /\ PlacedIn(buckets[1], 2^level_size \div 2)
  BY DEF Inv, Placed
<1>2. PlacedIn(buckets[l], 2^level_size \div (1 + l))
  <2>1. 2^level_size \in Nat
    BY PowPositive, InvTable
  <2>2. 2^level_size \div (1 + 0) = 2^level_size /\ 1 + 1 = 2
    BY <2>1, SMTT(30)
  <2> QED BY <1>1, <2>2, ZenonT(30) DEF Levels
<1>3. p[1] \in Locs(k, Capacity(l))
  BY <1>2, CapacityIs, ZenonT(30) DEF PlacedIn
<1>4. PICK s \in {0, 1} : p[1] = Loc(k, s, Capacity(l))
  BY <1>3 DEF Locs
<1>5. p[2] \in Slots /\ buckets[l][p[1]][p[2]].token = 1
  BY Zenon DEF Filled
<1>6. /\ <<l, s, p[2]>> \in Levels \X {0, 1} \X Slots
      /\ buckets[l][Loc(k, s, Capacity(l))][p[2]].token = 1
      /\ buckets[l][Loc(k, s, Capacity(l))][p[2]].key = k
  BY <1>4, <1>5, ZenonT(30)
<1>7. <<l, s, p[2]>> \in Matches(k)
  BY <1>6 DEF Matches
<1> QED BY <1>7, Zenon

==============================================================================
