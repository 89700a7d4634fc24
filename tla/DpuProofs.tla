------------------------------ MODULE DpuProofs ------------------------------
(***************************************************************************)
(* The frames and the addresses of the DPU, for any cache of four frames   *)
(* or more, any number of DMA clients, any hashes and any interleaving of  *)
(* the worker with the threads of the clients, with failures.              *)
(*                                                                         *)
(* That the table names the right frames rests on what the worker does     *)
(* between asking for buckets and taking them over: the frames it waits    *)
(* for are the most recent ones of the replacer, and it asks for at most   *)
(* four, so that none of them is evicted for another (Rounds).             *)
(***************************************************************************)
EXTENDS Dpu, FiniteSetTheorems, SequenceTheorems, TLAPS

------------------------------------------------------------------------------
(* Arithmetic *)

\* pow(2, n + 1) is twice pow(2, n): the capacities of the two levels.  The set
\* 1..n+1 has twice as many subsets as 1..n, those with and those without n+1.
LEMMA PowDouble ==
    ASSUME NEW n \in Nat
    PROVE  2^n \in Nat /\ 2^(n + 1) = 2^n + 2^n
<1> DEFINE S == 1 .. n
           x == n + 1
           A == SUBSET S
           B == {T \cup {x} : T \in A}
<1>1. IsFiniteSet(S) /\ Cardinality(S) = n
  BY FS_Interval, SMT
<1>2. x \notin S
  BY SMT
<1>3. IsFiniteSet(S \cup {x}) /\ Cardinality(S \cup {x}) = n + 1
  BY <1>1, <1>2, FS_AddElement, Zenon
<1>4. IsFiniteSet(A) /\ Cardinality(A) = 2^n
  BY <1>1, FS_SUBSET, Zenon
<1>5. Cardinality(SUBSET (S \cup {x})) = 2^(n + 1)
  BY <1>3, FS_SUBSET
<1>6. IsFiniteSet(B) /\ Cardinality(B) = Cardinality(A)
  <2> DEFINE f == [T \in A |-> T \cup {x}]
  <2>1. f \in [A -> B]
    OBVIOUS
  <2>2. \A T, U \in A : f[T] = f[U] => T = U
    BY <1>2
  <2>3. \A y \in B : \E T \in A : f[T] = y
    BY SMTT(30)
  <2>4. f \in Bijection(A, B)
    BY <2>1, <2>2, <2>3, Zenon DEF Bijection, Injection, Surjection, IsInjective
  <2> QED BY <1>4, <2>4, FS_Bijection DEF ExistsBijection
<1>7. A \cap B = {}
  BY SMT
<1>8. A \cup B = SUBSET (S \cup {x})
  <2>1. ASSUME NEW U \in SUBSET (S \cup {x}) PROVE U \in A \cup B
    <3>1. CASE x \in U
      <4>1. U = (U \ {x}) \cup {x} BY <3>1
      <4>2. U \ {x} \in A BY <2>1
      <4> QED BY <4>1, <4>2, Zenon
    <3>2. CASE x \notin U
      <4>1. U \in A BY <2>1, <3>2
      <4> QED BY <4>1
    <3> QED BY <3>1, <3>2
  <2>2. A \cup B \subseteq SUBSET (S \cup {x})
    BY Zenon
  <2> QED BY <2>1, <2>2, Zenon
<1>9. Cardinality(A \cup B) = Cardinality(A) + Cardinality(B)
  <2>1. Cardinality(A \cup B)
           = Cardinality(A) + Cardinality(B) - Cardinality(A \cap B)
    BY <1>4, <1>6, FS_Union, Zenon
  <2>2. Cardinality(A \cap B) = 0
    BY <1>7, FS_EmptySet, Zenon
  <2>3. Cardinality(A) \in Nat /\ Cardinality(B) \in Nat
    BY <1>4, <1>6, FS_CardinalityType
  <2> QED BY <2>1, <2>2, <2>3
<1>10. 2^n \in Nat
  BY <1>4, FS_CardinalityType
<1> QED BY <1>4, <1>5, <1>6, <1>8, <1>9, <1>10, Zenon

\* A level has at least one bucket.
LEMMA PowPositive ==
    ASSUME NEW n \in Nat
    PROVE  2^n \in Nat /\ 2^n > 0
<1>1. IsFiniteSet(1 .. n) /\ Cardinality(1 .. n) = n
  BY FS_Interval, SMT
<1>2. IsFiniteSet(SUBSET (1 .. n)) /\ Cardinality(SUBSET (1 .. n)) = 2^n
  BY <1>1, FS_SUBSET, Zenon
<1>3. SUBSET (1 .. n) # {}
  BY Zenon
<1>4. 2^n \in Nat /\ 2^n # 0
  BY <1>2, <1>3, FS_CardinalityType, FS_EmptySet
<1> QED BY <1>4

LEMMA Monotone ==
    ASSUME NEW a \in Nat, NEW b \in Nat, NEW c \in Nat, a <= b
    PROVE  c * a <= c * b
OBVIOUS

\* The quotient and the remainder by which GetClientBucket finds a bucket.
LEMMA DivMod ==
    ASSUME NEW k \in Nat, NEW g \in Nat \ {0}
    PROVE  /\ k \div g \in Nat /\ k % g \in Nat /\ k % g < g
           /\ k = g * (k \div g) + (k % g)
<1>1. k % g \in Nat /\ k % g < g
  OBVIOUS
<1>2. k \div g \in Int
  OBVIOUS
<1>3. k = g * (k \div g) + (k % g)
  OBVIOUS
<1>4. k \div g \in Nat
  <2> DEFINE q == k \div g
             r == k % g
  <2>1. q \in Int /\ r \in Nat /\ r < g /\ k = g * q + r
    BY <1>1, <1>2, <1>3
  <2> HIDE DEF q, r
  <2>2. ~(q < 0)
    <3> SUFFICES ASSUME q < 0 PROVE FALSE
      OBVIOUS
    <3>1. -q \in Nat /\ 1 <= -q /\ 1 \in Nat /\ g \in Nat
      BY <2>1
    <3>2. g * 1 <= g * (-q)
      BY <3>1, Monotone
    <3>3. g * 1 = g /\ g * (-q) = -(g * q) /\ g * q \in Int
      BY <2>1
    <3> QED
      BY <2>1, <3>2, <3>3
  <2> QED
    BY <2>1, <2>2 DEF q
<1> QED
  BY <1>1, <1>2, <1>3, <1>4

LEMMA Quotient ==
    ASSUME NEW h \in Nat \ {0}, NEW g \in Nat
    PROVE  (h * g) \div h = g
<1> DEFINE n == h * g
           q == n \div h
           r == n % h
<1>1. n \in Nat
  OBVIOUS
<1>2. q \in Nat /\ r \in Nat /\ r < h /\ n = h * q + r
  BY <1>1, DivMod
<1> HIDE DEF q, r
<1>3. ~(q < g)
  <2> SUFFICES ASSUME q < g PROVE FALSE
    OBVIOUS
  <2>1. h * (q + 1) <= h * g
    BY <1>2, Monotone
  <2>2. h * (q + 1) = h * q + h
    BY <1>2
  <2> QED
    BY <1>1, <1>2, <2>1, <2>2
<1>4. ~(g < q)
  <2> SUFFICES ASSUME g < q PROVE FALSE
    OBVIOUS
  <2>1. h * (g + 1) <= h * q
    BY <1>2, Monotone
  <2>2. h * (g + 1) = h * g + h
    OBVIOUS
  <2> QED
    BY <1>1, <1>2, <2>1, <2>2
<1> QED
  BY <1>2, <1>3, <1>4 DEF q

\* Bucket b of a level from start on is at a position of one of its h clients.
Position(h, g, start, b) ==
    /\ (b - start) \div g \in 0 .. h - 1
    /\ (b - start) % g \in 0 .. g - 1
    /\ (start + ((b - start) \div g) * g) + ((b - start) % g) = b

LEMMA Located ==
    ASSUME NEW h \in Nat \ {0}, NEW g \in Nat \ {0}, NEW start \in Nat,
           NEW b \in start .. start + h * g - 1
    PROVE  Position(h, g, start, b)
<1> DEFINE k == b - start
           q == k \div g
           r == k % g
<1>1. k \in Nat /\ k < h * g /\ h * g \in Nat
  OBVIOUS
<1>2. q \in Nat /\ r \in Nat /\ r < g /\ k = g * q + r
  BY <1>1, DivMod
<1> HIDE DEF q, r
<1>3. q < h
  <2> SUFFICES ASSUME h <= q PROVE FALSE
    BY <1>2
  <2>1. g * h <= g * q
    BY <1>2, Monotone
  <2>2. g * h = h * g
    OBVIOUS
  <2> QED
    BY <1>1, <1>2, <2>1, <2>2
<1>4. q * g = g * q
  BY <1>2
<1>5. (start + q * g) + r = b
  BY <1>1, <1>2, <1>4
<1>6. q \in 0 .. h - 1 /\ r \in 0 .. g - 1
  BY <1>2, <1>3
<1> QED
  <2>1. q = (b - start) \div g /\ r = (b - start) % g
    BY DEF q, r
  <2> QED
    BY <1>5, <1>6, <2>1, Zenon DEF Position

------------------------------------------------------------------------------
(* The addresses of the buckets *)

Half == THREADS \div 2

\* The clients of a level share it evenly.
Even(capacity) == capacity = Half * (capacity \div Half)

Reach == [base : Int, len : Int]

\* From position first on, r lists the clients of a level.
Served(r, first, start, capacity) ==
    \A i \in 1 .. Half :
        r[first + i] = [base |-> start + (i - 1) * (capacity \div Half),
                        len |-> capacity \div Half]

\* The two levels, and the new one inside Expand, follow each other in the ids of
\* their buckets and in the list of DMA clients.
GeoInv ==
    /\ bl_capacity_ \in Nat \ {0} /\ Even(bl_capacity_)
    /\ addr_capacity_ = 2 * bl_capacity_
    /\ bl_start_bucket_id_ \in Nat
    /\ tl_start_bucket_id_ = bl_start_bucket_id_ + bl_capacity_
    /\ next_start_bucket_id_ = tl_start_bucket_id_ + addr_capacity_
    /\ region \in Seq(Reach)
    /\ Served(region, 0, bl_start_bucket_id_, bl_capacity_)
    /\ Served(region, Half, tl_start_bucket_id_, addr_capacity_)
    /\ ~Expanding => Len(region) = THREADS
    /\ Expanding =>
          /\ Len(region) = THREADS + Half
          /\ Served(region, THREADS, next_start_bucket_id_, addr_capacity_ * 2)
          /\ DOMAIN host = bl_start_bucket_id_ .. next_start_bucket_id_ + (addr_capacity_ * 2) - 1

LEMMA HalfType == Half \in Nat \ {0} /\ THREADS = Half + Half
<1>1. THREADS \in Nat \ {0} /\ THREADS % 2 = 0
  BY DpuAssumption
<1> QED
  BY <1>1 DEF Half

\* A level twice as large is shared evenly too.
LEMMA EvenDouble ==
    ASSUME NEW c \in Nat \ {0}, Even(c)
    PROVE  2 * c \in Nat \ {0} /\ Even(2 * c)
<1> DEFINE g == c \div Half
<1>1. Half \in Nat \ {0}
  BY HalfType
<1>2. g \in Nat
  BY <1>1, DivMod
<1>3. c = Half * g
  BY DEF Even
<1> HIDE DEF g
<1>4. 2 * c = Half * (2 * g)
  BY <1>1, <1>2, <1>3
<1>5. (Half * (2 * g)) \div Half = 2 * g
  BY <1>1, <1>2, Quotient
<1>6. (2 * c) \div Half = 2 * g
  BY <1>4, <1>5, Zenon
<1>7. 2 * c \in Nat \ {0}
  OBVIOUS
<1> QED
  BY <1>4, <1>6, <1>7, Zenon DEF Even

\* The share of a client is not empty.
LEMMA ShareType ==
    ASSUME NEW c \in Nat \ {0}, Even(c)
    PROVE  c \div Half \in Nat \ {0}
<1> DEFINE g == c \div Half
<1>1. Half \in Nat \ {0}
  BY HalfType
<1>2. g \in Nat
  BY <1>1, DivMod
<1>3. c = Half * g
  BY DEF Even
<1> HIDE DEF g
<1>4. g # 0
  BY <1>1, <1>2, <1>3
<1> QED
  BY <1>2, <1>4 DEF g

\* What GetClientBucket computes for a bucket of a level.
Entry(b, start, capacity, first) ==
    [client |-> ((b - start) \div (capacity \div Half)) + first,
     offset |-> (b - start) % (capacity \div Half)]

\* Entry at is that of bucket b, with one of the Half clients after first.
Hit(r, at, first, b) ==
    /\ at.client + 1 \in first + 1 .. first + Half
    /\ at.offset < r[at.client + 1].len
    /\ r[at.client + 1].base + at.offset = b

\* The bucket at a position of a level that is served from position first on.
LEMMA Finds ==
    ASSUME NEW r, NEW first \in Nat, NEW start \in Nat, NEW c \in Nat \ {0}, Even(c),
           Served(r, first, start, c), NEW b \in start .. start + c - 1
    PROVE  Hit(r, Entry(b, start, c, first), first, b)
<1> DEFINE g == c \div Half
           q == (b - start) \div g
           m == (b - start) % g
<1>1. Half \in Nat \ {0} /\ g \in Nat \ {0}
  BY HalfType, ShareType
<1>2. c = Half * g
  BY DEF Even
<1>3. /\ q \in 0 .. Half - 1
      /\ m \in 0 .. g - 1
      /\ (start + q * g) + m = b
  <2>1. b \in start .. start + Half * g - 1
    BY <1>2, Zenon
  <2> HIDE DEF g
  <2>2. Position(Half, g, start, b)
    BY <1>1, <2>1, Located
  <2> QED
    BY <2>2, Zenon DEF Position
<1>4. \A i \in 1 .. Half : r[first + i] = [base |-> start + (i - 1) * g, len |-> g]
  BY DEF Served
<1> HIDE DEF g, q, m
<1>5. q + 1 \in 1 .. Half /\ first + (q + 1) = (q + first) + 1 /\ (q + 1) - 1 = q
  BY <1>1, <1>3
<1>6. r[(q + first) + 1] = [base |-> start + q * g, len |-> g]
  BY <1>4, <1>5
<1>7. /\ (q + first) + 1 \in first + 1 .. first + Half
      /\ m < g
  BY <1>1, <1>3
<1>8. /\ (q + first) + 1 \in first + 1 .. first + Half
      /\ m < r[(q + first) + 1].len
      /\ r[(q + first) + 1].base + m = b
  <2>1. r[(q + first) + 1].len = g /\ r[(q + first) + 1].base = start + q * g
    BY <1>6
  <2> QED
    BY <1>3, <1>7, <2>1, Zenon
<1> QED
  <2>1. Entry(b, start, c, first).client = q + first /\ Entry(b, start, c, first).offset = m
    BY DEF Entry, g, q, m
  <2> QED
    BY <1>8, <2>1, Zenon DEF Hit

\* GetClientBucket finds every bucket.
LEMMA GeoAddressed == GeoInv => Addressed
<1> SUFFICES ASSUME GeoInv,
                    NEW b \in BucketIds \cup (IF Expanding THEN DOMAIN host ELSE {})
             PROVE  LET at == GetClientBucket(b)
                    IN  /\ at.client + 1 \in DOMAIN region
                        /\ at.offset < region[at.client + 1].len
                        /\ region[at.client + 1].base + at.offset = b
  BY DEF Addressed
<1> DEFINE bl == bl_start_bucket_id_
           tl == tl_start_bucket_id_
           nx == next_start_bucket_id_
           c0 == bl_capacity_
           c1 == addr_capacity_
           c2 == addr_capacity_ * 2
<1>1. /\ Half \in Nat \ {0} /\ THREADS = Half + Half /\ THREADS \in Nat
      /\ bl \in Nat /\ tl \in Nat /\ nx \in Nat
      /\ c0 \in Nat \ {0} /\ c1 \in Nat \ {0} /\ c2 \in Nat \ {0}
      /\ c1 = 2 * c0 /\ c2 = 2 * c1 /\ tl = bl + c0 /\ nx = tl + c1
  BY HalfType DEF GeoInv
<1>2. Even(c0) /\ Even(c1) /\ Even(c2)
  <2>1. Even(c0)
    BY DEF GeoInv
  <2>2. Even(2 * c0)
    BY <1>1, <2>1, EvenDouble
  <2>3. Even(c1)
    BY <1>1, <2>2, Zenon
  <2>4. Even(2 * c1)
    BY <1>1, <2>3, EvenDouble
  <2> QED
    BY <1>1, <2>1, <2>3, <2>4, Zenon
<1>3. /\ Served(region, 0, bl, c0) /\ Served(region, Half, tl, c1)
      /\ Expanding => Served(region, THREADS, nx, c2)
  BY DEF GeoInv
<1>4. /\ \A i \in 0 + 1 .. 0 + Half : i \in DOMAIN region
      /\ \A i \in Half + 1 .. Half + Half : i \in DOMAIN region
      /\ Expanding => \A i \in THREADS + 1 .. THREADS + Half : i \in DOMAIN region
  <2>1. region \in Seq(Reach) /\ (Expanding => Len(region) = THREADS + Half)
        /\ (~Expanding => Len(region) = THREADS)
    BY DEF GeoInv
  <2>2. CASE Expanding
    BY <1>1, <2>1, <2>2
  <2>3. CASE ~Expanding
    BY <1>1, <2>1, <2>3
  <2> QED
    BY <2>2, <2>3
<1>5. bl <= b /\ b \in Int /\ (b < nx \/ (Expanding /\ b < nx + c2))
  BY <1>1 DEF GeoInv, BucketIds, Contents
<1> HIDE DEF bl, tl, nx, c0, c1, c2
<1>6. CASE b < tl
  <2>1. b \in bl .. bl + c0 - 1
    BY <1>1, <1>5, <1>6
  <2>2. GetClientBucket(b) = Entry(b, bl, c0, 0)
    BY <1>6 DEF GetClientBucket, Entry, Half, bl, tl, c0
  <2>3. Hit(region, Entry(b, bl, c0, 0), 0, b)
    BY <1>1, <1>2, <1>3, <2>1, Finds, SMTT(20)
  <2> QED
    BY <1>4, <2>1, <2>2, <2>3, Zenon DEF Hit
<1>7. CASE ~(b < tl) /\ b < tl + c1
  <2>1. b \in tl .. tl + c1 - 1
    BY <1>1, <1>5, <1>7
  <2>2. GetClientBucket(b) = Entry(b, tl, c1, Half)
    BY <1>7 DEF GetClientBucket, Entry, Half, tl, c1
  <2>3. Hit(region, Entry(b, tl, c1, Half), Half, b)
    BY <1>1, <1>2, <1>3, <2>1, Finds, SMTT(20)
  <2> QED
    BY <1>4, <2>1, <2>2, <2>3, Zenon DEF Hit
<1>8. CASE ~(b < tl) /\ ~(b < tl + c1)
  <2>1. Expanding /\ b \in nx .. nx + c2 - 1
    BY <1>1, <1>5, <1>8
  <2>2. GetClientBucket(b) = Entry(b, nx, c2, THREADS)
    BY <1>8 DEF GetClientBucket, Entry, Half, tl, c1, c2, nx
  <2>3. Hit(region, Entry(b, nx, c2, THREADS), THREADS, b)
    BY <1>1, <1>2, <1>3, <2>1, Finds, SMTT(20)
  <2> QED
    BY <1>4, <2>1, <2>2, <2>3, Zenon DEF Hit
<1> QED
  BY <1>6, <1>7, <1>8

------------------------------------------------------------------------------
(* The list of the clients, made and changed *)

Joined(S, s, t, u) ==
    /\ u \in Seq(S) /\ Len(u) = Len(s) + Len(t)
    /\ \A i \in 1 .. Len(s) : u[i] = s[i]
    /\ \A i \in 1 .. Len(t) : u[Len(s) + i] = t[i]

LEMMA ConcatAt ==
    ASSUME NEW S, NEW s \in Seq(S), NEW t \in Seq(S)
    PROVE  Joined(S, s, t, s \o t)
<1>1. /\ s \o t \in Seq(S) /\ Len(s \o t) = Len(s) + Len(t)
      /\ \A i \in 1 .. Len(s) + Len(t) : (s \o t)[i] = IF i <= Len(s) THEN s[i] ELSE t[i - Len(s)]
  BY ConcatProperties, Zenon
<1>2. ASSUME NEW i \in 1 .. Len(s) PROVE (s \o t)[i] = s[i]
  <2>1. i \in 1 .. Len(s) + Len(t) /\ i <= Len(s)
    OBVIOUS
  <2> QED
    BY <1>1, <2>1, Zenon
<1>3. ASSUME NEW i \in 1 .. Len(t) PROVE (s \o t)[Len(s) + i] = t[i]
  <2>1. /\ Len(s) + i \in 1 .. Len(s) + Len(t) /\ ~(Len(s) + i <= Len(s))
        /\ (Len(s) + i) - Len(s) = i
    OBVIOUS
  <2> QED
    BY <1>1, <2>1, Zenon
<1> QED
  BY <1>1, <1>2, <1>3, Zenon DEF Joined

LEMMA RegionsType ==
    ASSUME NEW start \in Int, NEW c \in Nat
    PROVE  /\ Regions(start, c) \in Seq(Reach) /\ Len(Regions(start, c)) = Half
           /\ Served(Regions(start, c), 0, start, c)
<1> DEFINE g == c \div Half
           R == [i \in 1 .. Half |-> [base |-> start + (i - 1) * g, len |-> g]]
<1>1. Half \in Nat \ {0} /\ g \in Int
  BY HalfType
<1>2. Regions(start, c) = R
  BY DEF Regions, Half
<1>3. \A i \in 1 .. Half : 0 + i = i
  BY <1>1
<1> HIDE DEF g
<1>4. \A i \in 1 .. Half : [base |-> start + (i - 1) * g, len |-> g] \in Reach
  BY <1>1 DEF Reach
<1>5. R \in Seq(Reach) /\ Len(R) = Half
  BY <1>1, <1>4
<1>6. \A i \in 1 .. Half : R[0 + i] = [base |-> start + (i - 1) * g, len |-> g]
  BY <1>3, Zenon
<1> QED
  BY <1>2, <1>5, <1>6, Zenon DEF Served, g

\* The clients of a level are added behind the others.
Extended(s, r, start, c) ==
    /\ s \in Seq(Reach) /\ Len(s) = Len(r) + Half
    /\ \A i \in 1 .. Len(r) : s[i] = r[i]
    /\ Served(s, Len(r), start, c)

LEMMA ServedConcat ==
    ASSUME NEW r \in Seq(Reach), NEW start \in Int, NEW c \in Nat
    PROVE  Extended(r \o Regions(start, c), r, start, c)
<1> DEFINE t == Regions(start, c)
           s == r \o t
<1>1. t \in Seq(Reach) /\ Len(t) = Half /\ Served(t, 0, start, c)
  BY RegionsType
<1> HIDE DEF t, s
<1>2. /\ s \in Seq(Reach) /\ Len(s) = Len(r) + Len(t)
      /\ \A i \in 1 .. Len(r) : s[i] = r[i]
      /\ \A i \in 1 .. Len(t) : s[Len(r) + i] = t[i]
  <2>1. s = r \o t
    BY DEF s
  <2>2. Joined(Reach, r, t, r \o t)
    BY <1>1, ConcatAt, Zenon
  <2> QED
    BY <2>1, <2>2, Zenon DEF Joined
<1>3. \A i \in 1 .. Half : 0 + i = i /\ i \in 1 .. Half
  BY HalfType
<1>4. \A i \in 1 .. Half : s[Len(r) + i] = t[0 + i]
  BY <1>1, <1>2, <1>3, Zenon
<1>5. Served(s, Len(r), start, c)
  BY <1>1, <1>4, Zenon DEF Served
<1> QED
  BY <1>1, <1>2, <1>5, Zenon DEF Extended, s, t

LEMMA InitGeo == Init => GeoInv
<1> SUFFICES ASSUME Init PROVE GeoInv
  OBVIOUS
<1> DEFINE p == 2^(START_LEVEL - 1)
           R0 == Regions(bl_start_bucket_id_, bl_capacity_)
<1>1. START_LEVEL \in Nat /\ START_LEVEL >= 3 /\ p % Half = 0
  BY DpuAssumption DEF Half
<1>2. /\ p \in Nat /\ p >= 4
      /\ 2^START_LEVEL = p + p /\ 2^(START_LEVEL + 1) = (p + p) + (p + p)
  <2> DEFINE m == START_LEVEL - 3
  <2>1. /\ m \in Nat /\ m + 1 \in Nat /\ (m + 1) + 1 = START_LEVEL - 1
        /\ START_LEVEL - 1 \in Nat /\ (START_LEVEL - 1) + 1 = START_LEVEL
    BY <1>1
  <2> HIDE DEF m
  <2>2. 2^m \in Nat /\ 2^m > 0
    BY <2>1, PowPositive
  <2>3. 2^(m + 1) = 2^m + 2^m
    BY <2>1, PowDouble
  <2>4. 2^((m + 1) + 1) = 2^(m + 1) + 2^(m + 1)
    BY <2>1, PowDouble, Zenon
  <2>5. p = 2^(m + 1) + 2^(m + 1)
    BY <2>1, <2>4, Zenon
  <2>6. 2^((START_LEVEL - 1) + 1) = p + p
    BY <2>1, PowDouble, Zenon
  <2>7. 2^(START_LEVEL + 1) = 2^START_LEVEL + 2^START_LEVEL
    BY <1>1, PowDouble, Zenon
  <2> HIDE DEF p
  <2>8. 2^START_LEVEL = p + p
    BY <2>1, <2>6, Zenon
  <2>9. p \in Nat /\ p >= 4
    BY <2>2, <2>3, <2>5
  <2> QED
    BY <2>7, <2>8, <2>9, Zenon
<1>3. Half \in Nat \ {0} /\ THREADS = Half + Half
  BY HalfType
<1>4. /\ bl_capacity_ = p /\ addr_capacity_ = p + p
      /\ bl_start_bucket_id_ = p - 4
      /\ tl_start_bucket_id_ = (p + p) - 4
      /\ next_start_bucket_id_ = ((p + p) + (p + p)) - 4
      /\ pc = "idle"
      /\ region = R0 \o Regions(tl_start_bucket_id_, addr_capacity_)
  BY <1>2, Zenon DEF Init
<1>5. p = Half * (p \div Half)
  <2> HIDE DEF p
  <2>1. p = Half * (p \div Half) + (p % Half) /\ p \div Half \in Nat
    BY <1>2, <1>3, DivMod, Zenon
  <2>2. Half * (p \div Half) \in Nat
    BY <1>3, <2>1
  <2> QED
    BY <1>1, <2>1, <2>2
<1> HIDE DEF p
<1>6. /\ bl_capacity_ \in Nat \ {0} /\ Even(bl_capacity_)
      /\ addr_capacity_ = 2 * bl_capacity_ /\ addr_capacity_ \in Nat
      /\ bl_start_bucket_id_ \in Nat /\ tl_start_bucket_id_ \in Nat
      /\ tl_start_bucket_id_ = bl_start_bucket_id_ + bl_capacity_
      /\ next_start_bucket_id_ = tl_start_bucket_id_ + addr_capacity_
  <2>1. Even(bl_capacity_)
    BY <1>4, <1>5, Zenon DEF Even
  <2> QED
    BY <1>2, <1>4, <2>1
<1>7. R0 \in Seq(Reach) /\ Len(R0) = Half /\ Served(R0, 0, bl_start_bucket_id_, bl_capacity_)
  <2>1. bl_start_bucket_id_ \in Int /\ bl_capacity_ \in Nat
    BY <1>6
  <2> QED
    BY <2>1, RegionsType, Zenon
<1> HIDE DEF R0
<1>8. /\ region \in Seq(Reach) /\ Len(region) = Len(R0) + Half
      /\ \A i \in 1 .. Len(R0) : region[i] = R0[i]
      /\ Served(region, Len(R0), tl_start_bucket_id_, addr_capacity_)
  <2>1. tl_start_bucket_id_ \in Int
    BY <1>6
  <2>2. Extended(region, R0, tl_start_bucket_id_, addr_capacity_)
    BY <1>4, <1>6, <1>7, <2>1, ServedConcat, Zenon
  <2> QED
    BY <2>2, Zenon DEF Extended
<1>9. \A i \in 1 .. Half : region[0 + i] = R0[0 + i]
  BY <1>3, <1>7, <1>8
<1>10. Served(region, 0, bl_start_bucket_id_, bl_capacity_)
  BY <1>7, <1>9, Zenon DEF Served
<1>11. ~Expanding
  BY <1>4 DEF Expanding
<1>12. Len(region) = THREADS /\ Served(region, Half, tl_start_bucket_id_, addr_capacity_)
  BY <1>3, <1>7, <1>8, Zenon
<1> QED
  BY <1>6, <1>8, <1>10, <1>11, <1>12, Zenon DEF GeoInv

\* A step that changes neither the geometry nor the clients.
Keeps ==
    /\ UNCHANGED <<level_, addr_capacity_, bl_capacity_, bl_start_bucket_id_,
                   tl_start_bucket_id_, next_start_bucket_id_, region>>
    /\ DOMAIN host' = DOMAIN host
    /\ Expanding' <=> Expanding

LEMMA GeoKept ==
    ASSUME GeoInv, Keeps
    PROVE  GeoInv'
BY Zenon DEF GeoInv, Keeps, Served, Even

LEMMA GeoExpandBegin ==
    ASSUME GeoInv, pc = "idle", ExpandBegin, UNCHANGED geometry
    PROVE  GeoInv'
<1> DEFINE nx == next_start_bucket_id_
           c2 == addr_capacity_ * 2
<1>1. ~Expanding /\ Expanding'
  BY DEF Expanding, ExpandBegin
<1>2. Half \in Nat \ {0} /\ THREADS = Half + Half /\ nx \in Int /\ c2 \in Nat
  BY HalfType DEF GeoInv
<1>3. /\ region \in Seq(Reach) /\ Len(region) = THREADS
      /\ Served(region, 0, bl_start_bucket_id_, bl_capacity_)
      /\ Served(region, Half, tl_start_bucket_id_, addr_capacity_)
  BY <1>1 DEF GeoInv
<1> HIDE DEF nx, c2
<1>4. Extended(region', region, nx, c2)
  <2>1. region' = region \o Regions(nx, c2)
    BY DEF ExpandBegin, nx, c2
  <2> QED
    BY <1>2, <1>3, <2>1, ServedConcat, Zenon
<1>5. /\ region' \in Seq(Reach) /\ Len(region') = THREADS + Half
      /\ \A i \in 1 .. THREADS : region'[i] = region[i]
      /\ Served(region', THREADS, nx, c2)
  BY <1>3, <1>4, Zenon DEF Extended
<1>6. Served(region', 0, bl_start_bucket_id_, bl_capacity_)
  <2>1. \A i \in 1 .. Half : region'[0 + i] = region[0 + i]
    BY <1>2, <1>5
  <2> QED
    BY <1>3, <2>1, Zenon DEF Served
<1>7. Served(region', Half, tl_start_bucket_id_, addr_capacity_)
  <2>1. \A i \in 1 .. Half : region'[Half + i] = region[Half + i]
    BY <1>2, <1>5
  <2> QED
    BY <1>3, <2>1, Zenon DEF Served
<1>8. DOMAIN host' = bl_start_bucket_id_ .. next_start_bucket_id_ + (addr_capacity_ * 2) - 1
  BY DEF ExpandBegin
<1>9. UNCHANGED <<level_, addr_capacity_, bl_capacity_, bl_start_bucket_id_,
                  tl_start_bucket_id_, next_start_bucket_id_>>
  BY DEF geometry
<1>10. /\ bl_capacity_ \in Nat \ {0} /\ Even(bl_capacity_)
       /\ addr_capacity_ = 2 * bl_capacity_
       /\ bl_start_bucket_id_ \in Nat
       /\ tl_start_bucket_id_ = bl_start_bucket_id_ + bl_capacity_
       /\ next_start_bucket_id_ = tl_start_bucket_id_ + addr_capacity_
  BY DEF GeoInv
<1> QED
  BY <1>1, <1>5, <1>6, <1>7, <1>8, <1>9, <1>10, Zenon DEF GeoInv, nx, c2, Even, Served

LEMMA GeoExpandEnd ==
    ASSUME GeoInv, ExpandEnd
    PROVE  GeoInv'
<1> DEFINE c0 == bl_capacity_
<1>1. Expanding /\ ~Expanding'
  BY DEF Expanding, ExpandEnd
<1>2. Half \in Nat \ {0} /\ THREADS = Half + Half
  BY HalfType
<1>3. /\ region \in Seq(Reach) /\ Len(region) = THREADS + Half
      /\ Served(region, Half, tl_start_bucket_id_, addr_capacity_)
      /\ Served(region, THREADS, next_start_bucket_id_, addr_capacity_ * 2)
  BY <1>1 DEF GeoInv
<1>4. /\ c0 \in Nat \ {0} /\ Even(c0) /\ addr_capacity_ = 2 * c0
      /\ bl_start_bucket_id_ \in Nat
      /\ tl_start_bucket_id_ = bl_start_bucket_id_ + c0
      /\ next_start_bucket_id_ = tl_start_bucket_id_ + addr_capacity_
  BY DEF GeoInv
<1>5. /\ addr_capacity_' = addr_capacity_ * 2 /\ bl_capacity_' = c0 * 2
      /\ bl_start_bucket_id_' = tl_start_bucket_id_
      /\ tl_start_bucket_id_' = next_start_bucket_id_
      /\ next_start_bucket_id_' = tl_start_bucket_id_' + addr_capacity_'
      /\ region' = SubSeq(region, 1 + Half, Len(region))
  BY DEF ExpandEnd, Half
<1> HIDE DEF c0
<1>6. /\ region' \in Seq(Reach) /\ Len(region') = THREADS
      /\ \A i \in 1 .. THREADS : region'[i] = region[Half + i]
  BY <1>2, <1>3, <1>5
<1>7. Served(region', 0, tl_start_bucket_id_, addr_capacity_)
  <2>1. \A i \in 1 .. Half : region'[0 + i] = region[Half + i]
    BY <1>2, <1>6
  <2> QED
    BY <1>3, <2>1, Zenon DEF Served
<1>8. Served(region', Half, next_start_bucket_id_, addr_capacity_ * 2)
  <2>1. \A i \in 1 .. Half : region'[Half + i] = region[THREADS + i]
    <3> SUFFICES ASSUME NEW i \in 1 .. Half PROVE region'[Half + i] = region[THREADS + i]
      OBVIOUS
    <3>1. Half + i \in 1 .. THREADS /\ Half + (Half + i) = THREADS + i
      BY <1>2
    <3> QED
      BY <1>6, <3>1, Zenon
  <2> QED
    BY <1>3, <2>1, Zenon DEF Served
<1>9. 2 * c0 \in Nat \ {0} /\ Even(2 * c0)
  BY <1>4, EvenDouble, Zenon
<1>10. c0 * 2 = 2 * c0 /\ addr_capacity_ * 2 = 2 * (2 * c0) /\ tl_start_bucket_id_ \in Nat
  BY <1>4
<1>11. /\ bl_capacity_' = addr_capacity_ /\ bl_capacity_' \in Nat \ {0} /\ Even(bl_capacity_')
       /\ addr_capacity_' = 2 * bl_capacity_'
       /\ bl_start_bucket_id_' \in Nat
       /\ tl_start_bucket_id_' = bl_start_bucket_id_' + bl_capacity_'
  BY <1>4, <1>5, <1>9, <1>10, Zenon
<1> QED
  BY <1>1, <1>5, <1>6, <1>7, <1>8, <1>11, Zenon DEF GeoInv, Even, Served

LEMMA GeoStep == GeoInv /\ [Next]_vars => GeoInv'
<1> SUFFICES ASSUME GeoInv, [Next]_vars PROVE GeoInv'
  OBVIOUS
<1> USE DEF vars, frames, table, geometry, memory, fetches, work
<1>1. ASSUME NEW k \in Key, ProcessSearch(k) \/ ProcessDelete(k) PROVE Keeps
  BY <1>1, Zenon DEF ProcessSearch, ProcessDelete, Missed, StartFetches, Keeps, Expanding
<1>2. ASSUME NEW k \in Key, NEW v \in Value, ProcessInsert(k, v) PROVE Keeps \/ GeoInv'
  <2>1. CASE ExpandBegin
    BY <1>2, <2>1, GeoExpandBegin DEF ProcessInsert
  <2>2. CASE ~ExpandBegin
    BY <1>2, <2>2, Zenon DEF ProcessInsert, Keeps, Expanding
  <2> QED
    BY <2>1, <2>2
<1>3. ASSUME End PROVE Keeps
  BY <1>3 DEF End, Keeps, Expanding
<1>4. ASSUME Fetch PROVE Keeps
  BY <1>4, Zenon DEF Fetch, FetchBucket, Fill, NewBucket, Keeps, Expanding
<1>5. ASSUME Flushed PROVE Keeps
  BY <1>5 DEF Flushed, Fill, NewBucket, Keeps, Expanding
<1>6. ASSUME GetSearch \/ SearchDone \/ GetDelete \/ DeleteDone PROVE Keeps
  BY <1>6, ZenonT(30) DEF GetSearch, SearchDone, GetDelete, DeleteDone, Waited, AllTaken, Finish,
     Keeps, Expanding
<1>7. ASSUME TryTop \/ GetTry \/ Try PROVE Keeps
  BY <1>7, Zenon DEF TryTop, GetTry, Try, TryNext, Waited, AllTaken, Inserted, Finish,
     StartFetches, Keeps, Expanding
<1>8. ASSUME MoveSource \/ GetMove \/ MoveEntry \/ MoveFail PROVE Keeps
  BY <1>8, ZenonT(30) DEF MoveSource, GetMove, MoveEntry, MoveFail, Waited, Inserted, Finish,
     StartFetches, Keeps, Expanding
<1>9. ASSUME ExpandBucket \/ GetBottom \/ SplitSlot \/ GetSplit \/ SplitTaken \/ SplitDone
      PROVE  Keeps
  BY <1>9 DEF ExpandBucket, GetBottom, SplitSlot, GetSplit, SplitTaken, SplitDone,
     Waited, AllTaken, StartFetches, Keeps, Expanding
<1>10. ASSUME NEW c \in DOMAIN queue, NEW success \in BOOLEAN, DmaTask(c, success)
       PROVE  Keeps
  BY <1>10 DEF DmaTask, Keeps, Expanding
<1>11. ASSUME UNCHANGED vars PROVE Keeps
  BY <1>11 DEF Keeps, Expanding
<1>12. CASE ExpandEnd
  BY <1>12, GeoExpandEnd
<1> QED
  BY <1>1, <1>2, <1>3, <1>4, <1>5, <1>6, <1>7, <1>8, <1>9, <1>10, <1>11, <1>12, GeoKept, Zenon
     DEF Next, Requests, Worker

\* The client and the offset that GetClientBucket computes for a bucket are where the
\* host exported it, before, during and after every Expand, whatever the level the
\* store starts at and the number of DMA clients.
THEOREM AlwaysAddressed == Spec => []Addressed
<1>1. Spec => []GeoInv
  BY InitGeo, GeoStep, PTL DEF Spec
<1> QED
  BY <1>1, GeoAddressed, PTL

------------------------------------------------------------------------------
(* The frames *)

In(l, f) == \E i \in 1 .. Len(l) : l[i] = f

Within(l, f, n) == \E i \in 1 .. Len(l) : i <= n /\ l[i] = f

Distinct(l) == \A i, j \in 1 .. Len(l) : l[i] = l[j] => i = j

IsSeq(s) == s \in Seq({s[i] : i \in DOMAIN s})

\* A frame is free or in the replacer's list, not both, and once.
Split(lru, free) ==
    /\ lru \in Seq(Frames) /\ Distinct(lru)
    /\ free \in Seq(Frames) /\ Distinct(free)
    /\ \A f \in Frames : In(lru, f) <=> ~In(free, f)
    /\ Len(lru) + Len(free) = CACHE_SIZE

\* The table gives frames that are in use and hold its buckets.
Entered(t, ids, lru) ==
    /\ t = [b \in DOMAIN t |-> t[b]]
    /\ \A b \in DOMAIN t : In(lru, t[b]) /\ ids[t[b]] = b

FrameInv ==
    /\ bucket_ids_ = [f \in Frames |-> bucket_ids_[f]]
    /\ Split(lru_, free_list_)
    /\ Entered(bucket_table_, bucket_ids_, lru_)

\* What the worker waits for, when n frames were visited last: the frame of a fetch
\* that is not taken over yet is among the n most recent ones, and is its bucket's.
Awaited(fs, ids, lru, n) ==
    \A i \in 1 .. Len(fs) :
        /\ fs[i] = Visited(fs[i].bucket, fs[i].frame, fs[i].state)
        /\ fs[i].state # "cached" =>
              Within(lru, fs[i].frame, n) /\ ids[fs[i].frame] = fs[i].bucket

\* A round of fetches: at most four buckets, some visited, some still to be visited.
Round ==
    /\ IsSeq(todo) /\ IsSeq(futures) /\ got \in Nat
    /\ Len(futures) + Len(todo) <= 4

Rounds ==
    /\ pc = "fetch" => Round /\ Awaited(futures, bucket_ids_, lru_, Len(futures))
    /\ pc = "flush" =>
          /\ Round /\ todo # Nil
          /\ Awaited(futures, bucket_ids_, lru_, Len(futures) + 1)
          /\ claim = [bucket |-> claim.bucket, frame |-> claim.frame,
                      old |-> claim.old, flushed |-> claim.flushed]
          /\ claim.frame \in Frames /\ Within(lru_, claim.frame, 1)
          /\ bucket_ids_[claim.frame] = claim.bucket

\* The same frames, in another order; or one more.
Reordered(l, m) ==
    /\ m \in Seq(Frames) /\ Distinct(m) /\ Len(m) = Len(l)
    /\ \A g \in Frames : In(m, g) <=> In(l, g)

Extends(l, m, f) ==
    /\ m \in Seq(Frames) /\ Distinct(m) /\ Len(m) = Len(l) + 1
    /\ \A g \in Frames : In(m, g) <=> (In(l, g) \/ g = f)

\* Frame f is now the most recent one, and the others are at most one place further.
Fronted(l, m, f) ==
    /\ Within(m, f, 1)
    /\ \A g \in Frames, n \in Nat : Within(l, g, n) => Within(m, g, n + 1)

\* An access to a frame of the replacer's list.
LEMMA AccessPresent ==
    ASSUME NEW l \in Seq(Frames), Distinct(l), NEW f \in Frames, In(l, f)
    PROVE  Reordered(l, RecordAccess(l, f)) /\ Fronted(l, RecordAccess(l, f), f)
<1> DEFINE at == {i \in 1 .. Len(l) : l[i] = f}
           p == CHOOSE i \in at : TRUE
           m == RecordAccess(l, f)
<1>1. at # {}
  BY DEF In
<1>2. p \in 1 .. Len(l) /\ l[p] = f
  BY <1>1, SMTT(30)
<1>3. m = [i \in 1 .. Len(l) |-> IF i = 1 THEN f ELSE IF i <= p THEN l[i - 1] ELSE l[i]]
  BY <1>1, Zenon DEF RecordAccess
<1> HIDE DEF at, p, m
<1>4. Len(l) \in Nat /\ \A i \in 1 .. Len(l) : l[i] \in Frames
  OBVIOUS
<1>5. \A i \in 1 .. Len(l) : m[i] = IF i = 1 THEN f ELSE IF i <= p THEN l[i - 1] ELSE l[i]
  BY <1>3
<1>6. m \in Seq(Frames) /\ Len(m) = Len(l)
  <2>1. \A i \in 1 .. Len(l) : (IF i = 1 THEN f ELSE IF i <= p THEN l[i - 1] ELSE l[i]) \in Frames
    BY <1>2, <1>4
  <2> QED
    BY <1>3, <1>4, <2>1
<1>7. Distinct(m)
  <2> SUFFICES ASSUME NEW i \in 1 .. Len(l), NEW j \in 1 .. Len(l), m[i] = m[j], i < j
               PROVE  FALSE
    BY <1>6 DEF Distinct
  <2>1. \A x, y \in 1 .. Len(l) : l[x] = l[y] => x = y
    BY DEF Distinct
  <2> QED
    BY <1>2, <1>4, <1>5, <2>1
<1>8. \A g \in Frames, i \in 1 .. Len(l) : l[i] = g =>
         \E j \in 1 .. Len(l) : m[j] = g /\ j <= i + 1
  <2> SUFFICES ASSUME NEW i \in 1 .. Len(l)
               PROVE  \E j \in 1 .. Len(l) : m[j] = l[i] /\ j <= i + 1
    BY SMTT(30)
  <2>1. CASE i < p
    <3>1. i + 1 \in 1 .. Len(l) /\ i + 1 # 1 /\ i + 1 <= p /\ (i + 1) - 1 = i
      BY <1>2, <1>4, <2>1
    <3>2. m[i + 1] = l[i]
      BY <1>5, <3>1, Zenon
    <3> QED
      BY <3>1, <3>2
  <2>2. CASE i = p
    BY <1>2, <1>5, <2>2
  <2>3. CASE i > p
    BY <1>2, <1>5, <2>3
  <2> QED
    BY <1>2, <2>1, <2>2, <2>3
<1>9. \A j \in 1 .. Len(l) : \E i \in 1 .. Len(l) : l[i] = m[j]
  <2> SUFFICES ASSUME NEW j \in 1 .. Len(l) PROVE \E i \in 1 .. Len(l) : l[i] = m[j]
    OBVIOUS
  <2>1. CASE j = 1
    BY <1>2, <1>5, <2>1
  <2>2. CASE j # 1 /\ j <= p
    <3>1. j - 1 \in 1 .. Len(l)
      BY <1>2, <2>2
    <3> QED
      BY <1>5, <2>2, <3>1
  <2>3. CASE j # 1 /\ ~(j <= p)
    BY <1>5, <2>3
  <2> QED
    BY <2>1, <2>2, <2>3
<1>10. \A g \in Frames : In(m, g) <=> In(l, g)
  BY <1>6, <1>8, <1>9, Zenon DEF In
<1>11. Within(m, f, 1)
  BY <1>2, <1>5, <1>6 DEF Within
<1>12. \A g \in Frames, n \in Nat : Within(l, g, n) => Within(m, g, n + 1)
  <2> SUFFICES ASSUME NEW g \in Frames, NEW n \in Nat, Within(l, g, n)
               PROVE  Within(m, g, n + 1)
    OBVIOUS
  <2>1. PICK i \in 1 .. Len(l) : i <= n /\ l[i] = g
    BY DEF Within
  <2>2. PICK j \in 1 .. Len(l) : m[j] = g /\ j <= i + 1
    BY <1>8, <2>1
  <2>3. j \in 1 .. Len(m) /\ j <= n + 1
    BY <1>6, <2>1, <2>2
  <2> QED
    BY <2>2, <2>3 DEF Within
<1> QED
  BY <1>6, <1>7, <1>10, <1>11, <1>12 DEF Reordered, Fronted, m

\* A frame that was free enters the replacer's list.
LEMMA AccessAbsent ==
    ASSUME NEW l \in Seq(Frames), Distinct(l), NEW f \in Frames, ~In(l, f)
    PROVE  Extends(l, RecordAccess(l, f), f) /\ Fronted(l, RecordAccess(l, f), f)
<1> DEFINE at == {i \in 1 .. Len(l) : l[i] = f}
           N == Len(l) + 1
           m == RecordAccess(l, f)
<1>1. at = {}
  BY SMTT(30) DEF In
<1>2. m = [i \in 1 .. N |-> IF i = 1 THEN f ELSE IF i <= N THEN l[i - 1] ELSE l[i]]
  BY <1>1 DEF RecordAccess
<1>3. Len(l) \in Nat /\ (\A i \in 1 .. Len(l) : l[i] \in Frames /\ l[i] # f) /\ N \in Nat
  BY DEF In
<1> HIDE DEF at, m
<1>4. \A i \in 1 .. N : m[i] = IF i = 1 THEN f ELSE l[i - 1]
  BY <1>2, <1>3
<1>5. m \in Seq(Frames) /\ Len(m) = N
  <2>1. \A i \in 1 .. N :
           (IF i = 1 THEN f ELSE IF i <= N THEN l[i - 1] ELSE l[i]) \in Frames
    BY <1>3
  <2> HIDE DEF N
  <2> QED
    BY <1>2, <1>3, <2>1
<1>6. Distinct(m)
  <2> SUFFICES ASSUME NEW i \in 1 .. N, NEW j \in 1 .. N, m[i] = m[j], i < j
               PROVE  FALSE
    BY <1>5 DEF Distinct
  <2>1. \A x, y \in 1 .. Len(l) : l[x] = l[y] => x = y
    BY DEF Distinct
  <2> QED
    BY <1>3, <1>4, <2>1
<1>7. \A i \in 1 .. Len(l) : i + 1 \in 1 .. N /\ m[i + 1] = l[i]
  BY <1>3, <1>4
<1>8. m[1] = f /\ 1 \in 1 .. N
  BY <1>3, <1>4
<1>9. \A j \in 1 .. N : j = 1 \/ (j - 1 \in 1 .. Len(l) /\ l[j - 1] = m[j])
  BY <1>3, <1>4
<1> HIDE DEF N
<1>10. \A g \in Frames : In(m, g) <=> (In(l, g) \/ g = f)
  BY <1>5, <1>7, <1>8, <1>9 DEF In
<1>11. Within(m, f, 1)
  BY <1>5, <1>8 DEF Within
<1>12. \A g \in Frames, n \in Nat : Within(l, g, n) => Within(m, g, n + 1)
  BY <1>3, <1>5, <1>7 DEF Within
<1> QED
  BY <1>5, <1>6, <1>10, <1>11, <1>12 DEF Extends, Fronted, m, N

LEMMA FramesOfList ==
    ASSUME NEW l \in Seq(Frames), NEW f, In(l, f) \/ (\E n \in Nat : Within(l, f, n))
    PROVE  f \in Frames /\ In(l, f)
BY DEF In, Within

LEMMA SplitReordered ==
    ASSUME NEW l, NEW m, NEW free, Split(l, free), Reordered(l, m)
    PROVE  Split(m, free)
BY Zenon DEF Split, Reordered

LEMMA EnteredReordered ==
    ASSUME NEW l \in Seq(Frames), NEW m, NEW t, NEW ids, Entered(t, ids, l), Reordered(l, m)
    PROVE  Entered(t, ids, m)
<1>1. ASSUME NEW b \in DOMAIN t PROVE In(m, t[b])
  <2>1. In(l, t[b])
    BY DEF Entered
  <2>2. t[b] \in Frames
    BY <2>1, FramesOfList
  <2> QED
    BY <2>1, <2>2, Zenon DEF Reordered
<1> QED
  BY <1>1, Zenon DEF Entered

LEMMA ReorderedAgain ==
    ASSUME NEW l, NEW m, NEW o, Reordered(l, m), Reordered(m, o)
    PROVE  Reordered(l, o)
BY Zenon DEF Reordered

LEMMA AwaitedFronted ==
    ASSUME NEW fs, NEW ids, NEW l \in Seq(Frames), NEW m, NEW f, NEW n \in Nat,
           Awaited(fs, ids, l, n), Fronted(l, m, f)
    PROVE  Awaited(fs, ids, m, n + 1)
<1>1. ASSUME NEW i \in 1 .. Len(fs), fs[i].state # "cached"
      PROVE  Within(m, fs[i].frame, n + 1)
  <2>1. Within(l, fs[i].frame, n)
    BY <1>1, Zenon DEF Awaited
  <2>2. fs[i].frame \in Frames
    BY <2>1, FramesOfList
  <2> QED
    BY <2>1, <2>2, Zenon DEF Fronted
<1> QED
  BY <1>1, Zenon DEF Awaited

LEMMA SeqIsSeq ==
    ASSUME NEW S, NEW s \in Seq(S)
    PROVE  IsSeq(s)
<1> DEFINE T == {s[i] : i \in DOMAIN s}
<1>1. Len(s) \in Nat /\ DOMAIN s = 1 .. Len(s) /\ s = [i \in 1 .. Len(s) |-> s[i]]
  OBVIOUS
<1>2. \A i \in 1 .. Len(s) : s[i] \in T
  BY <1>1
<1> HIDE DEF T
<1>3. s \in [1 .. Len(s) -> T]
  BY <1>1, <1>2
<1>4. s \in Seq(T)
  BY <1>1, <1>3
<1> QED
  BY <1>4, Zenon DEF IsSeq, T

\* The lookups of a request reorder the replacer's list.
LEMMA LookedUpReordered ==
    ASSUME FrameInv, NEW k, NEW n
    PROVE  Reordered(lru_, LookedUp(k, n))
<1> DEFINE b(i) == Get4Buckets(k)[i]
           Visit(l, i) == IF i <= n /\ Cached(b(i)) THEN RecordAccess(l, bucket_table_[b(i)]) ELSE l
<1>1. LookedUp(k, n) = Visit(Visit(Visit(Visit(lru_, 1), 2), 3), 4)
  BY Zenon DEF LookedUp
<1>2. Reordered(lru_, lru_) /\ lru_ \in Seq(Frames)
  BY Zenon DEF FrameInv, Split, Reordered
<1>3. ASSUME NEW l, NEW i, Reordered(lru_, l) PROVE Reordered(lru_, Visit(l, i))
  <2>1. CASE i <= n /\ Cached(b(i))
    <3> DEFINE f == bucket_table_[b(i)]
    <3>1. In(lru_, f)
      BY <2>1, Zenon DEF FrameInv, Entered, Cached
    <3> HIDE DEF f
    <3>2. f \in Frames
      BY <1>2, <3>1, FramesOfList
    <3>3. l \in Seq(Frames) /\ Distinct(l) /\ In(l, f)
      BY <1>3, <3>1, <3>2, Zenon DEF Reordered
    <3>4. Reordered(l, RecordAccess(l, f))
      BY <3>2, <3>3, AccessPresent, Zenon
    <3>5. Visit(l, i) = RecordAccess(l, f)
      BY <2>1, Zenon DEF f
    <3> HIDE DEF Visit
    <3> QED
      BY <1>3, <3>4, <3>5, ReorderedAgain, Zenon
  <2>2. CASE ~(i <= n /\ Cached(b(i)))
    <3>1. Visit(l, i) = l
      BY <2>2, Zenon
    <3> QED
      BY <1>3, <3>1, Zenon
  <2> QED
    BY <2>1, <2>2, Zenon
<1> HIDE DEF Visit
<1> QED
  BY <1>1, <1>2, <1>3, Zenon

------------------------------------------------------------------------------
(* Rounds of fetches *)

LEMMA AppendIsSeq ==
    ASSUME NEW s, IsSeq(s), NEW x
    PROVE  /\ IsSeq(Append(s, x)) /\ Len(s) \in Nat /\ Len(Append(s, x)) = Len(s) + 1
           /\ \A i \in 1 .. Len(s) : Append(s, x)[i] = s[i]
           /\ Append(s, x)[Len(s) + 1] = x
<1> DEFINE T == {s[i] : i \in DOMAIN s}
           U == T \cup {x}
<1>1. s \in Seq(T)
  BY DEF IsSeq
<1> HIDE DEF T
<1>2. s \in Seq(U)
  BY <1>1
<1>3. x \in U
  OBVIOUS
<1> HIDE DEF U
<1>4. /\ Append(s, x) \in Seq(U) /\ Len(s) \in Nat /\ Len(Append(s, x)) = Len(s) + 1
      /\ \A i \in 1 .. Len(s) : Append(s, x)[i] = s[i]
      /\ Append(s, x)[Len(s) + 1] = x
  BY <1>2, <1>3
<1> QED
  BY <1>4, SeqIsSeq, Zenon

LEMMA TailIsSeq ==
    ASSUME NEW s, IsSeq(s), s # Nil
    PROVE  IsSeq(Tail(s)) /\ Len(s) \in Nat \ {0} /\ Len(Tail(s)) = Len(s) - 1
<1> DEFINE T == {s[i] : i \in DOMAIN s}
<1>1. s \in Seq(T) /\ s # <<>>
  BY DEF IsSeq, Nil
<1> HIDE DEF T
<1>2. Tail(s) \in Seq(T) /\ Len(s) \in Nat \ {0} /\ Len(Tail(s)) = Len(s) - 1
  BY <1>1
<1> QED
  BY <1>2, SeqIsSeq, Zenon

\* A bucket was visited.
LEMMA AwaitedAppend ==
    ASSUME NEW fs, IsSeq(fs), NEW ids, NEW l, NEW b, NEW f, NEW s,
           Awaited(fs, ids, l, Len(fs) + 1),
           s # "cached" => Within(l, f, 1) /\ ids[f] = b
    PROVE  Awaited(Append(fs, Visited(b, f, s)), ids, l, Len(fs) + 1)
<1> DEFINE v == Visited(b, f, s)
           gs == Append(fs, v)
           n == Len(fs) + 1
<1>1. v.bucket = b /\ v.frame = f /\ v.state = s /\ v = Visited(v.bucket, v.frame, v.state)
  BY DEF Visited
<1> HIDE DEF v
<1>2. /\ Len(fs) \in Nat /\ Len(gs) = Len(fs) + 1
      /\ \A i \in 1 .. Len(fs) : gs[i] = fs[i]
      /\ gs[Len(fs) + 1] = v
  BY AppendIsSeq, ZenonT(40)
<1>3. s # "cached" => Within(l, f, n)
  BY <1>2 DEF Within
<1> HIDE DEF gs, n
<1>4. \A i \in 1 .. Len(gs) : i \in 1 .. Len(fs) \/ i = Len(fs) + 1
  BY <1>2
<1>5. \A i \in 1 .. Len(fs) :
        /\ gs[i] = Visited(gs[i].bucket, gs[i].frame, gs[i].state)
        /\ gs[i].state # "cached" =>
              Within(l, gs[i].frame, n) /\ ids[gs[i].frame] = gs[i].bucket
  BY <1>2, Zenon DEF Awaited, n
<1>6. Awaited(gs, ids, l, n)
  BY <1>1, <1>2, <1>3, <1>4, <1>5, Zenon DEF Awaited
<1> QED
  BY <1>6, Zenon DEF gs, n, v

LEMMA EnteredPut ==
    ASSUME NEW t, NEW ids, NEW l, Entered(t, ids, l), NEW b, NEW f, In(l, f), ids[f] = b
    PROVE  Entered(Put(t, b, f), ids, l)
<1> DEFINE u == Put(t, b, f)
<1>1. /\ DOMAIN u = DOMAIN t \cup {b} /\ u = [x \in DOMAIN u |-> u[x]]
      /\ \A x \in DOMAIN u : u[x] = IF x = b THEN f ELSE t[x]
  BY DEF Put
<1> HIDE DEF u
<1>2. \A x \in DOMAIN u : In(l, u[x]) /\ ids[u[x]] = x
  BY <1>1, Zenon DEF Entered
<1>3. Entered(u, ids, l)
  BY <1>1, <1>2, Zenon DEF Entered
<1> QED
  BY <1>3, Zenon DEF u

\* A frame is taken from its bucket and given to another one.
LEMMA EnteredErase ==
    ASSUME NEW t, NEW ids, ids = [g \in Frames |-> ids[g]], NEW l \in Seq(Frames), NEW m,
           Entered(t, ids, l), NEW f \in Frames, NEW b,
           \A g \in Frames : In(l, g) => In(m, g)
    PROVE  Entered(Erase(t, ids[f]), [ids EXCEPT ![f] = b], m)
<1> DEFINE u == Erase(t, ids[f])
           is == [ids EXCEPT ![f] = b]
<1>1. /\ DOMAIN u = DOMAIN t \ {ids[f]} /\ u = [x \in DOMAIN u |-> u[x]]
      /\ \A x \in DOMAIN u : u[x] = t[x]
  BY DEF Erase
<1>2. \A g \in Frames : g # f => is[g] = ids[g]
  OBVIOUS
<1> HIDE DEF u, is
<1>3. ASSUME NEW x \in DOMAIN u PROVE In(m, u[x]) /\ is[u[x]] = x
  <2>1. In(l, t[x]) /\ ids[t[x]] = x /\ x # ids[f] /\ u[x] = t[x]
    BY <1>1, Zenon DEF Entered
  <2>2. t[x] \in Frames
    BY <2>1, FramesOfList
  <2> QED
    BY <1>2, <2>1, <2>2, Zenon
<1>4. Entered(u, is, m)
  BY <1>1, <1>3, Zenon DEF Entered
<1> QED
  BY <1>4, Zenon DEF u, is

LEMMA AwaitedErase ==
    ASSUME NEW fs, NEW ids, ids = [g \in Frames |-> ids[g]], NEW l \in Seq(Frames),
           NEW f \in Frames, NEW b, NEW n \in Nat, Awaited(fs, ids, l, n), ~Within(l, f, n)
    PROVE  Awaited(fs, [ids EXCEPT ![f] = b], l, n)
<1> DEFINE is == [ids EXCEPT ![f] = b]
<1>1. \A g \in Frames : g # f => is[g] = ids[g]
  OBVIOUS
<1> HIDE DEF is
<1>2. ASSUME NEW i \in 1 .. Len(fs), fs[i].state # "cached"
      PROVE  is[fs[i].frame] = fs[i].bucket
  <2>1. Within(l, fs[i].frame, n) /\ ids[fs[i].frame] = fs[i].bucket
    BY <1>2, Zenon DEF Awaited
  <2>2. fs[i].frame \in Frames /\ fs[i].frame # f
    BY <2>1, FramesOfList
  <2> QED
    BY <1>1, <2>1, <2>2, Zenon
<1>3. Awaited(fs, is, l, n)
  BY <1>2, Zenon DEF Awaited
<1> QED
  BY <1>3, Zenon DEF is

------------------------------------------------------------------------------
(* The steps that change the frames *)

\* The frame that a fetch takes is none of the three most recent ones.
LEMMA TargetFacts ==
    ASSUME FrameInv
    PROVE  /\ Target \in Frames
           /\ \A n \in 0 .. 3 : ~Within(lru_, Target, n)
           /\ Split(RecordAccess(lru_, Target), IF free_list_ # Nil THEN Tail(free_list_) ELSE Nil)
           /\ Fronted(lru_, RecordAccess(lru_, Target), Target)
           /\ \A g \in Frames : In(lru_, g) => In(RecordAccess(lru_, Target), g)
<1> DEFINE f == Target
           m == RecordAccess(lru_, Target)
<1>1. /\ lru_ \in Seq(Frames) /\ Distinct(lru_)
      /\ free_list_ \in Seq(Frames) /\ Distinct(free_list_)
      /\ \A g \in Frames : In(lru_, g) <=> ~In(free_list_, g)
      /\ Len(lru_) + Len(free_list_) = CACHE_SIZE
  BY Zenon DEF FrameInv, Split
<1>2. CACHE_SIZE \in Nat /\ CACHE_SIZE >= 4
  BY DpuAssumption
<1>3. CASE free_list_ # Nil
  <2>1. f = Head(free_list_) /\ free_list_ # <<>>
    BY <1>3 DEF Target, Nil
  <2> DEFINE t == Tail(free_list_)
  <2>2. /\ Len(free_list_) \in Nat \ {0} /\ f = free_list_[1] /\ f \in Frames
        /\ t \in Seq(Frames) /\ Len(t) = Len(free_list_) - 1
        /\ \A i \in 1 .. Len(t) : t[i] = free_list_[i + 1] /\ i + 1 \in 1 .. Len(free_list_)
    BY <1>1, <2>1
  <2> HIDE DEF t
  <2>3. In(free_list_, f) /\ ~In(lru_, f)
    <3>1. In(free_list_, f)
      BY <2>2 DEF In
    <3> QED
      BY <1>1, <2>2, <3>1, Zenon
  <2>4. Extends(lru_, m, f) /\ Fronted(lru_, m, f)
    BY <1>1, <2>2, <2>3, AccessAbsent, Zenon
  <2>5. Distinct(t)
    BY <1>1, <2>2 DEF Distinct
  <2>6. \A g \in Frames : In(t, g) <=> (In(free_list_, g) /\ g # f)
    <3> SUFFICES ASSUME NEW g \in Frames PROVE In(t, g) <=> (In(free_list_, g) /\ g # f)
      OBVIOUS
    <3>1. ASSUME In(t, g) PROVE In(free_list_, g) /\ g # f
      <4>1. PICK i \in 1 .. Len(t) : t[i] = g
        BY <3>1 DEF In
      <4>2. i + 1 # 1 /\ 1 \in 1 .. Len(free_list_)
        BY <2>2
      <4> QED
        BY <1>1, <2>2, <4>1, <4>2, Zenon DEF In, Distinct
    <3>2. ASSUME In(free_list_, g), g # f PROVE In(t, g)
      <4>1. PICK i \in 1 .. Len(free_list_) : free_list_[i] = g
        BY <3>2 DEF In
      <4>2. i # 1
        BY <2>2, <3>2, <4>1
      <4>3. i - 1 \in 1 .. Len(t) /\ (i - 1) + 1 = i
        BY <2>2, <4>2
      <4> QED
        BY <2>2, <4>1, <4>3, Zenon DEF In
    <3> QED
      BY <3>1, <3>2, Zenon
  <2>7. \A n \in 0 .. 3 : ~Within(lru_, f, n)
    BY <2>3 DEF Within, In
  <2>8. m \in Seq(Frames) /\ Distinct(m) /\ Len(m) = Len(lru_) + 1
        /\ \A g \in Frames : In(m, g) <=> (In(lru_, g) \/ g = f)
    BY <2>4, Zenon DEF Extends
  <2> HIDE DEF m, f
  <2>9. Len(m) + Len(t) = CACHE_SIZE
    BY <1>1, <1>2, <2>2, <2>8
  <2>10. \A g \in Frames : In(m, g) <=> ~In(t, g)
    BY <1>1, <2>6, <2>8, Zenon
  <2>11. Split(m, t)
    BY <2>2, <2>5, <2>8, <2>9, <2>10, Zenon DEF Split
  <2> QED
    BY <1>3, <2>2, <2>4, <2>7, <2>8, <2>11, Zenon DEF m, f, t
<1>4. CASE free_list_ = Nil
  <2>1. f = lru_[Len(lru_)] /\ Len(free_list_) = 0 /\ ~(free_list_ # Nil)
    BY <1>4 DEF Target, Nil
  <2>2. /\ Len(lru_) \in Nat /\ Len(lru_) >= 4 /\ f \in Frames
        /\ Len(lru_) \in 1 .. Len(lru_)
    BY <1>1, <1>2, <2>1
  <2>3. In(lru_, f)
    BY <2>1, <2>2, Zenon DEF In
  <2>4. Reordered(lru_, m) /\ Fronted(lru_, m, f)
    BY <1>1, <2>2, <2>3, AccessPresent, Zenon
  <2>5. \A n \in 0 .. 3 : ~Within(lru_, f, n)
    <3> SUFFICES ASSUME NEW n \in 0 .. 3, NEW i \in 1 .. Len(lru_), i <= n, lru_[i] = f
                 PROVE  FALSE
      BY DEF Within
    <3>1. i = Len(lru_)
      BY <1>1, <2>1, <2>2, Zenon DEF Distinct
    <3> QED
      BY <2>2, <3>1
  <2>6. Split(m, Nil)
    BY <1>4, <2>4, SplitReordered, Zenon DEF FrameInv
  <2> QED
    BY <2>1, <2>2, <2>4, <2>5, <2>6, Zenon DEF Reordered
<1> QED
  BY <1>3, <1>4

\* A bucket that is in the table is visited.
LEMMA VisitCached ==
    ASSUME FrameInv, NEW b, Cached(b), lru_' = RecordAccess(lru_, bucket_table_[b]),
           UNCHANGED <<bucket_table_, bucket_ids_, free_list_>>
    PROVE  FrameInv' /\ Fronted(lru_, lru_', bucket_table_[b])
<1> DEFINE f == bucket_table_[b]
<1>1. lru_ \in Seq(Frames) /\ Distinct(lru_) /\ In(lru_, f)
  BY Zenon DEF FrameInv, Split, Entered, Cached
<1> HIDE DEF f
<1>2. f \in Frames
  BY <1>1, FramesOfList
<1>3. Reordered(lru_, lru_') /\ Fronted(lru_, lru_', f)
  BY <1>1, <1>2, AccessPresent, Zenon DEF f
<1>4. Split(lru_', free_list_)
  BY <1>3, SplitReordered, Zenon DEF FrameInv
<1>5. Entered(bucket_table_, bucket_ids_, lru_')
  BY <1>1, <1>3, EnteredReordered, Zenon DEF FrameInv
<1> QED
  BY <1>3, <1>4, <1>5, Zenon DEF FrameInv, f

LEMMA FrameReordered ==
    ASSUME FrameInv, Reordered(lru_, lru_'), UNCHANGED <<bucket_table_, bucket_ids_, free_list_>>
    PROVE  FrameInv'
<1>1. lru_ \in Seq(Frames)
  BY Zenon DEF FrameInv, Split
<1>2. Split(lru_', free_list_)
  BY SplitReordered, Zenon DEF FrameInv
<1>3. Entered(bucket_table_, bucket_ids_, lru_')
  BY <1>1, EnteredReordered, Zenon DEF FrameInv
<1> QED
  BY <1>2, <1>3, Zenon DEF FrameInv

LEMMA FrameKept ==
    ASSUME FrameInv, UNCHANGED <<bucket_table_, bucket_ids_, free_list_, lru_>>
    PROVE  FrameInv'
BY Zenon DEF FrameInv

\* A future is taken over, whether or not its success is looked at.
LEMMA TakenOver ==
    ASSUME FrameInv, Rounds, Waited, bucket_table_' = Taken \/ bucket_table_' = TakenAnyway,
           UNCHANGED <<bucket_ids_, free_list_, lru_>>
    PROVE  FrameInv'
<1> DEFINE i == got + 1
           v == futures[i]
<1>1. Round /\ Awaited(futures, bucket_ids_, lru_, Len(futures)) /\ got < Len(futures)
  BY Zenon DEF Rounds, Waited
<1>2. Len(futures) \in Nat /\ got \in Nat
  BY <1>1 DEF Round, IsSeq
<1>3. i \in 1 .. Len(futures)
  BY <1>1, <1>2
<1> HIDE DEF i
<1>4. v.state # "cached" => Within(lru_, v.frame, Len(futures)) /\ bucket_ids_[v.frame] = v.bucket
  BY <1>1, <1>3, Zenon DEF Awaited
<1>5. lru_ \in Seq(Frames) /\ Entered(bucket_table_, bucket_ids_, lru_)
  BY Zenon DEF FrameInv, Split
<1>6. bucket_table_' = bucket_table_
      \/ (v.state # "cached" /\ bucket_table_' = Put(bucket_table_, v.bucket, v.frame))
  <2>1. Next1 = v
    BY DEF Next1, i
  <2>2. "ok" # "cached"
    OBVIOUS
  <2> QED
    BY <2>1, <2>2, Zenon DEF Taken, TakenAnyway
<1>7. CASE v.state # "cached" /\ bucket_table_' = Put(bucket_table_, v.bucket, v.frame)
  <2>1. In(lru_, v.frame) /\ bucket_ids_[v.frame] = v.bucket
    BY <1>2, <1>4, <1>5, <1>7, FramesOfList, Zenon
  <2> HIDE DEF v
  <2>2. Entered(bucket_table_', bucket_ids_, lru_)
    BY <1>5, <1>7, <2>1, EnteredPut, Zenon
  <2> QED
    BY <2>2, Zenon DEF FrameInv
<1> QED
  BY <1>6, <1>7, FrameKept, Zenon

\* The rest of a fetch, once the frame is taken: a read is queued, or the bucket is
\* new and starts out empty.
LEMMA Filled ==
    ASSUME NEW b, NEW f, NEW read, Fill(b, f, read), Round, todo # Nil, got' = got,
           bucket_ids_' = [g \in Frames |-> bucket_ids_'[g]], Split(lru_', free_list_'),
           Entered(read, bucket_ids_', lru_'),
           Awaited(futures, bucket_ids_', lru_', Len(futures) + 1),
           Within(lru_', f, 1), bucket_ids_'[f] = b
    PROVE  FrameInv' /\ Rounds'
<1>1. IsSeq(todo) /\ IsSeq(futures) /\ got \in Nat /\ Len(futures) + Len(todo) <= 4
  BY DEF Round
<1>2. pc' = "fetch" /\ todo' = Tail(todo)
  BY DEF Fill
<1>3. In(lru_', f)
  BY DEF Within, In
<1>4. PICK s : futures' = Append(futures, Visited(b, f, s))
  BY Zenon DEF Fill, NewBucket
<1>5. bucket_table_' = read \/ bucket_table_' = Put(read, b, f)
  BY Zenon DEF Fill, NewBucket
<1>6. Entered(bucket_table_', bucket_ids_', lru_')
  BY <1>3, <1>5, EnteredPut, Zenon
<1>7. Awaited(futures', bucket_ids_', lru_', Len(futures) + 1)
  BY <1>1, <1>4, AwaitedAppend, Zenon
<1>8. IsSeq(futures') /\ Len(futures) \in Nat /\ Len(futures') = Len(futures) + 1
  BY <1>1, <1>4, AppendIsSeq, ZenonT(40)
<1>9. IsSeq(todo') /\ Len(todo) \in Nat \ {0} /\ Len(todo') = Len(todo) - 1
  BY <1>1, <1>2, TailIsSeq, Zenon
<1>10. Len(futures') + Len(todo') <= 4
  BY <1>1, <1>8, <1>9
<1>11. Round' /\ Awaited(futures', bucket_ids_', lru_', Len(futures'))
  BY <1>1, <1>7, <1>8, <1>9, <1>10, Zenon DEF Round
<1>12. ~(pc' = "flush")
  BY <1>2
<1> QED
  BY <1>6, <1>11, <1>12, Zenon DEF FrameInv, Rounds

LEMMA FetchStep ==
    ASSUME FrameInv, Rounds, Fetch
    PROVE  FrameInv' /\ Rounds'
<1> DEFINE b == Head(todo)
<1>1. /\ Round /\ Awaited(futures, bucket_ids_, lru_, Len(futures))
      /\ pc = "fetch" /\ todo # Nil /\ got' = got
  BY Zenon DEF Rounds, Fetch
<1>2. IsSeq(todo) /\ IsSeq(futures) /\ got \in Nat /\ Len(futures) + Len(todo) <= 4
  BY <1>1 DEF Round
<1>3. Len(futures) \in Nat /\ Len(todo) \in Nat \ {0}
  <2>1. Len(futures) \in Nat
    BY <1>2 DEF IsSeq
  <2> QED
    BY <1>1, <1>2, <2>1, TailIsSeq, Zenon
<1>4. Len(futures) \in 0 .. 3
  <2>1. \A x \in Nat, y \in Nat \ {0} : x + y <= 4 => x \in 0 .. 3
    OBVIOUS
  <2> QED
    BY <1>2, <1>3, <2>1, Zenon
<1>5. lru_ \in Seq(Frames) /\ bucket_ids_ = [g \in Frames |-> bucket_ids_[g]]
      /\ Entered(bucket_table_, bucket_ids_, lru_)
  BY Zenon DEF FrameInv, Split
<1> HIDE DEF b
<1>6. CASE Cached(b)
  <2>1. /\ lru_' = RecordAccess(lru_, bucket_table_[b])
        /\ futures' = Append(futures, Visited(b, bucket_table_[b], "cached"))
        /\ todo' = Tail(todo)
        /\ UNCHANGED <<bucket_table_, bucket_ids_, free_list_>> /\ pc' = "fetch"
    BY <1>1, <1>6, Zenon DEF Fetch, b
  <2>2. FrameInv' /\ Fronted(lru_, lru_', bucket_table_[b])
    BY <1>6, <2>1, VisitCached, Zenon
  <2>3. Awaited(futures, bucket_ids_, lru_', Len(futures) + 1)
    BY <1>1, <1>3, <1>5, <2>2, AwaitedFronted, Zenon
  <2>4. Awaited(futures', bucket_ids_, lru_', Len(futures) + 1)
    BY <1>2, <2>1, <2>3, AwaitedAppend, Zenon
  <2>5. IsSeq(futures') /\ Len(futures') = Len(futures) + 1
    BY <1>2, <2>1, AppendIsSeq, ZenonT(40)
  <2>6. IsSeq(todo') /\ Len(todo') = Len(todo) - 1
    BY <1>1, <1>2, <2>1, TailIsSeq, Zenon
  <2>7. Len(futures') + Len(todo') <= 4
    BY <1>2, <1>3, <2>5, <2>6
  <2>8. Round' /\ Awaited(futures', bucket_ids_', lru_', Len(futures'))
    BY <1>1, <1>2, <2>1, <2>4, <2>5, <2>6, <2>7, Zenon DEF Round
  <2>9. ~(pc' = "flush")
    BY <2>1
  <2> QED
    BY <2>2, <2>8, <2>9, Zenon DEF Rounds
<1>7. CASE ~Cached(b)
  <2> DEFINE f == Target
             old == bucket_ids_[f]
             read == Erase(bucket_table_, old)
             free == IF free_list_ # Nil THEN Tail(free_list_) ELSE Nil
  <2>1. /\ free_list_' = free /\ lru_' = RecordAccess(lru_, f)
        /\ bucket_ids_' = [bucket_ids_ EXCEPT ![f] = b]
    BY <1>7, Zenon DEF Fetch, FetchBucket, b
  <2>2. \/ Fill(b, f, read)
        \/ /\ pc' = "flush" \/ pc' = "wild"
           /\ bucket_table_' = read
           /\ claim' = [bucket |-> b, frame |-> f, old |-> old, flushed |-> FALSE]
           /\ UNCHANGED <<todo, futures>>
    BY <1>7, Zenon DEF Fetch, FetchBucket, b
  <2>3. /\ f \in Frames /\ ~Within(lru_, f, Len(futures))
        /\ Split(lru_', free_list_')
        /\ Fronted(lru_, lru_', f)
        /\ \A g \in Frames : In(lru_, g) => In(lru_', g)
    BY <1>4, <2>1, TargetFacts, Zenon
  <2> HIDE DEF f
  <2>4. Entered(read, bucket_ids_', lru_')
    BY <1>5, <2>1, <2>3, EnteredErase, Zenon
  <2>5. Awaited(futures, bucket_ids_', lru_, Len(futures))
    BY <1>1, <1>3, <1>5, <2>1, <2>3, AwaitedErase, Zenon
  <2>6. Awaited(futures, bucket_ids_', lru_', Len(futures) + 1)
    BY <1>3, <1>5, <2>3, <2>5, AwaitedFronted, Zenon
  <2>7. bucket_ids_' = [g \in Frames |-> bucket_ids_'[g]] /\ bucket_ids_'[f] = b
    BY <1>5, <2>1, <2>3
  <2>8. Within(lru_', f, 1)
    BY <2>3, Zenon DEF Fronted
  <2> HIDE DEF old, read, free
  <2>9. CASE Fill(b, f, read)
    BY <1>1, <2>3, <2>4, <2>6, <2>7, <2>8, <2>9, Filled, Zenon
  <2>10. CASE /\ pc' = "flush" \/ pc' = "wild"
              /\ bucket_table_' = read
              /\ claim' = [bucket |-> b, frame |-> f, old |-> old, flushed |-> FALSE]
              /\ UNCHANGED <<todo, futures>>
    <3>1. FrameInv'
      BY <2>3, <2>4, <2>7, <2>10, Zenon DEF FrameInv
    <3>2. /\ claim' = [bucket |-> claim'.bucket, frame |-> claim'.frame,
                       old |-> claim'.old, flushed |-> claim'.flushed]
          /\ claim'.frame = f /\ claim'.bucket = b
      BY <2>10
    <3>3. Round' /\ todo' # Nil
      BY <1>1, <2>10, Zenon DEF Round
    <3>4. ~(pc' = "fetch")
      BY <2>10
    <3> QED
      BY <2>3, <2>6, <2>7, <2>8, <2>10, <3>1, <3>2, <3>3, <3>4, Zenon DEF Rounds
  <2> QED
    BY <2>2, <2>9, <2>10, Zenon
<1> QED
  BY <1>6, <1>7

LEMMA FlushedStep ==
    ASSUME FrameInv, Rounds, Flushed
    PROVE  FrameInv' /\ Rounds'
<1>1. /\ Round /\ todo # Nil
      /\ Awaited(futures, bucket_ids_, lru_, Len(futures) + 1)
      /\ Within(lru_, claim.frame, 1)
      /\ bucket_ids_[claim.frame] = claim.bucket
  BY Zenon DEF Rounds, Flushed
<1>2. Fill(claim.bucket, claim.frame, bucket_table_)
      /\ UNCHANGED <<bucket_ids_, free_list_, lru_, got>>
  BY Zenon DEF Flushed
<1>3. Split(lru_, free_list_) /\ Entered(bucket_table_, bucket_ids_, lru_)
      /\ bucket_ids_ = [g \in Frames |-> bucket_ids_[g]]
  BY Zenon DEF FrameInv
<1> QED
  BY <1>1, <1>2, <1>3, Filled, Zenon

\* A DMA client completes a task: only the state of fetches that are awaited changes.
LEMMA DmaStep ==
    ASSUME FrameInv, Rounds, NEW c, NEW success, DmaTask(c, success)
    PROVE  FrameInv' /\ Rounds'
<1>1. /\ UNCHANGED <<bucket_table_, bucket_ids_, free_list_, lru_>>
      /\ UNCHANGED <<todo, got, pc>>
  BY Zenon DEF DmaTask, work
<1>2. FrameInv'
  BY <1>1, FrameKept, Zenon
<1>3. PICK S : futures' =
         [i \in DOMAIN futures |->
              IF i \in S /\ futures[i].state = "pending"
              THEN [futures[i] EXCEPT !.state = IF success THEN "ok" ELSE "failed"]
              ELSE futures[i]]
  <2> DEFINE r == Head(queue[c])
             S == {i \in DOMAIN futures : ~r.is_write /\ r.awaited /\ futures[i].frame = r.frame}
  <2>1. futures' =
         [i \in DOMAIN futures |->
              IF i \in S /\ futures[i].state = "pending"
              THEN [futures[i] EXCEPT !.state = IF success THEN "ok" ELSE "failed"]
              ELSE futures[i]]
    BY DEF DmaTask
  <2> QED
    BY <2>1, Zenon
<1>4. ASSUME Round, NEW n, Awaited(futures, bucket_ids_, lru_, n)
      PROVE  Round' /\ Len(futures') = Len(futures) /\ Awaited(futures', bucket_ids_, lru_, n)
  <2>1. IsSeq(futures) /\ Len(futures) \in Nat /\ DOMAIN futures = 1 .. Len(futures)
    BY <1>4 DEF Round, IsSeq
  <2>2. /\ DOMAIN futures' = 1 .. Len(futures)
        /\ futures' = [i \in 1 .. Len(futures) |-> futures'[i]]
    BY <1>3, <2>1
  <2>3. futures' \in Seq({futures'[i] : i \in DOMAIN futures'}) /\ Len(futures') = Len(futures)
    BY <2>1, <2>2
  <2>4. ASSUME NEW i \in 1 .. Len(futures)
        PROVE  /\ futures'[i].bucket = futures[i].bucket
               /\ futures'[i].frame = futures[i].frame
               /\ futures[i].state = "cached" => futures'[i].state = "cached"
               /\ futures'[i] = Visited(futures'[i].bucket, futures'[i].frame, futures'[i].state)
    <3>1. futures[i] = Visited(futures[i].bucket, futures[i].frame, futures[i].state)
      BY <1>4, Zenon DEF Awaited
    <3>2. futures'[i] = futures[i]
          \/ (/\ futures[i].state = "pending"
              /\ futures'[i] = [futures[i] EXCEPT !.state = IF success THEN "ok" ELSE "failed"])
      BY <1>3, <2>1
    <3>3. CASE futures'[i] = futures[i]
      BY <3>1, <3>3, Zenon
    <3>4. CASE /\ futures[i].state = "pending"
               /\ futures'[i] = [futures[i] EXCEPT !.state = IF success THEN "ok" ELSE "failed"]
      BY <3>1, <3>4 DEF Visited
    <3> QED
      BY <3>2, <3>3, <3>4, Zenon
  <2>5. IsSeq(futures')
    BY <2>3, Zenon DEF IsSeq
  <2>6. Awaited(futures', bucket_ids_, lru_, n)
    BY <1>4, <2>3, <2>4, Zenon DEF Awaited
  <2> QED
    BY <1>1, <1>4, <2>3, <2>5, <2>6, Zenon DEF Round
<1>5. ASSUME pc = "flush"
      PROVE  /\ claim' = [bucket |-> claim'.bucket, frame |-> claim'.frame,
                          old |-> claim'.old, flushed |-> claim'.flushed]
             /\ claim'.frame = claim.frame /\ claim'.bucket = claim.bucket
  <2>1. claim = [bucket |-> claim.bucket, frame |-> claim.frame,
                 old |-> claim.old, flushed |-> claim.flushed]
    BY <1>5, Zenon DEF Rounds
  <2>2. claim' = claim \/ claim' = [claim EXCEPT !.flushed = TRUE]
    BY Zenon DEF DmaTask
  <2> QED
    BY <2>1, <2>2
<1> QED
  BY <1>1, <1>2, <1>4, <1>5, Zenon DEF Rounds

\* A step after which no round is in progress, or a new one begins.
LEMMA NoRound ==
    ASSUME pc' \notin {"fetch", "flush"}
    PROVE  Rounds'
BY Zenon DEF Rounds

LEMMA NewRound ==
    ASSUME NEW bs, IsSeq(bs), Len(bs) \in 0 .. 4, NEW why, StartFetches(bs, why)
    PROVE  Rounds'
<1>1. pc' = "fetch" /\ todo' = bs /\ futures' = <<>> /\ got' = 0
  BY DEF StartFetches, Nil
<1>2. IsSeq(<<>>)
  BY DEF IsSeq
<1>3. IsSeq(futures') /\ Len(futures') = 0
  BY <1>1, <1>2
<1>4. Awaited(futures', bucket_ids_', lru_', Len(futures'))
  <2>1. \A i \in 1 .. Len(futures') : FALSE
    BY <1>3
  <2> QED
    BY <2>1, Zenon DEF Awaited
<1>5. got' \in Nat /\ Len(futures') + Len(todo') <= 4
  <2>1. 0 \in Nat /\ \A x \in 0 .. 4 : 0 + x <= 4
    OBVIOUS
  <2> QED
    BY <1>1, <1>3, <2>1, Zenon
<1>6. Round'
  BY <1>1, <1>3, <1>5, Zenon DEF Round
<1>7. ~(pc' = "flush")
  BY <1>1
<1> QED
  BY <1>4, <1>6, <1>7, Zenon DEF Rounds

\* The next future of the same round.
LEMMA SameRound ==
    ASSUME Rounds, pc = "fetch", got' = got + 1,
           UNCHANGED <<pc, todo, futures, bucket_ids_, lru_>>
    PROVE  Rounds'
<1>1. Round /\ Awaited(futures, bucket_ids_, lru_, Len(futures))
  BY Zenon DEF Rounds
<1>2. got' \in Nat
  BY <1>1 DEF Round
<1>3. Round'
  BY <1>1, <1>2, Zenon DEF Round
<1>4. ~(pc' = "flush")
  OBVIOUS
<1> QED
  BY <1>1, <1>3, <1>4, Zenon DEF Rounds

LEMMA ConcatLength ==
    ASSUME NEW S, NEW s \in Seq(S), NEW t \in Seq(S), NEW m \in Nat, NEW n \in Nat,
           Len(s) \in 0 .. m, Len(t) \in 0 .. n
    PROVE  s \o t \in Seq(S) /\ Len(s \o t) \in 0 .. m + n
<1>1. s \o t \in Seq(S) /\ Len(s \o t) = Len(s) + Len(t)
  BY ConcatAt, Zenon DEF Joined
<1>2. \A x \in 0 .. m, y \in 0 .. n : x + y \in 0 .. m + n
  OBVIOUS
<1> QED
  BY <1>1, <1>2, Zenon

LEMMA PairLength ==
    ASSUME NEW S, NEW s, NEW m \in Nat, s[m] \in S, s[m + 1] \in S
    PROVE  SubSeq(s, m, m + 1) \in Seq(S) /\ Len(SubSeq(s, m, m + 1)) = 2
<1>1. \A i \in m .. m + 1 : s[i] \in S
  <2>1. \A i \in m .. m + 1 : i = m \/ i = m + 1
    OBVIOUS
  <2> QED
    BY <2>1, Zenon
<1>2. m \in Int /\ m + 1 \in Int /\ m <= m + 1 /\ (m + 1) - m + 1 = 2
  OBVIOUS
<1> DEFINE n == m + 1
<1> HIDE DEF n
<1>3. /\ SubSeq(s, m, n) \in Seq(S)
      /\ Len(SubSeq(s, m, n)) = IF m <= n THEN n - m + 1 ELSE 0
  BY <1>1, <1>2, SubSeqProperties DEF n
<1> QED
  BY <1>2, <1>3, Zenon DEF n

\* The lists of buckets with which rounds begin.
LEMMA ShortLists ==
    ASSUME NEW k
    PROVE  /\ IsSeq(Uncached(k)) /\ Len(Uncached(k)) \in 0 .. 4
           /\ IsSeq(SubSeq(Get4Buckets(k), 1, 2)) /\ Len(SubSeq(Get4Buckets(k), 1, 2)) \in 0 .. 4
           /\ IsSeq(SubSeq(Get4Buckets(k), 3, 4)) /\ Len(SubSeq(Get4Buckets(k), 3, 4)) \in 0 .. 4
           /\ IsSeq(GetExpandBucketIds(k)) /\ Len(GetExpandBucketIds(k)) \in 0 .. 4
           /\ IsSeq(<<k>>) /\ Len(<<k>>) \in 0 .. 4
<1> DEFINE g == Get4Buckets(k)
           S == {g[1], g[2], g[3], g[4]}
           T(i) == IF Cached(g[i]) THEN Nil ELSE <<g[i]>>
<1>1. /\ g \in Seq(S) /\ Len(g) = 4
  BY DEF Get4Buckets
<1>2. Uncached(k) = T(1) \o T(2) \o T(3) \o T(4)
  BY DEF Uncached
<1> HIDE DEF g
<1>3. g[1] \in S /\ g[2] \in S /\ g[3] \in S /\ g[4] \in S
  OBVIOUS
<1> HIDE DEF S
<1>4. Uncached(k) \in Seq(S) /\ Len(Uncached(k)) \in 0 .. 4
  <2>1. ASSUME NEW x \in S PROVE <<x>> \in Seq(S) /\ Len(<<x>>) \in 0 .. 1
    OBVIOUS
  <2>2. Nil \in Seq(S) /\ Len(Nil) \in 0 .. 1
    BY DEF Nil
  <2>3. /\ T(1) \in Seq(S) /\ Len(T(1)) \in 0 .. 1 /\ T(2) \in Seq(S) /\ Len(T(2)) \in 0 .. 1
        /\ T(3) \in Seq(S) /\ Len(T(3)) \in 0 .. 1 /\ T(4) \in Seq(S) /\ Len(T(4)) \in 0 .. 1
    BY <1>3, <2>1, <2>2, Zenon
  <2> HIDE DEF T
  <2>4. 1 \in Nat /\ 2 \in Nat /\ 3 \in Nat /\ 1 + 1 = 2 /\ 2 + 1 = 3 /\ 3 + 1 = 4
    OBVIOUS
  <2>5. T(1) \o T(2) \in Seq(S) /\ Len(T(1) \o T(2)) \in 0 .. 1 + 1
    BY <2>3, <2>4, ConcatLength, Zenon
  <2>6. T(1) \o T(2) \o T(3) \in Seq(S) /\ Len(T(1) \o T(2) \o T(3)) \in 0 .. 2 + 1
    BY <2>3, <2>4, <2>5, ConcatLength, Zenon
  <2>7. /\ T(1) \o T(2) \o T(3) \o T(4) \in Seq(S)
        /\ Len(T(1) \o T(2) \o T(3) \o T(4)) \in 0 .. 3 + 1
    BY <2>3, <2>4, <2>6, ConcatLength, Zenon
  <2> QED
    BY <1>2, <2>4, <2>7, Zenon
<1>5. /\ SubSeq(g, 1, 2) \in Seq(S) /\ Len(SubSeq(g, 1, 2)) = 2
      /\ SubSeq(g, 3, 4) \in Seq(S) /\ Len(SubSeq(g, 3, 4)) = 2
  <2>1. 1 \in Nat /\ 1 + 1 = 2 /\ 3 \in Nat /\ 3 + 1 = 4
    OBVIOUS
  <2>2. g[1] \in S /\ g[1 + 1] \in S
    BY <1>3, <2>1, Zenon
  <2>3. SubSeq(g, 1, 1 + 1) \in Seq(S) /\ Len(SubSeq(g, 1, 1 + 1)) = 2
    BY <2>1, <2>2, PairLength, Zenon
  <2>4. g[3] \in S /\ g[3 + 1] \in S
    BY <1>3, <2>1, Zenon
  <2>5. SubSeq(g, 3, 3 + 1) \in Seq(S) /\ Len(SubSeq(g, 3, 3 + 1)) = 2
    BY <2>1, <2>4, PairLength, Zenon
  <2> QED
    BY <2>1, <2>3, <2>5, Zenon
<1>6. PICK x, y : GetExpandBucketIds(k) = <<x, y>>
  BY Zenon DEF GetExpandBucketIds
<1>7. <<x, y>> \in Seq({x, y}) /\ Len(<<x, y>>) = 2
  OBVIOUS
<1>8. <<k>> \in Seq({k}) /\ Len(<<k>>) = 1
  OBVIOUS
<1>9. 1 \in 0 .. 4 /\ 2 \in 0 .. 4
  OBVIOUS
<1> QED
  BY <1>4, <1>5, <1>6, <1>7, <1>8, <1>9, SeqIsSeq, Zenon DEF g

------------------------------------------------------------------------------
(* The inductive invariant of the frames *)

LEMMA InitFrames == Init => FrameInv /\ Rounds
<1> SUFFICES ASSUME Init PROVE FrameInv /\ Rounds
  OBVIOUS
<1>1. /\ lru_ = <<>> /\ free_list_ = [i \in 1 .. CACHE_SIZE |-> i - 1]
      /\ bucket_table_ = <<>> /\ bucket_ids_ = [f \in Frames |-> NoBucket] /\ pc = "idle"
  BY DEF Init, Nil
<1>2. CACHE_SIZE \in Nat
  BY DpuAssumption
<1>3. bucket_ids_ = [f \in Frames |-> bucket_ids_[f]]
  BY <1>1
<1>4. Split(lru_, free_list_)
  <2>1. lru_ \in Seq(Frames) /\ Len(lru_) = 0
    BY <1>1
  <2>2. /\ free_list_ \in Seq(Frames) /\ Len(free_list_) = CACHE_SIZE
        /\ \A i \in 1 .. CACHE_SIZE : free_list_[i] = i - 1
    BY <1>1, <1>2 DEF Frames
  <2>3. Distinct(lru_) /\ Distinct(free_list_)
    BY <1>2, <2>1, <2>2 DEF Distinct
  <2>4. \A f \in Frames : f + 1 \in 1 .. CACHE_SIZE /\ (f + 1) - 1 = f
    BY <1>2 DEF Frames
  <2>5. \A f \in Frames : In(free_list_, f)
    BY <2>2, <2>4 DEF In
  <2>6. \A f \in Frames : ~In(lru_, f)
    BY <2>1 DEF In
  <2>7. Len(lru_) + Len(free_list_) = CACHE_SIZE
    BY <1>2, <2>1, <2>2
  <2> QED
    BY <2>1, <2>2, <2>3, <2>5, <2>6, <2>7, Zenon DEF Split
<1>5. Entered(bucket_table_, bucket_ids_, lru_)
  BY <1>1 DEF Entered
<1>6. Rounds
  BY <1>1 DEF Rounds
<1> QED
  BY <1>3, <1>4, <1>5, <1>6, Zenon DEF FrameInv

\* The steps of Finish, and of taking over the last future.
LEMMA FramesTaken ==
    ASSUME FrameInv, Rounds, Waited, bucket_table_' = Taken \/ bucket_table_' = TakenAnyway,
           UNCHANGED <<bucket_ids_, free_list_, lru_>>,
           \/ pc' \notin {"fetch", "flush"}
           \/ got' = got + 1 /\ UNCHANGED <<pc, todo, futures>>
           \/ \E bs, why : IsSeq(bs) /\ Len(bs) \in 0 .. 4 /\ StartFetches(bs, why)
    PROVE  FrameInv' /\ Rounds'
<1>1. FrameInv'
  BY TakenOver, Zenon
<1>2. pc = "fetch"
  BY DEF Waited
<1>3. CASE pc' \notin {"fetch", "flush"}
  BY <1>1, <1>3, NoRound, Zenon
<1>4. CASE got' = got + 1 /\ UNCHANGED <<pc, todo, futures>>
  BY <1>1, <1>2, <1>4, SameRound, Zenon
<1>5. CASE \E bs, why : IsSeq(bs) /\ Len(bs) \in 0 .. 4 /\ StartFetches(bs, why)
  BY <1>1, <1>5, NewRound, Zenon
<1> QED
  BY <1>3, <1>4, <1>5

LEMMA FrameStep == FrameInv /\ Rounds /\ [Next]_vars => FrameInv' /\ Rounds'
<1> SUFFICES ASSUME FrameInv, Rounds, [Next]_vars PROVE FrameInv' /\ Rounds'
  OBVIOUS
<1> DEFINE Kept == UNCHANGED <<bucket_table_, bucket_ids_, free_list_, lru_>>
           Short(bs) == IsSeq(bs) /\ Len(bs) \in 0 .. 4
           Begins == \E bs, why : Short(bs) /\ StartFetches(bs, why)
           Rests == pc' \notin {"fetch", "flush"}
           Takes == /\ Waited /\ (bucket_table_' = Taken \/ bucket_table_' = TakenAnyway)
                    /\ UNCHANGED <<bucket_ids_, free_list_, lru_>>
           Goes == got' = got + 1 /\ UNCHANGED <<pc, todo, futures>>
           Good == FrameInv' /\ Rounds'
<1>1. /\ \A k : Short(Uncached(k)) /\ Short(SubSeq(Get4Buckets(k), 1, 2))
      /\ \A k : Short(SubSeq(Get4Buckets(k), 3, 4)) /\ Short(GetExpandBucketIds(k)) /\ Short(<<k>>)
  BY ShortLists, Zenon
<1> HIDE DEF Short
<1>2. ASSUME Kept, Rests \/ Begins PROVE Good
  BY <1>2, FrameKept, NoRound, NewRound, Zenon DEF Short
<1>3. ASSUME Takes, Rests \/ Goes \/ Begins PROVE Good
  BY <1>3, FramesTaken, Zenon DEF Short
<1>4. ASSUME NEW k \in Key, ProcessSearch(k) \/ ProcessDelete(k) PROVE Good
  <2>1. /\ \E n : lru_' = LookedUp(k, n)
        /\ UNCHANGED <<bucket_table_, bucket_ids_, free_list_>>
    BY <1>4, Zenon DEF ProcessSearch, ProcessDelete, Missed
  <2>2. FrameInv'
    BY <2>1, LookedUpReordered, FrameReordered, Zenon
  <2>3. (pc = "idle" /\ pc' = pc) \/ Begins
    BY <1>1, <1>4, Zenon DEF ProcessSearch, ProcessDelete, Missed
  <2>4. Rests \/ Begins
    BY <2>3
  <2> QED
    BY <2>2, <2>4, NoRound, NewRound, Zenon DEF Short
<1>5. ASSUME NEW k \in Key, NEW v \in Value, ProcessInsert(k, v) PROVE Good
  <2>1. Kept
    BY <1>5, Zenon DEF ProcessInsert, frames
  <2>2. Rests
    BY <1>5 DEF ProcessInsert, ExpandBegin
  <2> QED
    BY <1>2, <2>1, <2>2, Zenon
<1>6. ASSUME End \/ MoveFail \/ SearchDone \/ DeleteDone \/ SplitTaken \/ ExpandEnd PROVE Good
  <2>1. Kept
    BY <1>6, Zenon DEF End, MoveFail, SearchDone, DeleteDone, SplitTaken, ExpandEnd, frames
  <2>2. Rests
    BY <1>6 DEF End, MoveFail, SearchDone, DeleteDone, SplitTaken, ExpandEnd, Finish
  <2> QED
    BY <1>2, <2>1, <2>2, Zenon
<1>7. ASSUME GetSearch \/ GetSplit PROVE Good
  <2>1. Takes /\ Goes
    BY <1>7, Zenon DEF GetSearch, GetSplit
  <2> QED
    BY <1>3, <2>1, Zenon
<1>8. ASSUME GetMove \/ GetBottom PROVE Good
  <2>1. Takes
    BY <1>8, Zenon DEF GetMove, GetBottom
  <2>2. Rests
    BY <1>8 DEF GetMove, GetBottom
  <2> QED
    BY <1>3, <2>1, <2>2, Zenon
<1>9. ASSUME GetDelete PROVE Good
  <2>1. Takes /\ (Goes \/ pc' = "idle")
    BY <1>9, Zenon DEF GetDelete, Finish
  <2>2. "idle" \notin {"fetch", "flush"}
    OBVIOUS
  <2> QED
    BY <1>3, <2>1, <2>2, Zenon
<1>10. ASSUME TryTop \/ SplitSlot PROVE Good
  <2>1. Kept /\ Begins
    BY <1>1, <1>10, Zenon DEF TryTop, SplitSlot, frames
  <2> QED
    BY <1>2, <2>1, Zenon
<1>11. ASSUME TryNext PROVE Rests \/ Begins
  <2>1. pc' = "move" \/ Begins
    BY <1>1, <1>11, Zenon DEF TryNext
  <2> QED
    BY <2>1
<1>12. ASSUME GetTry PROVE Good
  <2>1. Takes /\ (Goes \/ TryNext)
    BY <1>12, Zenon DEF GetTry
  <2> QED
    BY <1>3, <1>11, <2>1, Zenon
<1>13. ASSUME Try PROVE Good
  <2>1. Kept /\ (TryNext \/ pc' = "idle")
    BY <1>13, Zenon DEF Try, Inserted, Finish
  <2>2. "idle" \notin {"fetch", "flush"}
    OBVIOUS
  <2> QED
    BY <1>2, <1>11, <2>1, <2>2, Zenon
<1>14. ASSUME MoveSource \/ MoveEntry \/ ExpandBucket \/ SplitDone PROVE Good
  <2>1. Kept
    BY <1>14, Zenon DEF MoveSource, MoveEntry, ExpandBucket, SplitDone, frames
  <2>2. \/ (pc = "move" \/ pc = "expand") /\ pc' = pc
        \/ pc' = "idle" \/ Begins
    BY <1>1, <1>14, Zenon DEF MoveSource, MoveEntry, ExpandBucket, SplitDone, Inserted, Finish
  <2>3. Rests \/ Begins
    BY <2>2
  <2> QED
    BY <1>2, <2>1, <2>3, Zenon
<1>15. ASSUME UNCHANGED vars PROVE Good
  BY <1>15, Zenon DEF vars, frames, fetches, work, FrameInv, Rounds, Round
<1>16. ASSUME Fetch \/ Flushed PROVE Good
  BY <1>16, FetchStep, FlushedStep, Zenon
<1>17. ASSUME NEW c \in DOMAIN queue, NEW success \in BOOLEAN, DmaTask(c, success) PROVE Good
  BY <1>17, DmaStep, Zenon
<1> HIDE DEF Good
<1>18. Good
  BY <1>4, <1>5, <1>6, <1>7, <1>8, <1>9, <1>10, <1>12, <1>13, <1>14, <1>15, <1>16, <1>17, Zenon
     DEF Next, Requests, Worker
<1> QED
  BY <1>18, Zenon DEF Good

LEMMA FramesSound == FrameInv => TableSound /\ FramesAccounted
<1> SUFFICES ASSUME FrameInv PROVE TableSound /\ FramesAccounted
  OBVIOUS
<1>1. TableSound
  BY Zenon DEF FrameInv, Entered, TableSound
<1>2. ASSUME NEW l \in Seq(Frames), Distinct(l), NEW f
      PROVE  Cardinality({i \in DOMAIN l : l[i] = f}) = IF In(l, f) THEN 1 ELSE 0
  <2> DEFINE P == {i \in DOMAIN l : l[i] = f}
  <2>1. DOMAIN l = 1 .. Len(l)
    OBVIOUS
  <2>2. CASE In(l, f)
    <3>1. PICK p \in 1 .. Len(l) : l[p] = f
      BY <2>2 DEF In
    <3>2. P = {p}
      BY <1>2, <2>1, <3>1, Zenon DEF Distinct
    <3> QED
      BY <2>2, <3>2, FS_Singleton, Zenon
  <2>3. CASE ~In(l, f)
    <3>1. P = {}
      BY <2>1, <2>3, Zenon DEF In
    <3> QED
      BY <2>3, <3>1, FS_EmptySet, Zenon
  <2> QED
    BY <2>2, <2>3
<1>3. ASSUME NEW f \in Frames
      PROVE  Cardinality({i \in DOMAIN free_list_ : free_list_[i] = f})
             + Cardinality({i \in DOMAIN lru_ : lru_[i] = f}) = 1
  <2>1. /\ lru_ \in Seq(Frames) /\ Distinct(lru_)
        /\ free_list_ \in Seq(Frames) /\ Distinct(free_list_)
        /\ In(lru_, f) <=> ~In(free_list_, f)
    BY Zenon DEF FrameInv, Split
  <2>2. Cardinality({i \in DOMAIN lru_ : lru_[i] = f}) = IF In(lru_, f) THEN 1 ELSE 0
    BY <1>2, <2>1, Zenon
  <2>3. Cardinality({i \in DOMAIN free_list_ : free_list_[i] = f})
          = IF In(free_list_, f) THEN 1 ELSE 0
    BY <1>2, <2>1, Zenon
  <2>4. 1 + 0 = 1 /\ 0 + 1 = 1
    OBVIOUS
  <2> QED
    BY <2>1, <2>2, <2>3, <2>4, Zenon
<1> QED
  BY <1>1, <1>3, Zenon DEF FramesAccounted

LEMMA AlwaysFrames == Spec => [](FrameInv /\ Rounds)
BY InitFrames, FrameStep, PTL DEF Spec

\* bucket_table_ and bucket_ids_ agree, at every step of every request and whatever the
\* DMA clients do meanwhile: a frame that the table gives for a bucket was last claimed
\* for that bucket, because in a round of fetches no frame is taken away before its
\* future is taken over.  What bytes the frame holds is not said: a failed fetch is
\* entered into the table all the same.
THEOREM AlwaysTableSound == Spec => []TableSound
BY AlwaysFrames, FramesSound, PTL

\* Every frame is free or in the replacer's list, once, also after requests that are
\* left early: a fetch always finds a frame.
THEOREM AlwaysAccounted == Spec => []FramesAccounted
BY AlwaysFrames, FramesSound, PTL
==============================================================================
