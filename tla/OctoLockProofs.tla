--------------------------- MODULE OctoLockProofs ---------------------------
(***************************************************************************)
(* The lock words of Octopus and the chains of calls that use them.        *)
(*                                                                         *)
(* First the words by themselves: they keep writers apart from everybody   *)
(* else, for any set of clients and any set of words.                      *)
(* WriteExclusion alone is not inductive: that a writer which finds the    *)
(* word 0 meets no reader rests on the lower half being the exact number   *)
(* of clients that have announced themselves, the spinning ones included   *)
(* (the clients can be listed at the positions 1 to that number),          *)
(* and that a reader which finds the upper half 0 meets no writer rests on *)
(* the upper half being set as long as there is one.  The first holds of   *)
(* the words that nobody has unlocked astray (Exact), the second of all    *)
(* words (KeyInv).                                                         *)
(***************************************************************************)
EXTENDS OctoLock, OctoCalls, Functions, TLAPS

Announced(s) == {a \in Client : s \in rheld[a] \cup rspin[a]}

(* A has n members. *)
Counts(n, A) ==
  \E list \in [1 .. n -> A] :
    /\ \A i, j \in 1 .. n : list[i] = list[j] => i = j
    /\ \A x \in A : \E i \in 1 .. n : list[i] = x

KeyInv ==
  /\ LockTypeOK
  /\ \A s \in Slot : word[s].upper <=> (\E a \in Client : s \in wheld[a])
  /\ \A a \in Client : rheld[a] \cap rspin[a] = {}
  /\ \A a, b \in Client : \A s \in wheld[a] : s \in wheld[b] => a = b

Exact(s) ==
  /\ word[s].lower \in 0 .. HALF - 1
  /\ Counts(word[s].lower, Announced(s))
  /\ \A a, b \in Client : s \in wheld[a] => s \notin rheld[b]

LockInv == KeyInv /\ \A s \in Slot : Exact(s)

(* No member counts 0, one member more or one less counts one. *)
LEMMA CountsNone ==
  ASSUME NEW A
  PROVE  Counts(0, A) <=> A = {}
<1>1. ASSUME A = {}
      PROVE  Counts(0, A)
  <2>1. [i \in 1 .. 0 |-> i] \in [1 .. 0 -> A]
    OBVIOUS
  <2>2. A = {} /\ 1 .. 0 = {}
    BY <1>1
  <2> QED
    BY <2>1, <2>2, Zenon DEF Counts
<1> QED
  BY <1>1 DEF Counts

LEMMA CountsMore ==
  ASSUME NEW n \in Nat, NEW A, NEW x, x \notin A, Counts(n, A)
  PROVE  Counts(n + 1, A \cup {x})
<1>1. PICK list \in [1 .. n -> A] :
        /\ \A i, j \in 1 .. n : list[i] = list[j] => i = j
        /\ \A y \in A : \E i \in 1 .. n : list[i] = y
  BY DEF Counts
<1> DEFINE more == [i \in 1 .. n + 1 |-> IF i = n + 1 THEN x ELSE list[i]]
<1>2. more \in [1 .. n + 1 -> A \cup {x}]
  OBVIOUS
<1>3. \A i, j \in 1 .. n + 1 : more[i] = more[j] => i = j
  BY <1>1
<1>4. ASSUME NEW y \in A \cup {x}
      PROVE  \E i \in 1 .. n + 1 : more[i] = y
  <2>1. CASE y = x
    <3> WITNESS n + 1 \in 1 .. n + 1
    <3> QED
      BY <2>1
  <2>2. CASE y \in A
    BY <1>1, <2>2
  <2> QED
    BY <2>1, <2>2
<1> HIDE DEF more
<1> QED
  BY <1>2, <1>3, <1>4, Zenon DEF Counts

LEMMA CountsLess ==
  ASSUME NEW n \in Nat, NEW A, NEW x \in A, Counts(n, A)
  PROVE  n - 1 \in Nat /\ Counts(n - 1, A \ {x})
<1>1. PICK list \in [1 .. n -> A] :
        /\ \A i, j \in 1 .. n : list[i] = list[j] => i = j
        /\ \A y \in A : \E i \in 1 .. n : list[i] = y
  BY DEF Counts
<1>2. PICK k \in 1 .. n : list[k] = x
  BY <1>1
<1>3. n - 1 \in Nat /\ n \in 1 .. n
  BY <1>2
<1> DEFINE less == [i \in 1 .. n - 1 |-> IF i = k THEN list[n] ELSE list[i]]
<1>4. less \in [1 .. n - 1 -> A \ {x}]
  BY <1>1, <1>2, <1>3
<1>5. \A i, j \in 1 .. n - 1 : less[i] = less[j] => i = j
  BY <1>1, <1>2, <1>3
<1>6. ASSUME NEW y \in A \ {x}
      PROVE  \E i \in 1 .. n - 1 : less[i] = y
  <2>1. PICK j \in 1 .. n : list[j] = y
    BY <1>1
  <2>2. CASE j = n
    <3>1. k \in 1 .. n - 1
      BY <1>2, <2>1, <2>2
    <3> QED
      BY <2>1, <2>2, <3>1
  <2>3. CASE j # n
    BY <1>2, <2>1, <2>3
  <2> QED
    BY <2>2, <2>3
<1> HIDE DEF less
<1> QED
  BY <1>3, <1>4, <1>5, <1>6, Zenon DEF Counts

(* Clients fit into half a word. *)
LEMMA CountsBounded ==
  ASSUME NEW n \in Nat, NEW A \in SUBSET Client, Counts(n, A)
  PROVE  n \in 0 .. HALF - 1
<1>1. PICK list \in [1 .. n -> A] : \A i, j \in 1 .. n : list[i] = list[j] => i = j
  BY DEF Counts
<1>2. HALF \in Nat
  BY HalfAssumption
<1>3. ASSUME HALF <= n
      PROVE  FALSE
  <2> DEFINE some == [i \in 1 .. HALF |-> list[i]]
  <2>1. \A i \in 1 .. HALF : i \in 1 .. n
    BY <1>2, <1>3
  <2>2. some \in [1 .. HALF -> Client]
    BY <2>1
  <2>3. PICK i, j \in 1 .. HALF : i # j /\ some[i] = some[j]
    BY <2>2, HalfAssumption, Zenon
  <2> QED
    BY <1>1, <2>1, <2>3
<1> QED
  BY <1>2, <1>3

(* What WriteUnlock leaves of the lower half. *)
LEMMA LowerHalf ==
  /\ \A n \in Int : n % HALF \in Int
  /\ \A n \in 0 .. HALF - 1 : n % HALF = n
BY HalfAssumption

(* Initially no word is locked (LockService starts on zeroed memory). *)
LEMMA LockInitInv == LockInit => LockInv
<1> SUFFICES ASSUME LockInit PROVE LockInv
  OBVIOUS
<1>1. \A s \in Slot : Announced(s) = {}
  BY DEF LockInit, Announced
<1>2. \A s \in Slot : Counts(word[s].lower, Announced(s))
  BY <1>1, CountsNone, Zenon DEF LockInit
<1>3. KeyInv
  BY DEF LockInit, KeyInv, LockTypeOK
<1>4. \A s \in Slot : word[s].lower \in 0 .. HALF - 1 /\ \A a \in Client : s \notin wheld[a]
  BY HalfAssumption DEF LockInit
<1> QED
  BY <1>2, <1>3, <1>4, Zenon DEF LockInv, Exact

(* WriteLock: the word was 0, so nobody reads and nobody writes. *)
LEMMA WriteLockInv ==
  ASSUME KeyInv, NEW a \in Client, NEW s \in Slot, WriteLock(a, s)
  PROVE  KeyInv' /\ \A r \in Slot : Exact(r) => Exact(r)'
<1> USE DEF KeyInv, LockTypeOK, WriteLock
<1>1. \A b \in Client : s \notin wheld[b]
  BY DEF Busy
<1>2. \A r \in Slot : Announced(r)' = Announced(r) /\ word'[r].lower = word[r].lower
  BY DEF Announced
<1>3. (\A r \in Slot : word[r].upper <=> (\E b \in Client : r \in wheld[b]))'
  <2> SUFFICES ASSUME NEW r \in Slot
               PROVE  word'[r].upper <=> (\E b \in Client : r \in wheld'[b])
    OBVIOUS
  <2>1. CASE r = s
    BY <2>1
  <2>2. CASE r # s
    BY <2>2
  <2> QED
    BY <2>1, <2>2
<1>4. (\A b, d \in Client : \A r \in wheld[b] : r \in wheld[d] => b = d)'
  BY <1>1
<1>5. LockTypeOK'
  <2>1. word' \in [Slot -> [upper : BOOLEAN, lower : Int]]
    <3>0. word[s] \in [upper : BOOLEAN, lower : Int]
      OBVIOUS
    <3>1. ASSUME NEW w \in [upper : BOOLEAN, lower : Int]
          PROVE  [w EXCEPT !.upper = TRUE] \in [upper : BOOLEAN, lower : Int]
      BY Zenon
    <3> QED
      BY <3>0, <3>1, Zenon
  <2>2. wheld' \in [Client -> SUBSET Slot]
    OBVIOUS
  <2> QED
    BY <2>1, <2>2, Zenon
<1>6. KeyInv'
  BY <1>3, <1>4, <1>5
<1>7. ASSUME NEW r \in Slot, Exact(r)
      PROVE  Exact(r)'
  <2>1. word'[r].lower \in 0 .. HALF - 1 /\ Counts(word'[r].lower, Announced(r)')
    BY <1>2, <1>7 DEF Exact
  <2>2. CASE r = s
    <3>1. Announced(s) = {}
      BY <1>7, <2>2, CountsNone DEF Busy, Exact
    <3>2. \A b \in Client : s \notin rheld'[b]
      BY <3>1 DEF Announced
    <3> QED
      BY <2>1, <2>2, <3>2, Zenon DEF Exact
  <2>3. CASE r # s
    <3>1. \A b, d \in Client : r \in wheld'[b] => r \notin rheld'[d]
      BY <1>7, <2>3 DEF Exact
    <3> QED
      BY <2>1, <3>1, Zenon DEF Exact
  <2> QED
    BY <2>2, <2>3
<1> QED
  BY <1>6, <1>7

(* WriteUnlock by the holder: there was no other holder. *)
LEMMA WriteUnlockInv ==
  ASSUME KeyInv, NEW a \in Client, NEW s \in wheld[a], WriteUnlock(a, s)
  PROVE  KeyInv' /\ \A r \in Slot : Exact(r) => Exact(r)'
<1> USE DEF KeyInv, LockTypeOK, WriteUnlock
<1>0. s \in Slot /\ word[s].lower \in Int /\ word[s].lower % HALF \in Int
  BY LowerHalf
<1>1. \A r \in Slot : Announced(r)' = Announced(r)
  BY DEF Announced
<1>2. \A r \in Slot : word[r].lower \in 0 .. HALF - 1 => word'[r].lower = word[r].lower
  BY <1>0, LowerHalf
<1>3. (\A r \in Slot : word[r].upper <=> (\E b \in Client : r \in wheld[b]))'
  <2> SUFFICES ASSUME NEW r \in Slot
               PROVE  word'[r].upper <=> (\E b \in Client : r \in wheld'[b])
    OBVIOUS
  <2>1. CASE r = s
    BY <2>1, <1>0
  <2>2. CASE r # s
    BY <2>2, <1>0
  <2> QED
    BY <2>1, <2>2
<1>4. (\A b, d \in Client : \A r \in wheld[b] : r \in wheld[d] => b = d)'
  OBVIOUS
<1>5. LockTypeOK'
  BY <1>0
<1>6. KeyInv'
  BY <1>3, <1>4, <1>5
<1>7. ASSUME NEW r \in Slot, Exact(r)
      PROVE  Exact(r)'
  <2>1. word'[r].lower \in 0 .. HALF - 1 /\ Counts(word'[r].lower, Announced(r)')
    BY <1>1, <1>2, <1>7 DEF Exact
  <2>2. \A b, d \in Client : r \in wheld'[b] => r \notin rheld'[d]
    BY <1>7 DEF Exact
  <2> QED
    BY <2>1, <2>2, Zenon DEF Exact
<1> QED
  BY <1>6, <1>7

(* ReadLock, with and without a writer to wait for. *)
LEMMA ReadLockInv ==
  ASSUME KeyInv, NEW a \in Client, NEW s \in Slot, s \notin rheld[a] \cup rspin[a], ReadLock(a, s)
  PROVE  KeyInv' /\ \A r \in Slot : Exact(r) => Exact(r)'
<1> USE DEF KeyInv, LockTypeOK, ReadLock
<1>1. \A r \in Slot \ {s} : Announced(r)' = Announced(r) /\ word'[r] = word[r]
  <2>1. \A r \in Slot \ {s} : word'[r] = word[r]
    OBVIOUS
  <2>2. \A b \in Client : \A r \in Slot \ {s} :
           r \in rheld'[b] \cup rspin'[b] <=> r \in rheld[b] \cup rspin[b]
    <3>1. CASE Taken(s)
      BY <3>1
    <3>2. CASE ~Taken(s)
      BY <3>2
    <3> QED
      BY <3>1, <3>2
  <2> QED
    BY <2>1, <2>2 DEF Announced
<1>2. Announced(s)' = Announced(s) \cup {a} /\ a \notin Announced(s)
  BY DEF Announced
<1>3. word'[s].lower = word[s].lower + 1 /\ word'[s].upper = word[s].upper
  OBVIOUS
<1>4. (\A r \in Slot : word[r].upper <=> (\E b \in Client : r \in wheld[b]))'
  BY <1>1, <1>3
<1>5. LockTypeOK'
  <2>1. word' \in [Slot -> [upper : BOOLEAN, lower : Int]]
    OBVIOUS
  <2>2. CASE Taken(s)
    BY <2>1, <2>2
  <2>3. CASE ~Taken(s)
    BY <2>1, <2>3
  <2> QED
    BY <2>2, <2>3
<1>6. (\A b \in Client : rheld[b] \cap rspin[b] = {})'
  <2>1. CASE Taken(s)
    BY <2>1
  <2>2. CASE ~Taken(s)
    BY <2>2
  <2> QED
    BY <2>1, <2>2
<1>7. KeyInv'
  BY <1>4, <1>5, <1>6
<1>8. ASSUME NEW r \in Slot, Exact(r)
      PROVE  Exact(r)'
  <2>1. CASE r = s
    <3>1. word[s].lower \in Nat /\ Counts(word[s].lower, Announced(s))
      BY <1>8, <2>1, HalfAssumption DEF Exact
    <3>2. Counts(word'[s].lower, Announced(s)') /\ word'[s].lower \in Nat
      BY <1>2, <1>3, <3>1, CountsMore
    <3>3. Announced(s)' \in SUBSET Client
      BY DEF Announced
    <3>4. word'[s].lower \in 0 .. HALF - 1
      BY <3>2, <3>3, CountsBounded, Zenon
    <3>5. \A b, d \in Client : s \in wheld'[b] => s \notin rheld'[d]
      <4>1. CASE Taken(s)
        BY <1>8, <2>1, <4>1 DEF Exact
      <4>2. CASE ~Taken(s)
        BY <4>2 DEF Taken
      <4> QED
        BY <4>1, <4>2
    <3> QED
      BY <2>1, <3>2, <3>4, <3>5, Zenon DEF Exact
  <2>2. CASE r # s
    <3>1. \A b, d \in Client : r \in wheld'[b] => r \notin rheld'[d]
      <4>1. CASE Taken(s)
        BY <1>8, <2>2, <4>1 DEF Exact
      <4>2. CASE ~Taken(s)
        BY <1>8, <2>2, <4>2 DEF Exact
      <4> QED
        BY <4>1, <4>2
    <3>2. word'[r].lower \in 0 .. HALF - 1 /\ Counts(word'[r].lower, Announced(r)')
      BY <1>1, <1>8, <2>2 DEF Exact
    <3> QED
      BY <3>1, <3>2, Zenon DEF Exact
  <2> QED
    BY <2>1, <2>2
<1> QED
  BY <1>7, <1>8

(* The end of the spin: the upper half is 0, so there is no writer now. *)
LEMMA ReadSpinEndsInv ==
  ASSUME KeyInv, NEW a \in Client, NEW s \in rspin[a], ReadSpinEnds(a, s)
  PROVE  KeyInv' /\ \A r \in Slot : Exact(r) => Exact(r)'
<1> USE DEF KeyInv, LockTypeOK, ReadSpinEnds
<1>0. s \in Slot /\ \A b \in Client : s \notin wheld[b]
  BY DEF Taken
<1>1. \A r \in Slot : Announced(r)' = Announced(r)
  BY <1>0 DEF Announced
<1>2. (\A r \in Slot : word[r].upper <=> (\E b \in Client : r \in wheld[b]))'
  OBVIOUS
<1>3. LockTypeOK'
  BY <1>0
<1>4. (\A b \in Client : rheld[b] \cap rspin[b] = {})'
  BY <1>0
<1>5. KeyInv'
  BY <1>2, <1>3, <1>4
<1>6. ASSUME NEW r \in Slot, Exact(r)
      PROVE  Exact(r)'
  <2>1. word'[r].lower \in 0 .. HALF - 1 /\ Counts(word'[r].lower, Announced(r)')
    BY <1>1, <1>6 DEF Exact
  <2>2. \A b, d \in Client : r \in wheld'[b] => r \notin rheld'[d]
    BY <1>0, <1>6 DEF Exact
  <2> QED
    BY <2>1, <2>2, Zenon DEF Exact
<1> QED
  BY <1>5, <1>6

(* ReadUnlock by a reader takes exactly one off the count. *)
LEMMA ReadUnlockInv ==
  ASSUME KeyInv, NEW a \in Client, NEW s \in rheld[a], ReadUnlock(a, s)
  PROVE  KeyInv' /\ \A r \in Slot : Exact(r) => Exact(r)'
<1> USE DEF KeyInv, LockTypeOK, ReadUnlock
<1>0. s \in Slot
  OBVIOUS
<1>1. \A r \in Slot \ {s} : Announced(r)' = Announced(r) /\ word'[r] = word[r]
  BY <1>0 DEF Announced
<1>2. Announced(s)' = Announced(s) \ {a} /\ a \in Announced(s)
  BY <1>0 DEF Announced
<1>3. word'[s].lower = word[s].lower - 1 /\ word'[s].upper = word[s].upper
  BY <1>0
<1>4. (\A r \in Slot : word[r].upper <=> (\E b \in Client : r \in wheld[b]))'
  BY <1>1, <1>3
<1>5. LockTypeOK'
  BY <1>0, <1>3
<1>6. (\A b \in Client : rheld[b] \cap rspin[b] = {})'
  OBVIOUS
<1>7. KeyInv'
  BY <1>4, <1>5, <1>6
<1>8. ASSUME NEW r \in Slot, Exact(r)
      PROVE  Exact(r)'
  <2>1. \A b, d \in Client : r \in wheld'[b] => r \notin rheld'[d]
    BY <1>0, <1>8 DEF Exact
  <2>2. CASE r = s
    <3>1. word[s].lower \in Nat /\ Counts(word[s].lower, Announced(s)) /\ word[s].lower < HALF
      BY <1>8, <2>2, HalfAssumption DEF Exact
    <3>2. word[s].lower - 1 \in Nat /\ Counts(word[s].lower - 1, Announced(s) \ {a})
      BY <1>2, <3>1, CountsLess, Zenon
    <3>3. word'[s].lower \in 0 .. HALF - 1
      BY <1>3, <3>1, <3>2, HalfAssumption
    <3>4. Counts(word'[s].lower, Announced(s)')
      BY <1>2, <1>3, <3>2, Zenon
    <3> QED
      BY <2>1, <2>2, <3>3, <3>4, Zenon DEF Exact
  <2>3. CASE r # s
    <3>1. word'[r].lower \in 0 .. HALF - 1 /\ Counts(word'[r].lower, Announced(r)')
      BY <1>1, <1>8, <2>3 DEF Exact
    <3> QED
      BY <2>1, <3>1, Zenon DEF Exact
  <2> QED
    BY <2>2, <2>3
<1> QED
  BY <1>7, <1>8

(* An unlock astray makes the count of its own word wrong and no other. *)
LEMMA StrayUnlockInv ==
  ASSUME KeyInv, NEW s \in Slot, StrayUnlock(s)
  PROVE  KeyInv' /\ \A r \in Slot \ {s} : Exact(r) => Exact(r)'
<1> USE DEF KeyInv, LockTypeOK, StrayUnlock
<1>1. \A r \in Slot : Announced(r)' = Announced(r) /\ word'[r].upper = word[r].upper
  BY DEF Announced
<1>2. \A r \in Slot \ {s} : word'[r].lower = word[r].lower
  OBVIOUS
<1>3. LockTypeOK'
  OBVIOUS
<1>4. KeyInv'
  BY <1>1, <1>3
<1>5. ASSUME NEW r \in Slot \ {s}, Exact(r)
      PROVE  Exact(r)'
  BY <1>1, <1>2, <1>5 DEF Exact
<1> QED
  BY <1>4, <1>5

(* Every step of the lock protocol keeps what is known of the words. *)
LEMMA LockNextInv ==
  ASSUME KeyInv, [LockNext]_lockVars
  PROVE  KeyInv' /\ \A r \in Slot : Exact(r) => Exact(r)'
<1>1. CASE LockNext
  <2>1. PICK a \in Client, s \in Slot :
           \/ WriteLock(a, s)
           \/ s \in wheld[a] /\ WriteUnlock(a, s)
           \/ s \notin rheld[a] \cup rspin[a] /\ ReadLock(a, s)
           \/ s \in rspin[a] /\ ReadSpinEnds(a, s)
           \/ s \in rheld[a] /\ ReadUnlock(a, s)
    BY <1>1, Zenon DEF LockNext
  <2> QED
    BY <2>1, WriteLockInv, WriteUnlockInv, ReadLockInv, ReadSpinEndsInv, ReadUnlockInv, Zenon
<1>2. CASE UNCHANGED lockVars
  <2>1. UNCHANGED <<word, wheld, rheld, rspin>>
    BY <1>2 DEF lockVars
  <2>2. \A s : Announced(s)' = Announced(s)
    BY <2>1, Zenon DEF Announced
  <2>3. KeyInv'
    BY <2>1, Zenon DEF KeyInv, LockTypeOK
  <2>4. \A r \in Slot : Exact(r) => Exact(r)'
    BY <2>1, <2>2, Zenon DEF Exact
  <2> QED
    BY <2>3, <2>4
<1> QED
  BY <1>1, <1>2

(* What a caller sees of its own locks, and that a step made for one client *)
(* leaves the locks of all others alone.                                    *)
Apart(a) ==
  \A b \in Client \ {a} : wheld'[b] = wheld[b] /\ rheld'[b] = rheld[b] /\ rspin'[b] = rspin[b]

LEMMA LockSteps ==
  ASSUME KeyInv, NEW a \in Client, NEW s \in Slot
  PROVE  /\ WriteLock(a, s) =>
              /\ LockNext /\ Apart(a) /\ s \notin wheld[a]
              /\ wheld'[a] = wheld[a] \cup {s} /\ rheld'[a] = rheld[a] /\ rspin'[a] = rspin[a]
         /\ s \in wheld[a] /\ WriteUnlock(a, s) =>
              /\ LockNext /\ Apart(a)
              /\ wheld'[a] = wheld[a] \ {s} /\ rheld'[a] = rheld[a] /\ rspin'[a] = rspin[a]
         /\ s \notin rheld[a] \cup rspin[a] /\ ReadLock(a, s) =>
              /\ LockNext /\ Apart(a) /\ wheld'[a] = wheld[a]
              /\ Taken(s) => rheld'[a] = rheld[a] /\ rspin'[a] = rspin[a] \cup {s}
              /\ ~Taken(s) => rheld'[a] = rheld[a] \cup {s} /\ rspin'[a] = rspin[a]
         /\ s \in rspin[a] /\ ReadSpinEnds(a, s) =>
              /\ LockNext /\ Apart(a) /\ wheld'[a] = wheld[a]
              /\ rheld'[a] = rheld[a] \cup {s} /\ rspin'[a] = rspin[a] \ {s}
         /\ s \in rheld[a] /\ ReadUnlock(a, s) =>
              /\ LockNext /\ Apart(a) /\ wheld'[a] = wheld[a]
              /\ rheld'[a] = rheld[a] \ {s} /\ rspin'[a] = rspin[a]
<1>1. /\ wheld \in [Client -> SUBSET Slot] /\ rheld \in [Client -> SUBSET Slot]
      /\ rspin \in [Client -> SUBSET Slot]
  BY DEF KeyInv, LockTypeOK
<1>2. WriteLock(a, s) => s \notin wheld[a]
  BY DEF KeyInv, WriteLock, Busy
<1>3. CASE Taken(s)
  BY <1>1, <1>2, <1>3 DEF LockNext, Apart, WriteLock, WriteUnlock, ReadLock, ReadSpinEnds, ReadUnlock
<1>4. CASE ~Taken(s)
  BY <1>1, <1>2, <1>4 DEF LockNext, Apart, WriteLock, WriteUnlock, ReadLock, ReadSpinEnds, ReadUnlock
<1> QED
  BY <1>3, <1>4

(* A word nobody has announced themselves at and nobody writes under is 0. *)
LEMMA Unannounced ==
  ASSUME KeyInv, NEW s \in Slot, Exact(s),
         \A a \in Client : s \notin wheld[a] /\ s \notin rheld[a] /\ s \notin rspin[a]
  PROVE  ~Busy(s)
<1>1. Announced(s) = {}
  BY DEF Announced
<1>2. word[s].lower \in Nat /\ Counts(word[s].lower, Announced(s))
  BY HalfAssumption DEF Exact
<1>3. word[s].lower = 0
  <2>1. PICK list \in [1 .. word[s].lower -> {}] : TRUE
    BY <1>1, <1>2, Zenon DEF Counts
  <2>2. 1 \notin 1 .. word[s].lower
    BY <2>1
  <2> QED
    BY <1>2, <2>2
<1>4. ~word[s].upper
  BY DEF KeyInv
<1> QED
  BY <1>3, <1>4 DEF Busy

(* LockExclusive: a client that has the write key of a word shares it with *)
(* no writer and no reader (WriteLock and ReadLock of lock.cpp), however   *)
(* many clients there are, fewer than half a word counts, and however      *)
(* their operations interleave.                                            *)
THEOREM LockExclusive == LockSpec => []WriteExclusion
<1>1. LockInit => LockInv
  BY LockInitInv
<1>2. LockInv /\ [LockNext]_lockVars => LockInv'
  BY LockNextInv DEF LockInv
<1>3. LockInv => WriteExclusion
  BY DEF LockInv, KeyInv, LockTypeOK, Exact, WriteExclusion
<1> QED
  BY <1>1, <1>2, <1>3, PTL DEF LockSpec

-----------------------------------------------------------------------------
(***************************************************************************)
(* One chain of calls, a client with the two frames that work for it:      *)
(* which states it can be in, which locks it then has, and that every step *)
(* of a handler or of the client keeps it so.  These are the lemmas about  *)
(* the operators of OctoCalls that OctoFramesProofs needs, one per kind    *)
(* of step.                                                                *)
(*                                                                         *)
(* p and m are the label and the message of the main frame, q and s those  *)
(* of the sub frame; W, R and S are the slots the chain has locked for     *)
(* writing, locked for reading and waits for in ReadLock.                  *)
(*                                                                         *)
(* The completion queues come last, as functions from threads to sequences *)
(* of waiting requests: sending and polling keep every request in one      *)
(* queue, once.                                                            *)
(***************************************************************************)
(* What clients ask for themselves. *)
MainTypes ==
  (ReadTypes \ {"READDIRECTORYMETA"}) \cup (WriteTypes \ {"REMOVEMETA"}) \cup
  {"EMPTYREAD", "DOCOMMIT", "FREEBLOCK"}

(* Where the frames can be, and with which messages. *)
Control(p, m, q, s) ==
  /\ p \in {"none", "queued", "rlock", "wlock", "spin", "body", "call", "commit", "apply", "replied"}
  /\ q \in {"none", "queued", "rlock", "wlock", "spin", "body", "replied"}
  /\ q # "none" <=> p \in {"call", "commit"}
  /\ p # "none" => m.type \in MainTypes
  /\ m.path \in Path /\ s.path \in Path
  /\ m.type \in CompoundTypes => m.path # Root
  /\ p \in {"rlock", "spin"} => m.type \in ReadTypes
  /\ q \in {"rlock", "spin"} => s.type \in ReadTypes
  /\ p = "wlock" => m.type \in WriteTypes
  /\ q = "wlock" => s.type \in WriteTypes
  /\ p \in {"call", "commit", "apply"} => m.type \in CompoundTypes
  /\ p = "call" => s.type = IF m.type = "RENAME" THEN "REMOVEMETA" ELSE "READDIRECTORYMETA"
  /\ p = "commit" => m.type = "RENAME" /\ s.type = "DOCOMMIT" /\ q \in {"queued", "body", "replied"}

(* The locks this implies, and that there are no read locks besides. *)
Held(p, m, q, s, W, R, S) ==
  /\ p = "body" /\ m.type \in ReadTypes => SlotOf[m.path] \in R
  /\ p \in {"body", "call", "commit", "apply"} /\ m.type \in WriteTypes => SlotOf[m.path] \in W
  /\ p \in {"queued", "body"} /\ m.type = "DOCOMMIT" => SlotOf[m.path] \in W
  /\ p = "replied" /\ m.type = "ADDMETA" => SlotOf[m.path] \in W
  /\ q = "body" /\ s.type = "READDIRECTORYMETA" => SlotOf[s.path] \in R
  /\ \/ s.type = "REMOVEMETA" /\ q \in {"body", "replied"}
     \/ s.type = "DOCOMMIT" /\ q \in {"queued", "body"}
     => SlotOf[s.path] \in W /\ SlotOf[s.path] # SlotOf[m.path]
  /\ p = "spin" => SlotOf[m.path] \in S
  /\ q = "spin" => SlotOf[s.path] \in S
  /\ \A x \in R :
       \/ p = "body" /\ m.type \in ReadTypes /\ x = SlotOf[m.path]
       \/ q = "body" /\ s.type \in ReadTypes /\ x = SlotOf[s.path]
  /\ \A x \in S :
       \/ p = "spin" /\ x = SlotOf[m.path]
       \/ q = "spin" /\ x = SlotOf[s.path]

Chain(p, m, q, s, W, R, S) == Control(p, m, q, s) /\ Held(p, m, q, s, W, R, S)

(* A message m that operation g may send. *)
GoodCall(g, m) ==
  /\ m.type \in MainTypes /\ m.path \in Path
  /\ m.type \in CompoundTypes => m.path # Root
  /\ g.op = "mkdir" =>
       m.type \in {"ACCESS", "MKDIR"} /\ \E k \in 1 .. Len(g.path) : m.path = SubSeq(g.path, 1, k)
  /\ m.type = "ADDMETA" => g.op = "rename" /\ m.path = Parent(g.arg)
  /\ m.type = "EMPTYREAD" => g.op = "read" /\ g.arg.size = 0

-----------------------------------------------------------------------------
(* What Control says of a frame and of the call it waits for. *)
LEMMA ControlMain ==
  ASSUME NEW p, NEW m, NEW q, NEW s, Control(p, m, q, s)
  PROVE  /\ p # "none" => m.type # "REMOVEMETA"
         /\ p = "body" => q = "none"
         /\ p \in {"call", "commit"} => m.type \in CompoundTypes
         /\ p = "call" /\ m.type # "RENAME" => s.type = "READDIRECTORYMETA"
         /\ p = "commit" => s.type = "DOCOMMIT"
  BY SMTT(30) DEF Control, MainTypes, ReadTypes, WriteTypes, CompoundTypes

(* A client without a call reads under no lock. *)
LEMMA ChainNone ==
  ASSUME NEW m, NEW q, NEW s, NEW W, NEW R, NEW S, Chain("none", m, q, s, W, R, S)
  PROVE  q = "none" /\ R = {} /\ S = {}
<1>1. q = "none"
  BY SMTT(30) DEF Chain, Control
<1> QED
  BY <1>1, SMTT(30) DEF Chain, Held

(* The parent of a path is a path, and so is every prefix. *)
LEMMA ParentPath ==
  ASSUME NEW p \in Path, p # Root
  PROVE  Parent(p) \in Path
<1>1. p \in Seq(STRING) /\ Len(p) \in Nat
  BY PathAssumption
<1>2. Parent(p) = SubSeq(p, 1, Len(p) - 1)
  BY DEF Parent
<1>3. CASE Len(p) = 1
  <2>1. SubSeq(p, 1, 0) = <<>>
    BY 0 < 1
  <2>2. Parent(p) = SubSeq(p, 1, 0)
    BY <1>2, <1>3
  <2> QED
    BY <2>1, <2>2, PathAssumption, Zenon DEF Root
<1>4. CASE Len(p) > 1
  BY <1>1, <1>2, <1>4, PathAssumption
<1>5. Len(p) # 0
  <2>1. p # <<>> => Len(p) \in Nat \ {0}
    BY <1>1
  <2> QED
    BY <2>1 DEF Root
<1>6. \A n \in Nat : n # 0 => n = 1 \/ n > 1
  OBVIOUS
<1>7. Len(p) = 1 \/ Len(p) > 1
  BY <1>1, <1>5, <1>6, Zenon
<1> QED
  BY <1>3, <1>4, <1>7

(* A prefix of a path is a path and not the root. *)
LEMMA Prefix ==
  ASSUME NEW p \in Path, NEW k \in 1 .. Len(p)
  PROVE  /\ SubSeq(p, 1, k) \in Path
         /\ SubSeq(p, 1, k) # Root
         /\ Len(SubSeq(p, 1, k)) = k
<1>1. SubSeq(p, 1, k) \in Path /\ p \in Seq(STRING) /\ Len(p) \in Nat /\ k \in Int
  BY PathAssumption
<1>2. \A i \in 1 .. k : p[i] \in STRING
  BY <1>1
<1>3. Len(SubSeq(p, 1, k)) = k
  BY <1>1, <1>2
<1>4. SubSeq(p, 1, k) # Root
  BY <1>1, <1>3 DEF Root
<1> QED
  BY <1>1, <1>3, <1>4

(* The first call of every operation is well formed (nrfs.cpp). *)
LEMMA FirstCallGood ==
  ASSUME NEW r, WellFormed(r)
  PROVE  GoodCall(r, FirstCall(r)) /\ FirstCall(r).type # "DOCOMMIT"
<1>1. CASE r.op # "mkdir"
  BY <1>1, ZenonT(30) DEF WellFormed, FirstCall, GoodCall, Msg, MainTypes, ReadTypes, WriteTypes, CompoundTypes
<1>2. CASE r.op = "mkdir"
  <2>1. r.path \in Path /\ r.path # Root
    BY <1>2 DEF WellFormed
  <2>2. r.path \in Seq(STRING) /\ Len(r.path) \in Nat \ {0}
    BY <2>1, PathAssumption DEF Root
  <2>3. 1 \in 1 .. Len(r.path)
    BY <2>2
  <2>4. FirstCall(r) = Msg("ACCESS", SubSeq(r.path, 1, 1), <<>>)
    BY <1>2, SMTT(30) DEF FirstCall
  <2> QED
    BY <1>2, <2>1, <2>3, <2>4, Prefix
    DEF GoodCall, Msg, MainTypes, ReadTypes, WriteTypes, CompoundTypes
<1> QED
  BY <1>1, <1>2

(* So is the call that follows a reply, and DOCOMMIT only follows ADDMETA. *)
LEMMA NextCallGood ==
  ASSUME NEW g, NEW m, NEW r, WellFormed(g), GoodCall(g, m), NextCall(g, m, r) # <<>>
  PROVE  LET n == NextCall(g, m, r)[1] IN
         GoodCall(g, n) /\ (n.type = "DOCOMMIT" => m.type = "ADDMETA" /\ n.path = m.path)
<1> DEFINE n == NextCall(g, m, r)[1]
<1> USE DEF MainTypes, ReadTypes, WriteTypes, CompoundTypes, Msg
<1>1. CASE g.op = "open"
  <2>1. n = Msg("MKNOD", g.path, <<>>)
    BY <1>1 DEF NextCall
  <2> QED
    BY <1>1, <2>1 DEF GoodCall, WellFormed
<1>2. CASE g.op = "mkdir"
  <2>1. \/ n = Msg("MKDIR", m.path, <<>>)
        \/ n = Msg("ACCESS", SubSeq(g.path, 1, Len(m.path) + 1), <<>>) /\ m.path # g.path
    BY <1>2 DEF NextCall
  <2>2. PICK k \in 1 .. Len(g.path) : m.path = SubSeq(g.path, 1, k)
    BY <1>2 DEF GoodCall
  <2>3. g.path \in Path /\ g.path \in Seq(STRING) /\ Len(g.path) \in Nat
    BY <1>2, PathAssumption DEF WellFormed
  <2>4. Len(m.path) = k /\ m.path \in Path /\ m.path # Root
    BY <2>2, <2>3, Prefix, Zenon
  <2>5. CASE n = Msg("MKDIR", m.path, <<>>)
    BY <1>2, <2>2, <2>4, <2>5 DEF GoodCall
  <2>6. CASE n = Msg("ACCESS", SubSeq(g.path, 1, Len(m.path) + 1), <<>>) /\ m.path # g.path
    <3>1. k # Len(g.path)
      BY <2>2, <2>3, <2>6
    <3>2. k + 1 \in 1 .. Len(g.path)
      BY <3>1, <2>3
    <3>3. SubSeq(g.path, 1, k + 1) \in Path
      BY <2>3, <3>2, Prefix
    <3>4. n = Msg("ACCESS", SubSeq(g.path, 1, k + 1), <<>>)
      BY <2>4, <2>6
    <3> QED
      BY <1>2, <3>2, <3>3, <3>4 DEF GoodCall
  <2> QED
    BY <2>1, <2>5, <2>6
<1>3. CASE g.op = "delete"
  <2>1. n.type = "FREEBLOCK" /\ n.path = g.path
    BY <1>3 DEF NextCall
  <2> QED
    BY <1>3, <2>1 DEF GoodCall, WellFormed
<1>4. CASE g.op = "rename"
  <2>1. \/ n.type = "GETATTR" /\ n.path = Parent(g.arg)
        \/ n.type = "MKNODWITHMETA" /\ n.path = g.arg
        \/ n.type = "ADDMETA" /\ n.path = Parent(g.arg)
        \/ n.type = "DOCOMMIT" /\ n.path = Parent(g.arg) /\ m.type = "ADDMETA"
        \/ n.type = "RENAME" /\ n.path = g.path
    BY <1>4 DEF NextCall
  <2>2. g.path \in Path /\ g.path # Root /\ g.arg \in Path /\ g.arg # Root
    BY <1>4 DEF WellFormed
  <2>3. Parent(g.arg) \in Path
    BY <2>2, ParentPath
  <2> QED
    BY <1>4, <2>1, <2>2, <2>3, SMTT(30) DEF GoodCall
<1> QED
  BY <1>1, <1>2, <1>3, <1>4, Zenon DEF NextCall, WellFormed

-----------------------------------------------------------------------------
(* The client sends a request (Start, Proceed) and takes a reply (Return). *)
LEMMA ChainSend ==
  ASSUME NEW p, NEW m, NEW q, NEW s, NEW W, NEW R, NEW S, Chain(p, m, q, s, W, R, S),
         NEW g, NEW n, GoodCall(g, n), p \in {"none", "replied"},
         n.type = "DOCOMMIT" => SlotOf[n.path] \in W
  PROVE  Chain("queued", n, q, s, W, R, S)
<1>1. Control("queued", n, q, s)
  BY DEF Chain, Control, GoodCall
<1>2. Held("queued", n, q, s, W, R, S)
  BY DEF Chain, Control, Held
<1> QED
  BY <1>1, <1>2 DEF Chain

LEMMA ChainReturn ==
  ASSUME NEW p, NEW m, NEW q, NEW s, NEW W, NEW R, NEW S, Chain(p, m, q, s, W, R, S),
         p = "replied"
  PROVE  Chain("none", NoMsg, q, s, W, R, S)
<1>1. Control("none", NoMsg, q, s)
  BY PathAssumption DEF Chain, Control, NoMsg, Msg, CompoundTypes
<1>2. Held("none", NoMsg, q, s, W, R, S)
  BY DEF Chain, Control, Held, NoMsg, Msg
<1> QED
  BY <1>1, <1>2 DEF Chain

(* A worker takes the request (RequestPoller). *)
LEMMA ChainPoll ==
  ASSUME NEW p, NEW m, NEW q, NEW s, NEW W, NEW R, NEW S, Chain(p, m, q, s, W, R, S)
  PROVE  /\ p = "queued" => Chain(EntryPc(m.type), m, q, s, W, R, S)
         /\ q = "queued" => Chain(p, m, EntryPc(s.type), s, W, R, S)
<1> USE DEF EntryPc, MainTypes, ReadTypes, WriteTypes, CompoundTypes
<1>1. ASSUME p = "queued"
      PROVE  Control(EntryPc(m.type), m, q, s) /\ Held(EntryPc(m.type), m, q, s, W, R, S)
  BY <1>1 DEF Chain, Control, Held
<1>2. ASSUME q = "queued"
      PROVE  Control(p, m, EntryPc(s.type), s) /\ Held(p, m, EntryPc(s.type), s, W, R, S)
  BY <1>2 DEF Chain, Control, Held
<1> QED
  BY <1>1, <1>2 DEF Chain

(* WriteLock succeeds: for the sub frame on a word the chain does not have. *)
LEMMA ChainWriteLock ==
  ASSUME NEW p, NEW m, NEW q, NEW s, NEW W, NEW R, NEW S, Chain(p, m, q, s, W, R, S)
  PROVE  /\ p = "wlock" => Chain("body", m, q, s, W \cup {SlotOf[m.path]}, R, S)
         /\ q = "wlock" /\ SlotOf[s.path] \notin W =>
              Chain(p, m, "body", s, W \cup {SlotOf[s.path]}, R, S)
<1> USE DEF ReadTypes, WriteTypes, CompoundTypes
<1>1. ASSUME p = "wlock"
      PROVE  Control("body", m, q, s) /\ Held("body", m, q, s, W \cup {SlotOf[m.path]}, R, S)
  BY <1>1 DEF Chain, Control, Held
<1>2. ASSUME q = "wlock", SlotOf[s.path] \notin W
      PROVE  Control(p, m, "body", s) /\ Held(p, m, "body", s, W \cup {SlotOf[s.path]}, R, S)
  BY <1>2 DEF Chain, Control, Held
<1> QED
  BY <1>1, <1>2 DEF Chain

(* ReadLock: the chain is not yet announced at the word. *)
LEMMA ChainReadLock ==
  ASSUME NEW p, NEW m, NEW q, NEW s, NEW W, NEW R, NEW S, Chain(p, m, q, s, W, R, S)
  PROVE  /\ p = "rlock" => /\ SlotOf[m.path] \notin R \cup S
                           /\ Chain("body", m, q, s, W, R \cup {SlotOf[m.path]}, S)
                           /\ Chain("spin", m, q, s, W, R, S \cup {SlotOf[m.path]})
         /\ q = "rlock" => /\ SlotOf[s.path] \notin R \cup S
                           /\ Chain(p, m, "body", s, W, R \cup {SlotOf[s.path]}, S)
                           /\ Chain(p, m, "spin", s, W, R, S \cup {SlotOf[s.path]})
<1> USE DEF ReadTypes, WriteTypes, CompoundTypes
<1>1. ASSUME p = "rlock"
      PROVE  R \cup S = {} /\ Control("body", m, q, s) /\ Control("spin", m, q, s)
  BY <1>1 DEF Chain, Control, Held
<1>2. ASSUME p = "rlock"
      PROVE  /\ Held("body", m, q, s, W, R \cup {SlotOf[m.path]}, S)
             /\ Held("spin", m, q, s, W, R, S \cup {SlotOf[m.path]})
  <2>1. q = "none" /\ R = {} /\ S = {} /\ m.type \in ReadTypes
    BY <1>1, <1>2 DEF Chain, Control
  <2>2. Held("body", m, q, s, W, {SlotOf[m.path]}, {})
    BY <2>1 DEF Held
  <2>3. Held("spin", m, q, s, W, {}, {SlotOf[m.path]})
    BY <2>1 DEF Held
  <2> QED
    BY <2>1, <2>2, <2>3
<1>3. ASSUME q = "rlock"
      PROVE  R \cup S = {} /\ Control(p, m, "body", s) /\ Control(p, m, "spin", s)
  BY <1>3 DEF Chain, Control, Held
<1>4. ASSUME q = "rlock"
      PROVE  /\ Held(p, m, "body", s, W, R \cup {SlotOf[s.path]}, S)
             /\ Held(p, m, "spin", s, W, R, S \cup {SlotOf[s.path]})
  BY <1>3, <1>4 DEF Chain, Control, Held
<1> QED
  BY <1>1, <1>2, <1>3, <1>4 DEF Chain

(* The spin of ReadLock ends. *)
LEMMA ChainSpinEnds ==
  ASSUME NEW p, NEW m, NEW q, NEW s, NEW W, NEW R, NEW S, Chain(p, m, q, s, W, R, S)
  PROVE  /\ p = "spin" => /\ SlotOf[m.path] \in S
                          /\ Chain("body", m, q, s, W, R \cup {SlotOf[m.path]}, S \ {SlotOf[m.path]})
         /\ q = "spin" => /\ SlotOf[s.path] \in S
                          /\ Chain(p, m, "body", s, W, R \cup {SlotOf[s.path]}, S \ {SlotOf[s.path]})
<1> USE DEF ReadTypes, WriteTypes, CompoundTypes
<1>1. ASSUME p = "spin"
      PROVE  /\ SlotOf[m.path] \in S /\ Control("body", m, q, s)
             /\ Held("body", m, q, s, W, R \cup {SlotOf[m.path]}, S \ {SlotOf[m.path]})
  <2>1. q = "none" /\ m.type \in ReadTypes /\ Control("body", m, q, s)
    BY <1>1 DEF Chain, Control
  <2>2. SlotOf[m.path] \in S /\ R = {} /\ S \ {SlotOf[m.path]} = {}
    BY <1>1, <2>1 DEF Chain, Held
  <2>3. Held("body", m, q, s, W, {SlotOf[m.path]}, {})
    BY <2>1 DEF Held
  <2> QED
    BY <2>1, <2>2, <2>3
<1>2. ASSUME q = "spin"
      PROVE  /\ SlotOf[s.path] \in S /\ Control(p, m, "body", s)
             /\ Held(p, m, "body", s, W, R \cup {SlotOf[s.path]}, S \ {SlotOf[s.path]})
  BY <1>2 DEF Chain, Control, Held
<1> QED
  BY <1>1, <1>2 DEF Chain

(* A reading handler ends and unlocks. *)
LEMMA ChainReadDone ==
  ASSUME NEW p, NEW m, NEW q, NEW s, NEW W, NEW R, NEW S, Chain(p, m, q, s, W, R, S)
  PROVE  /\ p = "body" /\ m.type \in ReadTypes =>
              SlotOf[m.path] \in R /\ Chain("replied", m, q, s, W, R \ {SlotOf[m.path]}, S)
         /\ q = "body" /\ s.type \in ReadTypes =>
              SlotOf[s.path] \in R /\ Chain(p, m, "replied", s, W, R \ {SlotOf[s.path]}, S)
<1> USE DEF ReadTypes, WriteTypes, CompoundTypes
<1>1. ASSUME p = "body", m.type \in ReadTypes
      PROVE  /\ SlotOf[m.path] \in R /\ Control("replied", m, q, s)
             /\ Held("replied", m, q, s, W, R \ {SlotOf[m.path]}, S)
  BY <1>1 DEF Chain, Control, Held
<1>2. ASSUME q = "body", s.type \in ReadTypes
      PROVE  /\ SlotOf[s.path] \in R /\ Control(p, m, "replied", s)
             /\ Held(p, m, "replied", s, W, R \ {SlotOf[s.path]}, S)
  BY <1>2 DEF Chain, Control, Held
<1> QED
  BY <1>1, <1>2 DEF Chain

(* A changing handler ends and unlocks its own path: all but ADDMETA and     *)
(* REMOVEMETA in the main frame, DOCOMMIT in the sub frame, which leaves the *)
(* path of the main frame locked.                                            *)
UnlockTypes == (WriteTypes \ {"ADDMETA", "REMOVEMETA"}) \cup {"DOCOMMIT"}

LEMMA ChainWriteDone ==
  ASSUME NEW p, NEW m, NEW q, NEW s, NEW W, NEW R, NEW S, Chain(p, m, q, s, W, R, S)
  PROVE  /\ p = "apply" \/ (p = "body" /\ m.type \in UnlockTypes) =>
              SlotOf[m.path] \in W /\ Chain("replied", m, q, s, W \ {SlotOf[m.path]}, R, S)
         /\ q = "apply" \/ (q = "body" /\ s.type \in UnlockTypes) =>
              SlotOf[s.path] \in W /\ Chain(p, m, "replied", s, W \ {SlotOf[s.path]}, R, S)
<1> USE DEF ReadTypes, WriteTypes, CompoundTypes, UnlockTypes
<1>1. ASSUME p = "apply" \/ (p = "body" /\ m.type \in UnlockTypes)
      PROVE  /\ SlotOf[m.path] \in W /\ Control("replied", m, q, s)
             /\ Held("replied", m, q, s, W \ {SlotOf[m.path]}, R, S)
  BY <1>1 DEF Chain, Control, Held
<1>2. ASSUME q = "apply" \/ (q = "body" /\ s.type \in UnlockTypes)
      PROVE  /\ SlotOf[s.path] \in W /\ Control(p, m, "replied", s)
             /\ Held(p, m, "replied", s, W \ {SlotOf[s.path]}, R, S)
  <2>1. q = "body" /\ s.type = "DOCOMMIT"
    BY <1>2 DEF Chain, Control
  <2> QED
    BY <2>1 DEF Chain, Control, Held
<1> QED
  BY <1>1, <1>2 DEF Chain

(* ADDMETA, REMOVEMETA and FREEBLOCK end with the locks they have. *)
KeepTypes == {"ADDMETA", "REMOVEMETA", "FREEBLOCK", "EMPTYREAD"}

LEMMA ChainKeepDone ==
  ASSUME NEW p, NEW m, NEW q, NEW s, NEW W, NEW R, NEW S, Chain(p, m, q, s, W, R, S)
  PROVE  /\ p = "body" /\ m.type \in KeepTypes => Chain("replied", m, q, s, W, R, S)
         /\ q = "body" /\ s.type \in KeepTypes => Chain(p, m, "replied", s, W, R, S)
<1> USE DEF MainTypes, ReadTypes, WriteTypes, CompoundTypes, KeepTypes
<1>1. ASSUME p = "body", m.type \in KeepTypes
      PROVE  Control("replied", m, q, s) /\ Held("replied", m, q, s, W, R, S)
  BY <1>1 DEF Chain, Control, Held
<1>2. ASSUME q = "body", s.type \in KeepTypes
      PROVE  Control(p, m, "replied", s) /\ Held(p, m, "replied", s, W, R, S)
  BY <1>2 DEF Chain, Control, Held
<1> QED
  BY <1>1, <1>2 DEF Chain

(* The main frame calls the parent, locally or through a queue. *)
LEMMA ChainCall ==
  ASSUME NEW p, NEW m, NEW q, NEW s, NEW W, NEW R, NEW S, Chain(p, m, q, s, W, R, S),
         p = "body", m.type \in CompoundTypes, NEW n, NEW l, n.path \in Path,
         n.type = (IF m.type = "RENAME" THEN "REMOVEMETA" ELSE "READDIRECTORYMETA"),
         l \in {EntryPc(n.type), "queued"}
  PROVE  Chain("call", m, l, n, W, R, S)
<1> USE DEF EntryPc, ReadTypes, WriteTypes, CompoundTypes
<1>1. Control("call", m, l, n)
  BY DEF Chain, Control
<1>2. Held("call", m, l, n, W, R, S)
  BY DEF Chain, Control, Held
<1> QED
  BY <1>1, <1>2 DEF Chain

(* The commit call of rename: the parent stays locked in between. *)
LEMMA ChainCommit ==
  ASSUME NEW p, NEW m, NEW q, NEW s, NEW W, NEW R, NEW S, Chain(p, m, q, s, W, R, S),
         p = "call", q = "replied", m.type = "RENAME", NEW n, NEW l, n.path = s.path,
         n.type = "DOCOMMIT", l \in {EntryPc(n.type), "queued"}
  PROVE  Chain("commit", m, l, n, W, R, S)
<1> USE DEF EntryPc, ReadTypes, WriteTypes, CompoundTypes
<1>1. Control("commit", m, l, n)
  BY DEF Chain, Control
<1>2. Held("commit", m, l, n, W, R, S)
  BY DEF Chain, Control, Held
<1> QED
  BY <1>1, <1>2 DEF Chain

(* The parent has replied: the main frame gives up, or goes on alone. *)
LEMMA ChainReplied ==
  ASSUME NEW p, NEW m, NEW q, NEW s, NEW W, NEW R, NEW S, Chain(p, m, q, s, W, R, S),
         p \in {"call", "commit"}, q = "replied"
  PROVE  /\ SlotOf[m.path] \in W /\ Chain("replied", m, "none", NoMsg, W \ {SlotOf[m.path]}, R, S)
         /\ Chain("apply", m, "none", NoMsg, W, R, S)
<1> USE DEF NoMsg, Msg, ReadTypes, WriteTypes, CompoundTypes
<1>1. Control("replied", m, "none", NoMsg) /\ Control("apply", m, "none", NoMsg)
  BY PathAssumption DEF Chain, Control
<1>2. SlotOf[m.path] \in W /\ Held("replied", m, "none", NoMsg, W \ {SlotOf[m.path]}, R, S)
  BY DEF Chain, Control, Held
<1>3. Held("apply", m, "none", NoMsg, W, R, S)
  BY DEF Chain, Control, Held
<1> QED
  BY <1>1, <1>2, <1>3 DEF Chain

-----------------------------------------------------------------------------
(* The queues Q hold members of W only, each at most once. *)
Distinct(Q, W) ==
  /\ \A t \in DOMAIN Q : Q[t] \in Seq(W)
  /\ \A t, u \in DOMAIN Q : \A i \in 1 .. Len(Q[t]), j \in 1 .. Len(Q[u]) :
       Q[t][i] = Q[u][j] => t = u /\ i = j

(* More requests may be waiting than the queues show. *)
LEMMA DistinctMore ==
  ASSUME NEW Q, NEW W, NEW V, Distinct(Q, W), W \subseteq V
  PROVE  Distinct(Q, V)
BY DEF Distinct

(* A request that was not waiting enters one queue (sendMessage, RdmaCall). *)
LEMMA DistinctAppend ==
  ASSUME NEW Q, NEW W, NEW t, NEW f, f \notin W, Distinct(Q, W)
  PROVE  Distinct([Q EXCEPT ![t] = Append(@, f)], W \cup {f})
<1> DEFINE R == [Q EXCEPT ![t] = Append(@, f)]
           V == W \cup {f}
<1>1. \A u \in DOMAIN Q : Q[u] \in Seq(W) /\ Q[u] \in Seq(V) /\ Len(Q[u]) \in Nat
  BY DEF Distinct
<1>2. \A u \in DOMAIN Q : \A i \in 1 .. Len(Q[u]) : Q[u][i] # f
  BY <1>1
<1>3. DOMAIN R = DOMAIN Q /\ \A u \in DOMAIN Q : u # t => R[u] = Q[u]
  OBVIOUS
<1>4. t \in DOMAIN Q => R[t] = Append(Q[t], f)
  OBVIOUS
<1>5. t \in DOMAIN Q =>
         /\ R[t] \in Seq(V) /\ Len(R[t]) = Len(Q[t]) + 1
         /\ \A i \in 1 .. Len(Q[t]) : R[t][i] = Q[t][i]
         /\ R[t][Len(Q[t]) + 1] = f
  BY <1>1, <1>4, f \in V
<1> HIDE DEF R
<1>6. \A u \in DOMAIN Q : \A i \in 1 .. Len(R[u]) :
         \/ i \in 1 .. Len(Q[u]) /\ R[u][i] = Q[u][i]
         \/ u = t /\ i = Len(Q[t]) + 1 /\ R[u][i] = f
  <2> SUFFICES ASSUME NEW u \in DOMAIN Q, NEW i \in 1 .. Len(R[u])
               PROVE  \/ i \in 1 .. Len(Q[u]) /\ R[u][i] = Q[u][i]
                      \/ u = t /\ i = Len(Q[t]) + 1 /\ R[u][i] = f
    OBVIOUS
  <2>1. CASE u = t
    BY <2>1, <1>1, <1>5
  <2>2. CASE u # t
    BY <2>2, <1>3
  <2> QED
    BY <2>1, <2>2
<1>7. \A u \in DOMAIN R : R[u] \in Seq(V)
  BY <1>1, <1>3, <1>5
<1>8. ASSUME NEW u \in DOMAIN Q, NEW v \in DOMAIN Q,
             NEW i \in 1 .. Len(R[u]), NEW j \in 1 .. Len(R[v]), R[u][i] = R[v][j]
      PROVE  u = v /\ i = j
  <2>1. CASE i \in 1 .. Len(Q[u]) /\ j \in 1 .. Len(Q[v])
    <3>1. R[u][i] = Q[u][i] /\ R[v][j] = Q[v][j]
      BY <2>1, <1>3, <1>5
    <3>2. Q[u][i] = Q[v][j]
      BY <3>1, <1>8
    <3> QED
      BY <2>1, <3>2 DEF Distinct
  <2>2. CASE ~(i \in 1 .. Len(Q[u]) /\ j \in 1 .. Len(Q[v]))
    <3>1. \/ i \in 1 .. Len(Q[u]) /\ R[u][i] # f
          \/ u = t /\ i = Len(Q[t]) + 1 /\ R[u][i] = f
      BY <1>2, <1>6
    <3>2. \/ j \in 1 .. Len(Q[v]) /\ R[v][j] # f
          \/ v = t /\ j = Len(Q[t]) + 1 /\ R[v][j] = f
      BY <1>2, <1>6, Zenon
    <3> QED
      BY <2>2, <3>1, <3>2, <1>8
  <2> QED
    BY <2>1, <2>2
<1> QED
  BY <1>3, <1>7, <1>8 DEF Distinct, R

(* The first request of a queue leaves it (RequestPoller). *)
LEMMA DistinctTail ==
  ASSUME NEW Q, NEW W, NEW t \in DOMAIN Q, Q[t] # <<>>, Distinct(Q, W)
  PROVE  /\ Head(Q[t]) \in W
         /\ Distinct([Q EXCEPT ![t] = Tail(@)], W \ {Head(Q[t])})
<1> DEFINE R == [Q EXCEPT ![t] = Tail(@)]
           f == Head(Q[t])
           V == W \ {f}
           Old(u, i) == IF u = t THEN i + 1 ELSE i
<1>1. \A u \in DOMAIN Q : Q[u] \in Seq(W) /\ Len(Q[u]) \in Nat
  BY DEF Distinct
<1>2. Len(Q[t]) \in Nat \ {0}
  BY <1>1
<1>3. f = Q[t][1] /\ f \in W /\ 1 \in 1 .. Len(Q[t])
  BY <1>1, <1>2
<1>4. /\ Tail(Q[t]) \in Seq(W) /\ Len(Tail(Q[t])) = Len(Q[t]) - 1
      /\ \A i \in 1 .. Len(Tail(Q[t])) : Tail(Q[t])[i] = Q[t][i + 1]
  BY <1>1
<1>5. R[t] = Tail(Q[t]) /\ DOMAIN R = DOMAIN Q /\ \A u \in DOMAIN Q : u # t => R[u] = Q[u]
  OBVIOUS
<1> HIDE DEF R, f, V
<1>6. \A u \in DOMAIN Q : R[u] \in Seq(W) /\ Len(R[u]) \in Nat
  BY <1>1, <1>2, <1>4, <1>5
<1>7. ASSUME NEW u \in DOMAIN Q, NEW i \in 1 .. Len(R[u])
      PROVE  Old(u, i) \in 1 .. Len(Q[u]) /\ R[u][i] = Q[u][Old(u, i)]
  <2>1. CASE u = t
    BY <2>1, <1>2, <1>4, <1>5
  <2>2. CASE u # t
    BY <2>2, <1>5
  <2> QED
    BY <2>1, <2>2
<1>8. ASSUME NEW u \in DOMAIN Q, NEW i \in 1 .. Len(R[u])
      PROVE  R[u][i] \in V
  <2>1. R[u][i] \in W
    BY <1>6
  <2>2. Q[u][Old(u, i)] = Q[t][1] => u = t /\ Old(u, i) = 1
    BY <1>3, <1>7 DEF Distinct
  <2>3. ~(u = t /\ Old(u, i) = 1)
    OBVIOUS
  <2> QED
    BY <2>1, <2>2, <2>3, <1>3, <1>7 DEF V
<1>9. ASSUME NEW u \in DOMAIN Q
      PROVE  R[u] \in Seq(V)
  <2>1. R[u] \in [1 .. Len(R[u]) -> V]
    BY <1>6, <1>8
  <2> QED
    BY <2>1, <1>6, SMTT(30)
<1>10. ASSUME NEW u \in DOMAIN Q, NEW v \in DOMAIN Q,
              NEW i \in 1 .. Len(R[u]), NEW j \in 1 .. Len(R[v]), R[u][i] = R[v][j]
       PROVE  u = v /\ i = j
  <2>1. Q[u][Old(u, i)] = Q[v][Old(v, j)]
    BY <1>7, <1>10
  <2>2. u = v /\ Old(u, i) = Old(v, j)
    BY <2>1, <1>7 DEF Distinct
  <2> QED
    BY <2>2
<1> QED
  BY <1>3, <1>5, <1>9, <1>10 DEF Distinct, R, f, V

-----------------------------------------------------------------------------
(* A chain of free positions without repetition: its head is taken, or a   *)
(* position that is not in it is put in front.                             *)
LEMMA ChainTail ==
  ASSUME NEW S, NEW s \in Seq(S), s # <<>>, IsInjective(s)
  PROVE  /\ Tail(s) \in Seq(S) /\ IsInjective(Tail(s))
         /\ Head(s) \in S /\ Head(s) \in Range(s)
         /\ Range(Tail(s)) \subseteq Range(s) \ {Head(s)}
<1>1. Tail(s) \in Seq(S) /\ Len(s) \in Nat \ {0} /\ DOMAIN s = 1 .. Len(s) /\ Head(s) = s[1]
  OBVIOUS
<1>2. DOMAIN Tail(s) = 1 .. Len(s) - 1
  BY <1>1
<1>3. \A i \in DOMAIN Tail(s) : i + 1 \in DOMAIN s /\ i + 1 # 1 /\ Tail(s)[i] = s[i + 1]
  BY <1>1, <1>2
<1>4. IsInjective(Tail(s))
  <2> SUFFICES ASSUME NEW i \in DOMAIN Tail(s), NEW j \in DOMAIN Tail(s), Tail(s)[i] = Tail(s)[j]
               PROVE  i = j
    BY DEF IsInjective
  <2>1. i + 1 = j + 1
    BY <1>3 DEF IsInjective
  <2> QED
    BY <1>2, <2>1
<1>5. 1 \in DOMAIN s /\ s[1] \in S
  BY <1>1
<1>6. ASSUME NEW i \in DOMAIN Tail(s) PROVE Tail(s)[i] \in Range(s) /\ Tail(s)[i] # s[1]
  BY <1>3, <1>5 DEF IsInjective, Range
<1> QED
  BY <1>1, <1>4, <1>5, <1>6 DEF Range

LEMMA ChainFront ==
  ASSUME NEW S, NEW s \in Seq(S), IsInjective(s), NEW x \in S, x \notin Range(s)
  PROVE  /\ <<x>> \o s \in Seq(S) /\ IsInjective(<<x>> \o s)
         /\ Range(<<x>> \o s) \subseteq Range(s) \cup {x}
<1> DEFINE u == <<x>> \o s
<1>1. u \in Seq(S) /\ Len(s) \in Nat /\ DOMAIN s = 1 .. Len(s) /\ DOMAIN u = 1 .. Len(s) + 1 /\ u[1] = x
  OBVIOUS
<1>2. \A i \in DOMAIN u \ {1} : i - 1 \in DOMAIN s /\ u[i] = s[i - 1]
  BY <1>1
<1> HIDE DEF u
<1>3. \A i \in DOMAIN u \ {1} : u[i] \in Range(s)
  BY <1>2 DEF Range
<1>4. IsInjective(u)
  <2> SUFFICES ASSUME NEW i \in DOMAIN u, NEW j \in DOMAIN u, u[i] = u[j] PROVE i = j
    BY DEF IsInjective
  <2>1. CASE i = 1 \/ j = 1
    BY <1>1, <1>3, <2>1
  <2>2. CASE i # 1 /\ j # 1
    <3>1. i - 1 = j - 1
      BY <1>2, <2>2 DEF IsInjective
    <3> QED
      BY <1>1, <3>1
  <2> QED
    BY <2>1, <2>2
<1> QED
  BY <1>1, <1>3, <1>4 DEF Range, u
=============================================================================
