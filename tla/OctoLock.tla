------------------------------ MODULE OctoLock ------------------------------
(***************************************************************************)
(* The lock words of Octopus (LockService, lock.cpp).  Every bucket of the *)
(* hash table has a 64-bit word: its upper half is the key of a writer or  *)
(* 0, its lower half counts the readers that have announced themselves.    *)
(* A writer takes the word by compare-and-swap from 0; a reader adds 1     *)
(* first and then waits for the upper half to become 0.  Readers add to    *)
(* and subtract from the whole word, so a count that leaves its half       *)
(* changes the upper one: the word is key * HALF + lower, the key other    *)
(* than 0 exactly when upper is true.                                      *)
(*                                                                         *)
(* A client stands for its chain of calls: the client itself and the      *)
(* handlers, on one server or on another, that work for it.  The actions   *)
(* below are the four operations; Octopus.tla uses them as conjuncts of    *)
(* its handlers.                                                           *)
(***************************************************************************)
EXTENDS Integers

CONSTANTS Client, \* chains of calls
          Slot,   \* lock words: a server and a hash address
          HALF    \* 2^32, what half a word can count

(* There are fewer than HALF clients. *)
ASSUME HalfAssumption ==
  /\ HALF \in Nat \ {0}
  /\ \A list \in [1 .. HALF -> Client] : \E i, j \in 1 .. HALF : i # j /\ list[i] = list[j]

VARIABLES word,  \* the memory word of every slot
          wheld, \* the slots of which the client's chain has the write key
          rheld, \* the slots the client's chain has locked for reading
          rspin  \* the slots whose writer the client's chain is waiting for

lockVars == <<word, wheld, rheld, rspin>>

LockTypeOK ==
  /\ word \in [Slot -> [upper : BOOLEAN, lower : Int]]
  /\ wheld \in [Client -> SUBSET Slot]
  /\ rheld \in [Client -> SUBSET Slot]
  /\ rspin \in [Client -> SUBSET Slot]

LockInit ==
  /\ word = [s \in Slot |-> [upper |-> FALSE, lower |-> 0]]
  /\ wheld = [a \in Client |-> {}]
  /\ rheld = [a \in Client |-> {}]
  /\ rspin = [a \in Client |-> {}]

(* The compare-and-swap of WriteLock succeeds only on a word that is 0. *)
Busy(s) == word[s].upper \/ word[s].lower # 0

(* The upper half is not 0: there is a key, which is never 1, or the count *)
(* has left the lower half.                                                *)
Taken(s) == word[s].upper \/ word[s].lower \notin 0 .. HALF - 1

WriteLock(a, s) ==
  /\ ~Busy(s)
  /\ word' = [word EXCEPT ![s].upper = TRUE]
  /\ wheld' = [wheld EXCEPT ![a] = @ \cup {s}]
  /\ UNCHANGED <<rheld, rspin>>

(* WriteUnlock clears the upper half whoever calls it: the key it is given *)
(* is not compared.                                                        *)
WriteUnlock(a, s) ==
  /\ word' = [word EXCEPT ![s] = [upper |-> FALSE, lower |-> @.lower % HALF]]
  /\ wheld' = [wheld EXCEPT ![a] = @ \ {s}]
  /\ UNCHANGED <<rheld, rspin>>

(* Mutant: the old value is not looked at. *)
ReadLock_NoWait(a, s) ==
  /\ word' = [word EXCEPT ![s].lower = @ + 1]
  /\ rheld' = [rheld EXCEPT ![a] = @ \cup {s}]
  /\ UNCHANGED <<wheld, rspin>>

(* The fetch-and-add of ReadLock; the lock is taken at once when the old *)
(* value has no writer.                                                  *)
ReadLock(a, s) ==
  /\ word' = [word EXCEPT ![s].lower = @ + 1]
  /\ IF Taken(s)
     THEN rspin' = [rspin EXCEPT ![a] = @ \cup {s}] /\ UNCHANGED rheld
     ELSE rheld' = [rheld EXCEPT ![a] = @ \cup {s}] /\ UNCHANGED rspin
  /\ UNCHANGED wheld

(* Mutant: the whole word is compared, the reader's own 1 included. *)
ReadSpinEnds_WholeWord(a, s) ==
  /\ ~Busy(s)
  /\ rspin' = [rspin EXCEPT ![a] = @ \ {s}]
  /\ rheld' = [rheld EXCEPT ![a] = @ \cup {s}]
  /\ UNCHANGED <<word, wheld>>

(* The spin of ReadLock ends when it reads 0 in the upper half. *)
ReadSpinEnds(a, s) ==
  /\ ~Taken(s)
  /\ rspin' = [rspin EXCEPT ![a] = @ \ {s}]
  /\ rheld' = [rheld EXCEPT ![a] = @ \cup {s}]
  /\ UNCHANGED <<word, wheld>>

ReadUnlock(a, s) ==
  /\ word' = [word EXCEPT ![s].lower = @ - 1]
  /\ rheld' = [rheld EXCEPT ![a] = @ \ {s}]
  /\ UNCHANGED <<wheld, rspin>>

(* ReadUnlock of a word that the caller has not locked. *)
StrayUnlock(s) ==
  /\ word' = [word EXCEPT ![s].lower = @ - 1]
  /\ UNCHANGED <<wheld, rheld, rspin>>

(***************************************************************************)
(* The protocol: what callers must keep to.  Only a chain that has the     *)
(* write key unlocks for writing, only a reader unlocks for reading, and   *)
(* no chain announces itself twice at one word.                            *)
(***************************************************************************)
LockNext ==
  \E a \in Client, s \in Slot :
    \/ WriteLock(a, s)
    \/ s \in wheld[a] /\ WriteUnlock(a, s)
    \/ s \notin rheld[a] \cup rspin[a] /\ ReadLock(a, s)
    \/ s \in rspin[a] /\ ReadSpinEnds(a, s)
    \/ s \in rheld[a] /\ ReadUnlock(a, s)

LockSpec == LockInit /\ [][LockNext]_lockVars

(***************************************************************************)
(* WriteExclusion: while a chain has the write key of a word no other      *)
(* chain has it and nobody, the holder included, reads under the word.     *)
(* What WriteLock and ReadLock promise to the handlers of filesystem.cpp.  *)
(***************************************************************************)
WriteExclusion ==
  \A a \in Client : \A s \in wheld[a] : \A b \in Client :
    s \notin rheld[b] /\ (s \in wheld[b] => a = b)
=============================================================================
