----------------------------- MODULE LevelBucket -----------------------------
(***************************************************************************)
(* A bucket of the tables that the DPU caches and the host stores: the     *)
(* class LevelBucket of levelkv/src/common/level_hashing.hpp.  A slot that *)
(* is emptied keeps the bytes of its key and value.                        *)
(***************************************************************************)
EXTENDS Integers, FiniteSets

CONSTANTS Key, Value, NULL,
          ZeroKey,      \* the key whose bytes are all zero
          ASSOC_NUM     \* slots of a bucket

AnyKey == Key \cup {ZeroKey}

ASSUME BucketAssumption ==
    /\ ZeroKey \notin Key /\ NULL \notin Value
    /\ ASSOC_NUM \in Nat \ {0}

Slots == 0 .. ASSOC_NUM - 1

Slot == [token : {0, 1}, key : AnyKey, value : Value \cup {NULL}]

Bucket == [Slots -> Slot]

\* What memset to zero leaves.
Zeroed == [i \in Slots |-> [token |-> 0, key |-> ZeroKey, value |-> NULL]]

Holding(B, k) == {i \in Slots : B[i].token = 1 /\ B[i].key = k}

Free(B) == {i \in Slots : B[i].token = 0}

First(S) == CHOOSE i \in S : \A j \in S : i <= j

SearchSlot(B, k) == Holding(B, k) # {}

Found(B, k) == B[First(Holding(B, k))].value

DeleteSlot(B, k) == [B EXCEPT ![First(Holding(B, k))].token = 0]

CanInsert(B) == Free(B) # {}

InsertSlot(B, k, v) ==
    [B EXCEPT ![First(Free(B))] = [token |-> 1, key |-> k, value |-> v]]

Count(B) == Cardinality({i \in Slots : B[i].token = 1})
==============================================================================
