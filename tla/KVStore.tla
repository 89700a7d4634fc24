------------------------------- MODULE KVStore -------------------------------
(***************************************************************************)
(* What the level hash table promises to its caller, with the table hidden:*)
(* a bag of key-value items and the result of the last completed call.     *)
(* Insert never looks for an existing item, so a key may be stored several *)
(* times; the other calls act on one of its copies, whichever the search   *)
(* order of the implementation meets first.                                *)
(***************************************************************************)
EXTENDS Naturals

CONSTANTS Key, Value, NULL

VARIABLES items,   \* items[<<k, v>>]: how many copies of the item are stored
          result   \* what the last completed call returned

vars == <<items, result>>

Pair == Key \X Value

Nothing == [fn |-> "none"]

Stored(k) == {v \in Value : items[<<k, v>>] > 0}

Init ==
    /\ items = [p \in Pair |-> 0]
    /\ result = Nothing

Insert(k, v) ==
    /\ items' = [items EXCEPT ![<<k, v>>] = @ + 1]
    /\ result' = [fn |-> "insert", key |-> k, out |-> 0]

\* A query returns the value of some stored copy, and NULL only if there is none.
Query(k) ==
    /\ \E v \in IF Stored(k) = {} THEN {NULL} ELSE Stored(k) :
          result' = [fn |-> "query", key |-> k, out |-> v]
    /\ UNCHANGED items

\* Delete removes exactly one copy, and reports 1 only if there is none.
Delete(k) ==
    \/ /\ Stored(k) = {}
       /\ result' = [fn |-> "delete", key |-> k, out |-> 1]
       /\ UNCHANGED items
    \/ \E v \in Stored(k) :
          /\ items' = [items EXCEPT ![<<k, v>>] = @ - 1]
          /\ result' = [fn |-> "delete", key |-> k, out |-> 0]

\* Update changes the value of exactly one copy, and reports 1 only if there is none.
Update(k, v) ==
    \/ /\ Stored(k) = {}
       /\ result' = [fn |-> "update", key |-> k, out |-> 1]
       /\ UNCHANGED items
    \/ \E w \in Stored(k) :
          /\ items' = [p \in Pair |-> items[p] + (IF p = <<k, v>> THEN 1 ELSE 0)
                                               - (IF p = <<k, w>> THEN 1 ELSE 0)]
          /\ result' = [fn |-> "update", key |-> k, out |-> 0]

Shrink ==
    /\ result' = [fn |-> "shrink"]
    /\ UNCHANGED items

Next ==
    \/ \E k \in Key : Query(k) \/ Delete(k)
    \/ \E k \in Key, v \in Value : Insert(k, v) \/ Update(k, v)
    \/ Shrink

Spec == Init /\ [][Next]_vars
==============================================================================
