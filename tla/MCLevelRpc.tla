------------------------------ MODULE MCLevelRpc ------------------------------
(* Instances of LevelRpc: a and b share their buckets up to level 2.            *)
EXTENDS LevelRpc

CONSTANTS a, b, junk

MCFHash == [k \in AnyKey |-> CASE k = a -> 0 [] k = b -> 2 [] k = junk -> 0]
MCSHash == [k \in AnyKey |-> CASE k = a -> 0 [] k = b -> 2 [] k = junk -> 1]
==============================================================================
