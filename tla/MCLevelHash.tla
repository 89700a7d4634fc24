----------------------------- MODULE MCLevelHash -----------------------------
(* Instances of LevelHash: the hashes of the keys, as a configuration file    *)
(* cannot write a function.                                                   *)
EXTENDS LevelHash

CONSTANTS a, b, c, d, junk

\* At level 2 the keys a and b share all four buckets, from level 3 on only the
\* bottom ones; c shares one location with each.  From level 4 on d shares
\* no top bucket with a, and up to level 3 all of them.
MCFHash == [k \in AnyKey |-> CASE k = a -> 0 [] k = b -> 2 [] k = c -> 2 [] k = d -> 4 [] k = junk -> 0]
MCSHash == [k \in AnyKey |-> CASE k = a -> 0 [] k = b -> 2 [] k = c -> 0 [] k = d -> 4 [] k = junk -> 1]
==============================================================================
