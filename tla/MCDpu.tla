-------------------------------- MODULE MCDpu --------------------------------
(* Instances of Dpu: the hashes of the keys.  At level 3 the buckets of ka are  *)
(* 4, 8, 0, 2; kb shares 8 and 2 with ka, kc shares 4 and 0, and kd shares all. *)
EXTENDS Dpu

CONSTANTS ka, kb, kc, kd, zero

MCFHash == [k \in AnyKey |-> CASE k = ka -> 0 [] k = kb -> 1 [] k = kc -> 0 [] k = kd -> 4 [] k = zero -> 0]
MCSHash == [k \in AnyKey |-> CASE k = ka -> 0 [] k = kb -> 0 [] k = kc -> 1 [] k = kd -> 4 [] k = zero -> 0]
==============================================================================
