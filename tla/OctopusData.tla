---------------------------- MODULE OctopusData -----------------------------
(***************************************************************************)
(* Where the bytes of a file are: what a client is told when it reads or   *)
(* writes a range of them, against their order in the extents.             *)
(***************************************************************************)
EXTENDS Octopus, SequencesExt

(* The bytes of a file in order, each as a server and a position there. *)
Bytes(m) ==
  LET OfExtent(e) == [k \in 1 .. e.count * BLOCK_SIZE |-> <<e.node, e.start * BLOCK_SIZE + k - 1>>]
  IN FlattenSeq([i \in DOMAIN m.extents |-> OfExtent(m.extents[i])])

Positions(tuples) ==
  FlattenSeq([i \in DOMAIN tuples |->
    [k \in 1 .. tuples[i].size |-> <<tuples[i].node, tuples[i].offset + k - 1>>]])

(* PositionsSound: for every range of bytes of every file, the tuples that  *)
(* fillFilePositionInformation gives the client add up to the range, and    *)
(* address its bytes in order.  The last of several tuples, whose offset    *)
(* the code sets to 0, is left out.                                         *)
PositionsSound ==
  \A p \in DOMAIN hashtable : IsFile(p) =>
    \A off \in 0 .. FileMeta(p).size - 1 : \A size \in 1 .. FileMeta(p).size - off :
      LET tuples == FilePositions(FileMeta(p), off, size)
          kept == IF Len(tuples) = 1 THEN tuples ELSE Front(tuples)
      IN /\ Len(Positions(tuples)) = size
         /\ IsPrefix(Positions(kept), SubSeq(Bytes(FileMeta(p)), off + 1, off + size))
=============================================================================
