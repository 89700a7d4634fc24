----------------------------- MODULE OctoStore ------------------------------
(***************************************************************************)
(* The storage of one Octopus server as pure operators: the item tables    *)
(* with their chain of free positions (Table, table.hpp), the block        *)
(* allocation of a write (FileSystem::extentWrite) and the translation of  *)
(* a byte range to positions in the data area                              *)
(* (FileSystem::fillFilePositionInformation).                              *)
(***************************************************************************)
EXTENDS Integers, Sequences, FiniteSetsExt, Functions

CONSTANT BLOCK_SIZE \* bytes of a block

ASSUME BlockSizeAssumption == BLOCK_SIZE \in Nat \ {0}

(* A table: its items, the chain of free positions, and whether a failed   *)
(* create has left mutexBitmapItems locked.                                *)
NewTable(n, v) ==
  [item |-> [i \in 0 .. n - 1 |-> v],
   free |-> [i \in 1 .. n |-> i - 1],
   stuck |-> FALSE]

Full(t) == t.free = <<>>

(* Table::create.  With an empty chain it returns between lock and unlock. *)
TableCreate(t, v) ==
  IF Full(t)
  THEN [t EXCEPT !.stuck = TRUE]
  ELSE [t EXCEPT !.item[Head(t.free)] = v, !.free = Tail(@)]

TablePut(t, i, v) == [t EXCEPT !.item[i] = v]

Saved(t) == DOMAIN t.item \ Range(t.free)

(* Table::remove: nothing happens when the bit is not set or does not exist. *)
TableRemove(t, i) == IF i \in Saved(t) THEN [t EXCEPT !.free = <<i>> \o @] ELSE t

(* The blocks of an extent, freed from the last one down. *)
RemoveExtent(t, e) ==
  LET after[k \in 0 .. e.count] ==
        IF k = 0 THEN t ELSE TableRemove(after[k - 1], e.start + e.count - k)
  IN after[e.count]

RemoveExtents(t, exts) ==
  LET after[k \in 0 .. Len(exts)] == IF k = 0 THEN t ELSE RemoveExtent(after[k - 1], exts[k])
  IN after[Len(exts)]

(* blockFree: the same, up to the first block that is not set. *)
FreeExtent(t, e) ==
  LET clear == {b \in e.start .. e.start + e.count - 1 : b \notin Saved(t)}
      low == IF clear = {} THEN e.start ELSE Max(clear) + 1
  IN RemoveExtent(t, [start |-> low, count |-> e.start + e.count - low])

(***************************************************************************)
(* File metadata: a size in bytes and a sequence of extents, each with the *)
(* server it is on, its first block and its number of blocks.              *)
(***************************************************************************)
EmptyFile == [size |-> 0, extents |-> <<>>]

BlocksOf(e) == {<<e.node, b>> : b \in e.start .. e.start + e.count - 1}

FileBlocks(m) == UNION {BlocksOf(m.extents[i]) : i \in DOMAIN m.extents}

(* A new block joins the last extent when it follows it.  Only the block   *)
(* number is compared, not the server of the extent.                       *)
AddBlock(n, exts, b) ==
  LET k == Len(exts) IN
  IF exts # <<>> /\ exts[k].start + exts[k].count = b
  THEN [exts EXCEPT ![k].count = @ + 1]
  ELSE Append(exts, [node |-> n, start |-> b, count |-> 1])

BlockNo(byte) == byte \div BLOCK_SIZE

(* How many blocks a write of size bytes at off adds to file m. *)
ExtraBlocks(m, off, size) ==
  LET last == BlockNo(off + size - 1) IN
  IF m.size = 0 THEN last + 1
  ELSE IF last > BlockNo(m.size - 1) THEN last - BlockNo(m.size - 1) ELSE 0

(* Mutant: the blocks stay in the chain. *)
Allocate_KeepsFree(t, k) ==
  IF k <= Len(t.free) THEN t ELSE [t EXCEPT !.free = <<>>, !.stuck = TRUE]

(* The block table after the allocation: a failing one keeps what it took. *)
Allocate(t, k) ==
  IF k <= Len(t.free)
  THEN [t EXCEPT !.free = SubSeq(@, k + 1, Len(@))]
  ELSE [t EXCEPT !.free = <<>>, !.stuck = TRUE]

(* The file after a write for which the table has enough free blocks. *)
Extend(m, t, n, off, size) ==
  LET extra == ExtraBlocks(m, off, size)
      after[k \in 0 .. extra] == IF k = 0 THEN m.extents ELSE AddBlock(n, after[k - 1], t.free[k])
  IN [size |-> IF off + size > m.size THEN off + size ELSE m.size, extents |-> after[extra]]

(* The first byte of the file that extent i holds. *)
FirstByte(m, i) ==
  LET count(k) == m.extents[k].count
  IN BLOCK_SIZE * MapThenSumSet(count, 1 .. i - 1)

(* The extent that holds a byte of the file. *)
ExtentOf(m, byte) ==
  CHOOSE i \in DOMAIN m.extents :
    /\ FirstByte(m, i) <= byte
    /\ byte < FirstByte(m, i) + m.extents[i].count * BLOCK_SIZE

(* Mutant: the range starts where its first extent starts. *)
Skip_None(m, first, i, off) == 0

(* Bytes of extent i before the range that starts at off in extent first. *)
Skip(m, first, i, off) == IF i = first THEN off - FirstByte(m, i) ELSE 0

(* fillFilePositionInformation: one position per extent touched.  The last *)
(* of several positions is given offset 0, whatever its extent.            *)
FilePositions(m, off, size) ==
  LET first == ExtentOf(m, off)
      last == ExtentOf(m, off + size - 1)
      Tuple(i) ==
        LET e == m.extents[i]
            skip == Skip(m, first, i, off)
        IN [node |-> e.node,
            offset |-> IF i = last /\ first # last THEN 0
                       ELSE e.start * BLOCK_SIZE + skip,
            size |-> CASE first = last -> size
                       [] i = last /\ first # last -> off + size - FirstByte(m, i)
                       [] OTHER -> e.count * BLOCK_SIZE - skip]
  IN [k \in 1 .. last - first + 1 |-> Tuple(first + k - 1)]
=============================================================================
