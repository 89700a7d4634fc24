------------------------------ MODULE Octopus -------------------------------
(***************************************************************************)
(* Octopus, the distributed file system under src/sys/octopus, in its      *)
(* built configuration (TRANSACTION_CD).  A path lives on the server its   *)
(* hash selects: its hash-table entry, its metadata and its lock word are  *)
(* there, while the entry that names it is in the metadata of its parent,  *)
(* usually on another server.  Clients call the server of a path; a worker *)
(* thread serves the call and may in turn call the server of the parent,   *)
(* where worker 0 serves all calls of other servers.                       *)
(*                                                                         *)
(* OctoFrames has the clients, the worker threads and the frames of the    *)
(* handlers; here is what the handlers do.                                 *)
(***************************************************************************)
EXTENDS OctoFrames, OctoStore

CONSTANTS DirCount,   \* directories a server can hold
          FileCount,  \* files a server can hold
          BlockCount  \* data blocks of a server

ASSUME NodeAssumption == \A p \in Path : NodeOf(p) \in Node

(* The root directory has its place, in its table and in the hash table. *)
ASSUME CountAssumption ==
  /\ DirCount \in Nat \ {0} /\ FileCount \in Nat /\ BlockCount \in Nat
  /\ DirCount + FileCount > 1

VARIABLES dirTable,   \* tableDirectoryMeta of every server
          fileTable,  \* tableFileMeta of every server
          blockTable, \* tableBlock of every server
          flying,     \* RDMA writes of directory metadata not yet landed
          overlapped  \* history: two changes of one directory have overlapped

tableVars == <<dirTable, fileTable, blockTable>>
storeVars == <<tableVars, flying, overlapped>>
vars == <<callVars, storeVars>>

(* The metadata of a path. *)
Entries(p) == dirTable[NodeOf(p)].item[Index(p)]
FileMeta(p) == fileTable[NodeOf(p)].item[Index(p)]
Attribute(p) == IF IsFile(p) THEN FileMeta(p) ELSE DirectoryAttr

(* HashTable::put succeeds: of the DirCount + FileCount items of the hash   *)
(* table of a server, which has an item for each of its paths, item 0 is    *)
(* never used.                                                              *)
PathsOn(n) == {q \in DOMAIN hashtable : NodeOf(q) = n}
HasRoom(p) == Exists(p) \/ Cardinality(PathsOn(NodeOf(p))) < DirCount + FileCount - 1

Init ==
  /\ FramesInit
  /\ dirTable = [n \in Node |->
       IF n = NodeOf(Root) THEN TableCreate(NewTable(DirCount, <<>>), <<>>)
       ELSE NewTable(DirCount, <<>>)]
  /\ fileTable = [n \in Node |-> NewTable(FileCount, EmptyFile)]
  /\ blockTable = [n \in Node |-> NewTable(BlockCount, 0)]
  /\ flying = [l \in Node \X Node |-> <<>>]
  /\ overlapped = FALSE

-----------------------------------------------------------------------------
(***************************************************************************)
(* A table whose mutex a failed create left locked blocks every later      *)
(* operation on it: the handler of m, at its body, needs such a table.     *)
(***************************************************************************)
Stalls(m) ==
  LET p == m.path
      n == NodeOf(p)
  IN
  \/ /\ dirTable[n].stuck /\ IsDirectory(p)
     /\ m.type \in {"READDIR", "READDIRECTORYMETA", "ADDMETA", "REMOVEMETA", "REMOVE"}
  \/ /\ fileTable[n].stuck
     /\ \/ IsFile(p) /\ m.type \in {"GETATTR", "EXTENTREAD", "EXTENTWRITE", "REMOVE"}
        \/ ~Exists(p) /\ m.type = "MKNODWITHMETA"
  \/ /\ blockTable[n].stuck /\ IsFile(p) /\ m.type = "EXTENTWRITE"
     /\ m.arg.size > 0 /\ ExtraBlocks(FileMeta(p), m.arg.off, m.arg.size) > 0

(***************************************************************************)
(* History of overlapping changes: client b has read the entries of        *)
(* directory d in order to change them, or is removing d, and has not      *)
(* written yet; or such a write is on its way to d.                        *)
(***************************************************************************)
Changing(b, d) ==
  LET m == msg[Main(b)] IN
  \/ /\ m.type \in {"MKNOD", "MKDIR", "REMOVE"} /\ m.path # Root /\ Parent(m.path) = d
     /\ pc[Main(b)] = "call" /\ pc[Sub(b)] = "replied" /\ reply[Sub(b)].ok
  \/ m.type = "REMOVE" /\ m.path = d /\ pc[Main(b)] \in {"call", "apply"}

Landing(d) ==
  \E n \in Node : \E i \in DOMAIN flying[<<n, NodeOf(d)>>] :
    flying[<<n, NodeOf(d)>>][i].index = Index(d)

Overlaps(c, d) ==
  IsDirectory(d) /\ (Landing(d) \/ \E b \in Client \ {c} : Changing(b, d))

-----------------------------------------------------------------------------
(***************************************************************************)
(* Handlers that only read (access, getattr, readdir, readDirectoryMeta,   *)
(* extentRead), under the read lock of the path.                           *)
(***************************************************************************)
ReadReply(m) ==
  LET p == m.path IN
  CASE m.type = "ACCESS" -> Reply(Exists(p), <<>>)
    [] m.type = "GETATTR" -> IF Exists(p) THEN Reply(TRUE, Attribute(p)) ELSE NoReply
    [] m.type \in {"READDIR", "READDIRECTORYMETA"} ->
         IF IsDirectory(p)
         THEN Reply(TRUE, [index |-> Index(p), entries |-> Entries(p)]) ELSE NoReply
    [] m.type = "EXTENTREAD" ->
         IF ~IsFile(p) THEN NoReply
         ELSE LET rest == FileMeta(p).size - m.arg.off IN
              Reply(TRUE, IF rest <= 0 THEN <<>>
                          ELSE FilePositions(FileMeta(p), m.arg.off,
                                             IF rest < m.arg.size THEN rest ELSE m.arg.size))

ReadHandler(f) ==
  /\ At(f, "body") /\ msg[f].type \in ReadTypes /\ ~Stalls(msg[f])
  /\ ReadUnlock(f[1], SlotOfFrame(f))
  /\ Finish(f, ReadReply(msg[f]))
  /\ overlapped' = (overlapped \/ (msg[f].type = "READDIRECTORYMETA" /\ Overlaps(f[1], msg[f].path)))
  /\ UNCHANGED <<hashtable, tableVars, flying, forgotten>>

(***************************************************************************)
(* extentRead of no bytes fails before it locks, and parseMessage unlocks  *)
(* all the same, at the offset that the reply buffer happens to hold: one  *)
(* of the words here or memory that is no part of this model.              *)
(***************************************************************************)
EmptyRead(f) ==
  /\ At(f, "body") /\ msg[f].type = "EMPTYREAD"
  /\ Finish(f, NoReply)
  /\ \/ \E s \in Slot :
          s[1] = NodeOf(msg[f].path) /\ StrayUnlock(s) /\ forgotten' = forgotten \cup {s}
     \/ UNCHANGED <<lockVars, forgotten>>
  /\ UNCHANGED <<hashtable, storeVars>>

(* mknodWithMeta: a file with the metadata of another, no parent involved. *)
MknodWithMeta(f) ==
  LET p == msg[f].path
      n == NodeOf(p)
      ok == ~Exists(p) /\ ~Full(fileTable[n]) /\ HasRoom(p)
  IN
  /\ At(f, "body") /\ msg[f].type = "MKNODWITHMETA" /\ ~Stalls(msg[f])
  /\ fileTable' = IF Exists(p) THEN fileTable
                  ELSE [fileTable EXCEPT ![n] = TableCreate(@, msg[f].arg)]
  /\ hashtable' = IF ok THEN HashPut(p, FALSE, Head(fileTable[n].free)) ELSE hashtable
  /\ WriteUnlock(f[1], SlotOfFrame(f))
  /\ Finish(f, Reply(ok, <<>>))
  /\ UNCHANGED <<dirTable, blockTable, flying, overlapped, forgotten>>

(* extentWrite, and the unlock that parseMessage makes right after it. *)
ExtentWrite(f) ==
  LET p == msg[f].path
      n == NodeOf(p)
      x == msg[f].arg
      extra == ExtraBlocks(FileMeta(p), x.off, x.size)
      valid == IsFile(p) /\ x.size > 0
      ok == valid /\ extra <= Len(blockTable[n].free)
      m == Extend(FileMeta(p), blockTable[n], n, x.off, x.size)
  IN
  /\ At(f, "body") /\ msg[f].type = "EXTENTWRITE" /\ ~Stalls(msg[f])
  /\ blockTable' = IF valid THEN [blockTable EXCEPT ![n] = Allocate(@, extra)] ELSE blockTable
  /\ fileTable' = IF ok THEN [fileTable EXCEPT ![n] = TablePut(@, Index(p), m)] ELSE fileTable
  /\ WriteUnlock(f[1], SlotOfFrame(f))
  /\ Finish(f, IF ok THEN Reply(TRUE, FilePositions(m, x.off, x.size)) ELSE NoReply)
  /\ UNCHANGED <<hashtable, dirTable, flying, overlapped, forgotten>>

(***************************************************************************)
(* addMetaToDirectory and removeMetaFromDirectory compute the new entries, *)
(* log them and return with the directory still locked for writing, also   *)
(* when they fail; updateDirectoryMeta (DOCOMMIT) copies and unlocks.      *)
(***************************************************************************)
(* Mutant: the last entry is dropped, not the one that is named. *)
Without_Last(entries, name) == SubSeq(entries, 1, Len(entries) - 1)

Without(entries, name) == SelectSeq(entries, LAMBDA e : e # name)

(* Mutant: removeMetaFromDirectory unlocks like the other handlers. *)
PrepareDirectory_Unlocks(f) ==
  LET d == msg[f].path
      name == msg[f].arg.name
      ok == IsDirectory(d) /\ (msg[f].type = "ADDMETA" \/ name \in Range(Entries(d)))
      new == IF msg[f].type = "ADDMETA" THEN Append(Entries(d), name) ELSE Without(Entries(d), name)
  IN
  /\ At(f, "body") /\ msg[f].type \in {"ADDMETA", "REMOVEMETA"} /\ ~Stalls(msg[f])
  /\ Finish(f, IF ok THEN Reply(TRUE, [index |-> Index(d), entries |-> new]) ELSE NoReply)
  /\ WriteUnlock(f[1], SlotOfFrame(f))
  /\ UNCHANGED <<hashtable, storeVars, forgotten>>

PrepareDirectory(f) ==
  LET d == msg[f].path
      name == msg[f].arg.name
      ok == IsDirectory(d) /\ (msg[f].type = "ADDMETA" \/ name \in Range(Entries(d)))
      new == IF msg[f].type = "ADDMETA" THEN Append(Entries(d), name) ELSE Without(Entries(d), name)
  IN
  /\ At(f, "body") /\ msg[f].type \in {"ADDMETA", "REMOVEMETA"} /\ ~Stalls(msg[f])
  /\ Finish(f, IF ok THEN Reply(TRUE, [index |-> Index(d), entries |-> new]) ELSE NoReply)
  /\ overlapped' = (overlapped \/ Overlaps(f[1], d))
  /\ forgotten' = IF ok THEN forgotten ELSE forgotten \cup {SlotOfFrame(f)}
  /\ UNCHANGED <<lockVars, hashtable, tableVars, flying>>

UpdateDirectoryMeta(f) ==
  LET d == msg[f].path IN
  /\ At(f, "body") /\ msg[f].type = "DOCOMMIT"
  /\ dirTable' = IF Exists(d)
                 THEN [dirTable EXCEPT ![NodeOf(d)] = TablePut(@, msg[f].arg.index, msg[f].arg.entries)]
                 ELSE dirTable
  /\ WriteUnlock(f[1], SlotOfFrame(f))
  /\ Finish(f, Reply(Exists(d), <<>>))
  /\ UNCHANGED <<hashtable, fileTable, blockTable, flying, overlapped, forgotten>>

(* blockFree.  Its result is not always set, and no client looks at it. *)
BlockFree(f) ==
  LET e == msg[f].arg IN
  /\ At(f, "body") /\ msg[f].type = "FREEBLOCK" /\ ~blockTable[e.node].stuck
  /\ blockTable' = [blockTable EXCEPT ![e.node] = FreeExtent(@, e)]
  /\ Finish(f, Reply(TRUE, <<>>))
  /\ UNCHANGED <<lockVars, hashtable, dirTable, fileTable, flying, overlapped, forgotten>>

-----------------------------------------------------------------------------
(***************************************************************************)
(* Handlers that change a path and its parent: mknodcd, mkdircd, removecd  *)
(* and rename.  The path is locked for writing throughout.                 *)
(***************************************************************************)

(* The checks made before the parent is touched. *)
Admissible(m) ==
  CASE m.type \in {"MKNOD", "MKDIR"} -> TRUE
    [] m.type = "REMOVE" -> IsFile(m.path) \/ (IsDirectory(m.path) /\ Entries(m.path) = <<>>)
    [] m.type = "RENAME" -> IsFile(m.path)

(* Mutant: the early return keeps the lock. *)
Refuse_KeepsLock(f) ==
  /\ At(f, "body") /\ msg[f].type \in CompoundTypes /\ ~Stalls(msg[f])
  /\ ~Admissible(msg[f])
  /\ Finish(f, NoReply)
  /\ UNCHANGED <<lockVars, hashtable, storeVars, forgotten>>

Refuse(f) ==
  /\ At(f, "body") /\ msg[f].type \in CompoundTypes /\ ~Stalls(msg[f])
  /\ ~Admissible(msg[f])
  /\ WriteUnlock(f[1], SlotOfFrame(f))
  /\ Finish(f, NoReply)
  /\ UNCHANGED <<hashtable, storeVars, forgotten>>

ReadParent(c) ==
  LET f == Main(c) IN
  /\ At(f, "body") /\ msg[f].type \in CompoundTypes /\ ~Stalls(msg[f])
  /\ Admissible(msg[f])
  /\ CallParent(c, "call", ParentCall(msg[f]))
  /\ overlapped' = (overlapped \/ (msg[f].type = "REMOVE" /\ Overlaps(c, msg[f].path)))
  /\ UNCHANGED <<lockVars, hashtable, tableVars, flying, reply, forgotten>>

(***************************************************************************)
(* updateRemoteMeta: the copied and changed entries go to the item they    *)
(* were read from, by memcpy when it is local and by an RDMA write that    *)
(* nobody waits for when not.  The parent is not locked.                   *)
(***************************************************************************)
UpdateParent(c) ==
  LET p == msg[Main(c)].path
      d == Parent(p)
      x == reply[Sub(c)].val
      new == IF Creates(msg[Main(c)]) THEN Append(x.entries, Name(p)) ELSE Without(x.entries, Name(p))
  IN
  /\ ParentReplied(c, "call") /\ ~Abandoned(c)
  /\ msg[Main(c)].type # "RENAME"
  /\ IF NodeOf(d) = NodeOf(p)
     THEN /\ dirTable' = [dirTable EXCEPT ![NodeOf(d)] = TablePut(@, x.index, new)]
          /\ UNCHANGED flying
     ELSE /\ flying' = [flying EXCEPT ![<<NodeOf(p), NodeOf(d)>>] =
                          Append(@, [index |-> x.index, entries |-> new])]
          /\ UNCHANGED dirTable
  /\ LeaveParent(c)
  /\ UNCHANGED <<fileTable, blockTable, overlapped>>

(* An RDMA write of directory entries reaches the memory of the server. *)
Land(l) ==
  /\ flying[l] # <<>>
  /\ dirTable' = [dirTable EXCEPT ![l[2]] = TablePut(@, Head(flying[l]).index, Head(flying[l]).entries)]
  /\ flying' = [flying EXCEPT ![l] = Tail(@)]
  /\ UNCHANGED <<callVars, fileTable, blockTable, overlapped>>

(* Mutant: the change is not committed. *)
CommitParent_Forgets(c) ==
  /\ ParentReplied(c, "call") /\ ~Abandoned(c)
  /\ msg[Main(c)].type = "RENAME" /\ ~fileTable[NodeOf(msg[Main(c)].path)].stuck
  /\ LeaveParent(c)
  /\ UNCHANGED storeVars

(* rename: the entry has been removed in the log, now have it committed. *)
CommitParent(c) ==
  /\ ParentReplied(c, "call") /\ ~Abandoned(c)
  /\ msg[Main(c)].type = "RENAME" /\ ~fileTable[NodeOf(msg[Main(c)].path)].stuck
  /\ CallParent(c, "commit", Msg("DOCOMMIT", msg[Sub(c)].path, reply[Sub(c)].val))
  /\ reply' = [reply EXCEPT ![Sub(c)] = NoReply]
  /\ UNCHANGED <<lockVars, hashtable, storeVars, forgotten>>

(* The metadata of the path itself: created after the parent names it, and  *)
(* lost if the hash table has no room for the path (no roll back) ...       *)
CreatePath(f) ==
  LET p == msg[f].path
      n == NodeOf(p)
      dir == msg[f].type = "MKDIR"
      table == IF dir THEN dirTable[n] ELSE fileTable[n]
      ok == ~Full(table) /\ HasRoom(p)
  IN
  /\ At(f, "apply") /\ Creates(msg[f]) /\ ~table.stuck
  /\ dirTable' = IF dir THEN [dirTable EXCEPT ![n] = TableCreate(@, <<>>)] ELSE dirTable
  /\ fileTable' = IF dir THEN fileTable ELSE [fileTable EXCEPT ![n] = TableCreate(@, EmptyFile)]
  /\ hashtable' = IF ok THEN HashPut(p, dir, Head(table.free)) ELSE hashtable
  /\ WriteUnlock(f[1], SlotOfFrame(f))
  /\ Finish(f, Reply(ok, <<>>))
  /\ UNCHANGED <<blockTable, flying, overlapped, forgotten>>

(* ... and removed after the parent has dropped it.  remove frees the blocks *)
(* of the leading extents that are on this server, rename frees none.        *)
LocalExtents(p) ==
  LET xs == FileMeta(p).extents
      far == {i \in DOMAIN xs : xs[i].node # NodeOf(p)}
  IN SubSeq(xs, 1, IF far = {} THEN Len(xs) ELSE Min(far) - 1)

RemovePath(f) ==
  LET p == msg[f].path
      n == NodeOf(p)
      table == IF IsDirectory(p) THEN dirTable[n] ELSE fileTable[n]
      freed == IF IsFile(p) /\ msg[f].type = "REMOVE" THEN LocalExtents(p) ELSE <<>>
  IN
  /\ At(f, "apply") /\ ~Creates(msg[f]) /\ ~table.stuck
  /\ freed = <<>> \/ ~blockTable[n].stuck
  /\ dirTable' = IF IsDirectory(p) THEN [dirTable EXCEPT ![n] = TableRemove(@, Index(p))] ELSE dirTable
  /\ fileTable' = IF IsFile(p) THEN [fileTable EXCEPT ![n] = TableRemove(@, Index(p))] ELSE fileTable
  /\ blockTable' = [blockTable EXCEPT ![n] = RemoveExtents(@, freed)]
  /\ hashtable' = HashDel(p)
  /\ WriteUnlock(f[1], SlotOfFrame(f))
  /\ Finish(f, Reply(TRUE, Attribute(p)))
  /\ UNCHANGED <<flying, overlapped, forgotten>>

(* Steps that leave the storage alone, of a frame, of a client or its main *)
(* frame, and of a thread.                                                 *)
Lock(f) == (LockForWriting(f) \/ LockForReading(f) \/ WriterGone(f)) /\ UNCHANGED storeVars
Go(c) == (Proceed(c) \/ Return(c) \/ Abandon(c) \/ Committed(c)) /\ UNCHANGED storeVars
Poll(t) == RequestPoller(t) /\ UNCHANGED storeVars

Handler(f) ==
  \/ Lock(f)
  \/ ReadHandler(f) \/ EmptyRead(f) \/ MknodWithMeta(f) \/ ExtentWrite(f)
  \/ PrepareDirectory(f) \/ UpdateDirectoryMeta(f) \/ BlockFree(f)
  \/ Refuse(f) \/ CreatePath(f) \/ RemovePath(f)

(* What happens by itself; starting an operation is up to the clients. *)
Progress ==
  \/ \E c \in Client : Go(c) \/ ReadParent(c) \/ UpdateParent(c) \/ CommitParent(c)
  \/ \E t \in Thread : Poll(t)
  \/ \E f \in Frame : Handler(f)
  \/ \E l \in Node \X Node : Land(l)

Next == Progress \/ \E c \in Client : Start(c) /\ UNCHANGED storeVars

Spec == Init /\ [][Next]_vars

(* Workers poll for ever, threads that are not waiting go on, the network   *)
(* delivers: as long as something can happen by itself, something does.     *)
FairSpec == Spec /\ WF_vars(Progress)

-----------------------------------------------------------------------------
AtRest ==
  /\ \A c \in Client : prog[c].op = "idle"
  /\ \A l \in DOMAIN flying : flying[l] = <<>>

SomethingStuck ==
  \E n \in Node : dirTable[n].stuck \/ fileTable[n].stuck \/ blockTable[n].stuck

(* Metadata that HashTable::put found no room for. *)
ItemsLost ==
  \E n \in Node :
    Cardinality(Saved(dirTable[n])) + Cardinality(Saved(fileTable[n])) > Cardinality(PathsOn(n))

(* TreeExact: if no two changes of one directory have ever overlapped and   *)
(* no table has run out, then at rest every directory names exactly the     *)
(* paths that exist under it, once each, although the path and its entry    *)
(* are on different servers and written by different steps of mknodcd,      *)
(* mkdircd, removecd and rename.                                            *)
TreeExact ==
  AtRest /\ ~overlapped /\ ~SomethingStuck /\ ~ItemsLost =>
    \A d \in DOMAIN hashtable : IsDirectory(d) =>
      /\ IsInjective(Entries(d))
      /\ Range(Entries(d)) = {Name(p) : p \in {q \in DOMAIN hashtable : q # Root /\ Parent(q) = d}}

(* IndexesOwned: the metadata index in a hash-table entry is an allocated   *)
(* item of its table, and no two paths of a server share an item, so that   *)
(* the index a handler read under its lock is still the path's own.         *)
IndexesOwned ==
  \A p \in DOMAIN hashtable :
    /\ Index(p) \in Saved(IF IsDirectory(p) THEN dirTable[NodeOf(p)] ELSE fileTable[NodeOf(p)])
    /\ \A q \in DOMAIN hashtable :
         (NodeOf(p) = NodeOf(q) /\ hashtable[p] = hashtable[q]) => p = q

(* CallsReturn: every operation a client starts returns to its caller,      *)
(* through lock words held on two servers, nested polling and calls between *)
(* servers, unless a full table has left its mutex locked or a failed       *)
(* change of a directory or a read of no bytes has left a lock word wrong.  *)
CallsReturn ==
  \A c \in Client :
    (prog[c].op # "idle") ~> (prog[c].op = "idle" \/ SomethingStuck \/ forgotten # {})

(* EntriesKept: at rest every directory names exactly the paths under it,   *)
(* however the changes were interleaved.  "Data will be written to the      *)
(* remote address, and lock will be released with the assist of imm data"   *)
(* (updateRemoteMeta): a directory would be locked from the read of its     *)
(* entries until the changed ones are in place.  Tables that have run out   *)
(* are left aside.                                                          *)
EntriesKept ==
  AtRest /\ ~SomethingStuck /\ ~ItemsLost =>
    \A d \in DOMAIN hashtable : IsDirectory(d) =>
      Range(Entries(d)) = {Name(p) : p \in {q \in DOMAIN hashtable : q # Root /\ Parent(q) = d}}

(* Files that hold blocks: a path being renamed and its new name, which has *)
(* been given the same extents, count as one.                               *)
Renaming(p, q) ==
  \E c \in Client : prog[c].op = "rename" /\ {p, q} = {prog[c].path, prog[c].arg}

(* BlocksOwned: unless a rename has failed half-way or a read of no bytes   *)
(* has unlocked a word it had not locked, every block in the                *)
(* extents of a file is allocated on its server, and no two files share     *)
(* one, so that extentWrite and nrfsDelete never hand out or free a block   *)
(* of another file.                                                         *)
BlocksOwned ==
  forgotten = {} => \A p \in DOMAIN hashtable : IsFile(p) =>
    /\ \A x \in FileBlocks(FileMeta(p)) : x[2] \in Saved(blockTable[x[1]])
    /\ \A q \in DOMAIN hashtable :
         (IsFile(q) /\ q # p /\ FileBlocks(FileMeta(p)) \cap FileBlocks(FileMeta(q)) # {})
         => Renaming(p, q)

(* BlocksAccounted: at rest, if no allocation has failed, every allocated   *)
(* block belongs to a file: the blocks that removecd leaves to the client,  *)
(* on servers the file was renamed away from, have been freed too.  This    *)
(* takes clients that do not extend a file after it was renamed to another  *)
(* server, whose new blocks follow blocks of the old server, and that leave *)
(* a file alone while another client renames it: removecd stops freeing at  *)
(* the first extent that is elsewhere, and a rename copies the extents      *)
(* before it removes the old name.                                          *)
BlocksAccounted ==
  AtRest /\ ~SomethingStuck =>
    \A n \in Node : \A b \in Saved(blockTable[n]) :
      \E p \in DOMAIN hashtable : IsFile(p) /\ <<n, b>> \in FileBlocks(FileMeta(p))
=============================================================================
