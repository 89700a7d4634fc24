---------------------------- MODULE OctoProtocol -----------------------------
(***************************************************************************)
(* What the calls of Octopus keep to, whatever the handlers do to their    *)
(* tables: FrameSpec describes the handlers as far as the variables of     *)
(* OctoFrames go, which lock they have and give back, which replies they   *)
(* may send and what they do to the hash table.  OctopusProofs shows that  *)
(* Octopus implements it.                                                  *)
(***************************************************************************)
EXTENDS OctoFrames

(* Handlers that only read. *)
Looks(f) ==
  /\ At(f, "body") /\ msg[f].type \in ReadTypes
  /\ ReadUnlock(f[1], SlotOfFrame(f))
  /\ \E ok \in BOOLEAN : \E x :
       /\ Finish(f, Reply(ok, x))
       /\ msg[f].type \in {"ACCESS", "GETATTR"} => (ok <=> Exists(msg[f].path))
  /\ UNCHANGED <<hashtable, forgotten>>

(* Handlers that unlock and leave the names alone; mknodcd to rename do so *)
(* when they refuse the request.                                           *)
Ends(f) ==
  /\ At(f, "body") /\ msg[f].type \in CompoundTypes \cup {"EXTENTWRITE", "DOCOMMIT"}
  /\ WriteUnlock(f[1], SlotOfFrame(f))
  /\ \E ok \in BOOLEAN : \E x :
       /\ Finish(f, Reply(ok, x))
       /\ msg[f].type \in CompoundTypes => ~ok
  /\ UNCHANGED <<hashtable, forgotten>>

(* addMetaToDirectory and removeMetaFromDirectory, which do not unlock. *)
Prepares(f) ==
  /\ At(f, "body") /\ msg[f].type \in {"ADDMETA", "REMOVEMETA"}
  /\ \E ok \in BOOLEAN : \E x :
       /\ Finish(f, Reply(ok, x))
       /\ forgotten' = IF ok THEN forgotten ELSE forgotten \cup {SlotOfFrame(f)}
  /\ UNCHANGED <<lockVars, hashtable>>

(* blockFree, which takes no lock. *)
Frees(f) ==
  /\ At(f, "body") /\ msg[f].type = "FREEBLOCK"
  /\ \E x : Finish(f, Reply(TRUE, x))
  /\ UNCHANGED <<lockVars, hashtable, forgotten>>

(* extentRead of no bytes: no lock is taken, but some word is unlocked. *)
Strays(f) ==
  /\ At(f, "body") /\ msg[f].type = "EMPTYREAD"
  /\ Finish(f, NoReply)
  /\ \/ \E s \in Slot : StrayUnlock(s) /\ forgotten' = forgotten \cup {s}
     \/ UNCHANGED <<lockVars, forgotten>>
  /\ UNCHANGED hashtable

(* The path is created, by mknodWithMeta or at the end of mknodcd, mkdircd. *)
Makes(f) ==
  /\ \/ At(f, "body") /\ msg[f].type = "MKNODWITHMETA"
     \/ At(f, "apply") /\ Creates(msg[f])
  /\ WriteUnlock(f[1], SlotOfFrame(f))
  /\ \E ok \in BOOLEAN : \E x, dir, i :
       /\ Finish(f, Reply(ok, x))
       /\ msg[f].type = "MKNODWITHMETA" /\ ok => ~Exists(msg[f].path)
       /\ hashtable' = IF ok THEN HashPut(msg[f].path, dir, i) ELSE hashtable
  /\ UNCHANGED forgotten

(* The path is removed, at the end of removecd and rename. *)
Drops(f) ==
  /\ At(f, "apply") /\ ~Creates(msg[f])
  /\ WriteUnlock(f[1], SlotOfFrame(f))
  /\ \E x : Finish(f, Reply(TRUE, x))
  /\ hashtable' = HashDel(msg[f].path)
  /\ UNCHANGED forgotten

(* The parent is called, its entries are changed, or the change committed. *)
AsksParent(c) ==
  /\ At(Main(c), "body") /\ msg[Main(c)].type \in CompoundTypes
  /\ msg[Main(c)].type \in {"REMOVE", "RENAME"} => Exists(msg[Main(c)].path)
  /\ CallParent(c, "call", ParentCall(msg[Main(c)]))
  /\ UNCHANGED <<lockVars, hashtable, reply, forgotten>>

Continues(c) ==
  /\ ParentReplied(c, "call") /\ ~Abandoned(c) /\ msg[Main(c)].type # "RENAME"
  /\ LeaveParent(c)

Commits(c) ==
  /\ ParentReplied(c, "call") /\ ~Abandoned(c) /\ msg[Main(c)].type = "RENAME"
  /\ CallParent(c, "commit", Msg("DOCOMMIT", msg[Sub(c)].path, reply[Sub(c)].val))
  /\ reply' = [reply EXCEPT ![Sub(c)] = NoReply]
  /\ UNCHANGED <<lockVars, hashtable, forgotten>>

LockStep(f) == LockForWriting(f) \/ LockForReading(f) \/ WriterGone(f)
HandlerStep(f) ==
  Looks(f) \/ Ends(f) \/ Prepares(f) \/ Frees(f) \/ Strays(f) \/ Makes(f) \/ Drops(f)
ClientStep(c) == Start(c) \/ Proceed(c) \/ Return(c)
ParentStep(c) == AsksParent(c) \/ Abandon(c) \/ Continues(c) \/ Commits(c) \/ Committed(c)

FrameNext ==
  \/ \E c \in Client : ClientStep(c) \/ ParentStep(c)
  \/ \E t \in Thread : RequestPoller(t)
  \/ \E f \in Frame : LockStep(f) \/ HandlerStep(f)

FrameSpec == FramesInit /\ [][FrameNext]_callVars
=============================================================================
