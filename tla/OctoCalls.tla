------------------------------ MODULE OctoCalls ------------------------------
(***************************************************************************)
(* Paths, messages and the client library of Octopus as pure operators:    *)
(* which calls an operation of nrfs.cpp makes, one after the other, and    *)
(* which lock parseMessage takes for each.                                 *)
(***************************************************************************)
EXTENDS Integers, Sequences

CONSTANTS Path,    \* paths as sequences of names, the root included
          SlotOf   \* server and hash address of a path

Root == <<>>
Parent(p) == SubSeq(p, 1, Len(p) - 1)
Name(p) == p[Len(p)]
NodeOf(p) == SlotOf[p][1]

(* An operation a client may ask for.  The root is always there and is only *)
(* looked at.                                                               *)
WellFormed(r) ==
  /\ r.op \in {"mknod", "open", "mkdir", "delete", "rename", "access", "list", "write", "read"}
  /\ r.path \in Path
  /\ r.op \in {"mknod", "open", "mkdir", "delete", "rename"} => r.path # Root
  /\ r.op = "rename" => r.arg \in Path \ {Root}
  /\ r.op \in {"read", "write"} => r.arg.off \in Nat /\ r.arg.size \in Nat

ASSUME PathAssumption ==
  /\ Root \in Path /\ Path \subseteq Seq(STRING)
  /\ \A p \in Path : \A k \in 1 .. Len(p) : SubSeq(p, 1, k) \in Path

ReadTypes == {"ACCESS", "GETATTR", "READDIR", "READDIRECTORYMETA", "EXTENTREAD"}
CompoundTypes == {"MKNOD", "MKDIR", "REMOVE", "RENAME"}
WriteTypes == CompoundTypes \cup {"MKNODWITHMETA", "ADDMETA", "REMOVEMETA", "EXTENTWRITE"}

Msg(t, p, x) == [type |-> t, path |-> p, arg |-> x]
NoMsg == Msg("NONE", Root, <<>>)

(* The lock a handler starts with, if any.  An EXTENTREAD of no bytes, here *)
(* called EMPTYREAD, is refused before the lock is taken.                   *)
EntryPc(t) ==
  CASE t \in ReadTypes -> "rlock" [] t \in WriteTypes -> "wlock" [] OTHER -> "body"

-----------------------------------------------------------------------------
(***************************************************************************)
(* The client library (nrfs.cpp): every operation is a sequence of calls.  *)
(***************************************************************************)

(* The first call of an operation. *)
FirstCall(r) ==
  CASE r.op = "mknod" -> Msg("MKNOD", r.path, <<>>)
    [] r.op \in {"access", "open"} -> Msg("ACCESS", r.path, <<>>)
    [] r.op = "mkdir" -> Msg("ACCESS", SubSeq(r.path, 1, 1), <<>>)
    [] r.op = "delete" -> Msg("REMOVE", r.path, <<>>)
    [] r.op = "list" -> Msg("READDIR", r.path, <<>>)
    [] r.op = "rename" -> Msg("GETATTR", r.path, <<>>)
    [] r.op = "write" -> Msg("EXTENTWRITE", r.path, r.arg)
    [] r.op = "read" -> Msg(IF r.arg.size = 0 THEN "EMPTYREAD" ELSE "EXTENTREAD", r.path, r.arg)

(* Mutant: the client frees one extent only. *)
Foreign_First(p, extents) ==
  LET xs == SelectSeq(extents, LAMBDA e : e.node # NodeOf(p)) IN
  IF xs = <<>> THEN xs ELSE <<Head(xs)>>

Foreign(p, extents) == SelectSeq(extents, LAMBDA e : e.node # NodeOf(p))

(* What getattr tells of a directory. *)
DirectoryAttr == [size |-> -1, extents |-> <<>>]

(***************************************************************************)
(* The call that follows the reply r to m in operation g, with what the    *)
(* client then remembers; <<>> when the operation returns.  A write and a  *)
(* read go on to UPDATEMETA and EXTENTREADEND, which RdmaCall never sends. *)
(* Renaming a directory, a recursive walk of the client, is not modelled.  *)
(***************************************************************************)
NextCall(g, m, r) ==
  CASE g.op = "open" /\ m.type = "ACCESS" /\ ~r.ok ->
         <<Msg("MKNOD", g.path, <<>>), <<>> >>
    [] g.op = "mkdir" /\ m.type = "ACCESS" /\ ~r.ok ->
         <<Msg("MKDIR", m.path, <<>>), <<>> >>
    [] g.op = "mkdir" /\ r.ok /\ m.path # g.path ->
         <<Msg("ACCESS", SubSeq(g.path, 1, Len(m.path) + 1), <<>>), <<>> >>
    [] g.op = "delete" /\ m.type = "REMOVE" /\ r.ok /\ Foreign(g.path, r.val.extents) # <<>> ->
         LET xs == Foreign(g.path, r.val.extents) IN
         <<Msg("FREEBLOCK", g.path, Head(xs)), Tail(xs)>>
    [] g.op = "delete" /\ m.type = "FREEBLOCK" /\ g.info # <<>> ->
         <<Msg("FREEBLOCK", g.path, Head(g.info)), Tail(g.info)>>
    [] g.op = "rename" /\ m.type = "GETATTR" /\ g.info = <<>> /\ r.ok /\ r.val # DirectoryAttr ->
         <<Msg("GETATTR", Parent(g.arg), <<>>), <<r.val>> >>
    [] g.op = "rename" /\ m.type = "GETATTR" /\ g.info # <<>> /\ r.ok /\ r.val = DirectoryAttr ->
         <<Msg("MKNODWITHMETA", g.arg, g.info[1]), <<>> >>
    [] g.op = "rename" /\ m.type = "MKNODWITHMETA" /\ r.ok ->
         <<Msg("ADDMETA", Parent(g.arg), [name |-> Name(g.arg)]), <<>> >>
    [] g.op = "rename" /\ m.type = "ADDMETA" /\ r.ok ->
         <<Msg("DOCOMMIT", Parent(g.arg), r.val), <<>> >>
    [] g.op = "rename" /\ m.type = "DOCOMMIT" /\ r.ok ->
         <<Msg("RENAME", g.path, <<>>), <<>> >>
    [] OTHER -> <<>>
=============================================================================
