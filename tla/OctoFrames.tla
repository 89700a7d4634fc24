----------------------------- MODULE OctoFrames ------------------------------
(***************************************************************************)
(* Calls and names in Octopus: the clients and their operations, the       *)
(* worker threads of the servers, the frames that run in them, the locks   *)
(* these take, and the hash table that says which paths exist.  What a     *)
(* handler does to metadata and blocks is in Octopus.tla, which extends    *)
(* this module; an action below is a whole handler or client step as far   *)
(* as these variables go, and an operator that leaves some of them out is  *)
(* a conjunct of the handlers that use it.                                 *)
(*                                                                         *)
(* A frame is one running handler: "main" is the call of a client, "sub"   *)
(* the call that handler makes for the parent directory, in its own thread *)
(* when the parent is local and on worker 0 of another server when not.    *)
(***************************************************************************)
EXTENDS OctoLock, OctoCalls

CONSTANTS Node,       \* servers
          CqOf,       \* the completion queue, and worker, of a client
          Workload    \* bound: for each client, what it may ask for first, second, ...

VARIABLES hashtable,  \* path -> kind and index of its metadata
          cq,         \* requests in the completion queue of a worker
          stack,      \* the handlers active in a worker, innermost first
          pc, msg, reply, \* of every frame
          prog,       \* the operation a client is executing
          calls,      \* operations every client has started
          forgotten   \* history: slots whose word a failed handler has left wrong

frameVars == <<pc, msg, reply, stack, cq>>
callVars == <<lockVars, hashtable, frameVars, prog, calls, forgotten>>

ASSUME SlotAssumption == SlotOf \in [Path -> Slot]

ASSUME WorkloadAssumption ==
  \A c \in Client :
    /\ Len(Workload[c]) \in Nat
    /\ \A i \in 1 .. Len(Workload[c]) : \A r \in Workload[c][i] : WellFormed(r)

(* No client asks for 0 bytes: some results hold only then. *)
NonEmpty(r) == r.op = "read" => r.arg.size # 0
NoEmptyReads ==
  \A c \in Client : \A i \in 1 .. Len(Workload[c]) : \A r \in Workload[c][i] : NonEmpty(r)

Main(c) == <<c, "main">>
Sub(c) == <<c, "sub">>
Frame == Client \X {"main", "sub"}
Thread == Node \X ({0} \cup {CqOf[c] : c \in Client})

Reply(ok, x) == [ok |-> ok, val |-> x]
NoReply == Reply(FALSE, <<>>)
Idle == [op |-> "idle", path |-> Root, arg |-> <<>>, info |-> <<>>]

(* Where a frame runs.  Blocks are freed at the server that has them. *)
Dest(m) == IF m.type = "FREEBLOCK" THEN m.arg.node ELSE NodeOf(m.path)
Home(c) == <<Dest(msg[Main(c)]), CqOf[c]>>
ThreadOf(f) ==
  IF f[2] = "main" \/ Dest(msg[f]) = Home(f[1])[1] THEN Home(f[1])
  ELSE <<Dest(msg[f]), 0>>

Running(f) == stack[ThreadOf(f)] # <<>> /\ Head(stack[ThreadOf(f)]) = f
At(f, l) == pc[f] = l /\ Running(f)

SlotOfFrame(f) == SlotOf[msg[f].path]

(* What a path is. *)
Exists(p) == p \in DOMAIN hashtable
IsDirectory(p) == Exists(p) /\ hashtable[p].dir
IsFile(p) == Exists(p) /\ ~hashtable[p].dir
Index(p) == hashtable[p].index

(* The hash table with and without an entry for path p. *)
HashPut(p, dir, i) ==
  [q \in DOMAIN hashtable \cup {p} |-> IF q = p THEN [dir |-> dir, index |-> i] ELSE hashtable[q]]

(* Mutant: the entry is not found in its chain. *)
HashDel_Misses(p) == hashtable

HashDel(p) == [q \in DOMAIN hashtable \ {p} |-> hashtable[q]]

FramesInit ==
  /\ LockInit
  /\ hashtable = [q \in {Root} |-> [dir |-> TRUE, index |-> 0]]
  /\ cq = [t \in Thread |-> <<>>]
  /\ stack = [t \in Thread |-> <<>>]
  /\ pc = [f \in Frame |-> "none"]
  /\ msg = [f \in Frame |-> NoMsg]
  /\ reply = [f \in Frame |-> NoReply]
  /\ prog = [c \in Client |-> Idle]
  /\ calls = [c \in Client |-> 0]
  /\ forgotten = {}

-----------------------------------------------------------------------------
(* sendMessage: the request goes to the queue the server has for the client. *)
Send(c, m) ==
  /\ msg' = [msg EXCEPT ![Main(c)] = m]
  /\ pc' = [pc EXCEPT ![Main(c)] = "queued"]
  /\ cq' = [cq EXCEPT ![<<Dest(m), CqOf[c]>>] = Append(@, Main(c))]

Start(c) ==
  /\ prog[c].op = "idle"
  /\ calls[c] < Len(Workload[c])
  /\ \E r \in Workload[c][calls[c] + 1] :
       /\ prog' = [prog EXCEPT ![c] = [op |-> r.op, path |-> r.path, arg |-> r.arg, info |-> <<>>]]
       /\ Send(c, FirstCall(r))
  /\ calls' = [calls EXCEPT ![c] = @ + 1]
  /\ UNCHANGED <<lockVars, hashtable, reply, stack, forgotten>>

Replied(c) == pc[Main(c)] = "replied"
Following(c) == NextCall(prog[c], msg[Main(c)], reply[Main(c)])

(* The next call of the operation. *)
Proceed(c) ==
  /\ Replied(c)
  /\ Following(c) # <<>>
  /\ prog' = [prog EXCEPT ![c].info = Following(c)[2]]
  /\ Send(c, Following(c)[1])
  /\ reply' = [reply EXCEPT ![Main(c)] = NoReply]
  /\ UNCHANGED <<lockVars, hashtable, stack, calls, forgotten>>

(* The operation ends.  A write or a read moves its data by one-sided RDMA *)
(* first, and what it returns after that is no part of this model.         *)
Return(c) ==
  /\ Replied(c)
  /\ Following(c) = <<>>
  /\ prog' = [prog EXCEPT ![c] = Idle]
  /\ pc' = [pc EXCEPT ![Main(c)] = "none"]
  /\ msg' = [msg EXCEPT ![Main(c)] = NoMsg]
  /\ reply' = [reply EXCEPT ![Main(c)] = NoReply]
  /\ UNCHANGED <<lockVars, hashtable, stack, cq, calls, forgotten>>

-----------------------------------------------------------------------------
(***************************************************************************)
(* Worker threads (RPCServer::Worker, RequestPoller).  A worker takes the  *)
(* next request of its queue when it is idle, and also, nested, while its  *)
(* current handler waits in WriteLock.                                     *)
(***************************************************************************)
MayPoll(t) ==
  stack[t] # <<>> => LET f == Head(stack[t]) IN pc[f] = "wlock" /\ Busy(SlotOfFrame(f))

RequestPoller(t) ==
  /\ cq[t] # <<>>
  /\ MayPoll(t)
  /\ LET f == Head(cq[t]) IN
       /\ pc' = [pc EXCEPT ![f] = EntryPc(msg[f].type)]
       /\ stack' = [stack EXCEPT ![t] = <<f>> \o @]
  /\ cq' = [cq EXCEPT ![t] = Tail(@)]
  /\ UNCHANGED <<lockVars, hashtable, msg, reply, prog, calls, forgotten>>

LockForWriting(f) ==
  /\ At(f, "wlock")
  /\ WriteLock(f[1], SlotOfFrame(f))
  /\ pc' = [pc EXCEPT ![f] = "body"]
  /\ UNCHANGED <<hashtable, msg, reply, stack, cq, prog, calls, forgotten>>

LockForReading(f) ==
  /\ At(f, "rlock")
  /\ ReadLock(f[1], SlotOfFrame(f))
  /\ pc' = [pc EXCEPT ![f] = IF Taken(SlotOfFrame(f)) THEN "spin" ELSE "body"]
  /\ UNCHANGED <<hashtable, msg, reply, stack, cq, prog, calls, forgotten>>

WriterGone(f) ==
  /\ At(f, "spin")
  /\ ReadSpinEnds(f[1], SlotOfFrame(f))
  /\ pc' = [pc EXCEPT ![f] = "body"]
  /\ UNCHANGED <<hashtable, msg, reply, stack, cq, prog, calls, forgotten>>

(* The handler of frame f ends with reply r; its caller sees the reply. *)
Finish(f, r) ==
  /\ pc' = [pc EXCEPT ![f] = "replied"]
  /\ reply' = [reply EXCEPT ![f] = r]
  /\ stack' = [stack EXCEPT ![ThreadOf(f)] = Tail(@)]
  /\ UNCHANGED <<msg, cq, prog, calls>>

-----------------------------------------------------------------------------
(***************************************************************************)
(* Handlers that change a path and its parent: mknodcd, mkdircd, removecd  *)
(* and rename.  The path is locked for writing throughout.                 *)
(***************************************************************************)

(* The main frame of c calls m for the parent: a plain call when the parent *)
(* is local, RdmaCall to worker 0 of its server when not.                   *)
CallParent(c, l, m) ==
  LET local == Dest(m) = Home(c)[1] IN
  /\ msg' = [msg EXCEPT ![Sub(c)] = m]
  /\ pc' = [pc EXCEPT ![Main(c)] = l, ![Sub(c)] = IF local THEN EntryPc(m.type) ELSE "queued"]
  /\ stack' = IF local THEN [stack EXCEPT ![Home(c)] = <<Sub(c)>> \o @] ELSE stack
  /\ cq' = IF local THEN cq ELSE [cq EXCEPT ![<<Dest(m), 0>>] = Append(@, Sub(c))]
  /\ UNCHANGED <<prog, calls>>

(* What is asked of the parent of p first: rename has the entry removed, *)
(* the others read the entries.                                          *)
ParentCall(m) ==
  IF m.type = "RENAME" THEN Msg("REMOVEMETA", Parent(m.path), [name |-> Name(m.path)])
  ELSE Msg("READDIRECTORYMETA", Parent(m.path), <<>>)

ParentReplied(c, l) == At(Main(c), l) /\ pc[Sub(c)] = "replied"

Creates(m) == m.type \in {"MKNOD", "MKDIR"}

(* Mutant: only the parent is looked at. *)
Abandoned_ParentOnly(c) == ~reply[Sub(c)].ok

(* The parent is missing or not a directory, or the path to create exists. *)
Abandoned(c) ==
  ~reply[Sub(c)].ok \/ (Creates(msg[Main(c)]) /\ Exists(msg[Main(c)].path))

Abandon(c) ==
  /\ ParentReplied(c, "call")
  /\ Abandoned(c)
  /\ WriteUnlock(c, SlotOfFrame(Main(c)))
  /\ pc' = [pc EXCEPT ![Main(c)] = "replied", ![Sub(c)] = "none"]
  /\ reply' = [reply EXCEPT ![Main(c)] = NoReply, ![Sub(c)] = NoReply]
  /\ msg' = [msg EXCEPT ![Sub(c)] = NoMsg]
  /\ stack' = [stack EXCEPT ![Home(c)] = Tail(@)]
  /\ UNCHANGED <<hashtable, cq, prog, calls, forgotten>>

(* The parent is done with, the path itself is next. *)
LeaveParent(c) ==
  /\ pc' = [pc EXCEPT ![Main(c)] = "apply", ![Sub(c)] = "none"]
  /\ msg' = [msg EXCEPT ![Sub(c)] = NoMsg]
  /\ reply' = [reply EXCEPT ![Sub(c)] = NoReply]
  /\ UNCHANGED <<lockVars, hashtable, stack, cq, prog, calls, forgotten>>

(* rename: the entry removed in the log is committed. *)
Committed(c) == ParentReplied(c, "commit") /\ LeaveParent(c)

-----------------------------------------------------------------------------
(* LocksReturned: a client that is between operations holds no lock on any *)
(* server, and when all are, every lock word is 0: each early return of    *)
(* the handlers has given its lock back, once.  Excepted are the words of  *)
(* addMetaToDirectory and removeMetaFromDirectory, which leave the         *)
(* directory locked when they fail, and the word that parseMessage unlocks *)
(* after a read of no bytes, which has locked none.                        *)
LocksReturned ==
  /\ \A c \in Client : prog[c].op = "idle" => wheld[c] \cup rheld[c] \cup rspin[c] \subseteq forgotten
  /\ (\A c \in Client : prog[c].op = "idle") => \A s \in Slot \ forgotten : ~Busy(s)

(* HandlersLocked: a handler that looks at or changes metadata does so with *)
(* the lock of its path: parseMessage's for the simple handlers, their own  *)
(* for mknodcd to rename, from the first check to the last write, and for   *)
(* DOCOMMIT the one that addMetaToDirectory or removeMetaFromDirectory took *)
(* in an earlier request and left locked.                                   *)
HandlersLocked ==
  \A f \in Frame :
    LET t == msg[f].type IN
    /\ t \in ReadTypes /\ pc[f] = "body" => SlotOfFrame(f) \in rheld[f[1]]
    /\ t \in WriteTypes /\ pc[f] \in {"body", "call", "commit", "apply"} => SlotOfFrame(f) \in wheld[f[1]]
    /\ t = "DOCOMMIT" /\ pc[f] \in {"queued", "body"} => SlotOfFrame(f) \in wheld[f[1]]

(* ImplementsNames: seen through its replies the file system is a           *)
(* NameService, although a call works in several steps on two servers.      *)
Kind(t) ==
  CASE t \in {"MKNOD", "MKDIR", "MKNODWITHMETA"} -> "create"
    [] t \in {"REMOVE", "RENAME"} -> "remove"
    [] t \in {"ACCESS", "GETATTR"} -> "look up"
    [] OTHER -> "other"

Asks(m) == [kind |-> Kind(m.type), path |-> m.path]

callBar ==
  [c \in Client |->
     IF pc[Main(c)] = "none" THEN [state |-> "none"]
     ELSE IF pc[Main(c)] = "replied"
          THEN [state |-> "answered", asks |-> Asks(msg[Main(c)]), ok |-> reply[Main(c)].ok]
          ELSE [state |-> "asked", asks |-> Asks(msg[Main(c)])]]

Names == INSTANCE NameService WITH paths <- DOMAIN hashtable, call <- callBar

ImplementsNames == Names!Spec
=============================================================================
