-------------------------- MODULE OctoFramesProofs ---------------------------
(***************************************************************************)
(* The calls of Octopus keep to the lock protocol, every handler runs      *)
(* under the lock of its path, and every lock is given back.               *)
(*                                                                         *)
(* Inv, the inductive invariant, follows each client by itself: where its  *)
(* two frames can be, with which messages and which locks (ChainOf, the    *)
(* Chain of OctoLockProofs), and how far its operation has come (Program). *)
(* A step moves the frames of one client and leaves those of all others    *)
(* alone (Same), which keeps the proof of each action to that client.      *)
(***************************************************************************)
EXTENDS OctoProtocol, OctoLockProofs

ChainOf(c) ==
  Chain(pc[Main(c)], msg[Main(c)], pc[Sub(c)], msg[Sub(c)], wheld[c], rheld[c], rspin[c])

Program(c) ==
  /\ DOMAIN prog[c] = {"op", "path", "arg", "info"}
  /\ prog[c].op = "idle" <=> pc[Main(c)] = "none"
  /\ prog[c].op # "idle" =>
       /\ WellFormed(prog[c]) /\ GoodCall(prog[c], msg[Main(c)])
       /\ NoEmptyReads => NonEmpty(prog[c])

(* A request is in one queue only, once, and its frame waits for it. *)
Waiting == {f \in Frame : pc[f] = "queued"}

Queues == DOMAIN cq = Thread /\ Distinct(cq, Waiting)

Domains ==
  /\ DOMAIN pc = Frame /\ DOMAIN msg = Frame /\ DOMAIN reply = Frame
  /\ DOMAIN prog = Client
  /\ calls \in [Client -> Nat]

Inv ==
  /\ KeyInv
  /\ Domains
  /\ Queues
  /\ \A c \in Client : ChainOf(c) /\ Program(c)

(* A step that leaves client b alone. *)
Same(b) ==
  /\ pc'[Main(b)] = pc[Main(b)] /\ pc'[Sub(b)] = pc[Sub(b)]
  /\ msg'[Main(b)] = msg[Main(b)] /\ msg'[Sub(b)] = msg[Sub(b)]
  /\ prog'[b] = prog[b]
  /\ wheld'[b] = wheld[b] /\ rheld'[b] = rheld[b] /\ rspin'[b] = rspin[b]

(* A step of the lock protocol, or the unlock that follows a read of no *)
(* bytes, whose word is then counted among the forgotten ones.          *)
WordStep ==
  \/ [LockNext]_lockVars
  \/ ~NoEmptyReads /\ \E s \in Slot \cap forgotten' : StrayUnlock(s)

(* What a step made for client c has to do. *)
Moves(c) ==
  /\ WordStep
  /\ Domains'
  /\ Queues'
  /\ \A b \in Client \ {c} : Same(b)
  /\ ChainOf(c)' /\ Program(c)'

(* The chain of c with frame f at label l and with locks W, R and S. *)
ChainAt(c, f, l, W, R, S) ==
  IF f = Main(c) THEN Chain(l, msg[f], pc[Sub(c)], msg[Sub(c)], W, R, S)
  ELSE Chain(pc[Main(c)], msg[Main(c)], l, msg[f], W, R, S)

-----------------------------------------------------------------------------
(* Frames are pairs; two frames per client, all different. *)
LEMMA Frames ==
  /\ \A c \in Client : Main(c) \in Frame /\ Sub(c) \in Frame
  /\ \A c, b \in Client : Main(c) # Sub(b)
  /\ \A c, b \in Client : Main(c) = Main(b) => c = b
  /\ \A c, b \in Client : Sub(c) = Sub(b) => c = b
  /\ \A c \in Client : Main(c)[1] = c /\ Sub(c)[1] = c
  /\ \A f \in Frame : f[1] \in Client /\ (f = Main(f[1]) \/ f = Sub(f[1]))
BY DEF Main, Sub, Frame

(* What a step does not touch it does not break. *)
LEMMA Others ==
  ASSUME NEW b \in Client, ChainOf(b), Program(b), Same(b)
  PROVE  ChainOf(b)' /\ Program(b)'
<1>1. ChainOf(b)'
  BY DEF ChainOf, Same
<1>2. Program(b)'
  BY DEF Program, Same
<1> QED
  BY <1>1, <1>2

(* A step made for one client keeps the invariant. *)
LEMMA MovesKeeps ==
  ASSUME Inv, NEW c \in Client, Moves(c)
  PROVE  Inv'
<1>1. KeyInv'
  BY LockNextInv, StrayUnlockInv, Zenon DEF Inv, Moves, WordStep
<1>2. \A b \in Client : ChainOf(b)' /\ Program(b)'
  BY Others DEF Inv, Moves
<1> QED
  BY <1>1, <1>2 DEF Inv, Moves

(* Queues that do not change stay sound while their frames wait. *)
LEMMA QueuesSame ==
  ASSUME Queues, UNCHANGED cq, \A f \in Frame : pc[f] = "queued" => pc'[f] = "queued"
  PROVE  Queues'
<1>1. Waiting \subseteq Waiting'
  BY DEF Waiting
<1>2. Distinct(cq, Waiting')
  BY <1>1, DistinctMore DEF Queues
<1> QED
  BY <1>2 DEF Queues, Distinct

(* A request that was not waiting is sent. *)
LEMMA QueuesAppend ==
  ASSUME Queues, NEW t, NEW f \in Frame, cq' = [cq EXCEPT ![t] = Append(@, f)],
         pc[f] # "queued", pc'[f] = "queued",
         \A g \in Frame : pc[g] = "queued" => pc'[g] = "queued"
  PROVE  Queues'
<1>1. f \notin Waiting /\ Waiting \cup {f} \subseteq Waiting'
  BY DEF Waiting
<1>2. Distinct(cq', Waiting \cup {f})
  BY <1>1, DistinctAppend, Zenon DEF Queues
<1>3. Distinct(cq', Waiting')
  BY <1>1, <1>2, DistinctMore
<1> QED
  BY <1>3 DEF Queues, Distinct

(* The first request of a queue is taken and waits no longer. *)
LEMMA QueuesTail ==
  ASSUME Queues, Domains, NEW t \in DOMAIN cq, cq[t] # <<>>, cq' = [cq EXCEPT ![t] = Tail(@)],
         NEW l, pc' = [pc EXCEPT ![Head(cq[t])] = l]
  PROVE  Head(cq[t]) \in Waiting /\ Queues'
<1>1. Head(cq[t]) \in Waiting /\ Distinct(cq', Waiting \ {Head(cq[t])})
  BY DistinctTail, Zenon DEF Queues
<1>2. Waiting \ {Head(cq[t])} \subseteq Waiting'
  BY DEF Waiting, Domains
<1>3. Distinct(cq', Waiting')
  BY <1>1, <1>2, DistinctMore
<1> QED
  BY <1>1, <1>3 DEF Queues, Distinct

-----------------------------------------------------------------------------
(* A step that moves one frame f of client c to label l, whatever it does to *)
(* the locks of c and to the tables of the servers.                          *)
LEMMA FrameMoves ==
  ASSUME Inv, NEW f \in Frame, NEW c \in Client, c = f[1], NEW l,
         pc' = [pc EXCEPT ![f] = l], pc[f] # "none", l # "none",
         UNCHANGED <<msg, prog, calls>>, DOMAIN reply' = Frame, Queues',
         WordStep, Apart(c),
         ChainAt(c, f, l, wheld'[c], rheld'[c], rspin'[c])
  PROVE  Moves(c)
<1>1. Domains /\ Domains' /\ ChainOf(c) /\ Program(c)
  BY DEF Inv, Domains
<1>2. f = Main(c) \/ f = Sub(c)
  BY Frames
<1>3. \A g \in Frame \ {f} : pc'[g] = pc[g]
  BY <1>1 DEF Domains
<1>4. pc'[f] = l
  BY <1>1 DEF Domains
<1>5. \A b \in Client \ {c} : Same(b)
  BY <1>2, <1>3, Frames, SMTT(30) DEF Same, Apart
<1>6. ChainOf(c)'
  BY <1>2, <1>3, <1>4, Frames DEF ChainOf, ChainAt
<1>7. Program(c)'
  BY <1>1, <1>2, <1>3, <1>4, Frames, ZenonT(30) DEF Program
<1> QED
  BY <1>1, <1>5, <1>6, <1>7, SMTT(30) DEF Moves

LEMMA FramePath == ASSUME Inv, NEW f \in Frame PROVE msg[f].path \in Path
<1>1. f[1] \in Client /\ (f = Main(f[1]) \/ f = Sub(f[1]))
  BY Frames
<1>2. ChainOf(f[1])
  BY <1>1, Zenon DEF Inv
<1> QED
  BY <1>1, <1>2, SMTT(30) DEF ChainOf, Chain, Control

(* What is known of the frame and the client a handler works for. *)
LEMMA FrameFacts ==
  ASSUME Inv, NEW f \in Frame
  PROVE  /\ f[1] \in Client /\ (f = Main(f[1]) \/ f = Sub(f[1]))
         /\ KeyInv /\ Domains /\ Queues /\ ChainOf(f[1]) /\ Program(f[1])
         /\ SlotOf[msg[f].path] \in Slot
<1>1. f[1] \in Client /\ (f = Main(f[1]) \/ f = Sub(f[1]))
  BY Frames
<1>2. KeyInv /\ Domains /\ Queues /\ ChainOf(f[1]) /\ Program(f[1])
  BY <1>1, Zenon DEF Inv
<1> QED
  BY <1>1, <1>2, FramePath, SlotAssumption

(* A worker takes the next request of its queue, idle or nested. *)
LEMMA PollMoves ==
  ASSUME Inv, NEW t \in DOMAIN cq, RequestPoller(t)
  PROVE  \E c \in Client : Moves(c)
<1> DEFINE f == Head(cq[t])
           l == EntryPc(msg[f].type)
<1>1. /\ cq[t] # <<>> /\ pc' = [pc EXCEPT ![f] = l] /\ cq' = [cq EXCEPT ![t] = Tail(@)]
      /\ UNCHANGED <<lockVars, msg, reply, prog, calls>>
  BY DEF RequestPoller
<1>2. Domains /\ Queues
  BY DEF Inv
<1>3. f \in Waiting /\ Queues'
  BY <1>1, <1>2, QueuesTail, Zenon
<1>4. f \in Frame /\ pc[f] = "queued"
  BY <1>3 DEF Waiting
<1>5. PICK c \in Client : c = f[1]
  BY <1>4, FrameFacts
<1>6. (f = Main(c) \/ f = Sub(c)) /\ ChainOf(c)
  BY <1>4, <1>5, FrameFacts, SMTT(30)
<1>7. ChainAt(c, f, l, wheld[c], rheld[c], rspin[c]) /\ l # "none"
  BY <1>4, <1>6, ChainPoll, SMTT(30) DEF ChainOf, ChainAt, EntryPc
<1>8. UNCHANGED <<wheld, rheld, rspin>> /\ Apart(c) /\ WordStep
  BY <1>1 DEF lockVars, Apart, WordStep
<1>9. DOMAIN reply' = Frame
  BY <1>1, <1>2, SMTT(30) DEF Domains
<1> HIDE DEF f, l
<1>10. Moves(c)
  BY <1>1, <1>3, <1>4, <1>5, <1>7, <1>8, <1>9, FrameMoves, Zenon
<1> QED
  BY <1>10

-----------------------------------------------------------------------------
(* Start and Proceed: a request of a client that has none under way. *)
LEMMA SendMoves ==
  ASSUME Inv, NEW c \in Client, NEW m, NEW g, Send(c, m), GoodCall(g, m), WellFormed(g),
         NoEmptyReads => NonEmpty(g),
         pc[Main(c)] \in {"none", "replied"},
         m.type = "DOCOMMIT" => SlotOf[m.path] \in wheld[c],
         UNCHANGED lockVars, Domains',
         DOMAIN prog'[c] = {"op", "path", "arg", "info"},
         prog'[c].op = g.op, prog'[c].path = g.path, prog'[c].arg = g.arg,
         \A b \in Client \ {c} : prog'[b] = prog[b]
  PROVE  Moves(c)
<1>1. Domains /\ ChainOf(c)
  BY DEF Inv
<1>2. /\ pc' = [pc EXCEPT ![Main(c)] = "queued"] /\ msg' = [msg EXCEPT ![Main(c)] = m]
      /\ cq' = [cq EXCEPT ![<<Dest(m), CqOf[c]>>] = Append(@, Main(c))]
      /\ UNCHANGED <<wheld, rheld, rspin>>
  BY Zenon DEF Send, lockVars
<1>3. /\ pc'[Main(c)] = "queued" /\ pc'[Sub(c)] = pc[Sub(c)]
      /\ msg'[Main(c)] = m /\ msg'[Sub(c)] = msg[Sub(c)]
  BY <1>1, <1>2, Frames, ZenonT(30) DEF Domains
<1>4. \A b \in Client \ {c} : Same(b)
  BY <1>1, <1>2, Frames DEF Domains, Same
<1>5. Queues'
  BY <1>1, <1>2, Frames, QueuesAppend, Zenon DEF Inv, Domains
<1>6. ChainOf(c)'
  <2>1. Chain(pc[Main(c)], msg[Main(c)], pc[Sub(c)], msg[Sub(c)], wheld[c], rheld[c], rspin[c])
    BY <1>1, Zenon DEF ChainOf
  <2>2. Chain("queued", m, pc[Sub(c)], msg[Sub(c)], wheld[c], rheld[c], rspin[c])
    BY <2>1, ChainSend, Zenon
  <2> QED
    BY <1>2, <1>3, <2>2, Zenon DEF ChainOf
<1>7. Program(c)'
  BY <1>3, ZenonT(30) DEF Program, GoodCall, WellFormed, NonEmpty
<1> QED
  BY <1>4, <1>5, <1>6, <1>7, Zenon DEF Moves, WordStep

LEMMA StartMoves ==
  ASSUME Inv, NEW c \in Client, Start(c)
  PROVE  Moves(c)
<1>1. PICK r \in Workload[c][calls[c] + 1] :
        /\ prog' = [prog EXCEPT ![c] = [op |-> r.op, path |-> r.path, arg |-> r.arg, info |-> <<>>]]
        /\ Send(c, FirstCall(r))
  BY Zenon DEF Start
<1>2. WellFormed(r) /\ (NoEmptyReads => NonEmpty(r))
  <2>1. calls[c] + 1 \in 1 .. Len(Workload[c])
    BY WorkloadAssumption DEF Start, Inv, Domains
  <2> QED
    BY <2>1, WorkloadAssumption, Zenon DEF NoEmptyReads
<1>3. pc[Main(c)] = "none"
  BY DEF Start, Inv, Program
<1>4. GoodCall(r, FirstCall(r)) /\ FirstCall(r).type # "DOCOMMIT"
  BY <1>2, FirstCallGood, Zenon
<1>5. Domains' /\ UNCHANGED lockVars
  BY <1>1, SMTT(30) DEF Start, Send, Inv, Domains, lockVars
<1> QED
  BY <1>1, <1>2, <1>3, <1>4, <1>5, SendMoves, Zenon DEF Inv, Domains

LEMMA ProceedMoves ==
  ASSUME Inv, NEW c \in Client, Proceed(c)
  PROVE  Moves(c)
<1> DEFINE m == Following(c)[1]
           g == prog[c]
<1>1. pc[Main(c)] = "replied" /\ Following(c) # <<>> /\ Send(c, m)
  BY DEF Proceed, Replied
<1>2. ChainOf(c) /\ Program(c) /\ DOMAIN prog = Client
  BY DEF Inv, Domains
<1>3. WellFormed(g) /\ GoodCall(g, msg[Main(c)]) /\ (NoEmptyReads => NonEmpty(g))
  BY <1>1, <1>2, Zenon DEF Program
<1>4. GoodCall(g, m) /\ (m.type = "DOCOMMIT" => msg[Main(c)].type = "ADDMETA" /\ m.path = msg[Main(c)].path)
  <2>1. PICK r : Following(c) = NextCall(g, msg[Main(c)], r)
    BY Zenon DEF Following
  <2>2. NextCall(g, msg[Main(c)], r) # <<>> /\ m = NextCall(g, msg[Main(c)], r)[1]
    BY <1>1, <2>1, ZenonT(30)
  <2> HIDE DEF m, g
  <2> QED
    BY <1>3, <2>2, NextCallGood, SMTT(30)
<1>5. m.type = "DOCOMMIT" => SlotOf[m.path] \in wheld[c]
  BY <1>1, <1>2, <1>4, SMTT(30) DEF ChainOf, Chain, Held
<1>6. Domains' /\ UNCHANGED lockVars
  BY DEF Proceed, Send, Inv, Domains, lockVars
<1>7. prog' = [prog EXCEPT ![c].info = Following(c)[2]]
  BY DEF Proceed
<1>8. /\ DOMAIN prog'[c] = {"op", "path", "arg", "info"}
      /\ prog'[c].op = g.op /\ prog'[c].path = g.path /\ prog'[c].arg = g.arg
      /\ \A b \in Client \ {c} : prog'[b] = prog[b]
  BY <1>2, <1>7, Zenon DEF Program
<1> QED
  BY <1>1, <1>3, <1>4, <1>5, <1>6, <1>8, SendMoves, SMTT(30)

LEMMA ReturnMoves ==
  ASSUME Inv, NEW c \in Client, Return(c)
  PROVE  Moves(c)
<1>1. Domains /\ Queues /\ ChainOf(c) /\ pc[Main(c)] = "replied"
  BY DEF Inv, Return, Replied
<1>2. /\ prog' = [prog EXCEPT ![c] = Idle] /\ pc' = [pc EXCEPT ![Main(c)] = "none"]
      /\ msg' = [msg EXCEPT ![Main(c)] = NoMsg]
      /\ UNCHANGED lockVars /\ UNCHANGED <<wheld, rheld, rspin>>
  BY Zenon DEF Return, lockVars
<1>3. /\ pc'[Main(c)] = "none" /\ pc'[Sub(c)] = pc[Sub(c)]
      /\ msg'[Main(c)] = NoMsg /\ msg'[Sub(c)] = msg[Sub(c)]
      /\ prog'[c] = Idle
  BY <1>2, <1>1, Frames DEF Domains
<1>4. \A b \in Client \ {c} : Same(b)
  BY <1>1, Frames DEF Domains, Same, Return, lockVars
<1>5. Queues'
  BY <1>1, Frames, QueuesSame, Zenon DEF Domains, Return
<1>6. ChainOf(c)'
  <2>1. Chain(pc[Main(c)], msg[Main(c)], pc[Sub(c)], msg[Sub(c)], wheld[c], rheld[c], rspin[c])
    BY <1>1, Zenon DEF ChainOf
  <2>2. Chain("none", NoMsg, pc[Sub(c)], msg[Sub(c)], wheld[c], rheld[c], rspin[c])
    BY <1>1, <2>1, ChainReturn, ZenonT(30)
  <2> QED
    BY <1>2, <1>3, <2>2, Zenon DEF ChainOf
<1>7. Program(c)'
  BY <1>3 DEF Program, Idle
<1>8. Domains'
  BY <1>1 DEF Domains, Return
<1> QED
  BY <1>2, <1>4, <1>5, <1>6, <1>7, <1>8 DEF Moves, WordStep

-----------------------------------------------------------------------------
(* The handler of frame f ends, having changed no queue and no message. *)
LEMMA FinishMoves ==
  ASSUME Inv, NEW f \in Frame, NEW c \in Client, c = f[1], NEW r, Finish(f, r),
         pc[f] \in {"body", "apply"},
         WordStep, Apart(c),
         ChainAt(c, f, "replied", wheld'[c], rheld'[c], rspin'[c])
  PROVE  Moves(c)
<1>1. Domains /\ Queues
  BY DEF Inv
<1>2. /\ pc' = [pc EXCEPT ![f] = "replied"] /\ UNCHANGED <<msg, cq, prog, calls>>
      /\ reply' = [reply EXCEPT ![f] = r]
  BY DEF Finish
<1>3. DOMAIN reply' = Frame
  BY <1>1, <1>2 DEF Domains
<1>4. Queues'
  BY <1>1, <1>2, QueuesSame DEF Domains
<1> QED
  BY <1>2, <1>3, <1>4, FrameMoves, Zenon

(* Handlers that unlock their path for writing when they end: mknodWithMeta, *)
(* extentWrite, updateDirectoryMeta, and the ends of mknodcd to rename.      *)
LEMMA UnlockMoves ==
  ASSUME Inv, NEW f \in Frame, NEW r, Finish(f, r),
         WriteUnlock(f[1], SlotOf[msg[f].path]),
         pc[f] = "apply" \/ (pc[f] = "body" /\ msg[f].type \in UnlockTypes)
  PROVE  Moves(f[1])
<1>1. PICK c \in Client : c = f[1]
  BY FrameFacts
<1>2. /\ f = Main(c) \/ f = Sub(c)
      /\ KeyInv /\ ChainOf(c) /\ SlotOf[msg[f].path] \in Slot
  BY <1>1, FrameFacts
<1>3. /\ SlotOf[msg[f].path] \in wheld[c]
      /\ ChainAt(c, f, "replied", wheld[c] \ {SlotOf[msg[f].path]}, rheld[c], rspin[c])
  BY <1>2, ChainWriteDone, ZenonT(30) DEF ChainOf, ChainAt
<1>4. /\ LockNext /\ Apart(c) /\ wheld'[c] = wheld[c] \ {SlotOf[msg[f].path]}
      /\ rheld'[c] = rheld[c] /\ rspin'[c] = rspin[c]
  BY <1>1, <1>2, <1>3, LockSteps, Zenon
<1> QED
  BY <1>1, <1>3, <1>4, FinishMoves, Zenon DEF WordStep

(* Handlers that leave the locks alone: ADDMETA, REMOVEMETA, FREEBLOCK and *)
(* the two that close a transfer.                                        *)
LEMMA KeepMoves ==
  ASSUME Inv, NEW f \in Frame, NEW r, Finish(f, r), UNCHANGED lockVars,
         pc[f] = "body", msg[f].type \in KeepTypes
  PROVE  Moves(f[1])
<1>1. PICK c \in Client : c = f[1]
  BY FrameFacts
<1>2. (f = Main(c) \/ f = Sub(c)) /\ ChainOf(c)
  BY <1>1, FrameFacts, Zenon
<1>3. ChainAt(c, f, "replied", wheld[c], rheld[c], rspin[c])
  BY <1>2, ChainKeepDone DEF ChainOf, ChainAt
<1>4. UNCHANGED <<wheld, rheld, rspin>> /\ Apart(c)
  BY DEF lockVars, Apart
<1> QED
  BY <1>1, <1>3, <1>4, FinishMoves, SMTT(30) DEF WordStep

LEMMA ReadMoves ==
  ASSUME Inv, NEW f \in Frame, Looks(f)
  PROVE  Moves(f[1])
<1>1. PICK c \in Client : c = f[1]
  BY FrameFacts
<1>2. /\ f = Main(c) \/ f = Sub(c)
      /\ KeyInv /\ ChainOf(c) /\ SlotOf[msg[f].path] \in Slot
  BY <1>1, FrameFacts, SMTT(30)
<1>3. /\ pc[f] = "body" /\ msg[f].type \in ReadTypes
      /\ ReadUnlock(c, SlotOf[msg[f].path]) /\ \E r : Finish(f, r)
  BY <1>1, Zenon DEF Looks, At, SlotOfFrame
<1>4. /\ SlotOf[msg[f].path] \in rheld[c]
      /\ ChainAt(c, f, "replied", wheld[c], rheld[c] \ {SlotOf[msg[f].path]}, rspin[c])
  BY <1>2, <1>3, ChainReadDone, Zenon DEF ChainOf, ChainAt
<1>5. /\ LockNext /\ Apart(c) /\ wheld'[c] = wheld[c]
      /\ rheld'[c] = rheld[c] \ {SlotOf[msg[f].path]} /\ rspin'[c] = rspin[c]
  BY <1>2, <1>3, <1>4, LockSteps, Zenon
<1> QED
  BY <1>1, <1>3, <1>4, <1>5, FinishMoves, ZenonT(30) DEF WordStep

(* The read of no bytes has no lock, and unlocks some word or none. *)
LEMMA StrayMoves ==
  ASSUME Inv, NEW f \in Frame, Strays(f)
  PROVE  Moves(f[1])
<1>1. PICK c \in Client : c = f[1]
  BY FrameFacts
<1>2. (f = Main(c) \/ f = Sub(c)) /\ ChainOf(c) /\ Program(c)
  BY <1>1, FrameFacts, Zenon
<1>3. pc[f] = "body" /\ msg[f].type = "EMPTYREAD" /\ \E r : Finish(f, r)
  BY Zenon DEF Strays, At
<1>4. UNCHANGED <<wheld, rheld, rspin>> /\ Apart(c)
  BY DEF Strays, StrayUnlock, lockVars, Apart
<1>5. ChainAt(c, f, "replied", wheld'[c], rheld'[c], rspin'[c])
  BY <1>2, <1>3, <1>4, ChainKeepDone, Zenon DEF ChainOf, ChainAt, KeepTypes
<1>6. ~NoEmptyReads
  <2>1. f = Main(c)
    BY <1>2, <1>3, ZenonT(30) DEF ChainOf, Chain, Control
  <2>2. prog[c].op # "idle"
    BY <1>2, <1>3, <2>1 DEF Program
  <2>3. GoodCall(prog[c], msg[f]) /\ (NoEmptyReads => NonEmpty(prog[c]))
    BY <1>2, <2>1, <2>2, Zenon DEF Program
  <2> QED
    BY <1>3, <2>3, Zenon DEF GoodCall, NonEmpty
<1>7. WordStep
  BY <1>6, Zenon DEF Strays, WordStep
<1> QED
  BY <1>1, <1>3, <1>4, <1>5, <1>7, FinishMoves, Zenon

(* The other handlers that work in one step. *)
LEMMA HandlerMoves ==
  ASSUME Inv, NEW f \in Frame, HandlerStep(f)
  PROVE  Moves(f[1])
<1>1. CASE Ends(f) \/ Makes(f) \/ Drops(f)
  <2>1. /\ \E r : Finish(f, r)
        /\ WriteUnlock(f[1], SlotOf[msg[f].path])
    BY <1>1, Zenon DEF Ends, Makes, Drops, SlotOfFrame
  <2>2. \/ pc[f] = "apply"
        \/ pc[f] = "body" /\ msg[f].type \in CompoundTypes \cup {"EXTENTWRITE", "DOCOMMIT", "MKNODWITHMETA"}
    BY <1>1, Zenon DEF Ends, Makes, Drops, At
  <2>3. CompoundTypes \cup {"EXTENTWRITE", "DOCOMMIT", "MKNODWITHMETA"} \subseteq UnlockTypes
    BY DEF UnlockTypes, WriteTypes, CompoundTypes
  <2> QED
    BY <2>1, <2>2, <2>3, UnlockMoves, Zenon
<1>2. CASE Prepares(f) \/ Frees(f)
  <2>1. (\E r : Finish(f, r)) /\ UNCHANGED lockVars
    BY <1>2, Zenon DEF Prepares, Frees
  <2>2. pc[f] = "body" /\ msg[f].type \in KeepTypes
    BY <1>2, Zenon DEF Prepares, Frees, At, KeepTypes
  <2> QED
    BY <2>1, <2>2, KeepMoves, Zenon
<1> QED
  BY <1>1, <1>2, ReadMoves, StrayMoves, Zenon DEF HandlerStep

-----------------------------------------------------------------------------
(* A frame takes its lock, or waits for the writer to go (lock.cpp). *)
LEMMA LockMoves ==
  ASSUME Inv, NEW f \in Frame, LockStep(f)
  PROVE  Moves(f[1])
<1>1. PICK c \in Client : c = f[1]
  BY FrameFacts, SMTT(30)
<1> DEFINE s == SlotOf[msg[f].path]
<1>2. /\ f = Main(c) \/ f = Sub(c)
      /\ KeyInv /\ Domains /\ Queues /\ ChainOf(c) /\ s \in Slot
  BY <1>1, FrameFacts, SMTT(30)
<1>3. UNCHANGED <<msg, reply, cq, prog, calls>>
  BY SMTT(30) DEF LockStep, LockForWriting, LockForReading, WriterGone
<1>4. ASSUME NEW l \in {"body", "spin"}, pc' = [pc EXCEPT ![f] = l], pc[f] # "queued", pc[f] # "none",
             LockNext, Apart(c), ChainAt(c, f, l, wheld'[c], rheld'[c], rspin'[c])
      PROVE  Moves(c)
  <2>1. Queues'
    BY <1>2, <1>3, <1>4, QueuesSame, Zenon DEF Domains
  <2> QED
    BY <1>1, <1>2, <1>3, <1>4, <2>1, FrameMoves, Zenon DEF Domains, WordStep
<1>5. CASE LockForWriting(f)
  <2>1. pc[f] = "wlock" /\ WriteLock(c, s) /\ pc' = [pc EXCEPT ![f] = "body"]
    BY <1>1, <1>5, SMTT(30) DEF LockForWriting, At, SlotOfFrame
  <2>2. /\ LockNext /\ Apart(c) /\ s \notin wheld[c]
        /\ wheld'[c] = wheld[c] \cup {s} /\ rheld'[c] = rheld[c] /\ rspin'[c] = rspin[c]
    BY <1>2, <2>1, LockSteps, Zenon
  <2>3. ChainAt(c, f, "body", wheld[c] \cup {s}, rheld[c], rspin[c])
    BY <1>2, <2>1, <2>2, ChainWriteLock, Zenon DEF ChainOf, ChainAt
  <2> QED
    BY <1>1, <1>4, <2>1, <2>2, <2>3, ZenonT(30)
<1>6. CASE LockForReading(f)
  <2>1. /\ pc[f] = "rlock" /\ ReadLock(c, s)
        /\ pc' = [pc EXCEPT ![f] = IF Taken(s) THEN "spin" ELSE "body"]
    BY <1>1, <1>6, ZenonT(30) DEF LockForReading, At, SlotOfFrame
  <2>2. /\ s \notin rheld[c] \cup rspin[c]
        /\ ChainAt(c, f, "body", wheld[c], rheld[c] \cup {s}, rspin[c])
        /\ ChainAt(c, f, "spin", wheld[c], rheld[c], rspin[c] \cup {s})
    <3>1. CASE f = Main(c)
      <4>1. /\ pc[Main(c)] = "rlock"
            /\ Chain(pc[Main(c)], msg[Main(c)], pc[Sub(c)], msg[Sub(c)], wheld[c], rheld[c], rspin[c])
        BY <1>2, <2>1, <3>1, Zenon DEF ChainOf
      <4>2. /\ s \notin rheld[c] \cup rspin[c]
            /\ Chain("body", msg[Main(c)], pc[Sub(c)], msg[Sub(c)], wheld[c], rheld[c] \cup {s}, rspin[c])
            /\ Chain("spin", msg[Main(c)], pc[Sub(c)], msg[Sub(c)], wheld[c], rheld[c], rspin[c] \cup {s})
        BY <3>1, <4>1, ChainReadLock, ZenonT(30)
      <4> QED
        BY <3>1, <4>2, Zenon DEF ChainAt
    <3>2. CASE f # Main(c)
      <4>1. /\ pc[Sub(c)] = "rlock" /\ msg[f] = msg[Sub(c)]
            /\ Chain(pc[Main(c)], msg[Main(c)], pc[Sub(c)], msg[Sub(c)], wheld[c], rheld[c], rspin[c])
        BY <1>2, <2>1, <3>2, Zenon DEF ChainOf
      <4>2. /\ s \notin rheld[c] \cup rspin[c]
            /\ Chain(pc[Main(c)], msg[Main(c)], "body", msg[f], wheld[c], rheld[c] \cup {s}, rspin[c])
            /\ Chain(pc[Main(c)], msg[Main(c)], "spin", msg[f], wheld[c], rheld[c], rspin[c] \cup {s})
        BY <4>1, ChainReadLock, Zenon
      <4> QED
        BY <3>2, <4>2, Zenon DEF ChainAt
    <3> QED
      BY <3>1, <3>2
  <2>3. /\ LockNext /\ Apart(c) /\ wheld'[c] = wheld[c]
        /\ Taken(s) => rheld'[c] = rheld[c] /\ rspin'[c] = rspin[c] \cup {s}
        /\ ~Taken(s) => rheld'[c] = rheld[c] \cup {s} /\ rspin'[c] = rspin[c]
    BY <1>2, <2>1, <2>2, LockSteps, Zenon
  <2>4. CASE Taken(s)
    BY <1>1, <1>4, <2>1, <2>2, <2>3, <2>4, Zenon
  <2>5. CASE ~Taken(s)
    BY <1>1, <1>4, <2>1, <2>2, <2>3, <2>5, Zenon
  <2> QED
    BY <2>4, <2>5, Zenon
<1>7. CASE WriterGone(f)
  <2>1. pc[f] = "spin" /\ ReadSpinEnds(c, s) /\ pc' = [pc EXCEPT ![f] = "body"]
    BY <1>1, <1>7, SMTT(30) DEF WriterGone, At, SlotOfFrame
  <2>2. s \in rspin[c] /\ ChainAt(c, f, "body", wheld[c], rheld[c] \cup {s}, rspin[c] \ {s})
    BY <1>2, <2>1, ChainSpinEnds, Zenon DEF ChainOf, ChainAt
  <2>3. /\ LockNext /\ Apart(c) /\ wheld'[c] = wheld[c]
        /\ rheld'[c] = rheld[c] \cup {s} /\ rspin'[c] = rspin[c] \ {s}
    BY <1>2, <2>1, <2>2, LockSteps, ZenonT(30)
  <2> QED
    BY <1>1, <1>4, <2>1, <2>2, <2>3, Zenon
<1> QED
  BY <1>5, <1>6, <1>7, Zenon DEF LockStep
-----------------------------------------------------------------------------
(* A step that moves both frames of client c. *)
LEMMA BothMove ==
  ASSUME Inv, NEW c \in Client, NEW l, NEW k, NEW n, pc[Main(c)] # "none", l # "none",
         pc' = [pc EXCEPT ![Main(c)] = l, ![Sub(c)] = k], msg' = [msg EXCEPT ![Sub(c)] = n],
         UNCHANGED <<prog, calls>>, DOMAIN reply' = Frame, Queues',
         WordStep, Apart(c),
         Chain(l, msg[Main(c)], k, n, wheld'[c], rheld'[c], rspin'[c])
  PROVE  Moves(c)
<1>1. Domains /\ Program(c)
  BY Zenon DEF Inv
<1>2. /\ pc'[Main(c)] = l /\ pc'[Sub(c)] = k
      /\ msg'[Main(c)] = msg[Main(c)] /\ msg'[Sub(c)] = n
  BY <1>1, Frames, ZenonT(30) DEF Domains
<1>3. \A b \in Client \ {c} :
        /\ pc'[Main(b)] = pc[Main(b)] /\ pc'[Sub(b)] = pc[Sub(b)]
        /\ msg'[Main(b)] = msg[Main(b)] /\ msg'[Sub(b)] = msg[Sub(b)]
  BY <1>1, Frames DEF Domains
<1>4. \A b \in Client \ {c} : Same(b)
  BY <1>3, Zenon DEF Same, Apart
<1>5. ChainOf(c)'
  BY <1>2, ZenonT(30) DEF ChainOf
<1>6. Program(c)'
  BY <1>1, <1>2 DEF Program
<1>7. Domains'
  BY <1>1 DEF Domains
<1> QED
  BY <1>4, <1>5, <1>6, <1>7, Zenon DEF Moves

(* No request is taken from the queues while both frames of c move. *)
LEMMA BothQueued ==
  ASSUME Domains, NEW c \in Client, NEW l, NEW k,
         pc' = [pc EXCEPT ![Main(c)] = l, ![Sub(c)] = k],
         pc[Main(c)] # "queued", pc[Sub(c)] # "queued"
  PROVE  /\ \A f \in Frame : pc[f] = "queued" => pc'[f] = "queued"
         /\ pc'[Sub(c)] = k
BY Frames DEF Domains

(* The call of a handler to the server of the parent, local or remote. *)
LEMMA CallMoves ==
  ASSUME Inv, NEW c \in Client, NEW l, NEW m, CallParent(c, l, m), l # "none",
         pc[Main(c)] \in {"body", "call"}, pc[Sub(c)] # "queued",
         UNCHANGED lockVars, DOMAIN reply' = Frame,
         \A k \in {EntryPc(m.type), "queued"} :
           Chain(l, msg[Main(c)], k, m, wheld[c], rheld[c], rspin[c])
  PROVE  Moves(c)
<1>1. PICK k \in {EntryPc(m.type), "queued"} :
        /\ pc' = [pc EXCEPT ![Main(c)] = l, ![Sub(c)] = k]
        /\ \/ UNCHANGED cq
           \/ k = "queued" /\ cq' = [cq EXCEPT ![<<Dest(m), 0>>] = Append(@, Sub(c))]
  <2>1. CASE Dest(m) = Home(c)[1]
    BY <2>1, Zenon DEF CallParent
  <2>2. CASE Dest(m) # Home(c)[1]
    BY <2>2, ZenonT(30) DEF CallParent
  <2> QED
    BY <2>1, <2>2, Zenon
<1>2. /\ msg' = [msg EXCEPT ![Sub(c)] = m] /\ UNCHANGED <<wheld, rheld, rspin>>
      /\ UNCHANGED <<prog, calls>>
  BY DEF CallParent, lockVars
<1>3. Queues /\ Domains /\ pc[Main(c)] # "none" /\ pc[Main(c)] # "queued"
  BY Zenon DEF Inv
<1>4. pc' = [pc EXCEPT ![Main(c)] = l, ![Sub(c)] = k] /\ pc[Sub(c)] # "queued"
  BY <1>1
<1>5. (\A f \in Frame : pc[f] = "queued" => pc'[f] = "queued") /\ pc'[Sub(c)] = k
  BY <1>3, <1>4, BothQueued, Zenon
<1>6. Queues'
  <2>1. CASE UNCHANGED cq
    BY <1>3, <1>5, <2>1, QueuesSame, SMTT(30)
  <2>2. CASE k = "queued" /\ cq' = [cq EXCEPT ![<<Dest(m), 0>>] = Append(@, Sub(c))]
    <3>1. Sub(c) \in Frame /\ pc[Sub(c)] # "queued" /\ pc'[Sub(c)] = "queued"
      BY <1>5, <2>2, Frames, Zenon
    <3> QED
      BY <1>3, <1>5, <2>2, <3>1, QueuesAppend, Zenon
  <2> QED
    BY <1>1, <2>1, <2>2, ZenonT(30)
<1>7. Chain(l, msg[Main(c)], k, m, wheld'[c], rheld'[c], rspin'[c])
  BY <1>1, <1>2, Zenon
<1>8. Apart(c) /\ WordStep
  BY <1>2, Zenon DEF Apart, WordStep
<1> QED
  BY <1>2, <1>3, <1>6, <1>7, <1>8, <1>4, BothMove, Zenon

LEMMA AsksParentMoves ==
  ASSUME Inv, NEW c \in Client, AsksParent(c)
  PROVE  Moves(c)
<1> DEFINE p == msg[Main(c)].path
           m == ParentCall(msg[Main(c)])
<1>1. /\ pc[Main(c)] = "body" /\ msg[Main(c)].type \in CompoundTypes
      /\ CallParent(c, "call", m) /\ UNCHANGED <<lockVars, reply>>
  BY DEF AsksParent, At
<1>2. Domains /\ ChainOf(c)
  BY Zenon DEF Inv
<1>3. p \in Path /\ p # Root /\ pc[Sub(c)] = "none"
  BY <1>1, <1>2, Zenon DEF ChainOf, Chain, Control
<1>4. /\ m.path \in Path
      /\ m.type = IF msg[Main(c)].type = "RENAME" THEN "REMOVEMETA" ELSE "READDIRECTORYMETA"
  BY <1>3, ParentPath, Zenon DEF ParentCall, Msg
<1> HIDE DEF m, p
<1>5. \A k \in {EntryPc(m.type), "queued"} :
         Chain("call", msg[Main(c)], k, m, wheld[c], rheld[c], rspin[c])
  BY <1>1, <1>2, <1>4, ChainCall, Zenon DEF ChainOf
<1> QED
  BY <1>1, <1>2, <1>3, <1>5, CallMoves, ZenonT(30) DEF Domains

LEMMA CommitsMoves ==
  ASSUME Inv, NEW c \in Client, Commits(c)
  PROVE  Moves(c)
<1> DEFINE m == Msg("DOCOMMIT", msg[Sub(c)].path, reply[Sub(c)].val)
<1>1. /\ pc[Main(c)] = "call" /\ pc[Sub(c)] = "replied" /\ msg[Main(c)].type = "RENAME"
      /\ CallParent(c, "commit", m) /\ UNCHANGED lockVars
      /\ reply' = [reply EXCEPT ![Sub(c)] = NoReply]
  BY Zenon DEF Commits, ParentReplied, At
<1>2. Domains /\ ChainOf(c)
  BY DEF Inv
<1>3. m.path = msg[Sub(c)].path /\ m.type = "DOCOMMIT" /\ DOMAIN reply' = Frame
  BY <1>1, <1>2, ZenonT(30) DEF Msg, Domains
<1> HIDE DEF m
<1>4. \A k \in {EntryPc(m.type), "queued"} :
         Chain("commit", msg[Main(c)], k, m, wheld[c], rheld[c], rspin[c])
  BY <1>1, <1>2, <1>3, ChainCommit DEF ChainOf
<1> QED
  BY <1>1, <1>3, <1>4, CallMoves, Zenon

(* The parent has replied and the main frame goes on without it. *)
Leaves(c, l) ==
  /\ pc[Main(c)] \in {"call", "commit"} /\ pc[Sub(c)] = "replied" /\ l # "none"
  /\ pc' = [pc EXCEPT ![Main(c)] = l, ![Sub(c)] = "none"]
  /\ msg' = [msg EXCEPT ![Sub(c)] = NoMsg]
  /\ UNCHANGED <<cq, prog, calls>>
  /\ DOMAIN reply' = DOMAIN reply

LEMMA LeaveMoves ==
  ASSUME Inv, NEW c \in Client, NEW l, Leaves(c, l), WordStep, Apart(c),
         Chain(l, msg[Main(c)], "none", NoMsg, wheld'[c], rheld'[c], rspin'[c])
  PROVE  Moves(c)
<1>0. /\ pc[Main(c)] \in {"call", "commit"} /\ pc[Sub(c)] = "replied" /\ l # "none"
      /\ pc' = [pc EXCEPT ![Main(c)] = l, ![Sub(c)] = "none"]
      /\ msg' = [msg EXCEPT ![Sub(c)] = NoMsg]
      /\ UNCHANGED <<cq, prog, calls>>
      /\ DOMAIN reply' = DOMAIN reply
  BY Zenon DEF Leaves
<1>1. Domains /\ Queues
  BY Zenon DEF Inv
<1>2. pc[Main(c)] # "none" /\ pc[Main(c)] # "queued" /\ pc[Sub(c)] # "queued"
  BY <1>0
<1>3. \A f \in Frame : pc[f] = "queued" => pc'[f] = "queued"
  BY <1>0, <1>1, <1>2, BothQueued, Zenon
<1>4. Queues'
  BY <1>0, <1>1, <1>3, QueuesSame, Zenon
<1>5. DOMAIN reply' = Frame
  BY <1>0, <1>1, Zenon DEF Domains
<1> QED
  BY <1>0, <1>2, <1>4, <1>5, BothMove, Zenon

(* What a chain whose parent has replied may go on to. *)
LEMMA RepliedChain ==
  ASSUME Inv, NEW c \in Client, pc[Main(c)] \in {"call", "commit"}, pc[Sub(c)] = "replied"
  PROVE  /\ KeyInv /\ SlotOf[msg[Main(c)].path] \in Slot
         /\ SlotOf[msg[Main(c)].path] \in wheld[c]
         /\ Chain("replied", msg[Main(c)], "none", NoMsg,
                  wheld[c] \ {SlotOf[msg[Main(c)].path]}, rheld[c], rspin[c])
         /\ Chain("apply", msg[Main(c)], "none", NoMsg, wheld[c], rheld[c], rspin[c])
<1>1. KeyInv /\ ChainOf(c) /\ SlotOf[msg[Main(c)].path] \in Slot
  BY Frames, FrameFacts, Zenon
<1> QED
  BY <1>1, ChainReplied, Zenon DEF ChainOf

LEMMA AbandonMoves ==
  ASSUME Inv, NEW c \in Client, Abandon(c)
  PROVE  Moves(c)
<1> DEFINE s == SlotOf[msg[Main(c)].path]
<1>1. Leaves(c, "replied")
  BY DEF Abandon, ParentReplied, At, Leaves
<1>2. WriteUnlock(c, s)
  BY Zenon DEF Abandon, SlotOfFrame
<1>3. /\ KeyInv /\ s \in Slot /\ s \in wheld[c]
      /\ Chain("replied", msg[Main(c)], "none", NoMsg, wheld[c] \ {s}, rheld[c], rspin[c])
  BY <1>1, RepliedChain, Zenon DEF Leaves
<1> HIDE DEF s
<1>4. /\ LockNext /\ Apart(c) /\ wheld'[c] = wheld[c] \ {s}
      /\ rheld'[c] = rheld[c] /\ rspin'[c] = rspin[c]
  BY <1>2, <1>3, LockSteps, Zenon
<1>5. Chain("replied", msg[Main(c)], "none", NoMsg, wheld'[c], rheld'[c], rspin'[c])
  BY <1>3, <1>4, Zenon
<1> QED
  BY <1>1, <1>4, <1>5, LeaveMoves, Zenon DEF WordStep

LEMMA ContinueMoves ==
  ASSUME Inv, NEW c \in Client, Continues(c) \/ Committed(c)
  PROVE  Moves(c)
<1>1. /\ pc[Main(c)] \in {"call", "commit"} /\ pc[Sub(c)] = "replied" /\ LeaveParent(c)
  BY Zenon DEF Continues, Committed, ParentReplied, At
<1>2. Leaves(c, "apply")
  BY <1>1 DEF LeaveParent, Leaves
<1>3. UNCHANGED lockVars /\ UNCHANGED <<wheld, rheld, rspin>>
  BY <1>1 DEF LeaveParent, lockVars
<1>4. Chain("apply", msg[Main(c)], "none", NoMsg, wheld'[c], rheld'[c], rspin'[c])
  BY <1>1, <1>3, RepliedChain, Zenon
<1>5. Apart(c) /\ WordStep
  BY <1>3, Zenon DEF Apart, WordStep
<1> QED
  BY <1>2, <1>4, <1>5, LeaveMoves, Zenon

-----------------------------------------------------------------------------
(* Initially all frames and queues are empty and no word is locked. *)
LEMMA InitInv == FramesInit => Inv
<1> SUFFICES ASSUME FramesInit PROVE Inv
  OBVIOUS
<1>1. KeyInv
  BY LockInitInv DEF FramesInit, LockInv
<1>2. Domains
  BY DEF FramesInit, Domains
<1>3. Queues
  BY SMTT(30) DEF FramesInit, Queues, Distinct
<1>4. \A c \in Client : ChainOf(c)
  BY PathAssumption, Frames, ZenonT(30)
  DEF FramesInit, LockInit, ChainOf, Chain, Control, Held, NoMsg, Msg, CompoundTypes, ReadTypes, WriteTypes
<1>5. \A c \in Client : Program(c)
  BY Frames, Zenon DEF FramesInit, Program, Idle
<1> QED
  BY <1>1, <1>2, <1>3, <1>4, <1>5 DEF Inv

(* Every step moves one client. *)
LEMMA NextMoves ==
  ASSUME Inv, FrameNext
  PROVE  \E c \in Client : Moves(c)
<1>1. CASE \E c \in Client : ClientStep(c)
  BY <1>1, StartMoves, ProceedMoves, ReturnMoves, Zenon DEF ClientStep
<1>2. CASE \E c \in Client : ParentStep(c)
  BY <1>2, AsksParentMoves, CommitsMoves, AbandonMoves, ContinueMoves, Zenon DEF ParentStep
<1>3. CASE \E f \in Frame : LockStep(f) \/ HandlerStep(f)
  BY <1>3, FrameFacts, LockMoves, HandlerMoves, Zenon
<1>4. CASE \E t \in Thread : RequestPoller(t)
  BY <1>4, PollMoves DEF Inv, Queues
<1> QED
  BY <1>1, <1>2, <1>3, <1>4 DEF FrameNext

(* The invariant is inductive, and every step is one of the lock protocol *)
(* or an unlock astray.                                                   *)
LEMMA NextInv == Inv /\ [FrameNext]_callVars => Inv' /\ WordStep
<1> SUFFICES ASSUME Inv, [FrameNext]_callVars PROVE Inv' /\ WordStep
  OBVIOUS
<1>1. CASE FrameNext
  BY <1>1, NextMoves, MovesKeeps, Zenon DEF Moves
<1>2. CASE UNCHANGED callVars
  <2>1. UNCHANGED <<lockVars, pc, msg, reply, cq, prog, calls>>
    BY <1>2 DEF callVars, frameVars
  <2>2. KeyInv'
    BY <2>1, LockNextInv, Zenon DEF Inv
  <2>3. Domains' /\ Queues'
    BY <2>1, QueuesSame DEF Inv, Domains
  <2>4. \A b \in Client : Same(b)
    BY <2>1 DEF Same, lockVars
  <2>5. \A b \in Client : ChainOf(b)' /\ Program(b)'
    BY <2>4, Others, Zenon DEF Inv
  <2> QED
    BY <2>1, <2>2, <2>3, <2>5 DEF Inv, WordStep
<1> QED
  BY <1>1, <1>2

(* Every handler that runs has the locks it needs. *)
LEMMA InvHandlers == Inv => HandlersLocked
<1> SUFFICES ASSUME Inv, NEW f \in Frame
             PROVE  LET t == msg[f].type IN
                    /\ t \in ReadTypes /\ pc[f] = "body" => SlotOfFrame(f) \in rheld[f[1]]
                    /\ t \in WriteTypes /\ pc[f] \in {"body", "call", "commit", "apply"} =>
                         SlotOfFrame(f) \in wheld[f[1]]
                    /\ t = "DOCOMMIT" /\ pc[f] \in {"queued", "body"} => SlotOfFrame(f) \in wheld[f[1]]
  BY DEF HandlersLocked
<1>1. PICK c \in Client : c = f[1]
  BY FrameFacts
<1>2. (f = Main(c) \/ f = Sub(c)) /\ ChainOf(c)
  BY <1>1, FrameFacts, SMTT(30)
<1>3. CASE f = Main(c)
  BY <1>1, <1>2, <1>3, Zenon DEF ChainOf, Chain, Held, SlotOfFrame
<1>4. CASE f = Sub(c)
  <2>1. pc[f] # "none" => msg[f].type \in {"READDIRECTORYMETA", "REMOVEMETA", "DOCOMMIT"}
    BY <1>2, <1>4, ZenonT(30) DEF ChainOf, Chain, Control
  <2>2. pc[f] \notin {"call", "commit", "apply"}
    BY <1>2, <1>4, SMTT(30) DEF ChainOf, Chain, Control
  <2> QED
    BY <1>1, <1>2, <1>4, <2>1, <2>2, ZenonT(30)
    DEF ChainOf, Chain, Held, SlotOfFrame, ReadTypes, WriteTypes, CompoundTypes
<1> QED
  BY <1>2, <1>3, <1>4, Zenon

-----------------------------------------------------------------------------
(* FramesSound: Inv holds in every behaviour of the calls. *)
THEOREM FramesSound == FrameSpec => []Inv
BY InitInv, NextInv, PTL DEF FrameSpec

(* FramesFollow: a behaviour of the calls without reads of no bytes, seen  *)
(* at the lock words, is one of the lock protocol: a handler only unlocks  *)
(* what its chain has locked and no chain announces itself twice at a      *)
(* word.                                                                   *)
THEOREM FramesFollow == NoEmptyReads /\ FrameSpec => LockSpec
<1>1. FramesInit => Inv /\ LockInit
  BY InitInv DEF FramesInit
<1>2. Inv /\ [FrameNext]_callVars => Inv' /\ WordStep
  BY NextInv
<1>3. NoEmptyReads /\ WordStep => [LockNext]_lockVars
  BY Zenon DEF WordStep
<1>4. NoEmptyReads => NoEmptyReads'
  BY DEF NoEmptyReads
<1> QED
  BY <1>1, <1>2, <1>3, <1>4, PTL DEF FrameSpec, LockSpec

(* FramesLocked: every handler runs with the lock of its path. *)
THEOREM FramesLocked == FrameSpec => []HandlersLocked
BY FramesSound, InvHandlers, PTL

------------------------------------------------------------------------------
(***************************************************************************)
(* The calls of Octopus give every lock back.                              *)
(*                                                                         *)
(* Inv says which locks a handler has, not that a client has no others.    *)
(* Accounted does, for the write locks.  A frame owes the lock of its path *)
(* from the moment it has it to its unlock, which for ADDMETA and          *)
(* REMOVEMETA is that of the DOCOMMIT that follows: every slot a client    *)
(* has locked for writing is owed by one of its two frames, or was left    *)
(* locked by an ADDMETA or REMOVEMETA that failed.  The words outside      *)
(* forgotten have kept their exact counts (Words).                         *)
(***************************************************************************)

Owes(l, m, r) ==
  \/ l \in {"body", "call", "commit", "apply"} /\ m.type \in WriteTypes
  \/ l \in {"queued", "body"} /\ m.type = "DOCOMMIT"
  \/ l = "replied" /\ m.type \in {"ADDMETA", "REMOVEMETA"} /\ r.ok

Owing(f) == Owes(pc[f], msg[f], reply[f])

Accounted ==
  \A c \in Client : \A x \in wheld[c] \ forgotten :
    \E f \in {Main(c), Sub(c)} : Owing(f) /\ x = SlotOfFrame(f)

Words == \A s \in Slot \ forgotten : Exact(s)

(* A step that leaves frame f alone, and one after which f owes as before, *)
(* or no longer has to.                                                    *)
Frozen(f) == pc'[f] = pc[f] /\ msg'[f] = msg[f] /\ reply'[f] = reply[f]

Settles(f) ==
  Owing(f) => \/ Owing(f)' /\ SlotOfFrame(f)' = SlotOfFrame(f)
              \/ SlotOfFrame(f) \notin wheld'[f[1]] \ forgotten'

(* What a step made for client c has to do, besides Moves(c). *)
Settled(c) ==
  /\ forgotten \subseteq forgotten'
  /\ \A b \in Client \ {c} : wheld'[b] = wheld[b] /\ Frozen(Main(b)) /\ Frozen(Sub(b))
  /\ \A x \in wheld'[c] \ wheld[c] : \E f \in {Main(c), Sub(c)} : Owing(f)' /\ x = SlotOfFrame(f)'
  /\ Settles(Main(c)) /\ Settles(Sub(c))

LEMMA FrozenSettles ==
  ASSUME NEW f, Frozen(f)
  PROVE  Settles(f) /\ (Owing(f) => Owing(f)' /\ SlotOfFrame(f)' = SlotOfFrame(f))
<1>1. Owing(f) => Owing(f)'
  BY DEF Frozen, Owing
<1>2. SlotOfFrame(f)' = SlotOfFrame(f)
  BY DEF Frozen, SlotOfFrame
<1> QED
  BY <1>1, <1>2, Zenon DEF Settles

LEMMA SettledKeeps ==
  ASSUME Accounted, NEW c \in Client, Settled(c)
  PROVE  Accounted' /\ forgotten \subseteq forgotten'
<1>0. forgotten \subseteq forgotten'
  BY DEF Settled
<1> SUFFICES ASSUME NEW b \in Client, NEW x, x \in wheld'[b], x \notin forgotten'
             PROVE  \E f \in {Main(b), Sub(b)} : Owing(f)' /\ x = SlotOfFrame(f)'
  BY <1>0, Zenon DEF Accounted
<1>1. x \notin forgotten
  BY DEF Settled
<1>2. ASSUME x \in wheld[b]
      PROVE  \E f \in {Main(b), Sub(b)} : Owing(f) /\ x = SlotOfFrame(f)
  BY <1>1, <1>2, Zenon DEF Accounted
<1>3. CASE b # c
  <2>1. wheld'[b] = wheld[b] /\ Frozen(Main(b)) /\ Frozen(Sub(b))
    BY <1>3 DEF Settled
  <2>2. PICK f \in {Main(b), Sub(b)} : Owing(f) /\ x = SlotOfFrame(f)
    BY <1>2, <2>1, Zenon
  <2>3. Owing(f)' /\ SlotOfFrame(f)' = SlotOfFrame(f)
    BY <2>1, <2>2, FrozenSettles, Zenon
  <2> QED
    BY <2>2, <2>3, Zenon
<1>4. CASE b = c
  <2>1. CASE x \notin wheld[c]
    BY <1>4, <2>1, Zenon DEF Settled
  <2>2. CASE x \in wheld[c]
    <3>1. PICK f \in {Main(c), Sub(c)} : Owing(f) /\ x = SlotOfFrame(f)
      BY <1>2, <1>4, <2>2, Zenon
    <3>2. Settles(f) /\ f[1] = c
      BY <3>1, Frames, Zenon DEF Settled
    <3>3. Owing(f)' /\ SlotOfFrame(f)' = SlotOfFrame(f)
      BY <1>4, <3>1, <3>2, Zenon DEF Settles
    <3> QED
      BY <1>4, <3>1, <3>3, Zenon
  <2> QED
    BY <2>1, <2>2
<1> QED
  BY <1>3, <1>4

(* A step that moves one frame only. *)
LEMMA FrameSettled ==
  ASSUME NEW f \in Frame, \A g \in Frame \ {f} : Frozen(g), Apart(f[1]),
         forgotten \subseteq forgotten', Settles(f),
         \A x \in wheld'[f[1]] \ wheld[f[1]] : Owing(f)' /\ x = SlotOfFrame(f)'
  PROVE  Settled(f[1])
<1>1. PICK c \in Client : c = f[1]
  BY Frames, Zenon
<1>2. f = Main(c) \/ f = Sub(c)
  BY <1>1, Frames, Zenon
<1>3. \A b \in Client \ {c} : Frozen(Main(b)) /\ Frozen(Sub(b))
  BY <1>2, Frames, ZenonT(30)
<1>4. Settles(Main(c)) /\ Settles(Sub(c))
  <2>1. CASE f = Main(c)
    BY <2>1, Frames, FrozenSettles, Zenon
  <2>2. CASE f = Sub(c)
    BY <2>2, Frames, FrozenSettles, Zenon
  <2> QED
    BY <1>2, <2>1, <2>2
<1>5. \A x \in wheld'[c] \ wheld[c] : \E g \in {Main(c), Sub(c)} : Owing(g)' /\ x = SlotOfFrame(g)'
  BY <1>1, <1>2, Zenon
<1>6. \A b \in Client \ {c} : wheld'[b] = wheld[b]
  BY <1>1 DEF Apart
<1> QED
  BY <1>1, <1>3, <1>4, <1>5, <1>6, Zenon DEF Settled

-----------------------------------------------------------------------------
(* The handlers that end: they have unlocked their path or had no lock, or *)
(* the lock is now for DOCOMMIT to release or forgotten.                   *)
LEMMA FinishSettled ==
  ASSUME Inv, NEW f \in Frame, NEW r, Finish(f, r), Apart(f[1]), forgotten \subseteq forgotten',
         wheld'[f[1]] \subseteq wheld[f[1]],
         Owing(f) => \/ Owes("replied", msg[f], r)
                     \/ SlotOf[msg[f].path] \notin wheld'[f[1]] \ forgotten'
  PROVE  Settled(f[1])
<1>1. Domains
  BY Zenon DEF Inv
<1>2. \A g \in Frame \ {f} : Frozen(g)
  BY <1>1, Zenon DEF Finish, Domains, Frozen
<1>3. pc'[f] = "replied" /\ msg'[f] = msg[f] /\ reply'[f] = r
  BY <1>1, SMTT(30) DEF Finish, Domains
<1>4. SlotOfFrame(f)' = SlotOfFrame(f) /\ SlotOfFrame(f) = SlotOf[msg[f].path]
  BY <1>3, Zenon DEF SlotOfFrame
<1>5. Owes("replied", msg[f], r) => Owing(f)'
  BY <1>3, Zenon DEF Owing
<1>6. Settles(f)
  BY <1>4, <1>5, Zenon DEF Settles
<1>7. \A x \in wheld'[f[1]] \ wheld[f[1]] : Owing(f)' /\ x = SlotOfFrame(f)'
  BY Zenon
<1> QED
  BY <1>2, <1>6, <1>7, FrameSettled, Zenon

LEMMA UnlockSettled ==
  ASSUME Inv, NEW f \in Frame, NEW r, Finish(f, r), UNCHANGED forgotten,
         WriteUnlock(f[1], SlotOf[msg[f].path])
  PROVE  Settled(f[1])
<1>1. f[1] \in Client /\ wheld \in [Client -> SUBSET Slot]
  BY FrameFacts, Zenon DEF KeyInv, LockTypeOK
<1>2. Apart(f[1]) /\ wheld'[f[1]] = wheld[f[1]] \ {SlotOf[msg[f].path]}
  BY <1>1, SMTT(30) DEF WriteUnlock, Apart
<1>3. SlotOf[msg[f].path] \notin wheld'[f[1]] \ forgotten' /\ wheld'[f[1]] \subseteq wheld[f[1]]
  BY <1>2, Zenon
<1> QED
  BY <1>2, <1>3, FinishSettled, Zenon

LEMMA PrepareSettled ==
  ASSUME Inv, NEW f \in Frame, Prepares(f)
  PROVE  Settled(f[1])
<1>1. PICK ok, v :
        /\ Finish(f, Reply(ok, v))
        /\ forgotten' = IF ok THEN forgotten ELSE forgotten \cup {SlotOf[msg[f].path]}
  BY Zenon DEF Prepares, SlotOfFrame
<1>2. msg[f].type \in {"ADDMETA", "REMOVEMETA"} /\ UNCHANGED lockVars
  BY Zenon DEF Prepares
<1>3. Apart(f[1]) /\ wheld'[f[1]] \subseteq wheld[f[1]]
  BY <1>2, SMTT(30) DEF lockVars, Apart
<1>4. CASE ok
  <2>1. Owes("replied", msg[f], Reply(ok, v))
    BY <1>2, <1>4 DEF Owes, Reply
  <2> QED
    BY <1>1, <1>3, <1>4, <2>1, FinishSettled, ZenonT(30)
<1>5. CASE ~ok
  <2>1. SlotOf[msg[f].path] \in forgotten' /\ forgotten \subseteq forgotten'
    BY <1>1, <1>5, Zenon
  <2> QED
    BY <1>1, <1>3, <1>5, <2>1, FinishSettled, Zenon
<1> QED
  BY <1>4, <1>5

(* Handlers without a write lock: the reading ones, of some bytes or none, *)
(* and blockFree.                                                          *)
LEMMA ReadSettled ==
  ASSUME Inv, NEW f \in Frame, Looks(f) \/ Frees(f) \/ Strays(f)
  PROVE  Settled(f[1])
<1>1. /\ pc[f] = "body" /\ msg[f].type \in ReadTypes \cup {"FREEBLOCK", "EMPTYREAD"}
      /\ UNCHANGED lockVars \/ ReadUnlock(f[1], SlotOfFrame(f)) \/ \E s \in Slot : StrayUnlock(s)
      /\ forgotten \subseteq forgotten'
      /\ \E r : Finish(f, r)
  BY Zenon DEF Looks, Frees, Strays, At
<1>2. ~Owing(f)
  BY <1>1, SMTT(30) DEF Owing, Owes, ReadTypes, WriteTypes, CompoundTypes
<1>3. f[1] \in Client /\ rheld \in [Client -> SUBSET Slot]
  BY FrameFacts, Zenon DEF KeyInv, LockTypeOK
<1>4. UNCHANGED wheld /\ Apart(f[1])
  BY <1>1, <1>3, Zenon DEF lockVars, ReadUnlock, StrayUnlock, Apart
<1> QED
  BY <1>1, <1>2, <1>4, FinishSettled, Zenon

(* The frames that take their lock. *)
LEMMA LockSettled ==
  ASSUME Inv, NEW f \in Frame, LockStep(f)
  PROVE  Settled(f[1])
<1>1. /\ f[1] \in Client /\ (f = Main(f[1]) \/ f = Sub(f[1]))
      /\ KeyInv /\ Domains /\ ChainOf(f[1])
  BY FrameFacts, Zenon
<1>2. UNCHANGED <<msg, reply, forgotten>>
  BY Zenon DEF LockStep, LockForWriting, LockForReading, WriterGone
<1>3. \A g \in Frame \ {f} : Frozen(g)
  BY <1>1, <1>2, Zenon DEF LockStep, LockForWriting, LockForReading, WriterGone, Domains, Frozen
<1>4. /\ wheld \in [Client -> SUBSET Slot] /\ rheld \in [Client -> SUBSET Slot]
      /\ rspin \in [Client -> SUBSET Slot]
  BY <1>1, Zenon DEF KeyInv, LockTypeOK
<1>5. pc[f] \in {"wlock", "rlock", "spin"}
  BY Zenon DEF LockStep, LockForWriting, LockForReading, WriterGone, At
<1>6. ~Owing(f) /\ Settles(f)
  BY <1>5, Zenon DEF Owing, Owes, Settles
<1>7. CASE LockForWriting(f)
  <2>1. pc[f] = "wlock" /\ pc'[f] = "body" /\ msg'[f] = msg[f]
    BY <1>1, <1>2, <1>7, Zenon DEF LockForWriting, At, Domains
  <2>2. msg[f].type \in WriteTypes
    BY <1>1, <2>1, Zenon DEF ChainOf, Chain, Control
  <2>3. Owing(f)' /\ SlotOfFrame(f)' = SlotOfFrame(f)
    BY <2>1, <2>2, Zenon DEF Owing, Owes, SlotOfFrame
  <2>4. Apart(f[1]) /\ wheld'[f[1]] = wheld[f[1]] \cup {SlotOfFrame(f)}
    BY <1>1, <1>4, <1>7, Zenon DEF LockForWriting, WriteLock, Apart
  <2>5. \A x \in wheld'[f[1]] \ wheld[f[1]] : Owing(f)' /\ x = SlotOfFrame(f)'
    BY <2>3, <2>4, Zenon
  <2> QED
    BY <1>2, <1>3, <1>6, <2>4, <2>5, FrameSettled, Zenon
<1>8. CASE LockForReading(f) \/ WriterGone(f)
  <2>1. UNCHANGED wheld
    BY <1>8, SMTT(30) DEF LockForReading, WriterGone, ReadLock, ReadSpinEnds
  <2>2. \A b \in Client \ {f[1]} : rheld'[b] = rheld[b] /\ rspin'[b] = rspin[b]
    BY <1>1, <1>4, <1>8, Zenon DEF LockForReading, WriterGone, ReadLock, ReadSpinEnds
  <2> QED
    BY <1>2, <1>3, <1>6, <2>1, <2>2, FrameSettled, ZenonT(30) DEF Apart
<1> QED
  BY <1>7, <1>8 DEF LockStep

LEMMA HandlerSettled ==
  ASSUME Inv, NEW f \in Frame, HandlerStep(f)
  PROVE  Settled(f[1])
<1>1. CASE Ends(f) \/ Makes(f) \/ Drops(f)
  BY <1>1, UnlockSettled, Zenon DEF Ends, Makes, Drops, SlotOfFrame
<1> QED
  BY <1>1, PrepareSettled, ReadSettled, Zenon DEF HandlerStep

-----------------------------------------------------------------------------
(* A worker takes a request: only DOCOMMIT comes with a lock. *)
LEMMA PollSettled ==
  ASSUME Inv, NEW t \in DOMAIN cq, RequestPoller(t)
  PROVE  \E c \in Client : Settled(c)
<1>1. /\ cq[t] # <<>> /\ cq' = [cq EXCEPT ![t] = Tail(@)]
      /\ pc' = [pc EXCEPT ![Head(cq[t])] = EntryPc(msg[Head(cq[t])].type)]
      /\ UNCHANGED <<lockVars, msg, reply, forgotten>>
  BY DEF RequestPoller
<1>2. Domains /\ Queues
  BY DEF Inv
<1>3. Head(cq[t]) \in Waiting
  BY <1>1, <1>2, QueuesTail, Zenon
<1>4. PICK f \in Frame : f = Head(cq[t]) /\ pc[f] = "queued" /\ f[1] \in Client
  BY <1>3, Frames, Zenon DEF Waiting
<1>5. Owing(f) => msg[f].type = "DOCOMMIT" /\ EntryPc(msg[f].type) = "body"
  BY <1>4, Zenon DEF Owing, Owes, EntryPc, ReadTypes, WriteTypes, CompoundTypes
<1>6. /\ \A g \in Frame \ {f} : Frozen(g)
      /\ pc'[f] = EntryPc(msg[f].type) /\ msg'[f] = msg[f]
  BY <1>1, <1>2, <1>4, Zenon DEF Domains, Frozen
<1>7. Settles(f)
  BY <1>5, <1>6, Zenon DEF Settles, Owing, Owes, SlotOfFrame
<1>8. UNCHANGED <<wheld, rheld, rspin>> /\ Apart(f[1])
  BY <1>1 DEF lockVars, Apart
<1>9. Settled(f[1])
  BY <1>1, <1>4, <1>6, <1>7, <1>8, FrameSettled, ZenonT(30)
<1> QED
  BY <1>4, <1>9, Zenon

(* ControlMain for the frames of client c. *)
LEMMA ControlOf ==
  ASSUME Inv, NEW c \in Client
  PROVE  /\ pc[Main(c)] # "none" => msg[Main(c)].type # "REMOVEMETA"
         /\ pc[Main(c)] = "body" => pc[Sub(c)] = "none"
         /\ pc[Main(c)] \in {"call", "commit"} => msg[Main(c)].type \in CompoundTypes
         /\ pc[Main(c)] = "call" /\ msg[Main(c)].type # "RENAME" => msg[Sub(c)].type = "READDIRECTORYMETA"
         /\ pc[Main(c)] = "commit" => msg[Sub(c)].type = "DOCOMMIT"
<1>1. Control(pc[Main(c)], msg[Main(c)], pc[Sub(c)], msg[Sub(c)])
  BY Zenon DEF Inv, ChainOf, Chain
<1> QED
  BY <1>1, ControlMain, SMTT(30)

(* The steps of the client: the only reply that comes with a lock is that  *)
(* of a successful ADDMETA, and rename sends DOCOMMIT for it (nrfs.cpp).   *)
LEMMA ClientSettled ==
  ASSUME Inv, NEW c \in Client, ClientStep(c)
  PROVE  Settled(c)
<1>1. Domains /\ ChainOf(c) /\ Program(c)
  BY DEF Inv
<1>2. /\ pc[Main(c)] \in {"none", "replied"}
      /\ UNCHANGED lockVars /\ UNCHANGED forgotten
      /\ \A f \in Frame \ {Main(c)} : Frozen(f)
  <2>1. CASE Start(c)
    <3>1. \E r : Send(c, r)
      BY <2>1, Zenon DEF Start
    <3>2. prog[c].op = "idle" /\ UNCHANGED <<lockVars, reply, forgotten>>
      BY <2>1, Zenon DEF Start
    <3>3. \A f \in Frame \ {Main(c)} : Frozen(f)
      BY <1>1, <3>1, <3>2, Zenon DEF Send, Frozen, Domains
    <3> QED
      BY <1>1, <3>2, <3>3, Zenon DEF Program
  <2>2. CASE Proceed(c)
    BY <1>1, <2>2, Zenon DEF Proceed, Replied, Send, Frozen, Domains
  <2>3. CASE Return(c)
    BY <1>1, <2>3, ZenonT(30) DEF Return, Replied, Frozen, Domains
  <2> QED
    BY <2>1, <2>2, <2>3, Zenon DEF ClientStep
<1>3. Settles(Main(c))
  <2> SUFFICES ASSUME Owing(Main(c))
               PROVE  Owing(Main(c))' /\ SlotOfFrame(Main(c))' = SlotOfFrame(Main(c))
    BY Zenon DEF Settles
  <2>1. pc[Main(c)] = "replied" /\ msg[Main(c)].type \in {"ADDMETA", "REMOVEMETA"} /\ reply[Main(c)].ok
    BY <1>2, ZenonT(30) DEF Owing, Owes
  <2>2. msg[Main(c)].type = "ADDMETA"
    BY <2>1, ControlOf, SMTT(30)
  <2>3. prog[c].op = "rename" /\ msg[Main(c)].path = Parent(prog[c].arg)
    <3>1. GoodCall(prog[c], msg[Main(c)])
      BY <1>1, <2>1, Zenon DEF Program
    <3> QED
      BY <2>2, <3>1, Zenon DEF GoodCall
  <2>4. Following(c) = <<Msg("DOCOMMIT", Parent(prog[c].arg), reply[Main(c)].val), <<>> >>
    BY <2>1, <2>2, <2>3, ZenonT(30) DEF Following, NextCall
  <2>5. Following(c) # <<>> /\ Following(c)[1] = Msg("DOCOMMIT", msg[Main(c)].path, reply[Main(c)].val)
    BY <2>3, <2>4, SMTT(30)
  <2>6. ~Start(c) /\ ~Return(c)
    <3>1. prog[c].op # "idle"
      BY <1>1, <2>1, Zenon DEF Program
    <3> QED
      BY <2>5, <3>1, Zenon DEF Start, Return
  <2>7. Send(c, Following(c)[1])
    BY <2>6, Zenon DEF ClientStep, Proceed
  <2>8. pc'[Main(c)] = "queued" /\ msg'[Main(c)] = Msg("DOCOMMIT", msg[Main(c)].path, reply[Main(c)].val)
    <3> DEFINE x == Following(c)[1]
    <3>1. msg' = [msg EXCEPT ![Main(c)] = x] /\ pc' = [pc EXCEPT ![Main(c)] = "queued"]
      BY <2>7, Zenon DEF Send
    <3>2. Main(c) \in DOMAIN msg /\ Main(c) \in DOMAIN pc
      BY <1>1, Frames, Zenon DEF Domains
    <3> HIDE DEF x
    <3>3. pc'[Main(c)] = "queued" /\ msg'[Main(c)] = x
      BY <3>1, <3>2, Zenon
    <3> QED
      BY <2>5, <3>3, Zenon DEF x
  <2> QED
    BY <2>8, SMTT(30) DEF Owing, Owes, SlotOfFrame, Msg
<1>4. UNCHANGED <<wheld, rheld, rspin>>
  BY <1>2 DEF lockVars
<1>5. Apart(c) /\ \A x \in wheld'[c] \ wheld[c] : Owing(Main(c))' /\ x = SlotOfFrame(Main(c))'
  BY <1>4, Zenon DEF Apart
<1>6. Main(c) \in Frame /\ Main(c)[1] = c /\ forgotten \subseteq forgotten'
  BY <1>2, Frames, SMTT(30)
<1> QED
  BY <1>2, <1>3, <1>5, <1>6, FrameSettled, Zenon

(* What a step of such a handler writes: its own frames only. *)
LEMMA ParentShape ==
  ASSUME NEW c \in Client, ParentStep(c)
  PROVE  /\ \E l, k : pc' = [pc EXCEPT ![Main(c)] = l, ![Sub(c)] = k]
         /\ \E x : msg' = [msg EXCEPT ![Sub(c)] = x]
         /\ \/ reply' = reply
            \/ \E x : reply' = [reply EXCEPT ![Sub(c)] = x]
            \/ \E x, y : reply' = [reply EXCEPT ![Main(c)] = x, ![Sub(c)] = y]
         /\ UNCHANGED forgotten
<1>1. \E l, k : pc' = [pc EXCEPT ![Main(c)] = l, ![Sub(c)] = k]
  BY ZenonT(30) DEF ParentStep, AsksParent, Abandon, Continues, Commits, Committed, LeaveParent, CallParent
<1>2. \E x : msg' = [msg EXCEPT ![Sub(c)] = x]
  BY Zenon DEF ParentStep, AsksParent, Abandon, Continues, Commits, Committed, LeaveParent, CallParent
<1>3. \/ reply' = reply
      \/ \E x : reply' = [reply EXCEPT ![Sub(c)] = x]
      \/ \E x, y : reply' = [reply EXCEPT ![Main(c)] = x, ![Sub(c)] = y]
  BY Zenon DEF ParentStep, AsksParent, Abandon, Continues, Commits, Committed, LeaveParent
<1>4. UNCHANGED forgotten
  BY Zenon DEF ParentStep, AsksParent, Abandon, Continues, Commits, Committed, LeaveParent
<1> QED
  BY <1>1, <1>2, <1>3, <1>4, Zenon

(* The handlers that call the server of the parent.  The lock REMOVEMETA   *)
(* took there is given on to DOCOMMIT; rename gives up only when there is  *)
(* none.                                                                   *)
LEMMA ParentSettled ==
  ASSUME Inv, NEW c \in Client, ParentStep(c)
  PROVE  Settled(c)
<1> DEFINE m == msg[Main(c)]
           s == msg[Sub(c)]
<1>1. Domains /\ ChainOf(c) /\ wheld \in [Client -> SUBSET Slot]
  BY DEF Inv, KeyInv, LockTypeOK
<1>2. Main(c) \in Frame /\ Sub(c) \in Frame /\ Main(c) # Sub(c) /\ Main(c)[1] = c /\ Sub(c)[1] = c
  BY Frames, Zenon
<1>3. UNCHANGED forgotten
  BY ParentShape, Zenon
<1>4. ASSUME NEW f \in Frame \ {Main(c), Sub(c)} PROVE Frozen(f)
  <2>1. DOMAIN pc = Frame /\ DOMAIN msg = Frame /\ DOMAIN reply = Frame
    BY <1>1, Zenon DEF Domains
  <2>2. pc'[f] = pc[f]
    BY <2>1, ParentShape, Zenon
  <2>3. msg'[f] = msg[f]
    BY <2>1, ParentShape, ZenonT(30)
  <2>4. reply'[f] = reply[f]
    BY <2>1, ParentShape, SMTT(30)
  <2> QED
    BY <2>2, <2>3, <2>4, Zenon DEF Frozen
<1>5. /\ wheld'[c] \subseteq wheld[c]
      /\ \A b \in Client \ {c} : wheld'[b] = wheld[b]
  <2>1. UNCHANGED lockVars \/ WriteUnlock(c, SlotOfFrame(Main(c)))
    BY ZenonT(30) DEF ParentStep, AsksParent, Abandon, Continues, Commits, Committed, LeaveParent
  <2> QED
    BY <1>1, <2>1, SMTT(30) DEF lockVars, WriteUnlock
<1>6. msg'[Main(c)] = msg[Main(c)]
  BY <1>1, <1>2, ParentShape, SMTT(30) DEF Domains
<1>7. Settles(Main(c)) /\ Settles(Sub(c))
  <2>0. SlotOfFrame(Main(c))' = SlotOfFrame(Main(c))
    BY <1>6, Zenon DEF SlotOfFrame
  <2>1. CASE Abandon(c)
    <3>1. /\ pc[Main(c)] = "call" /\ pc[Sub(c)] = "replied" /\ Abandoned(c)
          /\ WriteUnlock(c, SlotOfFrame(Main(c)))
      BY <2>1, Zenon DEF Abandon, ParentReplied, At
    <3>2. SlotOfFrame(Main(c)) \notin wheld'[c]
      BY <1>1, <3>1, SMTT(30) DEF WriteUnlock
    <3>3. s.type = IF m.type = "RENAME" THEN "REMOVEMETA" ELSE "READDIRECTORYMETA"
      BY <1>1, <3>1, Zenon DEF ChainOf, Chain, Control
    <3>4. ~Owing(Sub(c))
      BY <3>1, <3>3, Zenon DEF Owing, Owes, Abandoned, Creates
    <3> QED
      BY <1>2, <3>2, <3>4, Zenon DEF Settles
  <2>2. CASE ~Abandon(c)
    <3>1. /\ pc[Main(c)] \in {"body", "call", "commit"} /\ m.type \in WriteTypes
          /\ pc'[Main(c)] \in {"call", "commit", "apply"}
      <4>1. AsksParent(c) \/ Continues(c) \/ Commits(c) \/ Committed(c)
        BY <2>2, Zenon DEF ParentStep
      <4>2. \E l \in {"call", "commit", "apply"} : \E k : pc' = [pc EXCEPT ![Main(c)] = l, ![Sub(c)] = k]
        BY <4>1, Zenon DEF AsksParent, Continues, Commits, Committed, LeaveParent, CallParent
      <4>3. pc'[Main(c)] \in {"call", "commit", "apply"}
        BY <1>1, <1>2, <4>2, Zenon DEF Domains
      <4>4. \/ pc[Main(c)] = "body" /\ m.type \in CompoundTypes
            \/ pc[Main(c)] \in {"call", "commit"}
        BY <4>1, Zenon DEF AsksParent, Continues, Commits, Committed, ParentReplied, At
      <4>5. m.type \in CompoundTypes
        BY <4>4, ControlOf, ZenonT(30)
      <4> QED
        BY <4>3, <4>4, <4>5, Zenon DEF WriteTypes
    <3>2. Owing(Main(c))'
      BY <1>6, <3>1, SMTT(30) DEF Owing, Owes
    <3>3. Settles(Main(c))
      BY <2>0, <3>2, Zenon DEF Settles
    <3>4. Settles(Sub(c))
      <4>1. CASE AsksParent(c)
        <5>1. pc[Main(c)] = "body"
          BY <4>1, Zenon DEF AsksParent, At
        <5>2. pc[Sub(c)] = "none"
          BY <5>1, ControlOf, ZenonT(30)
        <5> QED
          BY <5>2, SMTT(30) DEF Settles, Owing, Owes
      <4>2. CASE Continues(c)
        <5>1. pc[Main(c)] = "call" /\ m.type # "RENAME" /\ pc[Sub(c)] = "replied"
          BY <4>2, Zenon DEF Continues, ParentReplied, At
        <5>2. s.type = "READDIRECTORYMETA"
          BY <5>1, ControlOf, ZenonT(30)
        <5> QED
          BY <5>1, <5>2, SMTT(30) DEF Settles, Owing, Owes
      <4>3. CASE Committed(c)
        <5>1. pc[Main(c)] = "commit" /\ pc[Sub(c)] = "replied"
          BY <4>3, Zenon DEF Committed, ParentReplied, At
        <5>2. s.type = "DOCOMMIT"
          BY <5>1, ControlOf, SMTT(30)
        <5> QED
          BY <5>1, <5>2, SMTT(30) DEF Settles, Owing, Owes
      <4>4. CASE Commits(c)
        <5>1. CallParent(c, "commit", Msg("DOCOMMIT", s.path, reply[Sub(c)].val))
          BY <4>4, Zenon DEF Commits
        <5>2. /\ msg'[Sub(c)] = Msg("DOCOMMIT", s.path, reply[Sub(c)].val)
              /\ pc'[Sub(c)] \in {EntryPc("DOCOMMIT"), "queued"}
          BY <1>1, <1>2, <5>1, Zenon DEF CallParent, Msg, Domains
        <5>3. EntryPc("DOCOMMIT") = "body"
          BY Zenon DEF EntryPc, ReadTypes, WriteTypes, CompoundTypes
        <5>4. msg'[Sub(c)].type = "DOCOMMIT" /\ msg'[Sub(c)].path = s.path
          BY <5>2, SMTT(30) DEF Msg
        <5>5. Owing(Sub(c))' /\ SlotOfFrame(Sub(c))' = SlotOfFrame(Sub(c))
          BY <5>2, <5>3, <5>4, ZenonT(30) DEF Owing, Owes, SlotOfFrame
        <5> QED
          BY <5>5, Zenon DEF Settles
      <4> QED
        BY <2>2, <4>1, <4>2, <4>3, <4>4, ZenonT(30) DEF ParentStep
    <3> QED
      BY <3>3, <3>4, Zenon
  <2> QED
    BY <2>1, <2>2
<1>8. \A b \in Client \ {c} : Frozen(Main(b)) /\ Frozen(Sub(b))
  BY <1>4, Frames, SMTT(30)
<1> QED
  BY <1>3, <1>5, <1>7, <1>8, ZenonT(30) DEF Settled

(* Every step keeps the locks accounted for. *)
LEMMA NextAccounted == Inv /\ Accounted /\ [FrameNext]_callVars => Accounted' /\ forgotten \subseteq forgotten'
<1> SUFFICES ASSUME Inv, Accounted, [FrameNext]_callVars PROVE Accounted' /\ forgotten \subseteq forgotten'
  OBVIOUS
<1>1. CASE \E c \in Client : ClientStep(c) \/ ParentStep(c)
  BY <1>1, ClientSettled, ParentSettled, SettledKeeps, Zenon
<1>2. CASE \E f \in Frame : LockStep(f) \/ HandlerStep(f)
  BY <1>2, LockSettled, HandlerSettled, FrameFacts, SettledKeeps, Zenon
<1>3. CASE \E t \in Thread : RequestPoller(t)
  <2>1. PICK t \in DOMAIN cq : RequestPoller(t)
    BY <1>3, Zenon DEF Inv, Queues
  <2> QED
    BY <2>1, PollSettled, SettledKeeps, Zenon
<1>4. CASE UNCHANGED callVars
  <2>1. UNCHANGED <<wheld, pc, msg, reply, forgotten>>
    BY <1>4 DEF callVars, lockVars, frameVars
  <2> QED
    BY <2>1, ZenonT(30) DEF Accounted, Owing, SlotOfFrame
<1> QED
  BY <1>1, <1>2, <1>3, <1>4, Zenon DEF FrameNext

(* Every step keeps the counts of the words it does not forget. *)
LEMMA NextWords ==
  ASSUME Inv, Words, WordStep, forgotten \subseteq forgotten'
  PROVE  Words'
<1>1. KeyInv
  BY DEF Inv
<1> SUFFICES ASSUME NEW s \in Slot, s \notin forgotten'
             PROVE  Exact(s)'
  BY Zenon DEF Words
<1>2. Exact(s)
  BY Zenon DEF Words
<1>3. CASE [LockNext]_lockVars
  BY <1>1, <1>2, <1>3, LockNextInv, Zenon
<1>4. CASE \E r \in Slot \cap forgotten' : StrayUnlock(r)
  BY <1>1, <1>2, <1>4, StrayUnlockInv, Zenon
<1> QED
  BY <1>3, <1>4, Zenon DEF WordStep

(* A client between operations has no frame that could owe a lock or read. *)
LEMMA InvReturned == Inv /\ Accounted /\ Words => LocksReturned
<1> SUFFICES ASSUME Inv, Accounted, Words PROVE LocksReturned
  OBVIOUS
<1>1. KeyInv
  BY DEF Inv
<1>2. ASSUME NEW c \in Client, prog[c].op = "idle"
      PROVE  wheld[c] \subseteq forgotten /\ rheld[c] = {} /\ rspin[c] = {}
  <2>1. pc[Main(c)] = "none" /\ ChainOf(c)
    BY <1>2, Zenon DEF Inv, Program
  <2>2. Chain("none", msg[Main(c)], pc[Sub(c)], msg[Sub(c)], wheld[c], rheld[c], rspin[c])
    BY <2>1, Zenon DEF ChainOf
  <2>3. pc[Sub(c)] = "none" /\ rheld[c] = {} /\ rspin[c] = {}
    BY <2>2, ChainNone, ZenonT(30)
  <2>4. ~Owing(Main(c)) /\ ~Owing(Sub(c))
    BY <2>1, <2>3, SMTT(30) DEF Owing, Owes
  <2>5. wheld[c] \subseteq forgotten
    BY <2>4, Zenon DEF Accounted
  <2> QED
    BY <2>3, <2>5
<1>3. ASSUME \A c \in Client : prog[c].op = "idle", NEW s \in Slot, s \notin forgotten
      PROVE  ~Busy(s)
  <2>1. \A a \in Client : s \notin wheld[a] /\ s \notin rheld[a] /\ s \notin rspin[a]
    BY <1>2, <1>3, SMTT(30)
  <2> QED
    BY <1>1, <1>3, <2>1, Unannounced, ZenonT(30) DEF Words
<1>4. \A c \in Client : prog[c].op = "idle" => wheld[c] \cup rheld[c] \cup rspin[c] \subseteq forgotten
  BY <1>2, SMTT(30)
<1>5. (\A c \in Client : prog[c].op = "idle") => \A s \in Slot \ forgotten : ~Busy(s)
  BY <1>3, Zenon
<1> QED
  BY <1>4, <1>5, Zenon DEF LocksReturned

(* Initially there are no locks to account for. *)
LEMMA InitAccounted == FramesInit => Accounted /\ Words
<1>1. FramesInit => Accounted
  BY DEF FramesInit, LockInit, Accounted
<1>2. FramesInit => Words
  BY LockInitInv, Zenon DEF FramesInit, LockInv, Words
<1> QED
  BY <1>1, <1>2

(* FramesReturned: a client between operations has no lock but forgotten   *)
(* ones, and when all clients are, every other lock word is 0.             *)
THEOREM FramesReturned == FrameSpec => []LocksReturned
<1>1. FramesInit => Inv /\ Accounted /\ Words
  BY InitInv, InitAccounted
<1>2. Inv /\ Accounted /\ Words /\ [FrameNext]_callVars => Inv' /\ Accounted' /\ Words'
  BY NextInv, NextAccounted, NextWords, Zenon
<1>3. Inv /\ Accounted /\ Words => LocksReturned
  BY InvReturned
<1> QED
  BY <1>1, <1>2, <1>3, PTL DEF FrameSpec

==============================================================================
