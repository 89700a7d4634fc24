---------------------------- MODULE OctopusProofs ----------------------------
(***************************************************************************)
(* The calls implement NameService; Octopus implements the protocol of the *)
(* calls, so that what is proved of FrameSpec holds of the file system;    *)
(* and its tables give no two paths the same item.                         *)
(***************************************************************************)
EXTENDS Octopus, OctoFramesProofs

(***************************************************************************)
(* The check a handler makes of its path and the change it makes later,    *)
(* after calls to the server of the parent, act as one step, because the   *)
(* write lock of the path is held in between.  First the refinement        *)
(* mapping, the invariant it needs and the handlers that end with a reply, *)
(* then the steps inside a handler and the theorem.                        *)
(***************************************************************************)

(* What a handler has found out about its path and still relies on. *)
Ready(p, m, P) ==
  /\ p = "apply" /\ Creates(m) => m.path \notin P
  /\ p \in {"call", "commit", "apply"} /\ m.type \in {"REMOVE", "RENAME"} => m.path \in P

ReadyOf(c) == Ready(pc[Main(c)], msg[Main(c)], DOMAIN hashtable)

NameInv == \A c \in Client : ReadyOf(c)

(* A client as the name service sees it does not move. *)
SameMain(b) ==
  /\ pc'[Main(b)] = pc[Main(b)] /\ msg'[Main(b)] = msg[Main(b)] /\ reply'[Main(b)] = reply[Main(b)]

Asked(c) == pc[Main(c)] \notin {"none", "replied"}

NamesStep == [Names!Next]_<<DOMAIN hashtable, callBar>>

-----------------------------------------------------------------------------
(* The call of one client, and the calls of all others. *)
LEMMA CallBar ==
  /\ DOMAIN callBar = Client
  /\ \A c \in Client :
       /\ pc[Main(c)] = "none" => callBar[c] = Names!NoCall
       /\ Asked(c) => callBar[c] = Names!Asked(Asks(msg[Main(c)]))
       /\ pc[Main(c)] = "replied" => callBar[c] = Names!Answered(Asks(msg[Main(c)]), reply[Main(c)].ok)
BY DEF callBar, Asked, Names!NoCall, Names!Asked, Names!Answered

LEMMA CallBarPrime ==
  /\ callBar' = [c \in Client |-> callBar'[c]]
  /\ \A c \in Client :
       /\ SameMain(c) => callBar'[c] = callBar[c]
       /\ pc'[Main(c)] = "none" => callBar'[c] = Names!NoCall
       /\ pc'[Main(c)] \notin {"none", "replied"} => callBar'[c] = Names!Asked(Asks(msg'[Main(c)]))
       /\ pc'[Main(c)] = "replied" => callBar'[c] = Names!Answered(Asks(msg'[Main(c)]), reply'[Main(c)].ok)
<1>1. callBar' = [c \in Client |-> callBar'[c]]
  BY Zenon DEF callBar
<1>2. ASSUME NEW c \in Client, SameMain(c)
      PROVE  callBar'[c] = callBar[c]
  BY <1>2, Zenon DEF callBar, SameMain, Asks, Kind
<1>3. ASSUME NEW c \in Client
      PROVE  /\ pc'[Main(c)] = "none" => callBar'[c] = Names!NoCall
             /\ pc'[Main(c)] \notin {"none", "replied"} => callBar'[c] = Names!Asked(Asks(msg'[Main(c)]))
             /\ pc'[Main(c)] = "replied" => callBar'[c] = Names!Answered(Asks(msg'[Main(c)]), reply'[Main(c)].ok)
  BY Zenon DEF callBar, Asks, Kind, Names!NoCall, Names!Asked, Names!Answered
<1> QED
  BY <1>1, <1>2, <1>3, ZenonT(30)

(* Steps the name service does not see. *)
LEMMA Unseen ==
  ASSUME UNCHANGED hashtable,
         \A b \in Client : SameMain(b) \/
            (Asked(b) /\ Asked(b)' /\ msg'[Main(b)] = msg[Main(b)])
  PROVE  NamesStep
<1>1. \A b \in Client : callBar'[b] = callBar[b]
  BY CallBar, CallBarPrime, ZenonT(30) DEF Asked
<1>2. callBar' = callBar
  BY <1>1, CallBarPrime, Zenon DEF callBar
<1> QED
  BY <1>2 DEF NamesStep

(* A step after which client c sees x. *)
LEMMA SeenExcept ==
  ASSUME NEW c \in Client, \A b \in Client \ {c} : SameMain(b)
  PROVE  callBar' = [callBar EXCEPT ![c] = callBar'[c]]
<1>1. \A b \in Client \ {c} : callBar'[b] = callBar[b]
  BY CallBarPrime
<1>2. callBar = [b \in Client |-> callBar[b]]
  BY DEF callBar
<1> QED
  BY <1>1, <1>2, CallBarPrime, Zenon

(* The reply to a request: possible, and with its effect. *)
LEMMA AnswerSeen ==
  ASSUME NEW c \in Client, \A b \in Client \ {c} : SameMain(b),
         Asked(c), pc'[Main(c)] = "replied", msg'[Main(c)] = msg[Main(c)],
         NEW ok \in BOOLEAN, reply'[Main(c)].ok = ok,
         Names!Possible(Asks(msg[Main(c)]), ok),
         DOMAIN hashtable' = IF ok THEN Names!Effect(Asks(msg[Main(c)])) ELSE DOMAIN hashtable
  PROVE  NamesStep
<1> DEFINE m == Asks(msg[Main(c)])
<1>1. callBar[c] = Names!Asked(m) /\ callBar'[c] = Names!Answered(m, ok)
  BY CallBar, CallBarPrime, ZenonT(30)
<1>2. callBar' = [callBar EXCEPT ![c] = Names!Answered(m, ok)]
  BY <1>1, SeenExcept, ZenonT(30)
<1>3. callBar[c].state = "asked" /\ callBar[c].asks = m
  BY <1>1 DEF Names!Asked
<1> HIDE DEF m
<1>4. Names!Answer(c)
  BY <1>2, <1>3, Zenon DEF Names!Answer, m
<1> QED
  BY <1>4, Zenon DEF NamesStep, Names!Next

(* A path whose lock another client has is not the one b relies on. *)
LEMMA ReadyOther ==
  ASSUME Inv, NameInv, NEW a \in Client, NEW p, SlotOf[p] \in wheld[a],
         DOMAIN hashtable' \ {p} = DOMAIN hashtable \ {p},
         NEW b \in Client \ {a}, SameMain(b)
  PROVE  ReadyOf(b)'
<1> DEFINE m == msg[Main(b)]
<1>1. ChainOf(b) /\ ReadyOf(b) /\ \A s \in wheld[a] : s \notin wheld[b]
  BY Zenon DEF Inv, NameInv, KeyInv
<1>2. pc[Main(b)] \in {"call", "commit", "apply"} => SlotOf[m.path] \in wheld[b]
  BY <1>1, Zenon DEF ChainOf, Chain, Control, Held, WriteTypes
<1>3. pc[Main(b)] \in {"call", "commit", "apply"} => m.path # p
  BY <1>1, <1>2, ZenonT(30)
<1> QED
  BY <1>1, <1>3, ZenonT(30) DEF ReadyOf, Ready, SameMain

(* A step that leaves the hash table alone cannot disturb another client. *)
LEMMA ReadySame ==
  ASSUME NameInv, UNCHANGED hashtable, NEW b \in Client, SameMain(b)
  PROVE  ReadyOf(b)'
BY DEF NameInv, ReadyOf, SameMain

(* What the end of a handler changes. *)
LEMMA FinishFacts ==
  ASSUME Inv, NEW f \in Frame, NEW r, Finish(f, r), pc[f] \in {"body", "apply"}
  PROVE  /\ \A b \in Client : Main(b) # f => SameMain(b)
         /\ pc'[f] = "replied" /\ msg'[f] = msg[f] /\ reply'[f] = r
<1>1. Domains
  BY DEF Inv
<1> QED
  BY <1>1, Frames, Zenon DEF Finish, Domains, SameMain

(* The end of a handler that has not changed the hash table. *)
LEMMA FinishNames ==
  ASSUME Inv, NameInv, NEW f \in Frame, NEW r, Finish(f, r), pc[f] \in {"body", "apply"},
         UNCHANGED hashtable, r.ok \in BOOLEAN,
         Names!Possible(Asks(msg[f]), r.ok),
         r.ok => Names!Effect(Asks(msg[f])) = DOMAIN hashtable
  PROVE  NamesStep /\ NameInv'
<1>1. PICK c \in Client : c = f[1]
  BY FrameFacts, Zenon
<1>2. f = Main(c) \/ f = Sub(c)
  BY <1>1, FrameFacts, ZenonT(30)
<1>3. CASE f = Sub(c)
  <2>1. \A b \in Client : SameMain(b)
    BY <1>3, Frames, FinishFacts, SMTT(30)
  <2> QED
    BY <2>1, Unseen, ReadySame, ZenonT(30) DEF NameInv
<1>4. CASE f = Main(c)
  <2>1. /\ \A b \in Client \ {c} : SameMain(b)
        /\ pc'[Main(c)] = "replied" /\ msg'[Main(c)] = msg[Main(c)] /\ reply'[Main(c)] = r
    BY <1>4, Frames, FinishFacts, SMTT(30)
  <2>2. NamesStep
    BY <1>4, <2>1, AnswerSeen, ZenonT(30) DEF Asked
  <2>3. \A b \in Client : ReadyOf(b)'
    BY <2>1, ReadySame, ZenonT(30) DEF ReadyOf, Ready
  <2> QED
    BY <2>2, <2>3, ZenonT(30) DEF NameInv
<1> QED
  BY <1>2, <1>3, <1>4, ZenonT(30)

(* The end of a handler that may have changed the entry of its path, which *)
(* it has locked.                                                          *)
LEMMA ChangeNames ==
  ASSUME Inv, NameInv, NEW c \in Client, NEW r, Finish(Main(c), r), r.ok \in BOOLEAN,
         \/ pc[Main(c)] = "apply"
         \/ pc[Main(c)] = "body" /\ msg[Main(c)].type = "MKNODWITHMETA",
         Names!Possible(Asks(msg[Main(c)]), r.ok),
         DOMAIN hashtable' = IF r.ok THEN Names!Effect(Asks(msg[Main(c)])) ELSE DOMAIN hashtable
  PROVE  NamesStep /\ NameInv'
<1> DEFINE p == msg[Main(c)].path
<1>1. /\ \A b \in Client \ {c} : SameMain(b)
      /\ pc'[Main(c)] = "replied" /\ msg'[Main(c)] = msg[Main(c)] /\ reply'[Main(c)] = r
  BY Frames, FinishFacts
<1>2. NamesStep
  <2>1. Asked(c)
    BY DEF Asked
  <2>2. PICK ok \in BOOLEAN : ok = r.ok
    OBVIOUS
  <2> QED
    BY <1>1, <2>1, <2>2, AnswerSeen, ZenonT(30)
<1>3. SlotOf[p] \in wheld[c]
  BY Zenon DEF Inv, ChainOf, Chain, Control, Held, WriteTypes
<1>4. DOMAIN hashtable' \ {p} = DOMAIN hashtable \ {p}
  BY Zenon DEF Names!Effect, Asks
<1>5. \A b \in Client : ReadyOf(b)'
  BY <1>1, <1>3, <1>4, ReadyOther, ZenonT(30) DEF ReadyOf, Ready
<1> QED
  BY <1>2, <1>5, ZenonT(30) DEF NameInv

-----------------------------------------------------------------------------
LEMMA ReplyOk == \A ok \in BOOLEAN : \A x : Reply(ok, x).ok = ok
BY DEF Reply

(* The handlers, by what they do to names: nothing at all ... *)
LEMMA OtherNames ==
  ASSUME Inv, NameInv, NEW f \in Frame, NEW r, Finish(f, r), pc[f] = "body", UNCHANGED hashtable,
         Kind(msg[f].type) = "other", r.ok \in BOOLEAN
  PROVE  NamesStep /\ NameInv'
<1>1. Names!Possible(Asks(msg[f]), r.ok) /\ Names!Effect(Asks(msg[f])) = DOMAIN hashtable
  BY DEF Names!Possible, Names!Effect, Asks
<1> QED
  BY <1>1, FinishNames, ZenonT(30)

LEMMA StoreNames ==
  ASSUME Inv, NameInv, NEW f \in Frame,
         \/ Ends(f) /\ msg[f].type \notin CompoundTypes
         \/ Prepares(f)
         \/ Frees(f)
         \/ Strays(f)
  PROVE  NamesStep /\ NameInv'
<1>1. /\ pc[f] = "body" /\ UNCHANGED hashtable
      /\ msg[f].type \in {"EXTENTWRITE", "ADDMETA", "REMOVEMETA", "DOCOMMIT", "FREEBLOCK", "EMPTYREAD"}
  BY Zenon DEF Ends, Prepares, Frees, Strays, At
<1>2. Kind(msg[f].type) = "other"
  BY <1>1 DEF Kind
<1>3. \E ok \in BOOLEAN : \E x : Finish(f, Reply(ok, x))
  <2>1. CASE Ends(f)
    BY <2>1, Zenon DEF Ends
  <2>2. CASE Prepares(f)
    BY <2>2, Zenon DEF Prepares
  <2>3. CASE Frees(f)
    BY <2>3, ZenonT(30) DEF Frees
  <2>4. CASE Strays(f)
    BY <2>4, ZenonT(30) DEF Strays, NoReply
  <2> QED
    BY <2>1, <2>2, <2>3, <2>4, ZenonT(30)
<1>4. PICK ok, x : ok \in BOOLEAN /\ Finish(f, Reply(ok, x))
  BY <1>3
<1>5. Reply(ok, x).ok \in BOOLEAN
  BY <1>4, ReplyOk, ZenonT(30)
<1> QED
  BY <1>1, <1>2, <1>4, <1>5, OtherNames, ZenonT(30)

(* ... refuse the request, or say whether the path is there ... *)
LEMMA LookNames ==
  ASSUME Inv, NameInv, NEW f \in Frame, Looks(f)
  PROVE  NamesStep /\ NameInv'
<1> DEFINE m == msg[f]
<1>1. /\ pc[f] = "body" /\ m.type \in ReadTypes /\ UNCHANGED hashtable
      /\ \E ok \in BOOLEAN : \E x :
           Finish(f, Reply(ok, x)) /\ (m.type \in {"ACCESS", "GETATTR"} => (ok <=> Exists(m.path)))
  BY Zenon DEF Looks, At
<1>2. PICK ok, x :
        /\ ok \in BOOLEAN /\ Finish(f, Reply(ok, x))
        /\ m.type \in {"ACCESS", "GETATTR"} => (ok <=> Exists(m.path))
  BY <1>1, Zenon
<1>3. Reply(ok, x).ok = ok
  BY <1>2, ReplyOk, ZenonT(30)
<1>4. Kind(m.type) = IF m.type \in {"ACCESS", "GETATTR"} THEN "look up" ELSE "other"
  BY <1>1, ZenonT(30) DEF Kind, ReadTypes
<1>5. /\ Names!Possible(Asks(m), ok)
      /\ Names!Effect(Asks(m)) = DOMAIN hashtable
  BY <1>2, <1>4, ZenonT(30) DEF Names!Possible, Names!Effect, Asks, Exists
<1> QED
  BY <1>1, <1>2, <1>3, <1>5, FinishNames, ZenonT(30)

LEMMA RefuseNames ==
  ASSUME Inv, NameInv, NEW f \in Frame, Ends(f), msg[f].type \in CompoundTypes
  PROVE  NamesStep /\ NameInv'
<1>1. pc[f] = "body" /\ UNCHANGED hashtable /\ \E x : Finish(f, Reply(FALSE, x))
  BY Zenon DEF Ends, At
<1>2. PICK x : Finish(f, Reply(FALSE, x))
  BY <1>1, Zenon
<1>3. Reply(FALSE, x).ok = FALSE
  BY ReplyOk, ZenonT(30)
<1>4. Names!Possible(Asks(msg[f]), FALSE)
  BY DEF Names!Possible, Asks, Kind, CompoundTypes
<1> QED
  BY <1>1, <1>2, <1>3, <1>4, FinishNames, ZenonT(30)

(* ... create it or remove it. *)
LEMMA PathNames ==
  ASSUME Inv, NameInv, NEW f \in Frame, Makes(f) \/ Drops(f)
  PROVE  NamesStep /\ NameInv'
<1> DEFINE m == msg[f]
           p == m.path
<1>1. PICK c \in Client : c = f[1]
  BY FrameFacts, Zenon
<1>2. \/ pc[f] = "apply"
      \/ pc[f] = "body" /\ m.type = "MKNODWITHMETA"
  BY Zenon DEF Makes, Drops, At
<1>3. ChainOf(c) /\ (f = Main(c) \/ f = Sub(c)) /\ ReadyOf(c)
  BY <1>1, FrameFacts, ZenonT(30) DEF NameInv
<1>4. f = Main(c)
  BY <1>2, <1>3, ZenonT(30) DEF ChainOf, Chain, Control
<1>5. pc[f] = "apply" => m.type \in CompoundTypes
  BY <1>3, <1>4, ZenonT(30) DEF ChainOf, Chain, Control
<1>6. \E ok \in BOOLEAN : \E x :
        /\ Finish(f, Reply(ok, x))
        /\ Names!Possible(Asks(m), ok)
        /\ DOMAIN hashtable' = IF ok THEN Names!Effect(Asks(m)) ELSE DOMAIN hashtable
  <2>1. CASE Makes(f)
    <3>1. PICK ok, x :
            /\ ok \in BOOLEAN /\ Finish(f, Reply(ok, x))
            /\ m.type = "MKNODWITHMETA" /\ ok => ~Exists(p)
            /\ \E dir, i : hashtable' = IF ok THEN HashPut(p, dir, i) ELSE hashtable
      BY <2>1, Zenon DEF Makes
    <3>2. Kind(m.type) = "create"
      BY <2>1 DEF Makes, Creates, Kind
    <3>3. ok => p \notin DOMAIN hashtable
      BY <1>2, <1>3, <1>4, <2>1, <3>1, ZenonT(30) DEF ReadyOf, Ready, Exists, Makes, At
    <3>4. DOMAIN hashtable' = IF ok THEN DOMAIN hashtable \cup {p} ELSE DOMAIN hashtable
      BY <3>1, Zenon DEF HashPut
    <3> QED
      BY <3>1, <3>2, <3>3, <3>4, ZenonT(30) DEF Names!Possible, Names!Effect, Asks
  <2>2. CASE Drops(f)
    <3>1. /\ pc[f] = "apply" /\ ~Creates(m) /\ hashtable' = HashDel(p)
          /\ \E x : Finish(f, Reply(TRUE, x))
      BY <2>2, Zenon DEF Drops, At
    <3>2. m.type \in {"REMOVE", "RENAME"}
      BY <1>5, <3>1, ZenonT(30) DEF Creates, CompoundTypes
    <3>3. p \in DOMAIN hashtable
      BY <1>3, <1>4, <3>1, <3>2, ZenonT(30) DEF ReadyOf, Ready
    <3>4. DOMAIN hashtable' = DOMAIN hashtable \ {p}
      BY <3>1, Zenon DEF HashDel
    <3>5. Kind(m.type) = "remove"
      BY <3>2, ZenonT(30) DEF Kind
    <3> QED
      BY <3>1, <3>3, <3>4, <3>5, ZenonT(30) DEF Names!Possible, Names!Effect, Asks
  <2> QED
    BY <2>1, <2>2, ZenonT(30)
<1>7. PICK ok, x :
        /\ ok \in BOOLEAN
        /\ Finish(f, Reply(ok, x))
        /\ Names!Possible(Asks(m), ok)
        /\ DOMAIN hashtable' = IF ok THEN Names!Effect(Asks(m)) ELSE DOMAIN hashtable
  BY <1>6
<1>8. Reply(ok, x).ok = ok
  BY <1>7, ReplyOk
<1> QED
  BY <1>2, <1>4, <1>7, <1>8, ChangeNames, ZenonT(30)

-----------------------------------------------------------------------------
(* The main frame of c goes from one label of its handler to another. *)
LEMMA InsideNames ==
  ASSUME NameInv, NEW c \in Client, \A b \in Client \ {c} : SameMain(b), UNCHANGED hashtable,
         Asked(c), Asked(c)', msg'[Main(c)] = msg[Main(c)],
         Ready(pc'[Main(c)], msg[Main(c)], DOMAIN hashtable)
  PROVE  NamesStep /\ NameInv'
<1>1. NamesStep
  BY Unseen
<1>2. \A b \in Client \ {c} : ReadyOf(b)'
  BY ReadySame
<1>3. ReadyOf(c)'
  BY DEF ReadyOf
<1> QED
  BY <1>1, <1>2, <1>3, ZenonT(30) DEF NameInv

(* Workers take requests and locks. *)
LEMMA WorkerNames ==
  ASSUME Inv, NameInv, NEW f \in Frame, NEW l \in {"rlock", "wlock", "spin", "body"},
         pc' = [pc EXCEPT ![f] = l], pc[f] \notin {"none", "replied"},
         UNCHANGED <<msg, reply, hashtable>>
  PROVE  NamesStep /\ NameInv'
<1>1. PICK c \in Client : c = f[1]
  BY FrameFacts, ZenonT(30)
<1>2. f = Main(c) \/ f = Sub(c)
  BY <1>1, FrameFacts, ZenonT(30)
<1>3. Domains
  BY DEF Inv
<1>4. CASE f = Sub(c)
  <2>1. \A b \in Client : SameMain(b)
    BY <1>3, <1>4, Frames, ZenonT(30) DEF SameMain, Domains
  <2> QED
    BY <2>1, Unseen, ReadySame, ZenonT(30) DEF NameInv
<1>5. CASE f = Main(c)
  <2>1. (\A b \in Client \ {c} : SameMain(b)) /\ pc'[Main(c)] = l
    BY <1>3, <1>5, Frames, ZenonT(30) DEF SameMain, Domains
  <2>2. Ready(l, msg[Main(c)], DOMAIN hashtable)
    BY DEF Ready
  <2> QED
    BY <1>5, <2>1, <2>2, InsideNames, ZenonT(30) DEF Asked
<1> QED
  BY <1>2, <1>4, <1>5, ZenonT(30)

LEMMA ThreadNames ==
  ASSUME Inv, NameInv,
         \/ \E f \in Frame : LockStep(f)
         \/ \E t \in Thread : RequestPoller(t)
  PROVE  NamesStep /\ NameInv'
<1>1. ASSUME NEW f \in Frame, LockStep(f)
      PROVE  NamesStep /\ NameInv'
  <2>1. /\ pc[f] \in {"wlock", "rlock", "spin"} /\ UNCHANGED <<msg, reply, hashtable>>
        /\ \E l \in {"spin", "body"} : pc' = [pc EXCEPT ![f] = l]
    BY <1>1 DEF LockStep, LockForWriting, LockForReading, WriterGone, At
  <2> QED
    BY <2>1, WorkerNames, ZenonT(30)
<1>2. ASSUME NEW t \in Thread, RequestPoller(t)
      PROVE  NamesStep /\ NameInv'
  <2> DEFINE f == Head(cq[t])
             l == EntryPc(msg[f].type)
  <2>1. /\ cq[t] # <<>> /\ pc' = [pc EXCEPT ![f] = l] /\ cq' = [cq EXCEPT ![t] = Tail(@)]
        /\ UNCHANGED <<msg, reply, hashtable>>
    BY <1>2 DEF RequestPoller
  <2>2. f \in Waiting
    BY <1>2, <2>1, QueuesTail, ZenonT(30) DEF Inv, Queues
  <2>3. f \in Frame /\ pc[f] = "queued" /\ l \in {"rlock", "wlock", "spin", "body"}
    BY <2>2 DEF Waiting, EntryPc
  <2> HIDE DEF f, l
  <2> QED
    BY <2>1, <2>3, WorkerNames, ZenonT(30)
<1> QED
  BY <1>1, <1>2

(* The handlers that call the server of the parent. *)
LEMMA ParentNames ==
  ASSUME Inv, NameInv, NEW c \in Client,
         AsksParent(c) \/ Continues(c) \/ Commits(c) \/ Committed(c)
  PROVE  NamesStep /\ NameInv'
<1> DEFINE m == msg[Main(c)]
<1>1. Domains /\ ChainOf(c) /\ ReadyOf(c)
  BY SMTT(30) DEF Inv, NameInv
<1>2. /\ UNCHANGED hashtable /\ pc[Main(c)] \in {"body", "call", "commit"}
      /\ \E n : msg' = [msg EXCEPT ![Sub(c)] = n]
      /\ reply' = reply \/ reply' = [reply EXCEPT ![Sub(c)] = NoReply]
      /\ \E l \in {"call", "commit", "apply"} : \E k : pc' = [pc EXCEPT ![Main(c)] = l, ![Sub(c)] = k]
  <2>1. CASE AsksParent(c)
    BY <2>1, ZenonT(30) DEF AsksParent, CallParent, At
  <2>2. CASE Continues(c)
    BY <2>2, ZenonT(30) DEF Continues, LeaveParent, ParentReplied, At
  <2>3. CASE Commits(c)
    BY <2>3, ZenonT(30) DEF Commits, CallParent, ParentReplied, At
  <2>4. CASE Committed(c)
    BY <2>4, ZenonT(30) DEF Committed, LeaveParent, ParentReplied, At
  <2> QED
    BY <2>1, <2>2, <2>3, <2>4, ZenonT(30)
<1>3. (\A b \in Client \ {c} : SameMain(b)) /\ msg'[Main(c)] = m
  <2>1. PICK n : msg' = [msg EXCEPT ![Sub(c)] = n]
    BY <1>2, Zenon
  <2>2. PICK l, k : pc' = [pc EXCEPT ![Main(c)] = l, ![Sub(c)] = k]
    BY <1>2, Zenon
  <2>3. reply' = reply \/ reply' = [reply EXCEPT ![Sub(c)] = NoReply]
    BY <1>2, Zenon
  <2> QED
    BY <1>1, <2>1, <2>2, <2>3, Frames, ZenonT(30) DEF Domains, SameMain
<1>4. pc'[Main(c)] \in {"call", "commit", "apply"}
  <2>1. PICK l \in {"call", "commit", "apply"} : \E k : pc' = [pc EXCEPT ![Main(c)] = l, ![Sub(c)] = k]
    BY <1>2, Zenon
  <2>2. PICK k : pc' = [pc EXCEPT ![Main(c)] = l, ![Sub(c)] = k]
    BY <2>1, Zenon
  <2>3. pc'[Main(c)] = l
    BY <1>1, <2>2, Frames, ZenonT(30) DEF Domains
  <2> QED
    BY <2>3
<1>5. Ready(pc'[Main(c)], m, DOMAIN hashtable)
  <2>1. CASE AsksParent(c)
    <3>1. pc'[Main(c)] = "call"
      BY <1>1, <2>1, Frames, ZenonT(30) DEF AsksParent, CallParent, Domains
    <3>2. m.type \in {"REMOVE", "RENAME"} => m.path \in DOMAIN hashtable
      BY <2>1, ZenonT(30) DEF AsksParent, Exists
    <3> QED
      BY <3>1, <3>2, ZenonT(30) DEF Ready
  <2>2. CASE Continues(c)
    <3>1. Creates(m) => m.path \notin DOMAIN hashtable
      BY <2>2, ZenonT(60) DEF Continues, Abandoned, Exists
    <3>2. m.type \in {"REMOVE", "RENAME"} => m.path \in DOMAIN hashtable
      BY <1>1, <2>2, ZenonT(30) DEF Continues, ParentReplied, At, ReadyOf, Ready
    <3> QED
      BY <3>1, <3>2 DEF Ready
  <2>3. CASE Commits(c) \/ Committed(c)
    <3>1. m.type = "RENAME" /\ pc[Main(c)] \in {"call", "commit"}
      BY <1>1, <2>3, ZenonT(30) DEF Commits, Committed, ParentReplied, At, ChainOf, Chain, Control
    <3> QED
      BY <1>1, <3>1, ZenonT(30) DEF ReadyOf, Ready, Creates
  <2> QED
    BY <2>1, <2>2, <2>3, ZenonT(30)
<1> QED
  BY <1>2, <1>3, <1>4, <1>5, InsideNames, ZenonT(30) DEF Asked

LEMMA AbandonNames ==
  ASSUME Inv, NameInv, NEW c \in Client, Abandon(c)
  PROVE  NamesStep /\ NameInv'
<1>1. Domains /\ ChainOf(c)
  BY DEF Inv
<1>2. /\ pc[Main(c)] = "call" /\ UNCHANGED hashtable /\ msg' = [msg EXCEPT ![Sub(c)] = NoMsg]
      /\ pc' = [pc EXCEPT ![Main(c)] = "replied", ![Sub(c)] = "none"]
      /\ reply' = [reply EXCEPT ![Main(c)] = NoReply, ![Sub(c)] = NoReply]
  BY Zenon DEF Abandon, ParentReplied, At
<1>3. /\ \A b \in Client \ {c} : SameMain(b)
      /\ pc'[Main(c)] = "replied" /\ msg'[Main(c)] = msg[Main(c)] /\ reply'[Main(c)] = NoReply
  BY <1>1, <1>2, Frames, ZenonT(30) DEF Domains, SameMain
<1>4. NoReply.ok = FALSE
  BY ReplyOk, Zenon DEF NoReply
<1>5. msg[Main(c)].type \in CompoundTypes
  BY <1>1, <1>2, ZenonT(30) DEF ChainOf, Chain, Control
<1>6. Names!Possible(Asks(msg[Main(c)]), FALSE)
  BY <1>5, Zenon DEF Names!Possible, Asks, Kind, CompoundTypes
<1>7. NamesStep
  BY <1>2, <1>3, <1>4, <1>6, AnswerSeen, ZenonT(30) DEF Asked
<1>8. \A b \in Client : ReadyOf(b)'
  BY <1>2, <1>3, ReadySame, ZenonT(30) DEF ReadyOf, Ready
<1> QED
  BY <1>7, <1>8, ZenonT(30) DEF NameInv

-----------------------------------------------------------------------------
(* The client library: a call is made, or the operation returns. *)
LEMMA SendNames ==
  ASSUME Inv, Inv', NameInv, NEW c \in Client, NEW m, Send(c, m), UNCHANGED hashtable,
         \A b \in Client \ {c} : reply'[Main(b)] = reply[Main(b)],
         pc[Main(c)] \in {"none", "replied"}
  PROVE  NamesStep /\ NameInv'
<1>1. Domains /\ ChainOf(c)'
  BY ZenonT(30) DEF Inv
<1>2. (\A b \in Client \ {c} : SameMain(b)) /\ pc'[Main(c)] = "queued"
  BY <1>1, Frames, ZenonT(30) DEF Send, Domains, SameMain
<1>3. callBar'[c] = Names!Asked(Asks(msg'[Main(c)]))
  BY <1>2, CallBarPrime, ZenonT(30)
<1>4. callBar' = [callBar EXCEPT ![c] = Names!Asked(Asks(msg'[Main(c)]))]
  BY <1>2, <1>3, SeenExcept, ZenonT(30)
<1>5. callBar[c].state # "asked" /\ callBar'[c].state = "asked"
  <2>1. callBar[c].state # "asked"
    <3>1. CASE pc[Main(c)] = "none"
      BY <3>1, CallBar DEF Names!NoCall
    <3>2. CASE pc[Main(c)] = "replied"
      BY <3>2, CallBar DEF Names!Answered
    <3> QED
      BY <3>1, <3>2, ZenonT(30)
  <2>2. callBar'[c].state = "asked"
    BY <1>3 DEF Names!Asked
  <2> QED
    BY <2>1, <2>2, ZenonT(30)
<1>6. msg'[Main(c)].path \in Path
  BY <1>1, ZenonT(30) DEF ChainOf, Chain, Control
<1>7. Asks(msg'[Main(c)]) \in Names!Calls
  BY <1>6, ZenonT(30) DEF Asks, Kind, Names!Calls, Names!Kinds
<1>8. Names!Ask(c)
  BY <1>4, <1>5, <1>7, ZenonT(30) DEF Names!Ask
<1>9. \A b \in Client : ReadyOf(b)'
  BY <1>2, ReadySame, ZenonT(30) DEF ReadyOf, Ready
<1> QED
  BY <1>8, <1>9, ZenonT(30) DEF NamesStep, Names!Next, NameInv

LEMMA ClientNames ==
  ASSUME Inv, Inv', NameInv, NEW c \in Client, Start(c) \/ Proceed(c) \/ Return(c)
  PROVE  NamesStep /\ NameInv'
<1>1. Domains /\ Program(c) /\ UNCHANGED hashtable
  BY Zenon DEF Inv, Start, Proceed, Return
<1>2. CASE Start(c) \/ Proceed(c)
  <2>1. /\ \E m : Send(c, m)
        /\ reply' = reply \/ reply' = [reply EXCEPT ![Main(c)] = NoReply]
        /\ pc[Main(c)] \in {"none", "replied"}
    BY <1>1, <1>2, ZenonT(30) DEF Start, Proceed, Replied, Program
  <2>2. \A b \in Client \ {c} : reply'[Main(b)] = reply[Main(b)]
    BY <1>1, <2>1, Frames, ZenonT(30) DEF Domains
  <2> QED
    BY <1>1, <2>1, <2>2, SendNames, ZenonT(30)
<1>3. CASE Return(c)
  <2>1. /\ \A b \in Client \ {c} : SameMain(b)
        /\ pc[Main(c)] = "replied" /\ pc'[Main(c)] = "none"
    BY <1>1, <1>3, Frames, ZenonT(30) DEF Return, Replied, Domains, SameMain
  <2>2. callBar' = [callBar EXCEPT ![c] = Names!NoCall]
    BY <2>1, CallBarPrime, SeenExcept, ZenonT(30)
  <2>3. callBar[c].state = "answered"
    BY <2>1, CallBar DEF Names!Answered
  <2>4. Names!Leave(c)
    BY <1>1, <2>2, <2>3, ZenonT(30) DEF Names!Leave
  <2>5. \A b \in Client : ReadyOf(b)'
    BY <1>1, <2>1, ReadySame, ZenonT(30) DEF ReadyOf, Ready
  <2> QED
    BY <2>4, <2>5, ZenonT(30) DEF NamesStep, Names!Next, NameInv
<1> QED
  BY <1>2, <1>3, ZenonT(30)

-----------------------------------------------------------------------------
LEMMA InitNames == FramesInit => NameInv /\ Names!Init
<1> SUFFICES ASSUME FramesInit PROVE NameInv /\ Names!Init
  OBVIOUS
<1>1. \A c \in Client : pc[Main(c)] = "none"
  BY Frames, ZenonT(30) DEF FramesInit
<1>2. NameInv
  BY <1>1, ZenonT(30) DEF NameInv, ReadyOf, Ready
<1>3. callBar = [c \in Client |-> Names!NoCall]
  BY <1>1, CallBar, ZenonT(30) DEF callBar
<1>4. DOMAIN hashtable = {Root}
  BY DEF FramesInit
<1> QED
  BY <1>2, <1>3, <1>4, ZenonT(30) DEF Names!Init

LEMMA NextNames == Inv /\ Inv' /\ NameInv /\ [FrameNext]_callVars => NamesStep /\ NameInv'
<1> SUFFICES ASSUME Inv, Inv', NameInv, [FrameNext]_callVars PROVE NamesStep /\ NameInv'
  OBVIOUS
<1>1. CASE \E c \in Client : ClientStep(c)
  BY <1>1, ClientNames, ZenonT(30) DEF ClientStep
<1>2. CASE \E c \in Client : ParentStep(c)
  BY <1>2, ParentNames, AbandonNames, ZenonT(30) DEF ParentStep
<1>3. CASE \E f \in Frame : HandlerStep(f)
  BY <1>3, StoreNames, LookNames, RefuseNames, PathNames, ZenonT(30) DEF HandlerStep
<1>4. CASE (\E f \in Frame : LockStep(f)) \/ \E t \in Thread : RequestPoller(t)
  BY <1>4, ThreadNames, ZenonT(30)
<1>5. CASE UNCHANGED callVars
  <2>1. UNCHANGED <<pc, msg, reply, hashtable>>
    BY <1>5, ZenonT(30) DEF callVars, frameVars
  <2>2. \A b \in Client : SameMain(b)
    BY <2>1 DEF SameMain
  <2> QED
    BY <2>1, <2>2, Unseen, ReadySame, ZenonT(30) DEF NameInv
<1> QED
  BY <1>1, <1>2, <1>3, <1>4, <1>5, ZenonT(30) DEF FrameNext

(* FramesNames: the calls make a NameService.  A call of mknodcd, mkdircd,  *)
(* removecd or rename, which checks its path, calls another server and      *)
(* changes the path later, and a call of access or getattr, each take       *)
(* effect in one step, and a reply says what was true then.                 *)
THEOREM FramesNames == FrameSpec => ImplementsNames /\ []NameInv
<1>1. FramesInit => Inv /\ NameInv /\ Names!Init
  BY InitInv, InitNames, ZenonT(30)
<1>2. Inv /\ [FrameNext]_callVars => Inv'
  BY NextInv, ZenonT(30)
<1>3. Inv /\ Inv' /\ NameInv /\ [FrameNext]_callVars =>
        NameInv' /\ [Names!Next]_<<DOMAIN hashtable, callBar>>
  BY NextNames DEF NamesStep
<1> QED
  BY <1>1, <1>2, <1>3, PTL DEF FrameSpec, ImplementsNames, Names!Spec

------------------------------------------------------------------------------
(***************************************************************************)
(* Octopus implements the protocol of the calls, FrameSpec: every handler, *)
(* with all it does to its tables, is a step of OctoProtocol.  What has    *)
(* been proved of FrameSpec then holds of the file system.                 *)
(***************************************************************************)

(* What the handlers that read can reply. *)
LEMMA ReadReplies ==
  ASSUME NEW m, m.type \in ReadTypes
  PROVE  \E ok \in BOOLEAN : \E x :
           /\ ReadReply(m) = Reply(ok, x)
           /\ m.type \in {"ACCESS", "GETATTR"} => (ok <=> Exists(m.path))
<1>1. Exists(m.path) \in BOOLEAN
  BY DEF Exists
<1>2. CASE m.type = "ACCESS"
  <2>1. ReadReply(m) = Reply(Exists(m.path), <<>>)
    BY <1>2, ZenonT(30) DEF ReadReply
  <2> QED
    BY <1>1, <2>1, ZenonT(30)
<1>3. CASE m.type = "GETATTR"
  <2>1. ReadReply(m) = IF Exists(m.path) THEN Reply(TRUE, Attribute(m.path)) ELSE Reply(FALSE, <<>>)
    BY <1>3, ZenonT(30) DEF ReadReply, NoReply
  <2> QED
    BY <2>1, ZenonT(30)
<1>4. CASE m.type \in {"READDIR", "READDIRECTORYMETA"}
  <2>1. ReadReply(m) = IF IsDirectory(m.path)
                       THEN Reply(TRUE, [index |-> Index(m.path), entries |-> Entries(m.path)])
                       ELSE Reply(FALSE, <<>>)
    BY <1>4, ZenonT(30) DEF ReadReply, NoReply
  <2>2. m.type \notin {"ACCESS", "GETATTR"}
    BY <1>4
  <2> QED
    BY <2>1, <2>2, ZenonT(30)
<1>5. CASE m.type = "EXTENTREAD"
  <2>1. m.type \notin {"ACCESS", "GETATTR"}
    BY <1>5
  <2>2. ReadReply(m) = Reply(FALSE, <<>>) \/ \E x : ReadReply(m) = Reply(TRUE, x)
    BY <1>5, ZenonT(30) DEF ReadReply, NoReply
  <2> QED
    BY <2>1, <2>2, ZenonT(30)
<1> QED
  BY <1>2, <1>3, <1>4, <1>5, ZenonT(30) DEF ReadTypes

LEMMA ReadHandlerLooks == ASSUME NEW f, ReadHandler(f) PROVE Looks(f)
<1>1. PICK ok, x :
        /\ ok \in BOOLEAN /\ ReadReply(msg[f]) = Reply(ok, x)
        /\ msg[f].type \in {"ACCESS", "GETATTR"} => (ok <=> Exists(msg[f].path))
  BY ReadReplies DEF ReadHandler
<1> QED
  BY <1>1, ZenonT(30) DEF ReadHandler, Looks

(* Handlers that unlock and leave the names alone. *)
LEMMA StoreEnds ==
  ASSUME NEW f, ExtentWrite(f) \/ UpdateDirectoryMeta(f) \/ Refuse(f)
  PROVE  Ends(f)
<1>1. CASE ExtentWrite(f)
  <2>1. \E b, x : Finish(f, IF b THEN Reply(TRUE, x) ELSE NoReply)
    BY <1>1, Zenon DEF ExtentWrite
  <2>2. \E ok \in BOOLEAN : \E x : Finish(f, Reply(ok, x))
    BY <2>1, Zenon DEF NoReply
  <2>3. msg[f].type \notin CompoundTypes
    BY <1>1, ZenonT(30) DEF ExtentWrite, CompoundTypes
  <2> QED
    BY <1>1, <2>2, <2>3, ZenonT(30) DEF ExtentWrite, Ends
<1>2. CASE UpdateDirectoryMeta(f)
  <2>1. Exists(msg[f].path) \in BOOLEAN
    BY DEF Exists
  <2>2. \E ok \in BOOLEAN : \E x : Finish(f, Reply(ok, x))
    BY <1>2, <2>1, ZenonT(30) DEF UpdateDirectoryMeta
  <2>3. msg[f].type \notin CompoundTypes
    BY <1>2, Zenon DEF UpdateDirectoryMeta, CompoundTypes
  <2> QED
    BY <1>2, <2>2, <2>3, ZenonT(30) DEF UpdateDirectoryMeta, Ends
<1>3. CASE Refuse(f)
  BY <1>3, ZenonT(30) DEF Refuse, Ends, NoReply
<1> QED
  BY <1>1, <1>2, <1>3, ZenonT(30)

LEMMA PrepareDirectoryPrepares == ASSUME NEW f, PrepareDirectory(f) PROVE Prepares(f)
<1> DEFINE d == msg[f].path
           b == IsDirectory(d) /\ (msg[f].type = "ADDMETA" \/ msg[f].arg.name \in Range(Entries(d)))
           new == IF msg[f].type = "ADDMETA" THEN Append(Entries(d), msg[f].arg.name)
                  ELSE Without(Entries(d), msg[f].arg.name)
<1>1. /\ Finish(f, IF b THEN Reply(TRUE, [index |-> Index(d), entries |-> new]) ELSE NoReply)
      /\ forgotten' = IF b THEN forgotten ELSE forgotten \cup {SlotOfFrame(f)}
  BY Zenon DEF PrepareDirectory
<1> HIDE DEF b, new
<1>2. \E ok \in BOOLEAN : \E y :
        /\ Finish(f, Reply(ok, y))
        /\ forgotten' = IF ok THEN forgotten ELSE forgotten \cup {SlotOfFrame(f)}
  <2>1. CASE b
    BY <1>1, <2>1, ZenonT(30)
  <2>2. CASE ~b
    BY <1>1, <2>2, ZenonT(30) DEF NoReply
  <2> QED
    BY <2>1, <2>2, ZenonT(30)
<1> QED
  BY <1>2, ZenonT(30) DEF PrepareDirectory, Prepares

LEMMA BlockFreeFrees == ASSUME NEW f, BlockFree(f) PROVE Frees(f)
BY Zenon DEF BlockFree, Frees

LEMMA EmptyReadStrays == ASSUME NEW f, EmptyRead(f) PROVE Strays(f)
BY ZenonT(30) DEF EmptyRead, Strays

(* The path is created or removed. *)
LEMMA PathMakes ==
  ASSUME NEW f, MknodWithMeta(f) \/ CreatePath(f)
  PROVE  Makes(f)
<1>1. CASE MknodWithMeta(f)
  <2> DEFINE b == /\ ~Exists(msg[f].path) /\ ~Full(fileTable[NodeOf(msg[f].path)])
                  /\ HasRoom(msg[f].path)
  <2>1. /\ Finish(f, Reply(b, <<>>))
        /\ \E dir, i : hashtable' = IF b THEN HashPut(msg[f].path, dir, i) ELSE hashtable
    BY <1>1, ZenonT(30) DEF MknodWithMeta
  <2>2. b \in BOOLEAN /\ (b => ~Exists(msg[f].path))
    BY Zenon
  <2> HIDE DEF b
  <2> QED
    BY <1>1, <2>1, <2>2, ZenonT(30) DEF MknodWithMeta, Makes
<1>2. CASE CreatePath(f)
  <2> DEFINE dir == msg[f].type = "MKDIR"
             table == IF dir THEN dirTable[NodeOf(msg[f].path)] ELSE fileTable[NodeOf(msg[f].path)]
             b == ~Full(table) /\ HasRoom(msg[f].path)
  <2>1. /\ Finish(f, Reply(b, <<>>))
        /\ hashtable' = IF b THEN HashPut(msg[f].path, dir, Head(table.free)) ELSE hashtable
    BY <1>2, ZenonT(30) DEF CreatePath
  <2>2. b \in BOOLEAN
    BY Zenon
  <2>3. msg[f].type # "MKNODWITHMETA"
    BY <1>2, ZenonT(30) DEF CreatePath, Creates
  <2> HIDE DEF dir, table, b
  <2> QED
    BY <1>2, <2>1, <2>2, <2>3, ZenonT(30) DEF CreatePath, Makes
<1> QED
  BY <1>1, <1>2, ZenonT(30)

LEMMA RemovePathDrops == ASSUME NEW f, RemovePath(f) PROVE Drops(f)
BY ZenonT(30) DEF RemovePath, Drops

(* The server of the parent is asked and answered. *)
LEMMA WithParent ==
  ASSUME NEW c, ReadParent(c) \/ UpdateParent(c) \/ CommitParent(c)
  PROVE  ParentStep(c)
<1>1. CASE ReadParent(c)
  <2>1. msg[Main(c)].type \in {"REMOVE", "RENAME"} => Exists(msg[Main(c)].path)
    BY <1>1, ZenonT(30) DEF ReadParent, Admissible, IsFile, IsDirectory
  <2> QED
    BY <1>1, <2>1, ZenonT(30) DEF ReadParent, AsksParent, ParentStep
<1>2. CASE UpdateParent(c)
  BY <1>2, ZenonT(30) DEF UpdateParent, Continues, ParentStep
<1>3. CASE CommitParent(c)
  BY <1>3, ZenonT(30) DEF CommitParent, Commits, ParentStep
<1> QED
  BY <1>1, <1>2, <1>3, Zenon

LEMMA NextFrames == [Next]_vars => [FrameNext]_callVars
<1> SUFFICES ASSUME [Next]_vars PROVE FrameNext \/ UNCHANGED callVars
  OBVIOUS
<1>1. ASSUME NEW f \in Frame, Handler(f) PROVE FrameNext
  <2>1. LockStep(f) \/ HandlerStep(f)
    BY <1>1, ReadHandlerLooks, StoreEnds, PrepareDirectoryPrepares, BlockFreeFrees, EmptyReadStrays,
       PathMakes, RemovePathDrops, ZenonT(30) DEF Handler, Lock, LockStep, HandlerStep
  <2> QED
    BY <2>1, Zenon DEF FrameNext
<1>2. ASSUME NEW c \in Client,
             Go(c) \/ ReadParent(c) \/ UpdateParent(c) \/ CommitParent(c) \/ Start(c)
      PROVE  FrameNext
  <2>1. ClientStep(c) \/ ParentStep(c)
    BY <1>2, WithParent, ZenonT(30) DEF Go, ClientStep, ParentStep
  <2> QED
    BY <2>1, ZenonT(30) DEF FrameNext
<1>3. ASSUME NEW t \in Thread, Poll(t) PROVE FrameNext
  BY <1>3, ZenonT(30) DEF Poll, FrameNext
<1>4. ASSUME NEW l, Land(l) PROVE UNCHANGED callVars
  BY <1>4, Zenon DEF Land
<1>5. ASSUME UNCHANGED vars PROVE UNCHANGED callVars
  BY <1>5, ZenonT(30) DEF vars
<1> QED
  BY <1>1, <1>2, <1>3, <1>4, <1>5, ZenonT(30) DEF Next, Progress

-----------------------------------------------------------------------------
(***************************************************************************)
(* The tables and the hash table.  A free chain names each free item once, *)
(* every path has an item that is not in the chain, and no two paths of a  *)
(* server and a kind have the same.                                        *)
(***************************************************************************)
TableSound(t) ==
  /\ DOMAIN t = {"item", "free", "stuck"}
  /\ t.free \in Seq(DOMAIN t.item)
  /\ IsInjective(t.free)

Tables(T) == DOMAIN T = Node /\ \A n \in Node : TableSound(T[n])

TableFor(dir, n, D, F) == IF dir THEN D[n] ELSE F[n]

Owned(H, D, F) ==
  /\ DOMAIN H \subseteq Path
  /\ \A p \in DOMAIN H : H[p].index \in Saved(TableFor(H[p].dir, NodeOf(p), D, F))
  /\ \A p, q \in DOMAIN H :
       NodeOf(p) = NodeOf(q) /\ (H[p].dir <=> H[q].dir) /\ H[p].index = H[q].index => p = q

OwnInv == Tables(dirTable) /\ Tables(fileTable) /\ Owned(hashtable, dirTable, fileTable)

Grows(D, E) == \A n \in Node : Saved(D[n]) \subseteq Saved(E[n])

(* Table::create, Table::put and Table::remove on a sound table. *)
LEMMA CreateSound ==
  ASSUME NEW t, NEW v, TableSound(t)
  PROVE  /\ TableSound(TableCreate(t, v)) /\ Saved(t) \subseteq Saved(TableCreate(t, v))
         /\ ~Full(t) => Head(t.free) \notin Saved(t) /\ Head(t.free) \in Saved(TableCreate(t, v))
<1> DEFINE u == TableCreate(t, v)
<1>1. CASE Full(t)
  BY <1>1, ZenonT(30) DEF TableCreate, TableSound, Saved
<1>2. CASE ~Full(t)
  <2>1. /\ DOMAIN u = {"item", "free", "stuck"} /\ DOMAIN u.item = DOMAIN t.item
        /\ u.free = Tail(t.free)
    BY <1>2, ZenonT(30) DEF TableCreate, TableSound
  <2> HIDE DEF u
  <2>2. /\ Tail(t.free) \in Seq(DOMAIN t.item) /\ IsInjective(Tail(t.free))
        /\ Head(t.free) \in DOMAIN t.item /\ Head(t.free) \in Range(t.free)
        /\ Range(Tail(t.free)) \subseteq Range(t.free) \ {Head(t.free)}
    BY <1>2, ChainTail, ZenonT(30) DEF TableSound, Full
  <2>3. TableSound(u)
    BY <2>1, <2>2, ZenonT(30) DEF TableSound
  <2>4. /\ Saved(u) = DOMAIN t.item \ Range(Tail(t.free))
        /\ Saved(t) = DOMAIN t.item \ Range(t.free)
    BY <2>1, ZenonT(30) DEF Saved
  <2> QED
    BY <2>2, <2>3, <2>4, ZenonT(30) DEF u
<1> QED
  BY <1>1, <1>2, ZenonT(30)

LEMMA PutSound ==
  ASSUME NEW t, NEW i, NEW v, TableSound(t)
  PROVE  TableSound(TablePut(t, i, v)) /\ Saved(t) = Saved(TablePut(t, i, v))
<1>1. /\ DOMAIN TablePut(t, i, v) = {"item", "free", "stuck"} /\ TablePut(t, i, v).free = t.free
      /\ DOMAIN TablePut(t, i, v).item = DOMAIN t.item
  BY DEF TablePut, TableSound
<1> QED
  BY <1>1, ZenonT(30) DEF TableSound, Saved

LEMMA RemoveSound ==
  ASSUME NEW t, NEW x, TableSound(t)
  PROVE  TableSound(TableRemove(t, x)) /\ Saved(t) \ {x} \subseteq Saved(TableRemove(t, x))
<1> DEFINE u == TableRemove(t, x)
<1>1. CASE x \notin Saved(t)
  BY <1>1, ZenonT(30) DEF TableRemove
<1>2. CASE x \in Saved(t)
  <2>1. /\ DOMAIN u = {"item", "free", "stuck"} /\ u.item = t.item
        /\ u.free = <<x>> \o t.free
    BY <1>2, ZenonT(30) DEF TableRemove, TableSound
  <2> HIDE DEF u
  <2>2. x \in DOMAIN t.item /\ x \notin Range(t.free)
    BY <1>2, ZenonT(30) DEF Saved
  <2>3. /\ <<x>> \o t.free \in Seq(DOMAIN t.item) /\ IsInjective(<<x>> \o t.free)
        /\ Range(<<x>> \o t.free) \subseteq Range(t.free) \cup {x}
    BY <2>2, ChainFront, ZenonT(30) DEF TableSound
  <2>4. TableSound(u)
    BY <2>1, <2>3, ZenonT(30) DEF TableSound
  <2>5. /\ Saved(u) = DOMAIN t.item \ Range(<<x>> \o t.free)
        /\ Saved(t) = DOMAIN t.item \ Range(t.free)
    BY <2>1, ZenonT(30) DEF Saved
  <2> QED
    BY <2>3, <2>4, <2>5, ZenonT(30) DEF u
<1> QED
  BY <1>1, <1>2, ZenonT(30)

(* The tables of all servers when one of them changes. *)
LEMMA TablesSame == ASSUME NEW T PROVE Grows(T, T)
BY Zenon DEF Grows

LEMMA TablesPut ==
  ASSUME NEW T, NEW U, NEW n, NEW i, NEW v, Tables(T), U = [T EXCEPT ![n] = TablePut(@, i, v)]
  PROVE  Tables(U) /\ Grows(T, U)
<1>1. DOMAIN U = Node /\ \A m \in Node : U[m] = T[m] \/ U[m] = TablePut(T[m], i, v)
  BY DEF Tables
<1>2. ASSUME NEW m \in Node PROVE TableSound(U[m]) /\ Saved(T[m]) \subseteq Saved(U[m])
  <2>1. TableSound(T[m])
    BY Zenon DEF Tables
  <2>2. TableSound(TablePut(T[m], i, v)) /\ Saved(T[m]) = Saved(TablePut(T[m], i, v))
    BY <2>1, PutSound, ZenonT(30)
  <2> QED
    BY <1>1, <2>1, <2>2, ZenonT(30)
<1> QED
  BY <1>1, <1>2, ZenonT(30) DEF Tables, Grows

LEMMA TablesCreate ==
  ASSUME NEW T, NEW U, NEW n \in Node, NEW v, Tables(T), U = [T EXCEPT ![n] = TableCreate(@, v)]
  PROVE  /\ Tables(U) /\ Grows(T, U)
         /\ ~Full(T[n]) => Head(T[n].free) \notin Saved(T[n]) /\ Head(T[n].free) \in Saved(U[n])
<1>1. DOMAIN U = Node /\ U[n] = TableCreate(T[n], v) /\ \A m \in Node \ {n} : U[m] = T[m]
  BY DEF Tables
<1>2. \A m \in Node : TableSound(U[m]) /\ Saved(T[m]) \subseteq Saved(U[m])
  BY <1>1, CreateSound, ZenonT(30) DEF Tables
<1>3. ~Full(T[n]) => Head(T[n].free) \notin Saved(T[n]) /\ Head(T[n].free) \in Saved(U[n])
  BY <1>1, CreateSound, ZenonT(30) DEF Tables
<1> QED
  BY <1>1, <1>2, <1>3, ZenonT(30) DEF Tables, Grows

LEMMA TablesRemove ==
  ASSUME NEW T, NEW U, NEW n \in Node, NEW x, Tables(T), U = [T EXCEPT ![n] = TableRemove(@, x)]
  PROVE  /\ Tables(U)
         /\ \A m \in Node : \A i \in Saved(T[m]) : m # n \/ i # x => i \in Saved(U[m])
<1>1. DOMAIN U = Node /\ U[n] = TableRemove(T[n], x) /\ \A m \in Node \ {n} : U[m] = T[m]
  BY DEF Tables
<1>2. TableSound(U[n]) /\ Saved(T[n]) \ {x} \subseteq Saved(U[n])
  BY <1>1, RemoveSound, ZenonT(30) DEF Tables
<1> QED
  BY <1>1, <1>2, ZenonT(30) DEF Tables

(* The hash table, when tables grow or a path is put in. *)
LEMMA OwnedGrows ==
  ASSUME NEW H, NEW D, NEW F, NEW E, NEW G, Owned(H, D, F), Grows(D, E), Grows(F, G)
  PROVE  Owned(H, E, G)
<1>1. \A p \in DOMAIN H : NodeOf(p) \in Node
  BY NodeAssumption, ZenonT(30) DEF Owned
<1> QED
  BY <1>1, Zenon DEF Owned, Grows, TableFor

LEMMA OwnedPut ==
  ASSUME NEW H, NEW D, NEW F, NEW E, NEW G, Owned(H, D, F), Grows(D, E), Grows(F, G),
         NEW p \in Path, NEW dir, NEW i,
         i \notin Saved(TableFor(dir, NodeOf(p), D, F)), i \in Saved(TableFor(dir, NodeOf(p), E, G)),
         NEW K, K = [q \in DOMAIN H \cup {p} |-> IF q = p THEN [dir |-> dir, index |-> i] ELSE H[q]]
  PROVE  Owned(K, E, G)
<1>1. Owned(H, E, G)
  BY OwnedGrows, ZenonT(30)
<1>2. /\ DOMAIN K = DOMAIN H \cup {p} /\ K[p].dir = dir /\ K[p].index = i
      /\ \A q \in DOMAIN H \ {p} : K[q] = H[q]
  BY Zenon
<1>3. DOMAIN K \subseteq Path
  BY <1>2, ZenonT(30) DEF Owned
<1>4. \A q \in DOMAIN K : K[q].index \in Saved(TableFor(K[q].dir, NodeOf(q), E, G))
  BY <1>1, <1>2, ZenonT(30) DEF Owned
<1>5. ASSUME NEW q \in DOMAIN H \ {p}, NodeOf(p) = NodeOf(q), dir <=> H[q].dir, i = H[q].index
      PROVE  FALSE
  <2>1. TableFor(H[q].dir, NodeOf(q), D, F) = TableFor(dir, NodeOf(p), D, F)
    BY <1>5, Zenon DEF TableFor
  <2>2. H[q].index \in Saved(TableFor(H[q].dir, NodeOf(q), D, F))
    BY <1>5, ZenonT(30) DEF Owned
  <2> QED
    BY <1>5, <2>1, <2>2, ZenonT(30)
<1>6. ASSUME NEW a \in DOMAIN K, NEW b \in DOMAIN K, NodeOf(a) = NodeOf(b),
             K[a].dir <=> K[b].dir, K[a].index = K[b].index
      PROVE  a = b
  <2>1. CASE a # p /\ b # p
    BY <1>2, <1>6, <2>1, ZenonT(30) DEF Owned
  <2>2. CASE a = p /\ b # p
    BY <1>2, <1>5, <1>6, <2>2, ZenonT(30)
  <2>3. CASE a # p /\ b = p
    BY <1>2, <1>5, <1>6, <2>3, ZenonT(30)
  <2> QED
    BY <2>1, <2>2, <2>3, ZenonT(30)
<1> QED
  BY <1>3, <1>4, <1>6, ZenonT(30) DEF Owned

(* The handlers: metadata is written in place ... *)
LEMMA StoreOwns ==
  ASSUME OwnInv, UNCHANGED hashtable,
         UNCHANGED dirTable \/ \E n, i, v : dirTable' = [dirTable EXCEPT ![n] = TablePut(@, i, v)],
         UNCHANGED fileTable \/ \E n, i, v : fileTable' = [fileTable EXCEPT ![n] = TablePut(@, i, v)]
  PROVE  OwnInv'
<1>1. Tables(dirTable') /\ Grows(dirTable, dirTable')
  BY TablesPut, TablesSame, ZenonT(30) DEF OwnInv
<1>2. Tables(fileTable') /\ Grows(fileTable, fileTable')
  BY TablesPut, TablesSame, ZenonT(30) DEF OwnInv
<1>3. Owned(hashtable, dirTable', fileTable')
  BY <1>1, <1>2, OwnedGrows, ZenonT(30) DEF OwnInv
<1> QED
  BY <1>1, <1>2, <1>3, ZenonT(30) DEF OwnInv

(* ... a path is given a new item, if there is one ... *)
LEMMA CreateOwns ==
  ASSUME OwnInv, NEW p \in Path, NEW dir \in BOOLEAN, NEW v,
         dirTable' = IF dir THEN [dirTable EXCEPT ![NodeOf(p)] = TableCreate(@, v)] ELSE dirTable,
         fileTable' = IF dir THEN fileTable ELSE [fileTable EXCEPT ![NodeOf(p)] = TableCreate(@, v)],
         NEW t, t = TableFor(dir, NodeOf(p), dirTable, fileTable), NEW ok \in BOOLEAN, ok => ~Full(t),
         hashtable' = IF ok THEN HashPut(p, dir, Head(t.free)) ELSE hashtable
  PROVE  OwnInv'
<1>1. NodeOf(p) \in Node /\ Tables(dirTable) /\ Tables(fileTable) /\ Owned(hashtable, dirTable, fileTable)
  BY NodeAssumption, ZenonT(30) DEF OwnInv
<1>2. /\ Tables(dirTable') /\ Grows(dirTable, dirTable') /\ Tables(fileTable') /\ Grows(fileTable, fileTable')
      /\ ~Full(t) => /\ Head(t.free) \notin Saved(t)
                     /\ Head(t.free) \in Saved(TableFor(dir, NodeOf(p), dirTable', fileTable'))
  <2>1. CASE dir
    <3>1. dirTable' = [dirTable EXCEPT ![NodeOf(p)] = TableCreate(@, v)] /\ fileTable' = fileTable
      BY <2>1, ZenonT(30)
    <3>2. t = dirTable[NodeOf(p)] /\ TableFor(dir, NodeOf(p), dirTable', fileTable') = dirTable'[NodeOf(p)]
      BY <2>1, ZenonT(30) DEF TableFor
    <3>3. /\ Tables(dirTable') /\ Grows(dirTable, dirTable')
          /\ ~Full(dirTable[NodeOf(p)]) => /\ Head(dirTable[NodeOf(p)].free) \notin Saved(dirTable[NodeOf(p)])
             /\ Head(dirTable[NodeOf(p)].free) \in Saved(dirTable'[NodeOf(p)])
      BY <1>1, <3>1, TablesCreate, ZenonT(30)
    <3>4. Tables(fileTable') /\ Grows(fileTable, fileTable')
      BY <1>1, <3>1, TablesSame, ZenonT(30)
    <3> QED
      BY <3>2, <3>3, <3>4, ZenonT(30)
  <2>2. CASE ~dir
    <3>1. fileTable' = [fileTable EXCEPT ![NodeOf(p)] = TableCreate(@, v)] /\ dirTable' = dirTable
      BY <2>2, ZenonT(30)
    <3>2. t = fileTable[NodeOf(p)] /\ TableFor(dir, NodeOf(p), dirTable', fileTable') = fileTable'[NodeOf(p)]
      BY <2>2, ZenonT(30) DEF TableFor
    <3>3. /\ Tables(fileTable') /\ Grows(fileTable, fileTable')
          /\ ~Full(fileTable[NodeOf(p)]) => /\ Head(fileTable[NodeOf(p)].free) \notin Saved(fileTable[NodeOf(p)])
             /\ Head(fileTable[NodeOf(p)].free) \in Saved(fileTable'[NodeOf(p)])
      BY <1>1, <3>1, TablesCreate, ZenonT(30)
    <3>4. Tables(dirTable') /\ Grows(dirTable, dirTable')
      BY <1>1, <3>1, TablesSame, ZenonT(30)
    <3> QED
      BY <3>2, <3>3, <3>4, ZenonT(30)
  <2> QED
    BY <2>1, <2>2, ZenonT(30)
<1>3. CASE ~ok
  <2>1. hashtable' = hashtable
    BY <1>3, ZenonT(30)
  <2>2. Owned(hashtable, dirTable', fileTable')
    BY <1>1, <1>2, OwnedGrows
  <2> QED
    BY <1>2, <2>1, <2>2, ZenonT(30) DEF OwnInv
<1>4. CASE ok
  <2>1. hashtable' = [q \in DOMAIN hashtable \cup {p} |->
                        IF q = p THEN [dir |-> dir, index |-> Head(t.free)] ELSE hashtable[q]]
    BY <1>4, ZenonT(30) DEF HashPut
  <2>2. /\ Head(t.free) \notin Saved(TableFor(dir, NodeOf(p), dirTable, fileTable))
        /\ Head(t.free) \in Saved(TableFor(dir, NodeOf(p), dirTable', fileTable'))
        /\ Grows(dirTable, dirTable') /\ Grows(fileTable, fileTable')
        /\ Owned(hashtable, dirTable, fileTable)
    BY <1>1, <1>2, <1>4, ZenonT(30)
  <2>3. Owned(hashtable', dirTable', fileTable')
    BY <2>1, <2>2, OwnedPut
  <2> QED
    BY <1>2, <2>3, ZenonT(30) DEF OwnInv
<1> QED
  BY <1>3, <1>4, ZenonT(30)

(* ... or its item is freed and the path forgotten. *)
LEMMA RemoveOwns ==
  ASSUME OwnInv, NEW p,
         dirTable' = IF IsDirectory(p) THEN [dirTable EXCEPT ![NodeOf(p)] = TableRemove(@, Index(p))]
                     ELSE dirTable,
         fileTable' = IF IsFile(p) THEN [fileTable EXCEPT ![NodeOf(p)] = TableRemove(@, Index(p))]
                      ELSE fileTable,
         hashtable' = HashDel(p)
  PROVE  OwnInv'
<1>1. Tables(dirTable) /\ Tables(fileTable) /\ Owned(hashtable, dirTable, fileTable)
  BY Zenon DEF OwnInv
<1>2. \A q \in DOMAIN hashtable : NodeOf(q) \in Node
  BY <1>1, NodeAssumption, ZenonT(30) DEF Owned
<1>3. DOMAIN hashtable' = DOMAIN hashtable \ {p} /\ \A q \in DOMAIN hashtable' : hashtable'[q] = hashtable[q]
  BY ZenonT(30) DEF HashDel
<1>4. Tables(dirTable') /\ Tables(fileTable')
  <2>1. CASE IsDirectory(p)
    BY <1>1, <1>2, <2>1, TablesRemove, ZenonT(30) DEF IsDirectory, IsFile, Exists
  <2>2. CASE IsFile(p)
    BY <1>1, <1>2, <2>2, TablesRemove, ZenonT(30) DEF IsDirectory, IsFile, Exists
  <2>3. CASE ~IsDirectory(p) /\ ~IsFile(p)
    BY <1>1, <2>3, ZenonT(30)
  <2> QED
    BY <2>1, <2>2, <2>3, ZenonT(30)
<1>5. ASSUME NEW q \in DOMAIN hashtable \ {p}
      PROVE  hashtable[q].index \in Saved(TableFor(hashtable[q].dir, NodeOf(q), dirTable', fileTable'))
  <2>1. hashtable[q].index \in Saved(TableFor(hashtable[q].dir, NodeOf(q), dirTable, fileTable))
    BY <1>1, <1>5, ZenonT(30) DEF Owned
  <2>2. p \in DOMAIN hashtable =>
          \/ NodeOf(q) # NodeOf(p)
          \/ ~(hashtable[q].dir <=> hashtable[p].dir)
          \/ hashtable[q].index # Index(p)
    BY <1>1, <1>5, ZenonT(30) DEF Owned, Index
  <2>3. CASE hashtable[q].dir
    <3>1. hashtable[q].index \in Saved(dirTable[NodeOf(q)])
      BY <2>1, <2>3, ZenonT(30) DEF TableFor
    <3>2. hashtable[q].index \in Saved(dirTable'[NodeOf(q)])
      <4>1. CASE IsDirectory(p)
        <5>1. NodeOf(q) # NodeOf(p) \/ hashtable[q].index # Index(p)
          BY <2>2, <2>3, <4>1, ZenonT(30) DEF IsDirectory, Exists
        <5>2. NodeOf(p) \in Node /\ dirTable' = [dirTable EXCEPT ![NodeOf(p)] = TableRemove(@, Index(p))]
          BY <1>2, <4>1, ZenonT(30) DEF IsDirectory, Exists
        <5>3. \A m \in Node : \A i \in Saved(dirTable[m]) :
                m # NodeOf(p) \/ i # Index(p) => i \in Saved(dirTable'[m])
          BY <1>1, <5>2, TablesRemove, ZenonT(30)
        <5> QED
          BY <1>2, <3>1, <5>1, <5>3, ZenonT(30)
      <4>2. CASE ~IsDirectory(p)
        BY <3>1, <4>2, ZenonT(30)
      <4> QED
        BY <4>1, <4>2, ZenonT(30)
    <3> QED
      BY <2>3, <3>2, ZenonT(30) DEF TableFor
  <2>4. CASE ~hashtable[q].dir
    <3>1. hashtable[q].index \in Saved(fileTable[NodeOf(q)])
      BY <2>1, <2>4, ZenonT(30) DEF TableFor
    <3>2. hashtable[q].index \in Saved(fileTable'[NodeOf(q)])
      <4>1. CASE IsFile(p)
        <5>1. NodeOf(q) # NodeOf(p) \/ hashtable[q].index # Index(p)
          BY <2>2, <2>4, <4>1, ZenonT(30) DEF IsFile, Exists
        <5>2. NodeOf(p) \in Node /\ fileTable' = [fileTable EXCEPT ![NodeOf(p)] = TableRemove(@, Index(p))]
          BY <1>2, <4>1, ZenonT(30) DEF IsFile, Exists
        <5>3. \A m \in Node : \A i \in Saved(fileTable[m]) :
                m # NodeOf(p) \/ i # Index(p) => i \in Saved(fileTable'[m])
          BY <1>1, <5>2, TablesRemove, ZenonT(30)
        <5> QED
          BY <1>2, <3>1, <5>1, <5>3, ZenonT(30)
      <4>2. CASE ~IsFile(p)
        BY <3>1, <4>2, ZenonT(30)
      <4> QED
        BY <4>1, <4>2, ZenonT(30)
    <3> QED
      BY <2>4, <3>2, ZenonT(30) DEF TableFor
  <2> QED
    BY <2>3, <2>4, ZenonT(30)
<1>6. \A q \in DOMAIN hashtable \ {p} :
        hashtable[q].index \in Saved(TableFor(hashtable[q].dir, NodeOf(q), dirTable', fileTable'))
  BY <1>5, ZenonT(30)
<1>7. Owned(hashtable', dirTable', fileTable')
  <2>1. DOMAIN hashtable' \subseteq Path
    BY <1>1, <1>3, ZenonT(30) DEF Owned
  <2>2. \A q \in DOMAIN hashtable' :
          hashtable'[q].index \in Saved(TableFor(hashtable'[q].dir, NodeOf(q), dirTable', fileTable'))
    BY <1>3, <1>6, ZenonT(30)
  <2>3. ASSUME NEW a \in DOMAIN hashtable', NEW b \in DOMAIN hashtable', NodeOf(a) = NodeOf(b),
               hashtable'[a].dir <=> hashtable'[b].dir, hashtable'[a].index = hashtable'[b].index
        PROVE  a = b
    BY <1>1, <1>3, <2>3, ZenonT(30) DEF Owned
  <2> QED
    BY <2>1, <2>2, <2>3, ZenonT(30) DEF Owned
<1> QED
  BY <1>4, <1>7, ZenonT(30) DEF OwnInv

LEMMA SameOwns == ASSUME OwnInv, UNCHANGED <<hashtable, dirTable, fileTable>> PROVE OwnInv'
BY ZenonT(30) DEF OwnInv

LEMMA HandlerOwns ==
  ASSUME Inv, OwnInv, NEW f \in Frame, Handler(f)
  PROVE  OwnInv'
<1> DEFINE p == msg[f].path
<1>1. p \in Path
  BY FramePath, ZenonT(30)
<1>2. CASE Lock(f) \/ ReadHandler(f) \/ EmptyRead(f) \/ PrepareDirectory(f) \/ BlockFree(f) \/ Refuse(f)
  <2>1. UNCHANGED <<hashtable, dirTable, fileTable>>
    BY <1>2, ZenonT(30) DEF Lock, LockForWriting, LockForReading, WriterGone, ReadHandler, EmptyRead,
       PrepareDirectory, BlockFree, Refuse, storeVars, tableVars
  <2> QED
    BY <2>1, SameOwns, ZenonT(30)
<1>3. CASE ExtentWrite(f)
  <2>1. /\ UNCHANGED hashtable /\ UNCHANGED dirTable
        /\ UNCHANGED fileTable \/ \E n, i, v : fileTable' = [fileTable EXCEPT ![n] = TablePut(@, i, v)]
    BY <1>3, ZenonT(30) DEF ExtentWrite
  <2> QED
    BY <2>1, StoreOwns, ZenonT(30)
<1>4. CASE UpdateDirectoryMeta(f)
  <2>1. /\ UNCHANGED hashtable /\ UNCHANGED fileTable
        /\ UNCHANGED dirTable \/ \E n, i, v : dirTable' = [dirTable EXCEPT ![n] = TablePut(@, i, v)]
    BY <1>4, ZenonT(30) DEF UpdateDirectoryMeta
  <2> QED
    BY <2>1, StoreOwns, ZenonT(30)
<1>5. CASE MknodWithMeta(f)
  <2>1. CASE Exists(p)
    <3>1. UNCHANGED <<hashtable, dirTable, fileTable>>
      BY <1>5, <2>1, ZenonT(30) DEF MknodWithMeta
    <3> QED
      BY <3>1, SameOwns, Zenon
  <2>2. CASE ~Exists(p)
    <3> DEFINE ok == ~Full(fileTable[NodeOf(p)]) /\ HasRoom(p)
    <3>1. /\ dirTable' = dirTable
          /\ fileTable' = [fileTable EXCEPT ![NodeOf(p)] = TableCreate(@, msg[f].arg)]
          /\ hashtable' = IF ok THEN HashPut(p, FALSE, Head(fileTable[NodeOf(p)].free)) ELSE hashtable
      BY <1>5, <2>2, ZenonT(30) DEF MknodWithMeta
    <3>2. ok \in BOOLEAN /\ (ok => ~Full(fileTable[NodeOf(p)]))
      BY Zenon
    <3> HIDE DEF ok
    <3> QED
      BY <1>1, <3>1, <3>2, CreateOwns, ZenonT(30) DEF TableFor
  <2> QED
    BY <2>1, <2>2, ZenonT(30)
<1>6. CASE CreatePath(f)
  <2> DEFINE dir == msg[f].type = "MKDIR"
             t == TableFor(dir, NodeOf(p), dirTable, fileTable)
             v == IF dir THEN <<>> ELSE EmptyFile
             ok == ~Full(t) /\ HasRoom(p)
  <2>1. /\ dirTable' = IF dir THEN [dirTable EXCEPT ![NodeOf(p)] = TableCreate(@, v)] ELSE dirTable
        /\ fileTable' = IF dir THEN fileTable ELSE [fileTable EXCEPT ![NodeOf(p)] = TableCreate(@, v)]
        /\ hashtable' = IF ok THEN HashPut(p, dir, Head(t.free)) ELSE hashtable
    BY <1>6, ZenonT(30) DEF CreatePath, TableFor
  <2>2. dir \in BOOLEAN /\ ok \in BOOLEAN /\ (ok => ~Full(t))
    BY Zenon
  <2> HIDE DEF dir, v, ok
  <2> QED
    BY <1>1, <2>1, <2>2, CreateOwns, ZenonT(30)
<1>7. CASE RemovePath(f)
  BY <1>7, RemoveOwns, ZenonT(30) DEF RemovePath
<1> QED
  BY <1>2, <1>3, <1>4, <1>5, <1>6, <1>7, ZenonT(30) DEF Handler

LEMMA ClientOwns ==
  ASSUME OwnInv, NEW c,
         Go(c) \/ ReadParent(c) \/ UpdateParent(c) \/ CommitParent(c) \/ (Start(c) /\ UNCHANGED storeVars)
  PROVE  OwnInv'
<1>1. CASE UpdateParent(c)
  <2>1. /\ UNCHANGED hashtable /\ UNCHANGED fileTable
        /\ UNCHANGED dirTable \/ \E n, i, v : dirTable' = [dirTable EXCEPT ![n] = TablePut(@, i, v)]
    BY <1>1, ZenonT(30) DEF UpdateParent, LeaveParent
  <2> QED
    BY <2>1, StoreOwns, ZenonT(30)
<1>2. CASE ReadParent(c) \/ CommitParent(c)
  <2>1. UNCHANGED <<hashtable, dirTable, fileTable>>
    BY <1>2, ZenonT(30) DEF ReadParent, CommitParent, storeVars, tableVars
  <2> QED
    BY <2>1, SameOwns, ZenonT(30)
<1>3. CASE Go(c) \/ (Start(c) /\ UNCHANGED storeVars)
  <2>1. UNCHANGED <<hashtable, dirTable, fileTable>>
    BY <1>3, ZenonT(30) DEF Go, Start, Send, Proceed, Return, Abandon, Committed, LeaveParent, storeVars, tableVars
  <2> QED
    BY <2>1, SameOwns, Zenon
<1> QED
  BY <1>1, <1>2, <1>3, ZenonT(30)

LEMMA NextOwns == Inv /\ OwnInv /\ [Next]_vars => OwnInv'
<1> SUFFICES ASSUME Inv, OwnInv, [Next]_vars PROVE OwnInv'
  OBVIOUS
<1>1. ASSUME NEW t, Poll(t) PROVE OwnInv'
  <2>1. UNCHANGED <<hashtable, dirTable, fileTable>>
    BY <1>1, ZenonT(30) DEF Poll, RequestPoller, storeVars, tableVars
  <2> QED
    BY <2>1, SameOwns, ZenonT(30)
<1>2. ASSUME NEW l, Land(l) PROVE OwnInv'
  <2>1. /\ UNCHANGED hashtable /\ UNCHANGED fileTable
        /\ \E n, i, v : dirTable' = [dirTable EXCEPT ![n] = TablePut(@, i, v)]
    BY <1>2, ZenonT(30) DEF Land, callVars
  <2> QED
    BY <2>1, StoreOwns, ZenonT(30)
<1>3. ASSUME UNCHANGED vars PROVE OwnInv'
  BY <1>3, SameOwns, ZenonT(30) DEF vars, callVars, storeVars, tableVars
<1> QED
  BY <1>1, <1>2, <1>3, HandlerOwns, ClientOwns, ZenonT(30) DEF Next, Progress

LEMMA NewSound ==
  ASSUME NEW n \in Nat, NEW v
  PROVE  TableSound(NewTable(n, v)) /\ (n # 0 => ~Full(NewTable(n, v)) /\ Head(NewTable(n, v).free) = 0)
<1> DEFINE s == [i \in 1 .. n |-> i - 1]
<1>1. s \in Seq(0 .. n - 1) /\ Len(s) = n /\ DOMAIN s = 1 .. n
  OBVIOUS
<1>2. \A i \in DOMAIN s : s[i] = i - 1
  OBVIOUS
<1>3. n # 0 => s # <<>> /\ Head(s) = 0
  BY <1>1, <1>2
<1> HIDE DEF s
<1>4. IsInjective(s)
  BY <1>1, <1>2 DEF IsInjective
<1>5. /\ DOMAIN NewTable(n, v) = {"item", "free", "stuck"} /\ NewTable(n, v).free = s
      /\ DOMAIN NewTable(n, v).item = 0 .. n - 1
  BY DEF NewTable, s
<1>6. TableSound(NewTable(n, v))
  BY <1>1, <1>4, <1>5, ZenonT(30) DEF TableSound
<1> QED
  BY <1>3, <1>5, <1>6, ZenonT(30) DEF Full

LEMMA InitOwns == Init => OwnInv
<1> SUFFICES ASSUME Init PROVE OwnInv
  OBVIOUS
<1> DEFINE t == NewTable(DirCount, <<>>)
           u == TableCreate(t, <<>>)
<1>1. Root \in Path /\ NodeOf(Root) \in Node
  BY PathAssumption, NodeAssumption, ZenonT(30)
<1>2. TableSound(t) /\ ~Full(t) /\ Head(t.free) = 0
  BY CountAssumption, NewSound, ZenonT(30)
<1> HIDE DEF t
<1>3. TableSound(u) /\ 0 \in Saved(u)
  BY <1>2, CreateSound, ZenonT(30)
<1> HIDE DEF u
<1>4. dirTable = [n \in Node |-> IF n = NodeOf(Root) THEN u ELSE t]
  BY Zenon DEF Init, t, u
<1>5. Tables(dirTable) /\ 0 \in Saved(dirTable[NodeOf(Root)])
  BY <1>1, <1>2, <1>3, <1>4, ZenonT(30) DEF Tables
<1>6. Tables(fileTable)
  <2>1. fileTable = [n \in Node |-> NewTable(FileCount, EmptyFile)]
    BY ZenonT(30) DEF Init
  <2>2. TableSound(NewTable(FileCount, EmptyFile))
    BY CountAssumption, NewSound, ZenonT(30)
  <2> QED
    BY <2>1, <2>2, ZenonT(30) DEF Tables
<1>7. DOMAIN hashtable = {Root} /\ hashtable[Root].dir /\ hashtable[Root].index = 0
  BY DEF Init, FramesInit
<1>8. Owned(hashtable, dirTable, fileTable)
  BY <1>1, <1>5, <1>7, ZenonT(30) DEF Owned, TableFor
<1> QED
  BY <1>5, <1>6, <1>8, ZenonT(30) DEF OwnInv

LEMMA OwnedIndexes == OwnInv => IndexesOwned
<1> SUFFICES ASSUME OwnInv PROVE IndexesOwned
  OBVIOUS
<1>1. Owned(hashtable, dirTable, fileTable)
  BY Zenon DEF OwnInv
<1>2. ASSUME NEW p \in DOMAIN hashtable
      PROVE  Index(p) \in Saved(IF IsDirectory(p) THEN dirTable[NodeOf(p)] ELSE fileTable[NodeOf(p)])
  BY <1>1, <1>2, ZenonT(30) DEF Owned, TableFor, IsDirectory, Exists, Index
<1>3. ASSUME NEW p \in DOMAIN hashtable, NEW q \in DOMAIN hashtable,
             NodeOf(p) = NodeOf(q), hashtable[p] = hashtable[q]
      PROVE  p = q
  BY <1>1, <1>3, ZenonT(30) DEF Owned
<1> QED
  BY <1>2, <1>3, ZenonT(30) DEF IndexesOwned

-----------------------------------------------------------------------------
(* CallsImplemented: Octopus, seen at its calls, locks and names, implements *)
(* FrameSpec.                                                                *)
THEOREM CallsImplemented == Spec => FrameSpec
<1>1. Init => FramesInit
  BY Zenon DEF Init
<1>2. [Next]_vars => [FrameNext]_callVars
  BY NextFrames, ZenonT(30)
<1> QED
  BY <1>1, <1>2, PTL DEF Spec, FrameSpec

(* IndexesAlwaysOwned: the index that the hash table has for a path is an    *)
(* allocated item of its server's table, and no other path's, whatever the   *)
(* handlers of several clients create, remove and rename on the servers and  *)
(* however full the tables get: Table::create hands out no item that is in   *)
(* use, and no handler frees one that a path still has.                      *)
THEOREM IndexesAlwaysOwned == Spec => []IndexesOwned
<1>1. Init => OwnInv
  BY InitOwns, ZenonT(30)
<1>2. Inv /\ OwnInv /\ [Next]_vars => OwnInv'
  BY NextOwns, ZenonT(30)
<1>3. OwnInv => IndexesOwned
  BY OwnedIndexes, ZenonT(30)
<1> QED
  BY <1>1, <1>2, <1>3, CallsImplemented, FramesSound, PTL DEF Spec

(* LocksFollowed: unless a client reads 0 bytes, the file system implements *)
(* the lock protocol.  No handler of filesystem.cpp, on any other path      *)
(* through its early returns and its calls to other servers, unlocks a word *)
(* it does not have or announces itself twice at one, which is what         *)
(* WriteExclusion rests on: WriteUnlock and ReadUnlock of lock.cpp check    *)
(* nothing.  The read of 0 bytes does unlock a word it does not have.       *)
THEOREM LocksFollowed == NoEmptyReads /\ Spec => LockSpec
BY CallsImplemented, FramesFollow, PTL

(* ChangesExclusive: unless a client reads 0 bytes, a handler that has a    *)
(* path locked for writing shares it with no other handler of any client on *)
(* any server.                                                              *)
THEOREM ChangesExclusive == NoEmptyReads /\ Spec => []WriteExclusion
BY LocksFollowed, LockExclusive, PTL

(* At most one client has a word locked for writing. *)
WritersApart == \A a, b \in Client : \A s \in wheld[a] : s \in wheld[b] => a = b

(* WritersExclusive: whatever clients read, no two handlers of different    *)
(* clients have one path locked for writing.  The unlock that follows a     *)
(* read of 0 bytes lets readers in with a writer or keeps everybody out,    *)
(* but the key of a writer stays in the upper half of the word.             *)
THEOREM WritersExclusive == Spec => []WritersApart
<1>1. Inv => WritersApart
  BY Zenon DEF Inv, KeyInv, WritersApart
<1> QED
  BY <1>1, CallsImplemented, FramesSound, PTL

(* LocksHeld: every handler runs under the lock of its path, from its first *)
(* look at the metadata to its last change, however requests are queued,    *)
(* nested and sent on to other servers.                                     *)
THEOREM LocksHeld == Spec => []HandlersLocked
BY CallsImplemented, FramesLocked, PTL

(* AlwaysReturned: between its operations a client holds no lock on any    *)
(* server, whichever early return its handlers took, and the word of every *)
(* path is 0 again once all clients are done; only a failed ADDMETA or     *)
(* REMOVEMETA leaves its directory locked, and only a read of 0 bytes      *)
(* unlocks a word that is not locked (filesystem.cpp, parseMessage).       *)
THEOREM AlwaysReturned == Spec => []LocksReturned
BY CallsImplemented, FramesReturned, PTL

(* NamesImplemented: the file system is a NameService.  A call of mknodcd,  *)
(* mkdircd, removecd or rename, which checks its path, calls another server *)
(* and changes the path later, and a call of access or getattr, each take   *)
(* effect in one step, and a reply says what was true then.                 *)
THEOREM NamesImplemented == Spec => ImplementsNames
BY CallsImplemented, FramesNames, PTL

==============================================================================
