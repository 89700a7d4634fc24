--------------------------- MODULE TransportProofs ---------------------------
(***************************************************************************)
(* The handshake of the DPU and the host and the DMA client in it, for any *)
(* even number of clients, any start level, any number of Expands and of   *)
(* requests.                                                               *)
(*                                                                         *)
(* That the clients are aligned when the DPU runs says nothing of the      *)
(* steps in between.  HandshakeInv does: it follows the messages that are  *)
(* under way and those still to be sent as one stream, whose next element  *)
(* is the one that the counter of the DPU stands for, and it says where    *)
(* the host can be for each place of the DPU.  ClientInv does the same for *)
(* the queue of a DMA client.                                              *)
(***************************************************************************)
EXTENDS Transport, SequenceTheorems, TLAPS

Message == [type : {"SEEDS"}]
           \cup [type : {"DESCRIPTOR"}, memory : [level : Nat, piece : Nat]]
           \cup [type : {"CONTROL"}, signal : {"EXPAND_FINISH"}]

(* The memory that client i reaches when the bottom level is l - 1, the top *)
(* level l and the next one l + 1.                                          *)
Piece(l, i) ==
    IF i <= half THEN [level |-> l - 1, piece |-> i]
    ELSE IF i <= THREADS THEN [level |-> l, piece |-> i - half]
    ELSE [level |-> l + 1, piece |-> i - THREADS]

(* There are total clients, and the first n have imported their memory. *)
Table(l, n, total) == [i \in 1..total |-> IF i <= n THEN Piece(l, i) ELSE Nil]

Imported(n, total) == dma_client_ = Table(level_, n, total)

StartUp == [j \in 1 .. THREADS + 1 |->
              IF j = 1 THEN Seeds ELSE Descriptor(Piece(START_LEVEL, j - 1))]
Growth(l) == [j \in 1..half |-> Descriptor(Piece(l, THREADS + j))]

(* Of the n messages of all, those after pos are under way, or else waiting *)
(* to be sent.                                                              *)
Stream(all, n, pos, sent, unsent) ==
    /\ pos + Len(sent) + Len(unsent) = n
    /\ \A i \in 1..Len(sent) : sent[i] = all[pos + i]
    /\ \A i \in 1..Len(unsent) : unsent[i] = all[pos + Len(sent) + i]

(* The host is in Run with top level l, or has only the end of Host::Expand *)
(* before it.                                                               *)
HostBack(l) ==
    /\ exports = Nil /\ ~host_in_rehash_
    /\ \/ hostAt = "run" /\ host_level = l
       \/ hostAt = "expand" /\ host_level = l - 1

Flags == /\ in_init_ \in BOOLEAN /\ in_rehash_ \in BOOLEAN /\ host_in_rehash_ \in BOOLEAN
         /\ seed_recved_ \in BOOLEAN /\ stop_ \in BOOLEAN

HandshakeType ==
    /\ Flags
    /\ dpuAt \in {"init", "run", "expand", "switch", "finish", "stopped"}
    /\ hostAt \in {"export", "run", "expand"}
    /\ level_ \in Nat /\ level_ >= START_LEVEL
    /\ host_level \in Nat /\ host_level >= START_LEVEL
    /\ mmap_to_recv_ \in 0..THREADS
    /\ toDpu \in Seq(Message) /\ exports \in Seq(Message)

InStartUp ==
    /\ level_ = START_LEVEL /\ host_level = START_LEVEL
    /\ ~in_rehash_ /\ ~host_in_rehash_ /\ ~stop_ /\ toHost = Nil
    /\ in_init_ = (mmap_to_recv_ # 0)
    /\ hostAt = IF exports = Nil THEN "run" ELSE "export"
    /\ IF seed_recved_ THEN seeds = "host" ELSE mmap_to_recv_ = THREADS
    /\ Stream(StartUp, THREADS + 1, IF seed_recved_ THEN 1 + THREADS - mmap_to_recv_ ELSE 0,
              toDpu, exports)
    /\ Imported(THREADS - mmap_to_recv_, THREADS)

InRun ==
    /\ mmap_to_recv_ = 0 /\ ~in_init_ /\ ~in_rehash_ /\ seeds = "host" /\ toDpu = Nil
    /\ Imported(THREADS, THREADS)
    /\ HostBack(level_)
    /\ IF dpuAt = "run" THEN toHost = Nil /\ ~stop_
       ELSE \/ toHost = <<Control("EXIT")>> /\ ~stop_
            \/ toHost = Nil /\ stop_ /\ hostAt = "run"

InExpand ==
    /\ in_rehash_ /\ ~in_init_ /\ seeds = "host" /\ ~stop_ /\ mmap_to_recv_ \in 0..half
    /\ Imported(THREADS + half - mmap_to_recv_, THREADS + half)
    /\ \/ /\ toHost = <<Control("EXPAND")>> /\ toDpu = Nil /\ mmap_to_recv_ = half
          /\ HostBack(level_)
       \/ /\ toHost = Nil /\ hostAt = "expand" /\ host_in_rehash_ /\ host_level = level_
          /\ Stream(Growth(level_), half, half - mmap_to_recv_, toDpu, exports)

InFinish ==
    LET l == IF dpuAt = "switch" THEN level_ ELSE level_ - 1 IN
    /\ mmap_to_recv_ = 0 /\ ~in_init_ /\ seeds = "host" /\ ~stop_ /\ exports = Nil
    /\ IF dpuAt = "switch" THEN Imported(THREADS + half, THREADS + half)
                           ELSE Imported(THREADS, THREADS)
    /\ l >= START_LEVEL
    /\ \/ /\ in_rehash_ /\ toHost = <<Control("EXPAND_FINISH")>> /\ toDpu = Nil
          /\ hostAt = "expand" /\ host_in_rehash_ /\ host_level = l
       \/ /\ in_rehash_ /\ toHost = Nil /\ toDpu = <<Control("EXPAND_FINISH")>>
          /\ HostBack(l + 1)
       \/ /\ dpuAt = "finish" /\ ~in_rehash_ /\ toHost = Nil /\ toDpu = Nil
          /\ HostBack(l + 1)

HandshakeInv ==
    /\ HandshakeType
    /\ \A l \in freed : l \in Int /\ l < host_level - 1
    /\ dpuAt = "init" => InStartUp
    /\ dpuAt \in {"run", "stopped"} => InRun
    /\ dpuAt = "expand" => InExpand
    /\ dpuAt \in {"switch", "finish"} => InFinish

------------------------------------------------------------------------------
(* What the worker, the thread and the queue of the client have to do with *)
(* one another.                                                            *)
InService == IF threadAt = "dma" THEN 1 ELSE 0
Pushed == IF callerAt = "push" THEN scheduled - 1 ELSE scheduled

ClientInv ==
    /\ scheduled \in 0..MaxRequests /\ client_stop_ \in BOOLEAN
    /\ callerAt \in {"idle", "push", "notify", "stopping", "join", "stopped"}
    /\ threadAt \in {"loop", "lock", "check", "block", "take", "dma", "done"}
    /\ callerAt = "push" => scheduled > 0
    /\ queue \in Seq(Nat) /\ served \in Seq(Nat)
    /\ Len(served) + InService + Len(queue) = Pushed
    /\ \A i \in 1..Len(served) : served[i] = i
    /\ \A i \in 1..Len(queue) : queue[i] = Len(served) + InService + i
    /\ threadAt = "dma" => request = Len(served) + 1
    /\ threadAt = "take" => (queue # <<>> \/ client_stop_)
    /\ promise_ \in [1..MaxRequests -> {"none", "pending", "success", "failure"}]
    /\ \A r \in 1..MaxRequests :
          /\ (promise_[r] \in {"success", "failure"}) <=> (r <= Len(served))
          /\ (promise_[r] = "none") <=> (r > scheduled)

(* The worker goes on only with the futures it waits for in hand, and the  *)
(* client is gone when the first Expand has released its level.            *)
WorkerInv ==
    /\ dpuAt \notin {"run", "expand"} => Pending \subseteq dropped
    /\ callerAt # "stopped" => level_ = START_LEVEL
    /\ callerAt = "stopped" => threadAt = "done"

TransportInv == HandshakeInv /\ ClientInv /\ WorkerInv

------------------------------------------------------------------------------
(* Half of the clients reach the bottom level and half the top level. *)
LEMMA HalfFacts == /\ THREADS \in Nat /\ half \in Nat /\ half > 0 /\ THREADS = half + half
                   /\ START_LEVEL \in Nat /\ START_LEVEL >= 3
                   /\ half \in Int /\ THREADS \in Int
BY HandshakeAssumption DEF half

LEMMA PieceMessage ==
    ASSUME NEW l \in Nat, l > 0, NEW i \in Nat
    PROVE  /\ Piece(l, i) \in [level : Nat, piece : Nat]
           /\ Descriptor(Piece(l, i)) \in Message
<1>1. Piece(l, i) \in [level : Nat, piece : Nat]
  BY HalfFacts DEF Piece
<1> QED
  BY <1>1 DEF Descriptor, Message

(* Sending moves the border between what is sent and what is not. *)
LEMMA StreamSend ==
    ASSUME NEW all, NEW n \in Nat, NEW pos \in Nat, NEW q \in Seq(Message), NEW x \in Seq(Message),
           Stream(all, n, pos, q, x), x # <<>>
    PROVE  Stream(all, n, pos, Append(q, Head(x)), Tail(x))
<1>1. /\ Len(Append(q, Head(x))) = Len(q) + 1 /\ Len(Tail(x)) = Len(x) - 1
      /\ Head(x) = x[1] /\ Len(x) > 0
      /\ \A i \in 1 .. Len(q) : Append(q, Head(x))[i] = q[i]
      /\ Append(q, Head(x))[Len(q) + 1] = Head(x)
      /\ \A i \in 1 .. Len(x) - 1 : Tail(x)[i] = x[i + 1]
      /\ Len(q) \in Nat /\ Len(x) \in Nat
  <2>1. /\ Head(x) \in Message /\ Len(Tail(x)) = Len(x) - 1 /\ Head(x) = x[1]
        /\ \A i \in 1 .. Len(Tail(x)) : Tail(x)[i] = x[i + 1]
    BY HeadTailProperties
  <2>2. Len(q) \in Nat /\ Len(x) \in Nat \ {0}
    BY EmptySeq
  <2>3. /\ Len(Append(q, Head(x))) = Len(q) + 1
        /\ \A i \in 1 .. Len(q) : Append(q, Head(x))[i] = q[i]
        /\ Append(q, Head(x))[Len(q) + 1] = Head(x)
    BY <2>1, AppendProperties
  <2> QED
    BY <2>1, <2>2, <2>3
<1>2. Head(x) = all[pos + Len(q) + 1]
  BY <1>1 DEF Stream
<1>3. \A i \in 1 .. Len(q) + 1 : Append(q, Head(x))[i] = all[pos + i]
  <2> SUFFICES ASSUME NEW i \in 1 .. Len(q) + 1
               PROVE  Append(q, Head(x))[i] = all[pos + i]
    OBVIOUS
  <2>1. CASE i = Len(q) + 1
    <3>1. pos + Len(q) + 1 = pos + (Len(q) + 1)
      BY <1>1
    <3> QED
      BY <1>1, <1>2, <2>1, <3>1
  <2>2. CASE i \in 1 .. Len(q)
    BY <1>1, <2>2 DEF Stream
  <2> QED
    BY <2>1, <2>2, <1>1
<1>4. \A i \in 1 .. Len(x) - 1 : Tail(x)[i] = all[pos + (Len(q) + 1) + i]
  <2> SUFFICES ASSUME NEW i \in 1 .. Len(x) - 1
               PROVE  Tail(x)[i] = all[pos + (Len(q) + 1) + i]
    OBVIOUS
  <2>1. i + 1 \in 1 .. Len(x) /\ pos + Len(q) + (i + 1) = pos + (Len(q) + 1) + i
    BY <1>1
  <2>2. x[i + 1] = all[pos + Len(q) + (i + 1)]
    BY <2>1 DEF Stream
  <2> QED
    BY <2>1, <2>2, <1>1
<1> QED
  BY <1>1, <1>3, <1>4, SMTT(30) DEF Stream

(* What is received is the message that the position stands for. *)
LEMMA StreamReceive ==
    ASSUME NEW all, NEW n \in Nat, NEW pos \in Nat, NEW q \in Seq(Message), NEW x \in Seq(Message),
           Stream(all, n, pos, q, x), q # <<>>
    PROVE  /\ Head(q) = all[pos + 1] /\ pos < n
           /\ Stream(all, n, pos + 1, Tail(q), x)
<1>1. /\ Len(Tail(q)) = Len(q) - 1 /\ Head(q) = q[1] /\ Len(q) > 0
      /\ \A i \in 1 .. Len(q) - 1 : Tail(q)[i] = q[i + 1]
      /\ Len(q) \in Nat /\ Len(x) \in Nat
  BY HeadTailProperties, EmptySeq
<1>2. \A i \in 1 .. Len(q) - 1 : Tail(q)[i] = all[(pos + 1) + i]
  <2> SUFFICES ASSUME NEW i \in 1 .. Len(q) - 1
               PROVE  Tail(q)[i] = all[(pos + 1) + i]
    OBVIOUS
  <2>1. i + 1 \in 1 .. Len(q) /\ pos + (i + 1) = (pos + 1) + i
    BY <1>1
  <2> QED
    BY <2>1, <1>1 DEF Stream
<1>3. \A i \in 1 .. Len(x) : x[i] = all[(pos + 1) + (Len(q) - 1) + i]
  <2> SUFFICES ASSUME NEW i \in 1 .. Len(x)
               PROVE  x[i] = all[(pos + 1) + (Len(q) - 1) + i]
    OBVIOUS
  <2>1. pos + Len(q) + i = (pos + 1) + (Len(q) - 1) + i
    BY <1>1
  <2> QED
    BY <2>1 DEF Stream
<1>4. Head(q) = all[pos + 1]
  BY <1>1 DEF Stream
<1>5. pos < n /\ (pos + 1) + (Len(q) - 1) + Len(x) = n
  <2>1. pos + Len(q) + Len(x) = n
    BY DEF Stream
  <2> QED
    BY <2>1, <1>1
<1>6. Stream(all, n, pos + 1, Tail(q), x)
  <2>1. Len(Tail(q)) = Len(q) - 1
    BY <1>1
  <2> QED
    BY <2>1, <1>2, <1>3, <1>5, Zenon DEF Stream
<1> QED
  BY <1>4, <1>5, <1>6

(* A stream that is received to the end leaves nothing behind. *)
LEMMA StreamOver ==
    ASSUME NEW all, NEW n \in Nat, NEW q \in Seq(Message), NEW x \in Seq(Message),
           Stream(all, n, n, q, x)
    PROVE  q = <<>> /\ x = <<>>
<1>1. Len(q) = 0 /\ Len(x) = 0
  BY EmptySeq DEF Stream
<1> QED
  BY <1>1, EmptySeq

(* When a sequence is the concatenation of two others, or the rest of one. *)
LEMMA IsConcat ==
    ASSUME NEW S, NEW s \in Seq(S), NEW t \in Seq(S), NEW f \in Seq(S),
           Len(f) = Len(s) + Len(t),
           \A i \in 1..Len(s) : f[i] = s[i],
           \A i \in 1..Len(t) : f[Len(s) + i] = t[i]
    PROVE  s \o t = f
<1>1. /\ s \o t \in Seq(S) /\ Len(s \o t) = Len(f)
      /\ \A i \in 1 .. Len(f) : (s \o t)[i] = IF i <= Len(s) THEN s[i] ELSE t[i - Len(s)]
  BY ConcatProperties, Zenon
<1>2. \A i \in 1 .. Len(f) : f[i] = IF i <= Len(s) THEN s[i] ELSE t[i - Len(s)]
  <2> SUFFICES ASSUME NEW i \in 1..Len(f)
               PROVE  f[i] = IF i <= Len(s) THEN s[i] ELSE t[i - Len(s)]
    OBVIOUS
  <2>1. CASE i <= Len(s)
    BY <2>1
  <2>2. CASE ~(i <= Len(s))
    <3>1. i - Len(s) \in 1..Len(t) /\ Len(s) + (i - Len(s)) = i
      BY <2>2
    <3> QED
      BY <2>2, <3>1, Zenon
  <2> QED
    BY <2>1, <2>2
<1>3. \A i \in 1 .. Len(f) : (s \o t)[i] = f[i]
  BY <1>1, <1>2, Zenon
<1> QED
  BY <1>1, <1>3, SeqEqual, Zenon

LEMMA IsRest ==
    ASSUME NEW S, NEW k \in Nat, NEW s \in Seq(S), NEW f \in Seq(S),
           Len(s) = Len(f) + k,
           \A i \in 1..Len(f) : f[i] = s[i + k]
    PROVE  SubSeq(s, k + 1, Len(s)) = f
<1>1. /\ SubSeq(s, k + 1, Len(s)) \in Seq(S)
      /\ Len(SubSeq(s, k + 1, Len(s))) = Len(f)
      /\ \A i \in 1..Len(f) : SubSeq(s, k + 1, Len(s))[i] = s[i + k]
  <2>1. Len(s) \in Nat /\ Len(f) \in Nat /\ Len(s) - (k + 1) + 1 = Len(f)
    BY SMTT(30)
  <2>2. SubSeq(s, k + 1, Len(s)) \in Seq(S)
    BY <2>1, SMTT(30)
  <2>3. Len(SubSeq(s, k + 1, Len(s))) = Len(f)
    BY <2>1, SMTT(30)
  <2>4. \A i \in 1..Len(f) : SubSeq(s, k + 1, Len(s))[i] = s[i + k]
    BY <2>1, SMTT(30)
  <2> QED
    BY <2>2, <2>3, <2>4, Zenon
<1>2. \A i \in 1..Len(f) : SubSeq(s, k + 1, Len(s))[i] = f[i]
  BY <1>1, Zenon
<1> QED
  BY <1>1, <1>2, SeqEqual, Zenon

(* The two levels of a geometry, as the code concatenates them. *)
LEMMA TwoLevels ==
    ASSUME NEW l \in Int
    PROVE  Pieces(l - 1) \o Pieces(l) = [i \in 1..THREADS |-> Piece(l, i)]
<1> DEFINE s == Pieces(l - 1)
           t == Pieces(l)
           f == [i \in 1..THREADS |-> Piece(l, i)]
           M == [level : Int, piece : Int]
<1>1. s \in Seq(M) /\ t \in Seq(M) /\ Len(s) = half /\ Len(t) = half
  BY HalfFacts DEF Pieces
<1>2. f \in Seq(M) /\ Len(f) = THREADS
  BY HalfFacts DEF Piece
<1>3. /\ \A i \in 1..half : f[i] = s[i]
      /\ \A i \in 1..half : f[half + i] = t[i]
  BY HalfFacts DEF Pieces, Piece
<1> HIDE DEF s, t, M, f
<1>4. /\ \A i \in 1..Len(s) : f[i] = s[i]
      /\ \A i \in 1..Len(t) : f[Len(s) + i] = t[i]
  BY <1>1, <1>3, Zenon
<1>5. Len(f) = Len(s) + Len(t)
  BY <1>1, <1>2, HalfFacts
<1>6. s \o t = f
  BY <1>1, <1>2, <1>4, <1>5, IsConcat, Zenon
<1> QED
  BY <1>6, Zenon DEF s, t, f

------------------------------------------------------------------------------
(* The messages of the two streams. *)
LEMMA StartUpMessages ==
    /\ StartUp \in Seq(Message) /\ Len(StartUp) = THREADS + 1
    /\ StartUp[1] = Seeds
    /\ \A j \in 1..THREADS : StartUp[1 + j] = Descriptor(Piece(START_LEVEL, j))
<1>1. \A j \in 1 .. THREADS + 1 :
         (IF j = 1 THEN Seeds ELSE Descriptor(Piece(START_LEVEL, j - 1))) \in Message
  <2> SUFFICES ASSUME NEW j \in 1 .. THREADS + 1
               PROVE  (IF j = 1 THEN Seeds ELSE Descriptor(Piece(START_LEVEL, j - 1))) \in Message
    OBVIOUS
  <2>1. Seeds \in Message
    BY DEF Seeds, Message
  <2>2. Descriptor(Piece(START_LEVEL, j - 1)) \in Message
    BY PieceMessage, HalfFacts
  <2> QED
    BY <2>1, <2>2
<1> HIDE DEF Seeds, Descriptor, Piece, Message
<1> QED
  BY <1>1, HalfFacts DEF StartUp

LEMMA GrowthMessages ==
    ASSUME NEW l \in Nat, l >= 3
    PROVE  /\ Growth(l) \in Seq(Message) /\ Len(Growth(l)) = half
           /\ \A j \in 1..half : Growth(l)[j] = Descriptor(Piece(l, THREADS + j))
           /\ Descriptors(Pieces(l + 1)) = Growth(l)
<1>1. \A j \in 1..half : Descriptor(Piece(l, THREADS + j)) \in Message
  BY PieceMessage, HalfFacts
<1>2. \A j \in 1..half : Piece(l, THREADS + j) = [level |-> l + 1, piece |-> j]
  BY HalfFacts DEF Piece
<1>3. Descriptors(Pieces(l + 1)) = Growth(l)
  BY <1>2, HalfFacts DEF Descriptors, Pieces, Growth
<1> HIDE DEF Descriptor, Piece, Message
<1> QED
  BY <1>1, <1>3, HalfFacts DEF Growth

LEMMA StreamWhole ==
    ASSUME NEW x \in Seq(Message), NEW n \in Nat, Len(x) = n
    PROVE  Stream(x, n, 0, <<>>, x)
BY DEF Stream

(* One more client has imported its memory. *)
LEMMA ImportOne ==
    ASSUME NEW l, NEW total \in Nat, NEW n \in Nat, n < total
    PROVE  [Table(l, n, total) EXCEPT ![n + 1] = Piece(l, n + 1)] = Table(l, n + 1, total)
<1> DEFINE f == Table(l, n, total)
           g == Table(l, n + 1, total)
           S == {Piece(l, i) : i \in 1..total} \cup {Nil}
<1>1. f \in [1..total -> S] /\ g \in [1..total -> S] /\ Piece(l, n + 1) \in S
  <2> HIDE DEF Piece, Nil
  <2> QED
    BY DEF Table
<1>2. /\ \A i \in 1..total : i # n + 1 => g[i] = f[i]
      /\ g[n + 1] = Piece(l, n + 1)
  BY DEF Table
<1> HIDE DEF f, g, S
<1>3. [f EXCEPT ![n + 1] = Piece(l, n + 1)] = g
  BY <1>1, <1>2
<1> QED
  BY <1>3, Zenon DEF f, g

LEMMA HandshakeInit == Init => HandshakeInv
<1> SUFFICES ASSUME Init PROVE HandshakeInv
  OBVIOUS
<1>1. dma_server = [i \in 1..THREADS |-> Piece(START_LEVEL, i)]
  <2>1. START_LEVEL \in Int
    BY HalfFacts
  <2> QED
    BY <2>1, TwoLevels, Zenon DEF Init
<1>2. exports = StartUp
  <2> DEFINE s == <<Seeds>>
             t == Descriptors(dma_server)
  <2>1. s \in Seq(Message) /\ Len(s) = 1 /\ s[1] = Seeds
    BY DEF Seeds, Message
  <2>2. /\ t = [i \in 1..THREADS |-> Descriptor(Piece(START_LEVEL, i))]
    BY <1>1, HalfFacts DEF Descriptors
  <2>3. \A i \in 1..THREADS : Descriptor(Piece(START_LEVEL, i)) \in Message
    BY PieceMessage, HalfFacts
  <2>4. t \in Seq(Message) /\ Len(t) = THREADS
        /\ \A i \in 1..THREADS : t[i] = Descriptor(Piece(START_LEVEL, i))
    <3> HIDE DEF t, Descriptor, Piece, Message
    <3> QED
      BY <2>2, <2>3, HalfFacts
  <2> HIDE DEF s, t
  <2>5. Len(StartUp) = Len(s) + Len(t)
    BY <2>1, <2>4, StartUpMessages, HalfFacts
  <2>6. \A i \in 1..Len(s) : StartUp[i] = s[i]
    BY <2>1, StartUpMessages
  <2>7. \A i \in 1..Len(t) : StartUp[Len(s) + i] = t[i]
    BY <2>1, <2>4, StartUpMessages, Zenon
  <2>8. s \o t = StartUp
    BY <2>1, <2>4, <2>5, <2>6, <2>7, StartUpMessages, IsConcat, Zenon
  <2> QED
    BY <2>8, Zenon DEF s, t, Init
<1>3. Stream(StartUp, THREADS + 1, 0, toDpu, exports)
  <2>1. THREADS + 1 \in Nat
    BY HalfFacts
  <2> QED
    BY <1>2, <2>1, StartUpMessages, StreamWhole, Zenon DEF Init, Nil
<1>4. exports \in Seq(Message) /\ exports # Nil
  BY <1>2, StartUpMessages, HalfFacts DEF Nil
<1>5. Imported(0, THREADS)
  BY HalfFacts DEF Init, Imported, Table
<1>6. /\ dpuAt = "init" /\ in_init_ = TRUE /\ seed_recved_ = FALSE /\ mmap_to_recv_ = THREADS
      /\ in_rehash_ = FALSE /\ level_ = START_LEVEL
      /\ hostAt = "export" /\ host_in_rehash_ = FALSE /\ host_level = START_LEVEL /\ stop_ = FALSE
      /\ freed = {} /\ toHost = Nil /\ toDpu = Nil
  BY DEF Init
<1>7. InStartUp
  <2>1. Imported(THREADS - mmap_to_recv_, THREADS)
    <3>1. THREADS - mmap_to_recv_ = 0
      BY <1>6, HalfFacts
    <3> QED
      BY <1>5, <3>1, Zenon
  <2>2. Stream(StartUp, THREADS + 1, IF seed_recved_ THEN 1 + THREADS - mmap_to_recv_ ELSE 0,
               toDpu, exports)
    BY <1>3, <1>6, Zenon
  <2>3. in_init_ = (mmap_to_recv_ # 0)
    <3>1. mmap_to_recv_ # 0
      BY <1>6, HalfFacts
    <3> QED
      BY <1>6, <3>1, Zenon
  <2> QED
    BY <1>4, <1>6, <2>1, <2>2, <2>3, Zenon DEF InStartUp
<1>8. HandshakeType
  <2>1. Flags
    BY <1>6, Zenon DEF Flags
  <2> QED
    BY <1>4, <1>6, <2>1, HalfFacts DEF HandshakeType, Nil
<1> QED
  BY <1>6, <1>7, <1>8, Zenon DEF HandshakeInv

------------------------------------------------------------------------------
(* comch_dpu_recv_callback: each message is the one its counter stands for. *)
LEMMA DpuReceiveStep == HandshakeInv /\ DpuReceive => HandshakeInv'
<1> SUFFICES ASSUME HandshakeInv, DpuReceive
             PROVE  HandshakeInv'
  OBVIOUS
<1> DEFINE msg == Head(toDpu)
           awaited == in_init_ \/ in_rehash_
<1>1. /\ dpuAt' = dpuAt /\ level_' = level_ /\ toHost' = toHost /\ hostAt' = hostAt
      /\ host_in_rehash_' = host_in_rehash_ /\ host_level' = host_level /\ stop_' = stop_
      /\ exports' = exports /\ freed' = freed
      /\ toDpu' = Tail(toDpu) /\ toDpu # <<>> /\ dpuAt \in {"init", "expand", "finish"}
  BY Zenon DEF DpuReceive, hostVars, Nil
<1>2. /\ msg.type = "DESCRIPTOR" =>
            /\ dma_client_' = IF awaited THEN [dma_client_ EXCEPT ![ImportIndex] = msg.memory]
                                         ELSE dma_client_
            /\ mmap_to_recv_' = mmap_to_recv_ - (IF awaited THEN 1 ELSE 0)
            /\ in_init_' = (in_init_ /\ mmap_to_recv_' # 0)
            /\ seeds' = seeds /\ seed_recved_' = seed_recved_ /\ in_rehash_' = in_rehash_
      /\ msg.type = "SEEDS" =>
            /\ seeds' = "host" /\ seed_recved_' = TRUE
            /\ dma_client_' = dma_client_ /\ mmap_to_recv_' = mmap_to_recv_
            /\ in_init_' = in_init_ /\ in_rehash_' = in_rehash_
      /\ msg.type = "CONTROL" =>
            /\ in_rehash_' = (in_rehash_ /\ msg.signal # "EXPAND_FINISH")
            /\ dma_client_' = dma_client_ /\ mmap_to_recv_' = mmap_to_recv_
            /\ in_init_' = in_init_ /\ seeds' = seeds /\ seed_recved_' = seed_recved_
  BY Zenon DEF DpuReceive
<1>3. HandshakeType /\ \A l \in freed : l \in Int /\ l < host_level - 1
  BY Zenon DEF HandshakeInv
<1>4. toDpu \in Seq(Message) /\ exports \in Seq(Message) /\ mmap_to_recv_ \in 0..THREADS /\ Flags
      /\ level_ \in Nat /\ level_ >= START_LEVEL
  BY <1>3, Zenon DEF HandshakeType
<1>5. toDpu' \in Seq(Message)
  BY <1>1, <1>4, HeadTailProperties
<1>6. ASSUME dpuAt = "init"
      PROVE  Flags' /\ mmap_to_recv_' \in 0..THREADS /\ InStartUp'
  <2> DEFINE pos == IF seed_recved_ THEN 1 + THREADS - mmap_to_recv_ ELSE 0
  <2>1. InStartUp
    BY <1>6, Zenon DEF HandshakeInv
  <2>2. /\ level_ = START_LEVEL /\ host_level = START_LEVEL
        /\ in_rehash_ = FALSE /\ host_in_rehash_ = FALSE /\ stop_ = FALSE /\ toHost = Nil
        /\ in_init_ = (mmap_to_recv_ # 0)
        /\ hostAt = IF exports = Nil THEN "run" ELSE "export"
        /\ IF seed_recved_ THEN seeds = "host" ELSE mmap_to_recv_ = THREADS
        /\ Stream(StartUp, THREADS + 1, pos, toDpu, exports)
        /\ Imported(THREADS - mmap_to_recv_, THREADS)
    BY <2>1, <1>4, Zenon DEF InStartUp, Flags
  <2>3. pos \in Nat /\ THREADS + 1 \in Nat
    BY <1>4, HalfFacts
  <2> HIDE DEF pos
  <2>4. /\ msg = StartUp[pos + 1] /\ pos < THREADS + 1
        /\ Stream(StartUp, THREADS + 1, pos + 1, toDpu', exports')
    BY <1>1, <1>4, <2>2, <2>3, StreamReceive, Zenon
  <2>5. CASE ~seed_recved_
    <3>1. pos = 0 /\ pos + 1 = 1
      BY <2>5 DEF pos
    <3>2. msg = Seeds
      BY <2>4, <3>1, StartUpMessages, Zenon
    <3>3. msg.type = "SEEDS"
      BY <3>2 DEF Seeds
    <3>4. /\ seeds' = "host" /\ seed_recved_' = TRUE
          /\ dma_client_' = dma_client_ /\ mmap_to_recv_' = mmap_to_recv_
          /\ in_init_' = in_init_ /\ in_rehash_' = in_rehash_
      BY <1>2, <3>3, Zenon
    <3>5. 1 + THREADS - mmap_to_recv_' = 1
      BY <3>4, <2>2, <2>5, HalfFacts
    <3>6. Stream(StartUp, THREADS + 1, IF seed_recved_' THEN 1 + THREADS - mmap_to_recv_' ELSE 0,
                 toDpu', exports')
      BY <2>4, <3>1, <3>4, <3>5, Zenon
    <3>7. InStartUp'
      BY <1>1, <2>2, <3>4, <3>6, Zenon DEF InStartUp, Imported, Nil
    <3>8. Flags'
      BY <1>1, <1>4, <3>4, Zenon DEF Flags
    <3> QED
      BY <1>4, <3>4, <3>7, <3>8, Zenon
  <2>6. CASE seed_recved_
    <3> DEFINE n == THREADS - mmap_to_recv_
    <3>1. n \in Nat /\ n < THREADS /\ pos + 1 = 1 + (n + 1) /\ n + 1 \in 1..THREADS
          /\ mmap_to_recv_ # 0 /\ n + 1 = THREADS - (mmap_to_recv_ - 1)
          /\ mmap_to_recv_ - 1 \in 0..THREADS /\ THREADS - mmap_to_recv_ + 1 = n + 1
          /\ pos + 1 = 1 + THREADS - (mmap_to_recv_ - 1)
      BY <1>4, <2>4, <2>6, HalfFacts DEF pos
    <3>2. msg = Descriptor(Piece(START_LEVEL, n + 1))
      <4> HIDE DEF n
      <4> QED
        BY <2>4, <3>1, StartUpMessages, Zenon
    <3>3. msg.type = "DESCRIPTOR" /\ msg.memory = Piece(START_LEVEL, n + 1)
      BY <3>2 DEF Descriptor
    <3>4. in_init_ = TRUE /\ ImportIndex = n + 1
      <4>1. in_init_ = TRUE
        BY <2>2, <3>1, <1>4, Zenon DEF Flags
      <4> QED
        BY <4>1, <3>1, Zenon DEF ImportIndex
    <3>5. /\ dma_client_' = [dma_client_ EXCEPT ![n + 1] = Piece(START_LEVEL, n + 1)]
          /\ mmap_to_recv_' = mmap_to_recv_ - 1
          /\ in_init_' = (mmap_to_recv_' # 0)
          /\ seeds' = seeds /\ seed_recved_' = seed_recved_ /\ in_rehash_' = in_rehash_
      BY <1>2, <3>3, <3>4, Zenon
    <3>6. dma_client_ = Table(START_LEVEL, n, THREADS)
      BY <2>2, Zenon DEF Imported
    <3>7. dma_client_' = Table(START_LEVEL, n + 1, THREADS)
      <4> HIDE DEF n
      <4>1. n \in Nat /\ THREADS \in Nat /\ n < THREADS
        BY <3>1, HalfFacts
      <4> QED
        BY <4>1, <3>5, <3>6, ImportOne, Zenon
    <3>8. /\ THREADS - mmap_to_recv_' = n + 1
          /\ 1 + THREADS - mmap_to_recv_' = pos + 1
      BY <3>1, <3>5, Zenon
    <3> HIDE DEF n
    <3>9. Stream(StartUp, THREADS + 1, IF seed_recved_' THEN 1 + THREADS - mmap_to_recv_' ELSE 0,
                 toDpu', exports')
      BY <2>4, <2>6, <3>5, <3>8, Zenon
    <3>10. dma_client_' = Table(level_', THREADS - mmap_to_recv_', THREADS)
      BY <1>1, <2>2, <3>7, <3>8, Zenon
    <3>11. InStartUp'
      BY <1>1, <2>2, <2>6, <3>5, <3>9, <3>10, Zenon DEF InStartUp, Imported, Nil
    <3>12. Flags'
      BY <1>1, <1>4, <3>5, Zenon DEF Flags
    <3> QED
      BY <3>1, <3>5, <3>11, <3>12, Zenon
  <2> QED
    BY <2>5, <2>6
<1>7. ASSUME dpuAt = "expand"
      PROVE  Flags' /\ mmap_to_recv_' \in 0..THREADS /\ InExpand'
  <2> DEFINE pos == half - mmap_to_recv_
             n == THREADS + pos
  <2>1. InExpand
    BY <1>7, Zenon DEF HandshakeInv
  <2>2. /\ in_rehash_ = TRUE /\ in_init_ = FALSE /\ seeds = "host" /\ stop_ = FALSE
        /\ mmap_to_recv_ \in 0..half
        /\ dma_client_ = Table(level_, THREADS + half - mmap_to_recv_, THREADS + half)
        /\ toHost = Nil /\ hostAt = "expand" /\ host_in_rehash_ = TRUE /\ host_level = level_
        /\ Stream(Growth(level_), half, pos, toDpu, exports)
    BY <2>1, <1>1, <1>4, Zenon DEF InExpand, Flags, Nil, Imported
  <2>3. pos \in Nat /\ half \in Nat
    BY <2>2, HalfFacts
  <2>4. /\ msg = Growth(level_)[pos + 1] /\ pos < half
        /\ Stream(Growth(level_), half, pos + 1, toDpu', exports')
    <3> HIDE DEF pos
    <3> QED
      BY <1>1, <1>4, <2>2, <2>3, StreamReceive, Zenon
  <2>5. /\ pos + 1 \in 1..half /\ n + 1 = THREADS + (pos + 1) /\ n \in Nat /\ n < THREADS + half
        /\ THREADS + half \in Nat /\ mmap_to_recv_ - 1 \in 0..half
        /\ mmap_to_recv_ - 1 \in 0..THREADS
        /\ THREADS + half - mmap_to_recv_ = n /\ (THREADS + half) - mmap_to_recv_ + 1 = n + 1
        /\ THREADS + half - (mmap_to_recv_ - 1) = n + 1
        /\ half - (mmap_to_recv_ - 1) = pos + 1
    BY <2>2, <2>3, <2>4, HalfFacts
  <2>6. level_ \in Nat /\ level_ >= 3
    BY <1>4, HalfFacts
  <2> HIDE DEF n, pos
  <2>7. msg = Descriptor(Piece(level_, n + 1))
    BY <2>4, <2>5, <2>6, GrowthMessages, Zenon
  <2>8. msg.type = "DESCRIPTOR" /\ msg.memory = Piece(level_, n + 1)
    BY <2>7 DEF Descriptor
  <2>9. ImportIndex = n + 1
    <3>1. ~in_init_
      BY <2>2, Zenon
    <3> QED
      BY <2>5, <3>1, Zenon DEF ImportIndex
  <2>10. /\ dma_client_' = [dma_client_ EXCEPT ![n + 1] = Piece(level_, n + 1)]
         /\ mmap_to_recv_' = mmap_to_recv_ - 1 /\ in_init_' = FALSE
         /\ seeds' = seeds /\ seed_recved_' = seed_recved_ /\ in_rehash_' = in_rehash_
    <3>1. /\ dma_client_' = [dma_client_ EXCEPT ![n + 1] = Piece(level_, n + 1)]
          /\ mmap_to_recv_' = mmap_to_recv_ - 1 /\ in_init_' = (in_init_ /\ mmap_to_recv_' # 0)
          /\ seeds' = seeds /\ seed_recved_' = seed_recved_ /\ in_rehash_' = in_rehash_
      BY <1>2, <2>2, <2>8, <2>9, Zenon
    <3>2. in_init_' = FALSE
      BY <3>1, <2>2, Zenon
    <3> QED
      BY <3>1, <3>2, Zenon
  <2>11. dma_client_ = Table(level_, n, THREADS + half)
    BY <2>2, <2>5, Zenon
  <2>12. dma_client_' = Table(level_, n + 1, THREADS + half)
    <3>1. n \in Nat /\ THREADS + half \in Nat /\ n < THREADS + half
      BY <2>5
    <3> QED
      BY <3>1, <2>10, <2>11, ImportOne, Zenon
  <2>13. dma_client_' = Table(level_', THREADS + half - mmap_to_recv_', THREADS + half)
    BY <1>1, <2>5, <2>10, <2>12, Zenon
  <2>14. Stream(Growth(level_'), half, half - mmap_to_recv_', toDpu', exports')
    BY <1>1, <2>4, <2>5, <2>10, Zenon
  <2>15. InExpand'
    BY <1>1, <2>2, <2>5, <2>10, <2>13, <2>14, Zenon DEF InExpand, Imported, Nil
  <2>16. Flags'
    BY <1>1, <1>4, <2>10, Zenon DEF Flags
  <2> QED
    BY <2>5, <2>10, <2>15, <2>16, Zenon
<1>8. ASSUME dpuAt = "finish"
      PROVE  Flags' /\ mmap_to_recv_' \in 0..THREADS /\ InFinish'
  <2>1. InFinish
    BY <1>8, Zenon DEF HandshakeInv
  <2>2. /\ mmap_to_recv_ = 0 /\ in_init_ = FALSE /\ seeds = "host" /\ stop_ = FALSE /\ exports = Nil
        /\ Imported(THREADS, THREADS) /\ level_ - 1 >= START_LEVEL
        /\ in_rehash_ = TRUE /\ toHost = Nil /\ toDpu = <<Control("EXPAND_FINISH")>>
        /\ HostBack((level_ - 1) + 1)
    BY <2>1, <1>1, <1>4, <1>8, Zenon DEF InFinish, Flags, Nil
  <2>3. msg.type = "CONTROL" /\ msg.signal = "EXPAND_FINISH" /\ toDpu' = <<>>
    BY <1>1, <2>2 DEF Control
  <2>4. /\ in_rehash_' = FALSE /\ dma_client_' = dma_client_ /\ mmap_to_recv_' = mmap_to_recv_
        /\ in_init_' = in_init_ /\ seeds' = seeds /\ seed_recved_' = seed_recved_
    BY <1>2, <2>3, Zenon
  <2>5. InFinish'
    BY <1>1, <1>8, <2>2, <2>3, <2>4, Zenon DEF InFinish, Imported, HostBack, Nil
  <2>6. Flags'
    BY <1>1, <1>4, <2>4, Zenon DEF Flags
  <2> QED
    BY <1>4, <2>4, <2>5, <2>6, Zenon
<1>9. HandshakeType'
  BY <1>1, <1>3, <1>5, <1>6, <1>7, <1>8, Zenon DEF HandshakeType
<1> QED
  BY <1>1, <1>3, <1>6, <1>7, <1>8, <1>9, Zenon DEF HandshakeInv

(* The end of the constructor: all descriptors have come, so nothing else is under way. *)
LEMMA DpuReadyStep == HandshakeInv /\ DpuReady => HandshakeInv'
<1> SUFFICES ASSUME HandshakeInv, DpuReady
             PROVE  HandshakeInv'
  OBVIOUS
<1>1. /\ dpuAt = "init" /\ mmap_to_recv_ = 0 /\ seed_recved_ /\ dpuAt' = "run" /\ in_init_' = FALSE
      /\ seeds' = seeds /\ seed_recved_' = seed_recved_ /\ mmap_to_recv_' = mmap_to_recv_
      /\ in_rehash_' = in_rehash_ /\ level_' = level_ /\ dma_client_' = dma_client_
      /\ hostAt' = hostAt /\ host_in_rehash_' = host_in_rehash_ /\ host_level' = host_level
      /\ stop_' = stop_ /\ exports' = exports /\ freed' = freed /\ toHost' = toHost /\ toDpu' = toDpu
  BY Zenon DEF DpuReady, hostVars
<1>2. HandshakeType /\ InStartUp /\ \A l \in freed : l \in Int /\ l < host_level - 1
  BY <1>1, Zenon DEF HandshakeInv
<1>3. toDpu = <<>> /\ exports = <<>>
  <2>1. Stream(StartUp, THREADS + 1, 1 + THREADS - mmap_to_recv_, toDpu, exports)
    BY <1>1, <1>2, Zenon DEF InStartUp
  <2>2. 1 + THREADS - mmap_to_recv_ = THREADS + 1 /\ THREADS + 1 \in Nat
    BY <1>1, HalfFacts
  <2>3. toDpu \in Seq(Message) /\ exports \in Seq(Message)
    BY <1>2, Zenon DEF HandshakeType
  <2> QED
    BY <2>1, <2>2, <2>3, StreamOver, Zenon
<1>4. THREADS - mmap_to_recv_ = THREADS
  BY <1>1, HalfFacts
<1>5. InRun'
  BY <1>1, <1>2, <1>3, <1>4, Zenon DEF InRun, InStartUp, HostBack, Imported, Nil
<1>6. HandshakeType'
  BY <1>1, <1>2, Zenon DEF HandshakeType, Flags
<1> QED
  BY <1>1, <1>2, <1>5, <1>6, Zenon DEF HandshakeInv

(* Expand: room for the clients of the next level. *)
LEMMA TableGrow ==
    ASSUME NEW l
    PROVE  Table(l, THREADS, THREADS) \o [i \in 1..half |-> Nil]
           = Table(l, THREADS, THREADS + half)
<1> DEFINE s == Table(l, THREADS, THREADS)
           t == [i \in 1..half |-> Nil]
           f == Table(l, THREADS, THREADS + half)
           S == {Piece(l, i) : i \in 1..THREADS} \cup {Nil}
<1>1. s \in Seq(S) /\ t \in Seq(S) /\ f \in Seq(S)
      /\ Len(s) = THREADS /\ Len(t) = half /\ Len(f) = THREADS + half
  <2> HIDE DEF Piece, Nil
  <2> QED
    BY HalfFacts DEF Table
<1>2. /\ \A i \in 1..THREADS : f[i] = s[i]
      /\ \A i \in 1..half : f[THREADS + i] = t[i]
  <2> HIDE DEF Piece, Nil
  <2> QED
    BY HalfFacts DEF Table
<1> HIDE DEF s, t, f, S
<1>3. /\ \A i \in 1..Len(s) : f[i] = s[i]
      /\ \A i \in 1..Len(t) : f[Len(s) + i] = t[i]
      /\ Len(f) = Len(s) + Len(t)
  BY <1>1, <1>2, Zenon
<1>4. s \o t = f
  BY <1>1, <1>3, IsConcat, Zenon
<1> QED
  BY <1>4, Zenon DEF s, t, f

LEMMA DpuExpandStep == HandshakeInv /\ DpuExpand => HandshakeInv'
<1> SUFFICES ASSUME HandshakeInv, DpuExpand
             PROVE  HandshakeInv'
  OBVIOUS
<1>1. /\ dpuAt = "run" /\ dpuAt' = "expand" /\ in_rehash_' = TRUE /\ mmap_to_recv_' = half
      /\ toHost' = Append(toHost, Control("EXPAND"))
      /\ dma_client_' = dma_client_ \o [i \in 1..half |-> Nil]
      /\ seeds' = seeds /\ seed_recved_' = seed_recved_ /\ in_init_' = in_init_
      /\ level_' = level_
      /\ hostAt' = hostAt /\ host_in_rehash_' = host_in_rehash_ /\ host_level' = host_level
      /\ stop_' = stop_ /\ exports' = exports /\ freed' = freed /\ toDpu' = toDpu
  BY Zenon DEF DpuExpand, hostVars
<1>2. HandshakeType /\ InRun /\ \A l \in freed : l \in Int /\ l < host_level - 1
  BY <1>1, Zenon DEF HandshakeInv
<1>3. toHost' = <<Control("EXPAND")>>
  BY <1>1, <1>2 DEF InRun, Nil
<1>4. dma_client_' = Table(level_', THREADS, THREADS + half)
  BY <1>1, <1>2, TableGrow, Zenon DEF InRun, Imported
<1>5. THREADS + half - mmap_to_recv_' = THREADS /\ mmap_to_recv_' \in 0..half
      /\ mmap_to_recv_' \in 0..THREADS
  BY <1>1, HalfFacts
<1>6. InExpand'
  BY <1>1, <1>2, <1>3, <1>4, <1>5, Zenon DEF InExpand, InRun, HostBack, Imported, Nil
<1>7. HandshakeType'
  BY <1>1, <1>2, <1>5, Zenon DEF HandshakeType, Flags
<1> QED
  BY <1>1, <1>2, <1>6, <1>7, Zenon DEF HandshakeInv

LEMMA DpuSendFinishStep == HandshakeInv /\ DpuSendFinish => HandshakeInv'
<1> SUFFICES ASSUME HandshakeInv, DpuSendFinish
             PROVE  HandshakeInv'
  OBVIOUS
<1>1. /\ dpuAt = "expand" /\ dpuAt' = "switch" /\ mmap_to_recv_ = 0
      /\ toHost' = Append(toHost, Control("EXPAND_FINISH"))
      /\ seeds' = seeds /\ seed_recved_' = seed_recved_ /\ in_init_' = in_init_
      /\ mmap_to_recv_' = mmap_to_recv_ /\ in_rehash_' = in_rehash_
      /\ level_' = level_ /\ dma_client_' = dma_client_
      /\ hostAt' = hostAt /\ host_in_rehash_' = host_in_rehash_ /\ host_level' = host_level
      /\ stop_' = stop_ /\ exports' = exports /\ freed' = freed /\ toDpu' = toDpu
  BY Zenon DEF DpuSendFinish, hostVars
<1>2. HandshakeType /\ InExpand /\ \A l \in freed : l \in Int /\ l < host_level - 1
  BY <1>1, Zenon DEF HandshakeInv
<1>3. mmap_to_recv_ # half /\ half - mmap_to_recv_ = half /\ THREADS + half - mmap_to_recv_ = THREADS + half
      /\ half \in Nat
  BY <1>1, HalfFacts
<1>4. /\ toHost = Nil /\ hostAt = "expand" /\ host_in_rehash_ /\ host_level = level_
      /\ Stream(Growth(level_), half, half, toDpu, exports)
  BY <1>1, <1>2, <1>3, Zenon DEF InExpand
<1>5. toDpu = <<>> /\ exports = <<>>
  <2>1. toDpu \in Seq(Message) /\ exports \in Seq(Message)
    BY <1>2, Zenon DEF HandshakeType
  <2> QED
    BY <1>3, <1>4, <2>1, StreamOver, Zenon
<1>6. toHost' = <<Control("EXPAND_FINISH")>>
  BY <1>1, <1>4 DEF Nil
<1>7. InFinish'
  BY <1>1, <1>2, <1>3, <1>4, <1>5, <1>6, Zenon DEF InFinish, InExpand, HandshakeType, Imported, Nil
<1>8. HandshakeType'
  BY <1>1, <1>2, Zenon DEF HandshakeType, Flags
<1> QED
  BY <1>1, <1>2, <1>7, <1>8, Zenon DEF HandshakeInv

(* The end of Expand: the clients of the old bottom level go. *)
LEMMA TableShift ==
    ASSUME NEW l \in Nat
    PROVE  SubSeq(Table(l, THREADS + half, THREADS + half), half + 1,
                  Len(Table(l, THREADS + half, THREADS + half)))
           = Table(l + 1, THREADS, THREADS)
<1> DEFINE s == Table(l, THREADS + half, THREADS + half)
           f == Table(l + 1, THREADS, THREADS)
           S == [level : Int, piece : Int]
<1>1. \A i \in 1 .. THREADS + half : Piece(l, i) \in S
  BY HalfFacts DEF Piece
<1>2. \A i \in 1..THREADS : Piece(l + 1, i) = Piece(l, i + half)
  BY HalfFacts DEF Piece
<1>3. \A i \in 1..THREADS : i + half \in 1 .. THREADS + half
  BY HalfFacts
<1> HIDE DEF Piece, S
<1>4. s \in Seq(S) /\ Len(s) = THREADS + half
      /\ \A i \in 1 .. THREADS + half : s[i] = Piece(l, i)
  BY <1>1, HalfFacts DEF Table
<1>5. \A i \in 1..THREADS : Piece(l + 1, i) \in S
  BY <1>1, <1>2, <1>3, Zenon
<1>6. f \in Seq(S) /\ Len(f) = THREADS
      /\ \A i \in 1..THREADS : f[i] = Piece(l + 1, i)
  BY <1>5, HalfFacts DEF Table
<1> HIDE DEF s, f
<1>7. half \in Nat /\ Len(s) = Len(f) + half /\ \A i \in 1..Len(f) : f[i] = s[i + half]
  BY <1>2, <1>3, <1>4, <1>6, HalfFacts, Zenon
<1>8. SubSeq(s, half + 1, Len(s)) = f
  BY <1>4, <1>6, <1>7, IsRest, Zenon
<1> QED
  BY <1>8, Zenon DEF s, f

LEMMA DpuSwitchStep == HandshakeInv /\ DpuSwitch => HandshakeInv'
<1> SUFFICES ASSUME HandshakeInv, DpuSwitch
             PROVE  HandshakeInv'
  OBVIOUS
<1>1. /\ dpuAt = "switch" /\ dpuAt' = "finish" /\ level_' = level_ + 1
      /\ dma_client_' = SubSeq(dma_client_, half + 1, Len(dma_client_))
      /\ seeds' = seeds /\ seed_recved_' = seed_recved_ /\ in_init_' = in_init_
      /\ mmap_to_recv_' = mmap_to_recv_ /\ in_rehash_' = in_rehash_
      /\ hostAt' = hostAt /\ host_in_rehash_' = host_in_rehash_ /\ host_level' = host_level
      /\ stop_' = stop_ /\ exports' = exports /\ freed' = freed
      /\ toHost' = toHost /\ toDpu' = toDpu
  BY Zenon DEF DpuSwitch, hostVars
<1>2. HandshakeType /\ InFinish /\ \A l \in freed : l \in Int /\ l < host_level - 1
  BY <1>1, Zenon DEF HandshakeInv
<1>3. level_' - 1 = level_ /\ level_' \in Nat /\ level_' >= START_LEVEL /\ level_ \in Nat
  BY <1>1, <1>2, HalfFacts DEF HandshakeType
<1>4. dma_client_' = Table(level_', THREADS, THREADS)
  BY <1>1, <1>2, <1>3, TableShift, Zenon DEF InFinish, Imported
<1>5. InFinish'
  BY <1>1, <1>2, <1>3, <1>4, Zenon DEF InFinish, HostBack, Imported, Nil
<1>6. HandshakeType'
  BY <1>1, <1>2, <1>3, Zenon DEF HandshakeType, Flags
<1> QED
  BY <1>1, <1>2, <1>5, <1>6, Zenon DEF HandshakeInv

LEMMA DpuExpandedStep == HandshakeInv /\ DpuExpanded => HandshakeInv'
<1> SUFFICES ASSUME HandshakeInv, DpuExpanded
             PROVE  HandshakeInv'
  OBVIOUS
<1>1. /\ dpuAt = "finish" /\ dpuAt' = "run" /\ ~in_rehash_
      /\ seeds' = seeds /\ seed_recved_' = seed_recved_ /\ in_init_' = in_init_
      /\ mmap_to_recv_' = mmap_to_recv_ /\ in_rehash_' = in_rehash_
      /\ level_' = level_ /\ dma_client_' = dma_client_
      /\ hostAt' = hostAt /\ host_in_rehash_' = host_in_rehash_ /\ host_level' = host_level
      /\ stop_' = stop_ /\ exports' = exports /\ freed' = freed
      /\ toHost' = toHost /\ toDpu' = toDpu
  BY Zenon DEF DpuExpanded, hostVars
<1>2. HandshakeType /\ InFinish /\ \A l \in freed : l \in Int /\ l < host_level - 1
  BY <1>1, Zenon DEF HandshakeInv
<1>3. level_ - 1 + 1 = level_
  BY <1>2 DEF HandshakeType
<1>4. InRun'
  BY <1>1, <1>2, <1>3, Zenon DEF InFinish, InRun, HostBack, Imported, Nil
<1>5. HandshakeType'
  BY <1>1, <1>2, Zenon DEF HandshakeType, Flags
<1> QED
  BY <1>1, <1>2, <1>4, <1>5, Zenon DEF HandshakeInv

LEMMA DpuEndStep == HandshakeInv /\ DpuEnd => HandshakeInv'
<1> SUFFICES ASSUME HandshakeInv, DpuEnd
             PROVE  HandshakeInv'
  OBVIOUS
<1>1. /\ dpuAt = "run" /\ dpuAt' = "stopped" /\ toHost' = Append(toHost, Control("EXIT"))
      /\ seeds' = seeds /\ seed_recved_' = seed_recved_ /\ in_init_' = in_init_
      /\ mmap_to_recv_' = mmap_to_recv_ /\ in_rehash_' = in_rehash_
      /\ level_' = level_ /\ dma_client_' = dma_client_
      /\ hostAt' = hostAt /\ host_in_rehash_' = host_in_rehash_ /\ host_level' = host_level
      /\ stop_' = stop_ /\ exports' = exports /\ freed' = freed /\ toDpu' = toDpu
  BY Zenon DEF DpuEnd, hostVars
<1>2. HandshakeType /\ InRun /\ \A l \in freed : l \in Int /\ l < host_level - 1
  BY <1>1, Zenon DEF HandshakeInv
<1>3. toHost' = <<Control("EXIT")>>
  BY <1>1, <1>2 DEF InRun, Nil
<1>4. InRun'
  BY <1>1, <1>2, <1>3, Zenon DEF InRun, HostBack, Imported, Nil
<1>5. HandshakeType'
  BY <1>1, <1>2, Zenon DEF HandshakeType, Flags
<1> QED
  BY <1>1, <1>2, <1>4, <1>5, Zenon DEF HandshakeInv

(* One Send of the host: the border of the stream moves. *)
LEMMA HostExportStep == HandshakeInv /\ HostExport => HandshakeInv'
<1> SUFFICES ASSUME HandshakeInv, HostExport
             PROVE  HandshakeInv'
  OBVIOUS
<1>1. /\ hostAt \in {"export", "expand"} /\ exports # Nil
      /\ toDpu' = Append(toDpu, Head(exports)) /\ exports' = Tail(exports)
      /\ hostAt' = IF hostAt = "export" /\ exports' = Nil THEN "run" ELSE hostAt
      /\ dpuAt' = dpuAt /\ seeds' = seeds /\ seed_recved_' = seed_recved_ /\ in_init_' = in_init_
      /\ mmap_to_recv_' = mmap_to_recv_ /\ in_rehash_' = in_rehash_
      /\ level_' = level_ /\ dma_client_' = dma_client_
      /\ host_in_rehash_' = host_in_rehash_ /\ host_level' = host_level
      /\ stop_' = stop_ /\ freed' = freed /\ toHost' = toHost
  BY Zenon DEF HostExport, dpuVars
<1>2. HandshakeType /\ \A l \in freed : l \in Int /\ l < host_level - 1
  BY Zenon DEF HandshakeInv
<1>3. /\ toDpu \in Seq(Message) /\ exports \in Seq(Message) /\ exports # <<>>
      /\ toDpu' \in Seq(Message) /\ exports' \in Seq(Message)
  <2>1. toDpu \in Seq(Message) /\ exports \in Seq(Message) /\ exports # <<>>
    BY <1>1, <1>2, Zenon DEF HandshakeType, Nil
  <2>2. Head(exports) \in Message /\ Tail(exports) \in Seq(Message)
    BY <2>1, HeadTailProperties
  <2> QED
    BY <1>1, <2>1, <2>2, AppendProperties
<1>4. ASSUME NEW all, NEW n \in Nat, NEW pos \in Nat, Stream(all, n, pos, toDpu, exports)
      PROVE  Stream(all, n, pos, toDpu', exports')
  BY <1>1, <1>3, <1>4, StreamSend, Zenon
<1>5. HandshakeType'
  BY <1>1, <1>2, <1>3, Zenon DEF HandshakeType, Flags
<1>6. ASSUME dpuAt = "init"
      PROVE  InStartUp'
  <2> DEFINE pos == IF seed_recved_ THEN 1 + THREADS - mmap_to_recv_ ELSE 0
  <2>1. InStartUp
    BY <1>6, Zenon DEF HandshakeInv
  <2>2. pos \in Nat /\ THREADS + 1 \in Nat
    BY <1>2, HalfFacts DEF HandshakeType
  <2>3. Stream(StartUp, THREADS + 1, pos, toDpu, exports)
    BY <2>1, Zenon DEF InStartUp
  <2>4. Stream(StartUp, THREADS + 1, pos, toDpu', exports')
    <3> HIDE DEF pos
    <3> QED
      BY <1>4, <2>2, <2>3, Zenon
  <2> QED
    BY <1>1, <2>1, <2>4, Zenon DEF InStartUp, Imported, Nil
<1>7. dpuAt \notin {"run", "stopped", "switch", "finish"}
  BY <1>1, Zenon DEF HandshakeInv, InRun, InFinish, HostBack
<1>8. ASSUME dpuAt = "expand"
      PROVE  InExpand'
  <2>1. InExpand /\ toHost = Nil /\ hostAt = "expand" /\ host_in_rehash_ /\ host_level = level_
        /\ Stream(Growth(level_), half, half - mmap_to_recv_, toDpu, exports)
    BY <1>1, <1>8, Zenon DEF HandshakeInv, InExpand, HostBack
  <2>2. half - mmap_to_recv_ \in Nat /\ half \in Nat
    BY <2>1, HalfFacts DEF InExpand
  <2>3. Stream(Growth(level_), half, half - mmap_to_recv_, toDpu', exports')
    BY <1>4, <2>1, <2>2, Zenon
  <2> QED
    BY <1>1, <2>1, <2>3, Zenon DEF InExpand, Imported, Nil
<1> QED
  BY <1>1, <1>2, <1>5, <1>6, <1>7, <1>8, Zenon DEF HandshakeInv, HandshakeType

(* comch_host_recv_callback *)
LEMMA HostReceiveStep == HandshakeInv /\ HostReceive => HandshakeInv'
<1> SUFFICES ASSUME HandshakeInv, HostReceive
             PROVE  HandshakeInv'
  OBVIOUS
<1> DEFINE signal == Head(toHost).signal
<1>1. /\ \/ hostAt = "run" /\ ~stop_
         \/ hostAt = "expand" /\ exports = Nil /\ host_in_rehash_
      /\ toHost # Nil /\ toHost' = Tail(toHost)
      /\ dpuAt' = dpuAt /\ seeds' = seeds /\ seed_recved_' = seed_recved_ /\ in_init_' = in_init_
      /\ mmap_to_recv_' = mmap_to_recv_ /\ in_rehash_' = in_rehash_
      /\ level_' = level_ /\ dma_client_' = dma_client_
      /\ host_level' = host_level /\ freed' = freed
  BY Zenon DEF HostReceive, dpuVars
<1>2. /\ signal = "EXPAND" =>
            /\ hostAt' = IF hostAt = "run" THEN "expand" ELSE "nested"
            /\ host_in_rehash_' = TRUE /\ exports' = Descriptors(Pieces(host_level + 1))
            /\ stop_' = stop_ /\ toDpu' = toDpu
      /\ signal = "EXPAND_FINISH" =>
            /\ host_in_rehash_' = FALSE /\ toDpu' = Append(toDpu, Control("EXPAND_FINISH"))
            /\ hostAt' = hostAt /\ exports' = exports /\ stop_' = stop_
      /\ signal = "EXIT" =>
            /\ stop_' = TRUE /\ hostAt' = hostAt /\ exports' = exports
            /\ host_in_rehash_' = host_in_rehash_ /\ toDpu' = toDpu
  BY Zenon DEF HostReceive
<1>3. HandshakeType /\ \A l \in freed : l \in Int /\ l < host_level - 1
  BY Zenon DEF HandshakeInv
<1>4. ASSUME NEW s, toHost = <<Control(s)>>
      PROVE  signal = s /\ toHost' = <<>>
  BY <1>1, <1>4 DEF Control
<1>5. dpuAt \in {"stopped", "expand", "switch", "finish"}
  BY <1>1, <1>3, Zenon DEF HandshakeInv, HandshakeType, InStartUp, InRun
<1>6. ASSUME dpuAt = "stopped"
      PROVE  HandshakeType' /\ InRun'
  <2>1. InRun /\ toHost = <<Control("EXIT")>> /\ hostAt = "run"
    BY <1>1, <1>6, Zenon DEF HandshakeInv, InRun, HostBack
  <2>2. /\ stop_' = TRUE /\ hostAt' = hostAt /\ exports' = exports /\ toHost' = <<>>
        /\ host_in_rehash_' = host_in_rehash_ /\ toDpu' = toDpu
    BY <1>2, <1>4, <2>1, Zenon
  <2>3. HandshakeType'
    BY <1>1, <1>3, <2>2, Zenon DEF HandshakeType, Flags
  <2> QED
    BY <1>1, <1>6, <2>1, <2>2, <2>3, Zenon DEF InRun, HostBack, Imported, Nil
<1>7. ASSUME dpuAt = "expand"
      PROVE  HandshakeType' /\ InExpand'
  <2>1. InExpand /\ toHost = <<Control("EXPAND")>> /\ toDpu = <<>> /\ mmap_to_recv_ = half
        /\ hostAt = "run" /\ host_level = level_
    BY <1>1, <1>7, Zenon DEF HandshakeInv, InExpand, HostBack, Nil
  <2>2. /\ hostAt' = "expand" /\ host_in_rehash_' = TRUE /\ stop_' = stop_ /\ toDpu' = toDpu
        /\ exports' = Descriptors(Pieces(level_ + 1)) /\ toHost' = <<>>
    BY <1>2, <1>4, <2>1, Zenon
  <2>3. level_ \in Nat /\ level_ >= 3
    BY <1>3, HalfFacts DEF HandshakeType
  <2>4. exports' = Growth(level_) /\ exports' \in Seq(Message) /\ Len(exports') = half
    BY <2>2, <2>3, GrowthMessages, Zenon
  <2>5. Stream(Growth(level_'), half, half - mmap_to_recv_', toDpu', exports')
    <3>1. half - mmap_to_recv_' = 0 /\ half \in Nat
      BY <1>1, <2>1, HalfFacts
    <3>2. Stream(exports', half, 0, <<>>, exports')
      BY <2>4, <3>1, StreamWhole, Zenon
    <3> QED
      BY <1>1, <2>1, <2>2, <2>4, <3>1, <3>2, Zenon
  <2>6. HandshakeType'
    BY <1>1, <1>3, <2>2, <2>4, Zenon DEF HandshakeType, Flags
  <2> QED
    BY <1>1, <2>1, <2>2, <2>5, <2>6, Zenon DEF InExpand, Imported, Nil
<1>8. ASSUME dpuAt \in {"switch", "finish"}
      PROVE  HandshakeType' /\ InFinish'
  <2> DEFINE l == IF dpuAt = "switch" THEN level_ ELSE level_ - 1
  <2>1. /\ InFinish /\ in_rehash_ /\ toHost = <<Control("EXPAND_FINISH")>> /\ toDpu = <<>>
        /\ hostAt = "expand" /\ host_level = l /\ exports = Nil
    BY <1>1, <1>8, Zenon DEF HandshakeInv, InFinish, Nil
  <2>2. /\ host_in_rehash_' = FALSE /\ toDpu' = Append(toDpu, Control("EXPAND_FINISH"))
        /\ hostAt' = hostAt /\ exports' = exports /\ stop_' = stop_ /\ toHost' = <<>>
    BY <1>2, <1>4, <2>1, Zenon
  <2>3. toDpu' = <<Control("EXPAND_FINISH")>> /\ Control("EXPAND_FINISH") \in Message
    BY <2>1, <2>2 DEF Control, Message
  <2>4. toDpu' \in Seq(Message)
    <3> HIDE DEF Message
    <3> QED
      BY <2>3
  <2>5. HandshakeType'
    BY <1>1, <1>3, <2>2, <2>4, Zenon DEF HandshakeType, Flags
  <2>6. host_level = (l + 1) - 1
    BY <1>3, <2>1 DEF HandshakeType
  <2> QED
    BY <1>1, <1>8, <2>1, <2>2, <2>3, <2>5, <2>6, Zenon DEF InFinish, HostBack, Imported, Nil
<1> QED
  BY <1>1, <1>3, <1>5, <1>6, <1>7, <1>8, Zenon DEF HandshakeInv

(* The rest of Host::Expand. *)
LEMMA HostExpandedStep == HandshakeInv /\ HostExpanded => HandshakeInv'
<1> SUFFICES ASSUME HandshakeInv, HostExpanded
             PROVE  HandshakeInv'
  OBVIOUS
<1>1. /\ hostAt = "expand" /\ exports = Nil /\ ~host_in_rehash_
      /\ host_level' = host_level + 1 /\ freed' = freed \cup {host_level - 1} /\ hostAt' = "run"
      /\ dpuAt' = dpuAt /\ seeds' = seeds /\ seed_recved_' = seed_recved_ /\ in_init_' = in_init_
      /\ mmap_to_recv_' = mmap_to_recv_ /\ in_rehash_' = in_rehash_
      /\ level_' = level_ /\ dma_client_' = dma_client_
      /\ host_in_rehash_' = host_in_rehash_ /\ stop_' = stop_ /\ exports' = exports
      /\ toHost' = toHost /\ toDpu' = toDpu
  BY Zenon DEF HostExpanded, dpuVars
<1>2. HandshakeType /\ \A l \in freed : l \in Int /\ l < host_level - 1
  BY Zenon DEF HandshakeInv
<1>3. host_level \in Nat /\ host_level + 1 \in Nat /\ host_level + 1 >= START_LEVEL
      /\ level_ \in Nat
  BY <1>2, HalfFacts DEF HandshakeType
<1>4. \A l \in freed' : l \in Int /\ l < host_level' - 1
  BY <1>1, <1>2, <1>3
<1>5. HandshakeType'
  BY <1>1, <1>2, <1>3, Zenon DEF HandshakeType, Flags
<1>6. dpuAt # "init"
  BY <1>1, Zenon DEF HandshakeInv, InStartUp
<1>7. ASSUME NEW l \in Int, HostBack(l)
      PROVE  host_level' = l
  <2>1. host_level = l - 1
    BY <1>1, <1>7, Zenon DEF HostBack
  <2> QED
    BY <1>1, <1>3, <2>1
<1>8. level_ \in Int /\ level_ + 1 \in Int /\ (level_ - 1) + 1 \in Int
  BY <1>3
<1>9. dpuAt \in {"run", "stopped"} => InRun'
  <2> SUFFICES ASSUME dpuAt \in {"run", "stopped"} PROVE InRun'
    OBVIOUS
  <2>1. InRun /\ HostBack(level_)
    BY Zenon DEF HandshakeInv, InRun
  <2>2. host_level' = level_
    BY <1>7, <1>8, <2>1, Zenon
  <2> QED
    BY <1>1, <2>1, <2>2, Zenon DEF InRun, Imported, HostBack
<1>10. dpuAt = "expand" => InExpand'
  <2> SUFFICES ASSUME dpuAt = "expand" PROVE InExpand'
    OBVIOUS
  <2>1. /\ InExpand /\ toHost = <<Control("EXPAND")>> /\ toDpu = Nil /\ mmap_to_recv_ = half
        /\ HostBack(level_)
    BY <1>1, Zenon DEF HandshakeInv, InExpand
  <2>2. host_level' = level_
    BY <1>7, <1>8, <2>1, Zenon
  <2> QED
    BY <1>1, <2>1, <2>2, Zenon DEF InExpand, Imported, HostBack
<1>11. dpuAt \in {"switch", "finish"} => InFinish'
  <2> SUFFICES ASSUME dpuAt \in {"switch", "finish"} PROVE InFinish'
    OBVIOUS
  <2> DEFINE l == IF dpuAt = "switch" THEN level_ ELSE level_ - 1
  <2>1. l + 1 \in Int
    BY <1>3
  <2>2. InFinish /\ HostBack(l + 1)
    BY <1>1, Zenon DEF HandshakeInv, InFinish
  <2>3. host_level' = l + 1
    <3> HIDE DEF l
    <3> QED
      BY <1>7, <2>1, <2>2, Zenon
  <2> QED
    BY <1>1, <2>2, <2>3, Zenon DEF InFinish, Imported, HostBack
<1> QED
  BY <1>1, <1>4, <1>5, <1>6, <1>9, <1>10, <1>11, Zenon DEF HandshakeInv

LEMMA HandshakeStep == HandshakeInv /\ [Next]_vars => HandshakeInv'
<1>1. HandshakeInv /\ UNCHANGED vars => HandshakeInv'
  <2> SUFFICES ASSUME HandshakeInv, UNCHANGED vars
               PROVE  HandshakeInv'
    OBVIOUS
  <2>1. /\ dpuAt' = dpuAt /\ seeds' = seeds /\ seed_recved_' = seed_recved_ /\ in_init_' = in_init_
        /\ mmap_to_recv_' = mmap_to_recv_ /\ in_rehash_' = in_rehash_
        /\ level_' = level_ /\ dma_client_' = dma_client_
        /\ hostAt' = hostAt /\ host_in_rehash_' = host_in_rehash_ /\ host_level' = host_level
        /\ stop_' = stop_ /\ exports' = exports /\ freed' = freed
        /\ toHost' = toHost /\ toDpu' = toDpu
    BY Zenon DEF vars, dpuVars, hostVars
  <2> QED
    BY <2>1, ZenonT(30) DEF HandshakeInv, HandshakeType, Flags, InStartUp, InRun, InExpand, InFinish,
                            HostBack, Imported
<1> QED
  BY <1>1, DpuReceiveStep, DpuReadyStep, DpuExpandStep, DpuSendFinishStep, DpuSwitchStep,
     DpuExpandedStep, DpuEndStep, HostExportStep, HostReceiveStep, HostExpandedStep, Zenon
     DEF Next, DpuSteps, HostSteps

------------------------------------------------------------------------------
(* What HandshakeInv says of the three properties. *)
LEMMA InvAligned == HandshakeInv => ClientsAligned
<1> SUFFICES ASSUME HandshakeInv, dpuAt = "run"
             PROVE  dma_client_ = Pieces(level_ - 1) \o Pieces(level_) /\ seeds = "host"
  BY Zenon DEF ClientsAligned
<1>1. level_ \in Int
  BY DEF HandshakeInv, HandshakeType
<1>2. dma_client_ = Table(level_, THREADS, THREADS) /\ seeds = "host"
  BY Zenon DEF HandshakeInv, InRun, Imported
<1>3. Table(level_, THREADS, THREADS) = [i \in 1..THREADS |-> Piece(level_, i)]
  BY HalfFacts DEF Table
<1>4. Pieces(level_ - 1) \o Pieces(level_) = [i \in 1..THREADS |-> Piece(level_, i)]
  BY <1>1, TwoLevels, Zenon
<1> QED
  BY <1>2, <1>3, <1>4, Zenon

LEMMA InvAwaited == HandshakeInv => DescriptorsAwaited
<1> SUFFICES ASSUME HandshakeInv, toDpu # <<>>, Head(toDpu).type = "DESCRIPTOR",
                    dpuAt \in {"init", "expand", "finish"}
             PROVE  /\ mmap_to_recv_ > 0 /\ (in_init_ \/ in_rehash_)
                    /\ ImportIndex \in DOMAIN dma_client_
  BY Zenon DEF DescriptorsAwaited, Nil
<1>1. /\ toDpu \in Seq(Message) /\ exports \in Seq(Message) /\ mmap_to_recv_ \in 0..THREADS
      /\ level_ \in Nat /\ level_ >= START_LEVEL
  BY Zenon DEF HandshakeInv, HandshakeType
<1>2. CASE dpuAt = "init"
  <2> DEFINE pos == IF seed_recved_ THEN 1 + THREADS - mmap_to_recv_ ELSE 0
  <2>1. /\ in_init_ = (mmap_to_recv_ # 0) /\ dma_client_ = Table(level_, THREADS - mmap_to_recv_, THREADS)
        /\ Stream(StartUp, THREADS + 1, pos, toDpu, exports)
    BY <1>2, Zenon DEF HandshakeInv, InStartUp, Imported
  <2>2. pos \in Nat /\ THREADS + 1 \in Nat
    BY <1>1, HalfFacts
  <2>3. Head(toDpu) = StartUp[pos + 1] /\ pos < THREADS + 1
    <3>1. Stream(StartUp, THREADS + 1, pos, toDpu, exports)
      BY <2>1
    <3>2. toDpu \in Seq(Message) /\ exports \in Seq(Message) /\ toDpu # <<>>
      BY <1>1
    <3> HIDE DEF pos
    <3> QED
      BY <2>2, <3>1, <3>2, StreamReceive, ZenonT(30)
  <2>4. seed_recved_
    <3> SUFFICES ASSUME ~seed_recved_ PROVE FALSE
      OBVIOUS
    <3>1. pos + 1 = 1
      OBVIOUS
    <3>2. Head(toDpu) = Seeds
      BY <2>3, <3>1, StartUpMessages, Zenon
    <3> QED
      BY <3>2 DEF Seeds
  <2>5. mmap_to_recv_ > 0 /\ mmap_to_recv_ # 0 /\ THREADS - mmap_to_recv_ + 1 \in 1..THREADS
    BY <1>1, <2>3, <2>4, HalfFacts
  <2>6. in_init_
    BY <2>1, <2>5, Zenon
  <2>7. DOMAIN dma_client_ = 1..THREADS
    BY <2>1 DEF Table
  <2>8. ImportIndex = THREADS - mmap_to_recv_ + 1
    BY <2>6, Zenon DEF ImportIndex
  <2> QED
    BY <2>5, <2>6, <2>7, <2>8, Zenon
<1>3. CASE dpuAt = "expand"
  <2>1. /\ in_rehash_ /\ ~in_init_ /\ mmap_to_recv_ \in 0..half
        /\ dma_client_ = Table(level_, THREADS + half - mmap_to_recv_, THREADS + half)
        /\ Stream(Growth(level_), half, half - mmap_to_recv_, toDpu, exports)
    BY <1>3, Zenon DEF HandshakeInv, InExpand, Imported, Nil
  <2>2. half - mmap_to_recv_ \in Nat /\ half \in Nat
    BY <2>1, HalfFacts
  <2>3. half - mmap_to_recv_ < half
    BY <1>1, <2>1, <2>2, StreamReceive, Zenon
  <2>4. mmap_to_recv_ > 0 /\ (THREADS + half) - mmap_to_recv_ + 1 \in 1 .. THREADS + half
    BY <2>1, <2>2, <2>3, HalfFacts
  <2>5. DOMAIN dma_client_ = 1 .. THREADS + half
    BY <2>1 DEF Table
  <2>6. ImportIndex = (THREADS + half) - mmap_to_recv_ + 1
    BY <2>1, Zenon DEF ImportIndex
  <2> QED
    BY <2>1, <2>4, <2>5, <2>6, Zenon
<1>4. CASE dpuAt = "finish"
  <2>1. toDpu = <<Control("EXPAND_FINISH")>>
    BY <1>4, Zenon DEF HandshakeInv, InFinish, Nil
  <2> QED
    BY <2>1 DEF Control
<1> QED
  BY <1>2, <1>3, <1>4, Zenon

LEMMA InvFreed == HandshakeInv => FreedUnused
<1> SUFFICES ASSUME HandshakeInv, NEW i \in DOMAIN dma_client_, dma_client_[i] # Nil,
                    dma_client_[i].level \in freed
             PROVE  dpuAt = "switch" /\ i <= half
  BY Zenon DEF FreedUnused
<1>1. /\ \A l \in freed : l \in Int /\ l < host_level - 1
      /\ level_ \in Nat /\ host_level \in Nat
      /\ dpuAt \in {"init", "run", "expand", "switch", "finish", "stopped"}
  BY Zenon DEF HandshakeInv, HandshakeType
<1>2. \E n, total : dma_client_ = Table(level_, n, total)
  BY <1>1, Zenon DEF HandshakeInv, InStartUp, InRun, InExpand, InFinish, Imported
<1>3. dma_client_[i] = Piece(level_, i) /\ i \in Int
  <2>1. PICK n, total : dma_client_ = Table(level_, n, total)
    BY <1>2
  <2> QED
    BY <2>1 DEF Table
<1>4. host_level <= IF dpuAt = "switch" THEN level_ + 1 ELSE level_
  <2>1. CASE dpuAt \in {"init", "run", "stopped", "expand"}
    BY <1>1, <2>1, SMT DEF HandshakeInv, InStartUp, InRun, InExpand, HostBack
  <2>2. CASE dpuAt \in {"switch", "finish"}
    BY <1>1, <2>2, SMT DEF HandshakeInv, InFinish, HostBack
  <2> QED
    BY <1>1, <2>1, <2>2
<1>5. /\ Piece(level_, i).level \in Int
      /\ Piece(level_, i).level >= IF i <= half THEN level_ - 1 ELSE level_
  BY <1>1, <1>3, HalfFacts DEF Piece
<1> QED
  BY <1>1, <1>3, <1>4, <1>5, HalfFacts

------------------------------------------------------------------------------
(* The DMA client *)
LEMMA ClientInit == Client!Init => ClientInv
<1> SUFFICES ASSUME Client!Init PROVE ClientInv
  OBVIOUS
<1>1. /\ queue = <<>> /\ client_stop_ = FALSE /\ served = <<>> /\ scheduled = 0
      /\ callerAt = "idle" /\ threadAt = "loop"
      /\ promise_ = [r \in 1..MaxRequests |-> "none"]
  BY Zenon DEF Client!Init, Client!Request
<1>2. client_stop_ \in BOOLEAN
  BY <1>1, Zenon
<1>3. InService = 0 /\ Pushed = 0
  BY <1>1 DEF InService, Pushed
<1> QED
  BY <1>1, <1>2, <1>3, TransportAssumption DEF ClientInv

(* A step of the client that moves no request. *)
LEMMA ClientFrame ==
    ASSUME ClientInv,
           queue' = queue, served' = served, scheduled' = scheduled, promise_' = promise_,
           request' = request, client_stop_' \in BOOLEAN,
           callerAt' \in {"idle", "push", "notify", "stopping", "join", "stopped"},
           threadAt' \in {"loop", "lock", "check", "block", "take", "dma", "done"},
           (threadAt' = "dma") <=> (threadAt = "dma"),
           (callerAt' = "push") <=> (callerAt = "push"),
           threadAt' = "take" => (queue # <<>> \/ client_stop_')
    PROVE  ClientInv'
<1>1. InService' = InService /\ Pushed' = Pushed
  BY Zenon DEF InService, Pushed
<1> QED
  BY <1>1, Zenon DEF ClientInv

LEMMA ClientCalls ==
    ASSUME ClientInv, Client!Notify \/ Client!Stop \/ Client!Join \/ Client!Loop \/ Client!Lock
                      \/ Client!Check \/ Client!Block \/ Client!WakeUp
    PROVE  ClientInv'
<1>1. /\ client_stop_ \in BOOLEAN
      /\ callerAt \in {"idle", "push", "notify", "stopping", "join", "stopped"}
      /\ threadAt \in {"loop", "lock", "check", "block", "take", "dma", "done"}
      /\ threadAt = "take" => (queue # <<>> \/ client_stop_)
  BY Zenon DEF ClientInv
<1>2. CASE Client!Notify
  BY <1>1, <1>2, ClientFrame, Zenon DEF Client!Notify
<1>3. CASE Client!Stop
  BY <1>1, <1>3, ClientFrame, Zenon DEF Client!Stop
<1>4. CASE Client!Join
  BY <1>1, <1>4, ClientFrame, Zenon DEF Client!Join
<1>5. CASE Client!Loop
  BY <1>1, <1>5, ClientFrame, Zenon DEF Client!Loop
<1>6. CASE Client!Lock
  BY <1>1, <1>6, ClientFrame, Zenon DEF Client!Lock
<1>7. CASE Client!Check
  BY <1>1, <1>7, ClientFrame, Zenon DEF Client!Check, Client!Predicate
<1>8. CASE Client!Block
  BY <1>1, <1>8, ClientFrame, Zenon DEF Client!Block
<1>9. CASE Client!WakeUp
  BY <1>1, <1>9, ClientFrame, Zenon DEF Client!WakeUp
<1> QED
  BY <1>2, <1>3, <1>4, <1>5, <1>6, <1>7, <1>8, <1>9

(* ScheduleReadWrite: the promise is pending before the request is queued, ... *)
LEMMA ClientSchedule == ClientInv /\ Client!Schedule => ClientInv'
<1> SUFFICES ASSUME ClientInv, Client!Schedule
             PROVE  ClientInv'
  OBVIOUS
<1>1. /\ callerAt = "idle" /\ scheduled < MaxRequests /\ scheduled' = scheduled + 1
      /\ promise_' = [promise_ EXCEPT ![scheduled + 1] = "pending"] /\ callerAt' = "push"
      /\ queue' = queue /\ client_stop_' = client_stop_ /\ served' = served
      /\ threadAt' = threadAt /\ request' = request
  BY Zenon DEF Client!Schedule
<1>2. /\ scheduled \in 0..MaxRequests /\ queue \in Seq(Nat) /\ served \in Seq(Nat)
      /\ promise_ \in [1..MaxRequests -> {"none", "pending", "success", "failure"}]
      /\ \A r \in 1..MaxRequests :
            /\ (promise_[r] \in {"success", "failure"}) <=> (r <= Len(served))
            /\ (promise_[r] = "none") <=> (r > scheduled)
      /\ Len(served) + InService + Len(queue) = Pushed
  BY Zenon DEF ClientInv
<1>3. InService' = InService /\ Pushed' = Pushed /\ InService \in Nat
  BY <1>1, <1>2 DEF InService, Pushed
<1>4. scheduled' \in 0..MaxRequests /\ scheduled' > 0
  BY <1>1, <1>2, TransportAssumption
<1>5. Len(served) <= scheduled
  BY <1>1, <1>2, <1>3 DEF Pushed
<1>6. /\ promise_' \in [1..MaxRequests -> {"none", "pending", "success", "failure"}]
      /\ \A r \in 1..MaxRequests :
            /\ (promise_'[r] \in {"success", "failure"}) <=> (r <= Len(served))
            /\ (promise_'[r] = "none") <=> (r > scheduled')
  <2>1. promise_' \in [1..MaxRequests -> {"none", "pending", "success", "failure"}]
    BY <1>1, <1>2, Zenon
  <2>2. ASSUME NEW r \in 1..MaxRequests
        PROVE  /\ (promise_'[r] \in {"success", "failure"}) <=> (r <= Len(served))
               /\ (promise_'[r] = "none") <=> (r > scheduled')
    <3>1. CASE r = scheduled + 1
      <4>1. promise_'[r] = "pending"
        BY <1>1, <1>2, <3>1
      <4>2. ~(r <= Len(served)) /\ ~(r > scheduled')
        BY <1>1, <1>2, <1>5, <3>1
      <4> QED
        BY <4>1, <4>2
    <3>2. CASE r # scheduled + 1
      <4>1. promise_'[r] = promise_[r]
        BY <1>1, <1>2, <3>2
      <4>2. (r > scheduled') <=> (r > scheduled)
        BY <1>1, <1>2, <3>2
      <4> QED
        BY <1>2, <4>1, <4>2, Zenon
    <3> QED
      BY <3>1, <3>2
  <2> QED
    BY <2>1, <2>2
<1> QED
  BY <1>1, <1>3, <1>4, <1>6, Zenon DEF ClientInv

(* ... and queued behind all others, ... *)
LEMMA ClientPush == ClientInv /\ Client!Push => ClientInv'
<1> SUFFICES ASSUME ClientInv, Client!Push
             PROVE  ClientInv'
  OBVIOUS
<1>1. /\ callerAt = "push" /\ queue' = Append(queue, scheduled) /\ callerAt' = "notify"
      /\ scheduled' = scheduled /\ promise_' = promise_ /\ client_stop_' = client_stop_
      /\ served' = served /\ threadAt' = threadAt /\ request' = request
  BY Zenon DEF Client!Push
<1>2. /\ scheduled \in Nat /\ scheduled > 0 /\ queue \in Seq(Nat) /\ served \in Seq(Nat)
      /\ Len(served) + InService + Len(queue) = scheduled - 1
      /\ \A i \in 1..Len(queue) : queue[i] = Len(served) + InService + i
  BY <1>1 DEF ClientInv, Pushed
<1>3. InService' = InService /\ Pushed' = scheduled /\ InService \in Nat
  BY <1>1 DEF InService, Pushed
<1> HIDE DEF InService, Pushed
<1>4. /\ queue' \in Seq(Nat) /\ Len(queue') = Len(queue) + 1
      /\ \A i \in 1..Len(queue) : queue'[i] = queue[i]
      /\ queue'[Len(queue) + 1] = scheduled
  BY <1>1, <1>2, AppendProperties
<1>5. Len(served) + InService + Len(queue') = scheduled
  BY <1>2, <1>3, <1>4
<1>6. \A i \in 1..Len(queue') : queue'[i] = Len(served) + InService + i
  <2> SUFFICES ASSUME NEW i \in 1..Len(queue')
               PROVE  queue'[i] = Len(served) + InService + i
    OBVIOUS
  <2>1. CASE i \in 1..Len(queue)
    BY <1>2, <1>4, <2>1, Zenon
  <2>2. CASE i = Len(queue) + 1
    <3>1. Len(served) + InService + i = scheduled
      BY <1>2, <1>3, <2>2
    <3> QED
      BY <1>4, <2>2, <3>1, Zenon
  <2>3. i \in 1..Len(queue) \/ i = Len(queue) + 1
    BY <1>2, <1>4
  <2> QED
    BY <2>1, <2>2, <2>3, Zenon
<1>7. queue' # <<>>
  BY <1>4, <1>2
<1> QED
  BY <1>1, <1>3, <1>4, <1>5, <1>6, <1>7, Zenon DEF ClientInv

(* ... from where ProcessQueue takes the oldest request ... *)
LEMMA ClientTake == ClientInv /\ Client!Take => ClientInv'
<1> SUFFICES ASSUME ClientInv, Client!Take
             PROVE  ClientInv'
  OBVIOUS
<1>1. /\ threadAt = "take" /\ promise_' = promise_ /\ served' = served /\ scheduled' = scheduled
      /\ callerAt' = callerAt /\ client_stop_' = client_stop_
  BY Zenon DEF Client!Take
<1>2. CASE client_stop_
  <2>1. threadAt' = "done" /\ queue' = queue /\ request' = request
    BY <1>2, Zenon DEF Client!Take
  <2>2. client_stop_ \in BOOLEAN
        /\ callerAt \in {"idle", "push", "notify", "stopping", "join", "stopped"}
    BY Zenon DEF ClientInv
  <2> QED
    BY <1>1, <2>1, <2>2, ClientFrame, Zenon
<1>3. CASE ~client_stop_
  <2>1. threadAt' = "dma" /\ request' = Head(queue) /\ queue' = Tail(queue)
    BY <1>3, Zenon DEF Client!Take
  <2>2. /\ queue \in Seq(Nat) /\ served \in Seq(Nat) /\ queue # <<>> /\ scheduled \in Nat
        /\ InService = 0 /\ Len(served) + InService + Len(queue) = Pushed
        /\ \A i \in 1..Len(queue) : queue[i] = Len(served) + InService + i
    BY <1>1, <1>3 DEF ClientInv, InService
  <2>3. InService' = 1 /\ Pushed' = Pushed /\ Pushed \in Int
    BY <1>1, <2>1, <2>2 DEF InService, Pushed
  <2> HIDE DEF InService, Pushed
  <2>4. /\ Len(queue) \in Nat /\ Len(queue) > 0 /\ Len(served) \in Nat
        /\ queue' \in Seq(Nat) /\ Len(queue') = Len(queue) - 1 /\ request' = queue[1]
        /\ \A i \in 1 .. Len(queue) - 1 : queue'[i] = queue[i + 1]
    BY <2>1, <2>2, HeadTailProperties, EmptySeq
  <2>5. request' = Len(served) + 1 /\ Len(served) + 1 + Len(queue') = Pushed
    BY <2>2, <2>4
  <2>6. \A i \in 1..Len(queue') : queue'[i] = Len(served) + 1 + i
    BY <2>2, <2>4
  <2> QED
    BY <1>1, <2>1, <2>3, <2>4, <2>5, <2>6, Zenon DEF ClientInv
<1> QED
  BY <1>2, <1>3

(* ... and sets its promise when the DMA has ended. *)
LEMMA ClientDma == ClientInv /\ Client!Dma => ClientInv'
<1> SUFFICES ASSUME ClientInv, Client!Dma
             PROVE  ClientInv'
  OBVIOUS
<1>1. /\ threadAt = "dma" /\ served' = Append(served, request) /\ threadAt' = "loop"
      /\ queue' = queue /\ scheduled' = scheduled
      /\ callerAt' = callerAt /\ client_stop_' = client_stop_ /\ request' = request
  BY Zenon DEF Client!Dma
<1>2. PICK end \in {"success", "failure"} : promise_' = [promise_ EXCEPT ![request] = end]
  BY Zenon DEF Client!Dma, Client!Ended
<1>3. /\ queue \in Seq(Nat) /\ served \in Seq(Nat) /\ scheduled \in 0..MaxRequests
      /\ InService = 1 /\ Len(served) + InService + Len(queue) = Pushed
      /\ request = Len(served) + 1
      /\ \A i \in 1..Len(served) : served[i] = i
      /\ \A i \in 1..Len(queue) : queue[i] = Len(served) + InService + i
      /\ promise_ \in [1..MaxRequests -> {"none", "pending", "success", "failure"}]
      /\ \A r \in 1..MaxRequests :
            /\ (promise_[r] \in {"success", "failure"}) <=> (r <= Len(served))
            /\ (promise_[r] = "none") <=> (r > scheduled)
  BY <1>1, Zenon DEF ClientInv, InService
<1>4. InService' = 0 /\ Pushed' = Pushed /\ Pushed <= scheduled /\ Pushed \in Int
  BY <1>1, <1>3 DEF InService, Pushed
<1> HIDE DEF InService, Pushed
<1>5. /\ Len(served) \in Nat /\ Len(queue) \in Nat
      /\ served' \in Seq(Nat) /\ Len(served') = Len(served) + 1
      /\ \A i \in 1..Len(served) : served'[i] = served[i]
      /\ served'[Len(served) + 1] = request
  <2>1. Len(served) \in Nat /\ Len(queue) \in Nat /\ request \in Nat
    BY <1>3
  <2> QED
    BY <1>1, <1>3, <2>1, AppendProperties
<1>6. Len(served') + 0 + Len(queue) = Pushed
  BY <1>3, <1>5
<1>7. \A i \in 1..Len(served') : served'[i] = i
  <2> SUFFICES ASSUME NEW i \in 1..Len(served')
               PROVE  served'[i] = i
    OBVIOUS
  <2>1. i \in 1..Len(served) \/ i = Len(served) + 1
    BY <1>5
  <2> QED
    BY <1>3, <1>5, <2>1, Zenon
<1>8. \A i \in 1..Len(queue) : queue[i] = Len(served') + 0 + i
  BY <1>3, <1>5
<1>9. request \in 1..MaxRequests /\ request <= scheduled /\ MaxRequests \in Nat
  BY <1>3, <1>4, <1>5, TransportAssumption
<1>10. /\ promise_' \in [1..MaxRequests -> {"none", "pending", "success", "failure"}]
       /\ \A r \in 1..MaxRequests :
             /\ (promise_'[r] \in {"success", "failure"}) <=> (r <= Len(served'))
             /\ (promise_'[r] = "none") <=> (r > scheduled)
  <2>1. promise_' \in [1..MaxRequests -> {"none", "pending", "success", "failure"}]
    BY <1>2, <1>3, <1>9
  <2>2. ASSUME NEW r \in 1..MaxRequests
        PROVE  /\ (promise_'[r] \in {"success", "failure"}) <=> (r <= Len(served'))
               /\ (promise_'[r] = "none") <=> (r > scheduled)
    <3>1. CASE r = request
      <4>1. promise_'[r] = end
        BY <1>2, <1>3, <1>9, <3>1
      <4>2. r <= Len(served') /\ ~(r > scheduled)
        BY <1>3, <1>5, <1>9, <3>1
      <4> QED
        BY <4>1, <4>2
    <3>2. CASE r # request
      <4>1. promise_'[r] = promise_[r]
        BY <1>2, <1>3, <3>2
      <4>2. (r <= Len(served')) <=> (r <= Len(served))
        BY <1>3, <1>5, <3>2
      <4> QED
        BY <1>3, <4>1, <4>2, Zenon
    <3> QED
      BY <3>1, <3>2
  <2> QED
    BY <2>1, <2>2
<1> QED
  BY <1>1, <1>4, <1>5, <1>6, <1>7, <1>8, <1>10, Zenon DEF ClientInv

------------------------------------------------------------------------------
(* The client in the DPU *)

(* A step of the composition is a step of the handshake, or leaves it alone. *)
LEMMA TransportIsHandshake == [TransportNext]_allVars => [Next]_vars
BY Zenon DEF TransportNext, allVars, Use, Drop, NextRequest, Spurious, Destroy, WorkerSteps, SendFinish,
             Switch, Messages, HostProcess, InClient, ClientThread, Next, DpuSteps

LEMMA ClientStep == ClientInv /\ [TransportNext]_allVars => ClientInv'
<1> SUFFICES ASSUME ClientInv, [TransportNext]_allVars
             PROVE  ClientInv'
  OBVIOUS
<1>1. CASE UNCHANGED clientVars
  <2>1. /\ queue' = queue /\ served' = served /\ scheduled' = scheduled /\ promise_' = promise_
        /\ request' = request /\ client_stop_' = client_stop_
        /\ callerAt' = callerAt /\ threadAt' = threadAt
    BY <1>1, Zenon DEF clientVars
  <2>2. /\ client_stop_ \in BOOLEAN
        /\ callerAt \in {"idle", "push", "notify", "stopping", "join", "stopped"}
        /\ threadAt \in {"loop", "lock", "check", "block", "take", "dma", "done"}
        /\ threadAt = "take" => (queue # <<>> \/ client_stop_)
    BY Zenon DEF ClientInv
  <2> QED
    BY <2>1, <2>2, ClientFrame, Zenon
<1>2. CASE Client!Next
  BY <1>2, ClientCalls, ClientSchedule, ClientPush, ClientTake, ClientDma, Zenon
     DEF Client!Next, Client!CallerSteps, Client!ThreadSteps
<1>3. UNCHANGED clientVars \/ Client!Next
  BY Zenon DEF TransportNext, allVars, Use, Drop, NextRequest, Spurious, Destroy, WorkerSteps,
               SendFinish, Switch, Messages, HostProcess, InClient, ClientThread, Client!Next
<1> QED
  BY <1>1, <1>2, <1>3

(* The requests without an answer: only Schedule adds one. *)
Quiet == Client!CallerSteps \/ Client!Stop \/ Client!ThreadSteps \/ Client!WakeUp \/ UNCHANGED clientVars

LEMMA PendingStep ==
    ASSUME ClientInv, Quiet
    PROVE  Pending' \subseteq Pending
<1>1. promise_ \in [1..MaxRequests -> {"none", "pending", "success", "failure"}]
      /\ scheduled \in 0..MaxRequests /\ MaxRequests \in Nat
  BY TransportAssumption, Zenon DEF ClientInv
<1>2. CASE Client!Dma
  <2>1. PICK end \in {"success", "failure"} : promise_' = [promise_ EXCEPT ![request] = end]
    BY <1>2, Zenon DEF Client!Dma, Client!Ended
  <2>2. scheduled' = scheduled
    BY <1>2, Zenon DEF Client!Dma
  <2>3. ASSUME NEW r \in 1..scheduled, promise_'[r] = "pending"
        PROVE  promise_[r] = "pending"
    <3>1. r \in 1..MaxRequests
      BY <1>1
    <3> QED
      BY <1>1, <2>1, <2>3, <3>1
  <2> QED
    BY <2>2, <2>3, Zenon DEF Pending
<1>3. CASE ~Client!Dma
  <2>1. promise_' = promise_ /\ scheduled' = scheduled
    BY <1>3, Zenon DEF Quiet, Client!CallerSteps, Client!ThreadSteps, Client!Push, Client!Notify,
        Client!Join, Client!Stop, Client!Loop, Client!Lock, Client!Check, Client!Block, Client!Take,
        Client!WakeUp, clientVars
  <2> QED
    BY <2>1, Zenon DEF Pending
<1> QED
  BY <1>2, <1>3

LEMMA WorkerStep == TransportInv /\ [TransportNext]_allVars => WorkerInv'
<1> SUFFICES ASSUME TransportInv, [TransportNext]_allVars
             PROVE  WorkerInv'
  OBVIOUS
<1>1. HandshakeInv /\ ClientInv /\ WorkerInv
  BY Zenon DEF TransportInv
<1>2. Client!Next \/ UNCHANGED clientVars
  BY Zenon DEF TransportNext, allVars, Use, Drop, NextRequest, Spurious, Destroy, WorkerSteps,
               SendFinish, Switch, Messages, HostProcess, InClient, ClientThread, Client!Next
<1>3. callerAt = "stopped" => callerAt' = "stopped" /\ threadAt' = threadAt
  <2> SUFFICES ASSUME callerAt = "stopped"
               PROVE  callerAt' = "stopped" /\ threadAt' = threadAt
    OBVIOUS
  <2>1. threadAt = "done"
    BY <1>1, Zenon DEF WorkerInv
  <2> QED
    BY <1>2, <2>1, Zenon DEF Client!Next, Client!CallerSteps, Client!ThreadSteps, Client!Push,
        Client!Notify, Client!Join, Client!Stop, Client!Loop, Client!Lock, Client!Check, Client!Block,
        Client!Take, Client!Dma, Client!WakeUp, Client!Schedule, clientVars
<1>4. callerAt # "stopped" /\ callerAt' = "stopped" => threadAt' = "done"
  BY <1>2, Zenon DEF Client!Next, Client!CallerSteps, Client!ThreadSteps, Client!Push,
        Client!Notify, Client!Join, Client!Stop, Client!Loop, Client!Lock, Client!Check, Client!Block,
        Client!Take, Client!Dma, Client!WakeUp, Client!Schedule, clientVars
<1>5. level_' = level_ \/ callerAt' = "stopped"
  BY Zenon DEF TransportNext, allVars, Use, Drop, NextRequest, Spurious, Destroy, WorkerSteps,
               SendFinish, Switch, Messages, HostProcess, InClient, ClientThread, vars, dpuVars, hostVars,
               clientVars, DpuExpand, DpuEnd, DpuSendFinish, DpuReceive, DpuReady, DpuExpanded,
               HostSteps, HostExport, HostReceive, HostExpanded
<1>6. dropped \subseteq dropped'
  BY Zenon DEF TransportNext, allVars, Use, Drop, NextRequest, Spurious, Destroy, WorkerSteps,
               SendFinish, Switch, Messages, HostProcess, InClient, ClientThread
<1>7. \/ dpuAt' = dpuAt /\ Quiet
      \/ dpuAt' \in {"run", "expand"}
      \/ Pending \subseteq dropped /\ UNCHANGED clientVars
  BY <1>1, ZenonT(60) DEF Quiet, WorkerInv, TransportNext, allVars, Use, Drop, NextRequest, Spurious, Destroy,
               WorkerSteps, SendFinish, Switch, Messages, HostProcess, InClient, ClientThread, vars,
               dpuVars, hostVars, DpuExpand, DpuEnd, DpuSendFinish, DpuReceive, DpuReady,
               DpuExpanded, DpuSwitch, HostSteps, HostExport, HostReceive, HostExpanded, WorkerFree
<1>8. dpuAt' \notin {"run", "expand"} => Pending' \subseteq dropped'
  <2> SUFFICES ASSUME dpuAt' \notin {"run", "expand"}
               PROVE  Pending' \subseteq dropped'
    OBVIOUS
  <2>1. CASE dpuAt' = dpuAt /\ Quiet
    <3>1. Pending \subseteq dropped
      BY <1>1, <2>1, Zenon DEF WorkerInv
    <3>2. Pending' \subseteq Pending
      BY <1>1, <2>1, PendingStep, Zenon
    <3> QED
      BY <1>6, <3>1, <3>2, Zenon
  <2>2. CASE Pending \subseteq dropped /\ UNCHANGED clientVars
    <3>1. Pending' = Pending
      BY <2>2, Zenon DEF Pending, clientVars
    <3> QED
      BY <1>6, <2>2, <3>1, Zenon
  <2> QED
    BY <1>7, <2>1, <2>2, Zenon
<1> QED
  BY <1>1, <1>3, <1>4, <1>5, <1>8, Zenon DEF WorkerInv

LEMMA TransportAlways == TransportSpec => []TransportInv
<1>1. TransportInit => TransportInv
  <2>1. TransportInit => WorkerInv
    <3> SUFFICES ASSUME TransportInit PROVE WorkerInv
      OBVIOUS
    <3>1. scheduled = 0 /\ callerAt = "idle" /\ level_ = START_LEVEL
      BY Zenon DEF TransportInit, Init, Client!Init
    <3>2. Pending = {}
      BY <3>1 DEF Pending
    <3> QED
      BY <3>1, <3>2, Zenon DEF WorkerInv
  <2> QED
    BY <2>1, HandshakeInit, ClientInit, Zenon DEF TransportInit, TransportInv
<1>2. TransportInv /\ [TransportNext]_allVars => TransportInv'
  BY TransportIsHandshake, HandshakeStep, ClientStep, WorkerStep, Zenon DEF TransportInv
<1> QED
  BY <1>1, <1>2, PTL DEF TransportSpec

(* The DMA that is under way, if the worker waits for it, is one of the requests without an *)
(* answer, so the DPU is serving or rehashing, with the client still in the table.          *)
LEMMA InvLive == TransportInv => DmaOnLiveMemory
<1> SUFFICES ASSUME TransportInv, threadAt = "dma", request \notin dropped
             PROVE  /\ level_ = START_LEVEL
                    /\ dma_client_[1] = [level |-> START_LEVEL - 1, piece |-> 1]
                    /\ START_LEVEL - 1 \notin freed
  BY Zenon DEF DmaOnLiveMemory
<1>1. HandshakeInv /\ ClientInv /\ WorkerInv
  BY Zenon DEF TransportInv
<1>2. level_ = START_LEVEL
  BY <1>1, Zenon DEF WorkerInv
<1>3. request \in Pending
  <2>1. /\ scheduled \in 0..MaxRequests /\ request = Len(served) + 1 /\ Len(served) \in Nat
        /\ Len(queue) \in Nat
        /\ Len(served) + InService + Len(queue) = Pushed
        /\ promise_ \in [1..MaxRequests -> {"none", "pending", "success", "failure"}]
        /\ \A r \in 1..MaxRequests :
              /\ (promise_[r] \in {"success", "failure"}) <=> (r <= Len(served))
              /\ (promise_[r] = "none") <=> (r > scheduled)
    BY <1>1, LenProperties DEF ClientInv
  <2>2. Pushed <= scheduled /\ InService = 1 /\ Pushed \in Int
    BY <2>1 DEF Pushed, InService
  <2> HIDE DEF Pushed, InService
  <2>3. request \in 1..scheduled /\ request \in 1..MaxRequests
        /\ ~(request <= Len(served)) /\ ~(request > scheduled)
    BY <2>1, <2>2, TransportAssumption
  <2>4. promise_[request] = "pending"
    BY <2>1, <2>3
  <2> QED
    BY <2>3, <2>4, Zenon DEF Pending
<1>4. dpuAt \in {"run", "expand"}
  BY <1>1, <1>3, Zenon DEF WorkerInv
<1>5. /\ \A l \in freed : l \in Int /\ l < host_level - 1
      /\ level_ \in Nat /\ host_level \in Nat
  BY <1>1, Zenon DEF HandshakeInv, HandshakeType
<1>6. host_level <= level_
  BY <1>1, <1>4, <1>5 DEF HandshakeInv, InRun, InExpand, HostBack
<1>7. \E n, total \in Nat : 1 <= n /\ 1 <= total /\ dma_client_ = Table(level_, n, total)
  <2>1. CASE dpuAt = "run"
    <3>1. THREADS \in Nat /\ 1 <= THREADS
      BY HalfFacts
    <3> QED
      BY <1>1, <2>1, <3>1, Zenon DEF HandshakeInv, InRun, Imported
  <2>2. CASE dpuAt = "expand"
    <3>1. mmap_to_recv_ \in 0..half
      BY <1>1, <2>2, Zenon DEF HandshakeInv, InExpand
    <3>2. THREADS + half - mmap_to_recv_ \in Nat /\ 1 <= THREADS + half - mmap_to_recv_
          /\ THREADS + half \in Nat /\ 1 <= THREADS + half
      BY <3>1, HalfFacts
    <3> QED
      BY <1>1, <2>2, <3>2, Zenon DEF HandshakeInv, InExpand, Imported
  <2> QED
    BY <1>4, <2>1, <2>2
<1>8. dma_client_[1] = Piece(level_, 1)
  BY <1>7 DEF Table
<1>9. Piece(level_, 1) = [level |-> START_LEVEL - 1, piece |-> 1]
  BY <1>2, HalfFacts DEF Piece
<1>10. START_LEVEL - 1 \notin freed
  BY <1>2, <1>5, <1>6, HalfFacts
<1> QED
  BY <1>2, <1>8, <1>9, <1>10, Zenon

LEMMA InvOrder == ClientInv => InOrder
<1> SUFFICES ASSUME ClientInv PROVE InOrder
  OBVIOUS
<1>1. DOMAIN served = 1..Len(served)
  BY LenProperties DEF ClientInv
<1> QED
  BY <1>1, Zenon DEF ClientInv, InOrder, Client!InOrder, Client!Request, Client!Ended

------------------------------------------------------------------------------
(* The results *)

(* The clients of a serving DPU reach the pieces of its two levels in order and it hashes with *)
(* the host's seeds, for any even THREADS, any START_LEVEL and any number of Expands.          *)
THEOREM AlwaysAligned == TransportSpec => []ClientsAligned
<1>1. TransportInv => ClientsAligned
  BY InvAligned, Zenon DEF TransportInv
<1> QED
  BY <1>1, TransportAlways, PTL

(* The two ENSUREs of comch_dpu_recv_callback never fail, and the import is inside the vector. *)
THEOREM AlwaysAwaited == TransportSpec => []DescriptorsAwaited
<1>1. TransportInv => DescriptorsAwaited
  BY InvAwaited, Zenon DEF TransportInv
<1> QED
  BY <1>1, TransportAlways, PTL

(* When Host::Expand has freed a level, no client of the DPU reaches it but those that *)
(* Dpu::Expand destroys next, its rehashing done.                                       *)
THEOREM AlwaysFreedUnused == TransportSpec => []FreedUnused
<1>1. TransportInv => FreedUnused
  BY InvFreed, Zenon DEF TransportInv
<1> QED
  BY <1>1, TransportAlways, PTL

(* ProcessQueue does the DMAs in the order of ScheduleReadWrite and sets each promise once, for *)
(* any number of requests and wherever notifications, spurious wake-ups and Stop fall.         *)
THEOREM AlwaysInOrder == TransportSpec => []InOrder
<1>1. TransportInv => InOrder
  BY InvOrder, Zenon DEF TransportInv
<1> QED
  BY <1>1, TransportAlways, PTL

(* A DMA that the worker waits for is on memory the client has imported and the host has not *)
(* freed, through every Expand and the end of the DPU.                                        *)
THEOREM AlwaysLive == TransportSpec => []DmaOnLiveMemory
BY InvLive, TransportAlways, PTL
==============================================================================
