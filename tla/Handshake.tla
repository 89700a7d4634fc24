------------------------------ MODULE Handshake ------------------------------
(***************************************************************************)
(* How the DPU learns of the host's memory: the messages of the two        *)
(* constructors, of Dpu::Expand and of Host::Expand, and the callbacks     *)
(* that receive them (levelkv/src/dpu/dpu.cpp, levelkv/src/host/host.cpp). *)
(* The channel (comch) is external: ordered, without loss.  A process      *)
(* receives only where it calls Progress.                                  *)
(***************************************************************************)
EXTENDS Integers, Sequences

CONSTANTS THREADS, START_LEVEL,
          MaxExpands    \* bound: times the table grows

ASSUME HandshakeAssumption ==
    /\ THREADS \in Nat \ {0} /\ THREADS % 2 = 0
    /\ START_LEVEL \in Nat /\ START_LEVEL >= 3
    /\ MaxExpands \in Nat

VARIABLES
    dpuAt,              \* where the DPU is
    seeds,              \* whose seeds the DPU hashes with
    in_init_, seed_recved_, mmap_to_recv_, in_rehash_, level_,
    dma_client_,        \* dma_client_[i]: the memory it imported, or Nil
    hostAt, host_in_rehash_, host_level, stop_,
    dma_server,         \* the memory of bl_dma_server_, then of tl_dma_server_
    exports,            \* what the host has still to send
    freed,              \* levels whose memory the host has freed
    toHost, toDpu

dpuVars == <<dpuAt, seeds, in_init_, seed_recved_, mmap_to_recv_, in_rehash_, level_, dma_client_>>
hostVars == <<hostAt, host_in_rehash_, host_level, stop_, dma_server, exports, freed>>
vars == <<dpuVars, hostVars, toHost, toDpu>>

Nil == <<>>
half == THREADS \div 2

\* The pieces of a level, each exported by one DMA server.
Pieces(level) == [i \in 1..half |-> [level |-> level, piece |-> i]]

Descriptor(m) == [type |-> "DESCRIPTOR", memory |-> m]
Seeds == [type |-> "SEEDS"]
Control(signal) == [type |-> "CONTROL", signal |-> signal]

Descriptors(ms) == [i \in DOMAIN ms |-> Descriptor(ms[i])]

Init ==
    /\ dpuAt = "init" /\ seeds = "dpu"
    /\ in_init_ = TRUE /\ seed_recved_ = FALSE /\ mmap_to_recv_ = THREADS
    /\ in_rehash_ = FALSE /\ level_ = START_LEVEL
    /\ dma_client_ = [i \in 1..THREADS |-> Nil]
    /\ hostAt = "export" /\ host_in_rehash_ = FALSE /\ host_level = START_LEVEL /\ stop_ = FALSE
    /\ dma_server = Pieces(START_LEVEL - 1) \o Pieces(START_LEVEL)
    /\ exports = <<Seeds>> \o Descriptors(dma_server)
    /\ freed = {}
    /\ toHost = Nil /\ toDpu = Nil

------------------------------------------------------------------------------
(* The DPU *)

\* Mutant: the index of the constructor is used during an Expand, too.
ImportIndex_Init == THREADS - mmap_to_recv_ + 1

\* The index into dma_client_ that comch_dpu_recv_callback imports into.
ImportIndex == (IF in_init_ THEN THREADS ELSE THREADS + half) - mmap_to_recv_ + 1

\* One turn of a loop of Progress, with comch_dpu_recv_callback.
DpuReceive ==
    /\ dpuAt \in {"init", "expand", "finish"}
    /\ toDpu # Nil
    /\ toDpu' = Tail(toDpu)
    /\ LET msg == Head(toDpu)
           awaited == in_init_ \/ in_rehash_
       IN  \/ /\ msg.type = "DESCRIPTOR"
              /\ dma_client_' = IF awaited THEN [dma_client_ EXCEPT ![ImportIndex] = msg.memory]
                                           ELSE dma_client_
              /\ mmap_to_recv_' = mmap_to_recv_ - (IF awaited THEN 1 ELSE 0)
              /\ in_init_' = (in_init_ /\ mmap_to_recv_' # 0)
              /\ UNCHANGED <<seeds, seed_recved_, in_rehash_>>
           \/ /\ msg.type = "SEEDS"
              /\ seeds' = "host" /\ seed_recved_' = TRUE
              /\ UNCHANGED <<dma_client_, mmap_to_recv_, in_init_, in_rehash_>>
           \/ /\ msg.type = "CONTROL"
              /\ in_rehash_' = (in_rehash_ /\ msg.signal # "EXPAND_FINISH")
              /\ UNCHANGED <<dma_client_, mmap_to_recv_, in_init_, seeds, seed_recved_>>
    /\ UNCHANGED <<dpuAt, level_, hostVars, toHost>>

\* The end of the constructor.
DpuReady ==
    /\ dpuAt = "init" /\ mmap_to_recv_ = 0 /\ seed_recved_
    /\ dpuAt' = "run" /\ in_init_' = FALSE
    /\ UNCHANGED <<seeds, seed_recved_, mmap_to_recv_, in_rehash_, level_, dma_client_,
                   hostVars, toHost, toDpu>>

\* Mutant: the descriptors of the new level are not awaited.
DpuExpand_NoWait ==
    /\ dpuAt = "run"
    /\ level_ < START_LEVEL + MaxExpands
    /\ in_rehash_' = TRUE
    /\ toHost' = Append(toHost, Control("EXPAND"))
    /\ dma_client_' = dma_client_ \o [i \in 1..half |-> Nil]
    /\ dpuAt' = "expand"
    /\ UNCHANGED <<seeds, in_init_, seed_recved_, mmap_to_recv_, level_, hostVars, toDpu>>

\* Expand up to its first loop.
DpuExpand ==
    /\ dpuAt = "run"
    /\ level_ < START_LEVEL + MaxExpands
    /\ in_rehash_' = TRUE
    /\ mmap_to_recv_' = half
    /\ toHost' = Append(toHost, Control("EXPAND"))
    /\ dma_client_' = dma_client_ \o [i \in 1..half |-> Nil]
    /\ dpuAt' = "expand"
    /\ UNCHANGED <<seeds, in_init_, seed_recved_, level_, hostVars, toDpu>>

\* The rehashing (see Dpu) is over: the finish message, ...
DpuSendFinish ==
    /\ dpuAt = "expand" /\ mmap_to_recv_ = 0
    /\ toHost' = Append(toHost, Control("EXPAND_FINISH"))
    /\ dpuAt' = "switch"
    /\ UNCHANGED <<seeds, in_init_, seed_recved_, mmap_to_recv_, in_rehash_, level_,
                   dma_client_, hostVars, toDpu>>

\* ... the new geometry and the old clients, ...
DpuSwitch ==
    /\ dpuAt = "switch"
    /\ level_' = level_ + 1
    /\ dma_client_' = SubSeq(dma_client_, half + 1, Len(dma_client_))
    /\ dpuAt' = "finish"
    /\ UNCHANGED <<seeds, in_init_, seed_recved_, mmap_to_recv_, in_rehash_, hostVars,
                   toHost, toDpu>>

\* ... and the end of the second loop.
DpuExpanded ==
    /\ dpuAt = "finish" /\ ~in_rehash_
    /\ dpuAt' = "run"
    /\ UNCHANGED <<seeds, in_init_, seed_recved_, mmap_to_recv_, in_rehash_, level_,
                   dma_client_, hostVars, toHost, toDpu>>

\* Mutant: the host is not told.
DpuEnd_Silent ==
    /\ dpuAt = "run"
    /\ dpuAt' = "stopped"
    /\ UNCHANGED <<seeds, in_init_, seed_recved_, mmap_to_recv_, in_rehash_, level_,
                   dma_client_, hostVars, toHost, toDpu>>

\* The END request.
DpuEnd ==
    /\ dpuAt = "run"
    /\ toHost' = Append(toHost, Control("EXIT"))
    /\ dpuAt' = "stopped"
    /\ UNCHANGED <<seeds, in_init_, seed_recved_, mmap_to_recv_, in_rehash_, level_,
                   dma_client_, hostVars, toDpu>>

------------------------------------------------------------------------------
(* The host *)

\* One Send of the constructor, or of Expand.
HostExport ==
    /\ hostAt \in {"export", "expand"} /\ exports # Nil
    /\ toDpu' = Append(toDpu, Head(exports))
    /\ exports' = Tail(exports)
    /\ hostAt' = IF hostAt = "export" /\ exports' = Nil THEN "run" ELSE hostAt
    /\ UNCHANGED <<dpuVars, host_in_rehash_, host_level, stop_, dma_server, freed, toHost>>

\* Mutant: EXPAND_FINISH is not sent back.
HostReceive_NoEcho ==
    /\ \/ hostAt = "run" /\ ~stop_
       \/ hostAt = "expand" /\ exports = Nil /\ host_in_rehash_
    /\ toHost # Nil
    /\ toHost' = Tail(toHost)
    /\ LET signal == Head(toHost).signal
       IN  /\ hostAt' = IF signal = "EXPAND" THEN "expand" ELSE hostAt
           /\ host_in_rehash_' = (signal = "EXPAND")
           /\ exports' = IF signal = "EXPAND" THEN Descriptors(Pieces(host_level + 1)) ELSE exports
           /\ stop_' = (signal = "EXIT")
    /\ UNCHANGED <<dpuVars, host_level, dma_server, freed, toDpu>>

\* comch_host_recv_callback, called by Run or by the loop inside Expand.
HostReceive ==
    /\ \/ hostAt = "run" /\ ~stop_
       \/ hostAt = "expand" /\ exports = Nil /\ host_in_rehash_
    /\ toHost # Nil
    /\ toHost' = Tail(toHost)
    /\ LET signal == Head(toHost).signal
       IN  \/ /\ signal = "EXPAND"      \* Expand up to its loop
              /\ hostAt' = IF hostAt = "run" THEN "expand" ELSE "nested"
              /\ host_in_rehash_' = TRUE
              /\ exports' = Descriptors(Pieces(host_level + 1))
              /\ UNCHANGED <<stop_, toDpu>>
           \/ /\ signal = "EXPAND_FINISH"
              /\ host_in_rehash_' = FALSE
              /\ toDpu' = Append(toDpu, Control("EXPAND_FINISH"))
              /\ UNCHANGED <<hostAt, exports, stop_>>
           \/ /\ signal = "EXIT"
              /\ stop_' = TRUE
              /\ UNCHANGED <<hostAt, exports, host_in_rehash_, toDpu>>
    /\ UNCHANGED <<dpuVars, host_level, dma_server, freed>>

\* Mutant: the host does not wait for the DPU to finish.
HostExpanded_NoWait ==
    /\ hostAt = "expand" /\ exports = Nil
    /\ dma_server' = SubSeq(dma_server, half + 1, THREADS) \o Pieces(host_level + 1)
    /\ host_level' = host_level + 1
    /\ freed' = freed \cup {host_level - 1}
    /\ hostAt' = "run"
    /\ UNCHANGED <<dpuVars, host_in_rehash_, stop_, exports, toHost, toDpu>>

\* The rest of Expand: the servers are exchanged and the old bottom level freed.
HostExpanded ==
    /\ hostAt = "expand" /\ exports = Nil /\ ~host_in_rehash_
    /\ dma_server' = SubSeq(dma_server, half + 1, THREADS) \o Pieces(host_level + 1)
    /\ host_level' = host_level + 1
    /\ freed' = freed \cup {host_level - 1}
    /\ hostAt' = "run"
    /\ UNCHANGED <<dpuVars, host_in_rehash_, stop_, exports, toHost, toDpu>>

------------------------------------------------------------------------------
DpuSteps == DpuReceive \/ DpuReady \/ DpuSendFinish \/ DpuSwitch \/ DpuExpanded
HostSteps == HostExport \/ HostReceive \/ HostExpanded

Next == DpuSteps \/ DpuExpand \/ DpuEnd \/ HostSteps

Spec == Init /\ [][Next]_vars

------------------------------------------------------------------------------
(* Properties *)

\* While the DPU serves requests, its clients reach the pieces of its two levels in
\* the order GetClientBucket counts on, and it hashes with the host's seeds: whatever
\* the interleaving of the two processes' sends and of several Expands.
ClientsAligned ==
    dpuAt = "run" =>
        /\ dma_client_ = Pieces(level_ - 1) \o Pieces(level_)
        /\ seeds = "host"

\* A descriptor reaches the DPU only while it is counting them (the ENSUREs "New
\* remote mmap received on dpu after its mmap_to_recv_ is zero" and "Dpu received
\* export desc msg not during initialization and rehashing").
DescriptorsAwaited ==
    (toDpu # Nil /\ Head(toDpu).type = "DESCRIPTOR"
     /\ dpuAt \in {"init", "expand", "finish"}) =>
        /\ mmap_to_recv_ > 0
        /\ in_init_ \/ in_rehash_
        /\ ImportIndex \in DOMAIN dma_client_

\* A client of the DPU reaches memory that the host has freed only between the end
\* of the rehashing and the destruction of that client (free in Host::Expand against
\* the loops of Dpu::Expand): never while the DPU serves requests or rehashes, and
\* no client that stays ever does.
FreedUnused ==
    \A i \in DOMAIN dma_client_ :
        (dma_client_[i] # Nil /\ dma_client_[i].level \in freed)
        => (dpuAt = "switch" /\ i <= half)

\* After END sends EXIT the host leaves Run, with no Expand half done.
HostStops == (dpuAt = "stopped") ~> (stop_ /\ hostAt = "run")
==============================================================================
