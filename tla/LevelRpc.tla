------------------------------- MODULE LevelRpc -------------------------------
(***************************************************************************)
(* The store that both main() functions run: LevelHashingDpu sends each    *)
(* operation over the communication channel (comch) and waits,             *)
(* LevelHashingHost executes it on the table of LevelHash and answers.     *)
(* The channel is external: it delivers in order and loses nothing.        *)
(***************************************************************************)
EXTENDS LevelHash, Sequences

VARIABLES
    toHost, toDpu,      \* messages in the channel
    call,               \* the call of Search or Insert in progress on the DPU
    waiting_, success_, searched_value_,
    answer,             \* what the last call of Search passed to its callback
    acknowledged        \* the items whose Insert has returned

channel == <<toHost, toDpu>>
dpu == <<call, waiting_, success_, searched_value_, answer, acknowledged>>
rpcVars == <<vars, channel, dpu>>

RpcInit ==
    /\ Init
    /\ toHost = Nil /\ toDpu = Nil
    /\ call = Nil
    /\ waiting_ = FALSE /\ success_ = FALSE /\ searched_value_ = NULL
    /\ answer = NULL
    /\ acknowledged = {}

\* Search and Insert up to the loop that waits for the answer.
Call(op) ==
    /\ call = Nil
    /\ call' = op
    /\ waiting_' = TRUE
    /\ toHost' = Append(toHost, op)
    /\ UNCHANGED <<vars, toDpu, success_, searched_value_, answer, acknowledged>>

\* Mutant: what is in searched_value_ is passed on, and not cleared.
CallReturn_StaleValue ==
    /\ call # Nil /\ ~waiting_
    /\ \/ /\ call.op = "SEARCH"
          /\ answer' = searched_value_
          /\ UNCHANGED acknowledged
       \/ /\ call.op = "INSERT"
          /\ acknowledged' = acknowledged \cup {<<call.key, call.value>>}
          /\ UNCHANGED answer
    /\ success_' = FALSE
    /\ call' = Nil
    /\ UNCHANGED <<vars, channel, waiting_, searched_value_>>

\* The rest of them: after a Search the callback is called with the value or with
\* nothing.
CallReturn ==
    /\ call # Nil /\ ~waiting_
    /\ \/ /\ call.op = "SEARCH"
          /\ answer' = IF success_ THEN searched_value_ ELSE NULL
          /\ searched_value_' = NULL
          /\ UNCHANGED acknowledged
       \/ /\ call.op = "INSERT"
          /\ acknowledged' = acknowledged \cup {<<call.key, call.value>>}
          /\ UNCHANGED <<answer, searched_value_>>
    /\ success_' = FALSE
    /\ call' = Nil
    /\ UNCHANGED <<vars, channel, waiting_>>

\* Mutant: a search that found nothing is sent again.
DpuReceive_Retries ==
    /\ waiting_ /\ toDpu # Nil
    /\ success_' = Head(toDpu).success
    /\ searched_value_' = IF success_' THEN Head(toDpu).value ELSE searched_value_
    /\ waiting_' = (~success_' /\ call.op = "SEARCH")
    /\ toHost' = IF waiting_' THEN Append(toHost, call) ELSE toHost
    /\ toDpu' = Tail(toDpu)
    /\ UNCHANGED <<vars, call, answer, acknowledged>>

\* comch_dpu_recv_callback
DpuReceive ==
    /\ waiting_ /\ toDpu # Nil
    /\ success_' = Head(toDpu).success
    /\ searched_value_' = IF success_' THEN Head(toDpu).value ELSE searched_value_
    /\ waiting_' = FALSE
    /\ toDpu' = Tail(toDpu)
    /\ UNCHANGED <<vars, toHost, call, answer, acknowledged>>

Reply(success, value) == toDpu' = Append(toDpu, [success |-> success, value |-> value])

\* comch_host_recv_callback for a search
HostSearch ==
    /\ toHost # Nil /\ Head(toHost).op = "SEARCH"
    /\ level_static_query(Head(toHost).key)
    /\ Reply(result'.out # NULL, result'.out)
    /\ toHost' = Tail(toHost)
    /\ UNCHANGED dpu

\* For an insert it calls level_insert, which takes several steps, ...
HostInsert ==
    /\ toHost # Nil /\ Head(toHost).op = "INSERT"
    /\ InsertCall(Head(toHost).key, Head(toHost).value)
    /\ toHost' = Tail(toHost)
    /\ UNCHANGED <<toDpu, dpu>>

\* ... and sends its return code as "success"; the bytes of the value are not set.
HostRun ==
    /\ Run
    /\ \/ pc' = "idle" /\ Reply(result'.out # 0, NULL)
       \/ pc' # "idle" /\ UNCHANGED toDpu
    /\ UNCHANGED <<toHost, dpu>>

RpcNext ==
    \/ \E k \in Key : Call([op |-> "SEARCH", key |-> k])
    \/ \E k \in Key, v \in Value :
          /\ StoredItems(AnyKey) < MaxItems
          /\ Call([op |-> "INSERT", key |-> k, value |-> v])
    \/ CallReturn \/ DpuReceive
    \/ HostSearch \/ HostInsert \/ HostRun

\* Both processes poll their end of the channel for ever.
RpcSpec ==
    /\ RpcInit /\ [][RpcNext]_rpcVars
    /\ WF_rpcVars(CallReturn \/ DpuReceive)
    /\ WF_rpcVars(HostSearch \/ HostInsert \/ HostRun)

------------------------------------------------------------------------------
(* Properties *)

\* A Search never misses a key whose Insert has returned: the answer that is passed
\* to the callback is that of the host for this request, after every resize.
ReadYourInserts ==
    [][ \A k \in Key :
          /\ CallReturn /\ call = [op |-> "SEARCH", key |-> k]
          /\ \E v \in Value : <<k, v>> \in acknowledged
          => answer' # NULL ]_rpcVars

\* What the callback of a Search is given was stored under the key it asked for, by
\* an Insert that has returned: neither a value of another key nor one that an
\* earlier answer left in searched_value_.
OnlyInserted ==
    [][ \A k \in Key :
          /\ CallReturn /\ call = [op |-> "SEARCH", key |-> k]
          /\ answer' # NULL
          => <<k, answer'>> \in acknowledged ]_rpcVars

\* Every call returns to its caller on the DPU, unless level_insert expands the table
\* for ever on the host (OwnKeyEverywhere).
CallsAnswered == (call # Nil) ~> (call = Nil \/ OwnKeyEverywhere)
==============================================================================
