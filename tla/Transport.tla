------------------------------ MODULE Transport ------------------------------
(***************************************************************************)
(* The life of a DMA client inside the DPU: the handshake of Handshake.tla *)
(* and the first client of the table, a DmaClient.  The worker uses the    *)
(* client while it serves requests and while it rehashes, waits for the    *)
(* futures it has not dropped, and destroys the client at the end of the   *)
(* first Expand, or with the Dpu after END (dpu.cpp, dma_client.cpp).      *)
(***************************************************************************)
EXTENDS Handshake

CONSTANTS MaxRequests   \* bound: requests scheduled with the client

ASSUME TransportAssumption == MaxRequests \in Nat

VARIABLES queue, client_stop_, mtx_, waiting, promise_, served, scheduled,
          callerAt, threadAt, request,
          dropped       \* requests whose future the worker has given up

Client == INSTANCE DmaClient WITH stop_ <- client_stop_

clientVars == <<queue, client_stop_, mtx_, waiting, promise_, served, scheduled,
                callerAt, threadAt, request>>
allVars == <<vars, clientVars, dropped>>

TransportInit == Init /\ Client!Init /\ dropped = {}

Pending == {r \in 1..scheduled : promise_[r] = "pending"}

\* The worker is neither inside a call of the client nor waiting for a future.
WorkerFree == callerAt \in {"idle", "stopped"} /\ Pending \subseteq dropped

\* FlushBucket or FetchBucket of a bucket of the client, between messages.
Use ==
    /\ dpuAt = "run" \/ (dpuAt = "expand" /\ mmap_to_recv_ = 0)
    /\ Client!Schedule
    /\ UNCHANGED <<vars, dropped>>

\* ProcessDelete returns without the futures it has not waited for.
Drop ==
    /\ dpuAt = "run" /\ callerAt = "idle"
    /\ Pending \ dropped # {}
    /\ dropped' = dropped \cup Pending
    /\ UNCHANGED <<vars, clientVars>>

\* dma_client_.erase, or the destructor of the Dpu.
Destroy ==
    /\ dpuAt \in {"switch", "stopped"} /\ Pending \subseteq dropped
    /\ Client!Stop
    /\ UNCHANGED <<vars, dropped>>

\* Mutant: the finish message does not wait for the rehashing.
SendFinish_Early == DpuSendFinish /\ UNCHANGED <<clientVars, dropped>>

\* The end of the rehashing.
SendFinish == DpuSendFinish /\ WorkerFree /\ UNCHANGED <<clientVars, dropped>>

\* The erase of the loop at the end of Expand has returned.
Switch == DpuSwitch /\ callerAt = "stopped" /\ UNCHANGED <<clientVars, dropped>>

\* The worker takes the next request of its queue: growth or END.
NextRequest == (DpuExpand \/ DpuEnd) /\ WorkerFree /\ UNCHANGED <<clientVars, dropped>>

Messages == (DpuReceive \/ DpuReady \/ DpuExpanded) /\ UNCHANGED <<clientVars, dropped>>

WorkerSteps == SendFinish \/ Switch \/ Messages
HostProcess == HostSteps /\ UNCHANGED <<clientVars, dropped>>
InClient == Client!CallerSteps /\ UNCHANGED <<vars, dropped>>
ClientThread == Client!ThreadSteps /\ UNCHANGED <<vars, dropped>>
Spurious == Client!WakeUp /\ UNCHANGED <<vars, dropped>>

TransportNext ==
    \/ Use \/ Drop \/ NextRequest \/ Spurious
    \/ Destroy \/ WorkerSteps \/ HostProcess \/ InClient \/ ClientThread

\* The two processes and the two threads of the DPU are scheduled, and the client's
\* thread gets the mutex when the worker keeps releasing it.  Nobody has to send a
\* request, drop a future or wake the thread up for nothing.
TransportSpec ==
    /\ TransportInit /\ [][TransportNext]_allVars
    /\ WF_allVars(Destroy \/ WorkerSteps) /\ WF_allVars(HostProcess)
    /\ WF_allVars(InClient) /\ SF_allVars(ClientThread)

------------------------------------------------------------------------------
(* Properties *)

\* The DMAs of the client are done one by one in the order they were scheduled, each
\* promise set once: the flush of a bucket is over before a later fetch of it starts.
InOrder == Client!InOrder

\* A DMA that the worker waits for runs on memory the client has imported and the
\* host has not freed (Import in the callback, free at the end of Host::Expand).
DmaOnLiveMemory ==
    (threadAt = "dma" /\ request \notin dropped) =>
        /\ level_ = START_LEVEL
        /\ dma_client_[1] = [level |-> START_LEVEL - 1, piece |-> 1]
        /\ START_LEVEL - 1 \notin freed

\* A scheduled DMA is done, unless the client is stopped first: no wake-up is lost
\* between the unlock of ScheduleReadWrite and the wait of ProcessQueue.
DmaAnswered == Client!DmaAnswered

\* Stop returns: the thread sees stop_ and can be joined, unless it has found its
\* predicate false and is not blocked yet (see DmaClient).
StopReturns == Client!StopReturns

\* The thread missed both stop_ and the notification and sleeps while it is joined.
StopMissed == callerAt = "join" /\ waiting

\* An Expand ends, through the waits of the rehashing, the loops of both processes
\* and the destructor of the client, except where Stop meets the window above.
ExpandEnds == (dpuAt = "expand") ~> (dpuAt = "run" \/ StopMissed)
==============================================================================
