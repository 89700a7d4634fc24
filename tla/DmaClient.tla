------------------------------ MODULE DmaClient ------------------------------
(***************************************************************************)
(* One DMA client of the DPU (levelkv/src/dpu/dma_client.cpp): the queue    *)
(* that ScheduleReadWrite fills and the thread ProcessQueue empties, with   *)
(* the mutex and the condition variable between them, and Stop.             *)
(* The DMA engine, std::mutex and std::condition_variable are external.     *)
(***************************************************************************)
EXTENDS Integers, Sequences

CONSTANTS MaxRequests   \* bound: requests scheduled

VARIABLES
    queue, stop_,
    mtx_,           \* who holds the mutex: "caller", "thread" or "none"
    waiting,        \* the thread is blocked in cv_.wait
    promise_,       \* promise_[r]: "none", "pending" or how the DMA ended
    served,         \* the requests in the order their promises were set
    scheduled,      \* number of requests scheduled
    callerAt,       \* where the owner of the client is
    threadAt,       \* where ProcessQueue is
    request         \* the request ProcessQueue works on

vars == <<queue, stop_, mtx_, waiting, promise_, served, scheduled, callerAt, threadAt, request>>

Request == 1..MaxRequests
Ended == {"success", "failure"}

Init ==
    /\ queue = <<>> /\ stop_ = FALSE /\ mtx_ = "none" /\ waiting = FALSE
    /\ promise_ = [r \in Request |-> "none"] /\ served = <<>> /\ scheduled = 0
    /\ callerAt = "idle" /\ threadAt = "loop" /\ request = 0

------------------------------------------------------------------------------
(* The caller *)

\* ScheduleReadWrite: the promise and the lock, ...
Schedule ==
    /\ callerAt = "idle" /\ scheduled < MaxRequests
    /\ mtx_ = "none" /\ mtx_' = "caller"
    /\ scheduled' = scheduled + 1
    /\ promise_' = [promise_ EXCEPT ![scheduled'] = "pending"]
    /\ callerAt' = "push"
    /\ UNCHANGED <<queue, stop_, waiting, served, threadAt, request>>

\* Mutant: the newest request goes first.
Push_Front ==
    /\ callerAt = "push"
    /\ queue' = <<scheduled>> \o queue
    /\ mtx_' = "none"
    /\ callerAt' = "notify"
    /\ UNCHANGED <<stop_, waiting, promise_, served, scheduled, threadAt, request>>

\* ... the push and the unlock, ...
Push ==
    /\ callerAt = "push"
    /\ queue' = Append(queue, scheduled)
    /\ mtx_' = "none"
    /\ callerAt' = "notify"
    /\ UNCHANGED <<stop_, waiting, promise_, served, scheduled, threadAt, request>>

\* ... and notify_one, which wakes the thread if it is blocked at that moment.
Notify ==
    /\ callerAt \in {"notify", "stopping"}
    /\ waiting' = FALSE
    /\ callerAt' = IF callerAt = "notify" THEN "idle" ELSE "join"
    /\ UNCHANGED <<queue, stop_, mtx_, promise_, served, scheduled, threadAt, request>>

\* Stop, called by the destructor: stop_ is set without the mutex, ...
Stop ==
    /\ callerAt = "idle"
    /\ stop_' = TRUE
    /\ callerAt' = "stopping"
    /\ UNCHANGED <<queue, mtx_, waiting, promise_, served, scheduled, threadAt, request>>

\* ... and, after Notify, the thread is joined.
Join ==
    /\ callerAt = "join" /\ threadAt = "done"
    /\ callerAt' = "stopped"
    /\ UNCHANGED <<queue, stop_, mtx_, waiting, promise_, served, scheduled, threadAt, request>>

------------------------------------------------------------------------------
(* ProcessQueue *)

\* while (!stop_)
Loop ==
    /\ threadAt = "loop"
    /\ threadAt' = IF stop_ THEN "done" ELSE "lock"
    /\ UNCHANGED <<queue, stop_, mtx_, waiting, promise_, served, scheduled, callerAt, request>>

\* The mutex is taken, on the way in and whenever cv_.wait wakes up.
Lock ==
    /\ threadAt = "lock" /\ ~waiting
    /\ mtx_ = "none" /\ mtx_' = "thread"
    /\ threadAt' = "check"
    /\ UNCHANGED <<queue, stop_, waiting, promise_, served, scheduled, callerAt, request>>

\* Mutant: the thread does not look for what was queued before it waits.
Predicate_StopOnly == stop_

\* Mutant: the thread waits for requests only.
Predicate_QueueOnly == queue # <<>>

\* What cv_.wait waits for.
Predicate == queue # <<>> \/ stop_

\* cv_.wait evaluates its predicate, ...
Check ==
    /\ threadAt = "check"
    /\ threadAt' = IF Predicate THEN "take" ELSE "block"
    /\ UNCHANGED <<queue, stop_, mtx_, waiting, promise_, served, scheduled, callerAt, request>>

\* ... and if it is false unlocks the mutex and blocks, in one step.
Block ==
    /\ threadAt = "block"
    /\ mtx_' = "none" /\ waiting' = TRUE
    /\ threadAt' = "lock"
    /\ UNCHANGED <<queue, stop_, promise_, served, scheduled, callerAt, request>>

\* A condition variable may wake up without a notification.
WakeUp ==
    /\ waiting /\ waiting' = FALSE
    /\ UNCHANGED <<queue, stop_, mtx_, promise_, served, scheduled, callerAt, threadAt, request>>

\* After cv_.wait: break, or the first request is taken.
Take ==
    /\ threadAt = "take"
    /\ mtx_' = "none"
    /\ \/ /\ stop_ /\ threadAt' = "done" /\ UNCHANGED <<queue, request>>
       \/ /\ ~stop_ /\ threadAt' = "dma"
          /\ request' = Head(queue) /\ queue' = Tail(queue)
    /\ UNCHANGED <<stop_, waiting, promise_, served, scheduled, callerAt>>

\* The DMA task is submitted and polled until it succeeds or fails; the promise is set.
Dma ==
    /\ threadAt = "dma"
    /\ \E end \in Ended : promise_' = [promise_ EXCEPT ![request] = end]
    /\ served' = Append(served, request)
    /\ threadAt' = "loop"
    /\ UNCHANGED <<queue, stop_, mtx_, waiting, scheduled, callerAt, request>>

------------------------------------------------------------------------------
ThreadSteps == Loop \/ Lock \/ Check \/ Block \/ Take \/ Dma
CallerSteps == Push \/ Notify \/ Join

Next == CallerSteps \/ Schedule \/ Stop \/ ThreadSteps \/ WakeUp

Spec == Init /\ [][Next]_vars

------------------------------------------------------------------------------
(* Properties *)

\* The DMAs of a client are done one by one in the order they were scheduled, each
\* promise set once: the flush of a bucket is over before a later fetch of it starts.
InOrder ==
    /\ \A i \in DOMAIN served : served[i] = i
    /\ \A r \in Request : (promise_[r] \in Ended) <=> (r <= Len(served))

\* A scheduled DMA is done, unless the client is stopped first: no wake-up is lost
\* between the unlock of ScheduleReadWrite and the wait of ProcessQueue.
DmaAnswered ==
    \A r \in Request : (promise_[r] = "pending") ~> (promise_[r] \in Ended \/ stop_)

\* Stop returns: the thread sees stop_ and can be joined.  The exception is a thread
\* that has found the predicate false and is not blocked yet: Stop sets stop_ and
\* notifies without the mutex, so that thread may miss both and the join never end.
StopReturns == (callerAt = "stopping" /\ threadAt # "block") ~> (callerAt = "stopped")
==============================================================================
