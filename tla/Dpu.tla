--------------------------------- MODULE Dpu ---------------------------------
(***************************************************************************)
(* The key-value store whose table is in host memory and whose worker runs *)
(* on the DPU (levelkv/src/dpu/dpu.cpp).  The worker keeps CACHE_SIZE      *)
(* buckets in frames, and reads and writes host memory through DMA         *)
(* clients, each with a thread and a queue of its own (dma_client.cpp).    *)
(*                                                                         *)
(* The worker is cut where it waits for a DMA or begins one.  The ENSURE   *)
(* macro is modelled as it is compiled: its argument is not evaluated      *)
(* (common/utils.hpp).  The messages exchanged with the host when the      *)
(* table grows are the subject of the module Handshake; here the new level *)
(* is at hand when Expand has asked for it.                                *)
(***************************************************************************)
EXTENDS LevelBucket, Sequences

CONSTANTS
    F_HASH, S_HASH, \* the two seeded hashes, as functions of the key
    CACHE_SIZE, THREADS,
    START_LEVEL,    \* the argument of the constructor
    LoadPercent,    \* the load at which an insert expands the table: 95
    Kinds,          \* the types of the requests that are made
    MaxLevel,       \* bound: no insert that would expand past this level
    MaxSize,        \* bound: no insert when size_ has reached it
    MaxItems,       \* bound: no insert with this many items stored
    MaxFailures     \* bound: DMA tasks that fail

Frames == 0 .. CACHE_SIZE - 1
NoBucket == -1      \* what bucket_ids_ holds for a frame never used

ASSUME DpuAssumption ==
    /\ F_HASH \in [AnyKey -> Nat] /\ S_HASH \in [AnyKey -> Nat]
    /\ CACHE_SIZE \in Nat /\ CACHE_SIZE >= 4
    /\ THREADS \in Nat \ {0} /\ THREADS % 2 = 0
    /\ START_LEVEL \in Nat /\ START_LEVEL >= 3
    /\ 2^(START_LEVEL - 1) % (THREADS \div 2) = 0
    /\ Kinds \subseteq {"SEARCH", "INSERT", "DELETE", "END"}
    /\ LoadPercent \in Nat /\ MaxLevel \in Nat /\ MaxSize \in Nat
    /\ MaxItems \in Nat /\ MaxFailures \in Nat

VARIABLES
    cache_, dirty_flag_, bucket_table_, bucket_ids_, free_list_,
    lru_,                \* the replacer's list, most recent first
    level_, addr_capacity_, bl_capacity_,
    bl_start_bucket_id_, tl_start_bucket_id_, next_start_bucket_id_,
    new_bucket_constructed_, size_,
    region,              \* region[c]: the buckets that DMA client c reaches
    queue,               \* queue[c]: its queue
    host,                \* host memory, by bucket id
    failures,
    pc, request,
    todo,                \* the buckets still to be looked up or fetched
    futures, got,        \* those visited, and how many are already taken over
    claim,               \* the fetch whose frame is being flushed
    stage,               \* what the fetches in progress are for
    loop,                \* the variables of the loop in progress
    result

frames == <<cache_, dirty_flag_, bucket_table_, bucket_ids_, free_list_, lru_>>
geometry == <<level_, addr_capacity_, bl_capacity_, bl_start_bucket_id_,
              tl_start_bucket_id_, next_start_bucket_id_>>
table == <<geometry, new_bucket_constructed_, region>>
memory == <<host, failures>>
fetches == <<todo, futures, got, claim, stage>>
work == <<pc, request, loop, result, size_>>
vars == <<frames, table, queue, memory, fetches, work>>

Nil == <<>>

------------------------------------------------------------------------------
(* Bucket ids *)

\* Mutant: the clients of the new level are looked for after the bottom level's.
GetClientBucket_NewFirst(b) ==
    LET half == THREADS \div 2
        At(start, capacity, first) ==
            LET k == b - start
                g == capacity \div half
            IN  [client |-> (k \div g) + first, offset |-> k % g]
    IN  IF b < tl_start_bucket_id_
        THEN At(bl_start_bucket_id_, bl_capacity_, 0)
        ELSE IF b < tl_start_bucket_id_ + addr_capacity_
             THEN At(tl_start_bucket_id_, addr_capacity_, half)
             ELSE At(next_start_bucket_id_, addr_capacity_ * 2, half)

\* The client and the offset, in buckets, at which host memory holds b.
GetClientBucket(b) ==
    LET half == THREADS \div 2
        At(start, capacity, first) ==
            LET k == b - start
                g == capacity \div half
            IN  [client |-> (k \div g) + first, offset |-> k % g]
    IN  IF b < tl_start_bucket_id_
        THEN At(bl_start_bucket_id_, bl_capacity_, 0)
        ELSE IF b < tl_start_bucket_id_ + addr_capacity_
             THEN At(tl_start_bucket_id_, addr_capacity_, half)
             ELSE At(next_start_bucket_id_, addr_capacity_ * 2, THREADS)

Get4Buckets(k) ==
    LET h1 == F_HASH[k]
        h2 == S_HASH[k]
        half == addr_capacity_ \div 2
        quarter == addr_capacity_ \div 4
    IN  << addr_capacity_ - 4 + (h1 % half),
           addr_capacity_ - 4 + half + (h2 % half),
           bl_capacity_ - 4 + (h1 % quarter),
           bl_capacity_ - 4 + quarter + (h2 % quarter) >>

GetExpandBucketIds(k) ==
    << tl_start_bucket_id_ + addr_capacity_ + (F_HASH[k] % addr_capacity_),
       tl_start_bucket_id_ + addr_capacity_ * 2 + (S_HASH[k] % addr_capacity_) >>

Regions(start, capacity) ==
    LET g == capacity \div (THREADS \div 2)
    IN  [i \in 1 .. THREADS \div 2 |-> [base |-> start + (i - 1) * g, len |-> g]]

------------------------------------------------------------------------------
(* Frames *)

Cached(b) == b \in DOMAIN bucket_table_

Put(t, b, f) == [x \in DOMAIN t \cup {b} |-> IF x = b THEN f ELSE t[x]]

\* Mutant: the bucket that loses its frame stays in the table.
Erase_Nothing(t, b) == t

Erase(t, b) == [x \in DOMAIN t \ {b} |-> t[x]]

\* Mutant: the frame is not taken out of the list first.
RecordAccess_Twice(l, f) == <<f>> \o l

\* Mutant: an access moves the frame to the end that is evicted next.
RecordAccess_Back(l, f) == SelectSeq(l, LAMBDA x : x # f) \o <<f>>

\* Replacer::RecordAccess: the frame goes to the front, those before it move back.
RecordAccess(l, f) ==
    LET at == {i \in 1..Len(l) : l[i] = f}
        n  == IF at = {} THEN Len(l) + 1 ELSE Len(l)
        p  == IF at = {} THEN n ELSE CHOOSE i \in at : TRUE
    IN  [i \in 1..n |-> IF i = 1 THEN f ELSE IF i <= p THEN l[i - 1] ELSE l[i]]

\* The frame that a fetch takes: a free one, else the one Replacer::Evict gives.
Target == IF free_list_ # Nil THEN Head(free_list_) ELSE lru_[Len(lru_)]

\* Mutant: modified buckets are not written back.
NeedFlush_Never == FALSE

NeedFlush == free_list_ = Nil /\ dirty_flag_[Target]

Dma(is_write, f, at) ==
    [is_write |-> is_write, frame |-> f, offset |-> at.offset, awaited |-> TRUE]

ScheduleReadWrite(q, is_write, f, b) ==
    LET at == GetClientBucket(b)
    IN  [q EXCEPT ![at.client + 1] = Append(@, Dma(is_write, f, at))]

\* Nobody holds the futures of the requests that are still queued.
Abandoned(q) ==
    [c \in DOMAIN q |-> [i \in DOMAIN q[c] |-> [q[c][i] EXCEPT !.awaited = FALSE]]]

IsNew(b) == b >= next_start_bucket_id_ /\ b \notin new_bucket_constructed_

Visited(b, f, state) == [bucket |-> b, frame |-> f, state |-> state]

\* The end of NewBucket and its caller: a bucket of the new level starts out empty.
NewBucket(b, f, read) ==
    /\ cache_' = [cache_ EXCEPT ![f] = Zeroed]
    /\ futures' = Append(futures, Visited(b, f, "cached"))
    /\ bucket_table_' = Put(read, b, f)
    /\ new_bucket_constructed_' = new_bucket_constructed_ \cup {b}
    /\ UNCHANGED queue

\* The end of FetchBucket or NewBucket, once the bucket that the frame held is safe.
Fill(b, f, read) ==
    /\ todo' = Tail(todo)
    /\ claim' = Nil
    /\ pc' = "fetch"
    /\ \/ /\ ~IsNew(b)
          /\ queue' = ScheduleReadWrite(queue, FALSE, f, b)
          /\ futures' = Append(futures, Visited(b, f, "pending"))
          /\ bucket_table_' = read
          /\ UNCHANGED <<cache_, new_bucket_constructed_>>
       \/ /\ IsNew(b)
          /\ NewBucket(b, f, read)

\* The start of FetchBucket or NewBucket: the frame is taken from its old bucket,
\* which is written back if it was modified.
FetchBucket(b, f) ==
    LET old == bucket_ids_[f]
    IN  /\ free_list_' = IF free_list_ # Nil THEN Tail(free_list_) ELSE Nil
        /\ lru_' = RecordAccess(lru_, f)
        /\ dirty_flag_' = [dirty_flag_ EXCEPT ![f] = FALSE]
        /\ bucket_ids_' = [bucket_ids_ EXCEPT ![f] = b]
        /\ \/ /\ ~NeedFlush
              /\ Fill(b, f, Erase(bucket_table_, old))
           \/ /\ NeedFlush  \* for a bucket below the table GetClientBucket wraps around
              /\ queue' = IF old >= bl_start_bucket_id_
                          THEN ScheduleReadWrite(queue, TRUE, f, old) ELSE queue
              /\ pc' = IF old >= bl_start_bucket_id_ THEN "flush" ELSE "wild"
              /\ bucket_table_' = Erase(bucket_table_, old)
              /\ claim' = [bucket |-> b, frame |-> f, old |-> old, flushed |-> FALSE]
              /\ UNCHANGED <<cache_, new_bucket_constructed_, todo, futures>>

\* The worker visits the next bucket of its list.
Fetch ==
    /\ pc = "fetch"
    /\ todo # Nil
    /\ LET b == Head(todo)
       IN  \/ /\ Cached(b)
              /\ lru_' = RecordAccess(lru_, bucket_table_[b])
              /\ futures' = Append(futures, Visited(b, bucket_table_[b], "cached"))
              /\ todo' = Tail(todo)
              /\ UNCHANGED <<cache_, dirty_flag_, bucket_table_, bucket_ids_, free_list_,
                             new_bucket_constructed_, queue, claim, pc>>
           \/ /\ ~Cached(b)
              /\ FetchBucket(b, Target)
    /\ UNCHANGED <<geometry, region, memory, got, stage, request, loop, result, size_>>

\* Mutant: the frame is filled before its old bucket is written back.
Flushed_Early ==
    /\ pc = "flush"
    /\ Fill(claim.bucket, claim.frame, bucket_table_)
    /\ UNCHANGED <<dirty_flag_, bucket_ids_, free_list_, lru_, geometry, region, memory,
                   got, stage, request, loop, result, size_>>

\* flush_future.wait() returns, whether the write succeeded or not.
Flushed ==
    /\ pc = "flush"
    /\ claim.flushed
    /\ Fill(claim.bucket, claim.frame, bucket_table_)
    /\ UNCHANGED <<dirty_flag_, bucket_ids_, free_list_, lru_, geometry, region, memory,
                   got, stage, request, loop, result, size_>>

\* One task of DMA client c: ProcessQueue serves its queue in order.
DmaTask(c, success) ==
    LET r  == Head(queue[c])
        b  == region[c].base + r.offset
    IN  /\ queue[c] # Nil
        /\ queue' = [queue EXCEPT ![c] = Tail(@)]
        /\ \/ /\ success
              /\ host' = IF r.is_write THEN [host EXCEPT ![b] = cache_[r.frame]] ELSE host
              /\ cache_' = IF r.is_write THEN cache_ ELSE [cache_ EXCEPT ![r.frame] = host[b]]
              /\ UNCHANGED failures
           \/ /\ ~success
              /\ failures < MaxFailures
              /\ failures' = failures + 1
              /\ UNCHANGED <<host, cache_>>
        /\ claim' = IF r.is_write /\ r.awaited THEN [claim EXCEPT !.flushed = TRUE] ELSE claim
        /\ futures' = [i \in DOMAIN futures |->
              IF ~r.is_write /\ r.awaited /\ futures[i].frame = r.frame
                 /\ futures[i].state = "pending"
              THEN [futures[i] EXCEPT !.state = IF success THEN "ok" ELSE "failed"]
              ELSE futures[i]]
        /\ UNCHANGED <<dirty_flag_, bucket_table_, bucket_ids_, free_list_, lru_, table,
                       todo, got, stage, work>>

------------------------------------------------------------------------------
(* Taking over what was fetched *)

\* Mutant: a failed transfer does not set its promise.
Waited_Success ==
    /\ pc = "fetch" /\ todo = Nil /\ got < Len(futures)
    /\ futures[got + 1].state \in {"cached", "ok"}

\* The worker waits for the futures in order.
Waited == pc = "fetch" /\ todo = Nil /\ got < Len(futures) /\ futures[got + 1].state # "pending"
AllTaken == pc = "fetch" /\ todo = Nil /\ got = Len(futures)

Next1 == futures[got + 1]

\* bucket_table_ after taking over a future, if its success is looked at, and if not.
Taken == IF Next1.state = "ok" THEN Put(bucket_table_, Next1.bucket, Next1.frame)
                               ELSE bucket_table_
TakenAnyway == IF Next1.state = "cached" THEN bucket_table_
               ELSE Put(bucket_table_, Next1.bucket, Next1.frame)

StartFetches(bs, why) ==
    /\ pc' = "fetch"
    /\ todo' = bs
    /\ futures' = Nil
    /\ got' = 0
    /\ stage' = why
    /\ UNCHANGED claim

\* The request is done.
Finish ==
    /\ pc' = "idle"
    /\ request' = Nil
    /\ futures' = Nil
    /\ got' = 0
    /\ stage' = "none"
    /\ loop' = Nil
    /\ queue' = Abandoned(queue)
    /\ UNCHANGED <<todo, claim>>

------------------------------------------------------------------------------
Init ==
    /\ cache_ = [f \in Frames |-> Zeroed]
    /\ dirty_flag_ = [f \in Frames |-> FALSE]
    /\ bucket_table_ = Nil
    /\ bucket_ids_ = [f \in Frames |-> NoBucket]
    /\ free_list_ = [i \in 1..CACHE_SIZE |-> i - 1]
    /\ lru_ = Nil
    /\ level_ = START_LEVEL
    /\ addr_capacity_ = 2^START_LEVEL
    /\ bl_capacity_ = 2^(START_LEVEL - 1)
    /\ bl_start_bucket_id_ = 2^(START_LEVEL - 1) - 4
    /\ tl_start_bucket_id_ = 2^START_LEVEL - 4
    /\ next_start_bucket_id_ = 2^(START_LEVEL + 1) - 4
    /\ new_bucket_constructed_ = {}
    /\ size_ = 0
    /\ region = Regions(bl_start_bucket_id_, bl_capacity_)
                \o Regions(tl_start_bucket_id_, addr_capacity_)
    /\ queue = [c \in 1..THREADS |-> Nil]
    /\ host = [b \in bl_start_bucket_id_ .. next_start_bucket_id_ - 1 |-> Zeroed]
    /\ failures = 0
    /\ pc = "idle"
    /\ request = Nil
    /\ todo = Nil /\ futures = Nil /\ got = 0 /\ claim = Nil /\ stage = "none"
    /\ loop = Nil
    /\ result = [fn |-> "none"]

------------------------------------------------------------------------------
(* ProcessSearch and ProcessDelete: the cached ones of the four buckets first *)

Hits(k) == {i \in 1..4 : LET b == Get4Buckets(k)[i]
                         IN  Cached(b) /\ SearchSlot(cache_[bucket_table_[b]], k)}

\* The replacer's list after the first n buckets were looked up.
LookedUp(k, n) ==
    LET Visit(l, i) == IF i <= n /\ Cached(Get4Buckets(k)[i])
                       THEN RecordAccess(l, bucket_table_[Get4Buckets(k)[i]]) ELSE l
    IN  Visit(Visit(Visit(Visit(lru_, 1), 2), 3), 4)

Uncached(k) ==
    LET to_fetch(i) == IF Cached(Get4Buckets(k)[i]) THEN Nil ELSE <<Get4Buckets(k)[i]>>
    IN  to_fetch(1) \o to_fetch(2) \o to_fetch(3) \o to_fetch(4)

Missed(type, k, why) ==
    /\ Hits(k) = {}
    /\ lru_' = LookedUp(k, 4)
    /\ request' = [type |-> type, key |-> k, value |-> NULL]
    /\ loop' = [searched |-> FALSE]
    /\ StartFetches(Uncached(k), why)
    /\ UNCHANGED <<cache_, dirty_flag_, queue, result>>

ProcessSearch(k) ==
    /\ pc = "idle" /\ "SEARCH" \in Kinds
    /\ \/ /\ Hits(k) # {}
          /\ LET i == First(Hits(k))
             IN  /\ lru_' = LookedUp(k, i)
                 /\ result' = [fn |-> "query", key |-> k,
                               out |-> Found(cache_[bucket_table_[Get4Buckets(k)[i]]], k)]
          /\ UNCHANGED <<cache_, dirty_flag_, pc, request, fetches, loop, queue>>
       \/ Missed("SEARCH", k, "search")
    /\ UNCHANGED <<bucket_table_, bucket_ids_, free_list_, table, memory, size_>>

\* All futures are taken over; the first bucket that holds the key answers.
GetSearch ==
    /\ Waited /\ stage = "search"
    /\ got' = got + 1
    /\ bucket_table_' = Taken
    /\ LET B == cache_[Next1.frame]
           k == request.key
       IN  \/ /\ Next1.state = "ok" /\ ~loop.searched /\ SearchSlot(B, k)
              /\ result' = [fn |-> "query", key |-> k, out |-> Found(B, k)]
              /\ loop' = [searched |-> TRUE]
           \/ /\ ~(Next1.state = "ok" /\ ~loop.searched /\ SearchSlot(B, k))
              /\ UNCHANGED <<result, loop>>
    /\ UNCHANGED <<cache_, dirty_flag_, bucket_ids_, free_list_, lru_, table, memory,
                   queue, todo, futures, claim, stage, pc, request, size_>>

SearchDone ==
    /\ AllTaken /\ stage = "search"
    /\ result' = IF loop.searched THEN result
                 ELSE [fn |-> "query", key |-> request.key, out |-> NULL]
    /\ Finish
    /\ UNCHANGED <<frames, table, memory, size_>>

Deleted(k, out) == result' = [fn |-> "delete", key |-> k, out |-> out]

ProcessDelete(k) ==
    /\ pc = "idle" /\ "DELETE" \in Kinds
    /\ \/ /\ Hits(k) # {}
          /\ LET i == First(Hits(k))
                 f == bucket_table_[Get4Buckets(k)[i]]
             IN  /\ lru_' = LookedUp(k, i)
                 /\ cache_' = [cache_ EXCEPT ![f] = DeleteSlot(@, k)]
                 /\ dirty_flag_' = [dirty_flag_ EXCEPT ![f] = TRUE]
          /\ Deleted(k, 0)
          /\ UNCHANGED <<pc, request, fetches, loop, queue>>
       \/ Missed("DELETE", k, "delete")
    /\ UNCHANGED <<bucket_table_, bucket_ids_, free_list_, table, memory, size_>>

\* The first bucket that holds the key ends the request: the futures behind it are
\* dropped, and their frames stay claimed for buckets that are not in the table.
GetDelete ==
    /\ Waited /\ stage = "delete"
    /\ bucket_table_' = Taken
    /\ LET f == Next1.frame
           k == request.key
       IN  \/ /\ Next1.state = "ok" /\ SearchSlot(cache_[f], k)
              /\ cache_' = [cache_ EXCEPT ![f] = DeleteSlot(@, k)]
              /\ dirty_flag_' = [dirty_flag_ EXCEPT ![f] = TRUE]
              /\ Deleted(k, 0)
              /\ Finish
           \/ /\ ~(Next1.state = "ok" /\ SearchSlot(cache_[f], k))
              /\ got' = got + 1
              /\ UNCHANGED <<cache_, dirty_flag_, result, pc, request, loop, queue, todo,
                             futures, claim, stage>>
    /\ UNCHANGED <<bucket_ids_, free_list_, lru_, table, memory, size_>>

DeleteDone ==
    /\ AllTaken /\ stage = "delete"
    /\ Deleted(request.key, 1)
    /\ Finish
    /\ UNCHANGED <<frames, table, memory, size_>>

\* The END case of Run: the frames are not flushed.
End ==
    /\ pc = "idle" /\ "END" \in Kinds
    /\ pc' = "stopped"
    /\ UNCHANGED <<frames, table, memory, queue, fetches, request, loop, result, size_>>

------------------------------------------------------------------------------
(* ProcessInsert *)

GetCurrentLoadFactor == (100 * size_) \div (ASSOC_NUM * (bl_capacity_ + addr_capacity_))

\* The content of bucket b as the worker would read it: in its frame, on its way to
\* the host, or in host memory.
Content(b) ==
    IF Cached(b) THEN cache_[bucket_table_[b]]
    ELSE IF claim # Nil /\ claim.old = b /\ ~claim.flushed THEN cache_[claim.frame]
    ELSE host[b]

Contents == [b \in bl_start_bucket_id_ .. next_start_bucket_id_ - 1 |-> Content(b)]

CopiesIn(T, K, V) ==
    Cardinality({p \in (DOMAIN T) \X Slots :
        LET e == T[p[1]][p[2]] IN e.token = 1 /\ e.key \in K /\ e.value \in V})

Copies(K, V) == CopiesIn(Contents, K, V)

NoFrame == -1

\* The start of Expand: the new level, zeroed, and its DMA clients are at hand.
ExpandBegin ==
    /\ level_ < MaxLevel
    /\ new_bucket_constructed_' = {}
    /\ region' = region \o Regions(next_start_bucket_id_, addr_capacity_ * 2)
    /\ queue' = queue \o [c \in 1 .. THREADS \div 2 |-> Nil]
    /\ host' = [b \in bl_start_bucket_id_ .. next_start_bucket_id_ + addr_capacity_ * 2 - 1 |->
                   IF b \in DOMAIN host THEN host[b] ELSE Zeroed]
    /\ loop' = [bucket |-> bl_start_bucket_id_, frame |-> NoFrame, copy |-> Nil, slot |-> 0]
    /\ pc' = "expand"

ProcessInsert(k, v) ==
    /\ pc = "idle" /\ "INSERT" \in Kinds
    /\ size_ < MaxSize
    /\ Copies(AnyKey, Value) < MaxItems
    /\ request' = [type |-> "INSERT", key |-> k, value |-> v]
    /\ \/ /\ GetCurrentLoadFactor < LoadPercent
          /\ pc' = "insert"
          /\ UNCHANGED <<new_bucket_constructed_, region, queue, host, loop>>
       \/ /\ GetCurrentLoadFactor >= LoadPercent
          /\ ExpandBegin
    /\ UNCHANGED <<frames, geometry, failures, fetches, result, size_>>

Inserted ==
    /\ size_' = size_ + 1
    /\ result' = [fn |-> "insert", key |-> request.key, out |-> 0]
    /\ Finish

\* tryInsertInto2Buckets of the top level buckets, then of the bottom level ones.
TryTop ==
    /\ pc = "insert"
    /\ StartFetches(SubSeq(Get4Buckets(request.key), 1, 2), "try0")
    /\ UNCHANGED <<frames, table, memory, queue, request, loop, result, size_>>

TryNext ==
    \/ /\ stage = "try0"
       /\ StartFetches(SubSeq(Get4Buckets(request.key), 3, 4), "try2")
       /\ UNCHANGED loop
    \/ /\ stage = "try2"
       /\ pc' = "move"
       /\ loop' = [i |-> 1, slot |-> 0, j |-> 1, src |-> NoFrame, dst_nbs |-> Nil]
       /\ UNCHANGED fetches

GetTry ==
    /\ Waited /\ stage \in {"try0", "try2"}
    /\ bucket_table_' = Taken
    /\ \/ /\ Next1.state # "failed"
          /\ got' = got + 1
          /\ UNCHANGED <<todo, futures, claim, stage, pc, loop, queue>>
       \/ /\ Next1.state = "failed"
          /\ TryNext
          /\ queue' = Abandoned(queue)
    /\ UNCHANGED <<cache_, dirty_flag_, bucket_ids_, free_list_, lru_, table, memory,
                   request, result, size_>>

\* Mutant: the bucket is not marked as modified.
Try_NotDirty ==
    /\ AllTaken /\ stage \in {"try0", "try2"}
    /\ LET f0 == futures[1].frame
           f1 == futures[2].frame
           f  == IF Count(cache_[f0]) > Count(cache_[f1]) THEN f1 ELSE f0
       IN  \/ /\ CanInsert(cache_[f])
              /\ cache_' = [cache_ EXCEPT ![f] = InsertSlot(@, request.key, request.value)]
              /\ Inserted
           \/ /\ ~CanInsert(cache_[f])
              /\ TryNext
              /\ UNCHANGED <<cache_, queue, request, result, size_>>
    /\ UNCHANGED <<dirty_flag_, bucket_table_, bucket_ids_, free_list_, lru_, table, memory>>

Try ==
    /\ AllTaken /\ stage \in {"try0", "try2"}
    /\ LET f0 == futures[1].frame
           f1 == futures[2].frame
           f  == IF Count(cache_[f0]) > Count(cache_[f1]) THEN f1 ELSE f0
       IN  \/ /\ CanInsert(cache_[f])
              /\ cache_' = [cache_ EXCEPT ![f] = InsertSlot(@, request.key, request.value)]
              /\ dirty_flag_' = [dirty_flag_ EXCEPT ![f] = TRUE]
              /\ Inserted
           \/ /\ ~CanInsert(cache_[f])
              /\ TryNext
              /\ UNCHANGED <<cache_, dirty_flag_, queue, request, result, size_>>
    /\ UNCHANGED <<bucket_table_, bucket_ids_, free_list_, lru_, table, memory>>

------------------------------------------------------------------------------
(* Moving an entry of one of the four buckets to make room *)

MoveNext(l) ==
    IF l.j = 1 THEN [l EXCEPT !.j = 2]
    ELSE IF l.slot < ASSOC_NUM - 1 THEN [l EXCEPT !.j = 1, !.slot = @ + 1, !.dst_nbs = Nil]
    ELSE [i |-> l.i + 1, slot |-> 0, j |-> 1, src |-> NoFrame, dst_nbs |-> Nil]

MoveSource ==
    /\ pc = "move" /\ loop.i <= 4 /\ loop.src = NoFrame
    /\ LET b == Get4Buckets(request.key)[loop.i]
       IN  \/ /\ Cached(b)
              /\ loop' = [loop EXCEPT !.src = bucket_table_[b]]
              /\ UNCHANGED <<pc, fetches>>
           \/ /\ ~Cached(b)
              /\ StartFetches(<<b>>, "src")
              /\ UNCHANGED loop
    /\ UNCHANGED <<frames, table, memory, queue, request, result, size_>>

\* Whether the fetch succeeded is not looked at.
GetMove ==
    /\ Waited /\ stage \in {"src", "dst"}
    /\ bucket_table_' = TakenAnyway
    /\ loop' = IF stage = "src" THEN [loop EXCEPT !.src = Next1.frame] ELSE loop
    /\ pc' = "move"
    /\ got' = got + 1
    /\ UNCHANGED <<cache_, dirty_flag_, bucket_ids_, free_list_, lru_, table, memory, queue,
                   todo, futures, claim, stage, request, result, size_>>

\* An entry is tried in its two top level buckets, which are computed once: what is
\* inserted there is what the slot holds after the fetches.  The InsertSlot of the
\* request's own item that follows a move is an argument of ENSURE.
MoveEntry ==
    /\ pc = "move" /\ loop.i <= 4 /\ loop.src # NoFrame
    /\ LET e  == cache_[loop.src][loop.slot]
           l  == IF loop.dst_nbs = Nil
                 THEN [loop EXCEPT !.dst_nbs = Get4Buckets(e.key)] ELSE loop
           to == l.dst_nbs[loop.j]
       IN  \/ /\ to = Get4Buckets(request.key)[loop.i]
              /\ loop' = MoveNext(l)
              /\ UNCHANGED <<cache_, dirty_flag_, pc, fetches, queue, request, result, size_>>
           \/ /\ to # Get4Buckets(request.key)[loop.i] /\ ~Cached(to)
              /\ StartFetches(<<to>>, "dst")
              /\ loop' = l
              /\ UNCHANGED <<cache_, dirty_flag_, queue, request, result, size_>>
           \/ /\ to # Get4Buckets(request.key)[loop.i] /\ Cached(to)
              /\ LET f == bucket_table_[to]
                 IN  \/ /\ ~CanInsert(cache_[f])
                        /\ loop' = MoveNext(l)
                        /\ UNCHANGED <<cache_, dirty_flag_, pc, fetches, queue, request,
                                       result, size_>>
                     \/ /\ CanInsert(cache_[f])
                        /\ cache_' = [cache_ EXCEPT ![f] = InsertSlot(@, e.key, e.value),
                                                    ![loop.src][loop.slot].token = 0]
                        /\ dirty_flag_' = [dirty_flag_ EXCEPT ![f] = TRUE]
                        /\ Inserted
    /\ UNCHANGED <<bucket_table_, bucket_ids_, free_list_, lru_, table, memory>>

\* ProcessInsert returns false, and Run drops the request.
MoveFail ==
    /\ pc = "move" /\ loop.i > 4
    /\ Finish
    /\ UNCHANGED <<frames, table, memory, result, size_>>

------------------------------------------------------------------------------
(* Expand, between asking for the new level and releasing the old one *)

ExpandBucket ==
    /\ pc = "expand" /\ loop.frame = NoFrame /\ loop.bucket < tl_start_bucket_id_
    /\ \/ /\ Cached(loop.bucket)
          /\ LET f == bucket_table_[loop.bucket]
             IN  loop' = [loop EXCEPT !.frame = f, !.copy = cache_[f], !.slot = 0]
          /\ UNCHANGED <<pc, fetches>>
       \/ /\ ~Cached(loop.bucket)
          /\ StartFetches(<<loop.bucket>>, "bottom")
          /\ UNCHANGED loop
    /\ UNCHANGED <<frames, table, memory, queue, request, result, size_>>

GetBottom ==
    /\ Waited /\ stage = "bottom"
    /\ bucket_table_' = TakenAnyway
    /\ loop' = [loop EXCEPT !.frame = Next1.frame, !.copy = cache_[Next1.frame], !.slot = 0]
    /\ pc' = "expand"
    /\ got' = got + 1
    /\ UNCHANGED <<cache_, dirty_flag_, bucket_ids_, free_list_, lru_, table, memory, queue,
                   todo, futures, claim, stage, request, result, size_>>

ToSplit == {i \in Slots : i >= loop.slot /\ loop.copy[i].token = 1}

\* splitBucket brings the two buckets of the new level that an item hashes to into
\* the cache; the InsertSlot of the item is an argument of ENSURE.
SplitSlot ==
    /\ pc = "expand" /\ loop.frame # NoFrame /\ ToSplit # {}
    /\ LET i == First(ToSplit)
       IN  /\ StartFetches(GetExpandBucketIds(loop.copy[i].key), "split")
           /\ loop' = [loop EXCEPT !.slot = i + 1]
    /\ UNCHANGED <<frames, table, memory, queue, request, result, size_>>

GetSplit ==
    /\ Waited /\ stage = "split"
    /\ bucket_table_' = TakenAnyway
    /\ got' = got + 1
    /\ UNCHANGED <<cache_, dirty_flag_, bucket_ids_, free_list_, lru_, table, memory, queue,
                   todo, futures, claim, stage, pc, request, loop, result, size_>>

SplitTaken ==
    /\ AllTaken /\ stage = "split"
    /\ pc' = "expand"
    /\ UNCHANGED <<frames, table, memory, queue, fetches, request, loop, result, size_>>

SplitDone ==
    /\ pc = "expand" /\ loop.frame # NoFrame /\ ToSplit = {}
    /\ dirty_flag_' = [dirty_flag_ EXCEPT ![loop.frame] = FALSE]
    /\ loop' = [bucket |-> loop.bucket + 1, frame |-> NoFrame, copy |-> Nil, slot |-> 0]
    /\ UNCHANGED <<cache_, bucket_table_, bucket_ids_, free_list_, lru_, table, memory, queue,
                   fetches, pc, request, result, size_>>

\* The top level becomes the bottom level, and the clients of the old bottom level
\* are destroyed with what is still queued.
ExpandEnd ==
    /\ pc = "expand" /\ loop.frame = NoFrame /\ loop.bucket >= tl_start_bucket_id_
    /\ addr_capacity_' = addr_capacity_ * 2
    /\ bl_capacity_' = bl_capacity_ * 2
    /\ level_' = level_ + 1
    /\ bl_start_bucket_id_' = tl_start_bucket_id_
    /\ tl_start_bucket_id_' = next_start_bucket_id_
    /\ next_start_bucket_id_' = tl_start_bucket_id_' + addr_capacity_'
    /\ region' = SubSeq(region, 1 + (THREADS \div 2), Len(region))
    /\ queue' = SubSeq(queue, 1 + (THREADS \div 2), Len(queue))
    /\ host' = [b \in bl_start_bucket_id_' .. next_start_bucket_id_' - 1 |-> host[b]]
    /\ loop' = Nil
    /\ pc' = "insert"
    /\ UNCHANGED <<frames, new_bucket_constructed_, failures, fetches, request, result, size_>>

------------------------------------------------------------------------------
Requests ==
    \/ \E k \in Key : ProcessSearch(k) \/ ProcessDelete(k)
    \/ \E k \in Key, v \in Value : ProcessInsert(k, v)
    \/ End

Worker ==
    \/ Fetch \/ Flushed
    \/ GetSearch \/ SearchDone
    \/ GetDelete \/ DeleteDone
    \/ TryTop \/ GetTry \/ Try
    \/ MoveSource \/ GetMove \/ MoveEntry \/ MoveFail
    \/ ExpandBucket \/ GetBottom \/ SplitSlot \/ GetSplit \/ SplitTaken \/ SplitDone
    \/ ExpandEnd

Next ==
    \/ Requests
    \/ Worker
    \/ \E c \in DOMAIN queue, success \in BOOLEAN : DmaTask(c, success)

Spec == Init /\ [][Next]_vars

\* The worker thread runs, and so does the thread of each DMA client: a task that is
\* queued is served, with or without success.
FairSpec ==
    /\ Spec
    /\ WF_vars(Worker)
    /\ \A c \in 1 .. 2 * THREADS :
          WF_vars(c \in DOMAIN queue /\ \E success \in BOOLEAN : DmaTask(c, success))

------------------------------------------------------------------------------
(* Properties *)

BucketIds == DOMAIN Contents

\* The worker is inside Expand.
Expanding == pc = "expand" \/ (pc \in {"fetch", "flush", "wild"} /\ stage \in {"bottom", "split"})

\* bucket_table_ and bucket_ids_ agree at every step of every request, early returns
\* and failed transfers included: a frame is listed for one bucket at most, and that
\* is the bucket FetchBucket writes the frame back to.  This is about the bookkeeping
\* and not about the bytes: a fetch that failed is listed all the same by a movement
\* and by Expand (TakenAnyway), with what the frame held before.
TableSound == \A b \in DOMAIN bucket_table_ : bucket_ids_[bucket_table_[b]] = b

\* Every frame is free or in the replacer's list, and there only once, also when
\* requests were left early: frames do not leak and Evict never comes up empty.
FramesAccounted ==
    /\ \A f \in Frames :
          Cardinality({i \in DOMAIN free_list_ : free_list_[i] = f})
          + Cardinality({i \in DOMAIN lru_ : lru_[i] = f}) = 1

\* The DMA client and offset computed for a bucket are where the host exported it,
\* before, during and after an Expand (GetClientBucket, Expand, Host::Expand).
Addressed ==
    \A b \in BucketIds \cup (IF Expanding THEN DOMAIN host ELSE {}) :
        LET at == GetClientBucket(b)
        IN  /\ at.client + 1 \in DOMAIN region
            /\ at.offset < region[at.client + 1].len
            /\ region[at.client + 1].base + at.offset = b

\* While entries are moved, the frame they are read from and cleared in still holds
\* the bucket that the request hashes to (the fetches of ProcessInsert's last loop
\* do not record accesses to it).
MoveSourceResident ==
    (request # Nil /\ request.type = "INSERT" /\ loop # Nil /\ "src" \in DOMAIN loop
     /\ loop.src # NoFrame)
    => bucket_ids_[loop.src] = Get4Buckets(request.key)[loop.i]

\* Between requests every item in a frame that is not marked dirty is in host memory
\* too, so that dropping the frame loses nothing.  (The reverse is not so: a movement
\* clears its source without marking it, see MoveEntry.)
CleanLosesNothing ==
    pc = "idle" =>
        \A b \in DOMAIN bucket_table_ \cap BucketIds, i \in Slots :
            LET f == bucket_table_[b]
            IN  (~dirty_flag_[f] /\ cache_[f][i].token = 1) => cache_[f][i] = host[b][i]

\* Every request is answered: the worker never waits for ever.
RequestsComplete == (pc # "idle") ~> (pc \in {"idle", "stopped", "wild"})

Items == LET T == Contents IN [q \in Key \X Value |-> CopiesIn(T, {q[1]}, {q[2]})]

Store == INSTANCE KVStore WITH items <- Items

\* The store on the DPU is a bag of items: caching, eviction, write back and the
\* overlapping DMA transfers are invisible to the caller.
ImplementsStore == Store!Spec

\* While Expand rehashes the bottom level, evicting and fetching through the whole
\* cache, the items of the top level stay as they are: modified buckets it evicts are
\* written back before their frames are used, and reach the right memory.
ExpandKeepsTop ==
    [][ Expanding =>
            \A b \in tl_start_bucket_id_ .. next_start_bucket_id_ - 1 :
                Content(b)' = Content(b) ]_vars

\* "Fetch buckets not in cache" (ProcessDelete): no bucket is in two frames.
FetchUncached ==
    \A f, g \in Frames : bucket_ids_[f] = bucket_ids_[g] => f = g \/ bucket_ids_[f] = NoBucket

\* After an entry was moved the request's item is inserted (the ENSURE "Still can't
\* move even after moveing").
MoveInserts ==
    [][ (MoveEntry /\ size_' # size_) =>
            \A k \in Key : k = request.key => Copies({k}, Value)' > Copies({k}, Value) ]_vars
==============================================================================
