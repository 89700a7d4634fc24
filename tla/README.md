# Verification of levelkv and Octopus

TLA+ specifications of two storage systems of the repository, with TLC models and TLAPS proofs:
the key-value stores under `src/levelkv` and the distributed file system under `src/sys/octopus`.
The benchmarks, DrTM+H and third-party code are listed under *Not modelled*.

## The systems

levelkv stores fixed-size items in a *level hash table*: a top level of 2^n buckets and a bottom
level of 2^(n-1). A key hashes to two buckets in each level. When all four are full an item is
moved, and if that fails a new top level is put on the table and the old bottom level rehashed
into it. The code has two stores built on this idea.

* **The RPC store**, which both `main()` functions start. `LevelHashingDpu` sends each operation
  to `LevelHashingHost`, which executes it on the C table of `level_hashing.c`.
* **The DMA store** (`Dpu`, `Host`; commented out in `dpu/main.cpp`). The table is in host memory
  and the DPU works on it through a cache of bucket frames, DMA clients with a thread each, and
  messages to the host when the table grows.

Octopus spreads the paths of a file system over servers by hashing. A client library turns each
operation into calls; worker threads serve them under lock words in the hash table, and call other
servers for the parent directory. Data is moved by the clients with one-sided RDMA.

| Component | State | Operations | What makes it hard | Module |
|---|---|---|---|---|
| C table | two arrays, counters, resize state | query, delete, update, insert, expand, shrink | a resize half done, expansion inside a shrink, uninitialised tokens | `LevelHash` |
| RPC store | one call in flight, channel | Search, Insert, two callbacks | the answer belongs to the call; an insert that expands | `LevelRpc` |
| Buckets | tokens and slots | SearchSlot, InsertSlot, DeleteSlot, Count | emptied slots keep their bytes | `LevelBucket` |
| DPU worker | frames, table, LRU list, geometry | three request types, Expand, END | eviction, write-back, transfers in any order, early returns | `Dpu` |
| Handshake | counters and flags at both ends | constructors, Expand, END | nested polling, counters that index clients | `Handshake` |
| DMA client | queue, mutex, condition variable | ScheduleReadWrite, Stop, ProcessQueue | lost wake-ups | `DmaClient` |
| DPU and host | the two above | the life of a client from start-up to Expand or END | memory freed at one end while the other uses it | `Transport` |
| Octopus locks | a 64-bit word per hash bucket | read and write lock and unlock | announce first, wait later; unlock without a check | `OctoLock` |
| Octopus storage | item tables, extents | create, put, remove, allocate, translate | tables that run out, ranges over several servers | `OctoStore` |
| Octopus client | the operation and its next call | nine operations of nrfs.cpp | several calls make one operation | `OctoCalls` |
| Octopus servers | queues, stacks of handlers, tables, writes in flight | fifteen messages | nested polling, locks across calls, late RDMA writes | `OctoFrames`, `Octopus` |

## Modules and the code

* `KVStore` is the abstract specification of the stores: a bag of items and the result of the last
  call. A key may be stored several times, because no insert in the code looks for an existing item.
* `LevelHash` models each function of `level_hashing.c` by an action of the same name.
  `level_insert` is cut where it calls `level_expand`, and `level_expand` and `level_shrink` at
  each item, so that what a loop has done so far is a state. `Fresh` is what `alignedmalloc`
  returns: nothing clears it, so a slot may hold junk, with a token from `JunkTokens` and a key from
  `JunkKeys`, which are no keys of the caller.
* `LevelRpc` extends `LevelHash` with the channel, the caller and the two callbacks.
* `Dpu` cuts the worker where it starts or awaits a DMA. Each client serves its queue in order
  and the clients run in any order. `ENSURE` compiles to `((void)0)` (`common/utils.hpp`), so its
  argument is not evaluated in the model either.
* `Handshake` has the messages of start-up, Expand and END. Rehashing itself is in `Dpu`.
* `DmaClient` has the threads, mutex and condition variable that `Dpu` takes as a queue.
* `Transport` composes `Handshake` with one `DmaClient`, the first of the level that the first
  Expand retires. The worker schedules transfers, drops the futures an early return leaves, waits
  for the others before it goes on, and stops the client in Expand or in the destructor.
* `OctoLock` has the four operations of `lock.cpp` and, as `LockNext`, what callers must keep to.
  `HALF` stands for the 2^32 that the lower half of a word counts to. `StrayUnlock` is the unlock of
  a word that nobody has locked.
* `OctoStore` has the tables of `table.hpp`, the allocation of `extentWrite` and
  `fillFilePositionInformation` as operators.
* `OctoCalls` has the client library: the first call of each operation and the call that follows a
  reply. `UPDATEMETA` and `EXTENTREADEND`, which close a transfer in `nrfs.cpp`, are dropped by
  `RdmaCall` (`RPCClient.cpp:69-75`) and so are no calls here.
* `OctoFrames` has clients, workers, locks and the hash table. Each client has two *frames*:
  `Main(c)` for the request it has sent and `Sub(c)` for the one that a handler makes to the server
  of the parent. `stack[t]` holds the handlers nested in worker `t`: `WriteLock` polls for other
  requests while it waits, `ReadLock` does not.
* `Octopus` extends it and `OctoStore` with the handlers. A handler is one action from its lock to
  its reply; mknod, mkdir, remove and rename are cut at their calls to the parent. `flying` holds
  the RDMA writes of `updateRemoteMeta`, which nobody waits for. Two variables are not in the code:
  `overlapped` records that two changes of a directory overlapped, `forgotten` the lock words that a
  failed change of a directory left locked or that a read of 0 bytes unlocked. That read fails before
  it locks (`filesystem.cpp:1483`), and `parseMessage` unlocks all the same (line 318) at an offset
  nobody has set: `EmptyRead` takes any word of the server, or none. `HasRoom` is the bound of the
  hash table. `OctopusData` adds what is said of the bytes of files.
* `OctoProtocol` says what the handlers do to the variables of `OctoFrames` whatever is in their
  tables (`FrameSpec`). It stands between `Octopus` and the theorems about locks and names.
* `NameService` is the abstract specification of what the servers promise about names: a set of
  paths on which each call takes effect in one step between request and reply.
* `MCLevelHash`, `MCDpu`, `MCLevelRpc` and `MCOctopus` give hash functions and workloads;
  `Transport` is run as it is. The modules whose names end in `Proofs` hold the proofs.

`PROJECT.json` maps every definition to its lines. External, and modelled from their use: the
comch channel (ordered, no loss), the DMA engine, `std::mutex`, `std::condition_variable`.

## Runs

| Run | What it shows |
|---|---|
| `table` | Three keys that collide at level 2 and part later. Items stay where a search looks, the counters are right between calls, and the table implements `KVStore`. Every call returns, except an insert whose slots are all taken by copies of its own key. |
| `table_junk` | The same promise to the caller when fresh memory holds a non-zero token. |
| `rpc` | Buckets of two slots across expansions. No acknowledged insert is missed, a search is given nothing but what was stored under its key, and every call is answered, with the exception of `table`. |
| `dpu_read_write` | Search and insert through four frames for six buckets implement `KVStore` for every order of DMA transfers. |
| `dpu_failures` | Every type of request, growth and up to two failed DMA tasks: the table and the frames agree on which bucket a frame was claimed for, frames stay accounted for, requests end. |
| `dpu_expand` | Addresses, write-backs, the source of a movement and the top level's contents before, during and after an Expand. |
| `transport` | Three Expands and END with a live DMA client. Clients stay aligned with the host's memory, a transfer the worker waits for never touches freed memory, requests are served in order and answered, Expand and END finish. |
| `octo_names` | Three clients, two of them on one worker, create, open, list and remove a directory and its files on two servers, two of them the same file. Locks exclude and are given back, indexes are owned once, directories name what exists unless two changes overlapped, every operation returns, and the servers implement `NameService`. |
| `octo_files` | Two clients create, write, read, rename to another server and delete until blocks or the hash table run out; a read may be of 0 bytes. Locks are given back, also those that wait for a DOCOMMIT, blocks are owned by one file and given back, ranges translate to the right bytes, handlers hold the lock of their path, directories stay right and every operation returns. |

Three runs are expected to be violated. Each states what a comment or an assertion says:

| Run | The code | The text |
|---|---|---|
| `dpu_orphan` | a delete that returns early leaves frames unlisted; their buckets are fetched twice | "Fetch buckets not in cache" (`dpu.cpp:421`) |
| `dpu_move_inserts` | after a movement the new item is not stored, and success is reported | ENSURE "Still can't move even after moveing" (`dpu.cpp:558`) |
| `octo_entries` | of two changes of a directory that overlap, the later write drops the earlier entry | "Data will be written to the remote address, and lock will be released with the assist of imm data." (`filesystem.cpp:83`) |

Seen while modelling, in the models as in the code, without a run of their own:

* Expand drops the items of the old bottom level: its inserts are arguments of `ENSURE` too
  (`dpu.cpp:718`).
* A movement clears its source without marking the frame dirty (`dpu.cpp:549`), so the moved entry
  can come back from host memory. `CleanLosesNothing` therefore says that clean frames lose
  nothing, and not that they equal host memory.
* A delete does not decrement `size_`, "Number of kvs stored in the db" (`dpu.hpp:122`).
* `level_insert` may choose the fuller of two buckets, where its comment says "less-loaded"
  (`level_hashing.c:399`). An expansion inside a shrink sets `resize_state` to 0, where
  `level_hashing.h:46` has 2 for a table being shrunk.
* The last of several positions of a byte range gets offset 0 (`filesystem.cpp:1465`).
  `PositionsSound` leaves that offset out.
* The server unlocks a word after a read of 0 bytes, which has locked none (`filesystem.cpp:318`).
  `nrfsRead` does not look at the size; the command-line client does (`nrfsCli.cpp`) and sends no
  such read.
* `level_insert` expands the table for ever once all slots of a key hold copies of that key.
* `addMetaToDirectory` and `removeMetaFromDirectory` leave the directory locked when they fail, and
  `Table::create` its mutex when the table is full. The properties say which states they leave out.

### Bounds

levelkv: one or two slots per bucket stand for the code's four: movements and expansions then need
few items. Levels go up to 4, enough for two expansions from level 2. The DPU's cache has four to
six frames, in the passing runs so few that evictions happen. `LoadPercent` is 95 in the code; the
growth runs use 25, since reaching 95 takes a dozen inserts. `WORD` 256 replaces 2^64 for the
counters; they stay far below it. At most one slot per allocation holds junk (`MaxJunk`), with one
junk key. Distinct keys part by `MaxLevel`: keys that share all their buckets at every level expand
the table as copies of one key do. The nested expansion of `level_shrink` takes more items than the
runs have; the proofs cover it. `Transport` uses the
code's eight clients, three Expands and three requests: one in service, one queued, one dropped.

The passing runs that check `ImplementsStore` on `Dpu` leave out movements, deletes and growth:
the findings above say why the store is not a bag with them. `dpu_failures` checks the
bookkeeping only.

Octopus: two servers with two workers each and three lock words. `HALF` is 4, above the number of
clients, as 2^32 is. In `octo_names` /d is on one server and the root and /d's files on the other, so that
every change of a directory crosses servers, and the two files share a lock word. In `octo_files`
a block has two bytes and a server four blocks, so that files get several extents, on two servers
after a rename, and a hash table holds three paths, so that the fourth is refused after its metadata
was created. Each client has a short program with a choice at most steps. A path and its parent
never share a lock word: the code would wait for its own lock (`filesystem.cpp:750`).

`octo_files` keeps out combinations in which the code loses blocks or stops, and for which nothing
in the repository states a promise. Each was tried with a changed workload:

| Workload | What TLC finds |
|---|---|
| a rename and a mknod in one directory, both clients on one worker | the DOCOMMIT waits behind a handler that spins for the directory's lock: `CallsReturn` fails |
| a write of the old path while it is renamed | the new name keeps the old metadata: `BlocksAccounted` fails |
| a delete of the old path while it is renamed | the new name has freed blocks: `BlocksOwned` fails |
| a write after a rename to another server, then a delete | `removecd` stops at the first foreign extent (`filesystem.cpp:2064`): `BlocksAccounted` fails |

### Deadlock

Deadlock checking is off where a behaviour really ends: the table calls `exit`, the worker or the
client stops, the programs of the Octopus clients are over, or a bound on inserts or levels stops the
worker or the table. It is on in `dpu_read_write`. `CallsReturn` finds the deadlocks of Octopus.

### Fairness

The thread that runs a call keeps running (weak fairness on `Run`, `Worker`, `DpuSteps`,
`HostSteps`): the code polls in loops without blocking. Each client's queue is served, with or
without success. `Transport` assumes weak fairness of each process and of the worker inside the
client, and strong fairness of the client's thread, which is that a mutex released again and again
is eventually acquired; spurious wake-ups are possible and never assumed. Octopus assumes weak
fairness of `Progress` as a whole: while a worker can go on or a write can land, something does.
Every behaviour of the instances is finite but for stuttering, so this suffices for `CallsReturn`
and favours nobody. No fairness is assumed of callers.

## Proofs

`LevelHashProofs` proves, for every set of keys and values, all hash functions, every bucket size,
start level and bound:

* `TypeCorrect`: the arrays keep the sizes that `level_size` and `resize_state` stand for;
* `AlwaysPlaced`: every item is in one of its key's two buckets, also during a resize;
* `AlwaysFindable`: between calls, a search of four buckets meets an item of every stored key;
* `StoreImplemented`: the table implements `KVStore`. Each call does to the bag of items, and
  returns, what `KVStore` says, and no movement, expansion or shrinking loses, doubles or alters an
  item. Any number of slots of uninitialised memory may read as full (`MaxJunk`, `JunkTokens` and
  `JunkKeys` are arbitrary), provided none of them reads as a key of the caller, which
  `HashAssumption` says and the code does not ensure;
* `CountsExact`: between calls `level_item_num` counts the items, provided `Clean`: fresh memory is
  cleared and a level has fewer slots than `uint64_t` counts. Otherwise it is false: junk tokens take
  up slots that were never counted, and the counters wrap.

They rest on `HashAssumption` and `SizeAssumption` of `LevelHash`. The first three come from the
inductive invariant `Inv == TypeOK /\ Placed`. `Placed` alone is not inductive: hash locations are
computed from `addr_capacity`, and only `TypeOK` says how it relates to the arrays while a resize
runs. For `StoreImplemented`, `BagInv` adds that a slot with a caller's key has token 1 and a
caller's value (junk never has such a key), and that the item which `level_insert` stores during
`level_shrink` is still in the level set aside (`Aside`), so that it is not counted away before it
is stored. For `CountsExact`, `CountInv` adds the counters in the middle of a call: while
`level_expand` empties the bottom level `level_item_num[1]` is stale, and dropped with that level.

`LevelHashTables` has `Inv` and what writing, moving or clearing a slot does to the number of
copies of an item and of filled slots; `LevelHashItems` one lemma per action for `BagInv` and the
refinement; `LevelHashProofs` one per action for `CountInv`, and the theorems. The laws of powers
and cardinalities that they use are a hypothesis (`Laws`) of the lemmas and are proved once, from
the library's theorems on finite sets, in `LevelHashProofs` (`LawsHold`).

`DpuProofs` proves, for all hash functions, workloads, orders of DMA transfers and failures, every
cache of at least four frames, every even number of clients and every start level:

* `AlwaysAddressed`: the DMA client and the offset of a bucket are where the host exported it, before,
  during and after each Expand. The inductive invariant `GeoInv` says how the levels follow each
  other in the ids of their buckets and in the list of clients, and which part of a level each client
  serves; the division in `GetClientBucket` is then shown to give that client (`Located`).
* `AlwaysTableSound` and `AlwaysAccounted`: `bucket_table_` and `bucket_ids_` agree, so that a frame the
  table gives was last claimed for that bucket, and every frame is free or in the replacer's list,
  once. This is bookkeeping: nothing is said of the bytes, and a failed fetch is entered into the
  table all the same by a movement and by Expand. `FrameInv` states both over the lists as the code keeps them. It is
  not inductive: a future that is taken over enters a frame into the table long after the frame was
  claimed, and other fetches of the same request evict in between. `Rounds` adds what the code relies
  on without saying so: a request waits for at most four buckets, and their frames are the most
  recently used ones, so that with four frames none is evicted before its future is taken over.
  This is where `CACHE_SIZE >= 4` is used.

They rest on `DpuAssumption`. `RecordAccess` is written as a function on positions, and `LookedUp` and
`Uncached` as four steps for the four buckets of a key, because these are forms one can reason about
without induction over sequences.

`TransportProofs` proves of `TransportSpec`, for every even number of clients, every start level and
any number of Expands and requests:

* `AlwaysAligned`, `AlwaysAwaited`, `AlwaysFreedUnused`: what the two ends of the handshake rely on.
  After the rehashing the host may free the level before the DPU has destroyed the clients that reach
  it; `FreedUnused` says that no other client reaches freed memory, and these at no other time.
  `HandshakeInv` has one conjunct for each place of the DPU. It takes the messages under way and those
  still to be exported as one stream, whose next element is the one `mmap_to_recv_` stands for; that is
  why a counter suffices to tell the DPU which client a descriptor is for.
* `AlwaysInOrder`: the queue of the client. `ClientInv` says that what is served, in service and queued
  are the numbers of the requests in order, wherever the threads are.
* `AlwaysLive`: `WorkerInv` ties the two together. The worker leaves Run or Expand only with the
  futures it waits for in hand, and the first Expand stops the client before its level is released.

They rest on `HandshakeAssumption` and `TransportAssumption`.

For Octopus, with any servers, clients, paths, hash, operations and table sizes:

* `LockExclusive` (`OctoLockProofs`): callers that keep to `LockNext` have exclusion. The inductive
  invariant `LockInv` has two parts. `KeyInv`: the upper half of a word holds a key exactly while
  someone has it locked for writing, and only one client has. `Exact`: the lower half is the number of
  clients announced at the word, spinning ones included. `HalfAssumption`, that there are fewer
  clients than half a word counts, keeps that number out of the upper half.
* `CallsImplemented` (`OctopusProofs`): Octopus implements `FrameSpec`, one action of the protocol
  for each handler. The theorems below but for the last are shown of `FrameSpec`, where there are no
  tables, extents or writes in flight, in the module named, and carried over in `OctopusProofs`.
* `LocksFollowed` (`OctoFramesProofs`): Octopus implements `LockSpec`, if no client reads 0 bytes
  (`NoEmptyReads`). This is the step that the code leaves to its reader, since `WriteUnlock` compares
  nothing. `ChangesExclusive` follows from both, under the same condition: a read of 0 bytes makes the
  count of some word wrong, and a writer may then come in beside a reader. `WritersExclusive` needs
  no condition: two writers never meet. A stray unlock changes `Exact` and not `KeyInv`, which is what
  the theorems below rest on; they hold for every workload.
* `LocksHeld` (`OctoFramesProofs`): every handler has the lock of its path, and DOCOMMIT the lock that
  an earlier request left.
* `AlwaysReturned` (`OctoFramesProofs`): a client between operations holds no lock, and the
  words are 0 when all are done, but for those that a failed ADDMETA or REMOVEMETA left locked or
  that were unlocked after a read of 0 bytes.
* `NamesImplemented` (`OctopusProofs`): Octopus implements `NameService`. Its paths are the
  domain of the hash table, and a call is answered when its handler replies.
* `IndexesAlwaysOwned` (`OctopusProofs`): the item that the hash table has for a path is allocated,
  and no other path of the server has it.

The invariant of the theorems about calls (`Inv` in `OctoFramesProofs`) follows every client by
itself: which labels and messages its two frames can have together, and which locks go with them
(`Chain`), how far its operation has come (`Program`), and that a waiting request is in one queue
once (`Queues`). `OctoLockProofs` has one lemma per kind of step about `Chain` without any variable
of the system, so that the proofs of the actions only say which frame moves and that other clients
are left alone.
`Chain` says which write locks there must be, and nothing of others. For `AlwaysReturned`,
`Accounted` adds that each is owed by a frame: from the lock to the unlock of its handler, or on to
the DOCOMMIT that rename sends after a successful ADDMETA or REMOVEMETA; and `Words` that the count
of every word outside `forgotten` is exact.
`NameInv` adds what a handler has found out about its path and relies on after its calls; the write
lock of the path and `LocksHeld` keep it true. `OwnInv` adds to `IndexesOwned` that the chain of free
items of each table names none twice: without it `Table::create` could hand out an item again. It
needs no lock: a path that is created twice gets two items and keeps one. The assumptions are
`SlotAssumption`, `HalfAssumption`, `PathAssumption` (prefixes of paths are paths),
`WorkloadAssumption` (clients ask for well-formed operations), `NodeAssumption` (paths hash to
servers) and `CountAssumption` (the root has its place, in its table and in the hash table).
`Workload` may be any such function.

Model-checked only:

* liveness, which the prover does not reach;
* the refinement of `KVStore` by `Dpu`, which does not hold for every value of the constants (see
  *Bounds*), and `BlocksOwned`, `BlocksAccounted` and `PositionsSound`, which need induction over
  sequences of extents;
* `TreeExact`, and of `Dpu` `CleanLosesNothing`, `MoveSourceResident` and
  `ExpandKeepsTop`. The last three do not hold for every value of the constants: TLC finds each of them
  violated when one DMA task may fail, and `MoveSourceResident` also with four frames;
* everything about `LevelRpc`.

## Known limits

* Keys are shorter than `KEY_LEN`. A key of all 16 bytes has no terminator, and `strlen` and
  `strcmp` run on into its value.
* A modified frame that a delete left unlisted can survive an Expand; flushing it then computes an
  address outside the table. `Dpu` stops there in `pc = "wild"`. No exhaustive run reaches that
  state. Random simulation with three keys, five frames and `LoadPercent` 45 did, after 129 states.
* An expansion inside `level_shrink` moves the bound of its loop past its array. `LevelHash` stops
  there in `pc = "overrun"`; nothing in the repository calls `level_shrink`.
* `StopReturns` and `ExpandEnds` leave out the window between the predicate and the wait of
  `ProcessQueue`, in which `Stop` can be missed, because it does not take the mutex.
* `DmaOnLiveMemory` is about transfers that the worker waits for. A read abandoned by
  `ProcessDelete` may still be queued when the host frees its memory.
* Failed allocations of memory are left out, and so are the widths of keys and values that `Insert`
  of `level_hashing_dpu.cpp` copies.
* `level_expand_time` is a `uint8_t`: after 256 expansions `b2t_movement` is skipped. The counter
  wraps in the model and the theorems hold for every `MaxLevel`; no run gets that far. At level 0
  or 1 `F_IDX` would divide by zero; the assumption on `MinLevel` stays above it, as the code does.
* The result of a write-back is not looked at (`dpu.cpp:214`), so a failed one loses a modified
  bucket, and END stops the worker without flushing. `dpu_failures` has both and promises neither.
* The host sends the return code of `level_insert`, 0, as the success flag of an insert, and
  nothing ever sends it EXIT. `HostRun` does the same.
* In Octopus a directory and a file have no limit on entries and extents (60 and 20 in the code), and
  the contents of files are left out. So is the reuse of `SendBuffer` while a write from it is under
  way: a write lands with what was posted. The hash table holds `DirCount + FileCount - 1` paths, as
  in the code; its chains are left out.
* A path that the full hash table refuses leaves its metadata and the entry in its parent behind
  (`filesystem.cpp:692`, `785`). `TreeExact` and `EntriesKept` except that case (`ItemsLost`).
* A new block joins the last extent of a file if its number follows, even when that extent is on
  another server (`filesystem.cpp:1644`). `AddBlock` does the same; no workload extends a file
  after a rename.
* Values that the code returns without setting them (the result of a write, of `blockFree`) decide
  nothing in the model. The offset that a read of 0 bytes leaves unset may also point outside the lock
  words; what the decrement does there is left out.

## Not modelled

levelkv: the request queue in front of the worker (requests come one at a time); `ProcessUpdate`,
`FlushAll` and `CopyBucket`, which nothing calls; the arithmetic of the hash functions; DOCA set-up.

Octopus: renaming a directory, a recursive walk of the client; `truncate` and `rmdir`, which no
client sends; the two-phase-commit variants, which `TRANSACTION_CD` leaves out of the build; the
transaction log, which is written and never read; connections, memory registration, raw transfers.

The DMA, channel and NVM benchmarks, DrTM+H, rlib, scripts and tools. Together with third-party
code they are most of the lines of the repository.

## Plan

1. A proof of `BlocksOwned` for Octopus.
2. A `RequestQueue` module: `Run` takes requests without the lock and without an empty check.
3. Keys of full length; an exhaustive run for the frame that survives an Expand.
4. The optimistic concurrency control of DrTM+H.
