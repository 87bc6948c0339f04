# L3KV: TLA+ models and proofs

L3KV is a geo-replicated key-value store. This directory models the parts whose
correctness depends on interleavings, crashes and messages, checks them with TLC
on small instances, and proves the main safety properties of eleven of them with
TLAPS.
Paths below are relative to the repository's `src/`; the lines each definition
stands for are in `PROJECT.json`.

## The system and its parts

| part | code | module | state |
|---|---|---|---|
| Hybrid logical clock | `src/engine/clock.*` | `HLC` | modelled, proved |
| Write-ahead log | `src/engine/wal.hpp` | `WAL`, `DurableLog` | modelled, proved |
| Merkle tree | `src/engine/merkle.hpp` | `Merkle` | modelled, proved |
| Storage engine | `src/engine/store.hpp` | `Engine` | writes, shard threads, mutations, recovery; proved for `put`, `del`, patches |
| Blobs, Zstd dictionary | `src/engine/store.hpp` | `Documents`, `PlainStore` | modelled, proved |
| Prefix scans, `wait_all_shards` | `src/engine/store.hpp` | `Scans` | modelled, safety proved |
| Queues of the shards | `lib/concurrentqueue/` | `ConcurrentQueue`, `ProducerFifo`, `ProducerHash`, `FreeList` | what the engine uses; `ProducerHash` and `FreeList` proved but for `SlotLeft` |
| Anti-entropy | `src/engine/sync_manager.hpp` | `SyncManager` | whole protocol, safety proved; no node restart |
| Mesh (TCP links) | `src/engine/mesh.*` | `Mesh` | modelled, proved |
| Credentials, access lists | `src/engine/credential_manager.hpp` | `Server` | modelled, safety proved |
| ZeroMQ server | `src/zmq/` | `Server` | well-formed requests, safety proved |
| Start, wiring | `src/main.cpp` | `Mesh`, `SyncManager!Wired` | start-up order and lane filter |
| Replication log, key builder, libconveyor adapter, metrics, logger | `src/engine/replication_log.hpp`, `KeyBuilder.hpp`, `wal_storage.hpp`, `src/observability/` | - | see "Not modelled" |

How they interact. A call of the engine takes a stamp from the clock, appends a
batch to the log, and hands a task to the thread of a shard, which changes the
shard's map and XORs the change into a leaf of the Merkle tree. Beside each key
there is a `key:meta` cell with the stamp. A background thread tells a random
peer the Merkle root; a peer whose root differs walks down the tree, lists the
buckets that differ, fetches values and merges them with `apply_mutation`. A
restart replays the log. Clients reach the engine through one ZeroMQ thread;
nodes reach each other through the mesh.

`Engine` relies on what the parts below it promise rather than including their
steps: its clock gives increasing stamps (`HLC!NowAboveAll`), its log loses only
a suffix (`DurableLog`, which `WAL` implements in the absence of I/O errors).
`Engine`, `Server` and `Scans` rely on shard queues that keep the order of each
thread's tasks, which is `ProducerFifo`, implemented by `ConcurrentQueue`; that in
turn relies on `ProducerHash` for one writer per sub-queue and on `FreeList` for
blocks that nobody else has. `Engine` treats a document as what is read of it,
which is `PlainStore`, implemented by `Documents`. `SyncManager` takes the calls of
the engine in the halves another thread can see, the value and then the meta; what
they do to the log and to the shards' queues is the subject of `Engine`.

## Modules

**HLC.** `wall`, `logical` are `max_wall_time_`, `max_logical_`; `cache` is the
batch of each `ThreadLocalClock`; the system clock may advance and be set back.
`Now` is `now()`, with its overflow loop in two further steps (`NowSpinDone`,
`NowReread`) because the loop ends on one reading and the code uses the next.
`Update` is `update()`, with the addition modulo `UINT32_MAX + 1`. `Reserve` and
`LocalNow` are `reserve_logical` and `ThreadLocalClock::now`. History variables
keep the stamps given out.

**WAL, DurableLog.** The file is a sequence of records, whole or torn. An append
is two steps, so that a kill can come between them. `Faults` selects the errors
of a run: failed or partial writes, power failures, failed reads. `Recover` is
`recover` with its truncation. The CRC is taken to be perfect, a power failure
keeps a prefix of the unsynced bytes. `DurableLog` is the promise: records are
appended, and a crash loses a suffix that was not flushed.

**Merkle.** Leaves, inner hashes and dirty flags of a tree of any depth and fan;
`recompute_dirty` runs shard by shard and level by level, and deltas of other
threads come in between. Hashes are the deltas they cover.

**Engine.** Clients call `put`, `del`, `patch_int`/`patch_str` and `batch_put`:
stamping, logging and enqueueing are separate steps, and shard threads apply one
cell at a time. The history variable `mixed` keeps the kinds of calls that
overlapped. Appliers call `apply_mutation`: check, log, value, meta.
`Restart` replays a prefix of the log. Two facts of the code shape the module.
`BatchOp` holds `string_view`s; those of `batch_put` and the value of
`apply_mutation` refer to strings destroyed before `append_batch` reads them, so
what is logged is a nondeterministic choice (`Dangling`, `LogMutation`). And
`put` and the patches move the key into the task before `submit_to_shard` hashes
it: the model follows the usual outcome, in which the moved-from key is empty
and all these calls run on one shard's thread (`TaskShard`), while `del`, which
copies the key, runs on the key's own. Credential checks return before anything
changes, except in the middle of `batch_put` (`BatchDenied`).

**SyncManager.** One action per message handler, split where the code holds no lock
and another thread can come between. A local call inserts the value (`Begin`) and
then the meta (`Finish`); the stamp is drawn in the first of these steps, as nobody
else reads the clock. `on_get_val` reads the meta, then the value (`send_put_val`).
`on_put_val` tests the local stamp, then inserts the value (`apply_value`), then the
meta (`apply_meta`). The server makes one call at a time (`call`); the mesh calls the
handler for one peer's messages one after the other, on that connection's strand,
and for different peers at once (`busy`, `Free`). Hashes are what they hash; a
leaf is the set of what occurs an odd number of times, as XOR leaves out pairs.
Inner hashes are as of the last root computation (`snap`), leaves are current.
`Lanes` is what the callback passes on: both lanes as in
`src/tests_cpp/test_sync_simulation.cpp`, or the Control lane only as in
`src/main.cpp`. Nodes have clocks that drift apart freely. The network follows the
contract of `IMesh`; the links of `mesh.cpp` are the subject of `Mesh`.

Two histories keep the keys the guarantees leave out. `patched` has those that were
patched, as a patch keeps the stamp of the value. `raced` has those of which a node
made two writes at once (a call and a repair that passed its test, or two repairs of
different peers, `Writing`), and those of which it read an answer around a local write
with a stamp below the one the answer carries (`Behind`, and the last conjunct of
`Begin`). The others are `Clean`. The proviso is no wider than that: a write that
overlaps an answer, a request or a repair of another key, or whose stamp is above the
one read, leaves its key clean.

**Documents, PlainStore.** Threads write documents: sample, train, activate,
compress, store, each a step, under the shard's lock and the mutex of
`ZstdManager`. `active`, `cdict` and `ddict` are the flag and the two halves of the
dictionary, which other threads read without the mutex. A blob is its document
and the dictionary it is compressed with; with another one it cannot be read.
Zstd is external: training may fail, and `Shrinks` are the bodies it makes
smaller. `PlainStore` is the store without any of this.

**Scans.** A writer puts, deletes, batches and waits for all shards; a scanner pages
through keys or asks all shards at once. A shard's thread runs the tasks of each
caller in their order. The listing of `get_prefix_keys_all_shards`, which holds no
lock, moves on key by key while others write (`WalkOn`). History variables keep
the keys that were live all along (`steady`) and at any time (`ever`).

**ConcurrentQueue, ProducerFifo.** `enqueue` and `wait_dequeue_timed` with implicit
producers, one atomic operation of the code per step: tail and head index, the
optimistic and overcommit counters, blocks with their emptied slots, the circular
block index, its growth, and the rewind when there is no block. Indices are
modulo `Wrap`. `ProducerFifo` is the promise to the engine.

**ProducerHash.** `get_or_add_implicit_producer`: lookup through the chain of tables,
counting, growing, insertion by compare-exchange, recycling of the producers of
threads that exited.

**FreeList.** `add` and `try_get` with counts and flag, one atomic operation per step.

**Mesh.** A node opens its acceptor, starts accepting, dials its peers once and
serves, in the order of `main.cpp`. A connection has a strand (`posted`), an outbox
and a write in progress; with simulated latency each frame has a timer. Nodes
crash and start again, writes and accepts fail. The accept handler drops the
socket, so inbound reading code is never started.

**Server.** Requests wait at the ROUTER socket, the loop of `ZmqServer::run` takes one,
checks the permission, looks up or commits, and waits for the shard if the call
does. Writes of `sys:` keys change users and rules when the shard applies them, and
again when a restart replays the log (`apply_put` in both). `crossed` keeps the
keys with a batch's write waiting when a put or del of them came.

All queue modules take atomic operations to be sequentially consistent; the
weaker orderings the library asks for are not modelled.

`MCx` modules give the constants small values; the `.cfg` files choose among
them. `MCMerkle` also has the reference definition of a settled tree.
`MCDocuments`, `MCQueue` and `MCQueueMemory` check several instances or components in
one run: a variable `scope`, fixed at the start, says which. In `engine_calls` the
action constraint `Apart` does the same: a behaviour has calls of clients or
mutations, not both. It restrains clients and appliers only, never a step that
is taken to be fair.

## Runs that pass

| run | bounds | shows |
|---|---|---|
| `clock` | one direct and two batching threads, 4 stamps, `UINT32_MAX` = 4, batches of 2, clock may step back | stamps of `now()` exceed all earlier ones; no stamp is given out twice |
| `wal` | 5 records, all faults | acknowledged records survive kills, power failures and errors, with the exceptions named in `AckedKept`; until an I/O error the file implements `DurableLog` |
| `merkle` | depth 3, 4 deltas, root calls between them | a root covers all deltas before the call; a stale node is always marked |
| `engine` | 2 clients, 1 key, 4 calls, 1 crash | visible writes are logged; every log prefix recovers values with their metas; memory keeps them together unless a del races; calls that do not overlap leave what a restart rebuilds |
| `engine_calls` | 2 clients, 2 calls of put, del, batch; or 1 applier, 2 keys, stamps to 4 | waiting callers are woken, queued tasks are taken; mutations in any order leave the highest stamp |
| `documents` | 2 threads, 2 keys, 3 writes, 2 samples; or 3 keys on a shard, 2 writes, pages of 2 | compression never shows (`PlainStore`), scans are exact, `wait_all_shards` is a barrier, calls end |
| `queue` | 1-2 producers, 1-2 consumers, blocks of 2, 2 index entries at first, 3 blocks, index width 16; or 2 threads in a table of 2 | per-producer order, nothing lost or taken twice (`ProducerFifo`); index entries lead to the right block; consumers and producers get on |
| `queue_memory` | 3 threads and 2 blocks; or 3 threads in a table of 2 with 1 exit | a block is in one place and none leaks; a sub-queue has one writer; a probe finds a free slot |
| `mesh` | 2 nodes, 2 sends, 1 crash, with and without latency | frames are written once and in order or stay in the outbox; none waits with nothing to drive it but after a failed write; one of two nodes reaches the other; waiting connections are accepted |
| `server` | 2 clients, 3 requests, 2 rules, 2 users, 1 restart | longest-prefix match against its definition; answered writes are in force; memory is what a restart rebuilds; every request is answered |
| `sync` | 2 nodes, 1 key, 2 writes, 1 lost message, calls and repairs in halves | of clean keys, in the middle of calls and repairs too: a repair never takes a stamp back, no old value is under a newer stamp, the last write is kept, and nodes end up returning the same |

The exact constants are in the configurations. They are small, and chosen so
that the case a property is about occurs: the counter reaches `UINT32_MAX`, two
writers meet on a key, a task is overtaken, a message is lost in the middle of a
repair, a crash comes after a torn record, indices wrap with a consumer behind, a
table of producers grows under two threads. That each property can fail in these
bounds is shown by a mutation of the model for each (`PROJECT.json`, `mutants`):
an operator marked "Mutant of" takes the place of the definition it follows.

Bounds are named constants that only limit how much happens (`MaxStamp`,
`MaxRecords`, `MaxCrashes`, `MaxWrites`, `MaxLosses`, `MaxInFlight`, `MaxSent`, `MaxSends`,
`MaxExits`, `MaxRequests`, `MaxRestarts`, `MaxWaits`, `MaxScanWrites`). `Quiet` in several modules lets a
bounded run stop when nothing is left to do, without hiding a deadlock of a
thread that still waits.

Type invariants are checked by `engine`, `documents`, `queue`, `queue_memory` and
`server`; those of `HLC`, `WAL`, `Merkle`, `Mesh` and `SyncManager` are only in the
inductive invariants below.

## Fairness

`Engine!FairSpec`: a shard thread that has a task runs it, and an idle one takes
a queued task. The threads loop until the engine is destroyed (`store.hpp`
515-532), and the queue wakes them. Nothing is assumed of clients.

`SyncManager!FairSpec`: the gossip loop runs for ever and picks peers at random,
hence each again and again (strong fairness per pair of nodes); a message that is
not lost is handled; a call that was begun inserts its meta, and a handler that was
begun goes on, per peer, as calls and handlers have no wait in them. Writes and losses
are bounded and not fair.

`Documents!Fairness`: a thread in a write goes on, and one that waits for the mutex
of `ZstdManager` gets it at last (strong fairness, a mutex that starves no thread
for ever). `Scans!ScanFairness`: shard threads run, the caller asks for its next page.

`ConcurrentQueue!FairSpec`: a thread inside an operation goes on; nothing makes a
producer enqueue. `ProducerHash!HashFairness`: likewise, and a thread that finds again
and again that nobody is growing the table gets to grow it at last; without this
the library promises lock-freedom only.

`Mesh!FairSpec`: `main` goes on, timers fire, and an accept does not fail for ever while
a connection waits. `Server!Fairness`: ZeroMQ takes from its peers in turn, the
server's and the shards' threads run. Clients, crashes and restarts are not fair.

## Where the code departs from what is said of it

The run `sync_lanes` ends in a violation: it states that nodes converge, as the
repository's `README.md` says, and the trace shows that with the wiring of
`main.cpp`, which passes on the Control lane only, values never arrive
(`PROJECT.json`, `findings`).

Further departures are the provisos of the properties that pass. A configuration
each, outside the list of runs, shows what happens without the proviso (`tlc
-config X.cfg MCy` ends in a violation):

| configuration | property | what its trace shows |
|---|---|---|
| `MCHLCLocal` | `LocalMonotonic` | a `ThreadLocalClock` goes back when the system clock is set back to the microsecond of its cached batch (`test_clock_simple.cpp:29`, `assert(t2 > t1)`) |
| `MCHLCWrap` | `OrderingPreserved` | `update()` wraps the counter, which `now()` takes care not to (`clock.cpp:42`) |
| the same with `MaxLogical = 1`, `Incoming <- MCNoIncoming` | `OrderingPreserved` | after waiting out an overflow `now()` takes an unchecked second reading (`clock.cpp:48`) |
| `MCWALWriteError` | `AckedDurable` | the result of a write is ignored, so a lost record is acknowledged |
| the same with `Faults = {"read"}` | `AckedDurable` | a read error in recovery truncates good records |
| `MCEngine` with `Paired` as its invariant | `Paired` | a put and a del of one key leave a live value under a tombstone |
| `MCEngine` with `MatchesLog` as its invariant | `MatchesLog` | concurrent puts of a key are logged in one order and applied in the other |
| `MCEngineBatch` | `MatchesLog` | `batch_put` logs dangling views, so that a restart need not rebuild what it stored |
| the same with `Client = {}`, `Applier = {a1}`, `MaxStamp = 3` | `MatchesLog` | `apply_mutation` logs a dangling view of the value |
| `MCEngineLWW` | `LastWriterWins` | the older of a local put and a replicated mutation may stay |
| `MCDocumentsHash` | `HashOfDocument` | equal documents have different leaf hashes, before and after training |
| `MCDocumentsLimit` | `CallsEnd` | with a limit of one, a page is the key it started from, and paging never advances |
| `MCMeshReport` | `ReportsDisconnected` | `send` returns true on a connection whose write has failed ("false if peer unknown or disconnected", `mesh.hpp`) |
| `MCMeshWait` | `ReachedKnows` | a node that was dialled never knows its peer ("will wait for them to connect to us", `main.cpp:197`) |
| `MCServerOrder` | `AnsweredSeenAlways` | a `batch_put` answered before a put of the same key is applied after it |
| `MCSyncXor` | `Converges` | equal values of two keys in a bucket cancel out |
| `MCSyncManager` with `Converges` as its property | `Converges` | patches keep the old stamp and are rejected by peers |
| `MCSyncManager` with `Causal` as its property | `Causal` | received stamps do not advance the clock |
| `MCSyncOverlap` | `UnpatchedNotOlder` | a put that comes between the test of a repair and its insertions leaves an older value under a newer stamp: the repair does not look at the stamp again |

## Proofs

Eight modules prove safety for every value of the constants, under the `ASSUME`s of
the modules they extend, which TLC evaluates on the instances above. `StoreProofs`
holds what is proved of `Documents`, `WAL` and `Merkle`, `ServiceProofs` what is proved
of `HLC` and `Server`, and `xProofs` what is proved of `x` for `Engine`, `Scans`,
`ProducerHash`, `FreeList`, `Mesh` and `SyncManager`. For each component there is an
inductive invariant, a lemma per action that it is kept, and the properties the
runs check as its consequences.

Most leaves name their prover. What follows by logic and equality alone goes to
Zenon, what needs arithmetic or sequences to the SMT solver, whose translation of a
formula takes longer than its proof.

- **HLC** (`ClockTypeCorrect`, `StampsOrdered`, `StampsUnique`). `NowAboveAll` is not
  inductive: a stamp may still come out of a thread's cached batch. The invariant
  (`ClockInvariant`, of `ClockIInv`) adds that the clock bounds every stamp given out and every
  cached one, and that cached batches are disjoint from each other and from the
  stamps given out. `StampsOrdered` and `StampsUnique` have the same proviso as
  the run's properties: no wrap, no older reading taken so far.
- **WAL** (`LogTypeCorrect`, `AckedSurvive`, `FileImplementsDurableLog`). `AckedKept` alone
  is not inductive, as a new record could land behind a torn one. `LogIInv` adds that a
  write in progress owns the last, torn cell (`Busy`), and that every other cell is
  whole unless an I/O error of this run left a torn one (`Clean`). For the refinement,
  the log is the readable prefix of the file. Its length is characterised once
  (`EndExists`, `EndCounts`): it is the first torn cell less one, found as a least
  element. Then each action is shown to leave it, to lengthen it by the record
  written, or to cut it no shorter than what was synced.
- **Merkle** (`NoDeltaForgotten`, `RootIsCurrent`). `RootCovers` speaks of the end of
  a computation; the invariant (`TreeInvariant`) adds to `StaleIsDirty`
  which nodes may still be dirty in each phase (`Pending`, `Phase`): those of the
  levels still to come, and those a writer touched since. It uses nothing of the
  tree but that a parent is one level above its child.
- **Documents** (`DocumentsTypeOK`, `DocumentsInvariant`, `DocumentsImplementsPlain`). Every step of
  sampling, training and compressing maps to a stutter of `PlainStore`, and storing a
  blob to its put, patch or delete. That needs that blobs can be read back: `IInv`
  says that shard locks and the mutex exclude, that `active` is set only when both
  halves of the dictionary are the same, that no dictionary replaces one in use
  (`Mutex`), that every blob stored or at hand is compressed with none or that one
  (`Decodable`), and that a prepared blob is the document the call meant (`Intended`).
- **Scans** (`ScansTypeOK`, `ScanExactHolds`, `AppliedHolds`). The invariant
  (`ScanInvariant`) ties the futures a caller waits for to tasks. A task the writer
  waits for is the last of its queue, behind all that was batched before
  (`WriterTasks`), which gives `Applied`. The scanner has at most one task on a shard,
  and waits for as many futures as there are shards that have not answered
  (`ScannerTasks`). `ScanExact` speaks of the end of a scan; `Covered` says of its
  middle that what a shard told or listed is complete up to where it has come, for
  the keys that were live all along, and has no key that never was.
- **Mesh** (`MeshNoStall`, `MeshSomeoneReached`, `MeshInOrder`). What is being written is
  the head of the outbox, and an outbox that nobody writes is empty or broken
  (`Driven`). A node dials only after its acceptor is open (`Dialling`), so whichever
  of two nodes dials last finds the other listening (`Reached`); a crash takes the
  node's dials back. For `InOrder`, what was written, the outbox and what is posted to
  the strand are together in the order of the calls, timers apart.
- **FreeList** (`FreeListOnePlace`). A block is in use, on the list, held by one thread,
  or left flagged to the threads that still count it (`PlaceOK`), and its reference
  count is the number of threads that count it, plus one for the list (`CountOK`).
  Because a counted block cannot be linked anew, the successor a thread has read is
  still the block's when it swings the head (`LinksOK`): this is why the list is safe
  from a block that was taken and put back meanwhile. The list is described as the
  blocks reached from its head; lemmas say what adding and taking do to that set.
- **ProducerHash** (`HashTypesHold`, `OneWriterHolds`). No slot that was taken becomes
  free again, so a probe for a thread's id never stops short of it: a thread finds
  itself in every table that has it (`FoundOK`). Hence one that has found nothing is in
  no table (`AbsentOK`), and a thread that ends is in none when it gives its producer
  up for others. With it goes that `count` is at least the number of threads being
  added (`Counted`), which keeps it from falling below zero. That the capacity of a new
  table is positive is shown from the recursive equation of `NewCapacity`.
- **Server** (`ServerTypeCorrect`, `RebuiltHolds`, `AnsweredSeenHolds`,
  `LongestMatchHolds`). The server's thread waits for at most one write, and that is the
  last of its queue (`OneWait`). Therefore the last put or del of a key that no batch
  crossed is applied with nothing to follow, or is the one waited for (`Answers`);
  and without batches, memory is what replaying the log gives but for that one
  (`Unbatched`). For the rules, memory has exactly those last set, in descending
  order of their prefixes (`MemOK`), so that the first hit is the longest. That
  `Replay` has one more write at its end when the log has, and keeps `MemOK`, is shown
  from the recursive equations it is defined by; that those have a solution is shown
  once for all such folds (`FoldExists`).
- **SyncManager** (`SyncTypeCorrect`, `SyncNotOlder`, `SyncLatestKept`, `SyncStampsAdvance`).
  What spreads a value is an answer being prepared, a message on its way and a repair
  between its test and its insertions, so the invariant (`SyncInvariant`, of `IInv`) says
  of these what `NotOlderThanStamp` says of the stores (`Asked`, `Offered`, `Taken`). An
  answer has its stamp from before its value: of a clean key, the store has not gone back
  below it since, and the call in progress will not take it there. A repair inserts
  a stamp it compared two steps before: of a clean key, the store's stamp is still the
  lower one, as no call (`Taken`) and no other repair (`Alone`) writes the key meanwhile.
  This is what `SyncAdvances` needs. A call finds the value it inserted still there when
  it inserts the meta (`Called`). No two writes share a stamp, and the node that made
  one has not gone back below it or is at the call that replaces it (`Origin`), so the
  last write stays.
- **Engine**, for `put`, `del` and the patches (`EngineTypeCorrect`, `EngineWriteAhead`,
  `EngineRecoversPaired`, `EnginePaired`, `EngineMatchesLog`). The hypothesis `LocalCalls`
  leaves out `batch_put` and `apply_mutation`, which log dangling views and of which
  these properties are not true (`MCEngineBatch`). The properties are about memory at
  rest; the invariant (`EngineInvariant`) follows a call: it is with its client, in one
  queue, or with one thread (`Places`), it is in the log by then, and what is left of
  it, applied to memory, gives a paired memory (`Pairing`) or what the log rebuilds
  (`Rebuilding`). `Replay` is a recursive function of the log's length; facts about it
  (one more batch, a prefix that pairs) come from its defining equation and from the
  least prefix that would be a counterexample.
- **Engine**, for mutations (`EngineLastMutationWins`). With one thread that calls
  `apply_mutation` and no restart (`OneApplier`), a value is no newer than its meta
  unless its mutation is between the two, so that the check against the meta is
  enough. The hypothesis leaves out handlers of two connections on two threads of the
  mesh's pool, for which the check and the write are not one step, and the property
  leaves out client calls for the same reason (`MCEngineLWW`).

Only model-checked:

- liveness (`Served`, `Answered`, `CallsEnd`, `SpinEnds`, `Obtains`, `Accepts`,
  `CleanConverge`), which the prover does not handle;
- `SlotLeft` of `ProducerHash`. The code grows a table by `count`, but more slots can be
  taken than `count` says: a thread that goes on with an old table reuses a slot
  there and uncounts itself, and later copies itself into a free slot of the new
  one. The count is therefore not the bound that an inductive argument would need;
- `ConcurrentQueue` (`TypeOK`, `EntryRight`, `ImplementsFifo`). The refinement maps counters
  modulo `Wrap` to sequences, and holds only while `Wrap` exceeds what is in the queue;
  an invariant for every capacity would have to count the slots of all blocks in
  circular order;
- `TypeOK` of `Engine` with `batch_put` and mutations; without them it is proved.

## Not modelled

- Replication log: a bounded queue that no other code uses. libconveyor adapter:
  included by nothing. Key builder: pure string building whose callers copy the
  result at once; a key and its meta key are a pair of cells in `Engine`. Metrics and
  logger: nothing depends on them.
- Shutdown. `main` never gets there: nobody calls `ZmqServer::stop`, and the join
  behind `run()` waits for a thread that only later code would stop. A kill at any
  moment is modelled instead. For the same reason `~Engine` and `SyncManager::stop`
  are left out; a task enqueued behind a shard thread that has left would be
  destroyed with the queue.
- Of a restart: the clock. The code's starts again from zero, so that its stamps are
  above those of the log only if the system clock is; `Engine` keeps it.
  The parsing of patch records, which the code splits at the first `:`; a field's name
  may hold one. A record that makes the replay throw is skipped by the code.
- The rule that the meta of a rule's key sets. Its name begins with `sys:acl:` too, so
  `apply_put` sets a rule without rights for the prefix `{prefix}:meta`. `LongestMatch`
  is therefore about keys that begin with no such prefix.
- A failed `fdatasync`, whose result `flush` ignores: `WAL!Flush` succeeds.
- The walk over the list of producers, one compare-exchange for each:
  `ProducerHash!Acquire` finds the newest spare one in one step. The walk may miss one
  and create another; it never gives two threads the same.
- A restart of a node in the middle of a repair; messages and mutations it had are
  lost as `MaxLosses` allows, but its memory stays.
- Of the queue library: tokens and explicit producers, bulk and `try_` calls,
  construction and destruction, which the engine does not use or does before and
  after its threads run; the semaphore, which is not part of the repository.
- An `enqueue` that fails for want of memory is in the queue modules; the engine
  ignores its result, and `Engine` and `Server` take it to succeed.
- Contents of documents, field patches that `lite3cpp` might refuse, the wire
  formats of records and messages, key lengths above 16 bits, hash collisions,
  malformed requests.
- `apply_batch_mutations` and `submit_async`, which nothing calls; the hash ring that
  `main` builds and nothing reads; reading the configuration.
- Torn reads of a `std::map` walked without its lock: a walk sees some state of the
  map at each of its steps.
- Two writes outstanding on one socket (the id and the first frame): writes are
  whole in `Mesh`.
- The order of rules whose prefixes are equally long (`*` and a prefix of one
  character), which `std::sort` leaves open: `ServerAssumption` excludes it.
