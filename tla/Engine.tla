------------------------------- MODULE Engine -------------------------------
(***************************************************************************)
(* The storage engine (class Engine, src/engine/store.hpp): calls stamp a  *)
(* write, log it, hand it to the thread of a shard and wait for it; every  *)
(* key has a sidecar ":meta" cell with the stamp of its value; replicated  *)
(* mutations are checked against it and applied by the calling thread; a   *)
(* restart replays the log.                                                *)
(*                                                                         *)
(* A value is named by the stamp of the write that made it: put and del    *)
(* replace a cell, patch_int and patch_str change a field of it.  Local    *)
(* stamps are even and increase (HLC.tla); those of other nodes are odd,   *)
(* the node id of a stamp breaking the tie.  The log is a DurableLog: a    *)
(* crash keeps a prefix of its records.                                    *)
(*                                                                         *)
(* A BatchOp holds views of the strings it logs.  Those of batch_put and   *)
(* the value of apply_mutation are destroyed before append_batch reads     *)
(* them, so what is logged is a choice of what may be there by then.       *)
(*                                                                         *)
(* Two things are left out of a restart.  The clock is kept, while the     *)
(* code's starts from zero and is above the stamps of the log only if the  *)
(* system clock is.  A patch is replayed as it was made, while the code    *)
(* parses its record up to the first ':', which a field's name may hold,   *)
(* and skips a record that makes it throw.                                 *)
(***************************************************************************)
EXTENDS Integers, Sequences, FiniteSets, Functions

CONSTANTS
  Client,      \* threads calling put, del, patch_int, patch_str, batch_put
  Applier,     \* threads calling apply_mutation
  Key, Shard,
  KeyShard,    \* get_routing_shard of a key
  MetaShard,   \* and of its meta key; the same when the key has a {tag}
  EmptyShard,  \* and of the empty string
  Ops,         \* the calls made: subset of {"put", "del", "patch", "batch"}
  MaxStamp,    \* bound on stamps
  MaxCrashes   \* bound on restarts

ASSUME EngineAssumption ==
  /\ KeyShard \in [Key -> Shard] /\ MetaShard \in [Key -> Shard]
  /\ Shard \subseteq Int /\ EmptyShard \in Shard
  /\ Ops \subseteq {"put", "del", "patch", "batch"}
  /\ MaxStamp \in Nat /\ MaxCrashes \in Nat

VARIABLES
  clock,    \* last stamp of clock_
  wal,      \* the log, a sequence of batches of cell writes
  mem,      \* the shards' maps
  pc, job,  \* per client: where its call is, and the writes of the call
  queue,    \* per shard and producer: tasks not yet dequeued
  run,      \* per shard: the task its thread is running
  apc, mut, \* per applier: where its call is, and its mutation
  crashes,
  mixed     \* history: kinds of the put, del and patch calls that overlapped
            \* since the last restart

vars == <<clock, wal, mem, pc, job, queue, run, apc, mut, crashes, mixed>>

Cell == Key \X {"val", "meta"}
Kind == {"put", "del", "patch"}
Stamps == 0 .. MaxStamp

\* Bytes that are no key of the model, and bytes that no call wrote as a value.
Elsewhere == <<>>
Junk == -1

CellWrite ==
  [cell : Cell \cup {Elsewhere}, kind : Kind, stamp : Stamps \cup {Junk}]

\* Mutant of Pair: the stamp is advanced once more after it was taken.
PairNext(k, kind, t) ==
  << [cell |-> <<k, "val">>, kind |-> kind, stamp |-> t + 1],
     [cell |-> <<k, "meta">>, kind |-> kind, stamp |-> t + 1] >>

\* The batch of two that every call logs for a key: the value and its meta.
Pair(k, kind, t) ==
  << [cell |-> <<k, "val">>, kind |-> kind, stamp |-> t],
     [cell |-> <<k, "meta">>, kind |-> kind, stamp |-> t] >>

\* A cell is what the last put or del made of it and the last patch since.
Blank == [base |-> 0, patch |-> 0]
Fresh == [c \in Cell |-> Blank]

\* apply_put, apply_del and the apply_patch functions: one cell, under its lock.
Apply(m, w) ==
  IF w.cell = Elsewhere THEN m
  ELSE IF w.kind = "patch" THEN [m EXCEPT ![w.cell].patch = w.stamp]
  ELSE [m EXCEPT ![w.cell] = [base |-> w.stamp, patch |-> 0]]

\* A batch of the log, write by write.
ApplyBatch(m, ws) ==
  LET after[i \in 0 .. Len(ws)] == IF i = 0 THEN m ELSE Apply(after[i - 1], ws[i])
  IN  after[Len(ws)]

\* What the constructor's recovery makes of a log, batch by batch.
Replay(log) ==
  LET after[n \in 0 .. Len(log)] == IF n = 0 THEN Fresh ELSE ApplyBatch(after[n - 1], log[n])
  IN  after[Len(log)]

ShardOf(c) == IF c[2] = "val" THEN KeyShard[c[1]] ELSE MetaShard[c[1]]

Idle == [writes |-> <<>>, waiter |-> {}]

Init ==
  /\ clock = 0 /\ wal = <<>> /\ mem = Fresh
  /\ pc = [c \in Client |-> "idle"]
  /\ job = [c \in Client |-> <<>>]
  /\ queue = [s \in Shard |-> [c \in Client |-> <<>>]]
  /\ run = [s \in Shard |-> Idle]
  /\ apc = [a \in Applier |-> "idle"]
  /\ mut = [a \in Applier |-> [key |-> CHOOSE k \in Key : TRUE, stamp |-> 0, del |-> FALSE]]
  /\ crashes = 0
  /\ mixed = {}

-----------------------------------------------------------------------------
\* Calls of the clients

\* The kinds of the writes on their way from a caller to memory.
InProgress ==
  {w.kind : w \in UNION ({Range(job[c]) : c \in Client}
                       \cup {Range(run[s].writes) : s \in Shard}
                       \cup {Range(t.writes) : t \in
                              UNION {Range(queue[s][c]) : s \in Shard, c \in Client}})}

\* put, del, patch_int, patch_str: clock_.now() and the batch for the log.
Call(c, k, kind) ==
  /\ pc[c] = "idle" /\ clock + 2 <= MaxStamp
  /\ clock' = clock + 2
  /\ job' = [job EXCEPT ![c] = Pair(k, kind, clock')]
  /\ pc' = [pc EXCEPT ![c] = "stamped"]
  /\ mixed' = IF InProgress = {} THEN mixed ELSE mixed \cup InProgress \cup {kind}
  /\ UNCHANGED <<wal, mem, queue, run, apc, mut, crashes>>

\* batch_put, one turn of its loop: a stamp of its own for every key.
BatchAdd(c, k) ==
  /\ pc[c] \in {"idle", "batch"} /\ clock + 2 <= MaxStamp
  /\ \A i \in DOMAIN job[c] : job[c][i].cell[1] # k
  /\ clock' = clock + 2
  /\ job' = [job EXCEPT ![c] = @ \o Pair(k, "put", clock')]
  /\ pc' = [pc EXCEPT ![c] = "batch"]
  /\ UNCHANGED <<wal, mem, queue, run, apc, mut, crashes, mixed>>

\* batch_put meets a key the caller may not write: it throws, and the keys
\* before it are forgotten.
BatchDenied(c) ==
  /\ pc[c] = "batch"
  /\ job' = [job EXCEPT ![c] = <<>>]
  /\ pc' = [pc EXCEPT ![c] = "idle"]
  /\ UNCHANGED <<clock, wal, mem, queue, run, apc, mut, crashes, mixed>>

\* Mutant of Batches: the value and its meta are logged as two records.
Halves(ws) == [i \in 1 .. Len(ws) |-> <<ws[i]>>]

\* Mutants of Batches: nothing is logged; only the first write is.
NoBatch(ws) == <<>>
FirstOnly(ws) == <<SubSeq(ws, 1, 1)>>

\* The log records of a call: one batch.
Batches(ws) == <<ws>>

\* What a view of a destroyed string reads: the string, the one that took its
\* place in the last turn of the loop, or anything else.
View(v, own, last, junk) == [own |-> own, last |-> last, junk |-> junk][v]

\* What append_batch may write for a batch_put.
Dangling(ws) ==
  LET last == ws[Len(ws)]
      views == [DOMAIN ws -> {"own", "last", "junk"}]
  IN  {[i \in DOMAIN ws |->
          [cell |-> View(kv[i], ws[i].cell, <<last.cell[1], ws[i].cell[2]>>, Elsewhere),
           kind |-> ws[i].kind,
           stamp |-> View(vv[i], ws[i].stamp, last.stamp, Junk)]] : kv, vv \in views}

\* wal_->append_batch
Log(c) ==
  /\ pc[c] \in {"stamped", "batch"}
  /\ \E ws \in IF pc[c] = "batch" THEN Dangling(job[c]) ELSE {job[c]} :
       wal' = wal \o Batches(ws)
  /\ pc' = [pc EXCEPT ![c] = IF @ = "batch" THEN "scatter" ELSE "logged"]
  /\ UNCHANGED <<clock, mem, job, queue, run, apc, mut, crashes, mixed>>

\* Mutant of Submit: each cell goes to its own shard, as in batch_put.
SubmitApart(c) ==
  LET mine(s) == SelectSeq(job[c], LAMBDA w : ShardOf(w.cell) = s)
  IN  /\ pc[c] = "logged"
      /\ queue' = [s \in Shard |-> IF mine(s) = <<>> THEN queue[s] ELSE
                     [queue[s] EXCEPT ![c] = Append(@, [writes |-> mine(s), waiter |-> {c}])]]
      /\ pc' = [pc EXCEPT ![c] = "wait"]
      /\ job' = [job EXCEPT ![c] = <<>>]
      /\ UNCHANGED <<clock, wal, mem, run, apc, mut, crashes, mixed>>

\* The shard submit_to_shard routes a call to.  The task of a put or patch has
\* moved the key out of the string by then; del copies it.
TaskShard(w) == IF w.kind = "del" THEN KeyShard[w.cell[1]] ELSE EmptyShard

\* submit_to_shard: the whole task goes to one shard and the caller waits.
Submit(c) ==
  LET s == TaskShard(job[c][1])
  IN  /\ pc[c] = "logged"
      /\ queue' = [queue EXCEPT ![s][c] = Append(@, [writes |-> job[c], waiter |-> {c}])]
      /\ pc' = [pc EXCEPT ![c] = "wait"]
      /\ job' = [job EXCEPT ![c] = <<>>]
      /\ UNCHANGED <<clock, wal, mem, run, apc, mut, crashes, mixed>>

\* The last loop of batch_put: each cell goes to its own shard, shard by shard
\* in their order, and nobody waits.
Scatter(c) ==
  LET shards == {ShardOf(job[c][i].cell) : i \in DOMAIN job[c]}
      s == CHOOSE x \in shards : \A y \in shards : x <= y
      mine == SelectSeq(job[c], LAMBDA w : ShardOf(w.cell) = s)
      rest == SelectSeq(job[c], LAMBDA w : ShardOf(w.cell) # s)
  IN  /\ pc[c] = "scatter"
      /\ queue' = [queue EXCEPT ![s][c] = Append(@, [writes |-> mine, waiter |-> {}])]
      /\ job' = [job EXCEPT ![c] = rest]
      /\ pc' = [pc EXCEPT ![c] = IF rest = <<>> THEN "idle" ELSE @]
      /\ UNCHANGED <<clock, wal, mem, run, apc, mut, crashes, mixed>>

-----------------------------------------------------------------------------
\* Threads of the shards

\* The thread takes a task; the queue is first-in first-out per producer only.
Dequeue(s, c) ==
  /\ run[s] = Idle /\ queue[s][c] # <<>>
  /\ run' = [run EXCEPT ![s] = Head(queue[s][c])]
  /\ queue' = [queue EXCEPT ![s][c] = Tail(@)]
  /\ UNCHANGED <<clock, wal, mem, pc, job, apc, mut, crashes, mixed>>

\* Mutant of Wakes: the promise is never fulfilled.
WakesNone(task) == {}

\* Whom finishing the task lets go on: set_value for the caller that waits.
Wakes(task) == task.waiter

\* It applies the next cell of the task; the last one ends it.
RunTask(s) ==
  LET rest == Tail(run[s].writes)
  IN  /\ run[s].writes # <<>>
      /\ mem' = Apply(mem, Head(run[s].writes))
      /\ run' = [run EXCEPT ![s] = IF rest = <<>> THEN Idle ELSE [@ EXCEPT !.writes = rest]]
      /\ pc' = [c \in Client |->
                  IF rest = <<>> /\ c \in Wakes(run[s]) THEN "idle" ELSE pc[c]]
      /\ UNCHANGED <<clock, wal, job, queue, apc, mut, crashes, mixed>>

-----------------------------------------------------------------------------
\* apply_mutation

\* Mutant of Newer: a mutation is taken whatever its stamp.
NewerAny(t, local) == TRUE

\* The test that a mutation passes.
Newer(t, local) == t > local

\* It reads the meta cell, and returns unless the mutation is newer.
Check(a, k, t, d) ==
  /\ apc[a] = "idle" /\ t % 2 = 1
  /\ Newer(t, mem[<<k, "meta">>].base)
  /\ mut' = [mut EXCEPT ![a] = [key |-> k, stamp |-> t, del |-> d]]
  /\ apc' = [apc EXCEPT ![a] = "checked"]
  /\ UNCHANGED <<clock, wal, mem, pc, job, queue, run, crashes, mixed>>

Mutation(a) == Pair(mut[a].key, IF mut[a].del THEN "del" ELSE "put", mut[a].stamp)

\* The value of a put is logged from the destroyed val_str.
LogMutation(a) ==
  /\ apc[a] = "checked"
  /\ \E v \in {mut[a].stamp} \cup (IF mut[a].del THEN {} ELSE {Junk}) :
       wal' = wal \o Batches([Mutation(a) EXCEPT ![1].stamp = v])
  /\ apc' = [apc EXCEPT ![a] = "logged"]
  /\ UNCHANGED <<clock, mem, pc, job, queue, run, mut, crashes, mixed>>

ApplyValue(a) ==
  /\ apc[a] = "logged"
  /\ mem' = Apply(mem, Mutation(a)[1])
  /\ apc' = [apc EXCEPT ![a] = "half"]
  /\ UNCHANGED <<clock, wal, pc, job, queue, run, mut, crashes, mixed>>

ApplyMeta(a) ==
  /\ apc[a] = "half"
  /\ mem' = Apply(mem, Mutation(a)[2])
  /\ apc' = [apc EXCEPT ![a] = "idle"]
  /\ UNCHANGED <<clock, wal, pc, job, queue, run, mut, crashes, mixed>>

-----------------------------------------------------------------------------
\* The process or the machine dies and the engine is constructed again.  After
\* a kill the whole log is there, after a power failure a prefix.
Restart ==
  /\ crashes < MaxCrashes
  /\ crashes' = crashes + 1
  /\ \E n \in 0 .. Len(wal) :
       /\ wal' = SubSeq(wal, 1, n)
       /\ mem' = Replay(wal')
  /\ pc' = [c \in Client |-> "idle"]
  /\ job' = [c \in Client |-> <<>>]
  /\ queue' = [s \in Shard |-> [c \in Client |-> <<>>]]
  /\ run' = [s \in Shard |-> Idle]
  /\ apc' = [a \in Applier |-> "idle"]
  /\ mixed' = {}
  /\ UNCHANGED <<clock, mut>>

\* Nothing is in progress, and nobody calls.
AtRest ==
  /\ \A c \in Client : pc[c] = "idle"
  /\ \A s \in Shard : run[s] = Idle /\ \A c \in Client : queue[s][c] = <<>>
  /\ \A a \in Applier : apc[a] = "idle"

Quiet == AtRest /\ UNCHANGED vars

Next ==
  \/ \E c \in Client :
       \/ \E k \in Key :
            \/ \E kind \in Ops \ {"batch"} : Call(c, k, kind)
            \/ "batch" \in Ops /\ BatchAdd(c, k)
       \/ BatchDenied(c) \/ Log(c) \/ Submit(c) \/ Scatter(c)
  \/ \E s \in Shard : RunTask(s) \/ \E c \in Client : Dequeue(s, c)
  \/ \E a \in Applier :
       \/ \E k \in Key, t \in Stamps, d \in BOOLEAN : Check(a, k, t, d)
       \/ LogMutation(a) \/ ApplyValue(a) \/ ApplyMeta(a)
  \/ Restart \/ Quiet

Spec == Init /\ [][Next]_vars

\* A shard thread with a task runs it and an idle one takes what is queued.
Fairness ==
  \A s \in Shard :
    /\ WF_vars(RunTask(s))
    /\ WF_vars(\E c \in Client : Dequeue(s, c))
FairSpec == Spec /\ Fairness

-----------------------------------------------------------------------------
\* Properties

\* The state of every thread, the queues, the log and memory keep their types.
TypeOK ==
  /\ clock \in Stamps
  /\ wal \in Seq(Seq(CellWrite))
  /\ mem \in [Cell -> [base : Stamps \cup {Junk}, patch : Stamps]]
  /\ pc \in [Client -> {"idle", "batch", "stamped", "logged", "scatter", "wait"}]
  /\ job \in [Client -> Seq(CellWrite)]
  /\ queue \in [Shard -> [Client -> Seq([writes : Seq(CellWrite), waiter : SUBSET Client])]]
  /\ run \in [Shard -> [writes : Seq(CellWrite), waiter : SUBSET Client]]
  /\ apc \in [Applier -> {"idle", "checked", "logged", "half"}]
  /\ mut \in [Applier -> [key : Key, stamp : Stamps, del : BOOLEAN]]
  /\ crashes \in 0 .. MaxCrashes
  /\ mixed \subseteq Kind

Logged(c) ==
  {w.stamp : w \in {v \in UNION {Range(wal[i]) : i \in DOMAIN wal} : v.cell = c}}

\* Write-ahead: whatever a reader can see in a cell is in the log for that
\* cell, so that no crash can take back what was read unless it takes a suffix
\* of the log.
WriteAhead ==
  \A c \in Cell : {mem[c].base, mem[c].patch} \subseteq Logged(c) \cup {0}

\* However calls of put, del and patch and the shard threads interleave, a
\* restart at any moment and after any prefix of the log pairs each value with
\* its own meta.
RecoveredPaired ==
  \A n \in 0 .. Len(wal), k \in Key :
    Replay(SubSeq(wal, 1, n))[<<k, "val">>] = Replay(SubSeq(wal, 1, n))[<<k, "meta">>]

\* When nothing is in progress each value in memory has its own meta, so that
\* replication offers it under the stamp it was written with and a tombstone
\* stands for a deleted value (README.md:46, "Propagates deletions across the
\* cluster to ensure consistency").
Paired == AtRest => \A k \in Key : mem[<<k, "val">>] = mem[<<k, "meta">>]

\* Concurrent puts and patches are paired, and so are dels as long as none
\* overlaps another call: put and patch share a thread, del has another.
PairedUnlessDelRaces == "del" \notin mixed => Paired

\* When nothing is in progress memory is what a restart would rebuild.
\* (tests_cpp/test_store.cpp:129 requires it of the Merkle root.)
MatchesLog == AtRest => mem = Replay(wal)

\* That is so for put, del and patch as long as no two calls overlap, and again
\* from every restart on: overlapping calls may be logged in one order and
\* applied in the other.
MatchesLogAlone == mixed = {} => MatchesLog

\* README.md:45, "Last-Writer-Wins (LWW) based on Hybrid Logical Clocks": when
\* nothing is in progress a key has the value with the highest stamp logged.
LastWriterWins ==
  AtRest => \A k \in Key, i \in DOMAIN wal : \A j \in DOMAIN wal[i] :
    wal[i][j].cell = <<k, "val">> /\ wal[i][j].kind # "patch"
      => mem[<<k, "val">>].base >= wal[i][j].stamp

\* README.md:45, "Last-Writer-Wins (LWW) based on Hybrid Logical Clocks", for the
\* mutations that apply_mutation takes one after the other, while no client calls.
LastMutationWins == clock = 0 => LastWriterWins

\* A caller that waits for a shard is let go, and what a batch_put queued is
\* applied, whatever other calls do.
Served ==
  /\ \A c \in Client : pc[c] = "wait" ~> pc[c] # "wait"
  /\ \A s \in Shard, c \in Client : queue[s][c] # <<>> ~> queue[s][c] = <<>>
=============================================================================
