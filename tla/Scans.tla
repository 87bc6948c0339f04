------------------------------- MODULE Scans -------------------------------
(***************************************************************************)
(* The calls of the engine that go through all keys of a prefix while      *)
(* others write (src/engine/store.hpp): get_prefix_chunk and               *)
(* get_prefix_keys, page by page and shard by shard;                       *)
(* get_prefix_entries_all_shards and get_prefix_keys_all_shards, on all    *)
(* shards at once; and wait_all_shards.  Each is tasks for the threads of  *)
(* the shards, whose queues keep the order of each caller's tasks.         *)
(*                                                                         *)
(* A key is a number: the order of the map.  Values, and the metadata keys *)
(* that the scans leave out, do not matter here.  A page goes on from the  *)
(* last key of the page before, which it gives again; that is how a caller *)
(* outside this repository would use start_key.  The task of               *)
(* get_prefix_keys_all_shards does not take the lock of the map, which the *)
(* thread that runs every put may change meanwhile: it sees some state of  *)
(* the map at each step.                                                   *)
(***************************************************************************)
EXTENDS Integers, Sequences, FiniteSetsExt

CONSTANTS
  ScanKey,       \* those with the prefix, numbers from 1 on
  KeyShard,      \* get_routing_shard of each key
  EmptyShard,    \* and of the empty string, where every put is run
  Limit,
  MaxScanWrites, \* bound
  MaxWaits       \* bound: calls of wait_all_shards

\* Keys are numbered from 1 on, shards are numbers, and a page has a key at least.
ScanShape ==
  /\ ScanKey \in SUBSET (Nat \ {0}) /\ IsFiniteSet(ScanKey) /\ ScanKey # {}
  /\ KeyShard \in [ScanKey -> Nat] /\ EmptyShard \in Nat
  /\ Limit \in Nat \ {0} /\ MaxScanWrites \in Nat

ASSUME ScanAssumption == ScanShape

VARIABLES
  map,     \* per key: "absent", "live" or "empty" (deleted)
  queue,   \* per shard and caller: the tasks
  walk,    \* per shard: the key its task in get_prefix_keys_all_shards is at, or -1
  listed,  \* per shard: what that task has listed
  waits,   \* per caller: the number of futures it waits for
  scan,    \* what the scanner does: the call, its shard and start_key
  found,   \* the keys it was given
  upto,    \* per shard: the key up to which it was told all
  steady,  \* history: keys that were live all the time since the scan began
  ever,    \* history: keys that were live at some time since
  flushed, \* history: 1 from the return of wait_all_shards to the next write
  scanWrites, barriers

sVars == <<scan, found, upto>>
scanVars == <<map, queue, walk, listed, waits, sVars, steady, ever, flushed, scanWrites,
              barriers>>

Shards == {EmptyShard} \cup {KeyShard[k] : k \in ScanKey}
Caller == {"writer", "scanner"}
Infinity == Max(ScanKey) + 1
Live == {k \in ScanKey : map[k] = "live"}

ScanInit ==
  /\ map \in [ScanKey -> {"absent", "live"}]
  /\ queue = [s \in Shards |-> [c \in Caller |-> <<>>]]
  /\ walk = [s \in Shards |-> -1] /\ listed = [s \in Shards |-> {}]
  /\ waits = [c \in Caller |-> 0]
  /\ scan = [call |-> "none", shard |-> EmptyShard, start |-> 0]
  /\ found = {} /\ upto = [s \in Shards |-> 0]
  /\ steady = {} /\ ever = {}
  /\ flushed = 0 /\ scanWrites = 0 /\ barriers = 0

\* enqueue one task for each shard of ss, and the futures that are waited for.
Submit(c, ss, task, n) ==
  /\ queue' = [s \in Shards |-> IF s \in ss THEN [queue[s] EXCEPT ![c] = Append(@, task)]
                               ELSE queue[s]]
  /\ waits' = [waits EXCEPT ![c] = n]

-----------------------------------------------------------------------------
\* The writer

\* The tasks of put and del, which are waited for, and of a batch_put, which is not.
Write(op, k) ==
  /\ waits["writer"] = 0 /\ scanWrites < MaxScanWrites
  /\ scanWrites' = scanWrites + 1
  /\ flushed' = 0
  /\ Submit("writer", {IF op = "put" THEN EmptyShard ELSE KeyShard[k]},
            [op |-> op, key |-> k], IF op = "batch" THEN 0 ELSE 1)
  /\ UNCHANGED <<map, walk, listed, sVars, steady, ever, barriers>>

\* Mutant of wait_all_shards: only one of the futures is waited for.
wait_all_shardsOne ==
  /\ waits["writer"] = 0 /\ barriers < MaxWaits
  /\ barriers' = barriers + 1
  /\ flushed' = 1
  /\ Submit("writer", Shards, [op |-> "nothing", key |-> 0], 1)
  /\ UNCHANGED <<map, walk, listed, sVars, steady, ever, scanWrites>>

\* A task that does nothing on every shard, and all of them are waited for.
wait_all_shards ==
  /\ waits["writer"] = 0 /\ barriers < MaxWaits
  /\ barriers' = barriers + 1
  /\ flushed' = 1
  /\ Submit("writer", Shards, [op |-> "nothing", key |-> 0], Cardinality(Shards))
  /\ UNCHANGED <<map, walk, listed, sVars, steady, ever, scanWrites>>

-----------------------------------------------------------------------------
\* The scanner

\* It begins: page by page, or on all shards at once.
Begin(call) ==
  /\ scan.call = "none"
  /\ scan' = [call |-> call, shard |-> Min(Shards), start |-> 0]
  /\ steady' = Live /\ ever' = Live
  /\ IF call = "page" THEN UNCHANGED <<queue, waits>>
     ELSE Submit("scanner", Shards, [op |-> call, key |-> 0], Cardinality(Shards))
  /\ UNCHANGED <<map, walk, listed, found, upto, flushed, scanWrites, barriers>>

\* get_prefix_chunk or get_prefix_keys for the next page.
AskPage ==
  /\ scan.call = "page" /\ waits["scanner"] = 0
  /\ Submit("scanner", {scan.shard}, [op |-> "page", key |-> scan.start], 1)
  /\ UNCHANGED <<map, walk, listed, sVars, steady, ever, flushed, scanWrites, barriers>>

\* The first Limit keys of a set.
Least(ks) == {k \in ks : Cardinality({l \in ks : l < k}) < Limit}

\* Mutant of ChunkOf: a deleted key counts for the limit.
ChunkOfAll(s, start) ==
  LET seen == {k \in ScanKey : KeyShard[k] = s /\ map[k] # "absent" /\ k >= start}
  IN  [keys |-> Least(seen) \cap Live,
       upto |-> IF Cardinality(Least(seen) \cap Live) < Limit THEN Infinity
                ELSE Max(Least(seen))]

\* do_scan: from start_key on, the first live keys of the shard, and how far that is.
ChunkOf(s, start) ==
  LET keys == Least({k \in Live : KeyShard[k] = s /\ k >= start})
  IN  [keys |-> keys, upto |-> IF Cardinality(keys) < Limit THEN Infinity ELSE Max(keys)]

\* The scanner gets a page: it goes on from its last key, or with the next shard.
Page(s, page) ==
  /\ found' = found \cup page.keys
  /\ upto' = [upto EXCEPT ![s] = page.upto]
  /\ scan' = IF page.upto # Infinity THEN [scan EXCEPT !.start = page.upto]
             ELSE IF \A q \in Shards : q <= s THEN [scan EXCEPT !.call = "done"]
             ELSE [scan EXCEPT !.shard = Min({q \in Shards : q > s}), !.start = 0]

\* The scanner gets what a shard gives to a call on all of them.
Part(s, page) ==
  /\ found' = found \cup page.keys
  /\ upto' = [upto EXCEPT ![s] = page.upto]
  /\ scan' = IF waits["scanner"] = 1 THEN [scan EXCEPT !.call = "done"] ELSE scan

-----------------------------------------------------------------------------
\* The threads of the shards

\* The thread of s takes the next task of c, unless it is in the middle of one.
Dequeue(s, c, op) ==
  /\ walk[s] = -1 /\ queue[s][c] # <<>> /\ Head(queue[s][c]).op = op
  /\ queue' = [queue EXCEPT ![s][c] = Tail(@)]

\* A write changes the map.
Changed(k, to) ==
  /\ map' = [map EXCEPT ![k] = to]
  /\ steady' = IF to = "live" THEN steady ELSE steady \ {k}
  /\ ever' = IF to = "live" THEN ever \cup {k} ELSE ever

\* Mutant of RunWrite: a batch's task answers, too.
RunWriteAnswers(s, op) ==
  /\ Dequeue(s, "writer", op) /\ op \in {"put", "del", "batch"}
  /\ Changed(Head(queue[s]["writer"]).key, IF op = "del" THEN "empty" ELSE "live")
  /\ waits' = [waits EXCEPT !["writer"] = @ - 1]
  /\ UNCHANGED <<walk, listed, sVars, flushed, scanWrites, barriers>>

RunWrite(s, op) ==
  /\ Dequeue(s, "writer", op) /\ op \in {"put", "del", "batch"}
  /\ Changed(Head(queue[s]["writer"]).key, IF op = "del" THEN "empty" ELSE "live")
  /\ waits' = [waits EXCEPT !["writer"] = IF op = "batch" THEN @ ELSE @ - 1]
  /\ UNCHANGED <<walk, listed, sVars, flushed, scanWrites, barriers>>

RunNothing(s) ==
  /\ Dequeue(s, "writer", "nothing")
  /\ waits' = [waits EXCEPT !["writer"] = @ - 1]
  /\ UNCHANGED <<map, walk, listed, sVars, steady, ever, flushed, scanWrites, barriers>>

RunPage(s) ==
  /\ Dequeue(s, "scanner", "page")
  /\ Page(s, ChunkOf(s, Head(queue[s]["scanner"]).key))
  /\ waits' = [waits EXCEPT !["scanner"] = @ - 1]
  /\ UNCHANGED <<map, walk, listed, steady, ever, flushed, scanWrites, barriers>>

\* The task of get_prefix_entries_all_shards calls get_prefix_chunk, which sees that
\* it is on the thread of the shard and does the scan at once.
RunEntries(s) ==
  /\ Dequeue(s, "scanner", "entries")
  /\ Part(s, ChunkOf(s, 0))
  /\ waits' = [waits EXCEPT !["scanner"] = @ - 1]
  /\ UNCHANGED <<map, walk, listed, steady, ever, flushed, scanWrites, barriers>>

\* The task of get_prefix_keys_all_shards goes from key to key, without the lock.
RunKeys(s) ==
  /\ Dequeue(s, "scanner", "keys")
  /\ walk' = [walk EXCEPT ![s] = 0]
  /\ UNCHANGED <<map, listed, waits, sVars, steady, ever, flushed, scanWrites, barriers>>

Ahead(s) == {k \in ScanKey : KeyShard[k] = s /\ map[k] # "absent" /\ k > walk[s]}

WalkOn(s) ==
  LET k == Min(Ahead(s))
  IN  /\ walk[s] \in 0 .. Infinity /\ Ahead(s) # {} /\ Cardinality(listed[s]) < Limit
      /\ walk' = [walk EXCEPT ![s] = k]
      /\ listed' = IF map[k] = "live" THEN [listed EXCEPT ![s] = @ \cup {k}] ELSE listed
      /\ UNCHANGED <<map, queue, waits, sVars, steady, ever, flushed, scanWrites, barriers>>

WalkEnds(s) ==
  /\ walk[s] \in 0 .. Infinity /\ (Ahead(s) = {} \/ Cardinality(listed[s]) >= Limit)
  /\ Part(s, [keys |-> listed[s],
              upto |-> IF Cardinality(listed[s]) < Limit THEN Infinity ELSE Max(listed[s])])
  /\ walk' = [walk EXCEPT ![s] = -1]
  /\ waits' = [waits EXCEPT !["scanner"] = @ - 1]
  /\ UNCHANGED <<map, queue, listed, steady, ever, flushed, scanWrites, barriers>>

Run(s) ==
  \/ \E op \in {"put", "del", "batch"} : RunWrite(s, op)
  \/ RunNothing(s) \/ RunPage(s) \/ RunEntries(s) \/ RunKeys(s) \/ WalkOn(s) \/ WalkEnds(s)

ScanQuiet == scan.call = "done" /\ UNCHANGED scanVars

ScanNext ==
  \/ \E op \in {"put", "del", "batch"}, k \in ScanKey : Write(op, k)
  \/ wait_all_shards \/ AskPage
  \/ \E call \in {"page", "entries", "keys"} : Begin(call)
  \/ \E s \in Shards : Run(s)
  \/ ScanQuiet

\* The threads of the shards and the scanner run.
ScanFairness == WF_scanVars(AskPage) /\ \A s \in Shards : WF_scanVars(Run(s))
ScanSpec == ScanInit /\ [][ScanNext]_scanVars
ScanFairSpec == ScanSpec /\ ScanFairness

-----------------------------------------------------------------------------
\* Properties

\* Futures, positions and the keys found keep their types.
ScanTypeOK ==
  /\ waits["writer"] \in 0 .. Cardinality(Shards)
  /\ waits["scanner"] \in 0 .. Cardinality(Shards)
  /\ \A s \in Shards : upto[s] \in 0 .. Infinity /\ walk[s] >= -1
  /\ found \subseteq ScanKey /\ steady \subseteq ever
  /\ scanWrites \in 0 .. MaxScanWrites

\* However writes fall between pages and between the steps of a listing, a scan
\* misses no key that was live all along, as far as it has come, and gives none
\* that was not live at any time since it began.
ScanExact ==
  /\ \A k \in steady : k <= upto[KeyShard[k]] => k \in found
  /\ found \subseteq ever

\* When wait_all_shards has returned, all that its caller had batched before is
\* applied.
Applied ==
  flushed = 1 /\ waits["writer"] = 0 => \A s \in Shards : queue[s]["writer"] = <<>>

\* A scan ends: no task waits for its own thread, and pages get on.
ScanEnds == scan.call # "none" ~> scan.call = "done"
=============================================================================
