---------------------------- MODULE ScansProofs ----------------------------
(***************************************************************************)
(* For every number of keys and shards, every page size and any writes     *)
(* meanwhile: a scan is exact, and wait_all_shards waits for all.          *)
(*                                                                         *)
(* What a caller waits for is counted by the tasks it has in the queues;   *)
(* what the scanner was told of a shard, or the shard has listed, has      *)
(* every key that was live all along up to where it has come.              *)
(***************************************************************************)
EXTENDS Scans, FiniteSetTheorems, WellFoundedInduction, TLAPS

Task == [op : {"put", "del", "batch", "nothing", "page", "entries", "keys"}, key : Nat]
Queues == [Shards -> [Caller -> Seq(Task)]]

ScanTypes ==
  /\ map \in [ScanKey -> {"absent", "live", "empty"}]
  /\ queue \in Queues
  /\ walk \in [Shards -> {-1, 0} \cup ScanKey]
  /\ listed \in [Shards -> SUBSET ScanKey]
  /\ waits \in [Caller -> Nat]
  /\ scan \in [call : {"none", "page", "entries", "keys", "done"}, shard : Shards,
               start : Nat]
  /\ found \subseteq ScanKey
  /\ upto \in [Shards -> 0 .. Infinity]
  /\ steady \subseteq ever /\ ever \subseteq ScanKey
  /\ scanWrites \in 0 .. MaxScanWrites

\* The shards whose last task of the writer is one that it waits for.
Answering ==
  {s \in Shards : /\ queue[s]["writer"] # <<>>
                    /\ queue[s]["writer"][Len(queue[s]["writer"])].op # "batch"}

\* A task that is waited for is the last of its queue, behind batches only; the
\* futures of the writer are as many; and after wait_all_shards there is one
\* wherever there is any task.
WriterTasks ==
  /\ \A s \in Shards : \A i \in 1 .. Len(queue[s]["writer"]) :
       /\ queue[s]["writer"][i].op \in {"put", "del", "batch", "nothing"}
       /\ queue[s]["writer"][i].op # "nothing" => queue[s]["writer"][i].key \in ScanKey
       /\ i < Len(queue[s]["writer"]) => queue[s]["writer"][i].op = "batch"
  /\ waits["writer"] = Cardinality(Answering)
  /\ flushed = 1 => \A s \in Shards : queue[s]["writer"] = <<>> \/ s \in Answering

\* The shards that have not answered the scanner.
Busy == {s \in Shards : queue[s]["scanner"] # <<>> \/ walk[s] # -1}

\* A shard has at most one task of the scanner, queued or under way, of the call that
\* the scanner is in; a page is asked from where the scanner is, of the shard it is at.
ScannerTasks ==
  /\ \A s \in Shards : queue[s]["scanner"] # <<>> =>
       /\ Len(queue[s]["scanner"]) = 1 /\ walk[s] = -1 /\ listed[s] = {}
       /\ queue[s]["scanner"][1].op = scan.call
       /\ scan.call = "page" => queue[s]["scanner"][1].key = scan.start
  /\ \A s \in Shards : walk[s] # -1 => scan.call = "keys"
  /\ waits["scanner"] = Cardinality(Busy)
  /\ scan.call \in {"none", "page"} => \A s \in Shards : listed[s] = {}
  /\ scan.call = "none" => found = {} /\ \A s \in Shards : upto[s] = 0
  /\ scan.call \in {"none", "done"} => Busy = {}
  /\ scan.call = "page" => Busy \subseteq {scan.shard} /\ scan.start <= upto[scan.shard]

\* Keys that stay live are live, live ones are counted as such, and a listing under
\* way has every steady key up to where it is.
Covered ==
  /\ steady \subseteq Live
  /\ scan.call # "none" => Live \subseteq ever
  /\ ScanExact
  /\ \A s \in Shards : listed[s] \subseteq ever
  /\ \A s \in Shards : walk[s] # -1 =>
       /\ \A k \in listed[s] : k <= walk[s]
       /\ \A k \in steady : KeyShard[k] = s /\ k <= walk[s] => k \in listed[s]

\* The inductive invariant of the scans.
ScanIInv == ScanTypes /\ WriterTasks /\ ScannerTasks /\ Covered

\* A set of natural numbers has a least element.
LEMMA LeastNumber ==
  ASSUME NEW T \in SUBSET Nat, T # {}
  PROVE  \E x \in T : \A y \in T : x <= y
<1> DEFINE R == {p \in Nat \X Nat : p[1] < p[2]}
<1>1. IsWellFoundedOn(R, Nat)
  BY NatLessThanWellFounded, ZenonT(30) DEF OpToRel
<1> HIDE DEF R
<1>2. PICK x \in T : \A y \in T : ~(<<y, x>> \in R)
  BY <1>1, WFMin, ZenonT(30)
<1>3. \A y \in T : y < x => <<y, x>> \in R
  BY ZenonT(30) DEF R
<1>4. \A y \in T : ~(y < x)
  BY <1>2, <1>3, ZenonT(30)
<1>5. \A y \in T : x <= y
  BY <1>4
<1> QED BY <1>5, ZenonT(30)

\* A finite set of natural numbers has a greatest element: a smallest set without one
\* would still have one after an element is taken out.
LEMMA GreatestNumber ==
  ASSUME NEW T \in SUBSET Nat, IsFiniteSet(T), T # {}
  PROVE  \E x \in T : \A y \in T : x >= y
<1> DEFINE HasMax(U) == \E x \in U : \A y \in U : x >= y
           Bad == {U \in FiniteSubsetsOf(T) : U # {} /\ ~ HasMax(U)}
<1>1. SUFFICES ASSUME Bad # {} PROVE FALSE
  BY ZenonT(30) DEF FiniteSubsetsOf
<1>2. PICK U \in Bad : \A V \in Bad : ~(<<V, U>> \in StrictSubsetOrdering(T))
  <2> HIDE DEF Bad
  <2>1. Bad \subseteq FiniteSubsetsOf(T)
    BY ZenonT(30) DEF Bad
  <2> QED BY <1>1, <2>1, FS_StrictSubsetOrderingWellFounded, WFMin, ZenonT(30)
<1>3. U \subseteq T /\ IsFiniteSet(U) /\ U # {} /\ ~ HasMax(U)
  BY ZenonT(30) DEF FiniteSubsetsOf
<1>4. PICK x \in U : TRUE
  BY <1>3, ZenonT(30)
<1>5. IsFiniteSet(U \ {x})
  BY <1>3, FS_RemoveElement, ZenonT(30)
<1>6. U \ {x} \notin Bad
  BY <1>2, <1>3, <1>4, <1>5, ZenonT(30) DEF StrictSubsetOrdering, FiniteSubsetsOf
<1>7. U \ {x} = {} \/ HasMax(U \ {x})
  BY <1>3, <1>5, <1>6, ZenonT(30) DEF FiniteSubsetsOf
<1>8. HasMax(U)
  BY <1>3, <1>4, <1>7
<1> QED BY <1>3, <1>8, ZenonT(30)

\* The shards are finitely many numbers, keys have a greatest one, and a set of shards
\* has a least one.
LEMMA ScanFacts ==
  ASSUME ScanShape
  PROVE  /\ Shards \in SUBSET Nat /\ IsFiniteSet(Shards) /\ EmptyShard \in Shards
         /\ \A k \in ScanKey : KeyShard[k] \in Shards /\ k \in Nat /\ k > 0
         /\ Infinity \in Nat /\ \A k \in ScanKey : k < Infinity
         /\ \A T \in SUBSET Shards : T # {} => Min(T) \in T
<1>1. Shards \in SUBSET Nat /\ EmptyShard \in Shards
  BY ZenonT(30) DEF Shards, ScanShape
<1>2. \A k \in ScanKey : KeyShard[k] \in Shards /\ k \in Nat /\ k > 0
  <2>1. \A k \in ScanKey : KeyShard[k] \in Shards
    BY ZenonT(30) DEF Shards
  <2>2. \A k \in ScanKey : k \in Nat /\ k > 0
    BY DEF ScanShape
  <2> QED BY <2>1, <2>2, ZenonT(30)
<1>3. IsFiniteSet(Shards)
  <2> DEFINE Image == {KeyShard[k] : k \in ScanKey}
  <2>1. KeyShard \in Surjection(ScanKey, Image)
    BY ZenonT(30) DEF ScanShape, Surjection, Range
  <2>2. IsFiniteSet(Image)
    BY <2>1, FS_Surjection, ZenonT(30) DEF ScanShape
  <2> QED BY <2>2, FS_Singleton, FS_Union, ZenonT(30) DEF Shards
<1>4. PICK m \in ScanKey : \A k \in ScanKey : m >= k
  BY GreatestNumber, ZenonT(30) DEF ScanShape
<1>5. Max(ScanKey) \in ScanKey /\ \A k \in ScanKey : Max(ScanKey) >= k
  BY <1>4, ZenonT(30) DEF Max
<1>6. Infinity \in Nat /\ \A k \in ScanKey : k < Infinity
  BY <1>2, <1>5 DEF Infinity
<1>7. ASSUME NEW T \in SUBSET Shards, T # {} PROVE Min(T) \in T
  <2>1. PICK x \in T : \A y \in T : x <= y
    BY <1>1, <1>7, LeastNumber, ZenonT(30)
  <2> QED BY <2>1, ZenonT(30) DEF Min
<1> QED BY <1>1, <1>2, <1>3, <1>6, <1>7, ZenonT(30)

\* A set of keys is finite and has a greatest one.
LEMMA KeySet ==
  ASSUME ScanShape, NEW T \in SUBSET ScanKey
  PROVE  /\ IsFiniteSet(T) /\ Cardinality(T) \in Nat
         /\ T # {} => Max(T) \in T /\ \A k \in T : Max(T) >= k
<1>1. IsFiniteSet(T) /\ Cardinality(T) \in Nat
  BY FS_Subset, FS_CardinalityType, ZenonT(30) DEF ScanShape
<1>2. ASSUME T # {} PROVE Max(T) \in T /\ \A k \in T : Max(T) >= k
  <2>1. PICK m \in T : \A k \in T : m >= k
    BY <1>1, <1>2, GreatestNumber, ZenonT(30) DEF ScanShape
  <2> QED BY <2>1, ZenonT(30) DEF Max
<1> QED BY <1>1, <1>2, ZenonT(30)

\* The first Limit keys of a set are a lower part of it, and all of it if they are
\* fewer than Limit.
LEMMA LeastKeys ==
  ASSUME ScanShape, NEW T \in SUBSET ScanKey
  PROVE  /\ Least(T) \subseteq T
         /\ \A k \in T, l \in Least(T) : k <= l => k \in Least(T)
         /\ Cardinality(Least(T)) < Limit => Least(T) = T
<1> DEFINE Below(k) == {l \in T : l < k}
<1>1. Least(T) = {k \in T : Cardinality(Below(k)) < Limit}
  BY ZenonT(30) DEF Least
<1>2. /\ \A k \in T : k \in Nat
      /\ \A k : IsFiniteSet(Below(k)) /\ Cardinality(Below(k)) \in Nat
      /\ Limit \in Nat
  <2>1. \A k : Below(k) \in SUBSET ScanKey
    BY ZenonT(30)
  <2> HIDE DEF Below
  <2> QED BY <2>1, KeySet, ZenonT(30) DEF ScanShape
<1>3. ASSUME NEW k \in T, NEW l \in Least(T), k <= l PROVE k \in Least(T)
  <2>1. Below(k) \subseteq Below(l)
    BY <1>1, <1>2, <1>3
  <2>2. Cardinality(Below(k)) <= Cardinality(Below(l))
    BY <1>2, <2>1, FS_Subset, ZenonT(30)
  <2> HIDE DEF Below
  <2> QED BY <1>1, <1>2, <2>2
<1>4. ASSUME NEW k \in T, k \notin Least(T) PROVE Cardinality(Least(T)) >= Limit
  <2> DEFINE Rest == {l \in T : l \notin Least(T)}
  <2>1. PICK l \in Rest : \A j \in Rest : l <= j
    BY <1>2, <1>4, LeastNumber, ZenonT(30)
  <2>2. Below(l) \subseteq Least(T)
    BY <1>2, <2>1
  <2>3. Cardinality(Below(l)) >= Limit
    <3>1. l \in T /\ l \notin Least(T)
      BY <2>1, ZenonT(30)
    <3> HIDE DEF Below
    <3> QED BY <1>1, <1>2, <3>1
  <2>4. IsFiniteSet(Least(T)) /\ Cardinality(Least(T)) \in Nat
    BY <1>1, KeySet, ZenonT(30)
  <2>5. Cardinality(Below(l)) <= Cardinality(Least(T))
    BY <2>2, <2>4, FS_Subset, ZenonT(30)
  <2> QED BY <1>2, <2>3, <2>4, <2>5
<1>5. IsFiniteSet(Least(T)) /\ Cardinality(Least(T)) \in Nat
  BY <1>1, KeySet, ZenonT(30)
<1>6. Least(T) \subseteq T
  BY <1>1, ZenonT(30)
<1> HIDE DEF Below
<1>7. Cardinality(Least(T)) < Limit => Least(T) = T
  BY <1>2, <1>4, <1>5, <1>6
<1> QED BY <1>3, <1>6, <1>7, ZenonT(30)

\* A page gives live keys, and every live key of its shard from its start up to where
\* it says it has come.
LEMMA ChunkCovers ==
  ASSUME ScanShape, NEW s \in Shards, NEW start \in Nat
  PROVE  /\ ChunkOf(s, start).keys \subseteq Live
         /\ ChunkOf(s, start).upto \in 0 .. Infinity
         /\ \A k \in Live :
              KeyShard[k] = s /\ start <= k /\ k <= ChunkOf(s, start).upto
                => k \in ChunkOf(s, start).keys
<1> DEFINE T == {k \in Live : KeyShard[k] = s /\ k >= start}
           L == Least(T)
           last == IF Cardinality(L) < Limit THEN Infinity ELSE Max(L)
<1>1. ChunkOf(s, start) = [keys |-> L, upto |-> last]
  BY ZenonT(30) DEF ChunkOf
<1>2. ChunkOf(s, start).keys = L /\ ChunkOf(s, start).upto = last
  BY <1>1
<1>3. T \in SUBSET ScanKey /\ T \subseteq Live
  BY ZenonT(30) DEF Live
<1>4. /\ L \subseteq T
      /\ \A k \in T, l \in L : k <= l => k \in L
      /\ Cardinality(L) < Limit => L = T
  BY <1>3, LeastKeys, ZenonT(30)
<1>5. /\ IsFiniteSet(L) /\ Cardinality(L) \in Nat
      /\ L # {} => Max(L) \in L /\ \A k \in L : Max(L) >= k
  BY <1>3, <1>4, KeySet, ZenonT(30)
<1>6. Cardinality(L) < Limit \/ L # {}
  BY FS_EmptySet, SMTT(30) DEF ScanShape
<1>7. \A k \in Live : k \in ScanKey /\ k \in Nat
  BY ScanFacts, ZenonT(30) DEF Live
<1>8. last \in 0 .. Infinity
  <2>1. \A k \in L : k \in 0 .. Infinity
    BY <1>3, <1>4, ScanFacts
  <2> HIDE DEF L
  <2> QED BY <1>5, <1>6, <2>1, ScanFacts
<1>9. ASSUME NEW k \in Live, KeyShard[k] = s, start <= k, k <= last
      PROVE  k \in L
  <2>1. k \in T
    BY <1>7, <1>9, ZenonT(30)
  <2>2. CASE Cardinality(L) < Limit
    BY <1>4, <2>1, <2>2, ZenonT(30)
  <2>3. CASE ~ (Cardinality(L) < Limit)
    <3> HIDE DEF L, T
    <3> QED BY <1>4, <1>5, <1>6, <1>9, <2>1, <2>3, ZenonT(30)
  <2> QED BY <2>2, <2>3, ZenonT(30)
<1> HIDE DEF L, T, last
<1> QED BY <1>2, <1>3, <1>4, <1>8, <1>9, ZenonT(30)

\* Caller c has given a task to each shard of ss and waits for n answers.
Queued(c, ss, task, n) ==
  /\ waits'[c] = n
  /\ \A s \in Shards :
       queue'[s][c] = IF s \in ss THEN Append(queue[s][c], task) ELSE queue[s][c]

\* The tasks and futures of caller d are as before.
NotQueued(d) == waits'[d] = waits[d] /\ \A s \in Shards : queue'[s][d] = queue[s][d]

\* Tasks are put at the end of the queues of their shards.
LEMMA Submitted ==
  ASSUME ScanTypes, NEW c \in Caller, NEW ss \in SUBSET Shards, NEW task \in Task,
         NEW n \in Nat, Submit(c, ss, task, n)
  PROVE  /\ queue' \in Queues /\ waits' \in [Caller -> Nat]
         /\ Queued(c, ss, task, n)
         /\ \A d \in Caller : d # c => NotQueued(d)
<1>1. /\ queue \in Queues /\ waits \in [Caller -> Nat]
      /\ queue' = [s \in Shards |-> IF s \in ss
                                      THEN [queue[s] EXCEPT ![c] = Append(@, task)]
                                      ELSE queue[s]]
      /\ waits' = [waits EXCEPT ![c] = n]
  BY ZenonT(30) DEF ScanTypes, Submit
<1>2. \A s \in Shards : queue[s] \in [Caller -> Seq(Task)]
  BY <1>1, ZenonT(30) DEF Queues
<1>3. \A s \in Shards : Append(queue[s][c], task) \in Seq(Task)
  BY <1>2
<1>4. queue' \in Queues
  BY <1>1, <1>2, <1>3, ZenonT(30) DEF Queues
<1> QED BY <1>1, <1>2, <1>4, ZenonT(30) DEF Queued, NotQueued

\* A task is taken from the front of its caller's queue.
LEMMA Dequeued ==
  ASSUME ScanTypes, NEW s \in Shards, NEW c \in Caller, NEW op, Dequeue(s, c, op)
  PROVE  /\ walk[s] = -1 /\ queue[s][c] \in Seq(Task) /\ queue[s][c] # <<>>
         /\ Head(queue[s][c]) = queue[s][c][1] /\ queue[s][c][1].op = op
         /\ queue[s][c][1] \in Task /\ Len(queue[s][c]) \in Nat \ {0}
         /\ queue' \in Queues
         /\ queue'[s][c] = Tail(queue[s][c])
         /\ \A q \in Shards, d \in Caller : q # s \/ d # c => queue'[q][d] = queue[q][d]
<1>1. /\ queue \in Queues /\ queue[s] \in [Caller -> Seq(Task)]
      /\ queue' = [queue EXCEPT ![s][c] = Tail(@)]
      /\ walk[s] = -1 /\ queue[s][c] # <<>> /\ Head(queue[s][c]).op = op
  BY ZenonT(30) DEF ScanTypes, Queues, Dequeue
<1>2. queue[s][c] \in Seq(Task) /\ Len(queue[s][c]) \in Nat \ {0}
  BY <1>1
<1>3. Head(queue[s][c]) = queue[s][c][1] /\ queue[s][c][1] \in Task
      /\ Tail(queue[s][c]) \in Seq(Task)
  BY <1>1, <1>2
<1>4. queue' \in Queues
  BY <1>1, <1>2, <1>3, ZenonT(30) DEF Queues
<1>5. queue'[s][c] = Tail(queue[s][c])
  BY <1>1, ZenonT(30) DEF Queues
<1>6. ASSUME NEW q \in Shards, NEW d \in Caller, q # s \/ d # c
      PROVE  queue'[q][d] = queue[q][d]
  BY <1>1, <1>6, ZenonT(30) DEF Queues
<1> QED BY <1>1, <1>2, <1>3, <1>4, <1>5, <1>6, ZenonT(30)

\* What the writer relies on depends on its queues, its futures and the flag only.
LEMMA WriterSame ==
  ASSUME WriterTasks, waits'["writer"] = waits["writer"], flushed' = flushed,
         \A s \in Shards : queue'[s]["writer"] = queue[s]["writer"]
  PROVE  WriterTasks'
<1>1. Answering' = Answering
  BY ZenonT(30) DEF Answering
<1> QED BY <1>1, ZenonT(30) DEF WriterTasks

\* A call of the writer finds only batches before its task.
LEMMA WriterSubmits ==
  ASSUME ScanShape, ScanTypes, WriterTasks, waits["writer"] = 0,
         NEW ss \in SUBSET Shards, NEW task \in Task, NEW n \in Nat,
         Submit("writer", ss, task, n),
         task.op \in {"put", "del", "batch", "nothing"},
         task.op # "nothing" => task.key \in ScanKey,
         n = IF task.op = "batch" THEN 0 ELSE Cardinality(ss),
         flushed' = 1 => ss = Shards /\ task.op # "batch"
  PROVE  WriterTasks'
<1>1. "writer" \in Caller /\ "scanner" \in Caller
  BY ZenonT(30) DEF Caller
<1>2. /\ waits'["writer"] = n
      /\ \A s \in Shards : queue'[s]["writer"] = IF s \in ss
                                                   THEN Append(queue[s]["writer"], task)
                                                   ELSE queue[s]["writer"]
  <2>1. Queued("writer", ss, task, n)
    BY <1>1, Submitted, ZenonT(30)
  <2> QED BY <2>1, ZenonT(30) DEF Queued
<1>3. \A s \in Shards : queue[s]["writer"] \in Seq(Task)
  BY <1>1, ZenonT(30) DEF ScanTypes, Queues
<1>4. Answering = {}
  <2>1. IsFiniteSet(Answering)
    BY ScanFacts, FS_Subset, ZenonT(30) DEF Answering
  <2> QED BY <2>1, FS_EmptySet, ZenonT(30) DEF WriterTasks
<1>5. \A s \in Shards : \A i \in 1 .. Len(queue[s]["writer"]) :
        queue[s]["writer"][i].op = "batch" /\ queue[s]["writer"][i].key \in ScanKey
  <2> SUFFICES ASSUME NEW s \in Shards, NEW i \in 1 .. Len(queue[s]["writer"])
               PROVE  queue[s]["writer"][i].op = "batch" /\ queue[s]["writer"][i].key \in ScanKey
    BY ZenonT(30)
  <2>1. queue[s]["writer"][Len(queue[s]["writer"])].op = "batch"
    BY <1>3, <1>4 DEF Answering
  <2> QED BY <1>3, <2>1 DEF WriterTasks
<1>6. ASSUME NEW s \in Shards, NEW i \in 1 .. Len(queue'[s]["writer"])
      PROVE  /\ queue'[s]["writer"][i].op \in {"put", "del", "batch", "nothing"}
             /\ queue'[s]["writer"][i].op # "nothing" => queue'[s]["writer"][i].key \in ScanKey
             /\ i < Len(queue'[s]["writer"]) => queue'[s]["writer"][i].op = "batch"
  <2>1. CASE s \in ss
    <3>1. PICK q \in Seq(Task) : q = queue[s]["writer"]
      BY <1>3, ZenonT(30)
    <3>2. queue'[s]["writer"] = Append(q, task)
      BY <1>2, <2>1, <3>1, ZenonT(30)
    <3>3. \A j \in 1 .. Len(q) : q[j].op = "batch" /\ q[j].key \in ScanKey
      BY <1>5, <3>1, ZenonT(30)
    <3> QED BY <1>6, <3>2, <3>3
  <2>2. CASE s \notin ss
    BY <1>2, <1>5, <1>6, <2>2, ZenonT(30)
  <2> QED BY <2>1, <2>2, ZenonT(30)
<1>7. ASSUME NEW s \in Shards
      PROVE  s \in Answering' <=> s \in ss /\ task.op # "batch"
  <2>1. CASE s \in ss
    <3>1. PICK q \in Seq(Task) : q = queue[s]["writer"]
      BY <1>3, ZenonT(30)
    <3>2. queue'[s]["writer"] = Append(q, task)
      BY <1>2, <2>1, <3>1, ZenonT(30)
    <3>3. queue'[s]["writer"] # <<>> /\ queue'[s]["writer"][Len(queue'[s]["writer"])] = task
      BY <3>2
    <3> QED BY <2>1, <3>3, ZenonT(30) DEF Answering
  <2>2. CASE s \notin ss
    BY <1>2, <1>4, <2>2, ZenonT(30) DEF Answering
  <2> QED BY <2>1, <2>2, ZenonT(30)
<1>8. Answering' = IF task.op = "batch" THEN {} ELSE ss
  BY <1>7, ZenonT(30) DEF Answering
<1>9. waits'["writer"] = Cardinality(Answering')
  BY <1>2, <1>8, FS_EmptySet, ZenonT(30)
<1>10. flushed' = 1 => \A s \in Shards : queue'[s]["writer"] = <<>> \/ s \in Answering'
  BY <1>7, ZenonT(30)
<1> QED BY <1>6, <1>9, <1>10, ZenonT(30) DEF WriterTasks

\* The rest of a queue.
LEMMA TailFacts ==
  ASSUME NEW q \in Seq(Task), q # <<>>
  PROVE  /\ Len(q) \in Nat /\ Len(q) >= 1
         /\ Tail(q) \in Seq(Task) /\ Len(Tail(q)) = Len(q) - 1
         /\ \A i \in 1 .. Len(Tail(q)) : Tail(q)[i] = q[i + 1]
         /\ Len(q) = 1 => Tail(q) = <<>>
         /\ Len(q) # 1 => Tail(q) # <<>> /\ Tail(q)[Len(Tail(q))] = q[Len(q)]
<1>0. Len(<<>>) = 0 /\ \A p \in Seq(Task) : p # <<>> => Len(p) \in Nat \ {0}
  OBVIOUS
<1>1. Len(q) \in Nat /\ Len(q) >= 1
  BY <1>0
<1>2. /\ Tail(q) \in Seq(Task) /\ Len(Tail(q)) = Len(q) - 1
      /\ \A i \in 1 .. Len(Tail(q)) : Tail(q)[i] = q[i + 1]
  OBVIOUS
<1>3. Len(q) = 1 => Tail(q) = <<>>
  <2>1. PICK p \in Seq(Task) : p = Tail(q)
    BY <1>2, ZenonT(30)
  <2>2. Len(p) = Len(q) - 1
    BY <1>2, <2>1, ZenonT(30)
  <2>3. p # <<>> => Len(p) \in Nat \ {0}
    BY <1>0, ZenonT(30)
  <2> QED BY <2>1, <2>2, <2>3
<1>4. Len(q) # 1 => Tail(q) # <<>>
  BY <1>0, <1>1, <1>2, SMTT(30)
<1>5. Len(q) # 1 => Tail(q)[Len(Tail(q))] = q[Len(q)]
  BY <1>1, <1>2
<1> QED BY <1>1, <1>2, <1>3, <1>4, <1>5, ZenonT(30)

\* A shard takes a task of the writer: a batch, or the last one, which is answered.
LEMMA WriterTaken ==
  ASSUME ScanShape, ScanTypes, WriterTasks, NEW s \in Shards, NEW op,
         Dequeue(s, "writer", op), flushed' = flushed,
         op = "batch" => waits'["writer"] = waits["writer"],
         op # "batch" => waits'["writer"] = waits["writer"] - 1
  PROVE  WriterTasks'
<1>1. "writer" \in Caller
  BY ZenonT(30) DEF Caller
<1>2. PICK q \in Seq(Task) : q = queue[s]["writer"]
  BY <1>1, Dequeued, ZenonT(30)
<1>3. /\ queue'[s]["writer"] = Tail(q)
      /\ \A t \in Shards : t # s => queue'[t]["writer"] = queue[t]["writer"]
  BY <1>1, <1>2, Dequeued
<1>4. q # <<>> /\ q[1].op = op
  BY <1>1, <1>2, Dequeued
<1>5. PICK n \in Nat : n = Len(q) /\ n >= 1
  BY <1>4, TailFacts, ZenonT(30)
<1>6. \A i \in 1 .. n :
        /\ q[i].op \in {"put", "del", "batch", "nothing"}
        /\ q[i].op # "nothing" => q[i].key \in ScanKey
        /\ i < n => q[i].op = "batch"
  BY <1>2, <1>5, ZenonT(30) DEF WriterTasks
<1>7. op # "batch" => n = 1
  BY <1>4, <1>5, <1>6
<1>8. ASSUME NEW t \in Shards, NEW i \in 1 .. Len(queue'[t]["writer"])
      PROVE  /\ queue'[t]["writer"][i].op \in {"put", "del", "batch", "nothing"}
             /\ queue'[t]["writer"][i].op # "nothing" => queue'[t]["writer"][i].key \in ScanKey
             /\ i < Len(queue'[t]["writer"]) => queue'[t]["writer"][i].op = "batch"
  <2>1. CASE t = s
    <3>1. PICK r : r = queue'[t]["writer"]
      BY ZenonT(30)
    <3>2. r = Tail(q) /\ Len(r) = n - 1 /\ \A j \in 1 .. Len(r) : r[j] = q[j + 1]
      BY <1>3, <1>4, <1>5, <2>1, <3>1, TailFacts
    <3>3. i \in 1 .. n - 1 /\ i + 1 \in 1 .. n /\ r[i] = q[i + 1]
      BY <1>5, <1>8, <3>1, <3>2
    <3> QED BY <1>6, <3>1, <3>2, <3>3
  <2>2. CASE t # s
    BY <1>3, <1>8, <2>2, SMTT(30) DEF WriterTasks
  <2> QED BY <2>1, <2>2, ZenonT(30)
<1>9. \A t \in Shards : t # s => (t \in Answering' <=> t \in Answering)
  BY <1>3, ZenonT(30) DEF Answering
<1>10. s \in Answering <=> q[n].op # "batch"
  BY <1>2, <1>4, <1>5, ZenonT(30) DEF Answering
<1>11. s \in Answering' <=> n # 1 /\ q[n].op # "batch"
  <2>1. CASE n = 1
    <3>1. queue'[s]["writer"] = <<>>
      BY <1>3, <1>4, <1>5, <2>1, TailFacts, ZenonT(30)
    <3> QED BY <2>1, <3>1, ZenonT(30) DEF Answering
  <2>2. CASE n # 1
    <3>1. Tail(q) # <<>> /\ Tail(q)[Len(Tail(q))] = q[n]
      BY <1>4, <1>5, <2>2, TailFacts, ZenonT(30)
    <3> QED BY <1>3, <2>2, <3>1, ZenonT(30) DEF Answering
  <2> QED BY <2>1, <2>2, ZenonT(30)
<1>12. IsFiniteSet(Answering)
  BY ScanFacts, FS_Subset, ZenonT(30) DEF Answering
<1>13. Answering' = IF op = "batch" THEN Answering ELSE Answering \ {s}
  <2>1. CASE op = "batch"
    <3>1. s \in Answering' <=> s \in Answering
      BY <1>4, <1>10, <1>11, <2>1, ZenonT(30)
    <3> QED BY <1>9, <2>1, <3>1, ZenonT(30) DEF Answering
  <2>2. CASE op # "batch"
    <3>1. s \notin Answering'
      BY <1>7, <1>11, <2>2, ZenonT(30)
    <3> QED BY <1>9, <2>2, <3>1, ZenonT(30) DEF Answering
  <2> QED BY <2>1, <2>2, ZenonT(30)
<1>14. waits'["writer"] = Cardinality(Answering')
  <2>1. CASE op = "batch"
    BY <1>13, <2>1, ZenonT(30) DEF WriterTasks
  <2>2. CASE op # "batch"
    <3>1. s \in Answering
      BY <1>4, <1>7, <1>10, <2>2, ZenonT(30)
    <3> QED BY <1>12, <1>13, <2>2, <3>1, FS_RemoveElement, ZenonT(30) DEF WriterTasks
  <2> QED BY <2>1, <2>2, ZenonT(30)
<1>15. ASSUME flushed' = 1, NEW t \in Shards
       PROVE  queue'[t]["writer"] = <<>> \/ t \in Answering'
  <2>1. CASE t = s
    <3>1. s \in Answering
      BY <1>2, <1>4, <1>15, ZenonT(30) DEF WriterTasks
    <3>2. CASE n = 1
      BY <1>3, <1>4, <1>5, <2>1, <3>2, TailFacts, ZenonT(30)
    <3>3. CASE n # 1
      BY <1>10, <1>11, <2>1, <3>1, <3>3, ZenonT(30)
    <3> QED BY <3>2, <3>3, ZenonT(30)
  <2>2. CASE t # s
    BY <1>3, <1>9, <1>15, <2>2, ZenonT(30) DEF WriterTasks
  <2> QED BY <2>1, <2>2, ZenonT(30)
<1> QED BY <1>8, <1>14, <1>15, ZenonT(30) DEF WriterTasks

\* What the scanner relies on depends on its queues, its futures, the listings and
\* what it was told only.
LEMMA ScannerSame ==
  ASSUME ScannerTasks, waits'["scanner"] = waits["scanner"],
         \A s \in Shards : queue'[s]["scanner"] = queue[s]["scanner"],
         walk' = walk, listed' = listed, scan' = scan, found' = found, upto' = upto
  PROVE  ScannerTasks'
<1>1. Busy' = Busy
  BY ZenonT(30) DEF Busy
<1> QED BY <1>1 DEF ScannerTasks

\* The shards that have to answer are finitely many.
LEMMA BusyFinite == ScanShape => IsFiniteSet(Busy)
BY ScanFacts, FS_Subset, ZenonT(30) DEF Busy

\* A queue of one task.
LEMMA OneTask ==
  ASSUME NEW x
  PROVE  /\ Append(<<>>, x) = <<x>> /\ <<x>> # <<>> /\ Len(<<x>>) = 1 /\ <<x>>[1] = x
OBVIOUS

\* The scanner begins, with a task for every shard or none yet.
LEMMA BeginScanner ==
  ASSUME ScanShape, ScanTypes, ScannerTasks,
         NEW call \in {"page", "entries", "keys"}, Begin(call)
  PROVE  ScannerTasks'
<1>1. "scanner" \in Caller
  BY ZenonT(30) DEF Caller
<1>2. /\ scan.call = "none" /\ scan'.call = call /\ scan'.start = 0
      /\ walk' = walk /\ listed' = listed /\ found' = found /\ upto' = upto
  BY ZenonT(30) DEF Begin
<1>3. /\ Busy = {} /\ waits["scanner"] = 0
      /\ \A s \in Shards : queue[s]["scanner"] = <<>> /\ walk[s] = -1
                             /\ listed[s] = {} /\ upto[s] = 0
  BY <1>2, FS_EmptySet, ZenonT(30) DEF ScannerTasks, Busy
<1>4. CASE call = "page"
  <2>1. queue' = queue /\ waits' = waits
    BY <1>4, ZenonT(30) DEF Begin
  <2>2. Busy' = {}
    BY <1>2, <1>3, <2>1, ZenonT(30) DEF Busy
  <2>3. scan'.shard \in Shards
    <3>1. scan'.shard = Min(Shards)
      BY ZenonT(30) DEF Begin
    <3> QED BY <3>1, ScanFacts, ZenonT(30)
  <2> QED BY <1>2, <1>3, <1>4, <2>1, <2>2, <2>3, FS_EmptySet DEF ScannerTasks
<1>5. CASE call # "page"
  <2>0. PICK task \in Task : task = [op |-> call, key |-> 0]
    BY ZenonT(30) DEF Task
  <2>1. Submit("scanner", Shards, task, Cardinality(Shards))
    BY <1>5, <2>0, ZenonT(30) DEF Begin
  <2>2. task.op = call
    BY <2>0, ZenonT(30)
  <2>3. PICK n \in Nat, ss \in SUBSET Shards : n = Cardinality(Shards) /\ ss = Shards
    BY ScanFacts, FS_CardinalityType, ZenonT(30)
  <2>3a. Submit("scanner", ss, task, n)
    BY <2>1, <2>3, ZenonT(30)
  <2>3b. Queued("scanner", ss, task, n)
    BY <1>1, <2>3a, Submitted, ZenonT(30)
  <2>4. /\ waits'["scanner"] = n
        /\ \A s \in Shards : queue'[s]["scanner"] = IF s \in ss
                                                      THEN Append(queue[s]["scanner"], task)
                                                      ELSE queue[s]["scanner"]
    BY <2>3b, ZenonT(30) DEF Queued
  <2>5. \A s \in Shards : queue'[s]["scanner"] = <<task>>
    BY <1>3, <2>3, <2>4, OneTask
  <2>6. Busy' = Shards
    BY <2>5, OneTask, ZenonT(30) DEF Busy
  <2>7. \A s \in Shards : Len(queue'[s]["scanner"]) = 1 /\ queue'[s]["scanner"][1].op = call
    BY <2>2, <2>5, OneTask, ZenonT(30)
  <2> QED BY <1>2, <1>3, <1>5, <2>3, <2>4, <2>6, <2>7, ZenonT(30) DEF ScannerTasks
<1> QED BY <1>4, <1>5, ZenonT(30)

\* The scanner asks for a page of the shard it is at.
LEMMA AskScanner ==
  ASSUME ScanShape, ScanTypes, ScannerTasks, AskPage
  PROVE  ScannerTasks'
<1>0. PICK task \in Task : task = [op |-> "page", key |-> scan.start]
  BY ZenonT(30) DEF Task, ScanTypes
<1>1. "scanner" \in Caller
  BY ZenonT(30) DEF Caller
<1>2. /\ scan.call = "page" /\ waits["scanner"] = 0
      /\ Submit("scanner", {scan.shard}, task, 1)
      /\ walk' = walk /\ listed' = listed /\ scan' = scan /\ found' = found /\ upto' = upto
  BY <1>0, ZenonT(30) DEF AskPage, sVars
<1>3. /\ task.op = "page" /\ task.key = scan.start /\ scan.shard \in Shards
  BY <1>0, ZenonT(30) DEF ScanTypes
<1>3a. PICK n \in Nat, ss \in SUBSET Shards : n = 1 /\ ss = {scan.shard}
  BY <1>3, ZenonT(30)
<1>3b. Submit("scanner", ss, task, n)
  BY <1>2, <1>3a, ZenonT(30)
<1>3c. Queued("scanner", ss, task, n)
  BY <1>1, <1>3b, Submitted, ZenonT(30)
<1>4. /\ waits'["scanner"] = n
      /\ \A s \in Shards :
           queue'[s]["scanner"] = IF s \in ss THEN Append(queue[s]["scanner"], task)
                                  ELSE queue[s]["scanner"]
  BY <1>3c, ZenonT(30) DEF Queued
<1>5. Busy = {}
  BY <1>2, BusyFinite, FS_EmptySet, ZenonT(30) DEF ScannerTasks
<1>6. \A s \in Shards : queue[s]["scanner"] = <<>> /\ walk[s] = -1 /\ listed[s] = {}
  BY <1>2, <1>5, ZenonT(30) DEF Busy, ScannerTasks
<1>7. \A s \in Shards : queue'[s]["scanner"] = IF s = scan.shard THEN <<task>> ELSE <<>>
  BY <1>3a, <1>4, <1>6, OneTask, ZenonT(30)
<1>8. Busy' = {scan.shard}
  BY <1>2, <1>3, <1>6, <1>7, OneTask DEF Busy
<1>9. Cardinality(Busy') = 1
  BY <1>8, FS_Singleton, ZenonT(30)
<1> QED BY <1>2, <1>3, <1>3a, <1>4, <1>6, <1>7, <1>8, <1>9, OneTask, SMTT(30) DEF ScannerTasks

\* The one task of the scanner that a shard has is taken.
LEMMA ScannerTaken ==
  ASSUME ScanShape, ScanTypes, ScannerTasks, NEW s \in Shards, NEW op,
         Dequeue(s, "scanner", op)
  PROVE  /\ scan.call = op /\ walk[s] = -1 /\ listed[s] = {} /\ s \in Busy
         /\ Head(queue[s]["scanner"]).key \in Nat
         /\ op = "page" => Head(queue[s]["scanner"]).key = scan.start
         /\ queue'[s]["scanner"] = <<>>
         /\ \A t \in Shards : t # s => queue'[t]["scanner"] = queue[t]["scanner"]
<1>1. "scanner" \in Caller
  BY ZenonT(30) DEF Caller
<1>2. PICK q \in Seq(Task) : q = queue[s]["scanner"]
  BY <1>1, Dequeued, ZenonT(30)
<1>3. /\ walk[s] = -1 /\ q # <<>> /\ Head(q) = q[1] /\ q[1].op = op /\ q[1] \in Task
      /\ queue'[s]["scanner"] = Tail(q)
      /\ \A t \in Shards : t # s => queue'[t]["scanner"] = queue[t]["scanner"]
  BY <1>1, <1>2, Dequeued
<1>4. /\ Len(q) = 1 /\ listed[s] = {} /\ q[1].op = scan.call /\ s \in Busy
      /\ scan.call = "page" => q[1].key = scan.start
  BY <1>2, <1>3, ZenonT(30) DEF ScannerTasks, Busy
<1>5. Tail(q) = <<>>
  BY <1>3, <1>4, TailFacts, ZenonT(30)
<1>6. q[1].key \in Nat
  BY <1>3, ZenonT(30) DEF Task
<1> QED BY <1>2, <1>3, <1>4, <1>5, <1>6, ZenonT(30)

\* A shard answers the scanner, one the fewer to wait for.
LEMMA BusyLess ==
  ASSUME ScanShape, ScannerTasks, NEW s \in Busy, walk'[s] = -1,
         queue'[s]["scanner"] = <<>>, waits'["scanner"] = waits["scanner"] - 1,
         \A t \in Shards : t # s => /\ queue'[t]["scanner"] = queue[t]["scanner"]
                                      /\ walk'[t] = walk[t]
  PROVE  /\ Busy' = Busy \ {s} /\ waits'["scanner"] = Cardinality(Busy')
         /\ waits["scanner"] \in Nat \ {0} /\ waits'["scanner"] \in Nat
         /\ waits["scanner"] = 1 => Busy' = {}
<1>1. Busy' = Busy \ {s}
  BY ZenonT(30) DEF Busy
<1>2. Cardinality(Busy') = Cardinality(Busy) - 1 /\ IsFiniteSet(Busy') /\ Cardinality(Busy') \in Nat
  BY <1>1, BusyFinite, FS_RemoveElement, FS_CardinalityType, ZenonT(30)
<1>3. Cardinality(Busy) \in Nat
  BY BusyFinite, FS_CardinalityType, ZenonT(30)
<1> QED BY <1>1, <1>2, <1>3, FS_EmptySet DEF ScannerTasks

\* The scanner is told of a shard: what is new is live at some time, and complete up
\* to where the shard has come.
LEMMA ToldCovered ==
  ASSUME ScanShape, ScanTypes, Covered, scan.call # "none", NEW s \in Shards,
         NEW keys, keys \subseteq ever, NEW last,
         \A k \in steady : KeyShard[k] = s /\ k <= last => k \in found \cup keys,
         found' = found \cup keys, upto' = [upto EXCEPT ![s] = last],
         map' = map, steady' = steady, ever' = ever, listed' = listed,
         \A t \in Shards : walk'[t] = walk[t] \/ walk'[t] = -1
  PROVE  Covered'
<1>1. Live' = Live
  BY ZenonT(30) DEF Live
<1>2. ScanExact'
  <2>1. found' \subseteq ever'
    BY ZenonT(30) DEF Covered, ScanExact
  <2>2. ASSUME NEW k \in steady', k <= upto'[KeyShard[k]] PROVE k \in found'
    <3>1. k \in steady /\ k \in ScanKey /\ KeyShard[k] \in Shards
      BY <2>2, ScanFacts, ZenonT(30) DEF ScanTypes
    <3>2. CASE KeyShard[k] = s
      <4>1. upto'[s] = last
        BY ZenonT(30) DEF ScanTypes
      <4> QED BY <2>2, <3>1, <3>2, <4>1, ZenonT(30)
    <3>3. CASE KeyShard[k] # s
      <4>1. upto'[KeyShard[k]] = upto[KeyShard[k]]
        BY <3>1, <3>3, ZenonT(30) DEF ScanTypes
      <4> QED BY <2>2, <3>1, <4>1, ZenonT(30) DEF Covered, ScanExact
    <3> QED BY <3>2, <3>3, ZenonT(30)
  <2> QED BY <2>1, <2>2, ZenonT(30) DEF ScanExact
<1>3. ASSUME NEW t \in Shards, walk'[t] # -1
      PROVE  /\ \A k \in listed'[t] : k <= walk'[t]
             /\ \A k \in steady' : KeyShard[k] = t /\ k <= walk'[t] => k \in listed'[t]
  BY <1>3, ZenonT(30) DEF Covered
<1> QED BY <1>1, <1>2, <1>3, ZenonT(30) DEF Covered

\* Nothing that coverage depends on changes.
LEMMA CoveredSame ==
  ASSUME Covered, map' = map, scan' = scan, found' = found, upto' = upto,
         steady' = steady, ever' = ever, listed' = listed, walk' = walk
  PROVE  Covered'
<1>1. Live' = Live
  BY ZenonT(30) DEF Live
<1>2. ScanExact'
  BY ZenonT(30) DEF Covered, ScanExact
<1> QED BY <1>1, <1>2, ZenonT(30) DEF Covered

\* put, del or a batch changes a key: one that is no longer live is no longer steady.
LEMMA ChangedCovered ==
  ASSUME ScanTypes, Covered, NEW k \in ScanKey, NEW to, Changed(k, to),
         scan' = scan, found' = found, upto' = upto, listed' = listed, walk' = walk
  PROVE  Covered'
<1>1. /\ map' = [map EXCEPT ![k] = to]
      /\ steady' = IF to = "live" THEN steady ELSE steady \ {k}
      /\ ever' = IF to = "live" THEN ever \cup {k} ELSE ever
  BY ZenonT(30) DEF Changed
<1>2. \A l \in ScanKey : l \in Live' <=> IF l = k THEN to = "live" ELSE l \in Live
  BY <1>1, ZenonT(30) DEF Live, ScanTypes
<1>3. Live' \subseteq ScanKey
  BY ZenonT(30) DEF Live
<1>4. steady' \subseteq steady /\ ever \subseteq ever'
  BY <1>1, ZenonT(30)
<1>5. steady' \subseteq Live'
  BY <1>1, <1>2, ZenonT(30) DEF Covered, ScanTypes
<1>6. scan.call # "none" => Live' \subseteq ever'
  BY <1>1, <1>2, <1>3, ZenonT(30) DEF Covered
<1>7. ScanExact'
  BY <1>4, ZenonT(30) DEF Covered, ScanExact
<1> QED BY <1>4, <1>5, <1>6, <1>7, ZenonT(30) DEF Covered

\* A scan begins: nothing was told yet, and no key is below 1.
LEMMA BeginCovered ==
  ASSUME ScanShape, ScanTypes, ScannerTasks, Covered,
         NEW call \in {"page", "entries", "keys"}, Begin(call)
  PROVE  Covered'
<1>1. /\ scan.call = "none" /\ steady' = Live /\ ever' = Live
      /\ map' = map /\ walk' = walk /\ listed' = listed /\ found' = found /\ upto' = upto
  BY ZenonT(30) DEF Begin
<1>2. Live' = Live /\ Live \subseteq ScanKey
  BY <1>1, ZenonT(30) DEF Live
<1>3. found = {} /\ \A s \in Shards : upto[s] = 0 /\ listed[s] = {} /\ walk[s] = -1
  BY <1>1, ZenonT(30) DEF ScannerTasks
<1>4. \A k \in Live : KeyShard[k] \in Shards /\ ~ (k <= 0)
  BY <1>2, ScanFacts
<1>5. ScanExact'
  BY <1>1, <1>3, <1>4, ZenonT(30) DEF ScanExact
<1> QED BY <1>1, <1>2, <1>3, <1>5, ZenonT(30) DEF Covered

\* The task of get_prefix_keys_all_shards begins at no key.
LEMMA KeysCovered ==
  ASSUME ScanShape, ScanTypes, ScannerTasks, Covered, NEW s \in Shards, RunKeys(s)
  PROVE  Covered'
<1>1. listed[s] = {}
  BY ScannerTaken, ZenonT(30) DEF RunKeys
<1>2. /\ walk' = [walk EXCEPT ![s] = 0]
      /\ map' = map /\ scan' = scan /\ found' = found /\ upto' = upto
      /\ steady' = steady /\ ever' = ever /\ listed' = listed
  BY ZenonT(30) DEF RunKeys, sVars
<1>3. Live' = Live /\ ScanExact'
  BY <1>2, ZenonT(30) DEF Covered, ScanExact, Live
<1>4. ASSUME NEW t \in Shards, walk'[t] # -1
      PROVE  /\ \A k \in listed'[t] : k <= walk'[t]
             /\ \A k \in steady' : KeyShard[k] = t /\ k <= walk'[t] => k \in listed'[t]
  <2>1. CASE t = s
    <3>1. walk'[s] = 0
      BY <1>2, ZenonT(30) DEF ScanTypes
    <3>2. \A k \in steady : ~ (k <= 0)
      BY ScanFacts DEF ScanTypes
    <3> QED BY <1>1, <1>2, <2>1, <3>1, <3>2, ZenonT(30)
  <2>2. CASE t # s
    <3>1. walk'[t] = walk[t]
      BY <1>2, <2>2, ZenonT(30) DEF ScanTypes
    <3> QED BY <1>2, <1>4, <3>1, ZenonT(30) DEF Covered
  <2> QED BY <2>1, <2>2, ZenonT(30)
<1> QED BY <1>2, <1>3, <1>4, ZenonT(30) DEF Covered

\* It goes to the next key that is in the map: no steady key is passed over.
LEMMA WalkCovered ==
  ASSUME ScanShape, ScanTypes, ScannerTasks, Covered, NEW s \in Shards, WalkOn(s)
  PROVE  Covered'
<1>1. PICK k : k = Min(Ahead(s))
  BY ZenonT(30)
<1>2. /\ walk[s] \in 0 .. Infinity /\ Ahead(s) # {}
      /\ walk' = [walk EXCEPT ![s] = k]
      /\ listed' = IF map[k] = "live" THEN [listed EXCEPT ![s] = @ \cup {k}] ELSE listed
      /\ map' = map /\ scan' = scan /\ found' = found /\ upto' = upto
      /\ steady' = steady /\ ever' = ever
  BY <1>1, ZenonT(30) DEF WalkOn, sVars
<1>3. k \in Ahead(s) /\ \A l \in Ahead(s) : k <= l
  <2>1. Ahead(s) \in SUBSET Nat
    BY ScanFacts, ZenonT(30) DEF Ahead
  <2>2. PICK x \in Ahead(s) : \A y \in Ahead(s) : x <= y
    BY <1>2, <2>1, LeastNumber, ZenonT(30)
  <2> QED BY <1>1, <2>2, ZenonT(30) DEF Min
<1>4. k \in ScanKey /\ k \in Nat /\ k > walk[s] /\ KeyShard[k] = s
  BY <1>3, ScanFacts, ZenonT(30) DEF Ahead
<1>5. scan.call = "keys"
  BY <1>2 DEF ScannerTasks
<1>6. Live' = Live /\ ScanExact'
  BY <1>2, ZenonT(30) DEF Covered, ScanExact, Live
<1>7. /\ walk'[s] = k /\ listed'[s] = IF map[k] = "live" THEN listed[s] \cup {k} ELSE listed[s]
      /\ \A t \in Shards : t # s => walk'[t] = walk[t] /\ listed'[t] = listed[t]
  BY <1>2, ZenonT(30) DEF ScanTypes
<1>8. \A t \in Shards : listed'[t] \subseteq ever'
  <2>1. map[k] = "live" => k \in ever
    BY <1>4, <1>5, ZenonT(30) DEF Covered, Live
  <2> QED BY <1>2, <1>7, <2>1 DEF Covered
<1>9. \A l \in listed'[s] : l <= k
  <2>1. \A l \in listed[s] : l <= walk[s] /\ l \in Nat
    BY <1>2, ScanFacts DEF Covered, ScanTypes
  <2> QED BY <1>2, <1>4, <1>7, <2>1
<1>10. ASSUME NEW l \in steady, KeyShard[l] = s, l <= k PROVE l \in listed'[s]
  <2>1. l \in ScanKey /\ l \in Nat /\ map[l] = "live"
    BY ScanFacts, ZenonT(30) DEF Covered, Live, ScanTypes
  <2>2. CASE l <= walk[s]
    <3>1. l \in listed[s]
      BY <1>2, <1>10, <2>2, SMTT(30) DEF Covered
    <3> QED BY <1>7, <3>1, ZenonT(30)
  <2>3. CASE ~ (l <= walk[s])
    <3>1. l \in Ahead(s)
      BY <1>2, <1>10, <2>1, <2>3 DEF Ahead
    <3>2. l = k
      BY <1>3, <1>4, <1>10, <2>1, <3>1
    <3> QED BY <1>7, <2>1, <3>2, ZenonT(30)
  <2> QED BY <2>2, <2>3, ZenonT(30)
<1>11. ASSUME NEW t \in Shards, walk'[t] # -1
       PROVE  /\ \A l \in listed'[t] : l <= walk'[t]
              /\ \A l \in steady' : KeyShard[l] = t /\ l <= walk'[t] => l \in listed'[t]
  <2>1. CASE t = s
    BY <1>2, <1>7, <1>9, <1>10, <2>1
  <2>2. CASE t # s
    BY <1>2, <1>7, <1>11, <2>2, ZenonT(30) DEF Covered
  <2> QED BY <2>1, <2>2, ZenonT(30)
<1> QED BY <1>2, <1>6, <1>8, <1>11, ZenonT(30) DEF Covered

\* A listing starts on its shard, which still has to answer.
LEMMA KeysScanner ==
  ASSUME ScanShape, ScanTypes, ScannerTasks, NEW s \in Shards, RunKeys(s)
  PROVE  ScannerTasks'
<1>1. /\ Dequeue(s, "scanner", "keys") /\ walk' = [walk EXCEPT ![s] = 0]
      /\ listed' = listed /\ waits' = waits /\ scan' = scan /\ found' = found /\ upto' = upto
  BY ZenonT(30) DEF RunKeys, sVars
<1>2. /\ scan.call = "keys" /\ listed[s] = {} /\ s \in Busy /\ queue'[s]["scanner"] = <<>>
      /\ \A t \in Shards : t # s => queue'[t]["scanner"] = queue[t]["scanner"]
  BY <1>1, ScannerTaken, ZenonT(30)
<1>3. walk'[s] = 0 /\ \A t \in Shards : t # s => walk'[t] = walk[t]
  BY <1>1, ZenonT(30) DEF ScanTypes
<1>4. Busy' = Busy
  BY <1>2, <1>3 DEF Busy
<1> QED BY <1>1, <1>2, <1>3, <1>4, SMTT(30) DEF ScannerTasks

\* The listing goes to its next key; its shard still has to answer.
LEMMA WalkScanner ==
  ASSUME ScanShape, ScanTypes, ScannerTasks, NEW s \in Shards, WalkOn(s)
  PROVE  ScannerTasks'
<1>1. PICK k : k = Min(Ahead(s))
  BY ZenonT(30)
<1>2. /\ walk[s] \in 0 .. Infinity /\ Ahead(s) # {}
      /\ walk' = [walk EXCEPT ![s] = k]
      /\ listed' = IF map[k] = "live" THEN [listed EXCEPT ![s] = @ \cup {k}] ELSE listed
      /\ queue' = queue /\ waits' = waits /\ scan' = scan /\ found' = found /\ upto' = upto
  BY <1>1, ZenonT(30) DEF WalkOn, sVars
<1>3. scan.call = "keys" /\ walk[s] # -1 /\ queue[s]["scanner"] = <<>>
  BY <1>2 DEF ScannerTasks
<1>4. k \in Nat
  <2>1. Ahead(s) \in SUBSET Nat
    BY ScanFacts, ZenonT(30) DEF Ahead
  <2>2. PICK x \in Ahead(s) : \A y \in Ahead(s) : x <= y
    BY <1>2, <2>1, LeastNumber, ZenonT(30)
  <2> QED BY <1>1, <2>1, <2>2, ZenonT(30) DEF Min
<1>5. /\ walk'[s] # -1
      /\ \A t \in Shards : t # s => walk'[t] = walk[t] /\ listed'[t] = listed[t]
  BY <1>2, <1>4 DEF ScanTypes
<1>6. Busy' = Busy
  BY <1>2, <1>3, <1>5, ZenonT(30) DEF Busy
<1> QED BY <1>2, <1>3, <1>5, <1>6, SMTT(30) DEF ScannerTasks

\* A page: complete from its start on, and the scanner had all before.
LEMMA PageStep ==
  ASSUME ScanShape, ScanTypes, ScannerTasks, Covered, NEW s \in Shards, RunPage(s)
  PROVE  ScannerTasks' /\ Covered'
<1>1. Dequeue(s, "scanner", "page")
  BY ZenonT(30) DEF RunPage
<1>2. /\ scan.call = "page" /\ walk[s] = -1 /\ s \in Busy /\ queue'[s]["scanner"] = <<>>
      /\ Head(queue[s]["scanner"]).key = scan.start
      /\ \A t \in Shards : t # s => queue'[t]["scanner"] = queue[t]["scanner"]
  BY <1>1, ScannerTaken, ZenonT(30)
<1>3. s = scan.shard /\ scan.start <= upto[s]
  BY <1>2, ZenonT(30) DEF ScannerTasks
<1>4. PICK page : page = ChunkOf(s, scan.start)
  BY ZenonT(30)
<1>5. /\ Page(s, page)
      /\ waits' = [waits EXCEPT !["scanner"] = @ - 1]
      /\ map' = map /\ walk' = walk /\ listed' = listed /\ steady' = steady /\ ever' = ever
  BY <1>2, <1>4, ZenonT(30) DEF RunPage
<1>6. scan.start \in Nat
  BY ZenonT(30) DEF ScanTypes
<1>7. /\ page.keys \subseteq Live /\ page.upto \in 0 .. Infinity
      /\ \A k \in Live : KeyShard[k] = s /\ scan.start <= k /\ k <= page.upto
                             => k \in page.keys
  BY <1>4, <1>6, ChunkCovers, ZenonT(30)
<1>8. /\ found' = found \cup page.keys
      /\ upto' = [upto EXCEPT ![s] = page.upto]
      /\ scan' = IF page.upto # Infinity THEN [scan EXCEPT !.start = page.upto]
                 ELSE IF \A q \in Shards : q <= s THEN [scan EXCEPT !.call = "done"]
                 ELSE [scan EXCEPT !.shard = Min({q \in Shards : q > s}), !.start = 0]
  BY <1>5, ZenonT(30) DEF Page
<1>9. waits'["scanner"] = waits["scanner"] - 1
  BY <1>5, ZenonT(30) DEF ScanTypes, Caller
<1>10. /\ Busy' = {} /\ waits'["scanner"] = Cardinality(Busy')
  <2>1. Busy' = Busy \ {s} /\ waits'["scanner"] = Cardinality(Busy')
    BY <1>2, <1>5, <1>9, BusyLess, ZenonT(30)
  <2> QED BY <1>2, <1>3, <2>1, ZenonT(30) DEF ScannerTasks
<1>11. upto'[s] = page.upto /\ upto' \in [Shards -> 0 .. Infinity]
  BY <1>7, <1>8, ZenonT(30) DEF ScanTypes
<1>12. /\ scan'.call \in {"page", "done"}
       /\ scan'.call = "page" => scan'.start <= upto'[scan'.shard]
  <2>1. CASE page.upto # Infinity
    <3>1. scan'.call = "page" /\ scan'.start = page.upto /\ scan'.shard = s
      BY <1>2, <1>3, <1>8, <2>1, ZenonT(30) DEF ScanTypes
    <3> QED BY <1>7, <1>11, <3>1, ScanFacts
  <2>2. CASE page.upto = Infinity /\ \A q \in Shards : q <= s
    <3>1. scan'.call = "done"
      BY <1>8, <2>2, ZenonT(30) DEF ScanTypes
    <3> QED BY <3>1, ZenonT(30)
  <2>3. CASE page.upto = Infinity /\ ~ \A q \in Shards : q <= s
    <3>1. {q \in Shards : q > s} # {}
      BY <2>3, ScanFacts
    <3>2. Min({q \in Shards : q > s}) \in Shards
      BY <3>1, ScanFacts, ZenonT(30)
    <3>3. scan'.call = "page" /\ scan'.start = 0 /\ scan'.shard \in Shards
      BY <1>2, <1>8, <2>3, <3>2, ZenonT(30) DEF ScanTypes
    <3>4. upto'[scan'.shard] \in 0 .. Infinity
      BY <1>11, <3>3, ZenonT(30)
    <3> QED BY <3>3, <3>4, ScanFacts
  <2> QED BY <2>1, <2>2, <2>3, ZenonT(30)
<1>13. ScannerTasks'
  <2>1. \A t \in Shards : queue'[t]["scanner"] = <<>> /\ walk'[t] = -1
    BY <1>10, ZenonT(30) DEF Busy
  <2>2. \A t \in Shards : listed'[t] = {}
    BY <1>2, <1>5, ZenonT(30) DEF ScannerTasks
  <2> QED BY <1>10, <1>12, <2>1, <2>2, ZenonT(30) DEF ScannerTasks
<1>14. Covered'
  <2>1. page.keys \subseteq ever
    BY <1>2, <1>7, ZenonT(30) DEF Covered
  <2>2. ASSUME NEW k \in steady, KeyShard[k] = s, k <= page.upto
        PROVE  k \in found \cup page.keys
    <3>1. k \in Live /\ k \in Nat
      BY ScanFacts, ZenonT(30) DEF Covered, ScanTypes
    <3>2. CASE scan.start <= k
      BY <1>7, <2>2, <3>1, <3>2, ZenonT(30)
    <3>3. CASE ~ (scan.start <= k)
      <4>1. k <= upto[s]
        <5>1. upto[s] \in Int
          BY ScanFacts DEF ScanTypes
        <5> QED BY <1>3, <1>6, <3>1, <3>3, <5>1, SMTT(30)
      <4> QED BY <2>2, <4>1, ZenonT(30) DEF Covered, ScanExact
    <3> QED BY <3>2, <3>3, ZenonT(30)
  <2>3. \A t \in Shards : walk'[t] = walk[t]
    BY <1>5, ZenonT(30)
  <2>4. scan.call # "none"
    BY <1>2, ZenonT(30)
  <2> QED BY <1>5, <1>8, <2>1, <2>2, <2>3, <2>4, ToldCovered, ZenonT(30)
<1> QED BY <1>13, <1>14, ZenonT(30)

\* A shard answers a call on all shards; the last answer ends the scan.
LEMMA PartStep ==
  ASSUME ScanShape, ScanTypes, ScannerTasks, Covered, NEW s \in Busy, NEW page,
         Part(s, page), scan.call \in {"entries", "keys"},
         page.keys \subseteq ever, page.upto \in 0 .. Infinity,
         \A k \in steady : KeyShard[k] = s /\ k <= page.upto => k \in page.keys,
         waits' = [waits EXCEPT !["scanner"] = @ - 1],
         queue'[s]["scanner"] = <<>>, walk'[s] = -1,
         \A t \in Shards : t # s => /\ queue'[t]["scanner"] = queue[t]["scanner"]
                                      /\ walk'[t] = walk[t],
         map' = map, listed' = listed, steady' = steady, ever' = ever
  PROVE  ScannerTasks' /\ Covered'
<1>1. /\ found' = found \cup page.keys
      /\ upto' = [upto EXCEPT ![s] = page.upto]
      /\ scan' = IF waits["scanner"] = 1 THEN [scan EXCEPT !.call = "done"] ELSE scan
  BY ZenonT(30) DEF Part
<1>2. waits'["scanner"] = waits["scanner"] - 1 /\ s \in Shards
  BY ZenonT(30) DEF ScanTypes, Caller, Busy
<1>3. /\ Busy' = Busy \ {s} /\ waits'["scanner"] = Cardinality(Busy')
      /\ waits["scanner"] = 1 => Busy' = {}
  BY <1>2, BusyLess, ZenonT(30)
<1>4. ScannerTasks'
  <2>1. CASE waits["scanner"] = 1
    <3>1. scan'.call = "done" /\ Busy' = {}
      BY <1>1, <1>3, <2>1, ZenonT(30) DEF ScanTypes
    <3>2. \A t \in Shards : queue'[t]["scanner"] = <<>> /\ walk'[t] = -1
      BY <3>1, ZenonT(30) DEF Busy
    <3> QED BY <1>3, <3>1, <3>2, ZenonT(30) DEF ScannerTasks
  <2>2. CASE waits["scanner"] # 1
    <3>1. scan' = scan
      BY <1>1, <2>2, ZenonT(30)
    <3>2. \A t \in Shards : walk'[t] # -1 => scan'.call = "keys"
      BY <3>1, ZenonT(30) DEF ScannerTasks
    <3>3. ASSUME NEW t \in Shards, queue'[t]["scanner"] # <<>>
          PROVE  /\ Len(queue'[t]["scanner"]) = 1 /\ walk'[t] = -1 /\ listed'[t] = {}
                 /\ queue'[t]["scanner"][1].op = scan'.call
      BY <3>1, <3>3 DEF ScannerTasks
    <3> QED BY <1>3, <3>1, <3>2, <3>3, ZenonT(30) DEF ScannerTasks
  <2> QED BY <2>1, <2>2, ZenonT(30)
<1>5. Covered'
  <2>1. \A t \in Shards : walk'[t] = walk[t] \/ walk'[t] = -1
    BY ZenonT(30)
  <2>2. \A k \in steady : KeyShard[k] = s /\ k <= page.upto => k \in found \cup page.keys
    BY ZenonT(30)
  <2>3. scan.call # "none"
    BY ZenonT(30)
  <2> QED BY <1>1, <1>2, <2>1, <2>2, <2>3, ToldCovered, ZenonT(30)
<1> QED BY <1>4, <1>5, ZenonT(30)

\* get_prefix_entries_all_shards: a shard answers with its first page.
LEMMA EntriesStep ==
  ASSUME ScanShape, ScanTypes, ScannerTasks, Covered, NEW s \in Shards,
         RunEntries(s)
  PROVE  ScannerTasks' /\ Covered'
<1>1. Dequeue(s, "scanner", "entries")
  BY ZenonT(30) DEF RunEntries
<1>2. /\ scan.call = "entries" /\ walk[s] = -1 /\ s \in Busy /\ queue'[s]["scanner"] = <<>>
      /\ \A t \in Shards : t # s => queue'[t]["scanner"] = queue[t]["scanner"]
  BY <1>1, ScannerTaken, ZenonT(30)
<1>3. PICK page : page = ChunkOf(s, 0)
  BY ZenonT(30)
<1>4. /\ Part(s, page)
      /\ waits' = [waits EXCEPT !["scanner"] = @ - 1]
      /\ map' = map /\ walk' = walk /\ listed' = listed /\ steady' = steady /\ ever' = ever
  BY <1>3, ZenonT(30) DEF RunEntries
<1>5. /\ page.keys \subseteq Live /\ page.upto \in 0 .. Infinity
      /\ \A k \in Live : KeyShard[k] = s /\ 0 <= k /\ k <= page.upto => k \in page.keys
  BY <1>3, ChunkCovers, ZenonT(30)
<1>6. page.keys \subseteq ever
  BY <1>2, <1>5, ZenonT(30) DEF Covered
<1>7. \A k \in steady : KeyShard[k] = s /\ k <= page.upto => k \in page.keys
  <2>1. \A k \in steady : k \in Live /\ 0 <= k
    BY ScanFacts DEF Covered, ScanTypes
  <2> QED BY <1>5, <2>1, ZenonT(30)
<1> QED BY <1>2, <1>4, <1>5, <1>6, <1>7, PartStep, SMTT(30)

\* get_prefix_keys_all_shards: a shard has no key ahead, or has listed Limit keys.
LEMMA EndsStep ==
  ASSUME ScanShape, ScanTypes, ScannerTasks, Covered, NEW s \in Shards, WalkEnds(s)
  PROVE  ScannerTasks' /\ Covered'
<1>1. PICK page : page = [keys |-> listed[s],
                          upto |-> IF Cardinality(listed[s]) < Limit THEN Infinity
                                   ELSE Max(listed[s])]
  BY ZenonT(30)
<1>2. /\ walk[s] \in 0 .. Infinity
      /\ Ahead(s) = {} \/ Cardinality(listed[s]) >= Limit
      /\ Part(s, page) /\ walk' = [walk EXCEPT ![s] = -1]
      /\ waits' = [waits EXCEPT !["scanner"] = @ - 1]
      /\ map' = map /\ queue' = queue /\ listed' = listed /\ steady' = steady /\ ever' = ever
  BY <1>1, ZenonT(30) DEF WalkEnds
<1>3. scan.call = "keys" /\ s \in Busy /\ queue[s]["scanner"] = <<>>
  <2>1. walk[s] # -1
    BY <1>2
  <2>2. scan.call = "keys" /\ queue[s]["scanner"] = <<>>
    BY <2>1, ZenonT(30) DEF ScannerTasks
  <2> QED BY <2>1, <2>2, ZenonT(30) DEF Busy
<1>4. /\ walk'[s] = -1
      /\ \A t \in Shards : t # s => walk'[t] = walk[t]
  BY <1>2, ZenonT(30) DEF ScanTypes
<1>5. listed[s] \in SUBSET ScanKey /\ Cardinality(listed[s]) \in Nat /\ Limit \in Nat \ {0}
  BY KeySet, ZenonT(30) DEF ScanTypes, ScanShape
<1>6. \A k \in steady : k \in ScanKey /\ k \in Nat /\ map[k] = "live"
  BY ScanFacts, ZenonT(30) DEF Covered, ScanTypes, Live
<1>7. /\ page.upto \in 0 .. Infinity
      /\ \A k \in steady : KeyShard[k] = s /\ k <= page.upto => k \in listed[s]
  <2>1. CASE Cardinality(listed[s]) < Limit
    <3>1. page.upto = Infinity /\ Ahead(s) = {}
      BY <1>1, <1>2, <1>5, <2>1, SMTT(30)
    <3>2. ASSUME NEW k \in steady, KeyShard[k] = s PROVE k \in listed[s]
      <4>1. ~ (k > walk[s])
        BY <1>6, <3>1, <3>2, ZenonT(30) DEF Ahead
      <4>2. k <= walk[s]
        BY <1>2, <1>6, <4>1
      <4> QED BY <1>2, <3>2, <4>2, SMTT(30) DEF Covered
    <3> QED BY <3>1, <3>2, ScanFacts
  <2>2. CASE ~ (Cardinality(listed[s]) < Limit)
    <3>1. listed[s] # {}
      BY <1>5, <2>2, FS_EmptySet
    <3>2. page.upto = Max(listed[s])
      BY <1>1, <2>2, ZenonT(30)
    <3>3. page.upto \in listed[s]
      BY <1>5, <3>1, <3>2, KeySet, ZenonT(30)
    <3>4. page.upto <= walk[s] /\ page.upto \in Nat /\ page.upto < Infinity
      BY <1>2, <1>5, <3>3, ScanFacts, SMTT(30) DEF Covered
    <3>5. ASSUME NEW k \in steady, KeyShard[k] = s, k <= page.upto PROVE k \in listed[s]
      <4>1. k <= walk[s]
        BY <1>2, <1>6, <3>4, <3>5
      <4> QED BY <1>2, <3>5, <4>1 DEF Covered
    <3> QED BY <3>4, <3>5, ScanFacts
  <2> QED BY <2>1, <2>2, ZenonT(30)
<1>8. page.keys = listed[s] /\ page.keys \subseteq ever
  BY <1>1, ZenonT(30) DEF Covered
<1> QED BY <1>2, <1>3, <1>4, <1>7, <1>8, PartStep, ZenonT(30)

\* The two callers.
LEMMA Callers == "writer" \in Caller /\ "scanner" \in Caller /\ "writer" # "scanner"
BY ZenonT(30) DEF Caller

\* The writer gives tasks to shards; the scans do not see it.
LEMMA WriterAsks ==
  ASSUME ScanShape, ScanIInv, waits["writer"] = 0,
         NEW ss \in SUBSET Shards, NEW task \in Task, NEW n \in Nat,
         Submit("writer", ss, task, n),
         task.op \in {"put", "del", "batch", "nothing"},
         task.op # "nothing" => task.key \in ScanKey,
         n = IF task.op = "batch" THEN 0 ELSE Cardinality(ss),
         flushed' = 1 => ss = Shards /\ task.op # "batch",
         map' = map, walk' = walk, listed' = listed, scan' = scan, found' = found,
         upto' = upto, steady' = steady, ever' = ever, scanWrites' \in 0 .. MaxScanWrites
  PROVE  ScanIInv'
<1>1. WriterTasks'
  BY WriterSubmits, ZenonT(30) DEF ScanIInv
<1>2. /\ queue' \in Queues /\ waits' \in [Caller -> Nat]
      /\ NotQueued("scanner")
  BY Submitted, Callers, ZenonT(30) DEF ScanIInv
<1>3. ScanTypes'
  BY <1>2, ZenonT(30) DEF ScanIInv, ScanTypes
<1>4. ScannerTasks'
  BY <1>2, ScannerSame, ZenonT(30) DEF ScanIInv, NotQueued
<1>5. Covered'
  BY CoveredSame, ZenonT(30) DEF ScanIInv
<1> QED BY <1>1, <1>3, <1>4, <1>5, ZenonT(30) DEF ScanIInv

\* put, del and batch_put.
LEMMA WriteStep ==
  ASSUME ScanShape, ScanIInv, NEW op \in {"put", "del", "batch"}, NEW k \in ScanKey,
         Write(op, k)
  PROVE  ScanIInv'
<1>1. PICK task \in Task : task = [op |-> op, key |-> k]
  BY ScanFacts, ZenonT(30) DEF Task
<1>2. PICK ss \in SUBSET Shards : \E s \in Shards :
             ss = {s} /\ s = IF op = "put" THEN EmptyShard ELSE KeyShard[k]
  BY ScanFacts, ZenonT(30)
<1>3. PICK n \in Nat : n = IF op = "batch" THEN 0 ELSE 1
  BY ZenonT(30)
<1>4. /\ Submit("writer", ss, task, n) /\ waits["writer"] = 0 /\ flushed' = 0
      /\ scanWrites < MaxScanWrites /\ scanWrites' = scanWrites + 1
      /\ map' = map /\ walk' = walk /\ listed' = listed /\ scan' = scan /\ found' = found
      /\ upto' = upto /\ steady' = steady /\ ever' = ever
  BY <1>1, <1>2, <1>3, ZenonT(30) DEF Write, sVars
<1>5. task.op = op /\ task.key = k
  BY <1>1, ZenonT(30)
<1>6. Cardinality(ss) = 1
  BY <1>2, FS_Singleton, ZenonT(30)
<1>7. scanWrites' \in 0 .. MaxScanWrites
  BY <1>4 DEF ScanIInv, ScanTypes, ScanShape
<1>8. n = IF task.op = "batch" THEN 0 ELSE Cardinality(ss)
  BY <1>3, <1>5, <1>6, ZenonT(30)
<1> QED BY <1>4, <1>5, <1>7, <1>8, WriterAsks

\* wait_all_shards: a task for every shard, and all of them are waited for.
LEMMA WaitStep ==
  ASSUME ScanShape, ScanIInv, wait_all_shards
  PROVE  ScanIInv'
<1>1. PICK task \in Task : task = [op |-> "nothing", key |-> 0]
  BY ZenonT(30) DEF Task
<1>2. PICK ss \in SUBSET Shards, n \in Nat : ss = Shards /\ n = Cardinality(Shards)
  BY ScanFacts, FS_CardinalityType, ZenonT(30)
<1>3. /\ Submit("writer", ss, task, n) /\ waits["writer"] = 0
      /\ scanWrites' = scanWrites
      /\ map' = map /\ walk' = walk /\ listed' = listed /\ scan' = scan /\ found' = found
      /\ upto' = upto /\ steady' = steady /\ ever' = ever
  BY <1>1, <1>2, ZenonT(30) DEF wait_all_shards, sVars
<1>4. task.op = "nothing"
  BY <1>1, ZenonT(30)
<1>5. scanWrites' \in 0 .. MaxScanWrites
  BY <1>3, ZenonT(30) DEF ScanIInv, ScanTypes
<1> QED BY <1>2, <1>3, <1>4, <1>5, WriterAsks, ZenonT(30)

\* The scanner asks for a page; the writer does not see it.
LEMMA AskStep ==
  ASSUME ScanShape, ScanIInv, AskPage
  PROVE  ScanIInv'
<1>1. PICK task \in Task, n \in Nat, ss \in SUBSET Shards :
             task = [op |-> "page", key |-> scan.start] /\ n = 1 /\ ss = {scan.shard}
  BY ZenonT(30) DEF Task, ScanIInv, ScanTypes
<1>2. /\ Submit("scanner", ss, task, n) /\ flushed' = flushed /\ scanWrites' = scanWrites
      /\ map' = map /\ walk' = walk /\ listed' = listed /\ scan' = scan /\ found' = found
      /\ upto' = upto /\ steady' = steady /\ ever' = ever
  BY <1>1, ZenonT(30) DEF AskPage, sVars
<1>3. /\ queue' \in Queues /\ waits' \in [Caller -> Nat]
      /\ NotQueued("writer")
  BY <1>2, Submitted, Callers, ZenonT(30) DEF ScanIInv
<1>4. ScanTypes'
  BY <1>2, <1>3, ZenonT(30) DEF ScanIInv, ScanTypes
<1>5. WriterTasks'
  BY <1>2, <1>3, WriterSame, ZenonT(30) DEF ScanIInv, NotQueued
<1>6. ScannerTasks'
  BY AskScanner, ZenonT(30) DEF ScanIInv
<1>7. Covered'
  BY <1>2, CoveredSame, ZenonT(30) DEF ScanIInv
<1> QED BY <1>4, <1>5, <1>6, <1>7, ZenonT(30) DEF ScanIInv

\* A scan begins; the writer does not see it.
LEMMA BeginStep ==
  ASSUME ScanShape, ScanIInv, NEW call \in {"page", "entries", "keys"}, Begin(call)
  PROVE  ScanIInv'
<1>1. /\ scan' = [call |-> call, shard |-> Min(Shards), start |-> 0]
      /\ steady' = Live /\ ever' = Live /\ flushed' = flushed /\ scanWrites' = scanWrites
      /\ map' = map /\ walk' = walk /\ listed' = listed /\ found' = found /\ upto' = upto
  BY ZenonT(30) DEF Begin
<1>2. /\ queue' \in Queues /\ waits' \in [Caller -> Nat]
      /\ NotQueued("writer")
  <2>1. CASE call = "page"
    BY <2>1, ZenonT(30) DEF Begin, ScanIInv, ScanTypes, NotQueued
  <2>2. CASE call # "page"
    <3>1. PICK task \in Task, n \in Nat, ss \in SUBSET Shards :
             task = [op |-> call, key |-> 0] /\ n = Cardinality(Shards) /\ ss = Shards
      BY ScanFacts, FS_CardinalityType, ZenonT(30) DEF Task
    <3>2. Submit("scanner", ss, task, n)
      BY <2>2, <3>1, ZenonT(30) DEF Begin
    <3> QED BY <3>2, Submitted, Callers, ZenonT(30) DEF ScanIInv
  <2> QED BY <2>1, <2>2, ZenonT(30)
<1>3. ScanTypes'
  <2>1. Min(Shards) \in Shards
    BY ScanFacts, ZenonT(30)
  <2>2. scan' \in [call : {"none", "page", "entries", "keys", "done"}, shard : Shards,
                   start : Nat]
    BY <1>1, <2>1, ZenonT(30)
  <2>3. Live \subseteq ScanKey
    BY ZenonT(30) DEF Live
  <2> QED BY <1>1, <1>2, <2>2, <2>3, ZenonT(30) DEF ScanIInv, ScanTypes
<1>4. WriterTasks'
  BY <1>1, <1>2, WriterSame, ZenonT(30) DEF ScanIInv, NotQueued
<1>5. ScannerTasks' /\ Covered'
  BY BeginScanner, BeginCovered, ZenonT(30) DEF ScanIInv
<1> QED BY <1>3, <1>4, <1>5, ZenonT(30) DEF ScanIInv

\* The futures are counted by the tasks, so there are never less than none.
LEMMA WaitsTyped ==
  ASSUME ScanShape, ScanTypes, WriterTasks', ScannerTasks', NEW c, NEW n,
         waits' = [waits EXCEPT ![c] = n]
  PROVE  waits' \in [Caller -> Nat]
<1>1. IsFiniteSet(Busy') /\ IsFiniteSet(Answering')
  <2>1. Busy' \in SUBSET Shards /\ Answering' \in SUBSET Shards
    BY ZenonT(30) DEF Busy, Answering
  <2> QED BY <2>1, ScanFacts, FS_Subset, ZenonT(30)
<1>2. waits'["writer"] \in Nat /\ waits'["scanner"] \in Nat
  BY <1>1, FS_CardinalityType, SMTT(30) DEF WriterTasks, ScannerTasks
<1> QED BY <1>2, ZenonT(30) DEF ScanTypes, Caller

\* The thread of a shard runs a task of the writer.
LEMMA RunWriteStep ==
  ASSUME ScanShape, ScanIInv, NEW s \in Shards, NEW op \in {"put", "del", "batch"},
         RunWrite(s, op)
  PROVE  ScanIInv'
<1>1. PICK k, to : /\ k = Head(queue[s]["writer"]).key
                   /\ to = IF op = "del" THEN "empty" ELSE "live"
  BY ZenonT(30)
<1>2. /\ Dequeue(s, "writer", op) /\ Changed(k, to)
      /\ waits' = [waits EXCEPT !["writer"] = IF op = "batch" THEN @ ELSE @ - 1]
      /\ walk' = walk /\ listed' = listed /\ scan' = scan /\ found' = found /\ upto' = upto
      /\ flushed' = flushed /\ scanWrites' = scanWrites
  BY <1>1, ZenonT(30) DEF RunWrite, sVars
<1>3. /\ queue' \in Queues /\ queue[s]["writer"][1].op = op
      /\ k = queue[s]["writer"][1].key /\ 1 \in 1 .. Len(queue[s]["writer"])
      /\ \A t \in Shards : queue'[t]["scanner"] = queue[t]["scanner"]
  BY <1>1, <1>2, Dequeued, Callers DEF ScanIInv
<1>4. k \in ScanKey
  BY <1>3, ZenonT(30) DEF ScanIInv, WriterTasks
<1>5. /\ op = "batch" => waits'["writer"] = waits["writer"]
      /\ op # "batch" => waits'["writer"] = waits["writer"] - 1
      /\ waits'["scanner"] = waits["scanner"]
  BY <1>2, Callers, ZenonT(30) DEF ScanIInv, ScanTypes
<1>6. WriterTasks'
  BY <1>2, <1>5, WriterTaken, ZenonT(30) DEF ScanIInv
<1>7. ScannerTasks'
  BY <1>2, <1>3, <1>5, ScannerSame, ZenonT(30) DEF ScanIInv
<1>8. Covered'
  BY <1>2, <1>4, ChangedCovered, ZenonT(30) DEF ScanIInv
<1>9. waits' \in [Caller -> Nat]
  BY <1>2, <1>6, <1>7, WaitsTyped, ZenonT(30) DEF ScanIInv
<1>10. map' \in [ScanKey -> {"absent", "live", "empty"}] /\ steady' \subseteq ever'
       /\ ever' \subseteq ScanKey
  <2>1. to \in {"live", "empty"}
    BY <1>1, ZenonT(30)
  <2> QED BY <1>2, <1>4, <2>1, ZenonT(30) DEF Changed, ScanIInv, ScanTypes
<1>11. ScanTypes'
  BY <1>2, <1>3, <1>9, <1>10, ZenonT(30) DEF ScanIInv, ScanTypes
<1> QED BY <1>6, <1>7, <1>8, <1>11, ZenonT(30) DEF ScanIInv

\* The thread of a shard comes to the task of wait_all_shards.
LEMMA RunNothingStep ==
  ASSUME ScanShape, ScanIInv, NEW s \in Shards, RunNothing(s)
  PROVE  ScanIInv'
<1>1. /\ Dequeue(s, "writer", "nothing")
      /\ waits' = [waits EXCEPT !["writer"] = @ - 1]
      /\ map' = map /\ walk' = walk /\ listed' = listed /\ scan' = scan /\ found' = found
      /\ upto' = upto /\ steady' = steady /\ ever' = ever
      /\ flushed' = flushed /\ scanWrites' = scanWrites
  BY ZenonT(30) DEF RunNothing, sVars
<1>2. /\ queue' \in Queues
      /\ \A t \in Shards : queue'[t]["scanner"] = queue[t]["scanner"]
  BY <1>1, Dequeued, Callers, SMTT(30) DEF ScanIInv
<1>3. waits'["writer"] = waits["writer"] - 1 /\ waits'["scanner"] = waits["scanner"]
  BY <1>1, Callers, ZenonT(30) DEF ScanIInv, ScanTypes
<1>4. WriterTasks'
  BY <1>1, <1>3, WriterTaken, ZenonT(30) DEF ScanIInv
<1>5. ScannerTasks'
  BY <1>1, <1>2, <1>3, ScannerSame, ZenonT(30) DEF ScanIInv
<1>6. Covered'
  BY <1>1, CoveredSame, ZenonT(30) DEF ScanIInv
<1>7. waits' \in [Caller -> Nat]
  BY <1>1, <1>4, <1>5, WaitsTyped, ZenonT(30) DEF ScanIInv
<1>8. ScanTypes'
  BY <1>1, <1>2, <1>7, ZenonT(30) DEF ScanIInv, ScanTypes
<1> QED BY <1>4, <1>5, <1>6, <1>8, ZenonT(30) DEF ScanIInv

\* A shard answers the scanner; the writer does not see it.
LEMMA AnswerStep ==
  ASSUME ScanShape, ScanIInv, ScannerTasks', Covered', NEW s \in Shards,
         NEW last \in 0 .. Infinity, upto' = [upto EXCEPT ![s] = last],
         waits' = [waits EXCEPT !["scanner"] = @ - 1],
         queue' \in Queues, \A t \in Shards : queue'[t]["writer"] = queue[t]["writer"],
         scan' \in [call : {"none", "page", "entries", "keys", "done"}, shard : Shards,
                    start : Nat],
         walk' \in [Shards -> {-1, 0} \cup ScanKey],
         map' = map, listed' = listed, steady' = steady, ever' = ever,
         flushed' = flushed, scanWrites' = scanWrites
  PROVE  ScanIInv'
<1>1. waits'["writer"] = waits["writer"]
  BY Callers, ZenonT(30) DEF ScanIInv, ScanTypes
<1>2. WriterTasks'
  BY <1>1, WriterSame, ZenonT(30) DEF ScanIInv
<1>3. waits' \in [Caller -> Nat]
  BY <1>2, WaitsTyped, ZenonT(30) DEF ScanIInv
<1>4. upto' \in [Shards -> 0 .. Infinity]
  BY ZenonT(30) DEF ScanIInv, ScanTypes
<1>5. found' \subseteq ScanKey
  BY ZenonT(30) DEF ScanIInv, ScanTypes, Covered, ScanExact
<1>6. ScanTypes'
  BY <1>3, <1>4, <1>5, ZenonT(30) DEF ScanIInv, ScanTypes
<1> QED BY <1>2, <1>6, ZenonT(30) DEF ScanIInv

\* get_prefix_chunk and get_prefix_keys: a shard answers with a page.
LEMMA RunPageStep ==
  ASSUME ScanShape, ScanIInv, NEW s \in Shards, RunPage(s)
  PROVE  ScanIInv'
<1>1. ScannerTasks' /\ Covered'
  BY PageStep, ZenonT(30) DEF ScanIInv
<1>2. PICK start, page : start = Head(queue[s]["scanner"]).key /\ page = ChunkOf(s, start)
  BY ZenonT(30)
<1>3. /\ Dequeue(s, "scanner", "page") /\ Page(s, page)
      /\ waits' = [waits EXCEPT !["scanner"] = @ - 1]
      /\ map' = map /\ walk' = walk /\ listed' = listed /\ steady' = steady /\ ever' = ever
      /\ flushed' = flushed /\ scanWrites' = scanWrites
  BY <1>2, ZenonT(30) DEF RunPage
<1>4. queue' \in Queues /\ \A t \in Shards : queue'[t]["writer"] = queue[t]["writer"]
  BY <1>3, Dequeued, Callers, SMTT(30) DEF ScanIInv
<1>5. start \in Nat
  BY <1>2, <1>3, ScannerTaken, ZenonT(30) DEF ScanIInv
<1>6. page.upto \in 0 .. Infinity /\ page.upto \in Nat
  BY <1>2, <1>5, ChunkCovers, ScanFacts, SMTT(30)
<1>7. PICK next : next = Min({q \in Shards : q > s})
  BY ZenonT(30)
<1>8. /\ upto' = [upto EXCEPT ![s] = page.upto]
      /\ scan' = IF page.upto # Infinity THEN [scan EXCEPT !.start = page.upto]
                 ELSE IF \A q \in Shards : q <= s THEN [scan EXCEPT !.call = "done"]
                 ELSE [scan EXCEPT !.shard = next, !.start = 0]
  BY <1>3, <1>7, ZenonT(30) DEF Page
<1>9. (~ \A q \in Shards : q <= s) => next \in Shards
  <2>1. (~ \A q \in Shards : q <= s) => {q \in Shards : q > s} # {}
    BY ScanFacts
  <2> QED BY <1>7, <2>1, ScanFacts, ZenonT(30)
<1>10. scan' \in [call : {"none", "page", "entries", "keys", "done"}, shard : Shards,
                  start : Nat]
  BY <1>6, <1>8, <1>9, ZenonT(30) DEF ScanIInv, ScanTypes
<1>11. walk' \in [Shards -> {-1, 0} \cup ScanKey]
  BY <1>3, ZenonT(30) DEF ScanIInv, ScanTypes
<1> QED BY <1>1, <1>3, <1>4, <1>6, <1>8, <1>10, <1>11, AnswerStep, ZenonT(30)

\* get_prefix_entries_all_shards: a shard answers.
LEMMA RunEntriesStep ==
  ASSUME ScanShape, ScanIInv, NEW s \in Shards, RunEntries(s)
  PROVE  ScanIInv'
<1>1. ScannerTasks' /\ Covered'
  BY EntriesStep, ZenonT(30) DEF ScanIInv
<1>2. PICK page : page = ChunkOf(s, 0)
  BY ZenonT(30)
<1>3. /\ Dequeue(s, "scanner", "entries") /\ Part(s, page)
      /\ waits' = [waits EXCEPT !["scanner"] = @ - 1]
      /\ map' = map /\ walk' = walk /\ listed' = listed /\ steady' = steady /\ ever' = ever
      /\ flushed' = flushed /\ scanWrites' = scanWrites
  BY <1>2, ZenonT(30) DEF RunEntries
<1>4. queue' \in Queues /\ \A t \in Shards : queue'[t]["writer"] = queue[t]["writer"]
  BY <1>3, Dequeued, Callers, SMTT(30) DEF ScanIInv
<1>5. page.upto \in 0 .. Infinity
  BY <1>2, ChunkCovers, ZenonT(30)
<1>6. /\ upto' = [upto EXCEPT ![s] = page.upto]
      /\ scan' = IF waits["scanner"] = 1 THEN [scan EXCEPT !.call = "done"] ELSE scan
  BY <1>3, ZenonT(30) DEF Part
<1>7. scan' \in [call : {"none", "page", "entries", "keys", "done"}, shard : Shards,
                 start : Nat]
  BY <1>6, ZenonT(30) DEF ScanIInv, ScanTypes
<1>8. walk' \in [Shards -> {-1, 0} \cup ScanKey]
  BY <1>3, ZenonT(30) DEF ScanIInv, ScanTypes
<1> QED BY <1>1, <1>3, <1>4, <1>5, <1>6, <1>7, <1>8, AnswerStep, ZenonT(30)

\* get_prefix_keys_all_shards: a shard begins to list.
LEMMA RunKeysStep ==
  ASSUME ScanShape, ScanIInv, NEW s \in Shards, RunKeys(s)
  PROVE  ScanIInv'
<1>1. ScannerTasks' /\ Covered'
  BY KeysScanner, KeysCovered, ZenonT(30) DEF ScanIInv
<1>2. /\ Dequeue(s, "scanner", "keys") /\ walk' = [walk EXCEPT ![s] = 0]
      /\ map' = map /\ listed' = listed /\ waits' = waits /\ scan' = scan /\ found' = found
      /\ upto' = upto /\ steady' = steady /\ ever' = ever
      /\ flushed' = flushed /\ scanWrites' = scanWrites
  BY ZenonT(30) DEF RunKeys, sVars
<1>3. queue' \in Queues /\ \A t \in Shards : queue'[t]["writer"] = queue[t]["writer"]
  BY <1>2, Dequeued, Callers, SMTT(30) DEF ScanIInv
<1>4. WriterTasks'
  BY <1>2, <1>3, WriterSame, ZenonT(30) DEF ScanIInv
<1>5. ScanTypes'
  BY <1>2, <1>3, ZenonT(30) DEF ScanIInv, ScanTypes
<1> QED BY <1>1, <1>4, <1>5, ZenonT(30) DEF ScanIInv

\* It goes on to the next key of the map.
LEMMA WalkOnStep ==
  ASSUME ScanShape, ScanIInv, NEW s \in Shards, WalkOn(s)
  PROVE  ScanIInv'
<1>1. ScannerTasks' /\ Covered'
  BY WalkScanner, WalkCovered, ZenonT(30) DEF ScanIInv
<1>2. PICK k : k = Min(Ahead(s))
  BY ZenonT(30)
<1>3. /\ Ahead(s) # {} /\ walk' = [walk EXCEPT ![s] = k]
      /\ listed' = IF map[k] = "live" THEN [listed EXCEPT ![s] = @ \cup {k}] ELSE listed
      /\ map' = map /\ queue' = queue /\ waits' = waits /\ scan' = scan /\ found' = found
      /\ upto' = upto /\ steady' = steady /\ ever' = ever
      /\ flushed' = flushed /\ scanWrites' = scanWrites
  BY <1>2, ZenonT(30) DEF WalkOn, sVars
<1>4. k \in ScanKey
  <2>1. Ahead(s) \in SUBSET Nat /\ Ahead(s) \subseteq ScanKey
    BY ScanFacts, ZenonT(30) DEF Ahead
  <2>2. PICK x \in Ahead(s) : \A y \in Ahead(s) : x <= y
    BY <1>3, <2>1, LeastNumber, ZenonT(30)
  <2>3. k \in Ahead(s)
    BY <1>2, <2>2, ZenonT(30) DEF Min
  <2> QED BY <2>1, <2>3, ZenonT(30)
<1>5. WriterTasks'
  BY <1>3, WriterSame, ZenonT(30) DEF ScanIInv
<1>6. ScanTypes'
  BY <1>3, <1>4, ZenonT(30) DEF ScanIInv, ScanTypes
<1> QED BY <1>1, <1>5, <1>6, ZenonT(30) DEF ScanIInv

\* It answers with what it has listed.
LEMMA WalkEndsStep ==
  ASSUME ScanShape, ScanIInv, NEW s \in Shards, WalkEnds(s)
  PROVE  ScanIInv'
<1>1. ScannerTasks' /\ Covered'
  BY EndsStep, ZenonT(30) DEF ScanIInv
<1>2. PICK page : page = [keys |-> listed[s],
                          upto |-> IF Cardinality(listed[s]) < Limit THEN Infinity
                                   ELSE Max(listed[s])]
  BY ZenonT(30)
<1>3. /\ Part(s, page) /\ walk' = [walk EXCEPT ![s] = -1]
      /\ waits' = [waits EXCEPT !["scanner"] = @ - 1]
      /\ map' = map /\ queue' = queue /\ listed' = listed /\ steady' = steady /\ ever' = ever
      /\ flushed' = flushed /\ scanWrites' = scanWrites
  BY <1>2, ZenonT(30) DEF WalkEnds
<1>4. queue' \in Queues /\ \A t \in Shards : queue'[t]["writer"] = queue[t]["writer"]
  BY <1>3, ZenonT(30) DEF ScanIInv, ScanTypes
<1>5. page.upto \in 0 .. Infinity
  <2>1. listed[s] \in SUBSET ScanKey /\ Cardinality(listed[s]) \in Nat /\ Limit \in Nat \ {0}
    BY KeySet, ZenonT(30) DEF ScanIInv, ScanTypes, ScanShape
  <2>2. CASE Cardinality(listed[s]) < Limit
    BY <1>2, <2>2, ScanFacts, SMTT(30)
  <2>3. CASE ~ (Cardinality(listed[s]) < Limit)
    <3>1. listed[s] # {}
      BY <2>1, <2>3, FS_EmptySet, SMTT(30)
    <3>2. Max(listed[s]) \in ScanKey
      BY <2>1, <3>1, KeySet, ZenonT(30)
    <3> QED BY <1>2, <2>3, <3>2, ScanFacts, SMTT(30)
  <2> QED BY <2>2, <2>3, ZenonT(30)
<1>6. /\ upto' = [upto EXCEPT ![s] = page.upto]
      /\ scan' = IF waits["scanner"] = 1 THEN [scan EXCEPT !.call = "done"] ELSE scan
  BY <1>3, ZenonT(30) DEF Part
<1>7. scan' \in [call : {"none", "page", "entries", "keys", "done"}, shard : Shards,
                 start : Nat]
  BY <1>6, ZenonT(30) DEF ScanIInv, ScanTypes
<1>8. walk' \in [Shards -> {-1, 0} \cup ScanKey]
  BY <1>3, ZenonT(30) DEF ScanIInv, ScanTypes
<1> QED BY <1>1, <1>3, <1>4, <1>5, <1>6, <1>7, <1>8, AnswerStep, ZenonT(30)

\* Before any call there are no tasks and nothing was told.
LEMMA InitHolds == ASSUME ScanShape, ScanInit PROVE ScanIInv
<1>1. /\ map \in [ScanKey -> {"absent", "live"}]
      /\ queue = [s \in Shards |-> [c \in Caller |-> <<>>]]
      /\ walk = [s \in Shards |-> -1] /\ listed = [s \in Shards |-> {}]
      /\ waits = [c \in Caller |-> 0]
      /\ scan = [call |-> "none", shard |-> EmptyShard, start |-> 0]
      /\ found = {} /\ upto = [s \in Shards |-> 0] /\ steady = {} /\ ever = {}
      /\ flushed = 0 /\ scanWrites = 0
  BY ZenonT(30) DEF ScanInit
<1>2. ScanTypes
  <2>1. queue \in Queues
    BY <1>1 DEF Queues
  <2>2. scan \in [call : {"none", "page", "entries", "keys", "done"}, shard : Shards,
                  start : Nat]
    BY <1>1, ScanFacts, ZenonT(30)
  <2>3. upto \in [Shards -> 0 .. Infinity]
    BY <1>1, ScanFacts
  <2>4. scanWrites \in 0 .. MaxScanWrites
    BY <1>1 DEF ScanShape
  <2>5. /\ map \in [ScanKey -> {"absent", "live", "empty"}]
        /\ waits \in [Caller -> Nat]
        /\ walk \in [Shards -> {-1, 0} \cup ScanKey]
        /\ listed \in [Shards -> SUBSET ScanKey]
    BY <1>1, ZenonT(30)
  <2> QED BY <1>1, <2>1, <2>2, <2>3, <2>4, <2>5, ZenonT(30) DEF ScanTypes
<1>3. \A s \in Shards : /\ queue[s]["writer"] = <<>> /\ queue[s]["scanner"] = <<>>
                          /\ walk[s] = -1 /\ listed[s] = {} /\ upto[s] = 0
  BY <1>1, Callers, ZenonT(30)
<1>4. waits["writer"] = 0 /\ waits["scanner"] = 0 /\ scan.call = "none"
  BY <1>1, Callers, ZenonT(30)
<1>5. Answering = {} /\ Busy = {} /\ Cardinality({}) = 0
  BY <1>3, FS_EmptySet, ZenonT(30) DEF Answering, Busy
<1>6. WriterTasks
  <2>1. \A s \in Shards : 1 .. Len(queue[s]["writer"]) = {}
    BY <1>3
  <2> QED BY <1>1, <1>4, <1>5, <2>1, SMTT(30) DEF WriterTasks
<1>7. ScannerTasks
  BY <1>1, <1>3, <1>4, <1>5, ZenonT(30) DEF ScannerTasks
<1>8. Covered
  BY <1>1, <1>3, <1>4, ZenonT(30) DEF Covered, ScanExact
<1> QED BY <1>2, <1>6, <1>7, <1>8, ZenonT(30) DEF ScanIInv

\* Nothing changes.
LEMMA ScanStutter == ASSUME ScanIInv, UNCHANGED scanVars PROVE ScanIInv'
<1>1. /\ map' = map /\ queue' = queue /\ walk' = walk /\ listed' = listed /\ waits' = waits
      /\ scan' = scan /\ found' = found /\ upto' = upto /\ steady' = steady /\ ever' = ever
      /\ flushed' = flushed /\ scanWrites' = scanWrites
  BY ZenonT(30) DEF scanVars, sVars
<1>2. ScanTypes'
  BY <1>1, ZenonT(30) DEF ScanIInv, ScanTypes
<1>3. WriterTasks'
  BY <1>1, WriterSame, ZenonT(30) DEF ScanIInv
<1>4. ScannerTasks'
  BY <1>1, ScannerSame, ZenonT(30) DEF ScanIInv
<1>5. Covered'
  BY <1>1, CoveredSame, ZenonT(30) DEF ScanIInv
<1> QED BY <1>2, <1>3, <1>4, <1>5, ZenonT(30) DEF ScanIInv

\* Every step keeps the invariant of the scans.
LEMMA NextHolds == ASSUME ScanShape, ScanIInv, [ScanNext]_scanVars PROVE ScanIInv'
<1>1. CASE ScanNext
  <2>1. CASE \E op \in {"put", "del", "batch"}, k \in ScanKey : Write(op, k)
    BY <2>1, WriteStep, ZenonT(30)
  <2>2. CASE wait_all_shards
    BY <2>2, WaitStep, ZenonT(30)
  <2>3. CASE AskPage
    BY <2>3, AskStep, ZenonT(30)
  <2>4. CASE \E call \in {"page", "entries", "keys"} : Begin(call)
    BY <2>4, BeginStep, ZenonT(30)
  <2>5. ASSUME NEW s \in Shards, Run(s) PROVE ScanIInv'
    <3>1. CASE \E op \in {"put", "del", "batch"} : RunWrite(s, op)
      BY <3>1, RunWriteStep, ZenonT(30)
    <3>2. CASE RunNothing(s) BY <3>2, RunNothingStep, ZenonT(30)
    <3>3. CASE RunPage(s) BY <3>3, RunPageStep, ZenonT(30)
    <3>4. CASE RunEntries(s) BY <3>4, RunEntriesStep, ZenonT(30)
    <3>5. CASE RunKeys(s) BY <3>5, RunKeysStep, ZenonT(30)
    <3>6. CASE WalkOn(s) BY <3>6, WalkOnStep, ZenonT(30)
    <3>7. CASE WalkEnds(s) BY <3>7, WalkEndsStep, ZenonT(30)
    <3> QED BY <2>5, <3>1, <3>2, <3>3, <3>4, <3>5, <3>6, <3>7, ZenonT(30) DEF Run
  <2>6. CASE UNCHANGED scanVars
    BY <2>6, ScanStutter, ZenonT(30)
  <2> QED BY <1>1, <2>1, <2>2, <2>3, <2>4, <2>5, <2>6, ZenonT(30) DEF ScanNext, ScanQuiet
<1>2. CASE UNCHANGED scanVars
  BY <1>2, ScanStutter, ZenonT(30)
<1> QED BY <1>1, <1>2, ZenonT(30)

\* In every state the tasks of the writer and of the scanner are as many as the futures
\* they wait for, and what was told or listed so far is complete.
THEOREM ScanInvariant == ScanSpec => []ScanIInv
<1>1. ScanInit => ScanIInv
  BY ScanAssumption, InitHolds, ZenonT(30)
<1>2. ScanIInv /\ [ScanNext]_scanVars => ScanIInv'
  BY ScanAssumption, NextHolds, ZenonT(30)
<1> QED BY <1>1, <1>2, PTL DEF ScanSpec

\* get_prefix_chunk, get_prefix_keys and their calls on all shards: for every number of
\* keys, shards, writes and every page size, a scan misses no key that was live all
\* along, as far as it has come, and gives none that was not live since it began.
THEOREM ScanExactHolds == ScanSpec => []ScanExact
<1>1. ScanIInv => ScanExact
  BY ZenonT(30) DEF ScanIInv, Covered
<1> QED BY <1>1, ScanInvariant, PTL

\* wait_all_shards: for every number of shards, batches and other callers' tasks, when
\* it has returned all that its caller had batched before is applied.
THEOREM AppliedHolds == ScanSpec => []Applied
<1>1. ScanIInv => Applied
  <2> SUFFICES ASSUME ScanIInv, flushed = 1, waits["writer"] = 0
               PROVE  \A s \in Shards : queue[s]["writer"] = <<>>
    BY ZenonT(30) DEF Applied
  <2>1. Answering \in SUBSET Shards
    BY ZenonT(30) DEF Answering
  <2>2. Answering = {}
    BY <2>1, ScanAssumption, ScanFacts, FS_Subset, FS_EmptySet, ZenonT(30)
    DEF ScanIInv, WriterTasks
  <2> QED BY <2>2, ZenonT(30) DEF ScanIInv, WriterTasks
<1> QED BY <1>1, ScanInvariant, PTL

\* The futures of a caller are never more than the shards nor less than none, and what
\* was found is among the keys.
THEOREM ScansTypeOK == ScanSpec => []ScanTypeOK
<1>1. ScanIInv => ScanTypeOK
  <2> SUFFICES ASSUME ScanIInv PROVE ScanTypeOK
    BY ZenonT(30)
  <2>1. Busy \in SUBSET Shards /\ Answering \in SUBSET Shards
    BY ZenonT(30) DEF Busy, Answering
  <2>2. /\ Cardinality(Busy) \in Nat /\ Cardinality(Answering) \in Nat
        /\ Cardinality(Shards) \in Nat
        /\ Cardinality(Busy) <= Cardinality(Shards)
        /\ Cardinality(Answering) <= Cardinality(Shards)
    BY <2>1, ScanAssumption, ScanFacts, FS_Subset, FS_CardinalityType, ZenonT(30)
  <2>3. /\ waits["writer"] \in 0 .. Cardinality(Shards)
        /\ waits["scanner"] \in 0 .. Cardinality(Shards)
    <3>1. waits["writer"] = Cardinality(Answering) /\ waits["scanner"] = Cardinality(Busy)
      BY ZenonT(30) DEF ScanIInv, WriterTasks, ScannerTasks
    <3> QED BY <2>2, <3>1
  <2>4. \A s \in Shards : upto[s] \in 0 .. Infinity /\ walk[s] >= -1
    BY ScanAssumption, ScanFacts DEF ScanIInv, ScanTypes
  <2> QED BY <2>3, <2>4, ZenonT(30) DEF ScanTypeOK, ScanIInv, ScanTypes
<1> QED BY <1>1, ScanInvariant, PTL
=============================================================================
