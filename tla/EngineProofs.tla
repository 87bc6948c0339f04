---------------------------- MODULE EngineProofs ----------------------------
(***************************************************************************)
(* Proofs about Engine for any number of clients, keys, shards and stamps. *)
(* The first and larger part is about the calls put, del and patch, across *)
(* crashes and restarts (LocalCalls).  It excludes mutations and batch_put,*)
(* which log dangling views: what is proved there is not true of them.     *)
(* The last part is about the mutations that one thread applies in one     *)
(* life of the process (OneApplier).                                       *)
(*                                                                         *)
(* The properties are about memory at rest and about a log.  The invariant *)
(* follows a call from the client over the queue to the thread of a shard: *)
(* it is in one of these places, and what is left of it, applied to memory,*)
(* gives a paired memory or the one that the log rebuilds.                 *)
(***************************************************************************)
EXTENDS Engine, SequenceTheorems, WellFoundedInduction, TLAPS

LocalCalls == Applier = {} /\ "batch" \notin Ops

\* The writes of a call, and what is left of them when the value was applied.
IsPair(ws) ==
  \E k \in Key, kind \in Kind, t \in 1 .. MaxStamp : ws = Pair(k, kind, t)
IsRest(ws) ==
  \E k \in Key, kind \in Kind, t \in 1 .. MaxStamp : ws = <<Pair(k, kind, t)[2]>>

\* The log has the batch, or a batch that ends with what is left of it.
InLog(ws) ==
  \E i \in DOMAIN wal : wal[i] = ws \/ (Len(ws) = 1 /\ wal[i][2] = ws[1])

\* put and patch run on the thread of one shard, del on any.
Routed(s, ws) == ws[1].kind # "del" => s = EmptyShard

QueueOK(s, c) ==
  queue[s][c] # <<>> =>
    LET task == queue[s][c][1]
    IN  /\ queue[s][c] = <<task>> /\ task.waiter = {c}
        /\ IsPair(task.writes) /\ InLog(task.writes) /\ Routed(s, task.writes)

RunOK(s) ==
  run[s] # Idle =>
    /\ \E c \in Client : run[s].waiter = {c}
    /\ IsPair(run[s].writes) \/ IsRest(run[s].writes)
    /\ InLog(run[s].writes) /\ Routed(s, run[s].writes)

\* A call is with its client, in a queue, or with a thread.
ClientOK(c) ==
  /\ pc[c] \in {"idle", "stamped", "logged", "wait"}
  /\ IF pc[c] \in {"stamped", "logged"} THEN IsPair(job[c]) ELSE job[c] = <<>>
  /\ pc[c] = "logged" => InLog(job[c])
  /\ \A s \in Shard : (queue[s][c] # <<>> \/ c \in run[s].waiter) => pc[c] = "wait"
  /\ pc[c] = "wait" => \E s \in Shard : queue[s][c] # <<>> \/ c \in run[s].waiter
  /\ \A s, z \in Shard :
       /\ (queue[s][c] # <<>> /\ queue[z][c] # <<>>) => s = z
       /\ (c \in run[s].waiter /\ c \in run[z].waiter) => s = z
       /\ ~(queue[s][c] # <<>> /\ c \in run[z].waiter)

Places ==
  /\ \A c \in Client : ClientOK(c)
  /\ \A s \in Shard : RunOK(s) /\ \A c \in Client : QueueOK(s, c)

Task == [writes : Seq(CellWrite), waiter : SUBSET Client]
Memory == [Cell -> [base : Stamps, patch : Stamps]]

Types ==
  /\ clock \in Stamps
  /\ \A i \in DOMAIN wal : IsPair(wal[i])
  /\ wal \in Seq(Seq(CellWrite))
  /\ mem \in Memory
  /\ pc \in [Client -> {"idle", "stamped", "logged", "wait"}]
  /\ job \in [Client -> Seq(CellWrite)]
  /\ queue \in [Shard -> [Client -> Seq(Task)]]
  /\ run \in [Shard -> Task]
  /\ apc = [a \in Applier |-> "idle"]
  /\ mut \in [Applier -> [key : Key, stamp : Stamps, del : BOOLEAN]]
  /\ crashes \in 0 .. MaxCrashes
  /\ mixed \subseteq Kind

\* What a log rebuilds is paired and of stamps of the log.
PairedMemory(m) == \A k \in Key : m[<<k, "val">>] = m[<<k, "meta">>]

GoodLog(log) ==
  /\ Replay(log) \in Memory
  /\ PairedMemory(Replay(log))
  /\ \A c \in Cell : \A t \in {Replay(log)[c].base, Replay(log)[c].patch} \ {0} :
       \E i \in 1 .. Len(log), j \in 1 .. 2 : log[i][j].cell = c /\ log[i][j].stamp = t

\* One call at a time; one at a time or no del.
Single == \A c, d \in Client : (pc[c] # "idle" /\ pc[d] # "idle") => c = d
NoDel ==
  /\ \A c \in Client : job[c] # <<>> => job[c][1].kind # "del"
  /\ \A s \in Shard : run[s] # Idle => run[s].writes[1].kind # "del"
  /\ \A s \in Shard, c \in Client :
       queue[s][c] # <<>> => queue[s][c][1].writes[1].kind # "del"

\* What is left of the running task makes memory paired.
Half(s) == Len(run[s].writes) = 1
Pairing ==
  /\ (\A s \in Shard : ~Half(s)) => PairedMemory(mem)
  /\ \A s \in Shard : Half(s) => PairedMemory(Apply(mem, run[s].writes[1]))

\* What is left of the call makes memory what the log rebuilds.
Rebuilding ==
  /\ (\A c \in Client : pc[c] \in {"idle", "stamped"}) => mem = Replay(wal)
  /\ \A c \in Client : pc[c] = "logged" => ApplyBatch(mem, job[c]) = Replay(wal)
  /\ \A s \in Shard, c \in Client :
       queue[s][c] # <<>> => ApplyBatch(mem, queue[s][c][1].writes) = Replay(wal)
  /\ \A s \in Shard : run[s] # Idle => ApplyBatch(mem, run[s].writes) = Replay(wal)

DelApart == "del" \notin mixed => ((NoDel \/ Single) /\ Pairing)
CallsApart == mixed = {} => (Single /\ Rebuilding)

IInv == Types /\ Places /\ WriteAhead /\ DelApart /\ CallsApart

-----------------------------------------------------------------------------
\* Recovery as a fold

\* A set of natural numbers has a least element.
LEMMA Least ==
  ASSUME NEW T \in SUBSET Nat, T # {}
  PROVE  \E x \in T : \A y \in T : x <= y
<1> DEFINE R == {p \in Nat \X Nat : p[1] < p[2]}
<1>1. IsWellFoundedOn(R, Nat)
  BY NatLessThanWellFounded, ZenonT(30) DEF OpToRel
<1> HIDE DEF R
<1>2. PICK x \in T : \A y \in T : ~(<<y, x>> \in R)
  BY <1>1, WFMin, ZenonT(30)
<1>3. \A y \in T : y < x => <<y, x>> \in R
  BY ZenonT(30) DEF R
<1>4. \A y \in T : ~(y < x)
  BY <1>2, <1>3, ZenonT(30)
<1>5. \A y \in T : x <= y
  BY <1>4
<1> QED
  BY <1>5, ZenonT(30)

\* A batch of two is applied write by write.
LEMMA PairApplied ==
  ASSUME NEW m, NEW a, NEW b
  PROVE  ApplyBatch(m, <<a, b>>) = Apply(Apply(m, a), b)
<1> DEFINE ws == <<a, b>>
           Step(f) == [i \in 0 .. 2 |-> IF i = 0 THEN m ELSE Apply(f[i - 1], ws[i])]
           f == CHOOSE g : g = Step(g)
           h == [i \in 0 .. 2 |-> IF i = 0 THEN m ELSE
                                  IF i = 1 THEN Apply(m, a) ELSE Apply(Apply(m, a), b)]
<1>1. h = Step(h)
  OBVIOUS
<1>2. f = Step(f)
  <2> HIDE DEF h, Step
  <2> QED
    BY <1>1, ZenonT(30)
<1>3. f[0] = m /\ f[1] = Apply(f[0], a) /\ f[2] = Apply(f[1], b)
  <2> HIDE DEF f
  <2> QED
    BY <1>2
<1>4. Len(ws) = 2
  BY ZenonT(30)
<1>5. ApplyBatch(m, ws) = f[2]
  BY <1>4, ZenonT(30) DEF ApplyBatch
<1> QED
  BY <1>3, <1>5, ZenonT(30)

\* g is what the first N batches of a log make of memory, one after the other.
Folded(log, N, g) ==
  g = [n \in 0 .. N |-> IF n = 0 THEN Fresh ELSE ApplyBatch(g[n - 1], log[n])]

\* There is such a function for every log: with the least length for which there is
\* none, the one for the length below could be extended.
LEMMA FoldExists ==
  ASSUME NEW log, NEW N \in Nat
  PROVE  \E g : Folded(log, N, g)
<1> DEFINE T == {n \in Nat : ~\E g : Folded(log, n, g)}
<1> SUFFICES ASSUME T # {} PROVE FALSE
  BY ZenonT(30)
<1>1. PICK n \in T : \A y \in T : n <= y
  BY Least, ZenonT(30)
<1>2. CASE n = 0
  <2> DEFINE g == [i \in 0 .. 0 |-> Fresh]
  <2>1. g = [i \in 0 .. 0 |-> IF i = 0 THEN Fresh ELSE ApplyBatch(g[i - 1], log[i])]
    OBVIOUS
  <2> HIDE DEF g
  <2>2. Folded(log, 0, g)
    BY <2>1, ZenonT(30) DEF Folded
  <2> QED
    BY <1>1, <1>2, <2>2, ZenonT(30)
<1>3. CASE n # 0
  <2>1. n - 1 \in Nat /\ n - 1 \notin T
    BY <1>1, <1>3
  <2>2. PICK g : Folded(log, n - 1, g)
    BY <2>1, ZenonT(30)
  <2> DEFINE h == [i \in 0 .. n |-> IF i = n THEN ApplyBatch(g[n - 1], log[n]) ELSE g[i]]
  <2>3. \A i \in 0 .. n - 1 : g[i] = IF i = 0 THEN Fresh ELSE ApplyBatch(g[i - 1], log[i])
    BY <2>1, <2>2, ZenonT(30) DEF Folded
  <2>4. ASSUME NEW i \in 0 .. n
        PROVE  h[i] = IF i = 0 THEN Fresh ELSE ApplyBatch(h[i - 1], log[i])
    <3>1. CASE i = n
      <4>1. h[i] = ApplyBatch(g[n - 1], log[n]) /\ h[i - 1] = g[n - 1]
        BY <3>1, <1>3, <2>1
      <4> QED
        BY <4>1, <3>1, <1>3, ZenonT(30)
    <3>2. CASE i # n
      <4>1. i \in 0 .. n - 1 /\ h[i] = g[i] /\ (i # 0 => h[i - 1] = g[i - 1])
        BY <3>2, <2>1
      <4> QED
        BY <4>1, <2>3, ZenonT(30)
    <3> QED
      BY <3>1, <3>2, ZenonT(30)
  <2>5. h = [i \in 0 .. n |-> h[i]]
    BY ZenonT(30)
  <2> HIDE DEF h
  <2>6. Folded(log, n, h)
    BY <2>4, <2>5, ZenonT(30) DEF Folded
  <2> QED
    BY <1>1, <2>6, ZenonT(30)
<1> QED
  BY <1>2, <1>3, ZenonT(30)

\* It depends on the batches up to each point only.
LEMMA FoldAgrees ==
  ASSUME NEW l1, NEW l2, NEW N \in Nat, NEW M \in Nat, N <= M,
         \A i \in 1 .. N : l1[i] = l2[i],
         NEW g, NEW h, Folded(l1, N, g), Folded(l2, M, h)
  PROVE  g[N] = h[N]
<1> DEFINE T == {n \in 0 .. N : g[n] # h[n]}
<1> SUFFICES ASSUME T # {} PROVE FALSE
  OBVIOUS
<1>1. PICK n \in T : \A y \in T : n <= y
  <2>1. T \in SUBSET Nat
    OBVIOUS
  <2> HIDE DEF T
  <2> QED
    BY <2>1, Least, ZenonT(30)
<1>2. g[n] = IF n = 0 THEN Fresh ELSE ApplyBatch(g[n - 1], l1[n])
  BY ZenonT(30) DEF Folded
<1>3. h[n] = IF n = 0 THEN Fresh ELSE ApplyBatch(h[n - 1], l2[n])
  BY DEF Folded
<1>4. n # 0
  BY <1>2, <1>3, ZenonT(30)
<1>5. n - 1 \in 0 .. N /\ n - 1 \notin T
  BY <1>1, <1>4
<1>6. g[n - 1] = h[n - 1] /\ l1[n] = l2[n]
  BY <1>4, <1>5
<1> QED
  BY <1>2, <1>3, <1>4, <1>6, ZenonT(30)

\* Replay is the last value of that function.
LEMMA ReplayFolded ==
  ASSUME NEW log, Len(log) \in Nat, NEW g, Folded(log, Len(log), g)
  PROVE  Replay(log) = g[Len(log)]
<1> DEFINE N == Len(log)
           Step(f) == [n \in 0 .. N |-> IF n = 0 THEN Fresh ELSE ApplyBatch(f[n - 1], log[n])]
           f == CHOOSE x : x = Step(x)
<1>1. g = Step(g)
  BY ZenonT(30) DEF Folded
<1>2. f = Step(f)
  <2> HIDE DEF Step
  <2> QED
    BY <1>1, ZenonT(30)
<1>3. Folded(log, N, f)
  <2> HIDE DEF f
  <2> QED
    BY <1>2, ZenonT(30) DEF Folded
<1>4. Replay(log) = f[N]
  BY ZenonT(30) DEF Replay
<1>5. g[N] = f[N]
  <2> HIDE DEF f
  <2> QED
    BY <1>3, FoldAgrees
<1> QED
  BY <1>4, <1>5, ZenonT(30)

\* An empty log rebuilds nothing.
LEMMA ReplayEmpty == Replay(<<>>) = Fresh
<1>1. PICK g : Folded(<<>>, 0, g)
  BY FoldExists, ZenonT(30)
<1>2. g[0] = Fresh
  BY <1>1 DEF Folded
<1>3. Len(<<>>) = 0
  BY ZenonT(30)
<1> QED
  BY <1>1, <1>2, <1>3, ReplayFolded, ZenonT(30)

\* A batch at the end of the log is applied last.
LEMMA ReplayAppend ==
  ASSUME NEW S, NEW log \in Seq(S), NEW ws \in S
  PROVE  Replay(Append(log, ws)) = ApplyBatch(Replay(log), ws)
<1> DEFINE N == Len(log)
           long == Append(log, ws)
<1>1. N \in Nat /\ Len(long) = N + 1 /\ long[N + 1] = ws /\ \A i \in 1 .. N : log[i] = long[i]
  BY LenProperties, AppendProperties
<1> HIDE DEF long
<1>2. PICK g : Folded(log, N, g)
  BY <1>1, FoldExists, ZenonT(30)
<1>3. PICK M \in Nat : M = N + 1
  BY <1>1
<1>4. PICK h : Folded(long, M, h)
  BY FoldExists, ZenonT(30)
<1>5. g[N] = h[N]
  <2>1. N <= M
    BY <1>1, <1>3
  <2> HIDE DEF N
  <2> QED
    BY <2>1, <1>1, <1>2, <1>4, FoldAgrees, SMTT(30)
<1>6. h[M] = ApplyBatch(h[N], long[M])
  <2>1. h[M] = IF M = 0 THEN Fresh ELSE ApplyBatch(h[M - 1], long[M])
    BY <1>4 DEF Folded
  <2>2. M # 0 /\ M - 1 = N
    BY <1>1, <1>3
  <2> QED
    BY <2>1, <2>2, ZenonT(30)
<1>7. Replay(log) = g[N]
  BY <1>1, <1>2, ReplayFolded, ZenonT(30)
<1>8. Replay(long) = h[M]
  <2>1. Len(long) = M
    BY <1>1, <1>3, ZenonT(30)
  <2> QED
    BY <2>1, <1>4, ReplayFolded, ZenonT(30)
<1> QED
  BY <1>1, <1>3, <1>5, <1>6, <1>7, <1>8, ZenonT(30) DEF long

-----------------------------------------------------------------------------
\* The writes of a call

\* The two writes of a call.
LEMMA PairFacts ==
  ASSUME NEW ws, IsPair(ws)
  PROVE  /\ ws \in Seq(CellWrite) /\ Len(ws) = 2 /\ DOMAIN ws = 1 .. 2 /\ ws # <<>>
         /\ Head(ws) = ws[1] /\ Tail(ws) = <<ws[2]>> /\ ws = <<ws[1], ws[2]>>
         /\ IsRest(Tail(ws)) /\ ws[1].kind = ws[2].kind /\ ws[1].kind \in Kind
<1>1. PICK k \in Key, kind \in Kind, t \in 1 .. MaxStamp : ws = Pair(k, kind, t)
  BY ZenonT(30) DEF IsPair
<1> DEFINE a == [cell |-> <<k, "val">>, kind |-> kind, stamp |-> t]
           b == [cell |-> <<k, "meta">>, kind |-> kind, stamp |-> t]
<1>2. ws = <<a, b>>
  BY <1>1, ZenonT(30) DEF Pair
<1>3. t \in Stamps /\ <<k, "val">> \in Cell /\ <<k, "meta">> \in Cell
  BY EngineAssumption DEF Stamps, Cell
<1>4. a \in CellWrite /\ b \in CellWrite /\ a.kind = kind /\ b.kind = kind
  BY <1>3, ZenonT(30) DEF CellWrite
<1> HIDE DEF a, b
<1>5. /\ ws \in Seq(CellWrite) /\ Len(ws) = 2 /\ DOMAIN ws = 1 .. 2 /\ ws # <<>>
      /\ Head(ws) = ws[1] /\ Tail(ws) = <<ws[2]>> /\ ws = <<ws[1], ws[2]>>
      /\ ws[1] = a /\ ws[2] = b
  BY <1>2, <1>4
<1>6. IsRest(Tail(ws))
  BY <1>1, <1>5, ZenonT(30) DEF IsRest
<1> QED
  BY <1>4, <1>5, <1>6, ZenonT(30)

\* What is left of them.
LEMMA RestFacts ==
  ASSUME NEW ws, IsRest(ws)
  PROVE  /\ ws \in Seq(CellWrite) /\ Len(ws) = 1 /\ DOMAIN ws = 1 .. 1 /\ ws # <<>>
         /\ Head(ws) = ws[1] /\ Tail(ws) = <<>> /\ ws = <<ws[1]>> /\ ws[1].kind \in Kind
<1>1. PICK k \in Key, kind \in Kind, t \in 1 .. MaxStamp : ws = <<Pair(k, kind, t)[2]>>
  BY ZenonT(30) DEF IsRest
<1> DEFINE b == [cell |-> <<k, "meta">>, kind |-> kind, stamp |-> t]
<1>2. ws = <<b>>
  BY <1>1, ZenonT(30) DEF Pair
<1>3. t \in Stamps /\ <<k, "meta">> \in Cell
  BY EngineAssumption DEF Stamps, Cell
<1>4. b \in CellWrite /\ b.kind = kind
  BY <1>3, ZenonT(30) DEF CellWrite
<1> HIDE DEF b
<1> QED
  BY <1>2, <1>4

\* What is left of a batch is applied as one write.
LEMMA RestApplied ==
  ASSUME NEW m, NEW b
  PROVE  ApplyBatch(m, <<b>>) = Apply(m, b)
<1> DEFINE ws == <<b>>
           Step(f) == [i \in 0 .. 1 |-> IF i = 0 THEN m ELSE Apply(f[i - 1], ws[i])]
           f == CHOOSE g : g = Step(g)
           h == [i \in 0 .. 1 |-> IF i = 0 THEN m ELSE Apply(m, b)]
<1>1. h = Step(h)
  OBVIOUS
<1>2. f = Step(f)
  <2> HIDE DEF h, Step
  <2> QED
    BY <1>1, ZenonT(30)
<1>3. f[0] = m /\ f[1] = Apply(f[0], b)
  <2> HIDE DEF f
  <2> QED
    BY <1>2
<1>4. Len(ws) = 1
  BY ZenonT(30)
<1>5. ApplyBatch(m, ws) = f[1]
  BY <1>4, ZenonT(30) DEF ApplyBatch
<1> QED
  BY <1>3, <1>5, ZenonT(30)

\* What a put or del, and what a patch makes of a cell.
Changed(old, kind, t) ==
  IF kind = "patch" THEN [base |-> old.base, patch |-> t] ELSE [base |-> t, patch |-> 0]

\* A write changes its cell only.
LEMMA ApplyAt ==
  ASSUME NEW m \in Memory, NEW c \in Cell, NEW kind \in Kind, NEW t \in 1 .. MaxStamp,
         NEW w, w = [cell |-> c, kind |-> kind, stamp |-> t]
  PROVE  /\ Apply(m, w) \in Memory
         /\ Apply(m, w)[c] = Changed(m[c], kind, t)
         /\ \A d \in Cell : d # c => Apply(m, w)[d] = m[d]
<1>1. t \in Stamps /\ 0 \in Stamps
  BY EngineAssumption DEF Stamps
<1>2. c # Elsewhere
  BY DEF Cell, Elsewhere
<1>3. m[c] \in [base : Stamps, patch : Stamps]
  BY ZenonT(30) DEF Memory
<1>4. Apply(m, w) = [m EXCEPT ![c] = Changed(m[c], kind, t)]
  <2>1. CASE kind = "patch"
    <3>1. Apply(m, w) = [m EXCEPT ![c].patch = t]
      BY <2>1, <1>2, ZenonT(30) DEF Apply
    <3>2. [m[c] EXCEPT !.patch = t] = [base |-> m[c].base, patch |-> t]
      BY <1>3
    <3> QED
      BY <3>1, <3>2, <2>1, ZenonT(30) DEF Changed
  <2>2. CASE kind # "patch"
    BY <2>2, <1>2, ZenonT(30) DEF Apply, Changed
  <2> QED
    BY <2>1, <2>2, ZenonT(30)
<1>5. Changed(m[c], kind, t) \in [base : Stamps, patch : Stamps]
  BY <1>1, <1>3, ZenonT(30) DEF Changed
<1> QED
  BY <1>4, <1>5, ZenonT(30) DEF Memory

\* A call changes the value and the meta of its key alike.
LEMMA PairChanges ==
  ASSUME NEW m \in Memory, NEW k \in Key, NEW kind \in Kind, NEW t \in 1 .. MaxStamp
  PROVE  LET r == Apply(Apply(m, Pair(k, kind, t)[1]), Pair(k, kind, t)[2])
         IN  /\ r \in Memory
             /\ r[<<k, "val">>] = Changed(m[<<k, "val">>], kind, t)
             /\ r[<<k, "meta">>] = Changed(m[<<k, "meta">>], kind, t)
             /\ \A d \in Cell : (d # <<k, "val">> /\ d # <<k, "meta">>) => r[d] = m[d]
<1> DEFINE a == [cell |-> <<k, "val">>, kind |-> kind, stamp |-> t]
           b == [cell |-> <<k, "meta">>, kind |-> kind, stamp |-> t]
<1>1. Pair(k, kind, t)[1] = a /\ Pair(k, kind, t)[2] = b
  BY ZenonT(30) DEF Pair
<1>2. <<k, "val">> \in Cell /\ <<k, "meta">> \in Cell /\ <<k, "val">> # <<k, "meta">>
  BY ZenonT(30) DEF Cell
<1>3. /\ Apply(m, a) \in Memory
      /\ Apply(m, a)[<<k, "val">>] = Changed(m[<<k, "val">>], kind, t)
      /\ \A d \in Cell : d # <<k, "val">> => Apply(m, a)[d] = m[d]
  BY <1>2, ApplyAt
<1> DEFINE m1 == Apply(m, a)
<1> HIDE DEF m1
<1>4. /\ Apply(m1, b) \in Memory
      /\ Apply(m1, b)[<<k, "meta">>] = Changed(m1[<<k, "meta">>], kind, t)
      /\ \A d \in Cell : d # <<k, "meta">> => Apply(m1, b)[d] = m1[d]
  BY <1>2, <1>3, ApplyAt, SMTT(30) DEF m1
<1> DEFINE r == Apply(m1, b)
<1> HIDE DEF r
<1>5. /\ r \in Memory
      /\ r[<<k, "val">>] = Changed(m[<<k, "val">>], kind, t)
      /\ r[<<k, "meta">>] = Changed(m[<<k, "meta">>], kind, t)
      /\ \A d \in Cell : (d # <<k, "val">> /\ d # <<k, "meta">>) => r[d] = m[d]
  BY <1>2, <1>3, <1>4, ZenonT(30) DEF r, m1
<1> QED
  BY <1>1, <1>5, ZenonT(30) DEF r, m1

\* So it keeps memory paired.
LEMMA PairKeepsPaired ==
  ASSUME NEW m \in Memory, PairedMemory(m), NEW ws, IsPair(ws)
  PROVE  PairedMemory(Apply(Apply(m, ws[1]), ws[2]))
<1>1. PICK k \in Key, kind \in Kind, t \in 1 .. MaxStamp : ws = Pair(k, kind, t)
  BY ZenonT(30) DEF IsPair
<1> DEFINE r == Apply(Apply(m, ws[1]), ws[2])
<1>2. /\ r[<<k, "val">>] = Changed(m[<<k, "val">>], kind, t)
      /\ r[<<k, "meta">>] = Changed(m[<<k, "meta">>], kind, t)
      /\ \A d \in Cell : (d # <<k, "val">> /\ d # <<k, "meta">>) => r[d] = m[d]
  BY <1>1, PairChanges
<1> HIDE DEF r
<1>3. \A j \in Key : j # k => (r[<<j, "val">>] = m[<<j, "val">>] /\ r[<<j, "meta">>] = m[<<j, "meta">>])
  BY <1>2, ZenonT(30) DEF Cell
<1>4. PairedMemory(r)
  BY <1>2, <1>3, ZenonT(30) DEF PairedMemory
<1> QED
  BY <1>4, ZenonT(30) DEF r

\* One more call in the log.
LEMMA GoodAppend ==
  ASSUME NEW S, NEW log \in Seq(S), NEW ws \in S, IsPair(ws), GoodLog(log)
  PROVE  GoodLog(Append(log, ws))
<1> DEFINE m == Replay(log)
           long == Append(log, ws)
           r == Replay(long)
<1>1. PICK k \in Key, kind \in Kind, t \in 1 .. MaxStamp : ws = Pair(k, kind, t)
  BY ZenonT(30) DEF IsPair
<1>2. r = Apply(Apply(m, ws[1]), ws[2])
  <2>1. r = ApplyBatch(m, ws) /\ ws = <<ws[1], ws[2]>>
    BY ReplayAppend, PairFacts, ZenonT(30)
  <2>2. ApplyBatch(m, <<ws[1], ws[2]>>) = Apply(Apply(m, ws[1]), ws[2])
    BY PairApplied
  <2> QED
    BY <2>1, <2>2, ZenonT(30)
<1>3. m \in Memory /\ PairedMemory(m)
  BY ZenonT(30) DEF GoodLog
<1> HIDE DEF m, r
<1>4. PairedMemory(r)
  BY <1>2, <1>3, PairKeepsPaired, ZenonT(30)
<1>5. /\ r \in Memory
      /\ r[<<k, "val">>] = Changed(m[<<k, "val">>], kind, t)
      /\ r[<<k, "meta">>] = Changed(m[<<k, "meta">>], kind, t)
      /\ \A d \in Cell : (d # <<k, "val">> /\ d # <<k, "meta">>) => r[d] = m[d]
  BY <1>1, <1>2, <1>3, PairChanges
<1>6. /\ Len(log) \in Nat /\ Len(long) = Len(log) + 1 /\ long[Len(log) + 1] = ws
      /\ \A i \in 1 .. Len(log) : long[i] = log[i]
  BY LenProperties, AppendProperties
<1>7. /\ ws[1].cell = <<k, "val">> /\ ws[1].stamp = t
      /\ ws[2].cell = <<k, "meta">> /\ ws[2].stamp = t
  BY <1>1, ZenonT(30) DEF Pair
<1> HIDE DEF long
<1> DEFINE In(c, u) ==
      \E i \in 1 .. Len(long), j \in 1 .. 2 : long[i][j].cell = c /\ long[i][j].stamp = u
<1>8. ASSUME NEW c \in Cell, NEW u \in {m[c].base, m[c].patch} \ {0}
      PROVE  In(c, u)
  <2>1. PICK i \in 1 .. Len(log), j \in 1 .. 2 : log[i][j].cell = c /\ log[i][j].stamp = u
    BY <1>8, ZenonT(30) DEF GoodLog, m
  <2>2. i \in 1 .. Len(long) /\ long[i] = log[i]
    BY <2>1, <1>6
  <2> QED
    BY <2>1, <2>2, ZenonT(30)
<1>9. ASSUME NEW c \in Cell, NEW u \in {r[c].base, r[c].patch} \ {0}
      PROVE  In(c, u)
  <2>1. CASE u = t /\ (c = <<k, "val">> \/ c = <<k, "meta">>)
    <3>1. PICK i \in 1 .. Len(long) : long[i] = ws
      BY <1>6
    <3>2. \E j \in 1 .. 2 : ws[j].cell = c /\ ws[j].stamp = u
      BY <2>1, <1>7, SMTT(30)
    <3> QED
      BY <3>1, <3>2, ZenonT(30)
  <2>2. CASE u \in {m[c].base, m[c].patch}
    <3>1. u \in {m[c].base, m[c].patch} \ {0}
      BY <2>2, ZenonT(30)
    <3> HIDE DEF In
    <3> QED
      BY <3>1, <1>8, ZenonT(30)
  <2>3. u = t \/ u \in {m[c].base, m[c].patch}
    <3>1. CASE r[c] = Changed(m[c], kind, t)
      <4>1. r[c].base \in {t, m[c].base} /\ r[c].patch \in {t, 0}
        BY <3>1 DEF Changed
      <4> QED
        BY <4>1, ZenonT(30)
    <3>2. CASE r[c] = m[c]
      BY <3>2, ZenonT(30)
    <3> QED
      BY <3>1, <3>2, <1>5, ZenonT(30)
  <2>4. (c # <<k, "val">> /\ c # <<k, "meta">>) => r[c] = m[c]
    BY <1>5, ZenonT(30)
  <2> QED
    BY <2>1, <2>2, <2>3, <2>4, <1>9, ZenonT(30)
<1> QED
  BY <1>4, <1>5, <1>9, ZenonT(30) DEF GoodLog, r, long

\* Every log of whole calls rebuilds a paired memory of its stamps.
LEMMA GoodLogs ==
  ASSUME NEW S, NEW log \in Seq(S), \A i \in DOMAIN log : IsPair(log[i])
  PROVE  GoodLog(log)
<1> DEFINE T == {n \in 0 .. Len(log) : ~GoodLog(SubSeq(log, 1, n))}
<1>1. Len(log) \in Nat /\ DOMAIN log = 1 .. Len(log) /\ \A i \in 1 .. Len(log) : log[i] \in S
  BY LenProperties, ElementOfSeq, ZenonT(30)
<1>2. T = {}
  <2> SUFFICES ASSUME T # {} PROVE FALSE
    BY ZenonT(30)
  <2>1. PICK n \in T : \A y \in T : n <= y
    <3>1. T \in SUBSET Nat
      BY <1>1
    <3> HIDE DEF T
    <3> QED
      BY <3>1, Least, ZenonT(30)
  <2>2. CASE n = 0
    <3>1. SubSeq(log, 1, 0) = <<>>
      BY SubSeqEmpty
    <3>2. Fresh \in Memory /\ \A c \in Cell : Fresh[c].base = 0 /\ Fresh[c].patch = 0
      BY EngineAssumption DEF Fresh, Blank, Memory, Stamps
    <3>3. PairedMemory(Fresh)
      BY ZenonT(30) DEF PairedMemory, Fresh, Cell
    <3>4. GoodLog(<<>>)
      BY <3>2, <3>3, ReplayEmpty, ZenonT(30) DEF GoodLog
    <3> QED
      BY <2>1, <2>2, <3>1, <3>4, ZenonT(30)
  <2>3. CASE n # 0
    <3> DEFINE p == SubSeq(log, 1, n - 1)
    <3>1. n \in 1 .. Len(log) /\ n - 1 \in 0 .. Len(log) /\ n - 1 \notin T
      BY <2>1, <2>3, <1>1
    <3>2. GoodLog(p)
      BY <3>1, ZenonT(30)
    <3>3. p \in Seq(S)
      BY <3>1, <1>1, SubSeqProperties
    <3>4. SubSeq(log, 1, n) = p \o <<log[n]>>
      BY <3>1, <1>1, SubSeqRecursiveSecond
    <3>5. p \o <<log[n]>> = Append(p, log[n])
      BY <3>1, <3>3, <1>1, AppendIsConcat, ZenonT(30)
    <3>6. GoodLog(Append(p, log[n]))
      <4> HIDE DEF p
      <4> QED
        BY <3>1, <3>2, <3>3, <1>1, GoodAppend, ZenonT(30)
    <3> QED
      BY <3>4, <3>5, <3>6, <2>1, ZenonT(30)
  <2> QED
    BY <2>2, <2>3, ZenonT(30)
<1>3. Len(log) \in 0 .. Len(log)
  BY <1>1
<1>4. SubSeq(log, 1, Len(log)) = log
  BY SubSeqFull, ZenonT(30)
<1> QED
  BY <1>2, <1>3, <1>4, ZenonT(30)

-----------------------------------------------------------------------------
\* The log and the calls in progress

\* What the batches of the log have is logged.
LEMMA LoggedBy ==
  ASSUME Types, NEW i \in DOMAIN wal, NEW j \in 1 .. 2
  PROVE  wal[i][j].stamp \in Logged(wal[i][j].cell)
<1>1. IsPair(wal[i])
  BY ZenonT(30) DEF Types
<1>2. DOMAIN wal[i] = 1 .. 2
  BY <1>1, PairFacts, ZenonT(30)
<1>3. wal[i][j] \in Range(wal[i])
  BY <1>2, ZenonT(30) DEF Range
<1>4. wal[i][j] \in UNION {Range(wal[n]) : n \in DOMAIN wal}
  BY <1>3, ZenonT(30)
<1> QED
  BY <1>4, ZenonT(30) DEF Logged

\* A log that grows keeps what it has.
LEMMA LogGrows ==
  ASSUME NEW S, wal \in Seq(S), NEW ws \in S, wal' = Append(wal, ws)
  PROVE  /\ DOMAIN wal \subseteq DOMAIN wal' /\ Len(wal) + 1 \in DOMAIN wal'
         /\ wal'[Len(wal) + 1] = ws
         /\ \A i \in DOMAIN wal' : i \in DOMAIN wal \/ wal'[i] = ws
         /\ \A i \in DOMAIN wal : wal'[i] = wal[i]
         /\ \A c : Logged(c) \subseteq Logged(c)'
         /\ \A us : InLog(us) => InLog(us)'
<1>1. /\ Len(wal) \in Nat /\ DOMAIN wal = 1 .. Len(wal)
      /\ Len(wal') = Len(wal) + 1 /\ DOMAIN wal' = 1 .. Len(wal) + 1
      /\ \A i \in 1 .. Len(wal) : wal'[i] = wal[i]
      /\ wal'[Len(wal) + 1] = ws
  BY LenProperties, AppendProperties
<1>2. /\ DOMAIN wal \subseteq DOMAIN wal' /\ Len(wal) + 1 \in DOMAIN wal'
      /\ \A i \in DOMAIN wal' : i \in DOMAIN wal \/ wal'[i] = ws
      /\ \A i \in DOMAIN wal : wal'[i] = wal[i]
  BY <1>1
<1>3. ASSUME NEW c PROVE Logged(c) \subseteq Logged(c)'
  <2>1. UNION {Range(wal[i]) : i \in DOMAIN wal} \subseteq UNION {Range(wal'[i]) : i \in DOMAIN wal'}
    BY <1>2, ZenonT(30)
  <2> QED
    BY <2>1, ZenonT(30) DEF Logged
<1>4. ASSUME NEW us, InLog(us) PROVE InLog(us)'
  BY <1>2, <1>4, ZenonT(30) DEF InLog
<1> QED
  BY <1>1, <1>2, <1>3, <1>4, ZenonT(30)

\* The kinds of the writes in progress are those in the three places of a call.
LEMMA KindsInProgress ==
  /\ \A c \in Client : \A w \in Range(job[c]) : w.kind \in InProgress
  /\ \A s \in Shard : \A w \in Range(run[s].writes) : w.kind \in InProgress
  /\ \A s \in Shard, c \in Client : \A t \in Range(queue[s][c]) :
       \A w \in Range(t.writes) : w.kind \in InProgress
BY DEF InProgress

\* The first write of a call in progress.
LEMMA FirstInProgress ==
  ASSUME Places
  PROVE  /\ \A c \in Client : job[c] # <<>> => job[c][1].kind \in InProgress
         /\ \A s \in Shard : run[s] # Idle => run[s].writes[1].kind \in InProgress
         /\ \A s \in Shard, c \in Client :
              queue[s][c] # <<>> => queue[s][c][1].writes[1].kind \in InProgress
<1>1. ASSUME NEW c \in Client, job[c] # <<>> PROVE job[c][1].kind \in InProgress
  <2>1. IsPair(job[c])
    BY <1>1, ZenonT(30) DEF Places, ClientOK
  <2>2. DOMAIN job[c] = 1 .. 2
    BY <2>1, PairFacts, ZenonT(30)
  <2>3. job[c][1] \in Range(job[c])
    BY <2>2 DEF Range
  <2> QED
    BY <2>3, KindsInProgress, ZenonT(30)
<1>2. ASSUME NEW s \in Shard, run[s] # Idle PROVE run[s].writes[1].kind \in InProgress
  <2>1. IsPair(run[s].writes) \/ IsRest(run[s].writes)
    BY <1>2, ZenonT(30) DEF Places, RunOK
  <2>2. 1 \in DOMAIN run[s].writes
    BY <2>1, PairFacts, RestFacts
  <2>3. run[s].writes[1] \in Range(run[s].writes)
    BY <2>2, ZenonT(30) DEF Range
  <2> QED
    BY <2>3, KindsInProgress, ZenonT(30)
<1>3. ASSUME NEW s \in Shard, NEW c \in Client, queue[s][c] # <<>>
      PROVE  queue[s][c][1].writes[1].kind \in InProgress
  <2> DEFINE t == queue[s][c][1]
  <2>1. IsPair(t.writes) /\ queue[s][c] = <<t>>
    BY <1>3, ZenonT(30) DEF Places, QueueOK
  <2> HIDE DEF t
  <2>2. DOMAIN t.writes = 1 .. 2
    BY <2>1, PairFacts, ZenonT(30)
  <2>3. t.writes[1] \in Range(t.writes)
    BY <2>2 DEF Range
  <2>4. t \in Range(queue[s][c])
    <3>1. 1 \in DOMAIN <<t>> /\ <<t>>[1] = t
      OBVIOUS
    <3> QED
      BY <2>1, <3>1, ZenonT(30) DEF Range
  <2>5. t.writes[1].kind \in InProgress
    BY <2>3, <2>4, KindsInProgress, ZenonT(30)
  <2> QED
    BY <2>5, ZenonT(30) DEF t
<1> QED
  BY <1>1, <1>2, <1>3, ZenonT(30)

\* Nothing in progress: all clients are idle.
LEMMA NothingInProgress ==
  ASSUME Places, InProgress = {}
  PROVE  \A c \in Client : pc[c] = "idle"
<1> SUFFICES ASSUME NEW c \in Client, pc[c] # "idle" PROVE FALSE
  BY ZenonT(30)
<1>1. ClientOK(c)
  BY ZenonT(30) DEF Places
<1>2. CASE pc[c] \in {"stamped", "logged"}
  <2>1. job[c] # <<>>
    BY <1>1, <1>2, PairFacts, ZenonT(30) DEF ClientOK
  <2> QED
    BY <2>1, FirstInProgress, ZenonT(30)
<1>3. CASE pc[c] = "wait"
  <2>1. PICK s \in Shard : queue[s][c] # <<>> \/ c \in run[s].waiter
    BY <1>1, <1>3, ZenonT(30) DEF ClientOK
  <2>2. run[s] # Idle \/ queue[s][c] # <<>>
    BY <2>1 DEF Idle
  <2> QED
    BY <2>2, FirstInProgress, ZenonT(30)
<1> QED
  BY <1>1, <1>2, <1>3, ZenonT(30) DEF ClientOK

\* Idle clients have nothing queued and nothing running.
LEMMA IdleClients ==
  ASSUME Places
  PROVE  /\ \A c \in Client, s \in Shard : queue[s][c] # <<>> => pc[c] = "wait"
         /\ \A s \in Shard : run[s] # Idle => \E c \in Client : run[s].waiter = {c} /\ pc[c] = "wait"
BY DEF Places, ClientOK, RunOK

\* The kinds in progress are kinds.
LEMMA KindsTyped ==
  ASSUME Types
  PROVE  InProgress \subseteq Kind
<1>1. \A c \in Client : Range(job[c]) \subseteq CellWrite
  BY RangeOfSeq, ZenonT(30) DEF Types
<1>2. \A s \in Shard : Range(run[s].writes) \subseteq CellWrite
  BY RangeOfSeq, ZenonT(30) DEF Types, Task
<1>3. ASSUME NEW t \in UNION {Range(queue[s][c]) : s \in Shard, c \in Client}
      PROVE  Range(t.writes) \subseteq CellWrite
  <2>1. PICK s \in Shard, c \in Client : t \in Range(queue[s][c])
    BY <1>3
  <2>2. queue \in [Shard -> [Client -> Seq(Task)]]
    BY DEF Types
  <2>3. t \in Task
    BY <2>1, <2>2, RangeOfSeq
  <2>4. t.writes \in Seq(CellWrite)
    BY <2>3 DEF Task
  <2> QED
    BY <2>4, RangeOfSeq
<1>4. ASSUME NEW w \in UNION ({Range(job[c]) : c \in Client}
                       \cup {Range(run[s].writes) : s \in Shard}
                       \cup {Range(t.writes) : t \in
                              UNION {Range(queue[s][c]) : s \in Shard, c \in Client}})
      PROVE  w \in CellWrite
  BY <1>1, <1>2, <1>3, <1>4
<1>5. \A w \in CellWrite : w.kind \in Kind
  BY ZenonT(30) DEF CellWrite
<1> QED
  BY <1>4, <1>5 DEF InProgress

-----------------------------------------------------------------------------
\* What a step leaves alone

\* A batch that was in the log is in it.
LogKept == \A us : InLog(us) => InLog(us)'

\* A step that leaves the log alone keeps what is in it.
LEMMA SameLog ==
  ASSUME wal' = wal
  PROVE  LogKept /\ ((WriteAhead /\ mem' = mem) => WriteAhead')
<1>1. LogKept
  BY ZenonT(30) DEF LogKept, InLog
<1>2. \A x : Logged(x)' = Logged(x)
  BY ZenonT(30) DEF Logged
<1>3. ASSUME WriteAhead, mem' = mem PROVE WriteAhead'
  BY <1>2, <1>3, ZenonT(30) DEF WriteAhead
<1> QED
  BY <1>1, <1>3, ZenonT(30)

\* A step that leaves a client and the places of its call alone.
LEMMA ClientSame ==
  ASSUME NEW d \in Client, ClientOK(d), LogKept, pc'[d] = pc[d], job'[d] = job[d],
         \A z \in Shard :
           queue'[z][d] = queue[z][d] /\ (d \in run'[z].waiter <=> d \in run[z].waiter)
  PROVE  ClientOK(d)'
<1>1. pc'[d] = "logged" => InLog(job[d])'
  BY ZenonT(30) DEF ClientOK, LogKept
<1>2. /\ pc'[d] \in {"idle", "stamped", "logged", "wait"}
      /\ IF pc'[d] \in {"stamped", "logged"} THEN IsPair(job'[d]) ELSE job'[d] = <<>>
  BY ZenonT(30) DEF ClientOK
<1>3. /\ \A s \in Shard : (queue'[s][d] # <<>> \/ d \in run'[s].waiter) => pc'[d] = "wait"
      /\ pc'[d] = "wait" => \E s \in Shard : queue'[s][d] # <<>> \/ d \in run'[s].waiter
  BY ZenonT(30) DEF ClientOK
<1>4. \A s, z \in Shard :
        /\ (queue'[s][d] # <<>> /\ queue'[z][d] # <<>>) => s = z
        /\ (d \in run'[s].waiter /\ d \in run'[z].waiter) => s = z
        /\ ~(queue'[s][d] # <<>> /\ d \in run'[z].waiter)
  BY ZenonT(30) DEF ClientOK
<1> QED
  BY <1>1, <1>2, <1>3, <1>4, ZenonT(30) DEF ClientOK

\* A step after which the call of a client is in one place.
LEMMA ClientWaits ==
  ASSUME NEW c \in Client, NEW s \in Shard, pc'[c] = "wait", job'[c] = <<>>,
         \A z \in Shard \ {s} : queue'[z][c] = <<>> /\ c \notin run'[z].waiter,
         queue'[s][c] # <<>> <=> c \notin run'[s].waiter
  PROVE  ClientOK(c)'
  BY ZenonT(30) DEF ClientOK

\* A step that leaves the task of a thread alone.
LEMMA RunSame ==
  ASSUME NEW s \in Shard, RunOK(s), LogKept, run'[s] = run[s]
  PROVE  RunOK(s)'
<1>1. InLog(run[s].writes) => InLog(run[s].writes)'
  BY ZenonT(30) DEF LogKept
<1> QED
  BY <1>1, ZenonT(30) DEF RunOK

\* A step that leaves the queue of a client at a thread alone.
LEMMA QueueSame ==
  ASSUME NEW s \in Shard, NEW d \in Client, QueueOK(s, d), LogKept,
         queue'[s][d] = queue[s][d]
  PROVE  QueueOK(s, d)'
<1>1. ASSUME queue'[s][d] # <<>> PROVE InLog(queue[s][d][1].writes)'
  BY <1>1, ZenonT(30) DEF LogKept, QueueOK
<1> QED
  BY <1>1, ZenonT(30) DEF QueueOK

-----------------------------------------------------------------------------
\* Steps of the clients

\* put, del, patch: the call is with its client.
LEMMA CallKeeps ==
  ASSUME IInv, NEW c \in Client, NEW k \in Key, NEW kind \in Kind, Call(c, k, kind)
  PROVE  IInv'
<1>1. Types /\ Places /\ ClientOK(c)
  BY ZenonT(30) DEF IInv, Places
<1>2. UNCHANGED <<wal, mem, queue, run, apc, mut, crashes>>
  BY ZenonT(30) DEF Call
<1>3. clock' \in 1 .. MaxStamp /\ clock' \in Stamps
  BY <1>1, EngineAssumption DEF Call, Types, Stamps
<1> DEFINE ws == Pair(k, kind, clock')
<1>4. IsPair(ws)
  BY <1>3, ZenonT(30) DEF IsPair
<1>5. ws \in Seq(CellWrite) /\ ws # <<>> /\ ws[1].kind = kind
  BY <1>4, PairFacts, ZenonT(30) DEF Pair
<1> HIDE DEF ws
<1>6. /\ pc[c] = "idle" /\ pc'[c] = "stamped" /\ job'[c] = ws
      /\ \A d \in Client \ {c} : pc'[d] = pc[d] /\ job'[d] = job[d]
  BY <1>1, ZenonT(30) DEF Call, Types, ws
<1>7. Types'
  <2>1. pc' \in [Client -> {"idle", "stamped", "logged", "wait"}]
    BY <1>1, ZenonT(30) DEF Types, Call
  <2>2. job' \in [Client -> Seq(CellWrite)]
    BY <1>1, <1>5, ZenonT(30) DEF Types, Call, ws
  <2>3. mixed' \subseteq Kind
    BY <1>1, KindsTyped, ZenonT(30) DEF Call, Types
  <2> QED
    BY <1>1, <1>2, <1>3, <2>1, <2>2, <2>3, ZenonT(30) DEF Types
<1>8. Places'
  <2>1. ASSUME NEW d \in Client PROVE ClientOK(d)'
    <3>1. CASE d = c
      BY <3>1, <1>1, <1>2, <1>4, <1>6, ZenonT(30) DEF ClientOK
    <3>2. CASE d # c
      BY <3>2, <1>1, <1>2, <1>6, SameLog, ClientSame, ZenonT(30) DEF Places
    <3> QED
      BY <3>1, <3>2, ZenonT(30)
  <2>2. ASSUME NEW s \in Shard PROVE RunOK(s)'
    BY <1>1, <1>2, SameLog, RunSame, ZenonT(30) DEF Places
  <2>3. ASSUME NEW s \in Shard, NEW d \in Client PROVE QueueOK(s, d)'
    BY <1>1, <1>2, SameLog, QueueSame, ZenonT(30) DEF Places
  <2> QED
    BY <2>1, <2>2, <2>3, ZenonT(30) DEF Places
<1>9. WriteAhead'
  BY <1>2, SameLog, ZenonT(30) DEF IInv
<1>10. CASE InProgress = {}
  <2>1. \A d \in Client : pc[d] = "idle"
    BY <1>1, <1>10, NothingInProgress, ZenonT(30)
  <2>2. Single'
    BY <2>1, <1>6, ZenonT(30) DEF Single
  <2>3. mixed' = mixed
    BY <1>10, ZenonT(30) DEF Call
  <2>4. DelApart'
    BY <2>2, <2>3, <1>2, ZenonT(30) DEF IInv, DelApart, Pairing, Half
  <2>5. ASSUME mixed = {} PROVE Rebuilding'
    <3>1. mem = Replay(wal)
      BY <2>1, <2>5, ZenonT(30) DEF IInv, CallsApart, Rebuilding
    <3>2. \A s \in Shard : run[s] = Idle /\ \A d \in Client : queue[s][d] = <<>>
      BY <2>1, <1>1, IdleClients, ZenonT(30)
    <3> QED
      BY <3>1, <3>2, <2>1, <1>2, <1>6, ZenonT(30) DEF Rebuilding
  <2> QED
    BY <2>2, <2>3, <2>4, <2>5, <1>7, <1>8, <1>9, ZenonT(30) DEF IInv, CallsApart
<1>11. CASE InProgress # {}
  <2>1. mixed' = mixed \cup InProgress \cup {kind}
    BY <1>11, ZenonT(30) DEF Call
  <2>2. ASSUME "del" \notin mixed' PROVE NoDel'
    <3>1. "del" \notin InProgress /\ kind # "del"
      BY <2>1, <2>2, ZenonT(30)
    <3> QED
      BY <3>1, <1>1, <1>2, <1>5, <1>6, FirstInProgress, ZenonT(30) DEF NoDel
  <2>3. DelApart'
    BY <2>1, <2>2, <1>2, ZenonT(30) DEF IInv, DelApart, Pairing, Half
  <2>4. CallsApart'
    BY <2>1, ZenonT(30) DEF CallsApart
  <2> QED
    BY <2>3, <2>4, <1>7, <1>8, <1>9, ZenonT(30) DEF IInv
<1> QED
  BY <1>10, <1>11, ZenonT(30)

\* append_batch: the log ends with the call.
LEMMA LogKeeps ==
  ASSUME IInv, NEW c \in Client, Log(c)
  PROVE  IInv'
<1>1. Types /\ Places /\ ClientOK(c)
  BY ZenonT(30) DEF IInv, Places
<1>2. UNCHANGED <<clock, mem, job, queue, run, apc, mut, crashes, mixed>>
  BY ZenonT(30) DEF Log
<1>3. pc[c] = "stamped" /\ IsPair(job[c])
  BY <1>1, ZenonT(30) DEF Log, ClientOK
<1>4. pc'[c] = "logged" /\ \A d \in Client \ {c} : pc'[d] = pc[d]
  BY <1>1, <1>3, ZenonT(30) DEF Log, Types
<1>5. job[c] \in Seq(CellWrite) /\ wal \in Seq(Seq(CellWrite))
  BY <1>1, ZenonT(30) DEF Types
<1>6. wal' = Append(wal, job[c])
  <2>1. wal' = wal \o <<job[c]>>
    BY <1>3, ZenonT(30) DEF Log, Batches
  <2> QED
    BY <2>1, <1>5, AppendIsConcat, ZenonT(30)
<1>7. /\ DOMAIN wal \subseteq DOMAIN wal' /\ Len(wal) + 1 \in DOMAIN wal'
      /\ wal'[Len(wal) + 1] = job[c]
      /\ \A i \in DOMAIN wal' : i \in DOMAIN wal \/ wal'[i] = job[c]
      /\ \A i \in DOMAIN wal : wal'[i] = wal[i]
  BY <1>5, <1>6, LogGrows, ZenonT(30)
<1>8. LogKept
  BY <1>5, <1>6, LogGrows, ZenonT(30) DEF LogKept
<1>9. Types'
  <2>1. pc' \in [Client -> {"idle", "stamped", "logged", "wait"}]
    BY <1>1, <1>3, ZenonT(30) DEF Types, Log
  <2>2. wal' \in Seq(Seq(CellWrite))
    BY <1>5, <1>6, AppendProperties, ZenonT(30)
  <2>3. \A i \in DOMAIN wal' : IsPair(wal'[i])
    BY <1>1, <1>3, <1>7, ZenonT(30) DEF Types
  <2> QED
    BY <1>1, <1>2, <2>1, <2>2, <2>3, ZenonT(30) DEF Types
<1>10. Places'
  <2>1. ASSUME NEW d \in Client PROVE ClientOK(d)'
    <3>1. CASE d = c
      <4>1. InLog(job[c])'
        BY <1>2, <1>7, ZenonT(30) DEF InLog
      <4> QED
        BY <3>1, <4>1, <1>1, <1>2, <1>3, <1>4, ZenonT(30) DEF ClientOK
    <3>2. CASE d # c
      BY <3>2, <1>1, <1>2, <1>4, <1>8, ClientSame, ZenonT(30) DEF Places
    <3> QED
      BY <3>1, <3>2, ZenonT(30)
  <2>2. ASSUME NEW s \in Shard PROVE RunOK(s)'
    BY <1>1, <1>2, <1>8, RunSame, ZenonT(30) DEF Places
  <2>3. ASSUME NEW s \in Shard, NEW d \in Client PROVE QueueOK(s, d)'
    BY <1>1, <1>2, <1>8, QueueSame, ZenonT(30) DEF Places
  <2> QED
    BY <2>1, <2>2, <2>3, ZenonT(30) DEF Places
<1>11. WriteAhead'
  <2>1. \A x : Logged(x) \subseteq Logged(x)'
    BY <1>5, <1>6, LogGrows, ZenonT(30)
  <2> QED
    BY <2>1, <1>2, ZenonT(30) DEF IInv, WriteAhead
<1>12. Single => Single'
  BY <1>3, <1>4, ZenonT(30) DEF Single
<1>13. DelApart'
  BY <1>2, <1>12, ZenonT(30) DEF IInv, DelApart, NoDel, Pairing, Half
<1>14. ASSUME mixed = {} PROVE Rebuilding'
  <2>1. Single /\ Rebuilding
    BY <1>14, ZenonT(30) DEF IInv, CallsApart
  <2>2. \A d \in Client \ {c} : pc[d] = "idle"
    BY <2>1, <1>3, ZenonT(30) DEF Single
  <2>3. mem = Replay(wal)
    BY <2>1, <2>2, <1>3, ZenonT(30) DEF Rebuilding
  <2>4. ApplyBatch(mem, job[c]) = Replay(wal')
    BY <2>3, <1>5, <1>6, ReplayAppend, ZenonT(30)
  <2>5. \A s \in Shard : run[s] = Idle /\ \A d \in Client : queue[s][d] = <<>>
    BY <2>2, <1>1, <1>3, IdleClients, ZenonT(30)
  <2> QED
    BY <2>2, <2>4, <2>5, <1>2, <1>4, ZenonT(30) DEF Rebuilding
<1> QED
  BY <1>2, <1>9, <1>10, <1>11, <1>12, <1>13, <1>14, ZenonT(30) DEF IInv, CallsApart

\* submit_to_shard: the call is in a queue.
LEMMA SubmitKeeps ==
  ASSUME IInv, NEW c \in Client, Submit(c)
  PROVE  IInv'
<1>1. Types /\ Places /\ ClientOK(c)
  BY ZenonT(30) DEF IInv, Places
<1>2. UNCHANGED <<clock, wal, mem, run, apc, mut, crashes, mixed>>
  BY ZenonT(30) DEF Submit
<1>3. pc[c] = "logged" /\ IsPair(job[c]) /\ InLog(job[c])
  BY <1>1, ZenonT(30) DEF Submit, ClientOK
<1>3a. PICK task : task = [writes |-> job[c], waiter |-> {c}]
  BY ZenonT(30)
<1>4. PICK s \in Shard : s = TaskShard(job[c][1])
  <2>1. PICK k \in Key, kind \in Kind, t \in 1 .. MaxStamp : job[c] = Pair(k, kind, t)
    BY <1>3, ZenonT(30) DEF IsPair
  <2>2. job[c][1].cell[1] = k
    BY <2>1 DEF Pair
  <2> QED
    BY <2>2, EngineAssumption, ZenonT(30) DEF TaskShard
<1>5. Routed(s, job[c])
  BY <1>4, ZenonT(30) DEF Routed, TaskShard
<1>6. queue[s][c] = <<>> /\ \A z \in Shard : queue[z][c] = <<>> /\ c \notin run[z].waiter
  BY <1>1, <1>3, ZenonT(30) DEF ClientOK
<1>7. task \in Task /\ task.writes = job[c] /\ task.waiter = {c}
  BY <1>1, <1>3a, ZenonT(30) DEF Types, Task
<1>8. queue' = [queue EXCEPT ![s][c] = Append(@, task)]
  BY <1>3a, <1>4, ZenonT(30) DEF Submit
<1>9. /\ queue'[s][c] = <<task>>
      /\ \A z \in Shard, d \in Client : (z # s \/ d # c) => queue'[z][d] = queue[z][d]
  BY <1>1, <1>6, <1>8 DEF Types
<1>10. <<task>> # <<>> /\ <<task>>[1] = task
  BY ZenonT(30)
<1>11. /\ pc'[c] = "wait" /\ job'[c] = <<>>
       /\ \A d \in Client \ {c} : pc'[d] = pc[d] /\ job'[d] = job[d]
  BY <1>1, ZenonT(30) DEF Submit, Types
<1>12. Types'
  <2>1. pc' \in [Client -> {"idle", "stamped", "logged", "wait"}]
    BY <1>1, ZenonT(30) DEF Types, Submit
  <2>2. job' \in [Client -> Seq(CellWrite)]
    BY <1>1 DEF Types, Submit
  <2>3. queue' \in [Shard -> [Client -> Seq(Task)]]
    BY <1>1, <1>7, <1>8 DEF Types
  <2> QED
    BY <1>1, <1>2, <2>1, <2>2, <2>3, ZenonT(30) DEF Types
<1>13. Places'
  <2>1. ASSUME NEW d \in Client PROVE ClientOK(d)'
    <3>1. CASE d = c
      <4>1. \A z \in Shard \ {s} : queue'[z][c] = <<>> /\ c \notin run'[z].waiter
        BY <1>2, <1>6, <1>9, ZenonT(30)
      <4>2. queue'[s][c] # <<>> /\ c \notin run'[s].waiter
        BY <1>2, <1>6, <1>9, <1>10, ZenonT(30)
      <4> QED
        BY <3>1, <4>1, <4>2, <1>11, ClientWaits, ZenonT(30)
    <3>2. CASE d # c
      BY <3>2, <1>1, <1>2, <1>9, <1>11, SameLog, ClientSame, ZenonT(30) DEF Places
    <3> QED
      BY <3>1, <3>2, ZenonT(30)
  <2>2. ASSUME NEW z \in Shard PROVE RunOK(z)'
    BY <1>1, <1>2, SameLog, RunSame, ZenonT(30) DEF Places
  <2>3. ASSUME NEW z \in Shard, NEW d \in Client PROVE QueueOK(z, d)'
    <3>1. CASE z = s /\ d = c
      <4>1. queue'[z][d] = <<task>> /\ queue'[z][d][1] = task
        BY <3>1, <1>9, <1>10, ZenonT(30)
      <4>2. InLog(task.writes)'
        BY <1>2, <1>3, <1>7, SameLog, ZenonT(30) DEF LogKept
      <4> QED
        BY <3>1, <4>1, <4>2, <1>3, <1>5, <1>7, ZenonT(30) DEF QueueOK
    <3>2. CASE z # s \/ d # c
      BY <3>2, <1>1, <1>2, <1>9, SameLog, QueueSame, ZenonT(30) DEF Places
    <3> QED
      BY <3>1, <3>2, ZenonT(30)
  <2> QED
    BY <2>1, <2>2, <2>3, ZenonT(30) DEF Places
<1>14. WriteAhead'
  BY <1>2, SameLog, ZenonT(30) DEF IInv
<1>15. Single => Single'
  BY <1>3, <1>11, ZenonT(30) DEF Single
<1>16. NoDel => NoDel'
  <2>1. job[c] # <<>>
    BY <1>3, PairFacts, ZenonT(30)
  <2>2. ASSUME NoDel PROVE \A d \in Client : job'[d] # <<>> => job'[d][1].kind # "del"
    BY <2>2, <1>11, ZenonT(30) DEF NoDel
  <2>3. ASSUME NoDel, NEW z \in Shard, NEW d \in Client, queue'[z][d] # <<>>
        PROVE  queue'[z][d][1].writes[1].kind # "del"
    <3>1. CASE z = s /\ d = c
      <4>1. queue'[z][d][1].writes = job[c]
        BY <3>1, <1>7, <1>9, <1>10, ZenonT(30)
      <4> QED
        BY <2>1, <2>3, <4>1, ZenonT(30) DEF NoDel
    <3>2. CASE z # s \/ d # c
      <4>1. queue'[z][d] = queue[z][d]
        BY <3>2, <1>9, ZenonT(30)
      <4> QED
        BY <2>3, <4>1, ZenonT(30) DEF NoDel
    <3> QED
      BY <3>1, <3>2, ZenonT(30)
  <2>4. ASSUME NoDel PROVE \A z \in Shard : run'[z] # Idle => run'[z].writes[1].kind # "del"
    BY <2>4, <1>2, ZenonT(30) DEF NoDel
  <2> QED
    BY <2>2, <2>3, <2>4, ZenonT(30) DEF NoDel
<1>17. DelApart'
  BY <1>2, <1>15, <1>16, ZenonT(30) DEF IInv, DelApart, Pairing, Half
<1>18. ASSUME mixed = {} PROVE Rebuilding'
  <2>1. Single /\ Rebuilding
    BY <1>18, ZenonT(30) DEF IInv, CallsApart
  <2>2. \A d \in Client \ {c} : pc[d] = "idle"
    BY <2>1, <1>3, ZenonT(30) DEF Single
  <2>3. ApplyBatch(mem, task.writes) = Replay(wal)
    BY <2>1, <1>3, <1>7, ZenonT(30) DEF Rebuilding
  <2>4. \A z \in Shard : run[z] = Idle /\ \A d \in Client : queue[z][d] = <<>>
    BY <2>2, <1>1, <1>3, IdleClients, ZenonT(30)
  <2>5. \A d \in Client : pc'[d] # "logged"
    BY <2>2, <1>11, ZenonT(30)
  <2>6. ASSUME NEW z \in Shard, NEW d \in Client, queue'[z][d] # <<>>
        PROVE  ApplyBatch(mem', queue'[z][d][1].writes) = Replay(wal')
    <3>1. z = s /\ d = c
      BY <2>4, <2>6, <1>9, ZenonT(30)
    <3> QED
      BY <2>3, <3>1, <1>2, <1>9, <1>10, ZenonT(30)
  <2>7. \A z \in Shard : run'[z] = Idle
    BY <2>4, <1>2, ZenonT(30)
  <2> QED
    BY <2>5, <2>6, <2>7, <1>11, ZenonT(30) DEF Rebuilding
<1> QED
  BY <1>2, <1>12, <1>13, <1>14, <1>15, <1>17, <1>18, ZenonT(30) DEF IInv, CallsApart

-----------------------------------------------------------------------------
\* Steps of the threads of the shards

\* A thread takes a task: the call is with it.
LEMMA DequeueKeeps ==
  ASSUME IInv, NEW s \in Shard, NEW c \in Client, Dequeue(s, c)
  PROVE  IInv'
<1>1. Types /\ Places /\ ClientOK(c) /\ QueueOK(s, c)
  BY ZenonT(30) DEF IInv, Places
<1>2. UNCHANGED <<clock, wal, mem, pc, job, apc, mut, crashes, mixed>>
  BY ZenonT(30) DEF Dequeue
<1>3. run[s] = Idle /\ queue[s][c] # <<>>
  BY ZenonT(30) DEF Dequeue
<1>4. PICK task : task = queue[s][c][1]
  BY ZenonT(30)
<1>5. /\ queue[s][c] = <<task>> /\ task.waiter = {c}
      /\ IsPair(task.writes) /\ InLog(task.writes) /\ Routed(s, task.writes)
  BY <1>1, <1>3, <1>4, ZenonT(30) DEF QueueOK
<1>6. Head(<<task>>) = task /\ Tail(<<task>>) = <<>> /\ <<task>>[1] = task
  OBVIOUS
<1>7. /\ run'[s] = task /\ queue'[s][c] = <<>>
      /\ \A z \in Shard \ {s} : run'[z] = run[z]
      /\ \A z \in Shard, d \in Client : (z # s \/ d # c) => queue'[z][d] = queue[z][d]
  BY <1>1, <1>5, <1>6, ZenonT(30) DEF Dequeue, Types
<1>8. task \in Task
  <2>1. queue[s][c] \in Seq(Task)
    BY <1>1 DEF Types
  <2> QED
    BY <2>1, <1>5, <1>6, HeadTailProperties, <1>3, SMTT(30)
<1>9. Types'
  <2>1. run' \in [Shard -> Task]
    BY <1>1, <1>5, <1>6, <1>8, ZenonT(30) DEF Types, Dequeue
  <2>2. queue' \in [Shard -> [Client -> Seq(Task)]]
    <3>1. queue' = [queue EXCEPT ![s][c] = <<>>]
      BY <1>5, <1>6, ZenonT(30) DEF Dequeue
    <3> QED
      BY <3>1, <1>1 DEF Types
  <2> QED
    BY <1>1, <1>2, <2>1, <2>2, ZenonT(30) DEF Types
<1>10. pc[c] = "wait" /\ \A z \in Shard : c \notin run[z].waiter /\ (z # s => queue[z][c] = <<>>)
  BY <1>1, <1>3, ZenonT(30) DEF ClientOK
<1>11. run[s].waiter = {}
  BY <1>3 DEF Idle
<1>12. Places'
  <2>1. ASSUME NEW d \in Client PROVE ClientOK(d)'
    <3>1. CASE d = c
      <4>1. pc'[c] = "wait" /\ job'[c] = <<>>
        BY <1>1, <1>2, <1>10, ZenonT(30) DEF ClientOK
      <4>2. /\ c \in run'[s].waiter
            /\ \A z \in Shard \ {s} : queue'[z][c] = <<>> /\ c \notin run'[z].waiter
        BY <1>5, <1>7, <1>10, ZenonT(30)
      <4> QED
        BY <3>1, <4>1, <4>2, <1>7, ClientWaits, ZenonT(30)
    <3>2. CASE d # c
      <4>1. \A z \in Shard : d \in run'[z].waiter <=> d \in run[z].waiter
        BY <3>2, <1>5, <1>7, <1>11, ZenonT(30)
      <4> QED
        BY <3>2, <4>1, <1>1, <1>2, <1>7, SameLog, ClientSame, ZenonT(30) DEF Places
    <3> QED
      BY <3>1, <3>2, ZenonT(30)
  <2>2. ASSUME NEW z \in Shard PROVE RunOK(z)'
    <3>1. CASE z = s
      BY <3>1, <1>2, <1>5, <1>7, ZenonT(30) DEF RunOK, InLog
    <3>2. CASE z # s
      BY <3>2, <1>1, <1>2, <1>7, SameLog, RunSame, ZenonT(30) DEF Places
    <3> QED
      BY <3>1, <3>2, ZenonT(30)
  <2>3. ASSUME NEW z \in Shard, NEW d \in Client PROVE QueueOK(z, d)'
    <3>1. CASE z = s /\ d = c
      BY <3>1, <1>7, ZenonT(30) DEF QueueOK
    <3>2. CASE z # s \/ d # c
      BY <3>2, <1>1, <1>2, <1>7, SameLog, QueueSame, ZenonT(30) DEF Places
    <3> QED
      BY <3>1, <3>2, ZenonT(30)
  <2> QED
    BY <2>1, <2>2, <2>3, ZenonT(30) DEF Places
<1>13. WriteAhead'
  BY <1>2, SameLog, ZenonT(30) DEF IInv
<1>14. Single => Single'
  BY <1>2, ZenonT(30) DEF Single
<1>15. NoDel => NoDel'
  <2>1. ASSUME NoDel, NEW z \in Shard, run'[z] # Idle PROVE run'[z].writes[1].kind # "del"
    <3>1. CASE z = s
      <4>1. queue[s][c][1].writes[1].kind # "del"
        BY <2>1, <1>3, ZenonT(30) DEF NoDel
      <4> QED
        BY <3>1, <4>1, <1>4, <1>7, ZenonT(30)
    <3>2. CASE z # s
      BY <2>1, <3>2, <1>7, ZenonT(30) DEF NoDel
    <3> QED
      BY <3>1, <3>2, ZenonT(30)
  <2>2. ASSUME NoDel, NEW z \in Shard, NEW d \in Client, queue'[z][d] # <<>>
        PROVE  queue'[z][d][1].writes[1].kind # "del"
    <3>1. queue'[z][d] = queue[z][d]
      BY <2>2, <1>7, ZenonT(30)
    <3> QED
      BY <2>2, <3>1, ZenonT(30) DEF NoDel
  <2>3. ASSUME NoDel PROVE \A d \in Client : job'[d] # <<>> => job'[d][1].kind # "del"
    BY <2>3, <1>2, ZenonT(30) DEF NoDel
  <2> QED
    BY <2>1, <2>2, <2>3, ZenonT(30) DEF NoDel
<1>16. Len(run[s].writes) = 0 /\ Len(task.writes) = 2
  BY <1>3, <1>5, PairFacts DEF Idle
<1>17. Pairing => Pairing'
  <2>1. ~Half(s) /\ ~Half(s)'
    BY <1>7, <1>16 DEF Half
  <2>2. ASSUME NEW z \in Shard, z # s PROVE run'[z] = run[z] /\ (Half(z)' <=> Half(z))
    BY <2>2, <1>7, ZenonT(30) DEF Half
  <2> QED
    BY <2>1, <2>2, <1>2, ZenonT(30) DEF Pairing
<1>18. DelApart'
  BY <1>2, <1>14, <1>15, <1>17, ZenonT(30) DEF IInv, DelApart
<1>19. Rebuilding => Rebuilding'
  <2>1. ASSUME Rebuilding, NEW z \in Shard, run'[z] # Idle
        PROVE  ApplyBatch(mem', run'[z].writes) = Replay(wal')
    <3>1. CASE z = s
      <4>1. ApplyBatch(mem, queue[s][c][1].writes) = Replay(wal)
        BY <2>1, <1>3, ZenonT(30) DEF Rebuilding
      <4> QED
        BY <3>1, <4>1, <1>2, <1>4, <1>7, ZenonT(30)
    <3>2. CASE z # s
      BY <2>1, <3>2, <1>2, <1>7, ZenonT(30) DEF Rebuilding
    <3> QED
      BY <3>1, <3>2, ZenonT(30)
  <2>2. ASSUME Rebuilding, NEW z \in Shard, NEW d \in Client, queue'[z][d] # <<>>
        PROVE  ApplyBatch(mem', queue'[z][d][1].writes) = Replay(wal')
    <3>1. queue'[z][d] = queue[z][d]
      BY <2>2, <1>7, ZenonT(30)
    <3> QED
      BY <2>2, <3>1, <1>2, ZenonT(30) DEF Rebuilding
  <2>3. ASSUME Rebuilding
        PROVE  /\ (\A d \in Client : pc'[d] \in {"idle", "stamped"}) => mem' = Replay(wal')
               /\ \A d \in Client : pc'[d] = "logged" => ApplyBatch(mem', job'[d]) = Replay(wal')
    BY <2>3, <1>2, ZenonT(30) DEF Rebuilding
  <2> QED
    BY <2>1, <2>2, <2>3, ZenonT(30) DEF Rebuilding
<1> QED
  BY <1>2, <1>9, <1>12, <1>13, <1>14, <1>18, <1>19, ZenonT(30) DEF IInv, CallsApart

\* One write of a call.
IsWrite(w) ==
  \E c \in Cell, kind \in Kind, t \in 1 .. MaxStamp :
    w = [cell |-> c, kind |-> kind, stamp |-> t]

\* The writes of a pair.
LEMMA PairWrites ==
  ASSUME NEW k \in Key, NEW kind \in Kind, NEW t \in 1 .. MaxStamp
  PROVE  IsWrite(Pair(k, kind, t)[1]) /\ IsWrite(Pair(k, kind, t)[2])
<1>1. <<k, "val">> \in Cell /\ <<k, "meta">> \in Cell
  BY ZenonT(30) DEF Cell
<1>2. /\ Pair(k, kind, t)[1] = [cell |-> <<k, "val">>, kind |-> kind, stamp |-> t]
      /\ Pair(k, kind, t)[2] = [cell |-> <<k, "meta">>, kind |-> kind, stamp |-> t]
  BY ZenonT(30) DEF Pair
<1> QED
  BY <1>1, <1>2, ZenonT(30) DEF IsWrite

\* The write a thread applies is in the log.
LEMMA HeadLogged ==
  ASSUME IInv, NEW s \in Shard, run[s] # Idle
  PROVE  /\ IsWrite(Head(run[s].writes))
         /\ Head(run[s].writes).stamp \in Logged(Head(run[s].writes).cell)
<1> DEFINE ws == run[s].writes
           w == Head(ws)
<1>1. Types /\ (IsPair(ws) \/ IsRest(ws)) /\ InLog(ws)
  BY ZenonT(30) DEF IInv, Places, RunOK
<1> HIDE DEF ws
<1>2. Head(ws) = ws[1]
  BY <1>1, PairFacts, RestFacts, ZenonT(30)
<1>3. IsWrite(w)
  <2>1. CASE IsPair(ws)
    BY <2>1, <1>2, PairWrites, ZenonT(30) DEF IsPair
  <2>2. CASE IsRest(ws)
    <3>1. PICK k \in Key, kind \in Kind, t \in 1 .. MaxStamp : ws = <<Pair(k, kind, t)[2]>>
      BY <2>2, ZenonT(30) DEF IsRest
    <3>2. w = Pair(k, kind, t)[2]
      BY <3>1, <1>2, ZenonT(30)
    <3> QED
      BY <3>2, PairWrites, ZenonT(30)
  <2> QED
    BY <1>1, <2>1, <2>2, ZenonT(30)
<1>4. PICK i \in DOMAIN wal : wal[i] = ws \/ (Len(ws) = 1 /\ wal[i][2] = ws[1])
  BY <1>1, ZenonT(30) DEF InLog
<1>5. \E j \in 1 .. 2 : w = wal[i][j]
  BY <1>2, <1>4
<1>6. w.stamp \in Logged(w.cell)
  BY <1>1, <1>5, LoggedBy, ZenonT(30)
<1> QED
  BY <1>3, <1>6, ZenonT(30) DEF ws

\* A logged write keeps memory within the log.
LEMMA ApplyLogged ==
  ASSUME WriteAhead, mem \in Memory, UNCHANGED wal, NEW w, IsWrite(w),
         w.stamp \in Logged(w.cell), mem' = Apply(mem, w)
  PROVE  WriteAhead' /\ mem' \in Memory
<1>1. PICK c \in Cell, kind \in Kind, t \in 1 .. MaxStamp :
        w = [cell |-> c, kind |-> kind, stamp |-> t]
  BY ZenonT(30) DEF IsWrite
<1>2. t \in Logged(c)
  BY <1>1, ZenonT(30)
<1>3. /\ mem' \in Memory /\ mem'[c] = Changed(mem[c], kind, t)
      /\ \A d \in Cell : d # c => mem'[d] = mem[d]
  BY <1>1, ApplyAt
<1>4. \A d \in Cell : Logged(d)' = Logged(d)
  BY ZenonT(30) DEF Logged
<1>5. mem'[c].base \in {t, mem[c].base} /\ mem'[c].patch \in {t, 0}
  BY <1>3 DEF Changed
<1>6. ASSUME NEW d \in Cell PROVE {mem'[d].base, mem'[d].patch} \subseteq Logged(d) \cup {0}
  <2>1. {mem[d].base, mem[d].patch} \subseteq Logged(d) \cup {0}
    BY ZenonT(30) DEF WriteAhead
  <2>2. CASE d = c
    BY <2>1, <2>2, <1>2, <1>5, ZenonT(30)
  <2>3. CASE d # c
    BY <2>1, <2>3, <1>3, ZenonT(30)
  <2> QED
    BY <2>2, <2>3, ZenonT(30)
<1> QED
  BY <1>3, <1>4, <1>6, ZenonT(30) DEF WriteAhead

\* While no del overlaps another call, one thread at most has a task.
LEMMA OneThread ==
  ASSUME Places, NoDel \/ Single, NEW s \in Shard, NEW z \in Shard, run[s] # Idle, run[z] # Idle
  PROVE  s = z
<1>1. RunOK(s) /\ RunOK(z)
  BY ZenonT(30) DEF Places
<1>2. CASE NoDel
  BY <1>1, <1>2, ZenonT(30) DEF NoDel, RunOK, Routed
<1>3. CASE Single
  <2>1. PICK c \in Client : run[s].waiter = {c} /\ pc[c] = "wait"
    BY IdleClients, ZenonT(30)
  <2>2. PICK d \in Client : run[z].waiter = {d} /\ pc[d] = "wait"
    BY IdleClients, ZenonT(30)
  <2>3. c = d
    BY <1>3, <2>1, <2>2, ZenonT(30) DEF Single
  <2> QED
    BY <2>1, <2>2, <2>3, ZenonT(30) DEF Places, ClientOK
<1> QED
  BY <1>2, <1>3, ZenonT(30)

\* The value of a call is applied, and the meta is left.
LEMMA FirstKeeps ==
  ASSUME IInv, NEW s \in Shard, RunTask(s), run[s] # Idle, IsPair(run[s].writes)
  PROVE  IInv'
<1> DEFINE ws == run[s].writes
<1>1. Types /\ Places /\ RunOK(s)
  BY ZenonT(30) DEF IInv, Places
<1>2. /\ ws # <<>> /\ Len(ws) = 2 /\ Head(ws) = ws[1] /\ Tail(ws) = <<ws[2]>>
      /\ ws = <<ws[1], ws[2]>> /\ IsRest(Tail(ws)) /\ ws[1].kind = ws[2].kind
  BY PairFacts, ZenonT(30)
<1>3. Tail(ws) # <<>> /\ Tail(ws)[1] = ws[2] /\ Len(Tail(ws)) = 1 /\ Tail(ws) \in Seq(CellWrite)
  BY <1>2, RestFacts, ZenonT(30)
<1>4. UNCHANGED <<clock, wal, job, queue, apc, mut, crashes, mixed>> /\ mem' = Apply(mem, ws[1])
  BY <1>2, ZenonT(30) DEF RunTask
<1>5. PICK r : r = [run[s] EXCEPT !.writes = Tail(ws)]
  BY ZenonT(30)
<1>6. run[s] \in Task
  BY <1>1, ZenonT(30) DEF Types
<1>7. r \in Task /\ r.writes = Tail(ws) /\ r.waiter = run[s].waiter
  BY <1>3, <1>5, <1>6, ZenonT(30) DEF Task
<1>8. run' = [run EXCEPT ![s] = r]
  BY <1>3, <1>5, ZenonT(30) DEF RunTask
<1>9. pc' = pc
  BY <1>1, <1>3, ZenonT(30) DEF RunTask, Types
<1> HIDE DEF ws
<1>10. run'[s] = r /\ r # Idle /\ \A z \in Shard \ {s} : run'[z] = run[z]
  <2>1. r # Idle
    BY <1>3, <1>7 DEF Idle
  <2> QED
    BY <2>1, <1>1, <1>8, ZenonT(30) DEF Types
<1>11. WriteAhead' /\ mem' \in Memory
  <2>1. IsWrite(ws[1]) /\ ws[1].stamp \in Logged(ws[1].cell)
    BY <1>2, HeadLogged, ZenonT(30) DEF ws
  <2>2. WriteAhead /\ mem \in Memory
    BY <1>1, ZenonT(30) DEF IInv, Types
  <2> QED
    BY <2>1, <2>2, <1>4, ApplyLogged, ZenonT(30)
<1>12. Types'
  BY <1>1, <1>4, <1>7, <1>8, <1>9, <1>11, ZenonT(30) DEF Types
<1>13. Places'
  <2>1. \A z \in Shard : run'[z].waiter = run[z].waiter
    BY <1>7, <1>10, ZenonT(30)
  <2>2. ASSUME NEW d \in Client PROVE ClientOK(d)'
    BY <2>1, <1>1, <1>4, <1>9, SameLog, ClientSame, ZenonT(30) DEF Places
  <2>3. RunOK(s)'
    <3>1. InLog(r.writes)'
      <4>1. PICK i \in DOMAIN wal : wal[i] = ws \/ (Len(ws) = 1 /\ wal[i][2] = ws[1])
        BY <1>1, ZenonT(30) DEF RunOK, InLog, ws
      <4>2. wal[i][2] = r.writes[1] /\ Len(r.writes) = 1
        BY <4>1, <1>2, <1>3, <1>7, ZenonT(30)
      <4> QED
        BY <4>2, <1>4, ZenonT(30) DEF InLog
    <3>2. Routed(s, r.writes)
      BY <1>1, <1>2, <1>3, <1>7, ZenonT(30) DEF RunOK, Routed, ws
    <3> QED
      BY <3>1, <3>2, <1>1, <1>2, <1>7, <1>10, ZenonT(30) DEF RunOK
  <2>4. ASSUME NEW z \in Shard, z # s PROVE RunOK(z)'
    BY <2>4, <1>1, <1>4, <1>10, SameLog, RunSame, ZenonT(30) DEF Places
  <2>5. ASSUME NEW z \in Shard, NEW d \in Client PROVE QueueOK(z, d)'
    BY <1>1, <1>4, SameLog, QueueSame, ZenonT(30) DEF Places
  <2> QED
    BY <2>2, <2>3, <2>4, <2>5, ZenonT(30) DEF Places
<1>14. Single => Single'
  BY <1>9, ZenonT(30) DEF Single
<1>15. NoDel => NoDel'
  <2> SUFFICES ASSUME NoDel PROVE NoDel'
    BY ZenonT(30)
  <2>1. ASSUME NEW z \in Shard, run'[z] # Idle PROVE run'[z].writes[1].kind # "del"
    <3>1. CASE z = s
      <4>1. run'[z].writes[1] = ws[2]
        BY <3>1, <1>3, <1>7, <1>10, ZenonT(30)
      <4>2. ws[1].kind # "del"
        BY ZenonT(30) DEF NoDel, ws
      <4> QED
        BY <4>1, <4>2, <1>2, ZenonT(30)
    <3>2. CASE z # s
      BY <3>2, <2>1, <1>10, ZenonT(30) DEF NoDel
    <3> QED
      BY <3>1, <3>2, ZenonT(30)
  <2> QED
    BY <2>1, <1>4, ZenonT(30) DEF NoDel
<1>16. ASSUME "del" \notin mixed PROVE Pairing'
  <2>1. (NoDel \/ Single) /\ Pairing
    BY <1>16, ZenonT(30) DEF IInv, DelApart
  <2>2. ASSUME NEW z \in Shard, z # s PROVE run[z] = Idle
    BY <2>1, <2>2, <1>1, OneThread, ZenonT(30)
  <2>3. Len(Idle.writes) = 0
    BY ZenonT(30) DEF Idle
  <2>4. \A z \in Shard : ~Half(z)
    <3>1. Len(run[s].writes) = 2
      BY <1>2, ZenonT(30) DEF ws
    <3> QED
      BY <2>2, <2>3, <3>1 DEF Half
  <2>5. PairedMemory(mem)
    BY <2>1, <2>4, ZenonT(30) DEF Pairing
  <2>6. PairedMemory(Apply(mem', ws[2]))
    BY <2>5, <1>1, <1>4, PairKeepsPaired, ZenonT(30) DEF Types, ws
  <2>7. Half(s)' /\ run'[s].writes[1] = ws[2]
    BY <1>3, <1>7, <1>10, ZenonT(30) DEF Half
  <2>8. ASSUME NEW z \in Shard, z # s PROVE ~Half(z)'
    <3>1. run'[z].writes = Idle.writes
      BY <2>2, <2>8, <1>10, ZenonT(30)
    <3>2. Len(run'[z].writes) = 0
      BY <2>3, <3>1, ZenonT(30)
    <3> QED
      BY <3>2 DEF Half
  <2> QED
    BY <2>6, <2>7, <2>8, ZenonT(30) DEF Pairing
<1>17. ASSUME mixed = {} PROVE Rebuilding'
  <2>1. Single /\ Rebuilding
    BY <1>17, ZenonT(30) DEF IInv, CallsApart
  <2>2. PICK c \in Client : run[s].waiter = {c} /\ pc[c] = "wait"
    BY <1>1, IdleClients, ZenonT(30)
  <2>3. \A d \in Client \ {c} : pc[d] = "idle"
    BY <2>1, <2>2, ZenonT(30) DEF Single
  <2>4. \A z \in Shard, d \in Client : queue[z][d] = <<>>
    BY <2>2, <2>3, <1>1, IdleClients, ZenonT(30) DEF Places, ClientOK
  <2>5. ASSUME NEW z \in Shard, z # s PROVE run[z] = Idle
    BY <2>1, <2>5, <1>1, OneThread, ZenonT(30)
  <2>6. ApplyBatch(mem, ws) = Replay(wal)
    BY <2>1, ZenonT(30) DEF Rebuilding, ws
  <2>7. ApplyBatch(mem, <<ws[1], ws[2]>>) = Apply(mem', ws[2])
    BY <1>4, PairApplied
  <2>8. ApplyBatch(mem', <<ws[2]>>) = Apply(mem', ws[2])
    BY RestApplied, ZenonT(30)
  <2>9. ApplyBatch(mem', r.writes) = Replay(wal)
    BY <2>6, <2>7, <2>8, <1>2, <1>7, ZenonT(30)
  <2> QED
    BY <2>2, <2>3, <2>4, <2>5, <2>9, <1>4, <1>9, <1>10, ZenonT(30) DEF Rebuilding
<1> QED
  BY <1>4, <1>11, <1>12, <1>13, <1>14, <1>15, <1>16, <1>17, ZenonT(30) DEF IInv, DelApart, CallsApart

\* The meta of a call is applied, and its caller goes on.
LEMMA LastKeeps ==
  ASSUME IInv, NEW s \in Shard, RunTask(s), run[s] # Idle, IsRest(run[s].writes)
  PROVE  IInv'
<1> DEFINE ws == run[s].writes
<1>1. Types /\ Places /\ RunOK(s)
  BY ZenonT(30) DEF IInv, Places
<1>2. ws # <<>> /\ Len(ws) = 1 /\ Head(ws) = ws[1] /\ Tail(ws) = <<>> /\ ws = <<ws[1]>>
  BY RestFacts, ZenonT(30)
<1>3. PICK c \in Client : run[s].waiter = {c} /\ pc[c] = "wait"
  BY <1>1, IdleClients, ZenonT(30)
<1>4. UNCHANGED <<clock, wal, job, queue, apc, mut, crashes, mixed>> /\ mem' = Apply(mem, ws[1])
  BY <1>2, ZenonT(30) DEF RunTask
<1>5. run' = [run EXCEPT ![s] = Idle]
  BY <1>2, ZenonT(30) DEF RunTask
<1>6. pc' = [d \in Client |-> IF d = c THEN "idle" ELSE pc[d]]
  BY <1>2, <1>3, ZenonT(30) DEF RunTask, Wakes
<1> HIDE DEF ws
<1>7. run'[s] = Idle /\ \A z \in Shard \ {s} : run'[z] = run[z]
  BY <1>1, <1>5, ZenonT(30) DEF Types
<1>8. pc'[c] = "idle" /\ \A d \in Client \ {c} : pc'[d] = pc[d]
  BY <1>6, ZenonT(30)
<1>9. Idle \in Task /\ Idle.waiter = {} /\ Len(Idle.writes) = 0
  BY DEF Idle, Task
<1>10. ClientOK(c)
  BY <1>1, ZenonT(30) DEF Places
<1>11. \A z \in Shard : queue[z][c] = <<>> /\ (z # s => c \notin run[z].waiter)
  BY <1>3, <1>10, ZenonT(30) DEF ClientOK
<1>12. WriteAhead' /\ mem' \in Memory
  <2>1. IsWrite(ws[1]) /\ ws[1].stamp \in Logged(ws[1].cell)
    BY <1>2, HeadLogged, ZenonT(30) DEF ws
  <2>2. WriteAhead /\ mem \in Memory
    BY <1>1, ZenonT(30) DEF IInv, Types
  <2> QED
    BY <2>1, <2>2, <1>4, ApplyLogged, ZenonT(30)
<1>13. Types'
  <2>1. pc' \in [Client -> {"idle", "stamped", "logged", "wait"}]
    BY <1>1, <1>6, ZenonT(30) DEF Types
  <2>2. run' \in [Shard -> Task]
    BY <1>1, <1>5, <1>9, ZenonT(30) DEF Types
  <2> QED
    BY <2>1, <2>2, <1>1, <1>4, <1>12, ZenonT(30) DEF Types
<1>14. Places'
  <2>1. ClientOK(c)'
    <3>1. \A z \in Shard : queue'[z][c] = <<>> /\ c \notin run'[z].waiter
      BY <1>4, <1>7, <1>9, <1>11, ZenonT(30)
    <3>2. job'[c] = <<>>
      BY <1>3, <1>4, <1>10, ZenonT(30) DEF ClientOK
    <3> QED
      BY <3>1, <3>2, <1>8, ZenonT(30) DEF ClientOK
  <2>2. ASSUME NEW d \in Client, d # c PROVE ClientOK(d)'
    <3>1. d \notin run[s].waiter /\ d \notin run'[s].waiter
      BY <2>2, <1>3, <1>7, <1>9, ZenonT(30)
    <3>2. \A z \in Shard : d \in run'[z].waiter <=> d \in run[z].waiter
      BY <3>1, <1>7, ZenonT(30)
    <3> QED
      BY <2>2, <3>2, <1>1, <1>4, <1>8, SameLog, ClientSame, ZenonT(30) DEF Places
  <2>3. ASSUME NEW z \in Shard PROVE RunOK(z)'
    <3>1. CASE z = s
      BY <3>1, <1>7, ZenonT(30) DEF RunOK
    <3>2. CASE z # s
      BY <3>2, <1>1, <1>4, <1>7, SameLog, RunSame, ZenonT(30) DEF Places
    <3> QED
      BY <3>1, <3>2, ZenonT(30)
  <2>4. ASSUME NEW z \in Shard, NEW d \in Client PROVE QueueOK(z, d)'
    BY <1>1, <1>4, SameLog, QueueSame, ZenonT(30) DEF Places
  <2> QED
    BY <2>1, <2>2, <2>3, <2>4, ZenonT(30) DEF Places
<1>15. Single => Single'
  BY <1>8, ZenonT(30) DEF Single
<1>16. NoDel => NoDel'
  BY <1>4, <1>7, ZenonT(30) DEF NoDel
<1>17. ASSUME "del" \notin mixed PROVE Pairing'
  <2>1. (NoDel \/ Single) /\ Pairing
    BY <1>17, ZenonT(30) DEF IInv, DelApart
  <2>2. \A z \in Shard : run'[z] = Idle
    BY <2>1, <1>1, <1>7, OneThread, ZenonT(30)
  <2>3. \A z \in Shard : ~Half(z)'
    BY <2>2, <1>9 DEF Half
  <2>4. PairedMemory(mem')
    BY <2>1, <1>2, <1>4, ZenonT(30) DEF Pairing, Half, ws
  <2> QED
    BY <2>3, <2>4, ZenonT(30) DEF Pairing
<1>18. ASSUME mixed = {} PROVE Rebuilding'
  <2>1. Single /\ Rebuilding
    BY <1>18, ZenonT(30) DEF IInv, CallsApart
  <2>2. \A d \in Client : pc'[d] = "idle"
    BY <2>1, <1>3, <1>8, ZenonT(30) DEF Single
  <2>3. \A z \in Shard : run'[z] = Idle
    BY <2>1, <1>1, <1>7, OneThread, ZenonT(30)
  <2>4. \A z \in Shard, d \in Client : queue'[z][d] = <<>>
    BY <2>1, <1>1, <1>3, <1>4, <1>11, IdleClients, ZenonT(30) DEF Single
  <2>5. mem' = Replay(wal)
    <3>1. ApplyBatch(mem, ws) = Replay(wal)
      BY <2>1, ZenonT(30) DEF Rebuilding, ws
    <3> QED
      BY <3>1, <1>2, <1>4, RestApplied, ZenonT(30)
  <2> QED
    BY <2>2, <2>3, <2>4, <2>5, <1>4, ZenonT(30) DEF Rebuilding
<1> QED
  BY <1>4, <1>12, <1>13, <1>14, <1>15, <1>16, <1>17, <1>18, ZenonT(30) DEF IInv, DelApart, CallsApart

\* A thread with a task applies its next write.
LEMMA RunTaskKeeps ==
  ASSUME IInv, NEW s \in Shard, RunTask(s)
  PROVE  IInv'
<1>1. run[s] # Idle
  BY DEF RunTask, Idle
<1>2. IsPair(run[s].writes) \/ IsRest(run[s].writes)
  BY <1>1, ZenonT(30) DEF IInv, Places, RunOK
<1> QED
  BY <1>1, <1>2, FirstKeeps, LastKeeps, ZenonT(30)

-----------------------------------------------------------------------------
\* Restarts

\* A prefix of the log, and a memory of it.
LEMMA PrefixGood ==
  ASSUME Types, NEW n \in 0 .. Len(wal)
  PROVE  /\ SubSeq(wal, 1, n) \in Seq(Seq(CellWrite))
         /\ \A i \in DOMAIN SubSeq(wal, 1, n) : IsPair(SubSeq(wal, 1, n)[i])
         /\ GoodLog(SubSeq(wal, 1, n))
<1> DEFINE p == SubSeq(wal, 1, n)
<1>1. wal \in Seq(Seq(CellWrite)) /\ \A i \in DOMAIN wal : IsPair(wal[i])
  BY ZenonT(30) DEF Types
<1>2. Len(wal) \in Nat /\ DOMAIN wal = 1 .. Len(wal)
  BY <1>1, LenProperties, ZenonT(30)
<1>3. p \in Seq(Seq(CellWrite)) /\ Len(p) = n /\ \A i \in 1 .. n : p[i] = wal[i]
  <2>1. n \in Nat /\ n - 1 + 1 = n
    BY <1>2
  <2>2. p \in Seq(Seq(CellWrite))
    BY <1>1, <1>2, SubSeqProperties
  <2>3. Len(p) = n /\ \A i \in 1 .. n : p[i] = wal[i]
    BY <1>1, <1>2, <2>1, SubSeqProperties
  <2> QED
    BY <2>2, <2>3, ZenonT(30)
<1> HIDE DEF p
<1>4. DOMAIN p = 1 .. n
  BY <1>3, LenProperties, ZenonT(30)
<1>5. \A i \in DOMAIN p : IsPair(p[i])
  BY <1>1, <1>2, <1>3, <1>4
<1>6. GoodLog(p)
  BY <1>3, <1>5, GoodLogs, ZenonT(30)
<1> QED
  BY <1>3, <1>5, <1>6, ZenonT(30) DEF p

\* The constructor replays a prefix of the log, and no call is in progress.
LEMMA RestartKeeps ==
  ASSUME IInv, Restart
  PROVE  IInv'
<1>1. Types
  BY ZenonT(30) DEF IInv
<1>2. PICK n \in 0 .. Len(wal) : wal' = SubSeq(wal, 1, n) /\ mem' = Replay(wal')
  BY ZenonT(30) DEF Restart
<1>3. /\ wal' \in Seq(Seq(CellWrite)) /\ \A i \in DOMAIN wal' : IsPair(wal'[i])
      /\ GoodLog(wal')
  BY <1>1, <1>2, PrefixGood, ZenonT(30)
<1>4. /\ pc' = [c \in Client |-> "idle"] /\ job' = [c \in Client |-> <<>>]
      /\ queue' = [s \in Shard |-> [c \in Client |-> <<>>]]
      /\ run' = [s \in Shard |-> Idle] /\ apc' = [a \in Applier |-> "idle"]
      /\ mixed' = {} /\ UNCHANGED <<clock, mut>>
  BY ZenonT(30) DEF Restart
<1>5. Idle \in Task /\ Idle.waiter = {} /\ Len(Idle.writes) = 0
  BY DEF Idle, Task
<1>6. Types'
  <2>1. crashes' \in 0 .. MaxCrashes
    BY <1>1, EngineAssumption DEF Restart, Types
  <2>2. mem' \in Memory
    BY <1>2, <1>3, ZenonT(30) DEF GoodLog
  <2>3. job' \in [Client -> Seq(CellWrite)] /\ queue' \in [Shard -> [Client -> Seq(Task)]]
    BY <1>4
  <2> QED
    BY <2>1, <2>2, <2>3, <1>1, <1>3, <1>4, <1>5, ZenonT(30) DEF Types
<1>7. Places'
  <2>1. /\ \A c \in Client : pc'[c] = "idle" /\ job'[c] = <<>>
        /\ \A s \in Shard : run'[s] = Idle /\ \A c \in Client : queue'[s][c] = <<>>
    BY <1>4, ZenonT(30)
  <2>2. ASSUME NEW c \in Client PROVE ClientOK(c)'
    BY <2>1, <1>5, ZenonT(30) DEF ClientOK
  <2>3. \A s \in Shard : RunOK(s)'
    BY <2>1, ZenonT(30) DEF RunOK
  <2>4. \A s \in Shard, c \in Client : QueueOK(s, c)'
    BY <2>1, ZenonT(30) DEF QueueOK
  <2> QED
    BY <2>2, <2>3, <2>4, ZenonT(30) DEF Places
<1>8. WriteAhead'
  <2> SUFFICES ASSUME NEW c \in Cell, NEW t \in {mem'[c].base, mem'[c].patch} \ {0}
               PROVE  t \in Logged(c)'
    BY ZenonT(30) DEF WriteAhead
  <2>1. PICK i \in 1 .. Len(wal'), j \in 1 .. 2 : wal'[i][j].cell = c /\ wal'[i][j].stamp = t
    <3> DEFINE Has(d, u) ==
          \E i \in 1 .. Len(wal'), j \in 1 .. 2 : wal'[i][j].cell = d /\ wal'[i][j].stamp = u
    <3>1. \A d \in Cell : \A u \in {mem'[d].base, mem'[d].patch} \ {0} : Has(d, u)
      BY <1>2, <1>3, ZenonT(30) DEF GoodLog
    <3> HIDE DEF Has
    <3>2. Has(c, t)
      BY <3>1, ZenonT(30)
    <3> QED
      BY <3>2, ZenonT(30) DEF Has
  <2>2. i \in DOMAIN wal'
    BY <1>3, LenProperties, ZenonT(30)
  <2>3. (wal[i][j].stamp \in Logged(wal[i][j].cell))'
    <3>1. DOMAIN wal'[i] = 1 .. 2
      BY <1>3, <2>2, PairFacts, ZenonT(30)
    <3>2. wal'[i][j] \in Range(wal'[i])
      BY <3>1, ZenonT(30) DEF Range
    <3>3. wal'[i][j] \in UNION {Range(wal'[m]) : m \in DOMAIN wal'}
      BY <3>2, <2>2, ZenonT(30)
    <3> QED
      BY <3>3, ZenonT(30) DEF Logged
  <2> QED
    BY <2>1, <2>3, ZenonT(30)
<1>9. DelApart'
  <2>1. Single'
    BY <1>4, ZenonT(30) DEF Single
  <2>2. \A s \in Shard : ~Half(s)'
    BY <1>4, <1>5, SMTT(30) DEF Half
  <2>3. PairedMemory(mem')
    BY <1>2, <1>3, ZenonT(30) DEF GoodLog
  <2> QED
    BY <2>1, <2>2, <2>3, ZenonT(30) DEF DelApart, Pairing
<1>10. CallsApart'
  BY <1>2, <1>4, ZenonT(30) DEF CallsApart, Single, Rebuilding
<1> QED
  BY <1>6, <1>7, <1>8, <1>9, <1>10, ZenonT(30) DEF IInv

-----------------------------------------------------------------------------
\* The theorems

\* A new engine has an empty log and nothing in progress.
LEMMA InitInvariant ==
  ASSUME LocalCalls, Init
  PROVE  IInv
<1>1. /\ clock = 0 /\ wal = <<>> /\ mem = Fresh /\ crashes = 0 /\ mixed = {}
      /\ pc = [c \in Client |-> "idle"] /\ job = [c \in Client |-> <<>>]
      /\ queue = [s \in Shard |-> [c \in Client |-> <<>>]]
      /\ run = [s \in Shard |-> Idle] /\ apc = [a \in Applier |-> "idle"]
  BY ZenonT(30) DEF Init
<1>2. Idle \in Task /\ Idle.waiter = {} /\ Len(Idle.writes) = 0
  BY DEF Idle, Task
<1>3. Fresh \in Memory /\ \A c \in Cell : Fresh[c].base = 0 /\ Fresh[c].patch = 0
  BY EngineAssumption DEF Fresh, Blank, Memory, Stamps
<1>4. Types
  <2>1. mut \in [Applier -> [key : Key, stamp : Stamps, del : BOOLEAN]]
    BY ZenonT(30) DEF Init, LocalCalls
  <2>2. job \in [Client -> Seq(CellWrite)] /\ queue \in [Shard -> [Client -> Seq(Task)]]
    BY <1>1
  <2>3. wal \in Seq(Seq(CellWrite)) /\ \A i \in DOMAIN wal : IsPair(wal[i])
    BY <1>1
  <2>4. clock \in Stamps /\ crashes \in 0 .. MaxCrashes
    BY <1>1, EngineAssumption DEF Stamps
  <2> QED
    BY <2>1, <2>2, <2>3, <2>4, <1>1, <1>2, <1>3, ZenonT(30) DEF Types
<1>5. Places
  <2>1. /\ \A c \in Client : pc[c] = "idle" /\ job[c] = <<>>
        /\ \A s \in Shard : run[s] = Idle /\ \A c \in Client : queue[s][c] = <<>>
    BY <1>1, ZenonT(30)
  <2>2. ASSUME NEW c \in Client PROVE ClientOK(c)
    BY <2>1, <1>2, ZenonT(30) DEF ClientOK
  <2>3. \A s \in Shard : RunOK(s)
    BY <2>1, ZenonT(30) DEF RunOK
  <2>4. \A s \in Shard, c \in Client : QueueOK(s, c)
    BY <2>1, ZenonT(30) DEF QueueOK
  <2> QED
    BY <2>2, <2>3, <2>4, ZenonT(30) DEF Places
<1>6. WriteAhead
  BY <1>1, <1>3, ZenonT(30) DEF WriteAhead
<1>7. DelApart
  <2>1. Single
    BY <1>1, ZenonT(30) DEF Single
  <2>2. \A s \in Shard : ~Half(s)
    BY <1>1, <1>2, SMTT(30) DEF Half
  <2>3. PairedMemory(mem)
    BY <1>1, ZenonT(30) DEF PairedMemory, Fresh, Cell
  <2> QED
    BY <2>1, <2>2, <2>3, ZenonT(30) DEF DelApart, Pairing
<1>8. CallsApart
  BY <1>1, ReplayEmpty, ZenonT(30) DEF CallsApart, Single, Rebuilding
<1> QED
  BY <1>4, <1>5, <1>6, <1>7, <1>8, ZenonT(30) DEF IInv

\* A step that changes nothing.
LEMMA StutterKeeps ==
  ASSUME IInv, UNCHANGED vars
  PROVE  IInv'
<1>0. /\ wal' = wal /\ mem' = mem /\ pc' = pc /\ job' = job /\ queue' = queue /\ run' = run
      /\ LogKept
  BY SameLog, ZenonT(30) DEF vars
<1>1. Types' /\ WriteAhead'
  <2>1. Types'
    BY ZenonT(30) DEF IInv, Types, vars
  <2> QED
    BY <2>1, <1>0, SameLog, ZenonT(30) DEF IInv
<1>2. Places'
  <2>1. \A c \in Client : ClientOK(c)'
    BY <1>0, ClientSame, ZenonT(30) DEF IInv, Places
  <2>2. \A s \in Shard : RunOK(s)' /\ \A c \in Client : QueueOK(s, c)'
    BY <1>0, RunSame, QueueSame, ZenonT(30) DEF IInv, Places
  <2> QED
    BY <2>1, <2>2, ZenonT(30) DEF Places
<1>3. DelApart'
  BY ZenonT(30) DEF IInv, DelApart, NoDel, Single, Pairing, Half, vars
<1>4. CallsApart'
  BY ZenonT(30) DEF IInv, CallsApart, Single, Rebuilding, vars
<1> QED
  BY <1>1, <1>2, <1>3, <1>4, ZenonT(30) DEF IInv

\* Every step of the calls put, del and patch, of the threads and of a restart
\* preserves the invariant; those of batch_put and apply_mutation do not occur.
LEMMA NextInvariant ==
  ASSUME LocalCalls, IInv, [Next]_vars
  PROVE  IInv'
<1>1. CASE UNCHANGED vars
  BY <1>1, StutterKeeps, ZenonT(30)
<1>2. ASSUME NEW c \in Client, NEW k \in Key, NEW kind \in Ops \ {"batch"}, Call(c, k, kind)
      PROVE  IInv'
  <2>1. kind \in Kind
    BY EngineAssumption, ZenonT(30) DEF Kind
  <2> QED
    BY <2>1, <1>2, CallKeeps, ZenonT(30)
<1>3. ASSUME NEW c \in Client, BatchDenied(c) \/ Scatter(c) PROVE FALSE
  <2>1. pc[c] \in {"idle", "stamped", "logged", "wait"}
    BY ZenonT(30) DEF IInv, Types
  <2> QED
    BY <2>1, <1>3, ZenonT(30) DEF BatchDenied, Scatter
<1>4. ASSUME NEW c \in Client, Log(c) PROVE IInv'
  BY <1>4, LogKeeps, ZenonT(30)
<1>5. ASSUME NEW c \in Client, Submit(c) PROVE IInv'
  BY <1>5, SubmitKeeps, ZenonT(30)
<1>6. ASSUME NEW s \in Shard, RunTask(s) PROVE IInv'
  BY <1>6, RunTaskKeeps, ZenonT(30)
<1>7. ASSUME NEW s \in Shard, NEW c \in Client, Dequeue(s, c) PROVE IInv'
  BY <1>7, DequeueKeeps, ZenonT(30)
<1>8. CASE Restart
  BY <1>8, RestartKeeps, ZenonT(30)
<1>9. CASE Quiet
  BY <1>9, StutterKeeps, ZenonT(30) DEF Quiet
<1> QED
  BY <1>1, <1>2, <1>3, <1>4, <1>5, <1>6, <1>7, <1>8, <1>9, ZenonT(30) DEF LocalCalls, Next

\* The invariant implies what the runs check.
LEMMA InvariantImplies ==
  ASSUME IInv
  PROVE  /\ TypeOK /\ WriteAhead /\ RecoveredPaired
         /\ PairedUnlessDelRaces /\ MatchesLogAlone
<1>1. TypeOK
  <2>1. Memory \subseteq [Cell -> [base : Stamps \cup {Junk}, patch : Stamps]]
    BY ZenonT(30) DEF Memory
  <2>2. apc \in [Applier -> {"idle", "checked", "logged", "half"}]
    BY ZenonT(30) DEF IInv, Types
  <2>3. pc \in [Client -> {"idle", "batch", "stamped", "logged", "scatter", "wait"}]
    BY ZenonT(30) DEF IInv, Types
  <2> QED
    BY <2>1, <2>2, <2>3, ZenonT(30) DEF IInv, Types, TypeOK, Task
<1>2. RecoveredPaired
  BY PrefixGood, ZenonT(30) DEF IInv, RecoveredPaired, GoodLog, PairedMemory
<1>3. PairedUnlessDelRaces
  <2> SUFFICES ASSUME "del" \notin mixed, AtRest PROVE PairedMemory(mem)
    BY ZenonT(30) DEF PairedUnlessDelRaces, Paired, PairedMemory
  <2>1. Len(Idle.writes) = 0
    BY ZenonT(30) DEF Idle
  <2>2. \A s \in Shard : ~Half(s)
    BY <2>1 DEF AtRest, Half
  <2> QED
    BY <2>2, ZenonT(30) DEF IInv, DelApart, Pairing
<1>4. MatchesLogAlone
  BY ZenonT(30) DEF IInv, CallsApart, Rebuilding, MatchesLogAlone, MatchesLog, AtRest
<1> QED
  BY <1>1, <1>2, <1>3, <1>4, ZenonT(30) DEF IInv

\* The invariant holds in an engine whose calls are put, del and patch.
THEOREM EngineInvariant ==
  ASSUME LocalCalls
  PROVE  Spec => []IInv
<1>1. Init => IInv
  BY InitInvariant, ZenonT(30)
<1>2. IInv /\ [Next]_vars => IInv'
  BY NextInvariant, ZenonT(30)
<1> QED
  BY <1>1, <1>2, PTL DEF Spec

\* Clients, queues, threads, log and memory keep their types.
THEOREM EngineTypeCorrect ==
  ASSUME LocalCalls
  PROVE  Spec => []TypeOK
<1>1. IInv => TypeOK
  BY InvariantImplies, ZenonT(30)
<1> QED
  BY <1>1, EngineInvariant, PTL

\* put, del and patch log what they write before a reader can see it, for any
\* number of clients, keys, shards and restarts.
THEOREM EngineWriteAhead ==
  ASSUME LocalCalls
  PROVE  Spec => []WriteAhead
<1>1. IInv => WriteAhead
  BY InvariantImplies, ZenonT(30)
<1> QED
  BY <1>1, EngineInvariant, PTL

\* A restart after any prefix of the log, at any moment, pairs each value with its
\* own meta, also when a thread was between the two.
THEOREM EngineRecoversPaired ==
  ASSUME LocalCalls
  PROVE  Spec => []RecoveredPaired
<1>1. IInv => RecoveredPaired
  BY InvariantImplies, ZenonT(30)
<1> QED
  BY <1>1, EngineInvariant, PTL

\* At rest each value in memory has its own meta, unless a del overlapped another
\* call since the last restart.
THEOREM EnginePaired ==
  ASSUME LocalCalls
  PROVE  Spec => []PairedUnlessDelRaces
<1>1. IInv => PairedUnlessDelRaces
  BY InvariantImplies, ZenonT(30)
<1> QED
  BY <1>1, EngineInvariant, PTL

\* At rest memory is what a restart would rebuild, unless calls overlapped since
\* the last one.
THEOREM EngineMatchesLog ==
  ASSUME LocalCalls
  PROVE  Spec => []MatchesLogAlone
<1>1. IInv => MatchesLogAlone
  BY InvariantImplies, ZenonT(30)
<1> QED
  BY <1>1, EngineInvariant, PTL

-----------------------------------------------------------------------------
\* Mutations, applied by one thread

\* One thread calls apply_mutation, and nothing restarts.
OneApplier == (\A a, b \in Applier : a = b) /\ MaxCrashes = 0

\* The mutation of an applier.
MutOK(a) ==
  apc[a] # "idle" =>
    /\ mut[a].key \in Key /\ mut[a].stamp \in Stamps
    /\ apc[a] \in {"checked", "logged"} => mem[<<mut[a].key, "val">>].base <= mut[a].stamp
    /\ apc[a] = "half" => mem[<<mut[a].key, "val">>].base = mut[a].stamp

\* A value is no newer than its meta unless its mutation is in progress.
NoNewer(k) ==
  \/ mem[<<k, "val">>].base <= mem[<<k, "meta">>].base
  \/ \E a \in Applier : apc[a] = "half" /\ mut[a].key = k

\* A value that was logged is no newer than the one in memory or on its way there.
Covered(w, k) ==
  w.cell = <<k, "val">> =>
    \/ w.stamp <= mem[<<k, "val">>].base
    \/ \E a \in Applier : apc[a] = "logged" /\ mut[a].key = k /\ w.stamp <= mut[a].stamp

\* While no client calls, memory has the highest value logged of every key.
MutationsInv ==
  /\ clock \in Nat /\ crashes = 0
  /\ clock = 0 =>
       /\ \A c \in Client : pc[c] = "idle"
       /\ \A s \in Shard : run[s] = Idle /\ \A c \in Client : queue[s][c] = <<>>
       /\ mem \in Memory /\ wal \in Seq(Seq(CellWrite))
       /\ DOMAIN apc = Applier /\ DOMAIN mut = Applier
       /\ \A a \in Applier : MutOK(a)
       /\ \A k \in Key : NoNewer(k)
       /\ \A i \in DOMAIN wal : \A j \in DOMAIN wal[i], k \in Key : Covered(wal[i][j], k)

\* Nothing was logged or applied yet.
LEMMA MutationsInit ==
  ASSUME OneApplier, Init
  PROVE  MutationsInv
<1>1. /\ clock = 0 /\ wal = <<>> /\ mem = Fresh /\ crashes = 0
      /\ pc = [c \in Client |-> "idle"] /\ run = [s \in Shard |-> Idle]
      /\ queue = [s \in Shard |-> [c \in Client |-> <<>>]]
      /\ apc = [a \in Applier |-> "idle"] /\ DOMAIN mut = Applier
  BY ZenonT(30) DEF Init
<1>2. Fresh \in Memory /\ \A c \in Cell : Fresh[c].base = 0
  BY EngineAssumption DEF Fresh, Blank, Memory, Stamps
<1>3. \A k \in Key : <<k, "val">> \in Cell /\ <<k, "meta">> \in Cell
  BY ZenonT(30) DEF Cell
<1>4. \A k \in Key : NoNewer(k)
  <2> SUFFICES ASSUME NEW k \in Key PROVE NoNewer(k)
    BY ZenonT(30)
  <2>1. mem[<<k, "val">>].base = 0 /\ mem[<<k, "meta">>].base = 0
    BY <1>1, <1>2, <1>3, ZenonT(30)
  <2> QED
    BY <2>1 DEF NoNewer
<1>5. \A a \in Applier : MutOK(a)
  BY <1>1, ZenonT(30) DEF MutOK
<1>6. /\ \A c \in Client : pc[c] = "idle"
      /\ \A s \in Shard : run[s] = Idle /\ \A c \in Client : queue[s][c] = <<>>
      /\ DOMAIN apc = Applier /\ DOMAIN mut = Applier
  BY <1>1, ZenonT(30)
<1>7. wal \in Seq(Seq(CellWrite)) /\ DOMAIN wal = {} /\ clock \in Nat
  BY <1>1
<1> QED
  BY <1>1, <1>2, <1>4, <1>5, <1>6, <1>7, ZenonT(30) DEF MutationsInv

\* A put or del replaces its cell.
LEMMA CellReplaced ==
  ASSUME mem \in Memory, NEW c \in Cell, NEW t \in Stamps, NEW w,
         w.cell = c, w.stamp = t, w.kind # "patch", mem' = Apply(mem, w)
  PROVE  /\ mem' \in Memory /\ mem'[c].base = t
         /\ \A d \in Cell : d # c => mem'[d] = mem[d]
<1> DEFINE new == [base |-> t, patch |-> 0]
<1>1. c # Elsewhere
  BY DEF Cell, Elsewhere
<1>2. new \in [base : Stamps, patch : Stamps] /\ new.base = t
  BY EngineAssumption DEF Stamps
<1>3. mem' = [mem EXCEPT ![c] = new]
  BY <1>1, ZenonT(30) DEF Apply
<1> HIDE DEF new
<1> QED
  BY <1>2, <1>3, ZenonT(30) DEF Memory

\* The stamps of memory are numbers.
LEMMA MemoryInt ==
  ASSUME NEW m \in Memory, NEW k \in Key
  PROVE  m[<<k, "val">>].base \in Int /\ m[<<k, "meta">>].base \in Int
<1>1. <<k, "val">> \in Cell /\ <<k, "meta">> \in Cell
  BY ZenonT(30) DEF Cell
<1>2. m[<<k, "val">>].base \in Stamps /\ m[<<k, "meta">>].base \in Stamps
  BY <1>1, ZenonT(30) DEF Memory
<1> QED
  BY <1>2, EngineAssumption DEF Stamps

\* apply_mutation takes a mutation that is newer than the meta.
LEMMA CheckMutation ==
  ASSUME OneApplier, MutationsInv, NEW a \in Applier, NEW k \in Key, NEW t \in Stamps,
         NEW d \in BOOLEAN, Check(a, k, t, d)
  PROVE  MutationsInv'
<1>1. UNCHANGED <<clock, wal, mem, pc, job, queue, run, crashes, mixed>>
  BY ZenonT(30) DEF Check
<1> SUFFICES ASSUME clock = 0 PROVE MutationsInv'
  BY <1>1, ZenonT(30) DEF MutationsInv
<1>2. /\ mem \in Memory /\ DOMAIN apc = Applier /\ DOMAIN mut = Applier
      /\ \A b \in Applier : b = a
  BY ZenonT(30) DEF MutationsInv, OneApplier
<1>3. /\ apc[a] = "idle" /\ apc'[a] = "checked"
      /\ mut'[a].key = k /\ mut'[a].stamp = t
      /\ DOMAIN apc' = Applier /\ DOMAIN mut' = Applier
  BY <1>2, ZenonT(30) DEF Check
<1>4. mem[<<k, "val">>].base <= t
  <2>1. mem[<<k, "val">>].base <= mem[<<k, "meta">>].base
    BY <1>2, <1>3, ZenonT(30) DEF MutationsInv, NoNewer
  <2>2. t > mem[<<k, "meta">>].base
    BY ZenonT(30) DEF Check, Newer
  <2>3. t \in Int
    BY EngineAssumption DEF Stamps
  <2>4. mem[<<k, "val">>].base \in Int /\ mem[<<k, "meta">>].base \in Int
    BY <1>2, MemoryInt, ZenonT(30)
  <2> QED
    BY <2>1, <2>2, <2>3, <2>4
<1>5. \A b \in Applier : MutOK(b)'
  BY <1>1, <1>2, <1>3, <1>4, ZenonT(30) DEF MutOK
<1>6. \A l \in Key : NoNewer(l)'
  BY <1>1, <1>2, <1>3, ZenonT(30) DEF MutationsInv, NoNewer
<1>7. ASSUME NEW w, NEW l \in Key, Covered(w, l) PROVE Covered(w, l)'
  BY <1>1, <1>2, <1>3, <1>7, ZenonT(30) DEF Covered
<1> QED
  BY <1>1, <1>2, <1>3, <1>5, <1>6, <1>7, ZenonT(30) DEF MutationsInv

\* It logs the mutation, or bytes that are no stamp in place of its value.
LEMMA LogMutationKeeps ==
  ASSUME OneApplier, MutationsInv, NEW a \in Applier, LogMutation(a)
  PROVE  MutationsInv'
<1>1. UNCHANGED <<clock, mem, pc, job, queue, run, mut, crashes, mixed>>
  BY ZenonT(30) DEF LogMutation
<1> SUFFICES ASSUME clock = 0 PROVE MutationsInv'
  BY <1>1, ZenonT(30) DEF MutationsInv
<1>2. /\ mem \in Memory /\ wal \in Seq(Seq(CellWrite))
      /\ DOMAIN apc = Applier /\ DOMAIN mut = Applier
      /\ \A b \in Applier : b = a
  BY ZenonT(30) DEF MutationsInv, OneApplier
<1>3. apc[a] = "checked" /\ apc'[a] = "logged" /\ DOMAIN apc' = Applier
  BY <1>2, ZenonT(30) DEF LogMutation
<1>4. /\ mut[a].key \in Key /\ mut[a].stamp \in Stamps
      /\ mem[<<mut[a].key, "val">>].base <= mut[a].stamp
  BY <1>2, <1>3, ZenonT(30) DEF MutationsInv, MutOK
<1>5. PICK v \in Stamps \cup {Junk} :
        v <= mut[a].stamp /\ wal' = wal \o <<[Mutation(a) EXCEPT ![1].stamp = v]>>
  <2>1. PICK v \in {mut[a].stamp} \cup (IF mut[a].del THEN {} ELSE {Junk}) :
          wal' = wal \o <<[Mutation(a) EXCEPT ![1].stamp = v]>>
    BY ZenonT(30) DEF LogMutation, Batches
  <2>2. v \in Stamps \cup {Junk} /\ v <= mut[a].stamp
    BY <1>4, <2>1, EngineAssumption DEF Junk, Stamps
  <2> QED
    BY <2>1, <2>2, ZenonT(30)
<1> DEFINE kind == IF mut[a].del THEN "del" ELSE "put"
<1>5a. PICK x : x = [cell |-> <<mut[a].key, "val">>, kind |-> kind, stamp |-> v]
  BY ZenonT(30)
<1>5b. PICK y : y = [cell |-> <<mut[a].key, "meta">>, kind |-> kind, stamp |-> mut[a].stamp]
  BY ZenonT(30)
<1>5c. PICK ws : ws = <<x, y>>
  BY ZenonT(30)
<1>6. [Mutation(a) EXCEPT ![1].stamp = v] = ws
  BY <1>5a, <1>5b, <1>5c DEF Mutation, Pair
<1>7. <<mut[a].key, "val">> \in Cell /\ <<mut[a].key, "meta">> \in Cell
  BY <1>4, ZenonT(30) DEF Cell
<1>8. x \in CellWrite /\ y \in CellWrite
  BY <1>5a, <1>5b, <1>4, <1>5, <1>7, ZenonT(30) DEF CellWrite, Kind
<1>9. x.cell = <<mut[a].key, "val">> /\ x.stamp = v /\ y.cell = <<mut[a].key, "meta">>
  BY <1>5a, <1>5b, ZenonT(30)
<1>10. ws \in Seq(CellWrite) /\ \A j \in DOMAIN ws : ws[j] = x \/ ws[j] = y
  BY <1>5c, <1>8
<1>11. wal' = Append(wal, ws)
  BY <1>2, <1>5, <1>6, <1>10, AppendIsConcat, ZenonT(30)
<1>12. /\ wal' \in Seq(Seq(CellWrite))
       /\ \A i \in DOMAIN wal' : wal'[i] = ws \/ (i \in DOMAIN wal /\ wal'[i] = wal[i])
  <2>1. wal' \in Seq(Seq(CellWrite))
    BY <1>2, <1>10, <1>11, AppendProperties, ZenonT(30)
  <2>2. \A i \in DOMAIN wal' : i \in DOMAIN wal \/ wal'[i] = ws
    BY <1>2, <1>10, <1>11, LogGrows, ZenonT(30)
  <2>3. \A i \in DOMAIN wal : wal'[i] = wal[i]
    BY <1>2, <1>10, <1>11, LogGrows, ZenonT(30)
  <2> QED
    BY <2>1, <2>2, <2>3, ZenonT(30)
<1>13. \A b \in Applier : MutOK(b)'
  BY <1>1, <1>2, <1>3, <1>4, ZenonT(30) DEF MutOK
<1>14. \A l \in Key : NoNewer(l)'
  BY <1>1, <1>2, <1>3, ZenonT(30) DEF MutationsInv, NoNewer
<1>15. ASSUME NEW w, NEW l \in Key, Covered(w, l) PROVE Covered(w, l)'
  BY <1>1, <1>2, <1>3, <1>15, ZenonT(30) DEF Covered
<1>16. ASSUME NEW l \in Key PROVE Covered(x, l)' /\ Covered(y, l)'
  <2>1. x.cell = <<l, "val">> => mut[a].key = l
    BY <1>9
  <2>2. y.cell # <<l, "val">>
    BY <1>9
  <2> QED
    BY <2>1, <2>2, <1>1, <1>3, <1>5, <1>9, ZenonT(30) DEF Covered
<1>17. ASSUME NEW i \in DOMAIN wal', NEW j \in DOMAIN wal'[i], NEW l \in Key
       PROVE  (Covered(wal[i][j], l))'
  <2>1. PICK w : w = wal'[i][j]
    BY ZenonT(30)
  <2>2. CASE wal'[i] = ws
    <3>1. w = x \/ w = y
      BY <2>1, <2>2, <1>10, <1>17, ZenonT(30)
    <3>2. Covered(w, l)'
      BY <3>1, <1>16, ZenonT(30)
    <3> QED
      BY <2>1, <3>2, ZenonT(30) DEF Covered
  <2>3. CASE i \in DOMAIN wal /\ wal'[i] = wal[i]
    <3>1. Covered(w, l)
      BY <2>1, <2>3, <1>17, ZenonT(30) DEF MutationsInv
    <3>2. Covered(w, l)'
      BY <3>1, <1>15, ZenonT(30)
    <3> QED
      BY <2>1, <3>2, ZenonT(30) DEF Covered
  <2> QED
    BY <2>2, <2>3, <1>12, ZenonT(30)
<1> QED
  BY <1>1, <1>2, <1>3, <1>12, <1>13, <1>14, <1>17, ZenonT(30) DEF MutationsInv

\* It applies the value: what was logged is in memory.
LEMMA ApplyValueKeeps ==
  ASSUME OneApplier, MutationsInv, NEW a \in Applier, ApplyValue(a)
  PROVE  MutationsInv'
<1>1. UNCHANGED <<clock, wal, pc, job, queue, run, mut, crashes, mixed>>
  BY ZenonT(30) DEF ApplyValue
<1> SUFFICES ASSUME clock = 0 PROVE MutationsInv'
  BY <1>1, ZenonT(30) DEF MutationsInv
<1>2. /\ mem \in Memory /\ DOMAIN apc = Applier /\ DOMAIN mut = Applier
      /\ \A b \in Applier : b = a
  BY ZenonT(30) DEF MutationsInv, OneApplier
<1>3. apc[a] = "logged" /\ apc'[a] = "half" /\ DOMAIN apc' = Applier
  BY <1>2, ZenonT(30) DEF ApplyValue
<1>4. PICK k \in Key, t \in Stamps : mut[a].key = k /\ mut[a].stamp = t
  BY <1>3, ZenonT(30) DEF MutationsInv, MutOK
<1>5. mem[<<k, "val">>].base <= t
  BY <1>3, <1>4, ZenonT(30) DEF MutationsInv, MutOK
<1>6. /\ mem' \in Memory /\ mem'[<<k, "val">>].base = t
      /\ \A d \in Cell : d # <<k, "val">> => mem'[d] = mem[d]
  <2>1. <<k, "val">> \in Cell
    BY ZenonT(30) DEF Cell
  <2>2. PICK w : w = Mutation(a)[1]
    BY ZenonT(30)
  <2>3. w.cell = <<k, "val">> /\ w.stamp = t /\ w.kind # "patch"
    BY <2>2, <1>4, ZenonT(30) DEF Mutation, Pair
  <2>4. mem' = Apply(mem, w)
    BY <2>2, ZenonT(30) DEF ApplyValue
  <2> QED
    BY <2>1, <2>3, <2>4, <1>2, CellReplaced, ZenonT(30)
<1>7. \A l \in Key : <<l, "val">> \in Cell /\ <<l, "meta">> \in Cell
  BY ZenonT(30) DEF Cell
<1>8. \A b \in Applier : MutOK(b)'
  BY <1>1, <1>2, <1>3, <1>4, <1>6, ZenonT(30) DEF MutOK
<1>9. ASSUME NEW l \in Key PROVE NoNewer(l)'
  <2>1. CASE l = k
    BY <2>1, <1>1, <1>3, <1>4, ZenonT(30) DEF NoNewer
  <2>2. CASE l # k
    <3>1. mem'[<<l, "val">>] = mem[<<l, "val">>] /\ mem'[<<l, "meta">>] = mem[<<l, "meta">>]
      BY <2>2, <1>6, <1>7, ZenonT(30)
    <3> QED
      BY <3>1, <1>2, <1>3, ZenonT(30) DEF MutationsInv, NoNewer
  <2> QED
    BY <2>1, <2>2, ZenonT(30)
<1>10. ASSUME NEW w, w.stamp \in Int, NEW l \in Key, Covered(w, l) PROVE Covered(w, l)'
  <2>1. CASE l = k
    <3>1. t \in Int /\ mem[<<k, "val">>].base \in Int
      <4>1. t \in Int
        BY EngineAssumption DEF Stamps
      <4> QED
        BY <4>1, <1>2, MemoryInt, ZenonT(30)
    <3>2. w.cell = <<k, "val">> => w.stamp <= t
      <4>1. w.cell = <<k, "val">> => (w.stamp <= mem[<<k, "val">>].base \/ w.stamp <= t)
        BY <2>1, <1>2, <1>4, <1>10, ZenonT(30) DEF Covered
      <4> QED
        BY <4>1, <3>1, <1>5, <1>10
    <3> QED
      BY <2>1, <3>2, <1>6, ZenonT(30) DEF Covered
  <2>2. CASE l # k
    <3>1. mem'[<<l, "val">>] = mem[<<l, "val">>]
      BY <2>2, <1>6, <1>7, ZenonT(30)
    <3> QED
      BY <2>2, <3>1, <1>2, <1>4, <1>10, ZenonT(30) DEF Covered
  <2> QED
    BY <2>1, <2>2, ZenonT(30)
<1>11. ASSUME NEW i \in DOMAIN wal, NEW j \in DOMAIN wal[i], NEW l \in Key
       PROVE  (Covered(wal[i][j], l))'
  <2>1. PICK w : w = wal[i][j]
    BY ZenonT(30)
  <2>2. w.stamp \in Int
    <3>1. wal[i] \in Seq(CellWrite)
      BY ElementOfSeq, LenProperties, ZenonT(30) DEF MutationsInv
    <3>2. w \in CellWrite
      BY <2>1, <3>1, <1>11, ElementOfSeq, LenProperties, ZenonT(30)
    <3> QED
      BY <3>2, EngineAssumption DEF CellWrite, Stamps, Junk
  <2>3. Covered(w, l)
    BY <2>1, <1>11, ZenonT(30) DEF MutationsInv
  <2>4. Covered(w, l)'
    BY <2>2, <2>3, <1>10, ZenonT(30)
  <2> QED
    BY <2>1, <2>4, <1>1, ZenonT(30) DEF Covered
<1> QED
  BY <1>1, <1>2, <1>3, <1>6, <1>8, <1>9, <1>11, ZenonT(30) DEF MutationsInv

\* It applies the meta.
LEMMA ApplyMetaKeeps ==
  ASSUME OneApplier, MutationsInv, NEW a \in Applier, ApplyMeta(a)
  PROVE  MutationsInv'
<1>1. UNCHANGED <<clock, wal, pc, job, queue, run, mut, crashes, mixed>>
  BY ZenonT(30) DEF ApplyMeta
<1> SUFFICES ASSUME clock = 0 PROVE MutationsInv'
  BY <1>1, ZenonT(30) DEF MutationsInv
<1>2. /\ mem \in Memory /\ DOMAIN apc = Applier /\ DOMAIN mut = Applier
      /\ \A b \in Applier : b = a
  BY ZenonT(30) DEF MutationsInv, OneApplier
<1>3. apc[a] = "half" /\ apc'[a] = "idle" /\ DOMAIN apc' = Applier
  BY <1>2, ZenonT(30) DEF ApplyMeta
<1>4. PICK k \in Key, t \in Stamps : mut[a].key = k /\ mut[a].stamp = t
  BY <1>3, ZenonT(30) DEF MutationsInv, MutOK
<1>5. mem[<<k, "val">>].base = t
  BY <1>3, <1>4, ZenonT(30) DEF MutationsInv, MutOK
<1>6. /\ mem' \in Memory /\ mem'[<<k, "meta">>].base = t
      /\ \A d \in Cell : d # <<k, "meta">> => mem'[d] = mem[d]
  <2>1. <<k, "meta">> \in Cell
    BY ZenonT(30) DEF Cell
  <2>2. PICK w : w = Mutation(a)[2]
    BY ZenonT(30)
  <2>3. w.cell = <<k, "meta">> /\ w.stamp = t /\ w.kind # "patch"
    BY <2>2, <1>4, ZenonT(30) DEF Mutation, Pair
  <2>4. mem' = Apply(mem, w)
    BY <2>2, ZenonT(30) DEF ApplyMeta
  <2> QED
    BY <2>1, <2>3, <2>4, <1>2, CellReplaced, ZenonT(30)
<1>7. \A l \in Key : mem'[<<l, "val">>] = mem[<<l, "val">>]
  BY <1>6, ZenonT(30) DEF Cell
<1>8. \A b \in Applier : MutOK(b)'
  BY <1>2, <1>3, ZenonT(30) DEF MutOK
<1>9. ASSUME NEW l \in Key PROVE NoNewer(l)'
  <2>1. CASE l = k
    <3>1. mem'[<<l, "val">>].base = mem'[<<l, "meta">>].base /\ mem'[<<l, "val">>].base \in Int
      BY <2>1, <1>5, <1>6, <1>7, MemoryInt, ZenonT(30)
    <3> QED
      BY <3>1 DEF NoNewer
  <2>2. CASE l # k
    <3>1. mem'[<<l, "meta">>] = mem[<<l, "meta">>]
      BY <2>2, <1>6, ZenonT(30) DEF Cell
    <3> QED
      BY <2>2, <3>1, <1>2, <1>4, <1>7, ZenonT(30) DEF MutationsInv, NoNewer
  <2> QED
    BY <2>1, <2>2, ZenonT(30)
<1>10. ASSUME NEW i \in DOMAIN wal, NEW j \in DOMAIN wal[i], NEW l \in Key
       PROVE  (Covered(wal[i][j], l))'
  <2>1. Covered(wal[i][j], l)
    BY <1>10, ZenonT(30) DEF MutationsInv
  <2>2. mem'[<<l, "val">>] = mem[<<l, "val">>] /\ wal'[i][j] = wal[i][j]
    BY <1>1, <1>7, ZenonT(30)
  <2> QED
    BY <2>1, <2>2, <1>2, <1>3, ZenonT(30) DEF Covered
<1> QED
  BY <1>1, <1>2, <1>3, <1>6, <1>8, <1>9, <1>10, ZenonT(30) DEF MutationsInv

\* A step that leaves all but the clients alone.
LEMMA MutationsStutter ==
  ASSUME MutationsInv, UNCHANGED vars
  PROVE  MutationsInv'
<1>1. \A a \in Applier : MutOK(a) => MutOK(a)'
  BY ZenonT(30) DEF MutOK, vars
<1>2. \A k \in Key : NoNewer(k) => NoNewer(k)'
  BY ZenonT(30) DEF NoNewer, vars
<1>3. \A i \in DOMAIN wal : \A j \in DOMAIN wal[i], k \in Key :
        Covered(wal[i][j], k) => (Covered(wal[i][j], k))'
  BY ZenonT(30) DEF Covered, vars
<1> QED
  BY <1>1, <1>2, <1>3, ZenonT(30) DEF MutationsInv, vars

\* Every step keeps the invariant: as long as clock is 0 only mutations are applied.
LEMMA MutationsNext ==
  ASSUME OneApplier, MutationsInv, [Next]_vars
  PROVE  MutationsInv'
<1>1. clock \in Nat /\ crashes = 0
  BY ZenonT(30) DEF MutationsInv
<1>2. CASE UNCHANGED vars
  BY <1>2, MutationsStutter, ZenonT(30)
<1>3. ASSUME NEW c \in Client, NEW k \in Key, BatchAdd(c, k) \/ \E kind \in Ops : Call(c, k, kind)
      PROVE  MutationsInv'
  <2>1. clock' = clock + 2 /\ crashes' = crashes
    BY <1>3, ZenonT(30) DEF BatchAdd, Call
  <2>2. clock' \in Nat /\ clock' # 0
    BY <1>1, <2>1
  <2> QED
    BY <1>1, <2>1, <2>2, ZenonT(30) DEF MutationsInv
<1>4. ASSUME NEW c \in Client, BatchDenied(c) \/ Log(c) \/ Submit(c) \/ Scatter(c)
      PROVE  MutationsInv'
  <2>1. pc[c] # "idle" /\ clock' = clock /\ crashes' = crashes
    BY <1>4, ZenonT(30) DEF BatchDenied, Log, Submit, Scatter
  <2> QED
    BY <2>1, ZenonT(30) DEF MutationsInv
<1>5. ASSUME NEW s \in Shard, RunTask(s) \/ \E c \in Client : Dequeue(s, c)
      PROVE  MutationsInv'
  <2>1. run[s].writes # <<>> \/ \E c \in Client : queue[s][c] # <<>>
    BY <1>5, ZenonT(30) DEF RunTask, Dequeue
  <2>2. clock' = clock /\ crashes' = crashes
    BY <1>5, ZenonT(30) DEF RunTask, Dequeue
  <2>3. Idle.writes = <<>>
    BY ZenonT(30) DEF Idle
  <2> QED
    BY <2>1, <2>2, <2>3, ZenonT(30) DEF MutationsInv
<1>6. ~Restart
  BY <1>1 DEF Restart, OneApplier
<1>7. CASE Quiet
  BY <1>7, MutationsStutter, ZenonT(30) DEF Quiet
<1> QED
  BY <1>2, <1>3, <1>4, <1>5, <1>6, <1>7, CheckMutation, LogMutationKeeps, ApplyValueKeeps,
     ApplyMetaKeeps, ZenonT(30) DEF Next

\* One thread that calls apply_mutation, with mutations in any order, leaves every key
\* with its highest stamp as long as no client writes.
THEOREM EngineLastMutationWins ==
  ASSUME OneApplier
  PROVE  Spec => []LastMutationWins
<1>1. Init => MutationsInv
  BY MutationsInit, ZenonT(30)
<1>2. MutationsInv /\ [Next]_vars => MutationsInv'
  BY MutationsNext, ZenonT(30)
<1>3. MutationsInv => LastMutationWins
  <2> SUFFICES ASSUME MutationsInv, clock = 0, AtRest, NEW k \in Key, NEW i \in DOMAIN wal,
                      NEW j \in DOMAIN wal[i], wal[i][j].cell = <<k, "val">>
               PROVE  mem[<<k, "val">>].base >= wal[i][j].stamp
    BY ZenonT(30) DEF LastMutationWins, LastWriterWins
  <2>1. Covered(wal[i][j], k)
    BY ZenonT(30) DEF MutationsInv
  <2>2. wal[i][j].stamp <= mem[<<k, "val">>].base
    BY <2>1, ZenonT(30) DEF Covered, AtRest
  <2> QED
    BY <2>2, ZenonT(30)
<1> QED
  BY <1>1, <1>2, <1>3, PTL DEF Spec
=============================================================================
