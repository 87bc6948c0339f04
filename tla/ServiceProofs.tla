---------------------------- MODULE ServiceProofs ---------------------------
(***************************************************************************)
(* What clients rely on: the stamps of the clock, and the answers of the   *)
(* server.                                                                 *)
(*                                                                         *)
(* For any threads, batch size, counter width and incoming stamps: the     *)
(* stamps of the clock are ordered and unique.                             *)
(*                                                                         *)
(* For any clients, requests, keys, users and rules, any way keys are      *)
(* spread over shards, and any restarts: an answered put or del is in      *)
(* force, the rule with the longest prefix decides, and a restart rebuilds *)
(* what is in memory.                                                      *)
(***************************************************************************)
EXTENDS HLC, Server, FiniteSetTheorems, WellFoundedInduction, TLAPS

\* The clock

Event == [op : {"now", "update", "local"}, wall : Phys, logical : Logical]

\* A stamp is not above the global clock.
AtMostClock(w, l) == w < wall \/ (w = wall /\ l <= logical)

\* Thread t has stamps of its batch left to return.
HasBatch(t) == cache[t].next < cache[t].end

\* What holds until a reset, besides the properties themselves: everything
\* returned or received is at or below the global clock, and so is every batch;
\* no returned stamp lies in the rest of a batch; no two batches overlap.
BatchesFresh ==
  /\ \A i \in DOMAIN events : AtMostClock(events[i].wall, events[i].logical)
  /\ \A t \in Threads : HasBatch(t) => AtMostClock(cache[t].phys, cache[t].end - 1)
  /\ \A t \in Threads, i \in DOMAIN events :
       /\ HasBatch(t)
       /\ events[i].op # "update"
       /\ events[i].wall = cache[t].phys
       => events[i].logical < cache[t].next \/ events[i].logical >= cache[t].end
  /\ \A t, u \in Threads :
       t # u /\ HasBatch(t) /\ HasBatch(u) /\ cache[t].phys = cache[u].phys
       => cache[t].end <= cache[u].next \/ cache[u].end <= cache[t].next

ClockIInv ==
  /\ ClockTypeOK
  /\ reset = "none" => BatchesFresh
  /\ NowAboveAll
  /\ Unique

\* update() leaves the clock at a value of its type, no lower than it was and,
\* unless its addition wraps, at or above the stamp it was given.
LEMMA UpdateFacts ==
  ASSUME ClockTypeOK, NEW m \in Incoming, Update(m)
  PROVE  /\ wall' \in Phys /\ logical' \in Logical
         /\ reset' \in {"none", "wrap", "reread"}
         /\ reset' = "none" =>
              /\ reset = "none"
              /\ wall < wall' \/ (wall = wall' /\ logical <= logical')
              /\ m.wall < wall' \/ (m.wall = wall' /\ m.logical <= logical')
<1>. DEFINE w == Max2(Max2(wall, m.wall), phys)
            c == MergedLogical(m, w)
<1>. USE HLCAssumption DEF Phys, Logical
<1>1. /\ m.wall \in Phys /\ m.logical \in Logical
      /\ wall \in Phys /\ logical \in Logical /\ phys \in Phys
  BY ZenonT(30) DEF Stamp, ClockTypeOK
<1>2. w \in Phys /\ w >= wall /\ w >= m.wall
  BY <1>1 DEF Max2
<1>3. wall' = w /\ logical' = Wrap(c) /\ reset' = IF c <= MaxLogical THEN reset ELSE "wrap"
  BY ZenonT(30) DEF Update
<1>. HIDE DEF w
<1>4. /\ c \in 0 .. MaxLogical + 1
      /\ w = wall => c > logical
      /\ w = m.wall => c > m.logical
  BY <1>1, <1>2 DEF MergedLogical, Max2
<1>. HIDE DEF c
<1>5. logical' \in Logical /\ (c <= MaxLogical => logical' = c)
  BY <1>3, <1>4 DEF Wrap
<1>6. reset \in {"none", "wrap", "reread"}
  BY ZenonT(30) DEF ClockTypeOK
<1>. QED BY <1>1, <1>2, <1>3, <1>4, <1>5, <1>6

\* Recording a call adds one event and leaves the earlier ones alone.
LEMMA ObserveFacts ==
  ASSUME ClockTypeOK,
         NEW op \in {"now", "update", "local"}, NEW w \in Phys, NEW l \in Logical,
         events' = Append(events, [op |-> op, wall |-> w, logical |-> l])
  PROVE  /\ events' \in Seq([op : {"now", "update", "local"}, wall : Phys, logical : Logical])
         /\ DOMAIN events = 1 .. Len(events) /\ Len(events) \in Nat
         /\ DOMAIN events' = 1 .. Len(events) + 1
         /\ \A i \in 1 .. Len(events) : events'[i] = events[i]
         /\ events'[Len(events) + 1] = [op |-> op, wall |-> w, logical |-> l]
BY DEF ClockTypeOK

\* reserve_logical() refuses, leaving the clock no lower than it was, or hands
\* out a run of stamps that starts above the clock and ends where it leaves it.
LEMMA ReserveFacts ==
  ASSUME ClockTypeOK, NEW t \in Threads, Reserve(t)
  PROVE  \/ /\ wall' \in Phys /\ logical' \in Logical
            /\ wall < wall' \/ (wall = wall' /\ logical <= logical')
            /\ cpc' = [cpc EXCEPT ![t] = "yielded"]
            /\ UNCHANGED <<cache, events, phys, req, reset>>
         \/ \E start, next, end \in Logical :
              /\ wall' = req[t] /\ wall' \in Phys
              /\ logical' \in Logical
              /\ wall < wall' \/ (wall = wall' /\ logical < start)
              /\ start <= logical'
              /\ next < end => next = start + 1 /\ end = logical' + 1
              /\ cache' = [cache EXCEPT ![t] = [phys |-> req[t], next |-> next, end |-> end]]
              /\ Observe("local", req[t], start)
              /\ cpc' = [cpc EXCEPT ![t] = "idle"]
              /\ UNCHANGED <<phys, req, reset>>
<1>. USE HLCAssumption DEF Phys, Logical
<1>. DEFINE base == IF req[t] > wall THEN 0 ELSE logical
<1>1. req[t] \in Phys /\ wall \in Phys /\ logical \in Logical /\ phys \in Phys
  BY ZenonT(30) DEF ClockTypeOK
<1>2. base \in Logical
  BY <1>1
<1>3. CASE req[t] < Max2(phys, wall)
  BY <1>1, <1>3 DEF Reserve
<1>4. CASE ~(req[t] < Max2(phys, wall)) /\ MaxLogical - base < Batch
  <2>1. req[t] >= wall
    BY <1>1, <1>4 DEF Max2
  <2>2. wall' = req[t] /\ logical' = base /\ cpc' = [cpc EXCEPT ![t] = "yielded"]
        /\ UNCHANGED <<cache, events, phys, req, reset>>
    BY <1>4, ZenonT(30) DEF Reserve
  <2>. QED BY <1>1, <1>2, <2>1, <2>2
<1>5. CASE ~(req[t] < Max2(phys, wall)) /\ ~(MaxLogical - base < Batch)
  <2>. DEFINE next == Wrap(base + 1 + 1)
              end == Wrap(base + 1 + Batch)
  <2>1. req[t] >= wall
    BY <1>1, <1>5 DEF Max2
  <2>2. /\ wall' = req[t] /\ logical' = base + Batch
        /\ cpc' = [cpc EXCEPT ![t] = "idle"]
        /\ cache' = [cache EXCEPT ![t] = [phys |-> req[t], next |-> next, end |-> end]]
        /\ Observe("local", req[t], base + 1)
        /\ UNCHANGED <<phys, req, reset>>
    BY <1>5, ZenonT(30) DEF Reserve, FirstReserved
  <2>. HIDE DEF base
  <2>3. /\ base + 1 \in Logical /\ next \in Logical /\ end \in Logical
        /\ next < end => next = base + 1 + 1 /\ end = base + Batch + 1
    BY <1>2, <1>5 DEF Wrap
  <2>4. wall < req[t] \/ (wall = req[t] /\ logical < base + 1)
    BY <1>1, <2>1 DEF base
  <2>5. base + 1 <= base + Batch /\ base + Batch \in Logical
    BY <1>2, <1>5
  <2>. HIDE DEF next, end
  <2>. QED BY <1>1, <2>2, <2>3, <2>4, <2>5, ZenonT(30)
<1>. QED BY <1>3, <1>4, <1>5, ZenonT(30)

\* The clock's state keeps its type under every call and every movement of the
\* system clock; the wrapped sums of update() and of a batch's end included.
THEOREM ClockTypeCorrect == ClockSpec => []ClockTypeOK
<1>. USE HLCAssumption DEF Phys, Logical, Stamp
<1>1. ClockInit => ClockTypeOK
  BY DEF ClockInit, ClockTypeOK
<1>2. ClockTypeOK /\ [ClockNext]_clockVars => ClockTypeOK'
  <2>. SUFFICES ASSUME ClockTypeOK, [ClockNext]_clockVars PROVE ClockTypeOK'
    BY ZenonT(30)
  <2>. USE DEF ClockTypeOK
  <2>1. CASE Tick
    BY <2>1 DEF Tick, SystemClock
  <2>2. CASE StepBack
    BY <2>2 DEF StepBack, SystemClock
  <2>3. ASSUME NEW m \in Incoming, Update(m) PROVE ClockTypeOK'
    <3>1. m \in Stamp
      BY ZenonT(30)
    <3>2. events' \in Seq([op : {"now", "update", "local"}, wall : Phys, logical : Logical])
      BY <2>3, <3>1 DEF Update, Observe
    <3>. QED BY <2>3, <3>2, UpdateFacts, ZenonT(30) DEF Update
  <2>4. ASSUME NEW t \in Threads, Now(t) PROVE ClockTypeOK'
    <3>1. CASE phys > wall
      <4>1. /\ wall' = phys /\ logical' = 0 /\ Observe("now", phys, 0)
            /\ cpc' = [cpc EXCEPT ![t] = "idle"]
            /\ UNCHANGED <<phys, req, cache, reset>>
        BY <2>4, <3>1 DEF Now
      <4>2. events' \in Seq([op : {"now", "update", "local"}, wall : Phys, logical : Logical])
        BY <4>1, ObserveFacts DEF Observe
      <4>. QED BY <4>1, <4>2
    <3>2. CASE phys <= wall /\ logical # MaxLogical
      <4>1. /\ logical' = logical + 1 /\ Observe("now", wall, logical + 1)
            /\ cpc' = [cpc EXCEPT ![t] = "idle"]
            /\ UNCHANGED <<phys, wall, req, cache, reset>>
        BY <2>4, <3>2 DEF Now
      <4>2. logical + 1 \in Logical
        BY <3>2
      <4>3. events' \in Seq([op : {"now", "update", "local"}, wall : Phys, logical : Logical])
        BY <4>1, <4>2, ObserveFacts, ZenonT(30) DEF Observe
      <4>. QED BY <4>1, <4>2, <4>3, ZenonT(30)
    <3>3. CASE phys <= wall /\ logical = MaxLogical
      <4>1. /\ cpc' = [cpc EXCEPT ![t] = "spin"]
            /\ UNCHANGED <<phys, req, cache, reset, wall, logical, events>>
        BY <2>4, <3>3 DEF Now
      <4>. QED BY <4>1, ZenonT(30)
    <3>. QED BY <3>1, <3>2, <3>3, SMTT(30)
  <2>5. ASSUME NEW t \in Threads, NowSpinDone(t) PROVE ClockTypeOK'
    BY <2>5, ZenonT(30) DEF NowSpinDone
  <2>6. ASSUME NEW t \in Threads, NowReread(t) PROVE ClockTypeOK'
    BY <2>6, ObserveFacts, SMTT(30) DEF NowReread, Observe
  <2>7. ASSUME NEW t \in Threads, LocalNow(t) PROVE ClockTypeOK'
    <3>1. CASE phys = cache[t].phys /\ cache[t].next < cache[t].end
      <4>1. cache[t] \in [phys : Phys, next : Logical, end : Logical]
        BY ZenonT(30)
      <4>2. cache[t].next + 1 \in Logical
        BY <3>1, <4>1
      <4>3. /\ Observe("local", phys, cache[t].next)
            /\ cache' = [cache EXCEPT ![t].next = cache[t].next + 1]
            /\ UNCHANGED <<cpc, req, phys, wall, logical, reset>>
        BY <2>7, <3>1, ZenonT(30) DEF LocalNow
      <4>4. events' \in Seq([op : {"now", "update", "local"}, wall : Phys, logical : Logical])
        BY <4>1, <4>3, ObserveFacts, ZenonT(30) DEF Observe
      <4>. QED BY <4>1, <4>2, <4>3, <4>4, ZenonT(30)
    <3>2. CASE ~(phys = cache[t].phys /\ cache[t].next < cache[t].end)
      <4>1. /\ cache' = IF phys > cache[t].phys
                        THEN [cache EXCEPT ![t] = [phys |-> phys, next |-> 0, end |-> 0]]
                        ELSE cache
            /\ req' = [req EXCEPT ![t] = phys]
            /\ cpc' = [cpc EXCEPT ![t] = "refill"]
            /\ UNCHANGED <<phys, wall, logical, reset, events>>
        BY <2>7, <3>2, ZenonT(30) DEF LocalNow
      <4>. QED BY <4>1, SMTT(30)
    <3>. QED BY <3>1, <3>2, ZenonT(30)
  <2>8. ASSUME NEW t \in Threads, Reserve(t) PROVE ClockTypeOK'
    <3>1. CASE /\ wall' \in Phys /\ logical' \in Logical
               /\ cpc' = [cpc EXCEPT ![t] = "yielded"]
               /\ UNCHANGED <<cache, events, phys, req, reset>>
      BY <3>1, ZenonT(30)
    <3>2. ASSUME NEW start \in Logical, NEW next \in Logical, NEW end \in Logical,
                 wall' = req[t], logical' \in Logical,
                 cache' = [cache EXCEPT ![t] = [phys |-> req[t], next |-> next, end |-> end]],
                 Observe("local", req[t], start),
                 cpc' = [cpc EXCEPT ![t] = "idle"],
                 UNCHANGED <<phys, req, reset>>
          PROVE  ClockTypeOK'
      <4>1. req[t] \in Phys
        BY ZenonT(30)
      <4>2. events' \in Seq([op : {"now", "update", "local"}, wall : Phys, logical : Logical])
        BY <3>2, <4>1, ObserveFacts, ZenonT(30) DEF Observe
      <4>. QED BY <3>2, <4>1, <4>2, ZenonT(30)
    <3>. QED BY <2>8, <3>1, <3>2, ReserveFacts, ZenonT(30)
  <2>9. ASSUME NEW t \in Threads, Retry(t) PROVE ClockTypeOK'
    BY <2>9, ZenonT(30) DEF Retry
  <2>10. CASE UNCHANGED clockVars
    BY <2>10, ZenonT(30) DEF clockVars
  <2>. QED
    BY <2>1, <2>2, <2>3, <2>4, <2>5, <2>6, <2>7, <2>8, <2>9, <2>10, ZenonT(30) DEF ClockNext
<1>. QED BY <1>1, <1>2, PTL DEF ClockSpec

\* A number that is one more than another is just above it.
LEMMA Successor == \A a, b \in Int : a = b + 1 => a - 1 <= b /\ b < a
OBVIOUS

\* The clock did not go back.
Forward == wall < wall' \/ (wall = wall' /\ logical <= logical')

\* The numbers a well-typed state is made of.
Numbers ==
  /\ wall \in Int /\ logical \in Int
  /\ \A u \in Threads : cache[u].phys \in Int /\ cache[u].next \in Int /\ cache[u].end \in Int
  /\ \A i \in DOMAIN events : events[i].wall \in Int /\ events[i].logical \in Int

\* The wall times and counters of a well-typed state are integers.
LEMMA NumbersOfType == ClockTypeOK => Numbers
<1>. SUFFICES ASSUME ClockTypeOK PROVE Numbers
  BY ZenonT(30)
<1>. USE HLCAssumption DEF Phys, Logical
<1>1. wall \in Int /\ logical \in Int
  BY DEF ClockTypeOK
<1>2. \A u \in Threads : cache[u].phys \in Int /\ cache[u].next \in Int /\ cache[u].end \in Int
  BY DEF ClockTypeOK
<1>3. \A i \in DOMAIN events : events[i] \in Event
  <2>1. events \in Seq(Event)
    BY ZenonT(30) DEF ClockTypeOK, Event
  <2>. QED BY <2>1
<1>4. \A i \in DOMAIN events : events[i].wall \in Int /\ events[i].logical \in Int
  BY <1>3 DEF Event
<1>. QED BY <1>1, <1>2, <1>4, ZenonT(30) DEF Numbers

\* A step that records no call, does not move the clock back and leaves each
\* batch as it was or empty preserves the invariant.
LEMMA SilentStep ==
  ASSUME Numbers, Numbers', reset = "none",
         BatchesFresh, NowAboveAll, Unique,
         events' = events, reset' = reset, Forward,
         \A u \in Threads : cache'[u] = cache[u] \/ ~HasBatch(u)'
  PROVE  BatchesFresh' /\ NowAboveAll' /\ Unique'
<1>1. \A i \in DOMAIN events' : AtMostClock(events[i].wall, events[i].logical)'
  BY DEF Numbers, BatchesFresh, AtMostClock, Forward
<1>2. ASSUME NEW u \in Threads, HasBatch(u)'
      PROVE  AtMostClock(cache[u].phys, cache[u].end - 1)'
  <2>1. cache'[u] = cache[u] /\ HasBatch(u)
    BY <1>2, ZenonT(30) DEF HasBatch
  <2>2. AtMostClock(cache[u].phys, cache[u].end - 1)
    BY <2>1, ZenonT(30) DEF BatchesFresh
  <2>. QED BY <2>1, <2>2 DEF Numbers, AtMostClock, Forward
<1>3. BatchesFresh'
  BY <1>1, <1>2, ZenonT(30) DEF BatchesFresh, HasBatch
<1>4. NowAboveAll'
  BY ZenonT(30) DEF NowAboveAll, Lt
<1>5. Unique'
  BY ZenonT(30) DEF Unique
<1>. QED BY <1>3, <1>4, <1>5, ZenonT(30)

\* The step records one call, Last.
Grown ==
  /\ Len(events) \in Nat
  /\ DOMAIN events = 1 .. Len(events)
  /\ DOMAIN events' = 1 .. Len(events) + 1
  /\ \A i \in 1 .. Len(events) : events'[i] = events[i]

Last == events'[Len(events) + 1]

\* What a call records is appended, and nothing recorded before changes.
LEMMA ObservedGrown ==
  ASSUME ClockTypeOK,
         NEW op \in {"now", "update", "local"}, NEW w \in Phys, NEW l \in Logical,
         Observe(op, w, l)
  PROVE  Grown /\ Last = [op |-> op, wall |-> w, logical |-> l]
BY ObserveFacts, ZenonT(30) DEF Observe, Grown, Last

LastAtMostClock ==
  Last.wall < wall' \/ (Last.wall = wall' /\ Last.logical <= logical')

LastAboveClock ==
  Last.op # "update" => wall < Last.wall \/ (wall = Last.wall /\ logical < Last.logical)

NewBatchOf(t) ==
  \A u \in Threads :
    \/ cache'[u] = cache[u]
    \/ ~HasBatch(u)'
    \/ /\ u = t /\ Last.op # "update"
       /\ cache'[u].phys = Last.wall /\ Last.wall = wall'
       /\ cache'[u].next = Last.logical + 1 /\ cache'[u].end = logical' + 1

OneNewBatch == \E t : NewBatchOf(t)

\* A step that records a call preserves it if the stamp is at or below where the
\* clock is left and, when it is a returned one, above where the clock was; the
\* caller's new batch, if it gets one, is the run from the stamp to the clock.
LEMMA RecordedStep ==
  ASSUME Numbers, Numbers', reset = "none", reset' = "none",
         BatchesFresh, NowAboveAll, Unique,
         Grown, Forward, LastAtMostClock, LastAboveClock, OneNewBatch
  PROVE  BatchesFresh' /\ NowAboveAll' /\ Unique'
<1>. DEFINE n == Len(events)
            op == Last.op
            w == Last.wall
            l == Last.logical
<1>a. /\ n \in Nat
      /\ DOMAIN events = 1 .. n /\ DOMAIN events' = 1 .. n + 1
      /\ \A i \in 1 .. n : events'[i] = events[i]
      /\ events'[n + 1].op = op /\ events'[n + 1].wall = w /\ events'[n + 1].logical = l
      /\ w < wall' \/ (w = wall' /\ l <= logical')
      /\ op # "update" => wall < w \/ (wall = w /\ logical < l)
  BY ZenonT(30) DEF Grown, LastAtMostClock, LastAboveClock, Last
<1>b. PICK t :
        \A u \in Threads :
          \/ cache'[u] = cache[u]
          \/ ~HasBatch(u)'
          \/ /\ u = t /\ op # "update"
             /\ cache'[u].phys = w /\ w = wall'
             /\ cache'[u].next = l + 1 /\ cache'[u].end = logical' + 1
  BY ZenonT(30) DEF OneNewBatch, NewBatchOf
<1>. HIDE DEF n, op, w, l
<1>c. w \in Int /\ l \in Int
  BY <1>a DEF Numbers
<1>. USE <1>a, <1>c
<1>1. \A i \in 1 .. n : AtMostClock(events[i].wall, events[i].logical)
  BY ZenonT(30) DEF BatchesFresh
<1>2. \A u \in Threads : HasBatch(u) => AtMostClock(cache[u].phys, cache[u].end - 1)
  BY ZenonT(30) DEF BatchesFresh
<1>3. ASSUME NEW i \in 1 .. n + 1
      PROVE  AtMostClock(events[i].wall, events[i].logical)'
  BY <1>1, SMTT(30) DEF Numbers, AtMostClock, Forward
<1>4. ASSUME NEW u \in Threads, HasBatch(u)'
      PROVE  AtMostClock(cache[u].phys, cache[u].end - 1)'
  <2>1. CASE cache'[u] = cache[u]
    <3>1. AtMostClock(cache[u].phys, cache[u].end - 1)
      BY <1>2, <1>4, <2>1, ZenonT(30) DEF HasBatch
    <3>. QED BY <3>1, <2>1, SMTT(30) DEF Numbers, AtMostClock, Forward
  <2>2. CASE cache'[u].phys = w /\ w = wall' /\ cache'[u].end = logical' + 1
    <3>1. logical' \in Int /\ cache'[u].end \in Int
      BY ZenonT(30) DEF Numbers
    <3>2. cache'[u].phys = wall' /\ cache'[u].end - 1 <= logical'
      BY <2>2, <3>1, Successor, ZenonT(30)
    <3>. QED BY <3>1, <3>2, ZenonT(30) DEF AtMostClock, Numbers
  <2>. QED BY <1>4, <1>b, <2>1, <2>2, ZenonT(30)
<1>5. ASSUME NEW u \in Threads, NEW i \in 1 .. n + 1, HasBatch(u)',
             events'[i].op # "update", events'[i].wall = cache'[u].phys
      PROVE  events'[i].logical < cache'[u].next \/ events'[i].logical >= cache'[u].end
  <2>1. CASE cache'[u] = cache[u]
    <3>1. HasBatch(u) /\ AtMostClock(cache[u].phys, cache[u].end - 1)
      BY <1>2, <1>5, <2>1, ZenonT(30) DEF HasBatch
    <3>2. CASE i = n + 1
      BY <1>5, <2>1, <3>1, <3>2, SMTT(30) DEF Numbers, AtMostClock
    <3>3. CASE i \in 1 .. n
      BY <1>5, <2>1, <3>1, <3>3, ZenonT(30) DEF BatchesFresh
    <3>. QED BY <3>2, <3>3
  <2>2. CASE op # "update" /\ cache'[u].phys = w /\ cache'[u].next = l + 1
    <3>1. CASE i = n + 1
      BY <2>2, <3>1
    <3>2. CASE i \in 1 .. n
      BY <1>1, <1>5, <2>2, <3>2, SMTT(30) DEF Numbers, AtMostClock
    <3>. QED BY <3>1, <3>2
  <2>. QED BY <1>5, <1>b, <2>1, <2>2, ZenonT(30)
<1>6. ASSUME NEW u \in Threads, NEW v \in Threads, u # v, HasBatch(u)', HasBatch(v)',
             cache'[u].phys = cache'[v].phys
      PROVE  cache'[u].end <= cache'[v].next \/ cache'[v].end <= cache'[u].next
  <2>1. CASE cache'[u] = cache[u] /\ cache'[v] = cache[v]
    BY <1>6, <2>1, ZenonT(30) DEF BatchesFresh, HasBatch
  <2>2. CASE cache'[u] = cache[u] /\ op # "update" /\ cache'[v].phys = w /\ cache'[v].next = l + 1
    <3>1. AtMostClock(cache[u].phys, cache[u].end - 1)
      BY <1>2, <1>6, <2>2, ZenonT(30) DEF HasBatch
    <3>. QED BY <1>6, <2>2, <3>1, SMTT(30) DEF Numbers, AtMostClock
  <2>3. CASE cache'[v] = cache[v] /\ op # "update" /\ cache'[u].phys = w /\ cache'[u].next = l + 1
    <3>1. AtMostClock(cache[v].phys, cache[v].end - 1)
      BY <1>2, <1>6, <2>3, ZenonT(30) DEF HasBatch
    <3>. QED BY <1>6, <2>3, <3>1, SMTT(30) DEF Numbers, AtMostClock
  <2>. QED BY <1>6, <1>b, <2>1, <2>2, <2>3
<1>7. BatchesFresh'
  BY <1>3, <1>4, <1>5, <1>6, ZenonT(30) DEF BatchesFresh
<1>8. NowAboveAll'
  <2>. SUFFICES ASSUME NEW j \in 1 .. n + 1, events'[j].op = "now", NEW i \in 1 .. j - 1
                PROVE  Lt(events'[i], events'[j])
    BY ZenonT(30) DEF NowAboveAll, Lt
  <2>1. CASE j = n + 1
    BY <1>1, <2>1, SMTT(30) DEF Numbers, AtMostClock, Lt
  <2>2. CASE j \in 1 .. n
    BY <2>2, SMTT(30) DEF NowAboveAll, Lt
  <2>. QED BY <2>1, <2>2
<1>9. Unique'
  <2>. SUFFICES ASSUME NEW i \in 1 .. n + 1, NEW j \in 1 .. n + 1,
                       events'[i].op # "update", events'[j].op # "update",
                       events'[i].wall = events'[j].wall,
                       events'[i].logical = events'[j].logical
                PROVE  i = j
    BY ZenonT(30) DEF Unique
  <2>1. CASE i \in 1 .. n /\ j \in 1 .. n
    BY <2>1, ZenonT(30) DEF Unique
  <2>2. CASE i = n + 1 /\ j \in 1 .. n
    BY <1>1, <2>2 DEF Numbers, AtMostClock
  <2>3. CASE j = n + 1 /\ i \in 1 .. n
    BY <1>1, <2>3, SMTT(30) DEF Numbers, AtMostClock
  <2>. QED BY <2>1, <2>2, <2>3
<1>. QED BY <1>7, <1>8, <1>9, ZenonT(30)

\* t takes the next stamp of its batch.
Taken(t) ==
  /\ Last.op = "local" /\ Last.wall = cache[t].phys /\ Last.logical = cache[t].next
  /\ wall' = wall /\ logical' = logical
  /\ \A u \in Threads :
       /\ cache'[u].phys = cache[u].phys /\ cache'[u].end = cache[u].end
       /\ cache'[u].next = IF u = t THEN cache[u].next + 1 ELSE cache[u].next

\* Such a stamp is new and leaves the rest of the batch fresh.
LEMMA BatchStep ==
  ASSUME Numbers, Numbers', reset = "none", reset' = "none",
         BatchesFresh, NowAboveAll, Unique,
         Grown,
         NEW t \in Threads, HasBatch(t), Taken(t)
  PROVE  BatchesFresh' /\ NowAboveAll' /\ Unique'
<1>. DEFINE n == Len(events)
<1>a. /\ n \in Nat
      /\ DOMAIN events = 1 .. n /\ DOMAIN events' = 1 .. n + 1
      /\ \A i \in 1 .. n : events'[i] = events[i]
  BY ZenonT(30) DEF Grown
<1>b. /\ events'[n + 1].op = "local" /\ events'[n + 1].wall = cache[t].phys
      /\ events'[n + 1].logical = cache[t].next
  BY ZenonT(30) DEF Taken, Last
<1>c. ASSUME NEW u \in Threads
      PROVE  /\ cache[u].phys \in Int /\ cache[u].next \in Int /\ cache[u].end \in Int
             /\ cache'[u].phys = cache[u].phys /\ cache'[u].end = cache[u].end
             /\ cache'[u].next = IF u = t THEN cache[u].next + 1 ELSE cache[u].next
  BY ZenonT(30) DEF Numbers, Taken
<1>d. wall' = wall /\ logical' = logical /\ wall \in Int /\ logical \in Int
  BY ZenonT(30) DEF Numbers, Taken
<1>e. ASSUME NEW i \in 1 .. n PROVE events[i].wall \in Int /\ events[i].logical \in Int
  BY <1>a, <1>e, ZenonT(30) DEF Numbers
<1>. HIDE DEF n
<1>1. ASSUME NEW u \in Threads, HasBatch(u)' PROVE HasBatch(u)
  BY <1>1, <1>c, ZenonT(30) DEF HasBatch
<1>2. ASSUME NEW u \in Threads, HasBatch(u)'
      PROVE  AtMostClock(cache[u].phys, cache[u].end - 1)'
  <2>1. AtMostClock(cache[u].phys, cache[u].end - 1)
    BY <1>1, <1>2, ZenonT(30) DEF BatchesFresh
  <2>. QED BY <1>c, <1>d, <2>1, ZenonT(30) DEF AtMostClock
<1>3. ASSUME NEW i \in 1 .. n + 1
      PROVE  AtMostClock(events[i].wall, events[i].logical)'
  <2>1. AtMostClock(cache[t].phys, cache[t].end - 1)
    BY ZenonT(30) DEF BatchesFresh
  <2>2. CASE i = n + 1
    <3>1. AtMostClock(cache[t].phys, cache[t].next)
      BY <1>c, <1>d, <2>1 DEF AtMostClock, HasBatch
    <3>. QED BY <1>b, <1>d, <2>2, <3>1, ZenonT(30) DEF AtMostClock
  <2>3. CASE i \in 1 .. n
    <3>1. AtMostClock(events[i].wall, events[i].logical)
      BY <1>a, <2>3, ZenonT(30) DEF BatchesFresh
    <3>. QED BY <1>a, <1>d, <2>3, <3>1, ZenonT(30) DEF AtMostClock
  <2>. QED BY <1>a, <1>3, <2>2, <2>3
<1>4. ASSUME NEW u \in Threads, NEW i \in 1 .. n + 1, HasBatch(u)',
             events'[i].op # "update", events'[i].wall = cache'[u].phys
      PROVE  events'[i].logical < cache'[u].next \/ events'[i].logical >= cache'[u].end
  <2>0. HasBatch(u)
    BY <1>1, <1>4, ZenonT(30)
  <2>1. CASE i \in 1 .. n
    <3>1. /\ events'[i] = events[i] /\ events[i].op # "update"
          /\ events[i].wall = cache[u].phys
      BY <1>a, <1>c, <1>4, <2>1, ZenonT(30)
    <3>2. events[i].logical < cache[u].next \/ events[i].logical >= cache[u].end
      BY <1>a, <2>0, <2>1, <3>1, ZenonT(30) DEF BatchesFresh
    <3>. QED BY <1>c, <1>e, <2>1, <3>1, <3>2
  <2>2. CASE i = n + 1 /\ u = t
    BY <1>b, <1>c, <2>2
  <2>3. CASE i = n + 1 /\ u # t
    <3>1. cache[t].phys = cache[u].phys
      BY <1>b, <1>c, <1>4, <2>3, ZenonT(30)
    <3>2. cache[t].end <= cache[u].next \/ cache[u].end <= cache[t].next
      BY <2>0, <2>3, <3>1, ZenonT(30) DEF BatchesFresh
    <3>3. cache[t].next < cache[t].end
      BY ZenonT(30) DEF HasBatch
    <3>. QED BY <1>b, <1>c, <2>3, <3>2, <3>3
  <2>. QED BY <1>a, <1>4, <2>1, <2>2, <2>3
<1>5. ASSUME NEW u \in Threads, NEW v \in Threads, u # v, HasBatch(u)', HasBatch(v)',
             cache'[u].phys = cache'[v].phys
      PROVE  cache'[u].end <= cache'[v].next \/ cache'[v].end <= cache'[u].next
  <2>1. cache[u].phys = cache[v].phys
    BY <1>c, <1>5, ZenonT(30)
  <2>2. cache[u].end <= cache[v].next \/ cache[v].end <= cache[u].next
    BY <1>1, <1>5, <2>1, ZenonT(30) DEF BatchesFresh
  <2>. QED BY <1>c, <2>2
<1>6. BatchesFresh'
  BY <1>a, <1>2, <1>3, <1>4, <1>5, ZenonT(30) DEF BatchesFresh
<1>7. NowAboveAll'
  <2>. SUFFICES ASSUME NEW j \in 1 .. n + 1, events'[j].op = "now", NEW i \in 1 .. j - 1
                PROVE  Lt(events'[i], events'[j])
    BY <1>a, ZenonT(30) DEF NowAboveAll, Lt
  <2>1. j \in 1 .. n /\ i \in 1 .. n
    BY <1>a, <1>b
  <2>. QED BY <1>a, <2>1, ZenonT(30) DEF NowAboveAll, Lt
<1>8. Unique'
  <2>1. ASSUME NEW i \in 1 .. n, events[i].op # "update", events[i].wall = cache[t].phys
        PROVE  events[i].logical # cache[t].next
    <3>1. events[i].logical < cache[t].next \/ events[i].logical >= cache[t].end
      BY <1>a, <2>1, ZenonT(30) DEF BatchesFresh
    <3>2. cache[t].next < cache[t].end
      BY ZenonT(30) DEF HasBatch
    <3>. QED BY <1>c, <1>e, <2>1, <3>1, <3>2
  <2>. SUFFICES ASSUME NEW i \in 1 .. n + 1, NEW j \in 1 .. n + 1,
                       events'[i].op # "update", events'[j].op # "update",
                       events'[i].wall = events'[j].wall,
                       events'[i].logical = events'[j].logical
                PROVE  i = j
    BY <1>a, ZenonT(30) DEF Unique
  <2>2. CASE i \in 1 .. n /\ j \in 1 .. n
    BY <1>a, <2>2, ZenonT(30) DEF Unique
  <2>3. CASE i = n + 1 /\ j \in 1 .. n
    BY <1>a, <1>b, <2>1, <2>3, ZenonT(30)
  <2>4. CASE j = n + 1 /\ i \in 1 .. n
    BY <1>a, <1>b, <2>1, <2>4, ZenonT(30)
  <2>. QED BY <1>a, <2>2, <2>3, <2>4
<1>. QED BY <1>6, <1>7, <1>8, ZenonT(30)

\* Until update() wraps the counter or the reading after an overflow is an older
\* one, the invariant that makes stamps ordered and unique is kept by every call.
THEOREM ClockInvariant == ClockSpec => []ClockIInv
<1>. USE HLCAssumption
<1>1. ClockInit => ClockIInv
  <2>. SUFFICES ASSUME ClockInit PROVE ClockIInv
    BY ZenonT(30)
  <2>1. ClockTypeOK
    BY DEF ClockInit, ClockTypeOK, Phys, Logical
  <2>2. BatchesFresh
    BY DEF ClockInit, BatchesFresh, HasBatch, Phys
  <2>3. NowAboveAll /\ Unique
    BY DEF ClockInit, NowAboveAll, Unique
  <2>. QED BY <2>1, <2>2, <2>3, ZenonT(30) DEF ClockIInv
<1>2. ClockIInv /\ ClockTypeOK' /\ [ClockNext]_clockVars => ClockIInv'
  <2>. SUFFICES ASSUME ClockIInv, ClockTypeOK', [ClockNext]_clockVars, reset' = "none"
                PROVE  BatchesFresh' /\ NowAboveAll' /\ Unique'
    BY ZenonT(30) DEF ClockIInv, NowAboveAll, Unique
  <2>1. ClockTypeOK /\ Numbers /\ Numbers'
    BY NumbersOfType, PTL DEF ClockIInv
  <2>2. reset = "none"
    <3>1. ASSUME NEW m \in Incoming, Update(m) PROVE reset = "none"
      BY <2>1, <3>1, UpdateFacts, ZenonT(30)
    <3>2. CASE \A m \in Incoming : ~Update(m)
      BY <3>2, ZenonT(30) DEF ClockNext, clockVars, Tick, StepBack, SystemClock, Now, NowSpinDone, NowReread,
                  LocalNow, Reserve, Retry
    <3>. QED BY <3>1, <3>2, ZenonT(30)
  <2>3. BatchesFresh /\ NowAboveAll /\ Unique
    BY <2>2, ZenonT(30) DEF ClockIInv
  <2>4. CASE UNCHANGED <<events, wall, logical, cache, reset>>
    <3>1. Forward
      BY <2>1, <2>4 DEF Forward, Numbers
    <3>. QED BY <2>1, <2>2, <2>3, <2>4, <3>1, SilentStep, ZenonT(30)
  <2>5. ASSUME NEW m \in Incoming, Update(m)
        PROVE  BatchesFresh' /\ NowAboveAll' /\ Unique'
    <3>1. m.wall \in Phys /\ m.logical \in Logical
      BY ZenonT(30) DEF Stamp
    <3>2. m.wall \in Int /\ m.logical \in Int
      BY <3>1 DEF Phys, Logical
    <3>3. Grown /\ Last = [op |-> "update", wall |-> m.wall, logical |-> m.logical]
      BY <2>1, <2>5, <3>1, ObserveFacts, ZenonT(30) DEF Update, Observe, Grown, Last
    <3>4. Forward /\ (m.wall < wall' \/ (m.wall = wall' /\ m.logical <= logical'))
      BY <2>1, <2>5, UpdateFacts, ZenonT(30) DEF Forward
    <3>5. cache' = cache
      BY <2>5, ZenonT(30) DEF Update
    <3>6. LastAtMostClock /\ LastAboveClock /\ OneNewBatch
      BY <3>3, <3>4, <3>5, ZenonT(30) DEF LastAtMostClock, LastAboveClock, OneNewBatch, NewBatchOf
    <3>. QED BY <2>1, <2>2, <2>3, <3>3, <3>4, <3>6, RecordedStep, ZenonT(30)
  <2>6. ASSUME NEW t \in Threads, Now(t) PROVE BatchesFresh' /\ NowAboveAll' /\ Unique'
    <3>1. phys \in Phys /\ wall \in Phys /\ logical \in Logical
      BY <2>1, ZenonT(30) DEF ClockTypeOK
    <3>2. CASE phys > wall
      <4>1. wall' = phys /\ logical' = 0 /\ cache' = cache /\ Observe("now", phys, 0)
        BY <2>6, <3>1, <3>2 DEF Now, Phys
      <4>2. Grown /\ Last = [op |-> "now", wall |-> phys, logical |-> 0]
        BY <2>1, <3>1, <4>1, ObservedGrown DEF Logical
      <4>3. Forward /\ phys \in Int /\ wall \in Int
        BY <3>1, <3>2, <4>1 DEF Forward, Phys
      <4>4. LastAtMostClock /\ LastAboveClock /\ OneNewBatch
        BY <3>2, <4>1, <4>2, <4>3 DEF LastAtMostClock, LastAboveClock, OneNewBatch, NewBatchOf
      <4>. QED BY <2>1, <2>2, <2>3, <4>2, <4>3, <4>4, RecordedStep, ZenonT(30)
    <3>3. CASE phys <= wall /\ logical # MaxLogical
      <4>1. wall' = wall /\ logical' = logical + 1 /\ cache' = cache
            /\ Observe("now", wall, logical + 1)
        BY <2>6, <3>1, <3>3 DEF Now, Phys
      <4>2. logical + 1 \in Logical /\ logical + 1 \in Int /\ wall \in Int /\ logical < logical + 1
        BY <3>1, <3>3 DEF Logical, Phys
      <4>3. Grown /\ Last = [op |-> "now", wall |-> wall, logical |-> logical + 1]
        BY <2>1, <3>1, <4>1, <4>2, ObservedGrown, ZenonT(30)
      <4>4. wall = wall' /\ logical + 1 = logical' /\ logical \in Int /\ logical' \in Int
        BY <3>1, <4>1, <4>2 DEF Logical
      <4>5. Forward
        BY <4>4, Successor DEF Forward
      <4>6. LastAtMostClock /\ LastAboveClock /\ OneNewBatch
        BY <4>1, <4>2, <4>3, <4>4, Successor, SMTT(30) DEF LastAtMostClock, LastAboveClock, OneNewBatch, NewBatchOf
      <4>. QED BY <2>1, <2>2, <2>3, <4>3, <4>5, <4>6, RecordedStep, ZenonT(30)
    <3>4. CASE phys <= wall /\ logical = MaxLogical
      BY <2>4, <2>6, <3>1, <3>4 DEF Now, Phys
    <3>. QED BY <3>1, <3>2, <3>3, <3>4 DEF Phys
  <2>7. ASSUME NEW t \in Threads, NowReread(t) PROVE BatchesFresh' /\ NowAboveAll' /\ Unique'
    <3>1. phys \in Phys /\ wall \in Phys /\ logical \in Logical
      BY <2>1, ZenonT(30) DEF ClockTypeOK
    <3>2. phys > wall /\ wall' = phys /\ logical' = 0 /\ cache' = cache /\ Observe("now", phys, 0)
      BY <2>7, ZenonT(30) DEF NowReread
    <3>3. Grown /\ Last = [op |-> "now", wall |-> phys, logical |-> 0]
      BY <2>1, <3>1, <3>2, ObservedGrown DEF Logical
    <3>4. Forward /\ phys \in Int /\ wall \in Int
      BY <3>1, <3>2 DEF Forward, Phys
    <3>5. LastAtMostClock /\ LastAboveClock /\ OneNewBatch
      BY <3>2, <3>3, <3>4 DEF LastAtMostClock, LastAboveClock, OneNewBatch, NewBatchOf
    <3>. QED BY <2>1, <2>2, <2>3, <3>3, <3>4, <3>5, RecordedStep, ZenonT(30)
  <2>8. ASSUME NEW t \in Threads, LocalNow(t) PROVE BatchesFresh' /\ NowAboveAll' /\ Unique'
    <3>1. CASE phys = cache[t].phys /\ cache[t].next < cache[t].end
      <4>1. /\ cache[t] \in [phys : Phys, next : Logical, end : Logical]
            /\ \A u \in Threads : cache[u] \in [phys : Phys, next : Logical, end : Logical]
        BY <2>1, ZenonT(30) DEF ClockTypeOK
      <4>2. /\ cache' = [cache EXCEPT ![t].next = cache[t].next + 1]
            /\ wall' = wall /\ logical' = logical
            /\ Observe("local", cache[t].phys, cache[t].next)
        BY <2>8, <3>1, ZenonT(30) DEF LocalNow
      <4>3. Grown /\ Last = [op |-> "local", wall |-> cache[t].phys, logical |-> cache[t].next]
        BY <2>1, <4>1, <4>2, ObservedGrown, ZenonT(30)
      <4>4. \A u \in Threads :
              /\ cache'[u].phys = cache[u].phys /\ cache'[u].end = cache[u].end
              /\ cache'[u].next = IF u = t THEN cache[u].next + 1 ELSE cache[u].next
        BY <2>1, <4>1, <4>2, ZenonT(30) DEF ClockTypeOK
      <4>5. HasBatch(t)
        BY <3>1, ZenonT(30) DEF HasBatch
      <4>6. Taken(t)
        BY <4>2, <4>3, <4>4, ZenonT(30) DEF Taken
      <4>. QED BY <2>1, <2>2, <2>3, <4>3, <4>5, <4>6, BatchStep, ZenonT(30)
    <3>2. CASE ~(phys = cache[t].phys /\ cache[t].next < cache[t].end)
      <4>1. /\ events' = events /\ reset' = reset /\ wall' = wall /\ logical' = logical
            /\ cache' = IF phys > cache[t].phys
                        THEN [cache EXCEPT ![t] = [phys |-> phys, next |-> 0, end |-> 0]]
                        ELSE cache
        BY <2>8, <3>2, ZenonT(30) DEF LocalNow
      <4>2. Forward
        BY <2>1, <4>1 DEF Forward, Numbers
      <4>3. \A u \in Threads : cache'[u] = cache[u] \/ ~HasBatch(u)'
        BY <2>1, <4>1 DEF ClockTypeOK, HasBatch
      <4>. QED BY <2>1, <2>2, <2>3, <4>1, <4>2, <4>3, SilentStep, ZenonT(30)
    <3>. QED BY <3>1, <3>2, ZenonT(30)
  <2>9. ASSUME NEW t \in Threads, Reserve(t) PROVE BatchesFresh' /\ NowAboveAll' /\ Unique'
    <3>1. CASE Forward /\ UNCHANGED <<cache, events, reset>>
      BY <2>1, <2>2, <2>3, <3>1, SilentStep, ZenonT(30)
    <3>2. ASSUME NEW start \in Logical, NEW next \in Logical, NEW end \in Logical,
                 wall' = req[t], wall' \in Phys, logical' \in Logical,
                 wall < wall' \/ (wall = wall' /\ logical < start),
                 start <= logical',
                 next < end => next = start + 1 /\ end = logical' + 1,
                 cache' = [cache EXCEPT ![t] = [phys |-> req[t], next |-> next, end |-> end]],
                 Observe("local", req[t], start)
          PROVE  BatchesFresh' /\ NowAboveAll' /\ Unique'
      <4>1. start \in Int /\ wall' \in Int
        BY <3>2 DEF Phys, Logical
      <4>2. Grown /\ Last = [op |-> "local", wall |-> wall', logical |-> start]
        BY <2>1, <3>2, ObservedGrown, ZenonT(30)
      <4>3. Forward
        <5>1. (wall < wall' \/ (wall = wall' /\ logical < start)) /\ start <= logical'
          BY <3>2, ZenonT(30)
        <5>2. wall \in Int /\ logical \in Int /\ logical' \in Int
          BY <2>1, <3>2, ZenonT(30) DEF Numbers, Logical
        <5>. QED BY <4>1, <5>1, <5>2 DEF Forward
      <4>4. \A u \in Threads :
              \/ cache'[u] = cache[u]
              \/ ~HasBatch(u)'
              \/ /\ u = t
                 /\ cache'[u].phys = wall'
                 /\ cache'[u].next = start + 1 /\ cache'[u].end = logical' + 1
        BY <2>1, <3>2, ZenonT(30) DEF ClockTypeOK, HasBatch
      <4>5. LastAtMostClock /\ LastAboveClock
        BY <3>2, <4>1, <4>2, ZenonT(30) DEF LastAtMostClock, LastAboveClock
      <4>6. OneNewBatch
        <5>1. Last.op # "update" /\ Last.wall = wall' /\ Last.logical = start
          BY <4>2, ZenonT(30)
        <5>2. NewBatchOf(t)
          BY <4>4, <5>1, ZenonT(30) DEF NewBatchOf
        <5>. QED BY <5>2, ZenonT(30) DEF OneNewBatch
      <4>. QED BY <2>1, <2>2, <2>3, <4>2, <4>3, <4>5, <4>6, RecordedStep, ZenonT(30)
    <3>. QED BY <2>1, <2>9, <3>1, <3>2, ReserveFacts, ZenonT(30) DEF Forward
  <2>10. ASSUME NEW t \in Threads, NowSpinDone(t) \/ Retry(t)
         PROVE  BatchesFresh' /\ NowAboveAll' /\ Unique'
    BY <2>4, <2>10, ZenonT(30) DEF NowSpinDone, Retry
  <2>11. CASE Tick \/ StepBack \/ UNCHANGED clockVars
    BY <2>4, <2>11, ZenonT(30) DEF Tick, StepBack, SystemClock, clockVars
  <2>. QED BY <2>5, <2>6, <2>7, <2>8, <2>9, <2>10, <2>11, ZenonT(30) DEF ClockNext
<1>. QED BY <1>1, <1>2, ClockTypeCorrect, PTL DEF ClockSpec

\* HybridLogicalClock::now() returns stamps above everything the node returned
\* or received before: the order every write of a node is stamped with.
THEOREM StampsOrdered == ClockSpec => []NowAboveAll
BY ClockInvariant, PTL DEF ClockIInv

\* No two calls, on the clock or on any thread's batch, return the same stamp.
THEOREM StampsUnique == ClockSpec => []Unique
BY ClockInvariant, PTL DEF ClockIInv
-----------------------------------------------------------------------------
\* Numbers and recursive functions

\* Numbers neither of which is above the other are equal.
LEMMA Antisymmetric == \A a, b \in Nat : a <= b /\ b <= a => a = b
OBVIOUS

\* A set of numbers has a least one.
LEMMA Least ==
  ASSUME NEW T \in SUBSET Nat, T # {}
  PROVE  \E x \in T : \A y \in T : x <= y
<1> DEFINE R == {p \in Nat \X Nat : p[1] < p[2]}
<1>1. IsWellFoundedOn(R, Nat)
  BY NatLessThanWellFounded, ZenonT(30) DEF OpToRel
<1> HIDE DEF R
<1>2. PICK x \in T : \A y \in T : ~(<<y, x>> \in R)
  BY <1>1, WFMin, ZenonT(30)
<1>3. \A y \in T : y < x => <<y, x>> \in R
  BY ZenonT(30) DEF R
<1>4. \A y \in T : ~(y < x)
  BY <1>2, <1>3, ZenonT(30)
<1> QED BY <1>4

\* What each step of a function on 0 .. n keeps, all its values have.
LEMMA StaysIn ==
  ASSUME NEW S, NEW n \in Nat, NEW f, f[0] \in S,
         \A i \in 1 .. n : f[i - 1] \in S => f[i] \in S
  PROVE  \A i \in 0 .. n : f[i] \in S
<1> DEFINE Bad == {i \in 0 .. n : f[i] \notin S}
<1> SUFFICES ASSUME Bad # {} PROVE FALSE
  BY ZenonT(30)
<1>1. PICK k \in Bad : \A y \in Bad : k <= y
  <2>1. Bad \in SUBSET Nat
    OBVIOUS
  <2> HIDE DEF Bad
  <2> QED BY <2>1, Least, ZenonT(30)
<1>2. k # 0
  BY ZenonT(30)
<1>3. k \in 1 .. n /\ k - 1 \in 0 .. n /\ k - 1 \notin Bad
  BY <1>1, <1>2
<1> QED BY <1>3, ZenonT(30)

\* Functions that begin alike and take the same steps are alike.
SameSteps(f, g, n) == f[0] = g[0] /\ \A i \in 1 .. n : f[i - 1] = g[i - 1] => f[i] = g[i]
LEMMA Agree ==
  ASSUME NEW n \in Nat, NEW f, NEW g, SameSteps(f, g, n)
  PROVE  \A i \in 0 .. n : f[i] = g[i]
<1> DEFINE Bad == {i \in 0 .. n : f[i] # g[i]}
<1> SUFFICES ASSUME Bad # {} PROVE FALSE
  BY ZenonT(30)
<1>1. PICK k \in Bad : \A y \in Bad : k <= y
  <2>1. Bad \in SUBSET Nat
    OBVIOUS
  <2> HIDE DEF Bad
  <2> QED BY <2>1, Least, ZenonT(30)
<1>2. k # 0
  BY ZenonT(30) DEF SameSteps
<1>3. k \in 1 .. n /\ k - 1 \in 0 .. n /\ k - 1 \notin Bad
  BY <1>1, <1>2
<1> QED BY <1>3, ZenonT(30) DEF SameSteps

\* f begins with x and takes the steps of F.
Folds(f, x, F, n) ==
  /\ f = [i \in 0 .. n |-> f[i]]
  /\ \A i \in 0 .. n : f[i] = IF i = 0 THEN x ELSE F[<<i, f[i - 1]>>]

\* There is such a function.
LEMMA FoldExists ==
  ASSUME NEW x, NEW F, NEW n \in Nat
  PROVE  \E f : Folds(f, x, F, n)
<1> DEFINE Bad == {k \in Nat : ~ \E f : Folds(f, x, F, k)}
<1> SUFFICES ASSUME Bad # {} PROVE FALSE
  BY ZenonT(30)
<1>1. PICK k \in Bad : \A y \in Bad : k <= y
  <2>1. Bad \in SUBSET Nat
    BY ZenonT(30)
  <2> HIDE DEF Bad
  <2> QED BY <2>1, Least, ZenonT(30)
<1>2. k # 0
  <2> SUFFICES ASSUME k = 0 PROVE FALSE
    BY ZenonT(30)
  <2>1. PICK g : g = [i \in 0 .. 0 |-> x]
    BY ZenonT(30)
  <2>2. Folds(g, x, F, 0)
    BY <2>1 DEF Folds
  <2> QED BY <2>2, ZenonT(30)
<1>3. k - 1 \in Nat /\ k - 1 \notin Bad
  BY <1>1, <1>2
<1>4. PICK g : Folds(g, x, F, k - 1)
  BY <1>3, ZenonT(30)
<1>5. PICK f : f = [i \in 0 .. k |-> IF i = k THEN F[<<k, g[k - 1]>>] ELSE g[i]]
  BY ZenonT(30)
<1>6. \A i \in 0 .. k : f[i] = IF i = k THEN F[<<k, g[k - 1]>>] ELSE g[i]
  BY <1>5, ZenonT(30)
<1>7. f = [i \in 0 .. k |-> f[i]]
  BY <1>5, <1>6, ZenonT(30)
<1>8. ASSUME NEW i \in 0 .. k PROVE f[i] = IF i = 0 THEN x ELSE F[<<i, f[i - 1]>>]
  <2>1. CASE i = k
    BY <1>2, <1>6, <2>1
  <2>2. CASE i # k
    <3>1. i \in 0 .. k - 1 /\ f[i] = g[i] /\ (i # 0 => f[i - 1] = g[i - 1])
      BY <1>6, <2>2
    <3>2. g[i] = IF i = 0 THEN x ELSE F[<<i, g[i - 1]>>]
      BY <1>4, <3>1, ZenonT(30) DEF Folds
    <3> QED BY <3>1, <3>2, ZenonT(30)
  <2> QED BY <2>1, <2>2, ZenonT(30)
<1>9. Folds(f, x, F, k)
  BY <1>7, <1>8, ZenonT(30) DEF Folds
<1> QED BY <1>1, <1>9, ZenonT(30)

\* It stays in a set that the steps do not leave.
Closed(F, S, n) == \A i \in 1 .. n, x \in S : F[<<i, x>>] \in S
FoldsIn(f, x, F, n, S) ==
  /\ f = [i \in 0 .. n |-> f[i]] /\ f[0] = x
  /\ \A i \in 1 .. n : f[i] = F[<<i, f[i - 1]>>]
  /\ \A i \in 0 .. n : f[i] \in S
LEMMA FoldInExists ==
  ASSUME NEW S, NEW x \in S, NEW n \in Nat, NEW F, Closed(F, S, n)
  PROVE  \E f : FoldsIn(f, x, F, n, S)
<1>1. PICK f : Folds(f, x, F, n)
  BY FoldExists, ZenonT(30)
<1>2. f = [i \in 0 .. n |-> f[i]]
  BY <1>1, ZenonT(30) DEF Folds
<1>3. \A i \in 0 .. n : f[i] = IF i = 0 THEN x ELSE F[<<i, f[i - 1]>>]
  BY <1>1, ZenonT(30) DEF Folds
<1>4. f[0] = x /\ \A i \in 1 .. n : f[i] = F[<<i, f[i - 1]>>]
  <2>1. 0 \in 0 .. n /\ \A i \in 1 .. n : i \in 0 .. n /\ i # 0
    OBVIOUS
  <2> QED BY <1>3, <2>1, ZenonT(30)
<1>5. \A i \in 1 .. n : f[i - 1] \in S => f[i] \in S
  BY <1>4, ZenonT(30) DEF Closed
<1>6. \A i \in 0 .. n : f[i] \in S
  <2>1. f[0] \in S
    BY <1>4, ZenonT(30)
  <2> QED BY <1>5, <2>1, StaysIn, ZenonT(30)
<1> QED BY <1>2, <1>4, <1>6, ZenonT(30) DEF FoldsIn

-----------------------------------------------------------------------------
\* Memory and its rules

Perm == {PermOf[v] : v \in DOMAIN PermOf}
Rule == [prefix : DOMAIN Length, perm : Perm]
AWrite == [key : Key \cup {Junk}, value : Value, batch : {0, 1}]
Memory == [store : [Key -> Value \cup {None}], users : [Uids -> PublicKey \cup {None}],
           owner : [PublicKey -> Uids \cup {None}], acls : [Uids -> Seq(Rule)]]
History == [DOMAIN RuleKey -> Perm \cup {None}]

\* The rules of u that were set and what they were last set to.
RuleOf(st, r) == [prefix |-> RuleKey[r].prefix, perm |-> st[r]]
InForce(st, u) ==
  {RuleOf(st, r) : r \in {q \in DOMAIN RuleKey : RuleKey[q].uid = u /\ st[q] # None}}
Elements(s) == {s[i] : i \in DOMAIN s}
Descending(s) ==
  \A i, j \in DOMAIN s : i < j => Length[s[i].prefix] > Length[s[j].prefix]
MemOK(m, st) ==
  /\ m \in Memory /\ st \in History
  /\ \A u \in Uids : Descending(m.acls[u]) /\ Elements(m.acls[u]) = InForce(st, u)

\* A set of n rules with different prefixes can be sorted.
Sorts(s, R, n) ==
  /\ s \in [1 .. n -> R] /\ R = {s[i] : i \in 1 .. n}
  /\ \A i, j \in 1 .. n : i < j => Length[s[i].prefix] > Length[s[j].prefix]
LEMMA SortExists ==
  ASSUME NEW n \in Nat, NEW Q \in SUBSET Rule, IsFiniteSet(Q), Cardinality(Q) = n,
         \A a, b \in Q : a.prefix = b.prefix => a = b
  PROVE  \E s : Sorts(s, Q, n)
<1> DEFINE Good(R) == /\ R \in SUBSET Rule /\ IsFiniteSet(R)
                      /\ \A a, b \in R : a.prefix = b.prefix => a = b
           Bad == {k \in Nat : \E R : Good(R) /\ Cardinality(R) = k /\ ~ \E s : Sorts(s, R, k)}
<1> SUFFICES ASSUME Bad # {} PROVE FALSE
  BY ZenonT(30)
<1>1. PICK k \in Bad : \A y \in Bad : k <= y
  <2>1. Bad \in SUBSET Nat
    BY ZenonT(30)
  <2> HIDE DEF Bad
  <2> QED BY <2>1, Least, ZenonT(30)
<1>2. PICK R : Good(R) /\ Cardinality(R) = k /\ ~ \E s : Sorts(s, R, k)
  BY ZenonT(30)
<1>3. R # {}
  <2> SUFFICES ASSUME R = {} PROVE FALSE
    BY ZenonT(30)
  <2>1. k = 0
    BY <1>2, FS_EmptySet, ZenonT(30)
  <2>2. PICK s : s = [i \in 1 .. 0 |-> i]
    BY ZenonT(30)
  <2>3. Sorts(s, R, k)
    BY <2>1, <2>2 DEF Sorts
  <2> QED BY <1>2, <2>3, ZenonT(30)
<1>4. \A a \in R : a.prefix \in DOMAIN Length /\ Length[a.prefix] \in Nat
  BY <1>2, ServerAssumption, ZenonT(30) DEF Rule
<1>5. PICK r \in R : \A a \in R : Length[r.prefix] <= Length[a.prefix]
  <2> DEFINE T == {Length[a.prefix] : a \in R}
  <2>1. T \in SUBSET Nat /\ T # {}
    BY <1>3, <1>4
  <2>2. PICK x \in T : \A y \in T : x <= y
    <3> HIDE DEF T
    <3> QED BY <2>1, Least, ZenonT(30)
  <2> QED BY <2>2
<1>6. \A a \in R \ {r} : Length[r.prefix] < Length[a.prefix]
  BY <1>2, <1>4, <1>5, ServerAssumption
<1>7. IsFiniteSet(R \ {r}) /\ Cardinality(R \ {r}) = k - 1
  BY <1>2, <1>5, FS_RemoveElement, ZenonT(30)
<1>8. k - 1 \in Nat
  BY <1>7, FS_CardinalityType
<1>9. PICK s : Sorts(s, R \ {r}, k - 1)
  <2>1. Good(R \ {r})
    BY <1>2, <1>7, ZenonT(30)
  <2>2. k - 1 \notin Bad
    BY <1>1, <1>8
  <2> QED BY <1>7, <1>8, <2>1, <2>2, ZenonT(30)
<1>10. PICK t : t = [i \in 1 .. k |-> IF i = k THEN r ELSE s[i]]
  BY ZenonT(30)
<1>11. \A i \in 1 .. k : t[i] = IF i = k THEN r ELSE s[i]
  BY <1>10, ZenonT(30)
<1>12. \A i \in 1 .. k - 1 : s[i] \in R \ {r}
  BY <1>9, ZenonT(30) DEF Sorts
<1>13. t \in [1 .. k -> R]
  BY <1>10, <1>12, <1>8
<1>14. R = {t[i] : i \in 1 .. k}
  <2>1. R \ {r} = {s[i] : i \in 1 .. k - 1}
    BY <1>9, ZenonT(30) DEF Sorts
  <2>2. \A a \in R : \E i \in 1 .. k : t[i] = a
    <3> SUFFICES ASSUME NEW a \in R PROVE \E i \in 1 .. k : t[i] = a
      BY ZenonT(30)
    <3>1. CASE a = r
      BY <1>8, <1>11, <3>1
    <3>2. CASE a # r
      <4>1. PICK i \in 1 .. k - 1 : s[i] = a
        BY <2>1, <3>2
      <4> QED BY <1>8, <1>11, <4>1
    <3> QED BY <3>1, <3>2, ZenonT(30)
  <2> QED BY <1>13, <2>2
<1>15. \A i, j \in 1 .. k : i < j => Length[t[i].prefix] > Length[t[j].prefix]
  <2> SUFFICES ASSUME NEW i \in 1 .. k, NEW j \in 1 .. k, i < j
               PROVE  Length[t[i].prefix] > Length[t[j].prefix]
    BY ZenonT(30)
  <2>1. i \in 1 .. k - 1 /\ t[i] = s[i]
    BY <1>11
  <2>2. CASE j = k
    BY <1>4, <1>6, <1>11, <1>12, <2>1, <2>2, ZenonT(30)
  <2>3. CASE j # k
    <3>1. j \in 1 .. k - 1 /\ t[j] = s[j]
      BY <1>11, <2>3
    <3> QED BY <1>9, <2>1, <3>1, ZenonT(30) DEF Sorts
  <2> QED BY <2>2, <2>3, ZenonT(30)
<1>16. Sorts(t, R, k)
  BY <1>13, <1>14, <1>15, ZenonT(30) DEF Sorts
<1> QED BY <1>2, <1>16, ZenonT(30)

\* What Sorted gives.
LEMMA SortedFacts ==
  ASSUME NEW R \in SUBSET Rule, IsFiniteSet(R), \A a, b \in R : a.prefix = b.prefix => a = b
  PROVE  Sorted(R) \in Seq(Rule) /\ Descending(Sorted(R)) /\ Elements(Sorted(R)) = R
<1> DEFINE n == Cardinality(R)
<1>1. n \in Nat
  BY FS_CardinalityType, ZenonT(30)
<1>2. PICK s : Sorts(s, R, n)
  BY <1>1, SortExists, ZenonT(30)
<1>3. PICK t : t = Sorted(R)
  BY ZenonT(30)
<1>4. Sorts(t, R, n)
  <2> DEFINE P(x) == /\ R = {x[i] : i \in 1 .. n}
                     /\ \A i, j \in 1 .. n : i < j => Length[x[i].prefix] > Length[x[j].prefix]
  <2>1. s \in [1 .. n -> R] /\ P(s)
    BY <1>2, ZenonT(30) DEF Sorts
  <2>2. t = CHOOSE x \in [1 .. n -> R] : P(x)
    BY <1>3, ZenonT(30) DEF Sorted
  <2>3. t \in [1 .. n -> R] /\ P(t)
    <3> HIDE DEF P, n
    <3> QED BY <2>1, <2>2, ZenonT(30)
  <2> QED BY <2>3, ZenonT(30) DEF Sorts
<1> HIDE DEF n
<1>5. DOMAIN t = 1 .. n /\ t \in [1 .. n -> Rule]
  BY <1>4, ZenonT(30) DEF Sorts
<1>6. t \in Seq(Rule)
  BY <1>1, <1>5
<1>7. Descending(t) /\ Elements(t) = R
  BY <1>4, <1>5, ZenonT(30) DEF Sorts, Descending, Elements
<1> QED BY <1>3, <1>6, <1>7, ZenonT(30)

\* set_acl replaces the rule of r.
LEMMA AclFacts ==
  ASSUME NEW m, NEW st, MemOK(m, st), NEW r \in DOMAIN RuleKey, NEW perm \in Perm,
         NEW t \in History, t[r] = perm, \A q \in DOMAIN RuleKey \ {r} : t[q] = st[q],
         NEW n, n = set_acl(m, RuleKey[r].uid, RuleKey[r].prefix, perm)
  PROVE  MemOK(n, t) /\ n.store = m.store
<1>1. PICK u : u = RuleKey[r].uid
  BY ZenonT(30)
<1>2. PICK p : p = RuleKey[r].prefix
  BY ZenonT(30)
<1>4. u \in Uids /\ p \in DOMAIN Length
  BY <1>1, <1>2, ServerAssumption, ZenonT(30) DEF Uids
<1>5. m.acls[u] \in Seq(Rule) /\ Descending(m.acls[u]) /\ Elements(m.acls[u]) = InForce(st, u)
  BY <1>4, ZenonT(30) DEF MemOK, Memory
<1>6. PICK R : R = {a \in InForce(st, u) : a.prefix # p} \cup {[prefix |-> p, perm |-> perm]}
  BY ZenonT(30)
<1>7. n = [m EXCEPT !.acls[u] = Sorted(R)]
  <2>1. set_acl(m, u, p, perm)
          = [m EXCEPT !.acls[u] = Sorted({a \in Elements(m.acls[u]) : a.prefix # p}
                                            \cup {[prefix |-> p, perm |-> perm]})]
    BY ZenonT(30) DEF set_acl, Elements
  <2>2. n = set_acl(m, u, p, perm)
    BY <1>1, <1>2, ZenonT(30)
  <2> QED BY <1>5, <1>6, <2>1, <2>2, ZenonT(30)
<1>8. InForce(st, u) \in SUBSET Rule
  BY <1>5 DEF Elements
<1>9. R \in SUBSET Rule
  <2>1. [prefix |-> p, perm |-> perm] \in Rule
    BY <1>4, ZenonT(30) DEF Rule
  <2> QED BY <1>6, <1>8, <2>1, ZenonT(30)
<1>10. IsFiniteSet(R)
  <2>1. IsFiniteSet(1 .. Len(m.acls[u]))
    <3>1. Len(m.acls[u]) \in Int /\ 1 \in Int
      BY <1>5
    <3> HIDE <1>5
    <3> QED BY <3>1, FS_Interval, ZenonT(30)
  <2>2. IsFiniteSet(Elements(m.acls[u]))
    <3>1. DOMAIN m.acls[u] = 1 .. Len(m.acls[u])
      BY <1>5
    <3> DEFINE f == [i \in 1 .. Len(m.acls[u]) |-> m.acls[u][i]]
    <3>2. f \in Surjection(1 .. Len(m.acls[u]), Elements(m.acls[u]))
      BY <3>1, ZenonT(30) DEF Surjection, Elements
    <3> HIDE DEF f
    <3> QED BY <2>1, <3>2, FS_Surjection, ZenonT(30)
  <2>3. IsFiniteSet({a \in InForce(st, u) : a.prefix # p})
    BY <1>5, <2>2, FS_Subset, ZenonT(30)
  <2> QED BY <1>6, <2>3, FS_AddElement, ZenonT(30)
<1>11. \A a, b \in R : a.prefix = b.prefix => a = b
  <2>1. \A a, b \in InForce(st, u) : a.prefix = b.prefix => a = b
    BY ServerAssumption DEF InForce, RuleOf
  <2> QED BY <1>6, <2>1
<1>12. Sorted(R) \in Seq(Rule) /\ Descending(Sorted(R)) /\ Elements(Sorted(R)) = R
  BY <1>9, <1>10, <1>11, SortedFacts, ZenonT(30)
<1>13. R = InForce(t, u)
  <2>1. perm # None
    BY ServerAssumption DEF Perm
  <2>2. \A q \in DOMAIN RuleKey : RuleKey[q].uid = u /\ RuleKey[q].prefix = p => q = r
    BY <1>1, <1>2, ServerAssumption, ZenonT(30)
  <2>3. ASSUME NEW a \in R PROVE a \in InForce(t, u)
    <3>1. CASE a = [prefix |-> p, perm |-> perm]
      BY <1>1, <1>2, <2>1, <3>1, ZenonT(30) DEF InForce, RuleOf
    <3>2. CASE a \in InForce(st, u) /\ a.prefix # p
      <4>1. PICK q \in DOMAIN RuleKey : RuleKey[q].uid = u /\ st[q] # None /\ a = RuleOf(st, q)
        BY <3>2, ZenonT(30) DEF InForce
      <4>2. q # r
        BY <1>2, <3>2, <4>1, ZenonT(30) DEF RuleOf
      <4> QED BY <4>1, <4>2, ZenonT(30) DEF InForce, RuleOf
    <3> QED BY <1>6, <3>1, <3>2, ZenonT(30)
  <2>4. ASSUME NEW a \in InForce(t, u) PROVE a \in R
    <3>1. PICK q \in DOMAIN RuleKey : RuleKey[q].uid = u /\ t[q] # None /\ a = RuleOf(t, q)
      BY ZenonT(30) DEF InForce
    <3>2. CASE q = r
      BY <1>2, <1>6, <3>1, <3>2, ZenonT(30) DEF RuleOf
    <3>3. CASE q # r
      <4>1. a = RuleOf(st, q) /\ a \in InForce(st, u)
        BY <3>1, <3>3, ZenonT(30) DEF InForce, RuleOf
      <4>2. a.prefix # p
        BY <2>2, <3>1, <3>3, ZenonT(30) DEF RuleOf
      <4> QED BY <1>6, <4>1, <4>2, ZenonT(30)
    <3> QED BY <3>2, <3>3, ZenonT(30)
  <2> QED BY <2>3, <2>4, ZenonT(30)
<1>14. \A v \in Uids \ {u} : InForce(t, v) = InForce(st, v)
  <2> SUFFICES ASSUME NEW v \in Uids \ {u} PROVE InForce(t, v) = InForce(st, v)
    BY ZenonT(30)
  <2>1. \A q \in DOMAIN RuleKey : RuleKey[q].uid = v => t[q] = st[q]
    BY <1>1, ZenonT(30)
  <2>2. \A a : a \in InForce(t, v) <=> a \in InForce(st, v)
    BY <2>1, ZenonT(30) DEF InForce, RuleOf
  <2> QED BY <2>2, ZenonT(30)
<1>15. m \in Memory
  BY ZenonT(30) DEF MemOK
<1>16. n \in Memory /\ n.store = m.store
  <2>1. m.acls \in [Uids -> Seq(Rule)]
    BY <1>15, ZenonT(30) DEF Memory
  <2>2. PICK f : f = [m.acls EXCEPT ![u] = Sorted(R)]
    BY ZenonT(30)
  <2>3. f \in [Uids -> Seq(Rule)]
    BY <1>12, <2>1, <2>2, ZenonT(30)
  <2>4. n = [m EXCEPT !.acls = f]
    BY <1>7, <2>2, ZenonT(30)
  <2> QED BY <1>15, <2>3, <2>4, ZenonT(30) DEF Memory
<1>17. n.acls[u] = Sorted(R) /\ \A v \in Uids \ {u} : n.acls[v] = m.acls[v]
  BY <1>4, <1>7, <1>15, ZenonT(30) DEF Memory
<1>18. \A v \in Uids : Descending(n.acls[v]) /\ Elements(n.acls[v]) = InForce(t, v)
  BY <1>4, <1>12, <1>13, <1>14, <1>17, ZenonT(30) DEF MemOK
<1>19. MemOK(n, t)
  BY <1>16, <1>18, ZenonT(30) DEF MemOK
<1> QED BY <1>16, <1>19, ZenonT(30)

\* A write of any kind keeps memory in order, and changes the document of its key only.
LEMMA ApplyFacts ==
  ASSUME NEW m, NEW st, MemOK(m, st), NEW w \in AWrite
  PROVE  /\ MemOK(Apply(m, w), Given(st, w))
         /\ w.key \in Key => Apply(m, w).store[w.key] = w.value
         /\ \A k \in Key \ {w.key} : Apply(m, w).store[k] = m.store[k]
<1>1. PICK n : n = Apply(m, w)
  BY ZenonT(30)
<1>2. PICK t : t = Given(st, w)
  BY ZenonT(30)
<1>3. m \in Memory /\ st \in History
  BY ZenonT(30) DEF MemOK
<1>4. w.key \in Key \cup {Junk} /\ w.value \in Value /\ (w.value # Gone => w.value \in DOMAIN PermOf)
  BY ZenonT(30) DEF AWrite, Value
<1>5. t \in History
  BY <1>2, <1>3, <1>4, ZenonT(30) DEF Given, History, Perm
<1>6. \A q \in DOMAIN RuleKey \ {w.key} : t[q] = st[q]
  BY <1>2, ZenonT(30) DEF Given
<1>7. PICK n0 : n0 = [m EXCEPT !.store[w.key] = w.value]
  BY ZenonT(30)
<1>8. w.key \in Key => /\ n0 \in Memory /\ n0.acls = m.acls /\ n0.store[w.key] = w.value
                        /\ \A k \in Key \ {w.key} : n0.store[k] = m.store[k]
  BY <1>3, <1>4, <1>7, ZenonT(30) DEF Memory
<1>9. w.key \in Key => MemOK(n0, st)
  BY <1>3, <1>8, ZenonT(30) DEF MemOK
<1>10. CASE w.key = Junk
  <2>1. n = m /\ w.key \notin Key
    BY <1>1, <1>10, ServerAssumption, ZenonT(30) DEF Apply
  <2>2. t = st
    <3>1. \A q \in DOMAIN RuleKey : t[q] = st[q]
      BY <1>6, <2>1, ServerAssumption
    <3> QED BY <1>3, <1>5, <3>1 DEF History
  <2> QED BY <1>1, <1>2, <2>1, <2>2, ZenonT(30)
<1>11. CASE w.key # Junk /\ w.value = Gone
  <2>1. n = n0
    BY <1>1, <1>7, <1>11, ZenonT(30) DEF Apply, apply_del
  <2>2. t = st
    <3>1. \A q \in DOMAIN RuleKey : t[q] = st[q]
      BY <1>2, <1>11, ZenonT(30) DEF Given
    <3> QED BY <1>3, <1>5, <3>1 DEF History
  <2> QED BY <1>1, <1>2, <1>4, <1>8, <1>9, <1>11, <2>1, <2>2, ZenonT(30)
<1>12. CASE w.key # Junk /\ w.value # Gone
  <2>0. w.key \in Key /\ w.value \in DOMAIN PermOf /\ n = apply_put(m, w.key, w.value)
    BY <1>1, <1>4, <1>12, ZenonT(30) DEF Apply
  <2>1. CASE w.key \in DOMAIN RuleKey
    <3>1. n = set_acl(n0, RuleKey[w.key].uid, RuleKey[w.key].prefix, PermOf[w.value])
      BY <1>7, <2>0, <2>1, ServerAssumption, ZenonT(30) DEF apply_put
    <3>2. PermOf[w.value] \in Perm /\ t[w.key] = PermOf[w.value]
      BY <1>2, <1>12, <2>0, <2>1, ZenonT(30) DEF Perm, Given
    <3>3. MemOK(n, t) /\ n.store = n0.store
      <4>1. PICK k \in DOMAIN RuleKey : k = w.key
        BY <2>1, ZenonT(30)
      <4>2. PICK perm \in Perm : perm = PermOf[w.value]
        BY <3>2, ZenonT(30)
      <4>3. t[k] = perm /\ \A q \in DOMAIN RuleKey \ {k} : t[q] = st[q]
        BY <1>6, <3>2, <4>1, <4>2, ZenonT(30)
      <4>4. MemOK(n0, st) /\ n = set_acl(n0, RuleKey[k].uid, RuleKey[k].prefix, perm)
        BY <1>9, <2>0, <3>1, <4>1, <4>2, ZenonT(30)
      <4> QED BY <1>5, <4>3, <4>4, AclFacts
    <3> QED BY <1>1, <1>2, <1>8, <2>0, <3>3, ZenonT(30)
  <2>2. CASE w.key \notin DOMAIN RuleKey
    <3>1. t = st
      <4>1. \A q \in DOMAIN RuleKey : t[q] = st[q]
        BY <1>6, <2>2, ZenonT(30)
      <4> QED BY <1>3, <1>5, <4>1 DEF History
    <3>2. CASE w.key \in DOMAIN UserKey /\ w.value \in PublicKey
      <4>1. n = register_user(n0, UserKey[w.key], w.value)
        BY <1>7, <2>0, <2>2, <3>2, ZenonT(30) DEF apply_put
      <4>2. UserKey[w.key] \in Uids
        BY <3>2, ZenonT(30) DEF Uids
      <4>3. n \in Memory /\ n.acls = n0.acls /\ n.store = n0.store
        <5>1. CASE n0.users[UserKey[w.key]] = None
          <6>1. n0.users \in [Uids -> PublicKey \cup {None}]
                /\ n0.owner \in [PublicKey -> Uids \cup {None}]
            BY <1>8, <2>0, ZenonT(30) DEF Memory
          <6>2. PICK a : a = [n0.users EXCEPT ![UserKey[w.key]] = w.value]
            BY ZenonT(30)
          <6>3. PICK b : b = [n0.owner EXCEPT ![w.value] = UserKey[w.key]]
            BY ZenonT(30)
          <6>4. a \in [Uids -> PublicKey \cup {None}] /\ b \in [PublicKey -> Uids \cup {None}]
            BY <3>2, <4>2, <6>1, <6>2, <6>3, ZenonT(30)
          <6>5. n = [n0 EXCEPT !.users = a, !.owner = b]
            BY <1>8, <2>0, <4>1, <5>1, <6>2, <6>3, ZenonT(30) DEF register_user, Memory
          <6> QED BY <1>8, <2>0, <6>4, <6>5, ZenonT(30) DEF Memory
        <5>2. CASE n0.users[UserKey[w.key]] # None
          BY <1>8, <2>0, <4>1, <5>2, ZenonT(30) DEF register_user
        <5> QED BY <5>1, <5>2, ZenonT(30)
      <4>4. MemOK(n, st)
        BY <1>9, <2>0, <4>3, ZenonT(30) DEF MemOK
      <4> QED BY <1>1, <1>2, <1>8, <2>0, <3>1, <4>3, <4>4, ZenonT(30)
    <3>3. CASE ~(w.key \in DOMAIN UserKey /\ w.value \in PublicKey)
      <4>1. n = n0
        BY <1>7, <2>0, <2>2, <3>3, ZenonT(30) DEF apply_put
      <4> QED BY <1>1, <1>2, <1>8, <1>9, <2>0, <3>1, <4>1, ZenonT(30)
    <3> QED BY <3>2, <3>3, ZenonT(30)
  <2> QED BY <2>1, <2>2, ZenonT(30)
<1> QED BY <1>10, <1>11, <1>12, ZenonT(30)

-----------------------------------------------------------------------------
\* Replaying

Restored == {n \in [mem : Memory, set : History] : MemOK(n.mem, n.set)}

\* What was in memory after each write of a record.
After(x, w) == [mem |-> Apply(x.mem, w), set |-> Given(x.set, w)]
Redoes(f, n, ws) == f[0] = n /\ \A i \in 1 .. Len(ws) : f[i] = After(f[i - 1], ws[i])

\* It is in order after each.
LEMMA AfterFacts ==
  ASSUME NEW x \in Restored, NEW w \in AWrite
  PROVE  After(x, w) \in Restored
<1>1. MemOK(x.mem, x.set)
  BY ZenonT(30) DEF Restored
<1>2. MemOK(Apply(x.mem, w), Given(x.set, w))
  BY <1>1, ApplyFacts, ZenonT(30)
<1>3. Apply(x.mem, w) \in Memory /\ Given(x.set, w) \in History
  BY <1>2, ZenonT(30) DEF MemOK
<1> QED BY <1>2, <1>3, ZenonT(30) DEF After, Restored

\* Redo takes these steps.
LEMMA RedoSteps ==
  ASSUME NEW n \in Restored, NEW ws \in Seq(AWrite)
  PROVE  \E f : Redoes(f, n, ws) /\ Redo(n, ws) = f[Len(ws)]
<1> DEFINE Twice(x) == [i \in 0 .. Len(ws) |-> IF i = 0 THEN n ELSE After(x[i - 1], ws[i])]
           f == CHOOSE x : x = Twice(x)
           F == [p \in (1 .. Len(ws)) \X Restored |-> After(p[2], ws[p[1]])]
<1>1. Len(ws) \in Nat /\ \A i \in 1 .. Len(ws) : ws[i] \in AWrite
  OBVIOUS
<1>2. \A i \in 1 .. Len(ws), x \in Restored : F[<<i, x>>] = After(x, ws[i]) /\ F[<<i, x>>] \in Restored
  <2>1. \A i \in 1 .. Len(ws), x \in Restored : F[<<i, x>>] = After(x, ws[i])
    BY ZenonT(30)
  <2> HIDE DEF F
  <2> QED BY <1>1, <2>1, AfterFacts, ZenonT(30)
<1> HIDE DEF F
<1>3. Closed(F, Restored, Len(ws))
  BY <1>2, ZenonT(30) DEF Closed
<1>4. PICK g : FoldsIn(g, n, F, Len(ws), Restored)
  BY <1>1, <1>3, FoldInExists, ZenonT(30)
<1>5. /\ g = [i \in 0 .. Len(ws) |-> g[i]] /\ g[0] = n
      /\ \A i \in 1 .. Len(ws) : g[i] = F[<<i, g[i - 1]>>]
      /\ \A i \in 0 .. Len(ws) : g[i] \in Restored
  BY <1>4, ZenonT(30) DEF FoldsIn
<1>6. \A i \in 1 .. Len(ws) : g[i] = After(g[i - 1], ws[i])
  <2>1. \A i \in 1 .. Len(ws) : i - 1 \in 0 .. Len(ws)
    BY <1>1
  <2> QED BY <1>2, <1>5, <2>1, ZenonT(30)
<1>7. g = Twice(g)
  <2>1. \A i \in 0 .. Len(ws) : i = 0 \/ i \in 1 .. Len(ws)
    BY <1>1
  <2>2. \A i \in 0 .. Len(ws) : g[i] = IF i = 0 THEN n ELSE After(g[i - 1], ws[i])
    BY <1>5, <1>6, <2>1, ZenonT(30)
  <2> QED BY <1>5, <2>2, ZenonT(30)
<1>8. f = Twice(f)
  <2> HIDE DEF Twice
  <2> QED BY <1>7, ZenonT(30)
<1>9. Redo(n, ws) = f[Len(ws)]
  BY ZenonT(30) DEF Redo, After
<1> HIDE DEF f
<1>10. Redoes(f, n, ws)
  BY <1>1, <1>8 DEF Redoes
<1> QED BY <1>9, <1>10, ZenonT(30)

\* So it keeps memory in order, and of one write is that write.
LEMMA RedoFacts ==
  ASSUME NEW n \in Restored, NEW ws \in Seq(AWrite)
  PROVE  Redo(n, ws) \in Restored /\ (Len(ws) = 1 => Redo(n, ws) = After(n, ws[1]))
<1>1. PICK f : Redoes(f, n, ws) /\ Redo(n, ws) = f[Len(ws)]
  BY RedoSteps, ZenonT(30)
<1>2. Len(ws) \in Nat /\ \A i \in 1 .. Len(ws) : ws[i] \in AWrite
  OBVIOUS
<1>3. f[0] = n /\ \A i \in 1 .. Len(ws) : f[i] = After(f[i - 1], ws[i])
  BY <1>1, ZenonT(30) DEF Redoes
<1>4. \A i \in 1 .. Len(ws) : f[i - 1] \in Restored => f[i] \in Restored
  BY <1>2, <1>3, AfterFacts, ZenonT(30)
<1>5. \A i \in 0 .. Len(ws) : f[i] \in Restored
  BY <1>2, <1>3, <1>4, StaysIn, ZenonT(30)
<1>6. Redo(n, ws) \in Restored
  BY <1>1, <1>2, <1>5
<1>7. Len(ws) = 1 => Redo(n, ws) = After(n, ws[1])
  BY <1>1, <1>3
<1> QED BY <1>6, <1>7, ZenonT(30)

\* What was recovered after each record.
Recovers(f, records) ==
  f[0] = Fresh /\ \A i \in 1 .. Len(records) : f[i] = Redo(f[i - 1], records[i])

\* An engine without a log is in order.
LEMMA FreshFacts == Fresh \in Restored
<1>1. Empty \in Memory /\ [k \in DOMAIN RuleKey |-> None] \in History
  BY DEF Empty, Memory, History
<1>2. PICK st : st = [k \in DOMAIN RuleKey |-> None]
  BY ZenonT(30)
<1>3. \A u \in Uids : Empty.acls[u] = <<>>
  BY ZenonT(30) DEF Empty
<1>4. \A u \in Uids : InForce(st, u) = {}
  BY <1>2, ZenonT(30) DEF InForce
<1>5. Descending(<<>>) /\ Elements(<<>>) = {}
  BY DEF Descending, Elements
<1>6. MemOK(Empty, st)
  BY <1>1, <1>2, <1>3, <1>4, <1>5, ZenonT(30) DEF MemOK
<1> QED BY <1>1, <1>2, <1>6, ZenonT(30) DEF Fresh, Restored

\* Recovered takes these steps.
LEMMA RecoverSteps ==
  ASSUME NEW records \in Seq(Seq(AWrite))
  PROVE  \E f : Recovers(f, records) /\ Recovered(records) = f[Len(records)]
<1> DEFINE Twice(x) == [i \in 0 .. Len(records) |->
                          IF i = 0 THEN Fresh ELSE Redo(x[i - 1], records[i])]
           f == CHOOSE x : x = Twice(x)
           F == [p \in (1 .. Len(records)) \X Restored |-> Redo(p[2], records[p[1]])]
<1>1. Len(records) \in Nat /\ \A i \in 1 .. Len(records) : records[i] \in Seq(AWrite)
  OBVIOUS
<1>2. \A i \in 1 .. Len(records), x \in Restored :
        F[<<i, x>>] = Redo(x, records[i]) /\ F[<<i, x>>] \in Restored
  <2>1. \A i \in 1 .. Len(records), x \in Restored : F[<<i, x>>] = Redo(x, records[i])
    BY ZenonT(30)
  <2> HIDE DEF F
  <2> QED BY <1>1, <2>1, RedoFacts, ZenonT(30)
<1> HIDE DEF F
<1>3. Closed(F, Restored, Len(records))
  BY <1>2, ZenonT(30) DEF Closed
<1>4. PICK g : FoldsIn(g, Fresh, F, Len(records), Restored)
  BY <1>1, <1>3, FreshFacts, FoldInExists, ZenonT(30)
<1>5. /\ g = [i \in 0 .. Len(records) |-> g[i]] /\ g[0] = Fresh
      /\ \A i \in 1 .. Len(records) : g[i] = F[<<i, g[i - 1]>>]
      /\ \A i \in 0 .. Len(records) : g[i] \in Restored
  BY <1>4, ZenonT(30) DEF FoldsIn
<1>6. \A i \in 1 .. Len(records) : g[i] = Redo(g[i - 1], records[i])
  <2>1. \A i \in 1 .. Len(records) : i - 1 \in 0 .. Len(records)
    BY <1>1
  <2> QED BY <1>2, <1>5, <2>1, ZenonT(30)
<1>7. g = Twice(g)
  <2>1. \A i \in 0 .. Len(records) : i = 0 \/ i \in 1 .. Len(records)
    BY <1>1
  <2>2. \A i \in 0 .. Len(records) : g[i] = IF i = 0 THEN Fresh ELSE Redo(g[i - 1], records[i])
    BY <1>5, <1>6, <2>1, ZenonT(30)
  <2> QED BY <1>5, <2>2, ZenonT(30)
<1>8. f = Twice(f)
  <2> HIDE DEF Twice
  <2> QED BY <1>7, ZenonT(30)
<1>9. Recovered(records) = f[Len(records)]
  BY ZenonT(30) DEF Recovered
<1> HIDE DEF f
<1>10. Recovers(f, records)
  BY <1>1, <1>8, SMTT(30) DEF Recovers
<1> QED BY <1>9, <1>10, ZenonT(30)

\* So it leaves memory in order.
LEMMA RecoveredFacts ==
  ASSUME NEW records \in Seq(Seq(AWrite))
  PROVE  Recovered(records) \in Restored
<1>1. PICK f : Recovers(f, records) /\ Recovered(records) = f[Len(records)]
  BY RecoverSteps, ZenonT(30)
<1>2. Len(records) \in Nat /\ \A i \in 1 .. Len(records) : records[i] \in Seq(AWrite)
  OBVIOUS
<1>3. f[0] = Fresh /\ \A i \in 1 .. Len(records) : f[i] = Redo(f[i - 1], records[i])
  BY <1>1, ZenonT(30) DEF Recovers
<1>4. \A i \in 1 .. Len(records) : f[i - 1] \in Restored => f[i] \in Restored
  BY <1>2, <1>3, RedoFacts, ZenonT(30)
<1>5. \A i \in 0 .. Len(records) : f[i] \in Restored
  BY <1>2, <1>3, <1>4, FreshFacts, StaysIn, ZenonT(30)
<1> QED BY <1>1, <1>2, <1>5

\* One more record of one write is applied last.
LEMMA RecoveredAppend ==
  ASSUME NEW records \in Seq(Seq(AWrite)), NEW ws \in Seq(AWrite), Len(ws) = 1
  PROVE  Replay(Append(records, ws)) = Apply(Replay(records), ws[1])
<1>1. PICK more : more = Append(records, ws)
  BY ZenonT(30)
<1>2. PICK n : n = Len(records)
  BY ZenonT(30)
<1>3. /\ n \in Nat /\ more \in Seq(Seq(AWrite)) /\ Len(more) = n + 1
      /\ more[n + 1] = ws /\ \A i \in 1 .. n : more[i] = records[i]
  BY <1>1, <1>2
<1>4. PICK f : Recovers(f, records) /\ Recovered(records) = f[n]
  BY <1>2, RecoverSteps, ZenonT(30)
<1>5. PICK g : Recovers(g, more) /\ Recovered(more) = g[n + 1]
  BY <1>3, RecoverSteps, ZenonT(30)
<1>6. SameSteps(f, g, n)
  BY <1>2, <1>3, <1>4, <1>5 DEF Recovers, SameSteps
<1>7. f[n] = g[n]
  <2>1. n \in Nat
    BY <1>3, ZenonT(30)
  <2>2. \A i \in 0 .. n : f[i] = g[i]
    BY <1>6, <2>1, Agree
  <2>3. n \in 0 .. n
    BY <2>1
  <2> QED BY <2>2, <2>3, ZenonT(30)
<1>8. g[n + 1] = Redo(g[n], ws)
  BY <1>3, <1>5 DEF Recovers
<1>9. Recovered(more) = After(Recovered(records), ws[1])
  BY <1>4, <1>5, <1>7, <1>8, RecoveredFacts, RedoFacts, ZenonT(30)
<1> QED BY <1>1, <1>9 DEF Replay, After

-----------------------------------------------------------------------------
\* Queues and files

QWrite == [key : Key, value : Value, batch : {0, 1}]

\* Every write in a queue after Spread was in it or is one of ws.
LEMMA SpreadFacts ==
  ASSUME queue \in [Shards -> Seq(QWrite)], NEW ws \in Seq(QWrite)
  PROVE  /\ Spread(ws) \in [Shards -> Seq(QWrite)]
         /\ \A s \in Shards : Elements(Spread(ws)[s]) \subseteq Elements(queue[s]) \cup Elements(ws)
<1> DEFINE Step(x, w) == [x EXCEPT ![KeyShard[w.key]] = Append(@, w)]
           S == {q \in [Shards -> Seq(QWrite)] :
                   \A s \in Shards : Elements(q[s]) \subseteq Elements(queue[s]) \cup Elements(ws)}
           Twice(x) == [i \in 0 .. Len(ws) |-> IF i = 0 THEN queue ELSE Step(x[i - 1], ws[i])]
           f == CHOOSE x : x = Twice(x)
           F == [p \in (1 .. Len(ws)) \X S |-> Step(p[2], ws[p[1]])]
<1>1. /\ Len(ws) \in Nat
      /\ \A i \in 1 .. Len(ws) : ws[i] \in QWrite /\ ws[i] \in Elements(ws)
  BY DEF Elements
<1>2. queue \in S
  BY ZenonT(30)
<1>3. ASSUME NEW i \in 1 .. Len(ws), NEW x \in S PROVE Step(x, ws[i]) \in S
  <2>1. PICK y : y = Step(x, ws[i])
    BY ZenonT(30)
  <2>2. PICK t : t = KeyShard[ws[i].key]
    BY ZenonT(30)
  <2>3. t \in Shards
    BY <1>1, <2>2, ZenonT(30) DEF QWrite, Shards
  <2>4. x \in [Shards -> Seq(QWrite)]
    BY ZenonT(30)
  <2>5. y = [x EXCEPT ![t] = Append(x[t], ws[i])]
    BY <2>1, <2>2, ZenonT(30)
  <2>6. y \in [Shards -> Seq(QWrite)]
    BY <1>1, <2>3, <2>4, <2>5
  <2>7. \A s \in Shards \ {t} : y[s] = x[s]
    BY <2>4, <2>5, ZenonT(30)
  <2>8. y[t] = Append(x[t], ws[i])
    BY <2>3, <2>4, <2>5, ZenonT(30)
  <2>9. Elements(y[t]) \subseteq Elements(x[t]) \cup {ws[i]}
    <3>1. x[t] \in Seq(QWrite)
      BY <2>3, <2>4, ZenonT(30)
    <3> QED BY <1>1, <2>8, <3>1 DEF Elements
  <2>10. \A s \in Shards : Elements(y[s]) \subseteq Elements(queue[s]) \cup Elements(ws)
    BY <1>1, <2>3, <2>7, <2>9, ZenonT(30)
  <2> QED BY <2>1, <2>6, <2>10, ZenonT(30)
<1>4. \A i \in 1 .. Len(ws), x \in S : F[<<i, x>>] = Step(x, ws[i])
  <2> HIDE DEF S, Step
  <2> QED BY ZenonT(30)
<1> HIDE DEF F, Step, S
<1>5. Closed(F, S, Len(ws))
  BY <1>3, <1>4, ZenonT(30) DEF Closed
<1>6. PICK g : FoldsIn(g, queue, F, Len(ws), S)
  BY <1>1, <1>2, <1>5, FoldInExists, ZenonT(30)
<1>7. /\ g = [i \in 0 .. Len(ws) |-> g[i]] /\ g[0] = queue
      /\ \A i \in 1 .. Len(ws) : g[i] = F[<<i, g[i - 1]>>]
      /\ \A i \in 0 .. Len(ws) : g[i] \in S
  BY <1>6, ZenonT(30) DEF FoldsIn
<1>8. \A i \in 1 .. Len(ws) : g[i] = Step(g[i - 1], ws[i])
  <2>1. \A i \in 1 .. Len(ws) : i - 1 \in 0 .. Len(ws)
    BY <1>1
  <2> QED BY <1>4, <1>7, <2>1, ZenonT(30)
<1>9. g = Twice(g)
  <2>1. \A i \in 0 .. Len(ws) : i = 0 \/ i \in 1 .. Len(ws)
    BY <1>1
  <2>2. \A i \in 0 .. Len(ws) : g[i] = IF i = 0 THEN queue ELSE Step(g[i - 1], ws[i])
    BY <1>7, <1>8, <2>1, ZenonT(30)
  <2> QED BY <1>7, <2>2, ZenonT(30)
<1>10. f = Twice(f)
  <2> HIDE DEF Twice
  <2> QED BY <1>9, ZenonT(30)
<1>11. Spread(ws) = f[Len(ws)]
  BY ZenonT(30) DEF Spread, Step
<1> HIDE DEF f
<1>12. f[0] = queue /\ \A i \in 1 .. Len(ws) : f[i] = Step(f[i - 1], ws[i])
  BY <1>1, <1>10
<1>13. \A i \in 1 .. Len(ws) : f[i - 1] \in S => f[i] \in S
  BY <1>3, <1>12, ZenonT(30)
<1>14. \A i \in 0 .. Len(ws) : f[i] \in S
  BY <1>1, <1>2, <1>12, <1>13, StaysIn, ZenonT(30)
<1>15. Spread(ws) \in S
  BY <1>1, <1>11, <1>14
<1> QED BY <1>15, ZenonT(30) DEF S

Record == Seq(AWrite) \ {<<>>}

\* What a file holds of a batch is as many writes.
LEMMA DanglingFacts ==
  ASSUME NEW ws \in Record, NEW ds \in Dangling(ws)
  PROVE  ds \in Record
<1>1. Len(ws) \in Nat \ {0} /\ DOMAIN ws = 1 .. Len(ws) /\ \A i \in 1 .. Len(ws) : ws[i] \in AWrite
  BY DEF Record
<1>2. \A w, x \in AWrite : Views(w, x) \subseteq AWrite
  <2> SUFFICES ASSUME NEW w \in AWrite, NEW x \in AWrite, NEW y \in Views(w, x)
               PROVE  y \in AWrite
    BY ZenonT(30)
  <2>0. {w.key, x.key, Junk} \subseteq Key \cup {Junk} /\ {w.value, x.value, Junk} \subseteq Value
    BY ServerAssumption, ZenonT(30) DEF AWrite, Value
  <2>1. PICK k \in {w.key, x.key, Junk}, v \in {w.value, x.value, Junk} :
          y = [w EXCEPT !.key = k, !.value = v]
    <3>1. CASE y = [w EXCEPT !.key = Junk, !.value = Junk]
      BY <3>1, ZenonT(30)
    <3>2. CASE y \in {[w EXCEPT !.key = a, !.value = b] :
                         a \in {w.key, x.key}, b \in {w.value, x.value, Junk}}
      <4> DEFINE E(a, b) == [w EXCEPT !.key = a, !.value = b]
      <4>1. y \in {E(a, b) : a \in {w.key, x.key}, b \in {w.value, x.value, Junk}}
        BY <3>2
      <4>2. \E a \in {w.key, x.key}, b \in {w.value, x.value, Junk} : y = E(a, b)
        <5> HIDE DEF E
        <5> QED BY <4>1
      <4> QED BY <4>2, ZenonT(30)
    <3> QED BY <3>1, <3>2 DEF Views
  <2> QED BY <2>0, <2>1, ZenonT(30) DEF AWrite
<1>3. ds = [i \in 1 .. Len(ws) |-> ds[i]] /\ \A i \in 1 .. Len(ws) : ds[i] \in Views(ws[i], ws[Len(ws)])
  <2> HIDE DEF Views
  <2> QED BY <1>1, ZenonT(30) DEF Dangling
<1>4. \A i \in 1 .. Len(ws) : ds[i] \in AWrite
  BY <1>1, <1>2, <1>3
<1>5. ds \in Seq(AWrite) /\ Len(ds) = Len(ws)
  BY <1>1, <1>3, <1>4
<1> QED BY <1>1, <1>5, ZenonT(30) DEF Record

\* A restart finds a log of records.
LEMMA FilesFacts ==
  ASSUME log \in Seq(Record), NEW n \in 0 .. Len(log), NEW f \in Files(n)
  PROVE  [i \in 1 .. n |-> [j \in DOMAIN f[i] |-> [f[i][j] EXCEPT !.batch = 0]]] \in Seq(Record)
<1>1. n \in Nat /\ \A i \in 1 .. n : log[i] \in Record
  OBVIOUS
<1>2. ASSUME NEW i \in 1 .. n PROVE f[i] \in Record
  <2> DEFINE batches == {j \in 1 .. n : log[j][1].batch = 1}
             D == UNION {Dangling(log[j]) : j \in batches}
  <2>1. PICK g \in [batches -> D] :
          /\ \A j \in batches : g[j] \in Dangling(log[j])
          /\ f = [j \in 1 .. n |-> IF j \in batches THEN g[j] ELSE log[j]]
    BY ZenonT(30) DEF Files
  <2>2. f[i] = IF i \in batches THEN g[i] ELSE log[i]
    BY <2>1, ZenonT(30)
  <2> HIDE DEF D
  <2> QED BY <1>1, <2>1, <2>2, DanglingFacts, ZenonT(30)
<1>3. ASSUME NEW r \in Record PROVE [j \in DOMAIN r |-> [r[j] EXCEPT !.batch = 0]] \in Record
  <2>1. r \in Seq(AWrite) /\ DOMAIN r = 1 .. Len(r) /\ Len(r) \in Nat \ {0}
        /\ \A j \in 1 .. Len(r) : r[j] \in AWrite
    BY DEF Record
  <2>2. \A w \in AWrite : [w EXCEPT !.batch = 0] \in AWrite
    BY ZenonT(30) DEF AWrite
  <2>3. PICK d : d = [j \in DOMAIN r |-> [r[j] EXCEPT !.batch = 0]]
    BY ZenonT(30)
  <2>4. d \in [1 .. Len(r) -> AWrite]
    BY <2>1, <2>2, <2>3, ZenonT(30)
  <2>5. d \in Seq(AWrite) /\ Len(d) = Len(r)
    BY <2>1, <2>4
  <2> QED BY <2>1, <2>3, <2>5, ZenonT(30) DEF Record
<1>4. [i \in 1 .. n |-> [j \in DOMAIN f[i] |-> [f[i][j] EXCEPT !.batch = 0]]] \in [1 .. n -> Record]
  BY <1>2, <1>3, ZenonT(30)
<1> QED BY <1>1, <1>4

-----------------------------------------------------------------------------
\* The inductive invariant

JobOK(j) ==
  /\ j = [pc |-> j.pc, client |-> j.client, uid |-> j.uid, request |-> j.request, keys |-> j.keys]
  /\ j.pc \in {"idle", "check", "view", "commit", "wait"}
  /\ j.pc = "idle" => j.client = None
  /\ j.pc # "idle" => /\ j.client \in Client /\ j.request \in Requests[j.client]
                      /\ j.request.op # "A"
  /\ j.pc \in {"commit", "wait"} => j.request.op \in {"P", "D", "B"}
ServerTypes ==
  /\ secret \in {0, 1} /\ batched \in {0, 1}
  /\ DOMAIN inbox = Client /\ \A c \in Client : inbox[c] \in Requests[c] \cup {None}
  /\ JobOK(job)
  /\ log \in Seq(Record)
  /\ queue \in [Shards -> Seq(QWrite)]
  /\ last \in [Key -> [value : Value \cup {None}, batch : {0, 1}]]
  /\ crossed \subseteq Key
  /\ asked \in 0 .. MaxRequests /\ restarts \in 0 .. MaxRestarts

\* The server waits for one write, which is the last of its queue.
Waited(s) == queue[s] # <<>> /\ queue[s][Len(queue[s])].batch = 0
OneWait ==
  /\ \A s \in Shards : \A i \in DOMAIN queue[s] :
       queue[s][i].batch = 0 => job.pc = "wait" /\ i = Len(queue[s])
  /\ \A s, t \in Shards : Waited(s) /\ Waited(t) => s = t
  /\ job.pc = "wait" => \E s \in Shards : Waited(s)

\* Without batches, memory is what the log says but for the write waited for.
Unbatched ==
  batched = 0 =>
    /\ \A s \in Shards : \A i \in DOMAIN queue[s] : queue[s][i].batch = 0
    /\ (\A s \in Shards : queue[s] = <<>>) => mem = Replay(log)
    /\ \A s \in Shards : queue[s] # <<>> => Apply(mem, queue[s][1]) = Replay(log)

\* The last write of k, a put or del, is applied and nothing is to follow; or it is
\* waited for and nothing waits elsewhere.
NotIn(k, t) == \A i \in DOMAIN queue[t] : queue[t][i].key # k
Settled(k) ==
  /\ \A s \in Shards : NotIn(k, s)
  /\ mem.store[k] = last[k].value
  /\ k \in DOMAIN RuleKey /\ last[k].value # Gone => set[k] = PermOf[last[k].value]
Coming(k) ==
  \E s \in Shards :
    /\ Waited(s)
    /\ queue[s][Len(queue[s])].key = k /\ queue[s][Len(queue[s])].value = last[k].value
    /\ \A t \in Shards \ {s} : NotIn(k, t)
Answers ==
  \A k \in Key \ crossed :
    last[k].batch = 0 /\ last[k].value # None => Settled(k) \/ Coming(k)

ServerIInv ==
  /\ ServerTypes /\ OneWait /\ Unbatched /\ Answers
  /\ MemOK(mem, set)

-----------------------------------------------------------------------------
\* Steps

\* The writes of a request.
LEMMA WritesFacts ==
  ASSUME JobOK(job), job.pc = "commit", NEW ws, ws = Writes(job.request)
  PROVE  /\ ws \in Seq(QWrite) /\ Len(ws) \in Nat \ {0}
         /\ job.request.op # "B" => Len(ws) = 1
         /\ \A i \in 1 .. Len(ws) : ws[i].batch = IF job.request.op = "B" THEN 1 ELSE 0
<1>1. PICK r : r = job.request
  BY ZenonT(30)
<1>2. PICK c \in Client : r \in Requests[c] /\ r.op \in {"P", "D", "B"}
  BY <1>1, ZenonT(30) DEF JobOK
<1>3. /\ r.keys \in Seq(Key) /\ r.keys # <<>> /\ (r.op # "B" => Len(r.keys) = 1)
      /\ r.op \in {"P", "B"} => r.values \in Seq(DOMAIN PermOf) /\ Len(r.values) = Len(r.keys)
      /\ r.op = "D" => r.values = <<Gone>>
  BY <1>2, ServerAssumption, ZenonT(30)
<1>4. PICK n : n = Len(r.keys)
  BY ZenonT(30)
<1>5. n \in Nat \ {0} /\ DOMAIN r.keys = 1 .. n /\ \A i \in 1 .. n : r.keys[i] \in Key
  BY <1>3, <1>4
<1>6. \A i \in 1 .. n : r.values[i] \in Value
  BY <1>2, <1>3, <1>4, <1>5 DEF Value
<1>7. ws = [i \in 1 .. n |-> [key |-> r.keys[i], value |-> r.values[i],
                             batch |-> IF r.op = "B" THEN 1 ELSE 0]]
  BY <1>1, <1>5, ZenonT(30) DEF Writes
<1>8. ws \in [1 .. n -> QWrite]
  BY <1>5, <1>6, <1>7 DEF QWrite
<1>9. ws \in Seq(QWrite) /\ Len(ws) = n
  BY <1>5, <1>8
<1>10. ASSUME NEW i \in 1 .. n PROVE ws[i].batch = IF r.op = "B" THEN 1 ELSE 0
  <2>1. ws[i] = [key |-> r.keys[i], value |-> r.values[i],
                 batch |-> IF r.op = "B" THEN 1 ELSE 0]
    BY <1>7, ZenonT(30)
  <2> QED BY <2>1
<1> QED BY <1>1, <1>3, <1>4, <1>5, <1>9, <1>10, ZenonT(30)

\* They make a record.
LEMMA RecordFacts ==
  ASSUME NEW ws \in Seq(QWrite), Len(ws) # 0
  PROVE  ws \in Record
<1>1. \A w \in QWrite : w \in AWrite
  BY ZenonT(30) DEF QWrite, AWrite
<1>2. ws \in Seq(AWrite)
  BY <1>1
<1> QED BY <1>2 DEF Record

\* The last write of each key after ws were handed over.
LEMMA HandedFacts ==
  ASSUME last \in [Key -> [value : Value \cup {None}, batch : {0, 1}]],
         NEW ws \in Seq(QWrite), Len(ws) # 0, Handed(ws)
  PROVE  /\ last' \in [Key -> [value : Value \cup {None}, batch : {0, 1}]]
         /\ \A k \in Key : (\A j \in 1 .. Len(ws) : ws[j].key # k) => last'[k] = last[k]
         /\ \A k \in Key : (\E j \in 1 .. Len(ws) : ws[j].key = k) => last'[k].batch = ws[1].batch
         /\ Len(ws) = 1 => last'[ws[1].key].value = ws[1].value
<1> DEFINE Of(k) == {j \in DOMAIN ws : ws[j].key = k}
           L(k) == IF Of(k) = {} THEN last[k]
                   ELSE [value |-> ws[CHOOSE j \in Of(k) : TRUE].value, batch |-> ws[1].batch]
<1>1. last' = [k \in Key |-> L(k)]
  BY ZenonT(30) DEF Handed
<1>2. DOMAIN ws = 1 .. Len(ws) /\ Len(ws) \in Nat \ {0} /\ \A j \in 1 .. Len(ws) : ws[j] \in QWrite
  OBVIOUS
<1>3. \A j \in 1 .. Len(ws) : ws[j].value \in Value /\ ws[j].key \in Key /\ ws[j].batch \in {0, 1}
  BY <1>2, ZenonT(30) DEF QWrite
<1>4. ASSUME NEW k \in Key
      PROVE  /\ Of(k) # {} => L(k).batch = ws[1].batch
             /\ Of(k) = {} => L(k) = last[k]
             /\ L(k) \in [value : Value \cup {None}, batch : {0, 1}]
             /\ \A j \in 1 .. Len(ws) : Of(k) = {j} => L(k).value = ws[j].value
  <2>1. PICK i : i = CHOOSE j \in Of(k) : TRUE
    BY ZenonT(30)
  <2>2. Of(k) # {} => i \in Of(k)
    BY <2>1, ZenonT(30)
  <2>3. Of(k) # {} => i \in 1 .. Len(ws) /\ L(k) = [value |-> ws[i].value, batch |-> ws[1].batch]
    BY <1>2, <2>1, <2>2, ZenonT(30)
  <2>4. last[k] \in [value : Value \cup {None}, batch : {0, 1}]
    BY ZenonT(30)
  <2>5. 1 \in 1 .. Len(ws)
    BY <1>2
  <2>6. Of(k) = {} => L(k) = last[k]
    BY ZenonT(30)
  <2> HIDE DEF Of, L
  <2>7. L(k) \in [value : Value \cup {None}, batch : {0, 1}]
    <3>1. CASE Of(k) = {}
      BY <2>4, <2>6, <3>1, ZenonT(30)
    <3>2. CASE Of(k) # {}
      <4>1. ws[i].value \in Value /\ ws[1].batch \in {0, 1}
        BY <1>3, <2>3, <2>5, <3>2, ZenonT(30)
      <4>2. L(k) = [value |-> ws[i].value, batch |-> ws[1].batch]
        BY <2>3, <3>2, ZenonT(30)
      <4> QED BY <4>1, <4>2
    <3> QED BY <3>1, <3>2, ZenonT(30)
  <2>8. \A j \in 1 .. Len(ws) : Of(k) = {j} => L(k).value = ws[j].value
    BY <2>2, <2>3
  <2>9. ASSUME Of(k) # {} PROVE L(k).batch = ws[1].batch
    <3>1. L(k) = [value |-> ws[i].value, batch |-> ws[1].batch]
      BY <2>3, <2>9, ZenonT(30)
    <3> QED BY <3>1
  <2> QED BY <2>6, <2>7, <2>8, <2>9, ZenonT(30)
<1>5. \A k \in Key : last'[k] = L(k)
  <2> HIDE DEF L
  <2> QED BY <1>1, ZenonT(30)
<1>6. \A k \in Key : (\A j \in 1 .. Len(ws) : ws[j].key # k) => Of(k) = {}
  BY <1>2, ZenonT(30)
<1>7. \A k \in Key : (\E j \in 1 .. Len(ws) : ws[j].key = k) => Of(k) # {}
  BY <1>2, ZenonT(30)
<1>8. Len(ws) = 1 => Of(ws[1].key) = {1} /\ ws[1].key \in Key
  BY <1>2, <1>3
<1> HIDE DEF Of, L
<1>9. last' \in [Key -> [value : Value \cup {None}, batch : {0, 1}]]
  BY <1>1, <1>4, ZenonT(30)
<1>10. Len(ws) = 1 => last'[ws[1].key].value = ws[1].value
  BY <1>2, <1>4, <1>5, <1>8
<1> QED BY <1>4, <1>5, <1>6, <1>7, <1>9, <1>10, ZenonT(30)

\* A step of the server or a client that touches neither queues nor memory.
LEMMA SameStore ==
  ASSUME ServerIInv, UNCHANGED <<log, mVars, hVars>>, JobOK(job'),
         job'.pc = "wait" <=> job.pc = "wait", ServerTypes'
  PROVE  ServerIInv'
<1>1. UNCHANGED <<log, queue, mem, set, last, crossed, batched>>
  BY ZenonT(30) DEF mVars, hVars
<1>2. OneWait'
  BY <1>1, ZenonT(30) DEF ServerIInv, OneWait, Waited
<1>3. Unbatched'
  BY <1>1, ZenonT(30) DEF ServerIInv, Unbatched
<1>4. Answers'
  <2>1. \A s \in Shards : Waited(s) => Waited(s)'
    BY <1>1, ZenonT(30) DEF Waited
  <2>2. \A k \in Key, s \in Shards : NotIn(k, s) => NotIn(k, s)'
    BY <1>1, ZenonT(30) DEF NotIn
  <2>3. \A k \in Key : Settled(k) => Settled(k)'
    BY <1>1, <2>2, ZenonT(30) DEF Settled
  <2>4. \A k \in Key : Coming(k) => Coming(k)'
    BY <1>1, <2>1, <2>2, ZenonT(30) DEF Coming
  <2> QED BY <1>1, <2>3, <2>4, ZenonT(30) DEF ServerIInv, Answers
<1> QED BY <1>1, <1>2, <1>3, <1>4, ZenonT(30) DEF ServerIInv

\* Ask
LEMMA AskStep ==
  ASSUME ServerIInv, NEW c \in Client, NEW r \in Requests[c], Ask(c, r)
  PROVE  ServerIInv'
<1>1. ServerTypes'
  <2>1. ServerTypes /\ asked \in 0 .. MaxRequests /\ MaxRequests \in Nat
    BY ServerAssumption, ZenonT(30) DEF ServerIInv, ServerTypes
  <2>2. asked < MaxRequests /\ asked' = asked + 1 /\ inbox' = [inbox EXCEPT ![c] = r]
        /\ UNCHANGED <<secret, session, job, log, mVars, hVars, restarts>>
    BY ZenonT(30) DEF Ask
  <2>3. asked' \in 0 .. MaxRequests
    <3>1. asked < MaxRequests /\ asked' = asked + 1
      BY <2>2, ZenonT(30)
    <3> QED BY <2>1, <3>1
  <2>4. DOMAIN inbox' = Client /\ \A d \in Client : inbox'[d] \in Requests[d] \cup {None}
    BY <2>1, <2>2, ZenonT(30) DEF ServerTypes
  <2> QED BY <2>1, <2>2, <2>3, <2>4, ZenonT(30) DEF ServerTypes, mVars, hVars
<1>2. JobOK(job') /\ job' = job /\ UNCHANGED <<log, mVars, hVars>>
  BY ZenonT(30) DEF ServerIInv, ServerTypes, Ask
<1> QED BY <1>1, <1>2, SameStore, ZenonT(30)

\* A request is taken.
LEMMA ReceiveStep ==
  ASSUME ServerIInv, NEW c \in Client, Receive(c), JobOK(job'), job'.pc # "wait"
  PROVE  ServerIInv'
<1>1. ServerTypes'
  BY ZenonT(30) DEF ServerIInv, ServerTypes, Receive, mVars, hVars
<1>2. UNCHANGED <<log, mVars, hVars>> /\ job.pc # "wait"
  BY ZenonT(30) DEF Receive
<1> QED BY <1>1, <1>2, SameStore, ZenonT(30)

\* Reject, Auth, Serve
LEMMA TakeStep ==
  ASSUME ServerIInv, NEW c \in Client, Take(c)
  PROVE  ServerIInv'
<1>1. JobOK(job) /\ inbox[c] \in Requests[c] \cup {None}
  BY ZenonT(30) DEF ServerIInv, ServerTypes
<1>2. Receive(c) /\ job.pc = "idle" /\ inbox[c] # None
  BY ZenonT(30) DEF Take, Reject, Auth, Serve, Receive
<1>3. JobOK(job') /\ job'.pc # "wait"
  <2>1. CASE Reject(c) \/ Auth(c)
    BY <1>1, <1>2, <2>1, ZenonT(30) DEF Reject, Auth
  <2>2. CASE Serve(c)
    <3>1. PICK u : job' = [pc |-> "check", client |-> c, request |-> inbox[c],
                           keys |-> inbox[c].keys, uid |-> u]
      BY <2>2, ZenonT(30) DEF Serve
    <3>2. inbox[c].op # "A"
      BY <2>2, ZenonT(30) DEF Serve
    <3> QED BY <1>1, <1>2, <3>1, <3>2, ZenonT(30) DEF JobOK
  <2> QED BY <2>1, <2>2, ZenonT(30) DEF Take
<1> QED BY <1>2, <1>3, ReceiveStep, ZenonT(30)

\* CheckRead, View, CheckWrite
LEMMA CheckStep ==
  ASSUME ServerIInv, CheckRead \/ View \/ CheckWrite
  PROVE  ServerIInv'
<1>1. JobOK(job)
  BY ZenonT(30) DEF ServerIInv, ServerTypes
<1>2. JobOK(NoJob) /\ NoJob.pc # "wait"
  BY ZenonT(30) DEF JobOK, NoJob
<1>3. job.pc \in {"check", "view"} => JobOK(NextKey) /\ NextKey.pc # "wait"
  BY <1>1, <1>2, ZenonT(30) DEF NextKey, JobOK
<1>4. job.pc # "wait" /\ JobOK(job') /\ job'.pc # "wait"
  <2>1. CASE CheckRead
    <3>1. job.pc = "check" => JobOK([job EXCEPT !.pc = "view"]) /\ [job EXCEPT !.pc = "view"].pc # "wait"
      BY <1>1 DEF JobOK
    <3> HIDE DEF NextKey
    <3> QED BY <1>3, <2>1, <3>1, ZenonT(30) DEF CheckRead
  <2>2. CASE View
    BY <1>3, <2>2, ZenonT(30) DEF View
  <2>3. CASE CheckWrite
    <3>1. PICK y : y = [job EXCEPT !.pc = "commit", !.keys = <<>>]
      BY ZenonT(30)
    <3>2. PICK z : z = [job EXCEPT !.keys = Tail(@)]
      BY ZenonT(30)
    <3>3. job.pc = "check" /\ job.request.op \in {"P", "D", "B"} /\ job' \in {NoJob, y, z}
      BY <2>3, <3>1, <3>2, ZenonT(30) DEF CheckWrite
    <3>4. JobOK(y) /\ y.pc # "wait"
      BY <1>1, <3>1, <3>3, ZenonT(30) DEF JobOK
    <3>5. JobOK(z) /\ z.pc # "wait"
      BY <1>1, <3>2, <3>3, ZenonT(30) DEF JobOK
    <3> QED BY <1>2, <3>3, <3>4, <3>5, ZenonT(30)
  <2> QED BY <2>1, <2>2, <2>3, ZenonT(30)
<1>5. UNCHANGED <<secret, inbox, log, mVars, hVars, asked, restarts>>
  BY ZenonT(30) DEF CheckRead, View, CheckWrite
<1>6. ServerTypes'
  BY <1>4, <1>5, ZenonT(30) DEF ServerIInv, ServerTypes, mVars, hVars
<1> QED BY <1>4, <1>5, <1>6, SameStore, ZenonT(30)

-----------------------------------------------------------------------------
\* Writes

\* Nothing is waited for but by a server that waits.
LEMMA NoWait ==
  ASSUME ServerTypes, OneWait, job.pc # "wait"
  PROVE  /\ \A s \in Shards : ~ Waited(s)
         /\ \A s \in Shards : \A i \in DOMAIN queue[s] : queue[s][i].batch = 1
<1>1. \A s \in Shards : queue[s] \in Seq(QWrite)
  BY ZenonT(30) DEF ServerTypes
<1>2. \A s \in Shards : \A i \in DOMAIN queue[s] : queue[s][i].batch \in {0, 1}
  <2>1. \A s \in Shards : \A i \in DOMAIN queue[s] : queue[s][i] \in QWrite
    BY <1>1
  <2> QED BY <2>1, ZenonT(30) DEF QWrite
<1>3. \A s \in Shards : \A i \in DOMAIN queue[s] : queue[s][i].batch = 1
  BY <1>2, ZenonT(30) DEF OneWait
<1>4. \A s \in Shards : queue[s] # <<>> => Len(queue[s]) \in DOMAIN queue[s]
  BY <1>1
<1> QED BY <1>3, <1>4 DEF Waited

\* Commit
LEMMA CommitStep ==
  ASSUME ServerIInv, Commit
  PROVE  ServerIInv'
<1>1. PICK ws : ws = Writes(job.request)
  BY ZenonT(30)
<1>2. PICK s : s = IF job.request.op = "P" THEN EmptyShard ELSE KeyShard[ws[1].key]
  BY ZenonT(30)
<1>3. /\ job.pc = "commit" /\ job.request.op # "B"
      /\ log' = Append(log, ws)
      /\ queue' = [queue EXCEPT ![s] = Append(@, ws[1])]
      /\ Handed(ws)
      /\ crossed' = Crossed(ws[1].key, s)
      /\ job' = [job EXCEPT !.pc = "wait"]
      /\ UNCHANGED <<secret, inbox, session, mem, set, batched, asked, restarts>>
  BY <1>1, <1>2, ZenonT(30) DEF Commit
<1>4. ServerTypes /\ OneWait /\ Unbatched /\ Answers /\ MemOK(mem, set)
  BY ZenonT(30) DEF ServerIInv
<1>5. JobOK(job)
  BY <1>4, ZenonT(30) DEF ServerTypes
<1>6. ws \in Seq(QWrite) /\ Len(ws) = 1 /\ ws[1].batch = 0
  BY <1>1, <1>3, <1>5, WritesFacts
<1>7. PICK w : w = ws[1]
  BY ZenonT(30)
<1>8. w \in QWrite /\ w.key \in Key /\ w.value \in Value /\ w.batch = 0
  <2>1. 1 \in 1 .. Len(ws) /\ \A i \in 1 .. Len(ws) : ws[i] \in QWrite
    BY <1>6
  <2>2. w \in QWrite
    BY <1>7, <2>1, ZenonT(30)
  <2> QED BY <1>6, <1>7, <2>2, ZenonT(30) DEF QWrite
<1>9. s \in Shards
  BY <1>2, <1>7, <1>8, ZenonT(30) DEF Shards
<1>10. /\ queue \in [Shards -> Seq(QWrite)] /\ log \in Seq(Record)
       /\ last \in [Key -> [value : Value \cup {None}, batch : {0, 1}]]
  BY <1>4, ZenonT(30) DEF ServerTypes
<1>11. PICK n : n = Len(queue[s])
  BY ZenonT(30)
<1>12. /\ n \in Nat /\ DOMAIN queue'[s] = 1 .. n + 1 /\ queue'[s] # <<>> /\ Len(queue'[s]) = n + 1
       /\ queue'[s][n + 1] = w /\ DOMAIN queue[s] = 1 .. n
       /\ \A i \in 1 .. n : queue'[s][i] = queue[s][i]
  BY <1>3, <1>7, <1>8, <1>9, <1>10, <1>11
<1>13. \A t \in Shards \ {s} : queue'[t] = queue[t]
  BY <1>3, <1>10, ZenonT(30)
<1>14. queue' \in [Shards -> Seq(QWrite)]
  BY <1>3, <1>7, <1>8, <1>9, <1>10
<1>15. /\ last' \in [Key -> [value : Value \cup {None}, batch : {0, 1}]]
       /\ \A k \in Key \ {w.key} : last'[k] = last[k]
       /\ last'[w.key].batch = 0 /\ last'[w.key].value = w.value
  <2>1. \A j \in 1 .. Len(ws) : ws[j] = w
    BY <1>6, <1>7
  <2>2. 1 \in 1 .. Len(ws) /\ Len(ws) # 0
    BY <1>6
  <2>3. /\ last' \in [Key -> [value : Value \cup {None}, batch : {0, 1}]]
        /\ \A k \in Key : (\A j \in 1 .. Len(ws) : ws[j].key # k) => last'[k] = last[k]
        /\ \A k \in Key : (\E j \in 1 .. Len(ws) : ws[j].key = k) => last'[k].batch = ws[1].batch
        /\ Len(ws) = 1 => last'[ws[1].key].value = ws[1].value
    BY <1>3, <1>6, <1>10, <2>2, HandedFacts, ZenonT(30)
  <2> QED BY <1>6, <1>7, <1>8, <2>1, <2>2, <2>3, ZenonT(30)
<1>16. job'.pc = "wait" /\ JobOK(job')
  BY <1>3, <1>5, ZenonT(30) DEF JobOK
<1>17. ServerTypes'
  <2>1. log' \in Seq(Record)
    <3>1. ws \in Record
      <4>1. Len(ws) # 0
        BY <1>6
      <4> QED BY <1>6, <4>1, RecordFacts, ZenonT(30)
    <3> QED BY <1>3, <1>10, <3>1
  <2>2. crossed' \subseteq Key
    BY <1>3, <1>4, <1>7, <1>8, ZenonT(30) DEF ServerTypes, Crossed
  <2> QED BY <1>3, <1>4, <1>14, <1>15, <1>16, <2>1, <2>2, ZenonT(30) DEF ServerTypes
<1>18. /\ \A t \in Shards : ~ Waited(t)
       /\ \A t \in Shards : \A i \in DOMAIN queue[t] : queue[t][i].batch = 1
  BY <1>3, <1>4, NoWait, ZenonT(30)
<1>19. Waited(s)' /\ \A t \in Shards \ {s} : ~ Waited(t)'
  BY <1>8, <1>12, <1>13, <1>18, ZenonT(30) DEF Waited
<1>20. OneWait'
  <2>1. ASSUME NEW t \in Shards, NEW i \in DOMAIN queue'[t], queue'[t][i].batch = 0
        PROVE  t = s /\ i = n + 1
    <3>1. t = s
      BY <1>13, <1>18, <2>1
    <3>2. i \in 1 .. n + 1 /\ i \notin 1 .. n
      <4>1. 1 # 0
        OBVIOUS
      <4> QED BY <1>9, <1>12, <1>18, <2>1, <3>1, <4>1, ZenonT(30)
    <3> QED BY <1>12, <3>1, <3>2
  <2> QED BY <1>9, <1>12, <1>16, <1>19, <2>1, ZenonT(30) DEF OneWait
<1>21. Unbatched'
  <2> SUFFICES ASSUME batched' = 0 PROVE Unbatched'
    BY ZenonT(30) DEF Unbatched
  <2>1. batched = 0
    BY <1>3, ZenonT(30)
  <2>2. \A t \in Shards : queue[t] = <<>>
    <3>1. \A t \in Shards : \A i \in DOMAIN queue[t] : queue[t][i].batch = 0
      BY <1>4, <2>1, ZenonT(30) DEF Unbatched
    <3>2. \A t \in Shards : queue[t] # <<>> => 1 \in DOMAIN queue[t]
      BY <1>10
    <3> QED BY <1>18, <3>1, <3>2
  <2>3. mem = Replay(log)
    BY <1>4, <2>1, <2>2, ZenonT(30) DEF Unbatched
  <2>4. Replay(log') = Apply(mem, w)
    <3>1. log \in Seq(Seq(AWrite)) /\ ws \in Seq(AWrite)
      <4>1. Record \subseteq Seq(AWrite)
        BY ZenonT(30) DEF Record
      <4>2. Len(ws) # 0
        BY <1>6
      <4> QED BY <1>6, <1>10, <4>1, <4>2, RecordFacts
    <3> QED BY <1>3, <1>6, <1>7, <2>3, <3>1, RecoveredAppend, ZenonT(30)
  <2>5. n = 0
    BY <1>9, <1>11, <2>2
  <2>6. /\ DOMAIN queue'[s] = {1} /\ queue'[s][1] = w
        /\ \A t \in Shards \ {s} : queue'[t] = <<>>
    BY <1>12, <1>13, <2>2, <2>5
  <2>7. \A t \in Shards : \A i \in DOMAIN queue'[t] : queue'[t][i].batch = 0
    BY <1>8, <2>6
  <2>8. \A t \in Shards : queue'[t] # <<>> => Apply(mem, queue'[t][1]) = Replay(log')
    BY <2>4, <2>6, ZenonT(30)
  <2> QED BY <1>3, <1>9, <1>12, <2>7, <2>8, ZenonT(30) DEF Unbatched
<1>22. Answers'
  <2> SUFFICES ASSUME NEW k \in Key, k \notin crossed', last'[k].batch = 0, last'[k].value # None
               PROVE  Settled(k)' \/ Coming(k)'
    BY ZenonT(30) DEF Answers
  <2>1. CASE k = w.key
    <3>1. \A t \in Shards \ {s} : NotIn(k, t)
      BY <1>3, <1>7, <2>1, ZenonT(30) DEF Crossed, NotIn
    <3>2. \A t \in Shards \ {s} : NotIn(k, t)'
      BY <1>13, <3>1, ZenonT(30) DEF NotIn
    <3>3. queue'[s][Len(queue'[s])].key = k /\ queue'[s][Len(queue'[s])].value = last'[k].value
      BY <1>12, <1>15, <2>1, ZenonT(30)
    <3> QED BY <1>9, <1>19, <3>2, <3>3, ZenonT(30) DEF Coming
  <2>2. CASE k # w.key
    <3>1. k \notin crossed /\ last'[k] = last[k]
      BY <1>3, <1>7, <1>15, <2>2, ZenonT(30) DEF Crossed
    <3>2. Settled(k)
      BY <1>4, <1>18, <3>1, ZenonT(30) DEF Answers, Coming
    <3>3. \A t \in Shards : NotIn(k, t)'
      <4>1. \A t \in Shards : NotIn(k, t)
        BY <3>2, ZenonT(30) DEF Settled
      <4>2. \A t \in Shards \ {s} : NotIn(k, t)'
        BY <1>13, <4>1, ZenonT(30) DEF NotIn
      <4>3. ASSUME NEW i \in DOMAIN queue'[s] PROVE queue'[s][i].key # k
        <5>1. n \in Nat /\ i \in 1 .. n + 1
          BY <1>12, <4>3, ZenonT(30)
        <5>2. i = n + 1 \/ i \in 1 .. n
          BY <5>1
        <5> QED BY <1>9, <1>12, <2>2, <4>1, <5>2, ZenonT(30) DEF NotIn
      <4> QED BY <4>2, <4>3, ZenonT(30) DEF NotIn
    <3> QED BY <1>3, <3>1, <3>2, <3>3, ZenonT(30) DEF Settled
  <2> QED BY <2>1, <2>2, ZenonT(30)
<1> QED BY <1>3, <1>4, <1>17, <1>20, <1>21, <1>22, ZenonT(30) DEF ServerIInv

\* CommitBatch
LEMMA CommitBatchStep ==
  ASSUME ServerIInv, CommitBatch
  PROVE  ServerIInv'
<1>1. PICK ws : ws = Writes(job.request)
  BY ZenonT(30)
<1>2. /\ job.pc = "commit" /\ job.request.op = "B"
      /\ log' = Append(log, ws)
      /\ queue' = Spread(ws)
      /\ Handed(ws)
      /\ batched' = 1
      /\ job' = NoJob
      /\ UNCHANGED <<secret, inbox, session, mem, set, crossed, asked, restarts>>
  BY <1>1, ZenonT(30) DEF CommitBatch
<1>3. ServerTypes /\ OneWait /\ Answers /\ MemOK(mem, set)
  BY ZenonT(30) DEF ServerIInv
<1>4. /\ JobOK(job) /\ queue \in [Shards -> Seq(QWrite)] /\ log \in Seq(Record)
      /\ last \in [Key -> [value : Value \cup {None}, batch : {0, 1}]]
  BY <1>3, ZenonT(30) DEF ServerTypes
<1>5. ws \in Seq(QWrite) /\ Len(ws) \in Nat \ {0} /\ \A i \in 1 .. Len(ws) : ws[i].batch = 1
  BY <1>1, <1>2, <1>4, WritesFacts, ZenonT(30)
<1>6. Len(ws) # 0 /\ DOMAIN ws = 1 .. Len(ws) /\ 1 \in 1 .. Len(ws)
  BY <1>5
<1>7. /\ queue' \in [Shards -> Seq(QWrite)]
      /\ \A s \in Shards : Elements(queue'[s]) \subseteq Elements(queue[s]) \cup Elements(ws)
  BY <1>2, <1>4, <1>5, SpreadFacts, ZenonT(30)
<1>8. \A s \in Shards : \A i \in DOMAIN queue'[s] :
        \/ \E j \in DOMAIN queue[s] : queue'[s][i] = queue[s][j]
        \/ \E j \in 1 .. Len(ws) : queue'[s][i] = ws[j]
  BY <1>6, <1>7, ZenonT(30) DEF Elements
<1>9. /\ last' \in [Key -> [value : Value \cup {None}, batch : {0, 1}]]
      /\ \A k \in Key : (\A j \in 1 .. Len(ws) : ws[j].key # k) => last'[k] = last[k]
      /\ \A k \in Key : (\E j \in 1 .. Len(ws) : ws[j].key = k) => last'[k].batch = ws[1].batch
  BY <1>2, <1>4, <1>5, <1>6, HandedFacts, ZenonT(30)
<1>10. JobOK(job') /\ job'.pc = "idle"
  BY <1>2, ZenonT(30) DEF JobOK, NoJob
<1>11. ServerTypes'
  <2>1. ws \in Record
    BY <1>5, <1>6, RecordFacts, ZenonT(30)
  <2>2. log' \in Seq(Record)
    <3>1. log' = Append(log, ws) /\ log \in Seq(Record)
      BY <1>2, <1>4, ZenonT(30)
    <3> QED BY <2>1, <3>1
  <2> QED BY <1>2, <1>3, <1>7, <1>9, <1>10, <2>2, ZenonT(30) DEF ServerTypes
<1>12. /\ \A s \in Shards : ~ Waited(s)
       /\ \A s \in Shards : \A i \in DOMAIN queue[s] : queue[s][i].batch = 1
  BY <1>2, <1>3, NoWait, ZenonT(30)
<1>13. ASSUME NEW s \in Shards, NEW i \in DOMAIN queue'[s] PROVE queue'[s][i].batch = 1
  <2>1. CASE \E j \in DOMAIN queue[s] : queue'[s][i] = queue[s][j]
    <3>1. PICK j \in DOMAIN queue[s] : queue'[s][i] = queue[s][j]
      BY <2>1, ZenonT(30)
    <3>2. queue[s][j].batch = 1
      BY <1>12, ZenonT(30)
    <3> QED BY <3>1, <3>2
  <2>2. CASE \E j \in 1 .. Len(ws) : queue'[s][i] = ws[j]
    <3>1. PICK j \in 1 .. Len(ws) : queue'[s][i] = ws[j]
      BY <2>2, ZenonT(30)
    <3>2. ws[j].batch = 1
      BY <1>5, ZenonT(30)
    <3> QED BY <3>1, <3>2
  <2> QED BY <1>8, <1>13, <2>1, <2>2, ZenonT(30)
<1>14. \A s \in Shards : ~ Waited(s)'
  <2>1. \A s \in Shards : queue'[s] # <<>> => Len(queue'[s]) \in DOMAIN queue'[s]
    BY <1>7
  <2> QED BY <1>13, <2>1 DEF Waited
<1>15. OneWait'
  BY <1>10, <1>13, <1>14 DEF OneWait
<1>16. Unbatched'
  <2>1. batched' = 1
    BY <1>2, ZenonT(30)
  <2>2. batched' # 0
    BY <2>1
  <2> QED BY <2>2, ZenonT(30) DEF Unbatched
<1>17. Answers'
  <2> SUFFICES ASSUME NEW k \in Key, k \notin crossed', last'[k].batch = 0, last'[k].value # None
               PROVE  Settled(k)'
    BY ZenonT(30) DEF Answers
  <2>1. \A j \in 1 .. Len(ws) : ws[j].key # k
    BY <1>5, <1>6, <1>9
  <2>2. k \notin crossed /\ last'[k] = last[k]
    BY <1>2, <1>9, <2>1, ZenonT(30)
  <2>3. Settled(k)
    BY <1>3, <1>12, <2>2, ZenonT(30) DEF Answers, Coming
  <2>4. \A s \in Shards : NotIn(k, s)'
    <3> SUFFICES ASSUME NEW s \in Shards, NEW i \in DOMAIN queue'[s] PROVE queue'[s][i].key # k
      BY ZenonT(30) DEF NotIn
    <3>1. NotIn(k, s)
      BY <2>3, ZenonT(30) DEF Settled
    <3>2. CASE \E j \in DOMAIN queue[s] : queue'[s][i] = queue[s][j]
      BY <3>1, <3>2, ZenonT(30) DEF NotIn
    <3>3. CASE \E j \in 1 .. Len(ws) : queue'[s][i] = ws[j]
      BY <2>1, <3>3, ZenonT(30)
    <3> QED BY <1>8, <3>2, <3>3, ZenonT(30)
  <2> QED BY <1>2, <2>2, <2>3, <2>4, ZenonT(30) DEF Settled
<1> QED BY <1>2, <1>3, <1>11, <1>15, <1>16, <1>17, ZenonT(30) DEF ServerIInv

\* RunTask
LEMMA RunTaskStep ==
  ASSUME ServerIInv, NEW s \in Shards, RunTask(s)
  PROVE  ServerIInv'
<1>1. PICK w : w = queue[s][1]
  BY ZenonT(30)
<1>2. ServerTypes /\ OneWait /\ Unbatched /\ Answers /\ MemOK(mem, set)
  BY ZenonT(30) DEF ServerIInv
<1>3. queue \in [Shards -> Seq(QWrite)] /\ queue[s] \in Seq(QWrite) /\ JobOK(job)
  BY <1>2, ZenonT(30) DEF ServerTypes
<1>4. queue[s] # <<>> /\ Head(queue[s]) = w
  BY <1>1, <1>3 DEF RunTask
<1>5. /\ queue' = [queue EXCEPT ![s] = Tail(@)]
      /\ mem' = Apply(mem, w) /\ set' = Given(set, w)
      /\ job' = IF w.batch = 1 THEN job ELSE NoJob
      /\ UNCHANGED <<secret, inbox, session, log, hVars, asked, restarts>>
  BY <1>4, ZenonT(30) DEF RunTask
<1>6. UNCHANGED <<last, crossed, batched, log>>
  BY <1>5, ZenonT(30) DEF hVars
<1>7. PICK n : n = Len(queue[s])
  BY ZenonT(30)
<1>8. n \in Nat \ {0} /\ DOMAIN queue[s] = 1 .. n
  BY <1>3, <1>4, <1>7
<1>9. w \in QWrite
  BY <1>1, <1>3, <1>8
<1>10. w.key \in Key /\ w.value \in Value /\ w.batch \in {0, 1} /\ w \in AWrite
  BY <1>9, ZenonT(30) DEF QWrite, AWrite
<1>11. queue' \in [Shards -> Seq(QWrite)] /\ \A t \in Shards \ {s} : queue'[t] = queue[t]
  BY <1>3, <1>4, <1>5
<1>12. /\ DOMAIN queue'[s] = 1 .. n - 1 /\ Len(queue'[s]) = n - 1
       /\ \A i \in 1 .. n - 1 : queue'[s][i] = queue[s][i + 1] /\ i + 1 \in DOMAIN queue[s]
       /\ queue'[s] = <<>> <=> n = 1
  <2>1. queue'[s] = Tail(queue[s])
    BY <1>3, <1>5, ZenonT(30)
  <2>2. /\ queue'[s] \in Seq(QWrite) /\ Len(queue'[s]) = n - 1
        /\ \A i \in 1 .. n - 1 : queue'[s][i] = queue[s][i + 1]
    BY <1>3, <1>4, <1>7, <1>8, <2>1
  <2>3. DOMAIN queue'[s] = 1 .. n - 1 /\ (queue'[s] = <<>> <=> n = 1)
    BY <1>8, <2>2
  <2>4. \A i \in 1 .. n - 1 : i + 1 \in 1 .. n
    BY <1>8
  <2> QED BY <1>8, <2>2, <2>3, <2>4, ZenonT(30)
<1>12a. n # 1 => queue'[s][Len(queue'[s])] = queue[s][Len(queue[s])]
  <2>1. n # 1 => n - 1 \in 1 .. n - 1 /\ n - 1 + 1 = n
    BY <1>8
  <2> QED BY <1>7, <1>12, <2>1, ZenonT(30)
<1>13. /\ MemOK(mem', set')
       /\ mem'.store[w.key] = w.value
       /\ \A k \in Key \ {w.key} : mem'.store[k] = mem.store[k]
  BY <1>2, <1>5, <1>10, ApplyFacts, ZenonT(30)
<1>14. \A k \in DOMAIN RuleKey : set'[k] = IF w.key = k /\ w.value # Gone THEN PermOf[w.value] ELSE set[k]
  BY <1>5, ZenonT(30) DEF Given
<1>15. w.batch = 0 => n = 1 /\ job.pc = "wait" /\ \A t \in Shards \ {s} : ~ Waited(t)
  <2> SUFFICES ASSUME w.batch = 0
               PROVE  n = 1 /\ job.pc = "wait" /\ \A t \in Shards \ {s} : ~ Waited(t)
    BY ZenonT(30)
  <2>1. 1 \in DOMAIN queue[s]
    BY <1>8
  <2>2. n = 1 /\ job.pc = "wait"
    BY <1>1, <1>2, <1>7, <2>1, ZenonT(30) DEF OneWait
  <2>3. Waited(s)
    BY <1>1, <1>4, <1>7, <2>2, ZenonT(30) DEF Waited
  <2> QED BY <1>2, <2>2, <2>3, ZenonT(30) DEF OneWait
<1>16. JobOK(job') /\ (w.batch = 0 => job'.pc = "idle") /\ (w.batch # 0 => job' = job)
  <2>1. w.batch = 0 \/ w.batch = 1
    BY <1>10, ZenonT(30)
  <2>2. CASE w.batch = 1
    <3>1. w.batch # 0
      BY <2>2
    <3> QED BY <1>3, <1>5, <2>2, <3>1, ZenonT(30)
  <2>3. CASE w.batch = 0
    <3>1. w.batch # 1
      BY <2>3
    <3>2. job' = NoJob
      BY <1>5, <3>1, ZenonT(30)
    <3> QED BY <2>3, <3>2, ZenonT(30) DEF JobOK, NoJob
  <2> QED BY <2>1, <2>2, <2>3, ZenonT(30)
<1>17. ServerTypes'
  BY <1>2, <1>5, <1>6, <1>11, <1>16, ZenonT(30) DEF ServerTypes
<1>18. /\ \A t \in Shards : Waited(t)' => Waited(t) /\ w.batch = 1
       /\ w.batch = 1 => \A t \in Shards : Waited(t) => Waited(t)'
  <2>1. ASSUME NEW t \in Shards \ {s} PROVE Waited(t)' <=> Waited(t)
    BY <1>11, ZenonT(30) DEF Waited
  <2>2. Waited(s)' => n # 1 /\ Waited(s)
    BY <1>4, <1>12, <1>12a, ZenonT(30) DEF Waited
  <2>3. w.batch = 1 /\ Waited(s) => Waited(s)'
    <3>1. w.batch = 1 => w.batch # 0
      OBVIOUS
    <3> QED BY <1>1, <1>7, <1>12, <1>12a, <3>1, ZenonT(30) DEF Waited
  <2> QED BY <1>10, <1>15, <2>1, <2>2, <2>3, ZenonT(30)
<1>19. OneWait'
  <2>1. ASSUME NEW t \in Shards, NEW i \in DOMAIN queue'[t], queue'[t][i].batch = 0
        PROVE  job'.pc = "wait" /\ i = Len(queue'[t])
    <3>1. CASE t = s
      <4>1. i \in 1 .. n - 1 /\ queue[s][i + 1].batch = 0 /\ i + 1 \in DOMAIN queue[s]
        BY <1>12, <2>1, <3>1, ZenonT(30)
      <4>2. job.pc = "wait" /\ i + 1 = n
        BY <1>2, <1>7, <4>1, ZenonT(30) DEF OneWait
      <4>3. i \in 1 .. n - 1 /\ i + 1 = n
        BY <4>1, <4>2, ZenonT(30)
      <4>4. n # 1 /\ i = n - 1
        BY <1>8, <4>3
      <4>5. w.batch # 0
        BY <1>15, <4>4, ZenonT(30)
      <4> QED BY <1>12, <1>16, <3>1, <4>2, <4>4, <4>5, ZenonT(30)
    <3>2. CASE t # s
      <4>1. i \in DOMAIN queue[t] /\ queue[t][i].batch = 0 /\ queue'[t] = queue[t]
        BY <1>11, <2>1, <3>2, ZenonT(30)
      <4>2. job.pc = "wait" /\ i = Len(queue[t])
        BY <1>2, <4>1, ZenonT(30) DEF OneWait
      <4>3. Waited(t)
        <5>1. i \in DOMAIN queue[t]
          BY <4>1, ZenonT(30)
        <5>2. queue[t] # <<>>
          BY <5>1
        <5> QED BY <4>1, <4>2, <5>2, ZenonT(30) DEF Waited
      <4>4. w.batch # 0
        BY <1>15, <3>2, <4>3, ZenonT(30)
      <4> QED BY <1>16, <4>1, <4>2, <4>4, ZenonT(30)
    <3> QED BY <3>1, <3>2, ZenonT(30)
  <2>2. \A t, u \in Shards : Waited(t)' /\ Waited(u)' => t = u
    BY <1>2, <1>18, ZenonT(30) DEF OneWait
  <2>3. job'.pc = "wait" => \E t \in Shards : Waited(t)'
    BY <1>2, <1>10, <1>16, <1>18, ZenonT(30) DEF OneWait
  <2> QED BY <2>1, <2>2, <2>3, ZenonT(30) DEF OneWait
<1>20. Unbatched'
  <2> SUFFICES ASSUME batched' = 0 PROVE Unbatched'
    BY ZenonT(30) DEF Unbatched
  <2>1. batched = 0
    BY <1>6, ZenonT(30)
  <2>2. \A t \in Shards : \A i \in DOMAIN queue[t] : queue[t][i].batch = 0
    BY <1>2, <2>1, ZenonT(30) DEF Unbatched
  <2>3. w.batch = 0
    BY <1>1, <1>8, <2>2
  <2>4. \A t \in Shards \ {s} : queue[t] = <<>>
    <3>1. \A t \in Shards : queue[t] # <<>> => Len(queue[t]) \in DOMAIN queue[t]
      BY <1>3
    <3> QED BY <1>15, <2>2, <2>3, <3>1, ZenonT(30) DEF Waited
  <2>5. \A t \in Shards : queue'[t] = <<>>
    BY <1>11, <1>12, <1>15, <2>3, <2>4, ZenonT(30)
  <2>6. mem' = Replay(log')
    BY <1>1, <1>2, <1>4, <1>5, <1>6, <2>1, ZenonT(30) DEF Unbatched
  <2>7. \A t \in Shards : DOMAIN queue'[t] = {}
    BY <2>5
  <2> QED BY <2>5, <2>6, <2>7, ZenonT(30) DEF Unbatched
<1>21. ASSUME NEW k \in Key, NEW t \in Shards, NotIn(k, t) PROVE NotIn(k, t)'
  <2>1. CASE t = s
    BY <1>12, <1>21, <2>1, ZenonT(30) DEF NotIn
  <2>2. CASE t # s
    BY <1>11, <1>21, <2>2, ZenonT(30) DEF NotIn
  <2> QED BY <2>1, <2>2, ZenonT(30)
<1>22. Answers'
  <2> SUFFICES ASSUME NEW k \in Key, k \notin crossed', last'[k].batch = 0, last'[k].value # None
               PROVE  Settled(k)' \/ Coming(k)'
    BY ZenonT(30) DEF Answers
  <2>1. k \notin crossed /\ last'[k] = last[k] /\ (Settled(k) \/ Coming(k))
    BY <1>2, <1>6, ZenonT(30) DEF Answers
  <2>2. CASE Settled(k)
    <3>1. w.key # k
      <4>1. NotIn(k, s)
        BY <2>2, ZenonT(30) DEF Settled
      <4>2. 1 \in DOMAIN queue[s]
        BY <1>8
      <4> QED BY <1>1, <4>1, <4>2, ZenonT(30) DEF NotIn
    <3>2. \A t \in Shards : NotIn(k, t)'
      BY <1>21, <2>2, ZenonT(30) DEF Settled
    <3> QED BY <1>13, <1>14, <2>1, <2>2, <3>1, <3>2, ZenonT(30) DEF Settled
  <2>3. CASE Coming(k)
    <3>1. PICK t \in Shards :
            /\ Waited(t)
            /\ queue[t][Len(queue[t])].key = k /\ queue[t][Len(queue[t])].value = last[k].value
            /\ \A u \in Shards \ {t} : NotIn(k, u)
      BY <2>3, ZenonT(30) DEF Coming
    <3>2. \A u \in Shards \ {t} : NotIn(k, u)'
      BY <1>21, <3>1, ZenonT(30)
    <3>3. CASE t # s
      <4>1. w.batch = 1
        BY <1>10, <1>15, <3>1, <3>3, ZenonT(30)
      <4>2. queue'[t] = queue[t] /\ Waited(t)'
        BY <1>11, <1>18, <3>1, <3>3, <4>1, ZenonT(30)
      <4> QED BY <2>1, <3>1, <3>2, <4>2, ZenonT(30) DEF Coming
    <3>4. CASE t = s /\ n # 1
      <4>1. w.batch = 1
        BY <1>10, <1>15, <3>4, ZenonT(30)
      <4>2. Waited(t)'
        BY <1>18, <3>1, <4>1, ZenonT(30)
      <4>3. queue'[t][Len(queue'[t])] = queue[t][Len(queue[t])]
        BY <1>12a, <3>4, ZenonT(30)
      <4> QED BY <2>1, <3>1, <3>2, <4>2, <4>3, ZenonT(30) DEF Coming
    <3>5. CASE t = s /\ n = 1
      <4>1. w.key = k /\ w.value = last[k].value
        BY <1>1, <1>7, <3>1, <3>5, ZenonT(30)
      <4>2. NotIn(k, s)'
        <5>1. 1 .. n - 1 = {}
          BY <3>5
        <5> QED BY <1>12, <5>1, ZenonT(30) DEF NotIn
      <4> QED BY <1>13, <1>14, <2>1, <3>2, <3>5, <4>1, <4>2, ZenonT(30) DEF Settled
    <3> QED BY <3>3, <3>4, <3>5, ZenonT(30)
  <2> QED BY <2>1, <2>2, <2>3, ZenonT(30)
<1> QED BY <1>13, <1>17, <1>19, <1>20, <1>22, ZenonT(30) DEF ServerIInv

-----------------------------------------------------------------------------
\* Starting, and the theorems

\* An engine that has just begun, with what its log says in memory.
LEMMA Begun ==
  ASSUME ServerTypes, job.pc = "idle", queue = [s \in Shards |-> <<>>],
         last = [k \in Key |-> NoWrite], mem = Replay(log), MemOK(mem, set)
  PROVE  ServerIInv
<1>1. \A s \in Shards : queue[s] = <<>> /\ DOMAIN queue[s] = {} /\ ~ Waited(s)
  BY DEF Waited
<1>2. OneWait
  BY <1>1, ZenonT(30) DEF OneWait
<1>3. Unbatched
  BY <1>1, ZenonT(30) DEF Unbatched
<1>4. Answers
  BY ZenonT(30) DEF Answers, NoWrite
<1> QED BY <1>2, <1>3, <1>4, ZenonT(30) DEF ServerIInv

\* The state of a fresh start.
LEMMA InitServer ==
  ASSUME Init
  PROVE  ServerIInv
<1>1. Recovered(<<>>) = Fresh
  <2>1. <<>> \in Seq(Seq(AWrite)) /\ Len(<<>>) = 0
    OBVIOUS
  <2>2. PICK f : Recovers(f, <<>>) /\ Recovered(<<>>) = f[0]
    BY <2>1, RecoverSteps, ZenonT(30)
  <2> QED BY <2>2, ZenonT(30) DEF Recovers
<1>2. mem = Replay(log) /\ MemOK(mem, set)
  <2>1. mem = Fresh.mem /\ set = Fresh.set
    BY ZenonT(30) DEF Init, Fresh
  <2> QED BY <1>1, <2>1, FreshFacts, ZenonT(30) DEF Init, Replay, Restored
<1>3. JobOK(job) /\ job.pc = "idle"
  BY ZenonT(30) DEF Init, JobOK, NoJob
<1>4. ServerTypes
  <2>1. queue \in [Shards -> Seq(QWrite)] /\ log \in Seq(Record)
    BY DEF Init
  <2>2. last \in [Key -> [value : Value \cup {None}, batch : {0, 1}]]
    BY ZenonT(30) DEF Init, NoWrite
  <2>3. asked \in 0 .. MaxRequests /\ restarts \in 0 .. MaxRestarts
    <3>1. MaxRequests \in Nat /\ MaxRestarts \in Nat /\ asked = 0 /\ restarts = 0
      BY ServerAssumption, ZenonT(30) DEF Init
    <3> QED BY <3>1
  <2> QED BY <1>3, <2>1, <2>2, <2>3, ZenonT(30) DEF Init, ServerTypes
<1> QED BY <1>2, <1>3, <1>4, Begun, ZenonT(30) DEF Init

\* Restart
LEMMA RestartStep ==
  ASSUME ServerIInv, Restart
  PROVE  ServerIInv'
<1>1. ServerTypes
  BY ZenonT(30) DEF ServerIInv
<1>2. log' \in Seq(Record)
  <2>1. PICK n \in 0 .. Len(log) : \E f \in Files(n) :
          log' = [i \in 1 .. n |-> [j \in DOMAIN f[i] |-> [f[i][j] EXCEPT !.batch = 0]]]
    BY ZenonT(30) DEF Restart
  <2>2. PICK f \in Files(n) :
          log' = [i \in 1 .. n |-> [j \in DOMAIN f[i] |-> [f[i][j] EXCEPT !.batch = 0]]]
    BY <2>1, ZenonT(30)
  <2>3. log \in Seq(Record)
    BY <1>1, ZenonT(30) DEF ServerTypes
  <2>4. [i \in 1 .. n |-> [j \in DOMAIN f[i] |-> [f[i][j] EXCEPT !.batch = 0]]] \in Seq(Record)
    BY <2>3, FilesFacts, ZenonT(30)
  <2> QED BY <2>2, <2>4, ZenonT(30)
<1>3. mem' = Replay(log') /\ set' = Recovered(log').set
  BY ZenonT(30) DEF Restart
<1>4. MemOK(mem', set')
  <2>1. Record \subseteq Seq(AWrite)
    BY ZenonT(30) DEF Record
  <2>2. log' \in Seq(Seq(AWrite))
    BY <1>2, <2>1
  <2>3. Recovered(log') \in Restored
    BY <2>2, RecoveredFacts, ZenonT(30)
  <2> QED BY <1>3, <2>3, ZenonT(30) DEF Replay, Restored
<1>5. JobOK(job') /\ job'.pc = "idle"
  BY ZenonT(30) DEF Restart, JobOK, NoJob
<1>6. /\ queue' = [s \in Shards |-> <<>>] /\ last' = [k \in Key |-> NoWrite]
      /\ inbox' = [c \in Client |-> None] /\ crossed' = {}
      /\ UNCHANGED <<secret, batched, asked>> /\ restarts' = restarts + 1 /\ restarts < MaxRestarts
  BY ZenonT(30) DEF Restart
<1>7. ServerTypes'
  <2>1. queue' \in [Shards -> Seq(QWrite)]
    BY <1>6
  <2>2. last' \in [Key -> [value : Value \cup {None}, batch : {0, 1}]]
    BY <1>6, ZenonT(30) DEF NoWrite
  <2>3. restarts' \in 0 .. MaxRestarts
    <3>1. /\ restarts \in 0 .. MaxRestarts /\ MaxRestarts \in Nat
          /\ restarts' = restarts + 1 /\ restarts < MaxRestarts
      BY <1>1, <1>6, ServerAssumption, ZenonT(30) DEF ServerTypes
    <3> QED BY <3>1
  <2> QED BY <1>1, <1>2, <1>5, <1>6, <2>1, <2>2, <2>3, ZenonT(30) DEF ServerTypes
<1>8. \A s \in Shards : queue'[s] = <<>> /\ DOMAIN queue'[s] = {} /\ ~ Waited(s)'
  BY <1>6 DEF Waited
<1>9. OneWait'
  BY <1>5, <1>8, ZenonT(30) DEF OneWait
<1>10. Unbatched'
  BY <1>3, <1>8, ZenonT(30) DEF Unbatched
<1>11. Answers'
  BY <1>6, ZenonT(30) DEF Answers, NoWrite
<1> QED BY <1>4, <1>7, <1>9, <1>10, <1>11, ZenonT(30) DEF ServerIInv

\* The invariant: the server waits for one write, the last of its queue; memory is in
\* order; and what a put or del wrote last is in memory, or on its way.
THEOREM ServerInvariant == Spec => []ServerIInv
<1>1. Init => ServerIInv
  BY InitServer, ZenonT(30)
<1>2. ServerIInv /\ [Next]_vars => ServerIInv'
  <2> SUFFICES ASSUME ServerIInv, [Next]_vars PROVE ServerIInv'
    BY ZenonT(30)
  <2>1. CASE \E c \in Client : Take(c) \/ \E r \in Requests[c] : Ask(c, r)
    BY <2>1, TakeStep, AskStep, ZenonT(30)
  <2>2. CASE \E s \in Shards : RunTask(s)
    BY <2>2, RunTaskStep, ZenonT(30)
  <2>3. CASE Work
    BY <2>3, CheckStep, CommitStep, CommitBatchStep, ZenonT(30) DEF Work
  <2>4. CASE Restart
    BY <2>4, RestartStep, ZenonT(30)
  <2>5. CASE UNCHANGED vars
    <3>1. UNCHANGED <<secret, inbox, job, log, queue, mem, set, last, crossed, batched, asked, restarts>>
      BY <2>5, ZenonT(30) DEF vars, mVars, hVars
    <3>2. ServerTypes' /\ JobOK(job')
      BY <3>1, ZenonT(30) DEF ServerIInv, ServerTypes
    <3> QED BY <3>1, <3>2, SameStore, ZenonT(30) DEF mVars, hVars
  <2> QED BY <2>1, <2>2, <2>3, <2>4, <2>5, ZenonT(30) DEF Next, Quiet
<1> QED BY <1>1, <1>2, PTL DEF Spec

\* Requests, the job and the counters keep their types, and the server waits exactly
\* while a put or del of its own is queued.
THEOREM ServerTypeCorrect == Spec => []TypeOK
<1>1. ServerIInv => TypeOK
  <2> SUFFICES ASSUME ServerIInv PROVE TypeOK
    BY ZenonT(30)
  <2>1. ServerTypes /\ OneWait /\ JobOK(job)
    BY ZenonT(30) DEF ServerIInv, ServerTypes
  <2>2. job.pc = "idle" <=> job.client = None
    BY <2>1, ServerAssumption, ZenonT(30) DEF JobOK
  <2>3. job.pc = "wait" <=> \E s \in Shards : \E i \in DOMAIN queue[s] : queue[s][i].batch = 0
    <3>0. queue \in [Shards -> Seq(QWrite)]
      BY <2>1, ZenonT(30) DEF ServerTypes
    <3>1. \A s \in Shards : queue[s] # <<>> => Len(queue[s]) \in DOMAIN queue[s]
      BY <3>0
    <3> QED BY <2>1, <3>1, ZenonT(30) DEF OneWait, Waited
  <2>4. job.pc \in {"idle", "check", "view", "commit", "wait"}
    BY <2>1, ZenonT(30) DEF JobOK
  <2> QED BY <2>1, <2>2, <2>3, <2>4, ZenonT(30) DEF TypeOK, ServerTypes
<1> QED BY <1>1, ServerInvariant, PTL

\* At rest and without batches, memory is what a restart would rebuild from the log.
THEOREM RebuiltHolds == Spec => []Rebuilt
<1>1. ServerIInv => Rebuilt
  BY ZenonT(30) DEF ServerIInv, Rebuilt, AtRest, Unbatched
<1> QED BY <1>1, ServerInvariant, PTL

\* When a put or del was answered its document is in memory and its rule in force.
THEOREM AnsweredSeenHolds == Spec => []AnsweredSeen
<1>1. ServerIInv => AnsweredSeen
  <2> SUFFICES ASSUME ServerIInv, job.pc # "wait", NEW k \in Key \ crossed,
                      last[k].batch = 0, last[k].value # None
               PROVE  Seen(k)
    BY ZenonT(30) DEF AnsweredSeen
  <2>1. ServerTypes /\ OneWait /\ Answers /\ MemOK(mem, set)
    BY ZenonT(30) DEF ServerIInv
  <2>2. Settled(k)
    BY <2>1, NoWait, ZenonT(30) DEF Answers, Coming
  <2>3. ASSUME k \in DOMAIN RuleKey, last[k].value # Gone
        PROVE  \E i \in DOMAIN mem.acls[RuleKey[k].uid] :
                 mem.acls[RuleKey[k].uid][i] = [prefix |-> RuleKey[k].prefix,
                                                perm |-> PermOf[last[k].value]]
    <3>1. PICK u : u = RuleKey[k].uid
      BY ZenonT(30)
    <3>2. u \in Uids
      BY <2>3, <3>1, ZenonT(30) DEF Uids
    <3>3. set[k] = PermOf[last[k].value]
      BY <2>2, <2>3, ZenonT(30) DEF Settled
    <3>4. last[k].value \in DOMAIN PermOf
      BY <2>1, <2>3, ZenonT(30) DEF ServerTypes, Value
    <3>5. set[k] # None
      BY <3>3, <3>4, ServerAssumption, ZenonT(30)
    <3>6. RuleOf(set, k) \in InForce(set, u)
      BY <2>3, <3>1, <3>5, ZenonT(30) DEF InForce
    <3>7. RuleOf(set, k) \in Elements(mem.acls[u])
      BY <2>1, <3>2, <3>6, ZenonT(30) DEF MemOK
    <3> QED BY <3>1, <3>3, <3>7, ZenonT(30) DEF Elements, RuleOf
  <2> QED BY <2>2, <2>3, ZenonT(30) DEF Seen, Settled
<1> QED BY <1>1, ServerInvariant, PTL

\* check_permission says what was last set for the longest prefix with a rule.
THEOREM LongestMatchHolds == Spec => []LongestMatch
<1>1. ServerIInv => LongestMatch
  <2> SUFFICES ASSUME MemOK(mem, set), NEW u \in Uids \ Trusted, NEW k \in Key
               PROVE  LET rules == {r \in DOMAIN RuleKey : /\ RuleKey[r].uid = u /\ set[r] # None
                                                            /\ k \in Matches[RuleKey[r].prefix]}
                          longest == CHOOSE r \in rules : \A q \in rules :
                                       Length[RuleKey[q].prefix] <= Length[RuleKey[r].prefix]
                      IN  check_permission(u, k) = IF rules = {} THEN {} ELSE set[longest]
    BY ZenonT(30) DEF ServerIInv, LongestMatch
  <2> DEFINE rules == {r \in DOMAIN RuleKey : /\ RuleKey[r].uid = u /\ set[r] # None
                                               /\ k \in Matches[RuleKey[r].prefix]}
             Longest(r) == \A q \in rules : Length[RuleKey[q].prefix] <= Length[RuleKey[r].prefix]
             longest == CHOOSE r \in rules : Longest(r)
             hits == {i \in DOMAIN mem.acls[u] : k \in Matches[mem.acls[u][i].prefix]}
             First(i) == \A j \in hits : i <= j
             first == CHOOSE i \in hits : First(i)
  <2>1. check_permission(u, k) = IF hits = {} THEN {} ELSE mem.acls[u][first].perm
    BY ZenonT(30) DEF check_permission
  <2>2. mem.acls[u] \in Seq(Rule) /\ Descending(mem.acls[u]) /\ Elements(mem.acls[u]) = InForce(set, u)
    BY ZenonT(30) DEF MemOK, Memory
  <2>3. \A i \in DOMAIN mem.acls[u] : \E r \in DOMAIN RuleKey :
          RuleKey[r].uid = u /\ set[r] # None /\ mem.acls[u][i] = RuleOf(set, r)
    BY <2>2, ZenonT(30) DEF Elements, InForce
  <2>4. \A r \in DOMAIN RuleKey : RuleKey[r].uid = u /\ set[r] # None =>
          \E i \in DOMAIN mem.acls[u] : mem.acls[u][i] = RuleOf(set, r)
    BY <2>2, ZenonT(30) DEF Elements, InForce
  <2>5. \A r : RuleOf(set, r).prefix = RuleKey[r].prefix /\ RuleOf(set, r).perm = set[r]
    BY ZenonT(30) DEF RuleOf
  <2>6. ASSUME NEW i \in hits PROVE \E r \in rules : mem.acls[u][i] = RuleOf(set, r)
    <3>1. i \in DOMAIN mem.acls[u] /\ k \in Matches[mem.acls[u][i].prefix]
      BY ZenonT(30)
    <3>2. PICK r \in DOMAIN RuleKey :
            RuleKey[r].uid = u /\ set[r] # None /\ mem.acls[u][i] = RuleOf(set, r)
      BY <2>3, <3>1, ZenonT(30)
    <3>3. k \in Matches[RuleKey[r].prefix]
      BY <2>5, <3>1, <3>2, ZenonT(30)
    <3> QED BY <3>2, <3>3, ZenonT(30)
  <2>7. ASSUME NEW r \in rules PROVE \E i \in hits : mem.acls[u][i] = RuleOf(set, r)
    <3>1. r \in DOMAIN RuleKey /\ RuleKey[r].uid = u /\ set[r] # None /\ k \in Matches[RuleKey[r].prefix]
      BY ZenonT(30)
    <3>2. PICK i \in DOMAIN mem.acls[u] : mem.acls[u][i] = RuleOf(set, r)
      BY <2>4, <3>1, ZenonT(30)
    <3>3. k \in Matches[mem.acls[u][i].prefix]
      BY <2>5, <3>1, <3>2, ZenonT(30)
    <3> QED BY <3>2, <3>3, ZenonT(30)
  <2>8. CASE rules = {}
    <3>1. hits = {}
      BY <2>6, <2>8, ZenonT(30)
    <3> QED BY <2>1, <2>8, <3>1, ZenonT(30)
  <2>9. CASE rules # {}
    <3>1. hits # {}
      BY <2>7, <2>9, ZenonT(30)
    <3>2. hits \subseteq Nat
      <4>1. mem.acls[u] \in Seq(Rule)
        BY <2>2, ZenonT(30)
      <4> HIDE DEF hits
      <4>2. DOMAIN mem.acls[u] \subseteq Nat
        BY <4>1
      <4> QED BY <4>2, ZenonT(30) DEF hits
    <3>3. \E i \in hits : First(i)
      <4> HIDE DEF hits
      <4> QED BY <3>1, <3>2, Least, ZenonT(30)
    <3>4. first \in hits /\ First(first)
      <4> HIDE DEF hits, First
      <4> QED BY <3>3, ZenonT(30)
    <3>5. PICK r \in rules : mem.acls[u][first] = RuleOf(set, r)
      <4> HIDE DEF hits, rules, first
      <4> QED BY <2>6, <3>4, ZenonT(30)
    <3>6. \A q \in rules : RuleKey[q].prefix \in DOMAIN Length /\ Length[RuleKey[q].prefix] \in Nat
      BY ServerAssumption, ZenonT(30)
    <3>7. Longest(r)
      <4> SUFFICES ASSUME NEW q \in rules
                   PROVE  Length[RuleKey[q].prefix] <= Length[RuleKey[r].prefix]
        BY ZenonT(30)
      <4>1. PICK i \in hits : mem.acls[u][i] = RuleOf(set, q)
        BY <2>7, ZenonT(30)
      <4>2. first <= i /\ first \in DOMAIN mem.acls[u] /\ i \in DOMAIN mem.acls[u]
        <5> HIDE DEF first
        <5> QED BY <3>4, ZenonT(30)
      <4> HIDE DEF first, hits, rules
      <4>3. CASE first = i
        <5>1. RuleKey[q].prefix = RuleKey[r].prefix /\ Length[RuleKey[q].prefix] \in Nat
          BY <2>5, <3>5, <3>6, <4>1, <4>3, ZenonT(30)
        <5> QED BY <5>1
      <4>4. CASE first < i
        <5>1. Length[mem.acls[u][first].prefix] > Length[mem.acls[u][i].prefix]
          BY <2>2, <4>2, <4>4, ZenonT(30) DEF Descending
        <5>2. Length[RuleKey[r].prefix] > Length[RuleKey[q].prefix]
          BY <2>5, <3>5, <4>1, <5>1, ZenonT(30)
        <5> QED BY <3>6, <5>2
      <4>5. first \in Nat /\ i \in Nat
        BY <3>2, <3>4, ZenonT(30)
      <4>6. first <= i
        BY <4>2, ZenonT(30)
      <4>7. first = i \/ first < i
        BY <4>5, <4>6
      <4> QED BY <4>3, <4>4, <4>7, ZenonT(30)
    <3>8. longest \in rules /\ Longest(longest)
      <4> HIDE DEF rules, Longest
      <4> QED BY <3>5, <3>7, ZenonT(30)
    <3>9. longest = r
      <4> HIDE DEF longest
      <4>1. Length[RuleKey[longest].prefix] = Length[RuleKey[r].prefix]
        <5> HIDE DEF rules
        <5>1. /\ Length[RuleKey[longest].prefix] <= Length[RuleKey[r].prefix]
              /\ Length[RuleKey[r].prefix] <= Length[RuleKey[longest].prefix]
          BY <3>5, <3>7, <3>8, ZenonT(30)
        <5>2. Length[RuleKey[longest].prefix] \in Nat /\ Length[RuleKey[r].prefix] \in Nat
          BY <3>5, <3>6, <3>8, ZenonT(30)
        <5> QED BY <5>1, <5>2, Antisymmetric, ZenonT(30)
      <4>2. RuleKey[longest].prefix = RuleKey[r].prefix
        BY <3>5, <3>6, <3>8, <4>1, ServerAssumption, ZenonT(30)
      <4> QED BY <3>5, <3>8, <4>2, ServerAssumption, ZenonT(30)
    <3>10. mem.acls[u][first].perm = set[r]
      <4> HIDE DEF first
      <4> QED BY <2>5, <3>5, ZenonT(30)
    <3>11. check_permission(u, k) = set[longest]
      <4> HIDE DEF first, hits, longest
      <4> QED BY <2>1, <3>1, <3>9, <3>10, ZenonT(30)
    <3> QED BY <2>9, <3>11, ZenonT(30)
  <2> QED BY <2>8, <2>9, ZenonT(30)
<1> QED BY <1>1, ServerInvariant, PTL
=============================================================================
