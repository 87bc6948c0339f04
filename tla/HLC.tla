-------------------------------- MODULE HLC --------------------------------
(***************************************************************************)
(* The hybrid logical clock of one node (src/engine/clock.{hpp,cpp}): the  *)
(* HybridLogicalClock every write is stamped with, and the                 *)
(* ThreadLocalClock that hands out stamps from a batch reserved from it.   *)
(*                                                                         *)
(* The node's system clock is an input: it advances and, as NTP or an      *)
(* administrator may make it, steps back.  A call that holds mx_ from      *)
(* start to end is one step; now() at the end of the logical counter       *)
(* spins with mx_ held, so it is three.                                    *)
(***************************************************************************)
EXTENDS Integers, Sequences

CONSTANTS
  Direct,       \* threads that call HybridLogicalClock::now()
  Batched,      \* threads that have a ThreadLocalClock
  MaxLogical,   \* UINT32_MAX, the last value of the logical counter
  Batch,        \* BATCH_SIZE of ThreadLocalClock
  Incoming,     \* stamps update() may be called with
  MaxPhys,      \* bound: last reading of the system clock
  MaxEvents     \* bound: number of calls observed

Threads == Direct \cup Batched
Phys == 0 .. MaxPhys
Logical == 0 .. MaxLogical
Stamp == [wall : Phys, logical : Logical]

ASSUME HLCAssumption ==
  /\ MaxLogical \in Nat \ {0}
  /\ Batch \in Nat \ {0}
  /\ MaxPhys \in Nat \ {0}
  /\ MaxEvents \in Nat
  /\ Incoming \subseteq Stamp

VARIABLES
  phys,     \* get_physical_time()
  wall,     \* max_wall_time_
  logical,  \* max_logical_
  cpc,       \* where each thread is
  req,      \* phys_now, the reading a thread asks a batch for
  cache,    \* each thread's cached_phys_time_, cached_logical_next_ / _end_
  events,   \* history: the stamps returned or received, in order
  reset     \* history: which of the two ways the clock can go back has happened

clockVars == <<phys, wall, logical, cpc, req, cache, events, reset>>

\* Timestamp::operator< on the stamps of one node.
Lt(a, b) ==
  \/ a.wall < b.wall
  \/ a.wall = b.wall /\ a.logical < b.logical

\* A uint32_t sum of two logical values.
Wrap(c) == IF c > MaxLogical THEN c - (MaxLogical + 1) ELSE c

Max2(a, b) == IF a >= b THEN a ELSE b

ClockInit ==
  /\ phys \in Phys \ {0}
  /\ wall = 0
  /\ logical = 0
  /\ cpc = [t \in Threads |-> "idle"]
  /\ req = [t \in Threads |-> 0]
  /\ cache = [t \in Threads |-> [phys |-> 0, next |-> 0, end |-> 0]]
  /\ events = <<>>
  /\ reset = "none"

\* mx_ is free: no thread is inside the overflow loop of now().
MutexFree == \A t \in Threads : cpc[t] \notin {"spin", "reread"}

Observe(op, w, l) ==
  events' = Append(events, [op |-> op, wall |-> w, logical |-> l])

SystemClock(p) ==
  /\ phys' = p
  /\ UNCHANGED <<wall, logical, cpc, req, cache, events, reset>>

\* The system clock advances.
Tick == phys < MaxPhys /\ SystemClock(phys + 1)

\* The system clock is set back.
StepBack == \E p \in 1 .. phys - 1 : SystemClock(p)

-----------------------------------------------------------------------------
\* HybridLogicalClock

\* now(), called directly or as the fallback of ThreadLocalClock::now().
Now(t) ==
  /\ cpc[t] = "fallback" \/ (cpc[t] = "idle" /\ t \in Direct)
  /\ MutexFree
  /\ Len(events) < MaxEvents
  /\ \/ /\ phys > wall
        /\ wall' = phys /\ logical' = 0
        /\ Observe("now", phys, 0)
        /\ cpc' = [cpc EXCEPT ![t] = "idle"]
     \/ /\ phys <= wall /\ logical # MaxLogical
        /\ logical' = logical + 1
        /\ Observe("now", wall, logical + 1)
        /\ cpc' = [cpc EXCEPT ![t] = "idle"]
        /\ UNCHANGED wall
     \/ /\ phys <= wall /\ logical = MaxLogical
        /\ cpc' = [cpc EXCEPT ![t] = "spin"]
        /\ UNCHANGED <<wall, logical, events>>
  /\ UNCHANGED <<phys, req, cache, reset>>

\* The overflow loop sees the system clock past max_wall_time_ ...
NowSpinDone(t) ==
  /\ cpc[t] = "spin"
  /\ phys > wall
  /\ cpc' = [cpc EXCEPT ![t] = "reread"]
  /\ UNCHANGED <<phys, wall, logical, req, cache, events, reset>>

\* ... and now() reads the system clock a second time, for new_phys.
NowReread(t) ==
  /\ cpc[t] = "reread"
  /\ Len(events) < MaxEvents
  /\ wall' = phys /\ logical' = 0
  /\ Observe("now", phys, 0)
  /\ reset' = IF phys > wall THEN reset ELSE "reread"
  /\ cpc' = [cpc EXCEPT ![t] = "idle"]
  /\ UNCHANGED <<phys, req, cache>>

\* Mutant of MergedLogical: the incoming counter is not looked at.
MergedLogicalOwn(m, w) == IF w = wall THEN logical + 1 ELSE 0

\* What update() leaves in max_logical_, before the uint32_t addition wraps.
MergedLogical(m, w) ==
  IF w = wall /\ w = m.wall THEN Max2(logical, m.logical) + 1
  ELSE IF w = wall THEN logical + 1
  ELSE IF w = m.wall THEN m.logical + 1
  ELSE 0

\* update(incoming)
Update(m) ==
  /\ MutexFree
  /\ Len(events) < MaxEvents
  /\ LET w == Max2(Max2(wall, m.wall), phys)
         c == MergedLogical(m, w)
     IN  /\ wall' = w
         /\ logical' = Wrap(c)
         /\ reset' = IF c <= MaxLogical THEN reset ELSE "wrap"
  /\ Observe("update", m.wall, m.logical)
  /\ UNCHANGED <<phys, cpc, req, cache>>

-----------------------------------------------------------------------------
\* ThreadLocalClock

\* now() up to the refill loop: the read of the system clock, and the stamp
\* from the batch if there is one for this reading.
LocalNow(t) ==
  /\ cpc[t] = "idle" /\ t \in Batched
  /\ Len(events) < MaxEvents
  /\ IF phys = cache[t].phys /\ cache[t].next < cache[t].end
     THEN /\ Observe("local", phys, cache[t].next)
          /\ cache' = [cache EXCEPT ![t].next = @ + 1]
          /\ UNCHANGED <<cpc, req>>
     ELSE /\ cache' = IF phys > cache[t].phys
                      THEN [cache EXCEPT ![t] = [phys |-> phys, next |-> 0, end |-> 0]]
                      ELSE cache
          /\ req' = [req EXCEPT ![t] = phys]
          /\ cpc' = [cpc EXCEPT ![t] = "refill"]
          /\ UNCHANGED events
  /\ UNCHANGED <<phys, wall, logical, reset>>

\* Mutant of FirstReserved: the batch starts at the value last given out.
FirstReservedAgain(base) == base

\* start_logical of a reservation made when max_logical_ is base.
FirstReserved(base) == base + 1

\* reserve_logical(phys_now, BATCH_SIZE) and what now() does with its result.
\* A refusal for want of logical values comes after the wall time advanced.
Reserve(t) ==
  /\ cpc[t] = "refill" /\ MutexFree
  /\ Len(events) < MaxEvents
  /\ IF req[t] < Max2(phys, wall)
     THEN /\ cpc' = [cpc EXCEPT ![t] = "yielded"]
          /\ UNCHANGED <<wall, logical, cache, events>>
     ELSE LET base == IF req[t] > wall THEN 0 ELSE logical
              start == FirstReserved(base)
          IN  /\ wall' = req[t]
              /\ IF MaxLogical - base < Batch
                 THEN /\ logical' = base
                      /\ cpc' = [cpc EXCEPT ![t] = "yielded"]
                      /\ UNCHANGED <<cache, events>>
                 ELSE /\ logical' = base + Batch
                      /\ cpc' = [cpc EXCEPT ![t] = "idle"]
                      /\ cache' = [cache EXCEPT ![t] =
                           [phys |-> req[t], next |-> Wrap(start + 1),
                            end |-> Wrap(start + Batch)]]
                      /\ Observe("local", req[t], start)
  /\ UNCHANGED <<phys, req, reset>>

\* After a refused reservation: the fallback if the system clock stands still,
\* another attempt otherwise.
Retry(t) ==
  /\ cpc[t] = "yielded"
  /\ cpc' = [cpc EXCEPT ![t] = IF phys = req[t] THEN "fallback" ELSE "refill"]
  /\ req' = [req EXCEPT ![t] = phys]
  /\ UNCHANGED <<phys, wall, logical, cache, events, reset>>

-----------------------------------------------------------------------------
ClockNext ==
  \/ Tick
  \/ StepBack
  \/ \E m \in Incoming : Update(m)
  \/ \E t \in Threads :
       \/ Now(t) \/ NowSpinDone(t) \/ NowReread(t)
       \/ LocalNow(t) \/ Reserve(t) \/ Retry(t)

ClockSpec == ClockInit /\ [][ClockNext]_clockVars

-----------------------------------------------------------------------------
\* Properties

\* Every variable keeps its type: in particular the counters of a batch stay
\* uint32_t values and no reading is taken for one that was never made.
ClockTypeOK ==
  /\ phys \in Phys /\ wall \in Phys /\ logical \in Logical
  /\ cpc \in [Threads -> {"idle", "refill", "yielded", "fallback", "spin", "reread"}]
  /\ req \in [Threads -> Phys]
  /\ cache \in [Threads -> [phys : Phys, next : Logical, end : Logical]]
  /\ events \in Seq([op : {"now", "update", "local"}, wall : Phys, logical : Logical])
  /\ reset \in {"none", "wrap", "reread"}

\* A stamp returned by HybridLogicalClock::now() is above every stamp that any
\* thread was given and every stamp update() received before it, whatever the
\* system clock does, until update() wraps the logical counter or the second
\* reading after an overflow is an older one.
NowAboveAll ==
  reset = "none" =>
    \A j \in DOMAIN events : events[j].op = "now" =>
      \A i \in 1 .. j - 1 : Lt(events[i], events[j])

\* No two calls on one node, of the clock itself or of any thread's batch,
\* return the same stamp (the uniqueness test_clock_simple.cpp counts), under
\* the same proviso.
Unique ==
  reset = "none" =>
    \A i, j \in DOMAIN events :
      /\ events[i].op # "update" /\ events[j].op # "update"
      /\ events[i].wall = events[j].wall /\ events[i].logical = events[j].logical
      => i = j

\* clock.cpp:42, "We MUST wait for physical time to advance to preserve
\* ordering": NowAboveAll without the proviso.
OrderingPreserved ==
  \A j \in DOMAIN events : events[j].op = "now" =>
    \A i \in 1 .. j - 1 : Lt(events[i], events[j])

\* test_clock_simple.cpp:29, "assert(t2 > t1)" for two calls of one thread's
\* ThreadLocalClock::now(): a call returns a stamp above all earlier ones.
\* Stated for the instance whose only thread is that thread.
LocalMonotonic ==
  \A i, j \in DOMAIN events :
    i < j /\ events[i].op # "update" /\ events[j].op # "update"
      => Lt(events[i], events[j])
=============================================================================
