---------------------------- MODULE ProducerHash ----------------------------
(***************************************************************************)
(* Which sub-queue of a shard's queue a thread enqueues to:                *)
(* get_or_add_implicit_producer, recycle_or_create_producer and            *)
(* implicit_producer_thread_exited (lib/concurrentqueue/concurrentqueue.h).*)
(* A lock-free hash table from thread ids to producers grows by chaining a *)
(* larger table in front of the old ones; a thread that exits leaves its   *)
(* slots reusable and its producer to the next thread that needs one.      *)
(*                                                                         *)
(* A slot is Free (invalid_thread_id), Reusable (invalid_thread_id2) or    *)
(* holds a thread's id and its producer.  Only the thread itself writes    *)
(* its id, so looking it up is one step; each slot tried by an insertion   *)
(* is one.  A thread that exited may be followed by another with its id.   *)
(* Taking a producer is one step that finds the newest spare one; the      *)
(* code's walk, with a compare-exchange per producer, may miss one given   *)
(* up behind it and create another, but no two threads get the same.       *)
(***************************************************************************)
EXTENDS Integers, Sequences, FiniteSets

CONSTANTS
  Enqueuer,   \* threads, which come to enqueue
  Hash,       \* hash_thread_id, a number for each thread
  Capacity,   \* INITIAL_IMPLICIT_PRODUCER_HASH_SIZE, a power of two
  MaxExits    \* bound on threads that exit

\* Thread ids are apart from the two that mark a slot.
ASSUME HashAssumption ==
  /\ IsFiniteSet(Enqueuer) /\ {"free", "reusable"} \cap Enqueuer = {}
  /\ Hash \in [Enqueuer -> Nat]
  /\ Capacity \in Nat \ {0} /\ MaxExits \in Nat

VARIABLES
  tables,    \* the tables, oldest first; the last one is implicitProducerHash
  count,     \* implicitProducerHashCount
  resizing,  \* implicitProducerHashResizeInProgress
  inactive,  \* per producer created: 1 if its thread has exited
  hpc,       \* per thread: where it is
  hmy,       \* per thread: newCount, mainHash, the slot to try, its producer
  exits

hashVars == <<tables, count, resizing, inactive, hpc, hmy, exits>>

Free == [id |-> "free", producer |-> 0]
Reusable == [id |-> "reusable", producer |-> 0]

\* A table of n free slots, numbered from 0.
Table(n) == [i \in 0 .. n - 1 |-> Free]
Size(h) == Cardinality(DOMAIN tables[h])
Slots(h) == {tables[h][i] : i \in DOMAIN tables[h]}

NoHashLocals == [count |-> 0, main |-> 0, slot |-> 0, producer |-> 0]

HashInit ==
  /\ tables = <<Table(Capacity)>>
  /\ count = 0 /\ resizing = 0
  /\ inactive = <<>>
  /\ hpc = [t \in Enqueuer |-> "idle"]
  /\ hmy = [t \in Enqueuer |-> NoHashLocals]
  /\ exits = 0

HashGoto(t, l, m) ==
  /\ hpc' = [hpc EXCEPT ![t] = l]
  /\ hmy' = [hmy EXCEPT ![t] = m]

\* The slots of table h in the order t probes them.
Probe(t, h, i) == (Hash[t] + i) % Size(h)

\* t is found in table h: before the first free slot of its probe sequence.
Found(t, h) ==
  \E i \in 0 .. Size(h) - 1 :
    /\ tables[h][Probe(t, h, i)].id = t
    /\ \A j \in 0 .. i - 1 : tables[h][Probe(t, h, j)] # Free

\* The producer of t in the newest table that has it.
Known(t) == {h \in DOMAIN tables : Found(t, h)}
Newest(t) == CHOOSE h \in Known(t) : \A g \in Known(t) : g <= h
ProducerIn(t, h) == (CHOOSE s \in Slots(h) : s.id = t).producer

-----------------------------------------------------------------------------
\* get_or_add_implicit_producer

\* An id in the newest table is found there and nothing changes.
Lookup(t) == hpc[t] = "idle" /\ Found(t, Len(tables)) /\ UNCHANGED hashVars

\* One that is in an older table only is added to the newest before its producer
\* is returned.
LookupOld(t) ==
  /\ hpc[t] = "idle"
  /\ Known(t) # {} /\ Newest(t) # Len(tables)
  /\ HashGoto(t, "copy", [NoHashLocals EXCEPT !.main = Len(tables),
                                              !.producer = ProducerIn(t, Newest(t))])
  /\ UNCHANGED <<tables, count, resizing, inactive, exits>>

\* It is in none: one more is counted.
LookupNone(t) ==
  /\ hpc[t] = "idle" /\ Known(t) = {}
  /\ count' = count + 1
  /\ HashGoto(t, "fit", [NoHashLocals EXCEPT !.count = count', !.main = Len(tables)])
  /\ UNCHANGED <<tables, resizing, inactive, exits>>

\* The slot that an insertion of t tries next.
Slot(t) == Probe(t, hmy[t].main, hmy[t].slot)

\* The lazy copy tries a slot; the producer is returned once one was taken.
Copy(t) ==
  LET h == hmy[t].main
  IN  /\ hpc[t] = "copy"
      /\ IF tables[h][Slot(t)] \in {Free, Reusable}
         THEN /\ tables' = [tables EXCEPT ![h][Slot(t)] =
                              [id |-> t, producer |-> hmy[t].producer]]
              /\ HashGoto(t, "idle", NoHashLocals)
         ELSE /\ HashGoto(t, "copy", [hmy[t] EXCEPT !.slot = @ + 1])
              /\ UNCHANGED tables
      /\ UNCHANGED <<count, resizing, inactive, exits>>

\* The producers whose threads have exited.
Spare == {p \in DOMAIN inactive : inactive[p] = 1}

\* Half full: the table must grow, and whoever gets the flag does it.
MustGrow(t, h) == hmy[t].count >= Size(h) \div 2

\* Mutant of HasRoom: the table may be filled.
HasRoomToFill(t, h) == hmy[t].count <= Size(h)

\* Less than three quarters full: there is room whoever grows it.
HasRoom(t, h) == hmy[t].count < Size(h) \div 2 + Size(h) \div 4

\* test_and_set of the flag; a thread that does not get it goes on with the old
\* table if there is room, and looks for a new one if not.
Grab(t) ==
  /\ hpc[t] = "fit" /\ MustGrow(t, hmy[t].main) /\ resizing = 0
  /\ resizing' = 1
  /\ HashGoto(t, "grow", [hmy[t] EXCEPT !.main = Len(tables)])
  /\ UNCHANGED <<tables, count, inactive, exits>>

\* n is doubled, once at least, until it is less than half full with c.
NewCapacity(n, c) ==
  LET doubled[i \in 0 .. c + 1] == IF i = 0 THEN n ELSE 2 * doubled[i - 1]
  IN  doubled[CHOOSE i \in 1 .. c + 1 : /\ c < doubled[i] \div 2
                                        /\ \A j \in 1 .. i - 1 : c >= doubled[j] \div 2]

\* It allocates the larger table, unless another thread has, and clears the flag.
Grow(t) ==
  /\ hpc[t] = "grow"
  /\ tables' = IF MustGrow(t, hmy[t].main)
               THEN Append(tables, Table(NewCapacity(Size(hmy[t].main), hmy[t].count)))
               ELSE tables
  /\ resizing' = 0
  /\ HashGoto(t, "room", [hmy[t] EXCEPT !.main = Len(tables')])
  /\ UNCHANGED <<count, inactive, exits>>

\* Mutant of Fail: the flag stays set when there is no memory for the table.
FailHeld(t) ==
  /\ \/ hpc[t] = "grow" /\ MustGrow(t, hmy[t].main)
     \/ hpc[t] = "room" /\ HasRoom(t, hmy[t].main) /\ Spare = {}
  /\ count' = count - 1
  /\ HashGoto(t, "idle", NoHashLocals)
  /\ UNCHANGED <<tables, resizing, inactive, exits>>

\* The allocation fails, of the table or of the producer: nullptr is returned
\* and the enqueue fails.
Fail(t) ==
  /\ \/ hpc[t] = "grow" /\ MustGrow(t, hmy[t].main) /\ resizing' = 0
     \/ hpc[t] = "room" /\ HasRoom(t, hmy[t].main) /\ Spare = {} /\ UNCHANGED resizing
  /\ count' = count - 1
  /\ HashGoto(t, "idle", NoHashLocals)
  /\ UNCHANGED <<tables, inactive, exits>>

\* Not half full, or another thread grows it: on with the table at hand.
NoGrow(t) ==
  /\ hpc[t] = "fit" /\ (~ MustGrow(t, hmy[t].main) \/ resizing = 1)
  /\ HashGoto(t, "room", hmy[t])
  /\ UNCHANGED <<tables, count, resizing, inactive, exits>>

\* Too full to add to: the thread that grows it is waited for.
Full(t) ==
  /\ hpc[t] = "room" /\ ~ HasRoom(t, hmy[t].main)
  /\ HashGoto(t, "fit", [hmy[t] EXCEPT !.main = Len(tables)])
  /\ UNCHANGED <<tables, count, resizing, inactive, exits>>

\* recycle_or_create_producer: the newest producer left by a thread, or a new one.
Acquire(t) ==
  LET p == IF Spare = {} THEN Len(inactive) + 1
           ELSE CHOOSE x \in Spare : \A y \in Spare : y <= x
  IN  /\ hpc[t] = "room" /\ HasRoom(t, hmy[t].main)
      /\ inactive' = IF Spare = {} THEN Append(inactive, 0) ELSE [inactive EXCEPT ![p] = 0]
      /\ HashGoto(t, "insert", [hmy[t] EXCEPT !.count = 0, !.producer = p])
      /\ UNCHANGED <<tables, count, resizing, exits>>

\* The insertion tries a slot, for a reusable one before a free one.
Insert(t) ==
  LET h == hmy[t].main
      s == tables[h][Slot(t)]
  IN  /\ hpc[t] = "insert"
      /\ IF s \in {Free, Reusable}
         THEN /\ tables' = [tables EXCEPT ![h][Slot(t)] =
                              [id |-> t, producer |-> hmy[t].producer]]
              /\ HashGoto(t, IF s = Free THEN "idle" ELSE "uncount", NoHashLocals)
         ELSE /\ HashGoto(t, "insert", [hmy[t] EXCEPT !.slot = @ + 1])
              /\ UNCHANGED tables
      /\ UNCHANGED <<count, resizing, inactive, exits>>

\* A reusable slot was counted already.
Uncount(t) ==
  /\ hpc[t] = "uncount"
  /\ count' = count - 1
  /\ HashGoto(t, "idle", NoHashLocals)
  /\ UNCHANGED <<tables, resizing, inactive, exits>>

-----------------------------------------------------------------------------
\* implicit_producer_thread_exited

\* Mutant of Exit: the producer may be recycled before the ids are removed.
ExitRetired(t) ==
  /\ hpc[t] = "idle" /\ Known(t) # {} /\ exits < MaxExits
  /\ exits' = exits + 1
  /\ inactive' = [inactive EXCEPT ![ProducerIn(t, Newest(t))] = 1]
  /\ HashGoto(t, "exit", [NoHashLocals EXCEPT !.main = Len(tables),
                                              !.producer = ProducerIn(t, Newest(t))])
  /\ UNCHANGED <<tables, count, resizing>>

\* The thread ends; its listener knows its producer.
Exit(t) ==
  /\ hpc[t] = "idle" /\ Known(t) # {} /\ exits < MaxExits
  /\ exits' = exits + 1
  /\ HashGoto(t, "exit", [NoHashLocals EXCEPT !.main = Len(tables),
                                              !.producer = ProducerIn(t, Newest(t))])
  /\ UNCHANGED <<tables, count, resizing, inactive>>

\* Its id is removed from one table after the other, newest first.
ExitTable(t) ==
  LET h == hmy[t].main
  IN  /\ hpc[t] = "exit" /\ h > 0
      /\ tables' = IF Found(t, h)
                   THEN [tables EXCEPT ![h] = [i \in DOMAIN @ |->
                           IF @[i].id = t THEN Reusable ELSE @[i]]]
                   ELSE tables
      /\ HashGoto(t, "exit", [hmy[t] EXCEPT !.main = h - 1])
      /\ UNCHANGED <<count, resizing, inactive, exits>>

\* Its producer may be recycled.
Retire(t) ==
  /\ hpc[t] = "exit" /\ hmy[t].main = 0
  /\ inactive' = [inactive EXCEPT ![hmy[t].producer] = 1]
  /\ HashGoto(t, "idle", NoHashLocals)
  /\ UNCHANGED <<tables, count, resizing, exits>>

Step(t) ==
  \/ Copy(t) \/ Grab(t) \/ Grow(t) \/ Fail(t) \/ NoGrow(t) \/ Full(t)
  \/ Acquire(t) \/ Insert(t) \/ Uncount(t)
  \/ ExitTable(t) \/ Retire(t)

HashNext ==
  \E t \in Enqueuer :
    Lookup(t) \/ LookupOld(t) \/ LookupNone(t) \/ Exit(t) \/ Step(t)

HashSpec == HashInit /\ [][HashNext]_hashVars

\* A thread inside a call goes on, and memory that is asked for again and again is
\* there at last.
HashFairness == \A t \in Enqueuer : WF_hashVars(Step(t)) /\ SF_hashVars(Grow(t))
HashFairSpec == HashSpec /\ HashFairness

-----------------------------------------------------------------------------
\* Properties

\* Tables, counters and locals keep their types.
HashTypeOK ==
  /\ \A h \in DOMAIN tables :
       Slots(h) \subseteq {Free, Reusable} \cup [id : Enqueuer, producer : DOMAIN inactive]
  /\ count \in Nat /\ resizing \in {0, 1}
  /\ inactive \in Seq({0, 1})
  /\ hpc \in [Enqueuer -> {"idle", "copy", "fit", "grow", "room", "insert", "uncount",
                        "exit"}]
  /\ hmy \in [Enqueuer -> [count : Nat, main : 0 .. Len(tables), slot : Nat,
                        producer : 0 .. Len(inactive)]]
  /\ exits \in 0 .. MaxExits

\* The producers that t has in a table or in its hands.
Own(t) ==
  ({hmy[t].producer} \ {0})
    \cup {s.producer : s \in {x \in UNION {Slots(h) : h \in DOMAIN tables} : x.id = t}}

\* A thread has one producer, in all tables, and no two threads share one, though
\* tables grow, slots are reused and producers recycled under them; a sub-queue
\* has a single writer, which is what its enqueue relies on.
OneWriter ==
  \A t \in Enqueuer :
    /\ Cardinality(Own(t)) <= 1
    /\ \A p \in Own(t) : inactive[p] = 0
    /\ \A u \in Enqueuer \ {t} : Own(t) \cap Own(u) = {}

\* "Not an infinite loop because at least one slot is free in the hash table":
\* every probe of every table ends.
SlotLeft == \A h \in DOMAIN tables : Free \in Slots(h)

\* A thread that calls gets its producer or an allocation failure, though it may
\* have to wait for another to grow the table.
Obtains == \A t \in Enqueuer : hpc[t] # "idle" ~> hpc[t] = "idle"
=============================================================================
