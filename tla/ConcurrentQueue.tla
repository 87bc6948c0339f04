-------------------------- MODULE ConcurrentQueue --------------------------
(***************************************************************************)
(* The message queue of a shard: BlockingConcurrentQueue over the implicit *)
(* producers of ConcurrentQueue (lib/concurrentqueue).  Each thread that   *)
(* enqueues has a sub-queue (ProducerHash.tla) of which it is the only     *)
(* writer: an unbounded array of slots, cut into blocks that are found     *)
(* through a circular block index which grows by doubling.  Consumers      *)
(* claim a slot with counters that may run ahead of what is there, and     *)
(* give blocks they have emptied back to the pool (FreeList.tla).          *)
(*                                                                         *)
(* A message is numbered by its producer's enqueues.  Indices are unsigned *)
(* and wrap.  Steps take effect in program order.  The semaphore is a      *)
(* counter (lightweightsemaphore.h is not part of the repository).         *)
(***************************************************************************)
EXTENDS Integers, Sequences, FiniteSets

CONSTANTS
  Producer, Consumer,
  Block,     \* the blocks there is memory for
  BlockSize, \* BLOCK_SIZE, a power of two
  Entries,   \* IMPLICIT_INITIAL_INDEX_SIZE, a power of two
  Wrap,      \* 2 to the width of index_t
  MaxSent,   \* bound: messages of one producer
  None

ASSUME ConcurrentQueueAssumption ==
  /\ None \notin Block
  /\ BlockSize \in Nat \ {0, 1} /\ Entries \in Nat \ {0}
  /\ Wrap \in Nat /\ Wrap % BlockSize = 0
  /\ MaxSent \in Nat

VARIABLES
  tailIndex, headIndex, optimistic, overcommit,  \* per producer, its counters
  entries,  \* per producer: the block index entries ever made
  headers,  \* per producer: the block index headers ever made, the last in use
  tailBlock,
  slots,    \* per block: its elements
  emptied,  \* per block: elementsCompletelyDequeued
  pool,     \* blocks not in use
  permits,  \* the count of the semaphore
  sent,     \* per producer: how many enqueues it has begun
  ppc,      \* per producer: where its thread is
  cpc, my   \* per consumer: where it is and its locals

producerVars == <<tailIndex, headers, tailBlock, sent, ppc>>
consumerVars == <<headIndex, optimistic, overcommit, cpc, my>>
vars == <<tailIndex, headIndex, optimistic, overcommit, entries, headers, tailBlock,
          slots, emptied, pool, permits, sent, ppc, cpc, my>>

\* An entry that holds no block yet; INVALID_BLOCK_BASE is no multiple of BlockSize.
NoEntry == [key |-> 1, block |-> None]

NoLocals == [left |-> {}, producer |-> None, tail |-> 0, over |-> 0, count |-> 0,
             index |-> 0, header |-> 0, pos |-> 0, entry |-> 0, block |-> None, got |-> None]

Init ==
  /\ tailIndex = [p \in Producer |-> 0] /\ headIndex = tailIndex
  /\ optimistic = tailIndex /\ overcommit = tailIndex
  /\ entries = [p \in Producer |-> [i \in 1 .. Entries |-> NoEntry]]
  /\ headers = [p \in Producer |->
                  << [index |-> [i \in 0 .. Entries - 1 |-> i + 1], tail |-> Entries - 1] >>]
  /\ tailBlock = [p \in Producer |-> None]
  /\ slots = [b \in Block |-> [i \in 0 .. BlockSize - 1 |-> None]]
  /\ emptied = [b \in Block |-> 0]
  /\ pool = Block
  /\ permits = 0
  /\ sent = [p \in Producer |-> 0]
  /\ ppc = [p \in Producer |-> "idle"]
  /\ cpc = [c \in Consumer |-> "idle"]
  /\ my = [c \in Consumer |-> NoLocals]

\* circular_less_than: the difference has its top bit set.
Less(a, b) == (a - b) % Wrap > Wrap \div 2

\* The first index of the block of an index.
Base(i) == i - (i % BlockSize)

Header(p) == headers[p][Len(headers[p])]
IndexSize(h) == Cardinality(DOMAIN h.index)

-----------------------------------------------------------------------------
\* enqueue, by the thread of p

\* The position after the tail of the newest header, and the entry there.
NewTail(p) == (Header(p).tail + 1) % IndexSize(Header(p))
TailEntry(p) == Header(p).index[Header(p).tail]
Taken(p) ==
  LET e == entries[p][Header(p).index[NewTail(p)]]
  IN  e.key # NoEntry.key /\ e.block # None

\* A block more would not reach the head again from behind.
Room(p) == Less(headIndex[p], (tailIndex[p] + BlockSize) % Wrap)

At(p, l) == ppc' = [ppc EXCEPT ![p] = l]

\* At the end of a block a new one is needed, and an entry of the index for it.
Enqueue(p) ==
  /\ ppc[p] = "idle" /\ sent[p] < MaxSent
  /\ sent' = [sent EXCEPT ![p] = @ + 1]
  /\ At(p, IF tailIndex[p] % BlockSize = 0 THEN "index" ELSE "store")
  /\ UNCHANGED <<tailIndex, headers, tailBlock, entries, slots, emptied, pool, permits,
                 consumerVars>>

\* Mutant of GrowIndex: the entries are copied from the tail on.
GrowIndexFromTail(p) ==
  LET h == Header(p)
      n == IndexSize(h)
      grown == [i \in 0 .. 2 * n - 1 |->
                  IF i < n THEN h.index[(h.tail + i) % n] ELSE Len(entries[p]) + i - n + 1]
  IN  /\ ppc[p] = "index" /\ Room(p) /\ Taken(p)
      /\ headers' = [headers EXCEPT ![p] = Append(@, [index |-> grown, tail |-> n - 1])]
      /\ entries' = [entries EXCEPT ![p] = @ \o [i \in 1 .. n |-> NoEntry]]
      /\ UNCHANGED <<tailIndex, tailBlock, sent, ppc, slots, emptied, pool, permits,
                     consumerVars>>

\* new_block_index: the old entries, from the oldest on, then as many new ones.
GrowIndex(p) ==
  LET h == Header(p)
      n == IndexSize(h)
      grown == [i \in 0 .. 2 * n - 1 |->
                  IF i < n THEN h.index[(h.tail + 1 + i) % n] ELSE Len(entries[p]) + i - n + 1]
  IN  /\ ppc[p] = "index" /\ Room(p) /\ Taken(p)
      /\ headers' = [headers EXCEPT ![p] = Append(@, [index |-> grown, tail |-> n - 1])]
      /\ entries' = [entries EXCEPT ![p] = @ \o [i \in 1 .. n |-> NoEntry]]
      /\ UNCHANGED <<tailIndex, tailBlock, sent, ppc, slots, emptied, pool, permits,
                     consumerVars>>

\* There is no room, or no memory for a larger index: enqueue returns false.
NoIndex(p) ==
  /\ ppc[p] = "index"
  /\ Room(p) => Taken(p)
  /\ At(p, "idle")
  /\ UNCHANGED <<tailIndex, headers, tailBlock, sent, entries, slots, emptied, pool,
                 permits, consumerVars>>

\* insert_block_index_entry
InsertEntry(p) ==
  /\ ppc[p] = "index" /\ Room(p) /\ ~ Taken(p)
  /\ headers' = [headers EXCEPT ![p][Len(headers[p])].tail = NewTail(p)]
  /\ entries' = [entries EXCEPT ![p][Header(p).index[NewTail(p)]].key = tailIndex[p]]
  /\ At(p, "block")
  /\ UNCHANGED <<tailIndex, tailBlock, sent, slots, emptied, pool, permits, consumerVars>>

\* requisition_block: from the initial pool, the free list or new memory.  Blocks are
\* alike, so which one is taken makes no difference.
Requisition == CHOOSE b \in pool : TRUE

\* Mutant of TakeBlock: the count of a block used before is not reset.
TakeBlockDirty(p) ==
  LET b == Requisition
  IN  /\ ppc[p] = "block" /\ pool # {}
      /\ pool' = pool \ {b}
      /\ entries' = [entries EXCEPT ![p][TailEntry(p)].block = b]
      /\ tailBlock' = [tailBlock EXCEPT ![p] = b]
      /\ At(p, "store")
      /\ UNCHANGED <<tailIndex, headers, sent, slots, emptied, permits, consumerVars>>

\* A block is taken and its count reset, and the entry points to it.
TakeBlock(p) ==
  LET b == Requisition
  IN  /\ ppc[p] = "block" /\ pool # {}
      /\ pool' = pool \ {b}
      /\ emptied' = [emptied EXCEPT ![b] = 0]
      /\ entries' = [entries EXCEPT ![p][TailEntry(p)].block = b]
      /\ tailBlock' = [tailBlock EXCEPT ![p] = b]
      /\ At(p, "store")
      /\ UNCHANGED <<tailIndex, headers, sent, slots, permits, consumerVars>>

\* There is no memory: rewind_block_index_tail, and enqueue returns false.
NoBlock(p) ==
  LET h == Header(p)
  IN  /\ ppc[p] = "block" /\ pool = {}
      /\ headers' = [headers EXCEPT ![p][Len(headers[p])].tail = (h.tail - 1) % IndexSize(h)]
      /\ entries' = [entries EXCEPT ![p][TailEntry(p)].block = None]
      /\ At(p, "idle")
      /\ UNCHANGED <<tailIndex, tailBlock, sent, slots, emptied, pool, permits, consumerVars>>

\* The message is constructed in its slot,
Store(p) ==
  /\ ppc[p] = "store"
  /\ slots' = [slots EXCEPT ![tailBlock[p]][tailIndex[p] % BlockSize] = <<p, sent[p]>>]
  /\ At(p, "publish")
  /\ UNCHANGED <<tailIndex, headers, tailBlock, sent, entries, emptied, pool, permits,
                 consumerVars>>

\* published,
Publish(p) ==
  /\ ppc[p] = "publish"
  /\ tailIndex' = [tailIndex EXCEPT ![p] = (@ + 1) % Wrap]
  /\ At(p, "signal")
  /\ UNCHANGED <<headers, tailBlock, sent, entries, slots, emptied, pool, permits,
                 consumerVars>>

\* and the semaphore signalled.
Signal(p) ==
  /\ ppc[p] = "signal"
  /\ permits' = permits + 1
  /\ At(p, "idle")
  /\ UNCHANGED <<tailIndex, headers, tailBlock, sent, entries, slots, emptied, pool,
                 consumerVars>>

-----------------------------------------------------------------------------
\* wait_dequeue_timed, by consumer c

Goto(c, l, m) ==
  /\ cpc' = [cpc EXCEPT ![c] = l]
  /\ my' = [my EXCEPT ![c] = IF l = "idle" THEN NoLocals ELSE m]

\* The semaphore lets it in; a timeout would change nothing.
Acquire(c) ==
  /\ cpc[c] = "idle" /\ permits > 0
  /\ permits' = permits - 1
  /\ Goto(c, "scan", my[c])
  /\ UNCHANGED <<producerVars, headIndex, optimistic, overcommit, entries, slots,
                 emptied, pool>>

\* try_dequeue: a producer that is not empty is tried first, then the others;
\* which of several is the fullest depends on when their sizes were read.
Scan(c) ==
  /\ cpc[c] = "scan"
  /\ \E p \in Producer :
       /\ Less(headIndex[p], tailIndex[p])
       /\ Goto(c, "load", [my[c] EXCEPT !.producer = p, !.left = Producer \ {p}])
  /\ UNCHANGED <<producerVars, headIndex, optimistic, overcommit, entries, slots,
                 emptied, pool, permits>>

\* This producer gave nothing: the next one; after the last, try_dequeue is
\* called again.
Empty(c) ==
  /\ cpc[c] = "empty"
  /\ IF my[c].left = {} THEN Goto(c, "scan", NoLocals)
     ELSE \E p \in my[c].left :
            Goto(c, "load", [NoLocals EXCEPT !.producer = p, !.left = my[c].left \ {p}])
  /\ UNCHANGED <<producerVars, headIndex, optimistic, overcommit, entries, slots,
                 emptied, pool, permits>>

\* dequeue reads the tail,
LoadTail(c) ==
  /\ cpc[c] = "load"
  /\ Goto(c, "over", [my[c] EXCEPT !.tail = tailIndex[my[c].producer]])
  /\ UNCHANGED <<producerVars, headIndex, optimistic, overcommit, entries, slots,
                 emptied, pool, permits>>

\* the overcommit,
LoadOver(c) ==
  /\ cpc[c] = "over"
  /\ Goto(c, "check", [my[c] EXCEPT !.over = overcommit[my[c].producer]])
  /\ UNCHANGED <<producerVars, headIndex, optimistic, overcommit, entries, slots,
                 emptied, pool, permits>>

\* then the optimistic count.
Check(c) ==
  LET p == my[c].producer
  IN  /\ cpc[c] = "check"
      /\ Goto(c, IF Less((optimistic[p] - my[c].over) % Wrap, my[c].tail)
                 THEN "claim" ELSE "empty", my[c])
      /\ UNCHANGED <<producerVars, headIndex, optimistic, overcommit, entries, slots,
                     emptied, pool, permits>>

\* It counts itself in,
Claim(c) ==
  LET p == my[c].producer
  IN  /\ cpc[c] = "claim"
      /\ optimistic' = [optimistic EXCEPT ![p] = (@ + 1) % Wrap]
      /\ Goto(c, "confirm", [my[c] EXCEPT !.count = optimistic[p]])
      /\ UNCHANGED <<producerVars, headIndex, overcommit, entries, slots, emptied, pool,
                     permits>>

\* Mutant of Confirm: the count is not checked again after it was taken.
ConfirmAll(c) ==
  /\ cpc[c] = "confirm"
  /\ Goto(c, "take", my[c])
  /\ UNCHANGED <<producerVars, headIndex, optimistic, overcommit, entries, slots,
                 emptied, pool, permits>>

\* and looks again whether there is a message for its count.
Confirm(c) ==
  LET p == my[c].producer
  IN  /\ cpc[c] = "confirm"
      /\ Goto(c, IF Less((my[c].count - my[c].over) % Wrap, tailIndex[p])
                 THEN "take" ELSE "give", my[c])
      /\ UNCHANGED <<producerVars, headIndex, optimistic, overcommit, entries, slots,
                     emptied, pool, permits>>

\* Mutant of Give: the claim that found nothing is not made up for.
GiveNothing(c) ==
  /\ cpc[c] = "give"
  /\ Goto(c, "empty", my[c])
  /\ UNCHANGED <<producerVars, headIndex, optimistic, overcommit, entries, slots,
                 emptied, pool, permits>>

\* If not, the count is one too many.
Give(c) ==
  LET p == my[c].producer
  IN  /\ cpc[c] = "give"
      /\ overcommit' = [overcommit EXCEPT ![p] = (@ + 1) % Wrap]
      /\ Goto(c, "empty", my[c])
      /\ UNCHANGED <<producerVars, headIndex, optimistic, entries, slots, emptied, pool,
                     permits>>

\* If so, the next index is its own,
Take(c) ==
  LET p == my[c].producer
  IN  /\ cpc[c] = "take"
      /\ headIndex' = [headIndex EXCEPT ![p] = (@ + 1) % Wrap]
      /\ Goto(c, "header", [my[c] EXCEPT !.index = headIndex[p]])
      /\ UNCHANGED <<producerVars, optimistic, overcommit, entries, slots, emptied, pool,
                     permits>>

\* and it looks for the block: the header, its tail,
FindHeader(c) ==
  /\ cpc[c] = "header"
  /\ Goto(c, "tail", [my[c] EXCEPT !.header = Len(headers[my[c].producer])])
  /\ UNCHANGED <<producerVars, headIndex, optimistic, overcommit, entries, slots, emptied,
                 pool, permits>>

FindTail(c) ==
  /\ cpc[c] = "tail"
  /\ Goto(c, "key", [my[c] EXCEPT !.pos = headers[my[c].producer][my[c].header].tail])
  /\ UNCHANGED <<producerVars, headIndex, optimistic, overcommit, entries, slots, emptied,
                 pool, permits>>

\* Blocks from one index to another, negative if it lies behind.
Offset(from, to) ==
  LET d == (to - from) % Wrap
  IN  IF d > Wrap \div 2 THEN -((Wrap - d) \div BlockSize) ELSE d \div BlockSize

\* the first index of the tail's block, and from it the entry for its own.
FindEntry(c) ==
  LET p == my[c].producer
      h == headers[p][my[c].header]
      o == Offset(entries[p][h.index[my[c].pos]].key, Base(my[c].index))
  IN  /\ cpc[c] = "key"
      /\ Goto(c, "move", [my[c] EXCEPT !.entry = h.index[(my[c].pos + o) % IndexSize(h)]])
      /\ UNCHANGED <<producerVars, headIndex, optimistic, overcommit, entries, slots,
                     emptied, pool, permits>>

BlockOf(c) == entries[my[c].producer][my[c].entry].block

\* The message is moved out and its slot destroyed;
Move(c) ==
  LET i == my[c].index % BlockSize
  IN  /\ cpc[c] = "move"
      /\ slots' = [slots EXCEPT ![BlockOf(c)][i] = None]
      /\ Goto(c, "empty slot", [my[c] EXCEPT !.block = BlockOf(c), !.got = slots[BlockOf(c)][i]])
      /\ UNCHANGED <<producerVars, headIndex, optimistic, overcommit, entries, emptied,
                     pool, permits>>

\* set_empty: whoever empties the last slot gives the block back.
SetEmpty(c) ==
  LET b == my[c].block
  IN  /\ cpc[c] = "empty slot"
      /\ emptied' = [emptied EXCEPT ![b] = @ + 1]
      /\ Goto(c, IF emptied[b] = BlockSize - 1 THEN "unlink" ELSE "idle", my[c])
      /\ UNCHANGED <<producerVars, headIndex, optimistic, overcommit, entries, slots,
                     pool, permits>>

\* Its entry is cleared first,
Unlink(c) ==
  /\ cpc[c] = "unlink"
  /\ entries' = [entries EXCEPT ![my[c].producer][my[c].entry].block = None]
  /\ Goto(c, "release", my[c])
  /\ UNCHANGED <<producerVars, headIndex, optimistic, overcommit, slots, emptied, pool,
                 permits>>

\* then it goes to the free list.
Release(c) ==
  /\ cpc[c] = "release"
  /\ pool' = pool \cup {my[c].block}
  /\ Goto(c, "idle", my[c])
  /\ UNCHANGED <<producerVars, headIndex, optimistic, overcommit, entries, slots, emptied,
                 permits>>

\* Everything sent has been taken.
Quiet ==
  /\ \A p \in Producer : ppc[p] = "idle"
  /\ \A c \in Consumer : cpc[c] = "idle"
  /\ permits = 0
  /\ UNCHANGED vars

ProducerStep(p) ==
  \/ GrowIndex(p) \/ NoIndex(p) \/ InsertEntry(p) \/ TakeBlock(p) \/ NoBlock(p)
  \/ Store(p) \/ Publish(p) \/ Signal(p)

ConsumerStep(c) ==
  \/ Scan(c) \/ Empty(c) \/ LoadTail(c) \/ LoadOver(c) \/ Check(c) \/ Claim(c)
  \/ Confirm(c) \/ Give(c) \/ Take(c) \/ FindHeader(c) \/ FindTail(c) \/ FindEntry(c)
  \/ Move(c) \/ SetEmpty(c) \/ Unlink(c) \/ Release(c)

Next ==
  \/ \E p \in Producer : Enqueue(p) \/ ProducerStep(p)
  \/ \E c \in Consumer : Acquire(c) \/ ConsumerStep(c)
  \/ Quiet

Spec == Init /\ [][Next]_vars

\* A thread inside an operation goes on.
FairSpec ==
  /\ Spec
  /\ \A p \in Producer : WF_vars(ProducerStep(p))
  /\ \A c \in Consumer : WF_vars(ConsumerStep(c))

-----------------------------------------------------------------------------
\* Properties

\* Counters, blocks and locals keep their types.
TypeOK ==
  /\ {tailIndex, headIndex, optimistic, overcommit} \subseteq [Producer -> 0 .. Wrap - 1]
  /\ tailBlock \in [Producer -> Block \cup {None}]
  /\ slots \in [Block -> [0 .. BlockSize - 1 -> (Producer \X (1 .. MaxSent)) \cup {None}]]
  /\ emptied \in [Block -> 0 .. BlockSize]
  /\ pool \subseteq Block
  /\ permits \in Nat
  /\ sent \in [Producer -> 0 .. MaxSent]

\* The assert of get_block_index_index_for_index: the entry a consumer arrives
\* at is the one of its index and still has its block, though the index may have
\* grown, wrapped or been rewound since the consumer read its header or its tail.
EntryRight ==
  \A c \in Consumer : cpc[c] \in {"move", "empty slot", "unlink"} =>
    entries[my[c].producer][my[c].entry].key = Base(my[c].index) /\ BlockOf(c) # None

\* The message at an index of p, in the block that some entry has for it.
Message(p, i) ==
  LET E == {e \in {entries[p][n] : n \in DOMAIN entries[p]} :
              e.key = Base(i % Wrap) /\ e.block # None}
  IN  IF E = {} THEN None ELSE slots[(CHOOSE e \in E : TRUE).block][i % BlockSize]

\* The queue is a ProducerFifo: what a thread enqueues is taken in its order, each
\* message once, whatever blocks are reused, indices wrap, enqueues fail for want
\* of memory and consumers claim ahead of what is there.
Fifo == INSTANCE ProducerFifo WITH
          open <- [p \in Producer |-> ppc[p] \notin {"idle", "signal"}],
          fifo <- [p \in Producer |->
                     [i \in 1 .. (tailIndex[p] - headIndex[p]) % Wrap |->
                        Message(p, headIndex[p] + i - 1)]],
          hand <- [c \in Consumer |->
                     IF my[c].got # None THEN my[c].got
                     ELSE IF cpc[c] \in {"header", "tail", "key", "move"}
                     THEN Message(my[c].producer, my[c].index) ELSE None]
ImplementsFifo == Fifo!Spec

\* A consumer that the semaphore let in gets a message: the loop around
\* try_dequeue in wait_dequeue_timed ends.
SpinEnds == \A c \in Consumer : cpc[c] = "scan" ~> cpc[c] = "move"
=============================================================================
