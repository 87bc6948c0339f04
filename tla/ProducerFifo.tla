---------------------------- MODULE ProducerFifo ----------------------------
(***************************************************************************)
(* What the shards need of their message queues: what one thread enqueues  *)
(* is taken in its order and once; nothing is said of the order between    *)
(* threads.  An enqueue may fail and drop its message.                     *)
(***************************************************************************)
EXTENDS Integers, Sequences

CONSTANTS Producer, Consumer, None

VARIABLES
  sent,   \* per producer: its enqueues, which number its messages
  open,   \* per producer: its enqueue is neither done nor failed
  fifo,   \* per producer: the messages enqueued and not taken
  hand    \* per consumer: the message it takes away, or None

vars == <<sent, open, fifo, hand>>

Init ==
  /\ sent = [p \in Producer |-> 0]
  /\ open = [p \in Producer |-> FALSE]
  /\ fifo = [p \in Producer |-> <<>>]
  /\ hand = [c \in Consumer |-> None]

Begin(p) ==
  /\ ~ open[p]
  /\ sent' = [sent EXCEPT ![p] = @ + 1]
  /\ open' = [open EXCEPT ![p] = TRUE]
  /\ UNCHANGED <<fifo, hand>>

Put(p) ==
  /\ open[p]
  /\ fifo' = [fifo EXCEPT ![p] = Append(@, <<p, sent[p]>>)]
  /\ open' = [open EXCEPT ![p] = FALSE]
  /\ UNCHANGED <<sent, hand>>

Drop(p) ==
  /\ open[p]
  /\ open' = [open EXCEPT ![p] = FALSE]
  /\ UNCHANGED <<sent, fifo, hand>>

Take(c, p) ==
  /\ hand[c] = None /\ fifo[p] # <<>>
  /\ hand' = [hand EXCEPT ![c] = Head(fifo[p])]
  /\ fifo' = [fifo EXCEPT ![p] = Tail(@)]
  /\ UNCHANGED <<sent, open>>

Return(c) ==
  /\ hand[c] # None
  /\ hand' = [hand EXCEPT ![c] = None]
  /\ UNCHANGED <<sent, open, fifo>>

Next ==
  \/ \E p \in Producer : Begin(p) \/ Put(p) \/ Drop(p)
  \/ \E c \in Consumer : Return(c) \/ \E p \in Producer : Take(c, p)

Spec == Init /\ [][Next]_vars
=============================================================================
