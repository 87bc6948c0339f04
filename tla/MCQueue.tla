------------------------------ MODULE MCQueue ------------------------------
(***************************************************************************)
(* Model checking the queue of a shard in one of four scopes, chosen at    *)
(* the start: one producer and two consumers, two producers and the one    *)
(* consumer a shard has, one of each near the end of the index range, and  *)
(* the table of producers.                                                 *)
(***************************************************************************)
EXTENDS ConcurrentQueue, TLC

CONSTANTS p1, p2, c1, c2, b1, b2, b3, t1, t2, HashCapacity, MaxExits

VARIABLES scope, tables, count, resizing, inactive, hpc, hmy, exits

H == INSTANCE ProducerHash WITH
       Enqueuer <- {t1, t2}, Hash <- [t \in {t1, t2} |-> 1], Capacity <- HashCapacity

hVars == <<tables, count, resizing, inactive, hpc, hmy, exits>>
mcVars == <<vars, hVars, scope>>

\* The consumers at work, and how many messages each producer may send.
Sharers == [consumers |-> {c1, c2}, messages |-> (p1 :> 2 @@ p2 :> 1)]
Shard == [consumers |-> {c1}, messages |-> (p1 :> 3 @@ p2 :> 1)]
Wrapping == [consumers |-> {c1}, messages |-> (p1 :> 7 @@ p2 :> 0)]
Table == [consumers |-> {}, messages |-> (p1 :> 0 @@ p2 :> 0)]

\* The queue after k messages, a multiple of BlockSize, each taken before the next.
InitAfter(k) ==
  LET at == (k \div BlockSize - 1) % Entries
      b == CHOOSE x \in Block : TRUE
      used(i) == k - BlockSize * (((at - i) % Entries) + 1)
  IN  /\ tailIndex = [p \in Producer |-> k] /\ headIndex = tailIndex
      /\ optimistic = tailIndex /\ overcommit = [p \in Producer |-> 0]
      /\ entries = [p \in Producer |->
                      [i \in 1 .. Entries |-> [key |-> used(i - 1), block |-> None]]]
      /\ headers = [p \in Producer |->
                      << [index |-> [i \in 0 .. Entries - 1 |-> i + 1], tail |-> at] >>]
      /\ tailBlock = [p \in Producer |-> b]
      /\ slots = [x \in Block |-> [i \in 0 .. BlockSize - 1 |-> None]]
      /\ emptied = [x \in Block |-> IF x = b THEN BlockSize ELSE 0]
      /\ pool = Block
      /\ permits = 0
      /\ sent = [p \in Producer |-> 0]
      /\ ppc = [p \in Producer |-> "idle"]
      /\ cpc = [c \in Consumer |-> "idle"]
      /\ my = [c \in Consumer |-> NoLocals]

MCInit ==
  /\ \/ Init /\ scope \in {Sharers, Shard, Table}
     \/ InitAfter(Wrap - 2 * BlockSize) /\ scope = Wrapping
  /\ H!HashInit

InScope ==
  /\ \A p \in Producer : sent'[p] <= scope.messages[p]
  /\ \A c \in Consumer \ scope.consumers : cpc'[c] = "idle"

MCNext ==
  \/ scope # Table /\ Next /\ InScope /\ UNCHANGED <<hVars, scope>>
  \/ scope = Table /\ H!HashNext /\ UNCHANGED <<vars, scope>>

MCSpec ==
  /\ MCInit /\ [][MCNext]_mcVars
  /\ \A p \in Producer : WF_vars(ProducerStep(p))
  /\ \A c \in Consumer : WF_vars(ConsumerStep(c))
  /\ H!HashFairness

\* ProducerHash: a thread gets its producer or an allocation failure.
Obtains == H!Obtains
=============================================================================
