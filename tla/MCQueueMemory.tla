--------------------------- MODULE MCQueueMemory ---------------------------
(***************************************************************************)
(* Model checking what a shard's queue takes from and gives back to others *)
(* of its threads: the free list of blocks, or the table of producers,     *)
(* chosen at the start.  The threads of the free list are alike, and so    *)
(* are two threads of the table with the same hash.                        *)
(***************************************************************************)
EXTENDS FreeList, ProducerHash, TLC

CONSTANTS t1, t2, t3, n1, n2, u1, u2, u3

MCHash == u1 :> 1 @@ u2 :> 1 @@ u3 :> 2

VARIABLE scope

MCInit == Init /\ HashInit /\ scope \in {"blocks", "producers"}

MCNext ==
  \/ scope = "blocks" /\ Next /\ UNCHANGED <<hashVars, scope>>
  \/ scope = "producers" /\ HashNext /\ UNCHANGED <<vars, scope>>

MCSpec == MCInit /\ [][MCNext]_<<vars, hashVars, scope>>

Symmetry == Permutations(Thread) \cup Permutations({u1, u2})

\* The variables of both keep their types.
BothTypeOK == TypeOK /\ HashTypeOK
=============================================================================
