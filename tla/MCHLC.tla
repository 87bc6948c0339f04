------------------------------- MODULE MCHLC -------------------------------
(* The clock with three threads, a logical counter of five values and batches *)
(* of two, small enough for overflow, refused reservations and fallbacks.   *)
EXTENDS HLC, TLC

CONSTANTS t1, t2, t3

MCNoIncoming == {}
MCIncoming == {[wall |-> 2, logical |-> 4], [wall |-> 2, logical |-> 1],
               [wall |-> 3, logical |-> 0]}
Symmetry == Permutations({t1, t2})
=============================================================================
