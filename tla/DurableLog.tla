----------------------------- MODULE DurableLog -----------------------------
(***************************************************************************)
(* What the engine needs of its write-ahead log: records are read back in  *)
(* the order they were appended, an append that returns has added its      *)
(* record, a crash may drop a suffix, and nothing that a flush covered is  *)
(* ever dropped.                                                           *)
(***************************************************************************)
EXTENDS Integers, Sequences

CONSTANT Record

VARIABLES
  log,      \* the records a recovery would replay
  durable,  \* how many of them no crash can drop
  told      \* the records whose append has returned

vars == <<log, durable, told>>

Init == log = <<>> /\ durable = 0 /\ told = {}

\* An append that returns, or one whose caller dies first.
Add(r) ==
  /\ log' = Append(log, r)
  /\ told' \in {told, told \cup {r}}
  /\ UNCHANGED durable

Sync == durable' = Len(log) /\ UNCHANGED <<log, told>>

\* A crash keeps some prefix that covers what was synced.
Lose ==
  /\ \E k \in durable .. Len(log) : log' = SubSeq(log, 1, k)
  /\ UNCHANGED <<durable, told>>

Next == (\E r \in Record : Add(r)) \/ Sync \/ Lose

Spec == Init /\ [][Next]_vars
=============================================================================
