------------------------------ MODULE MCMerkle ------------------------------
(* A binary tree of depth 3 with two lock shards: two of the three buckets   *)
(* written to share a parent, the third lies in the other shard.             *)
EXTENDS Merkle

MCNode == {n \in (0 .. 3) \X (0 .. 7) : n[2] < 2 ^ n[1]}
MCLevel == [n \in MCNode |-> n[1]]
MCParent == [n \in MCNode |-> <<n[1] - 1, n[2] \div 2>>]
MCBucket == {<<3, 0>>, <<3, 1>>, <<3, 5>>}
MCHash(children) == children

RECURSIVE Steady(_)
Steady(n) == IF n[1] = 3 THEN {} ELSE MCHash([m \in Kids(n) |-> Steady(m)])
MCZero == [n \in MCNode |-> Steady(n)]
=============================================================================
