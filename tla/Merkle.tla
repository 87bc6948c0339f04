------------------------------- MODULE Merkle -------------------------------
(***************************************************************************)
(* The lazily rehashed Merkle tree (src/engine/merkle.hpp).  Writers XOR   *)
(* deltas into leaves and flag the node above; get_root_hash rehashes what *)
(* is flagged, one level after the other, while writers go on.             *)
(*                                                                         *)
(* The code's tree has levels 0 (root) to 4 (leaves) and fans out by 16;   *)
(* the tree here is any with leaves at level Depth.  A lock shard of the   *)
(* code is the subtree of a node of level Depth - 2, so an action of one   *)
(* shard is one critical section.  The order in which a phase visits its   *)
(* nodes is left open.                                                     *)
(***************************************************************************)
EXTENDS Integers, FiniteSets

CONSTANTS
  Node, Depth, Level, Parent,  \* the tree
  Zero,                        \* the hashes of the empty tree
  Hash(_),                     \* of the children's hashes
  Bucket,                      \* the leaves that writers touch
  Delta,                       \* XOR deltas that are independent of each other
  MaxDeltas                    \* bound: number of deltas applied

Kids(n) == {m \in Node : Level[m] = Level[n] + 1 /\ Parent[m] = n}
AtLevel(l) == {n \in Node : Level[n] = l}
Inner == {n \in Node : Level[n] < Depth}

\* The hash of a node, computed from hashes t of its children.
HashOf(t, n) == Hash([m \in Kids(n) |-> t[m]])

\* Leaves are at level Depth, a node's parent is one level above it, and Zero is up to
\* date everywhere.
TreeShape ==
  /\ Depth \in Nat /\ Depth >= 2
  /\ Level \in [Node -> 0 .. Depth]
  /\ \A n \in Node : Level[n] > 0 => /\ Parent[n] \in Node
                                     /\ Level[Parent[n]] = Level[n] - 1
  /\ Bucket \subseteq AtLevel(Depth)
  /\ Zero = [n \in Node |-> Zero[n]]
  /\ \A n \in Inner : Zero[n] = HashOf(Zero, n)
  /\ MaxDeltas \in Nat

ASSUME MerkleAssumption == TreeShape

VARIABLES
  tree,     \* leaves_, l3_, l2_, l1_, l0_
  dirty,    \* the dirty flags, 1 when set
  lv,       \* level recompute_dirty is at, Depth when nobody is in it
  todo,     \* the lock shards or nodes of that phase still to be visited
  touched,  \* history: parents of leaves changed since get_root_hash began
  deltas    \* number of deltas applied

treeVars == <<tree, dirty, lv, todo, touched, deltas>>

\* The constructor: the steady state of the empty tree.
TreeInit ==
  /\ tree = Zero
  /\ dirty = [n \in Inner |-> 0]
  /\ lv = Depth /\ todo = {}
  /\ touched = {} /\ deltas = 0

\* apply_delta: one leaf and its parent's flag, under the shard's lock.  A leaf
\* holds the deltas applied an odd number of times.
apply_delta(b, d) ==
  /\ deltas < MaxDeltas
  /\ tree' = [tree EXCEPT ![b] = (@ \ {d}) \cup ({d} \ @)]
  /\ dirty' = [dirty EXCEPT ![Parent[b]] = 1]
  /\ touched' = touched \cup {Parent[b]}
  /\ deltas' = deltas + 1
  /\ UNCHANGED <<lv, todo>>

\* get_root_hash takes global_mx_ and enters recompute_dirty.
get_root_hash ==
  /\ lv = Depth
  /\ lv' = Depth - 1
  /\ todo' = AtLevel(Depth - 2)
  /\ touched' = {}
  /\ UNCHANGED <<tree, dirty, deltas>>

\* Mutant of Mark: the level above is not told.
MarkNone(n) == 0

\* The flag that rehashing something under n leaves on n.
Mark(n) == 1

\* Phase 1 for one shard, under its lock: the flagged nodes above its leaves.
RehashShard(s) ==
  LET stale == {n \in Kids(s) : dirty[n] = 1}
  IN  /\ lv = Depth - 1 /\ s \in todo
      /\ tree' = [n \in Node |-> IF n \in stale THEN HashOf(tree, n) ELSE tree[n]]
      /\ dirty' = [n \in Inner |-> IF n \in stale THEN 0
                                   ELSE IF n = s /\ stale # {} THEN Mark(n)
                                   ELSE dirty[n]]
      /\ todo' = todo \ {s}
      /\ UNCHANGED <<lv, touched, deltas>>

\* Phases 2 to 4 for one node.
RehashNode(n) ==
  /\ lv < Depth - 1 /\ n \in todo
  /\ IF dirty[n] = 1
     THEN /\ tree' = [tree EXCEPT ![n] = HashOf(tree, n)]
          /\ dirty' = [m \in Inner |-> IF m = n THEN 0
                                       ELSE IF lv > 0 /\ m = Parent[n] THEN Mark(m)
                                       ELSE dirty[m]]
     ELSE UNCHANGED <<tree, dirty>>
  /\ todo' = todo \ {n}
  /\ UNCHANGED <<lv, touched, deltas>>

\* Mutant of NextPhase: returns before the last level.
NextPhaseShort ==
  /\ lv < Depth /\ todo = {}
  /\ lv' = IF lv = 1 THEN Depth ELSE lv - 1
  /\ todo' = IF lv = 1 THEN {} ELSE AtLevel(lv - 1)
  /\ UNCHANGED <<tree, dirty, touched, deltas>>

\* The end of a phase; after the root, get_root_hash returns.
NextPhase ==
  /\ lv < Depth /\ todo = {}
  /\ lv' = IF lv = 0 THEN Depth ELSE lv - 1
  /\ todo' = IF lv = 0 THEN {} ELSE AtLevel(lv - 1)
  /\ UNCHANGED <<tree, dirty, touched, deltas>>

TreeNext ==
  \/ \E b \in Bucket, d \in Delta : apply_delta(b, d)
  \/ get_root_hash
  \/ \E n \in Node : RehashShard(n) \/ RehashNode(n)
  \/ NextPhase

TreeSpec == TreeInit /\ [][TreeNext]_treeVars

-----------------------------------------------------------------------------
\* Properties

\* The flags, the phase and the work left keep their types.
TreeTypeOK ==
  /\ tree = [n \in Node |-> tree[n]]
  /\ dirty \in [Inner -> {0, 1}]
  /\ lv \in 0 .. Depth
  /\ todo \subseteq Inner
  /\ touched \subseteq AtLevel(Depth - 1)
  /\ deltas \in 0 .. MaxDeltas

\* When get_root_hash has returned, the root is the hash of the whole tree over
\* every delta applied before the call: all nodes are up to date but for those
\* right above a leaf that a writer changed while or after it ran.
RootCovers ==
  lv = Depth =>
    \A n \in Inner : n \notin touched => tree[n] = HashOf(tree, n)

\* A node whose hash is out of date is flagged, at every moment: no delta is
\* ever forgotten by the laziness.
StaleIsDirty ==
  \A n \in Inner : dirty[n] = 0 => tree[n] = HashOf(tree, n)
=============================================================================
