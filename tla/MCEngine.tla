------------------------------ MODULE MCEngine ------------------------------
(* The engine with one or two keys and two shards.  Apart: the values are on *)
(* one shard and the metas on the other; Spread: the two keys are on         *)
(* different shards.                                                         *)
EXTENDS Engine, TLC

CONSTANTS c1, c2, a1, a2, k1, k2

MCApart == [k \in Key |-> 0]
MCMetaApart == [k \in Key |-> 1]
MCSpread == [k \in Key |-> IF k = k1 THEN 0 ELSE 1]
MCMetaSpread == [k \in Key |-> IF k = k1 THEN 1 ELSE 0]

Symmetry == Permutations({c1, c2})

\* Either clients call, for the key k1, or mutations are applied.
Apart ==
  /\ apc' # apc => clock = 0
  /\ clock' # clock /\ clock = 0 => wal = <<>> /\ \A a \in Applier : apc[a] = "idle"
  /\ \A c \in Client : \A i \in DOMAIN job'[c] : job'[c][i].cell[1] = k1
=============================================================================
