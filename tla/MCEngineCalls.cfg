CONSTANTS
  c1 = c1
  c2 = c2
  a1 = a1
  a2 = a2
  k1 = k1
  k2 = k2
  Client = {c1, c2}
  Applier = {a1}
  Key = {k1, k2}
  Shard = {0, 1}
  KeyShard <- MCSpread
  MetaShard <- MCMetaSpread
  EmptyShard = 1
  Ops = {"put", "del", "batch"}
  MaxStamp = 4
  MaxCrashes = 0
SPECIFICATION FairSpec
ACTION_CONSTRAINT Apart
INVARIANT LastMutationWins
PROPERTY Served
