CONSTANTS
  c1 = c1
  c2 = c2
  a1 = a1
  a2 = a2
  k1 = k1
  k2 = k2
  Client = {c1}
  Applier = {}
  Key = {k1}
  Shard = {0, 1}
  KeyShard <- MCApart
  MetaShard <- MCMetaApart
  EmptyShard = 1
  Ops = {"batch"}
  MaxStamp = 2
  MaxCrashes = 0
SPECIFICATION Spec
INVARIANT MatchesLog
