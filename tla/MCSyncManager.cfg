CONSTANTS
  Node = {0, 1}
  Key = {"k1"}
  Val = {"v1", "v2"}
  ValBucket <- MCFirst
  MetaBucket <- MCMeta
  Depth = 2
  Fan = 2
  Lanes = {"Control", "Heavy"}
  Ops = {"put", "del", "patch"}
  MaxStamp = 3
  MaxWrites = 2
  MaxLosses = 1
  MaxInFlight = 1
SPECIFICATION FairSpec
INVARIANTS
  NotOlderThanStamp
  LatestKept
PROPERTIES
  SyncAdvances
  CleanConverge
