CONSTANTS
  Node = {0, 1}
  Key = {"k1"}
  Val = {"v1"}
  ValBucket <- MCFirst
  MetaBucket <- MCMeta
  Depth = 2
  Fan = 2
  Lanes = {"Control"}
  Ops = {"put"}
  MaxStamp = 2
  MaxWrites = 1
  MaxLosses = 0
  MaxInFlight = 1
SPECIFICATION FairSpec
PROPERTY Converges
