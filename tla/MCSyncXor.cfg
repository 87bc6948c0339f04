CONSTANTS
  Node = {0, 1}
  Key = {"k1", "k2"}
  Val = {"v1"}
  ValBucket <- MCFirst
  MetaBucket <- MCMeta
  Depth = 2
  Fan = 2
  Lanes = {"Control", "Heavy"}
  Ops = {"put"}
  MaxStamp = 4
  MaxWrites = 2
  MaxLosses = 0
  MaxInFlight = 1
SPECIFICATION FairSpec
PROPERTY Converges
