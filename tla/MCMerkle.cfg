CONSTANTS
  Node <- MCNode
  Depth = 3
  Level <- MCLevel
  Parent <- MCParent
  Zero <- MCZero
  Hash <- MCHash
  Bucket <- MCBucket
  Delta = {1, 2}
  MaxDeltas = 4
SPECIFICATION TreeSpec
INVARIANTS
  RootCovers
  StaleIsDirty
