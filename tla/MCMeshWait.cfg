CONSTANTS
  a = a
  b = b
  Node = {a, b}
  Peers <- MCPeers
  MaxSends <- MCMaxSends
  MaxCrashes = 0
SPECIFICATION FairSpec
PROPERTY ReachedKnows
