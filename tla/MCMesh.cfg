CONSTANTS
  a = a
  b = b
  Node = {a, b}
  Peers <- MCPeers
  MaxSends <- MCMaxSends
  MaxCrashes = 1
SPECIFICATION FairSpec
INVARIANTS InOrder NoStall SomeoneReached
PROPERTIES Accepts
