------------------------------- MODULE MCMesh -------------------------------
\* Model checking the mesh: two nodes that are each other's peers.
EXTENDS Mesh, TLC

CONSTANTS a, b

MCPeers == (a :> <<b>>) @@ (b :> <<a>>)
MCMaxSends == (a :> 2) @@ (b :> 0)
=============================================================================
