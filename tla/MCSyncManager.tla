--------------------------- MODULE MCSyncManager ---------------------------
(* Two nodes and a tree of two levels with four buckets.                     *)
EXTENDS SyncManager

MCFirst == [k \in Key |-> 0]
MCMeta == [k \in Key |-> 1]
=============================================================================
