------------------------------- MODULE MCWAL -------------------------------
(* The log with a handful of records, enough for two restarts with a torn   *)
(* record before, between and after acknowledged ones.                      *)
EXTENDS WAL
=============================================================================
