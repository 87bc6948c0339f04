---------------------------- MODULE MCDocuments ----------------------------
(***************************************************************************)
(* What the engine does with documents: either two threads write them      *)
(* (Documents), or one caller goes through keys that another writes        *)
(* (Scans).                                                                *)
(***************************************************************************)
EXTENDS Documents, Scans

CONSTANTS t1, t2, d1, d2, Scopes

MCShardOf == [k \in Key |-> k]
MCKeyShard == <<2, 2, 2>>

VARIABLE scope

MCInit ==
  /\ Init /\ ScanInit /\ scope \in Scopes
  /\ scope = "documents" => map = [k \in ScanKey |-> "live"]

Writing(A) == scope = "documents" /\ A /\ UNCHANGED <<scanVars, scope>>
Scanning(A) == scope = "scans" /\ A /\ UNCHANGED <<vars, scope>>
MCNext == Writing(Next) \/ Scanning(ScanNext)

all == <<vars, scanVars, scope>>
MCSpec ==
  /\ MCInit /\ [][MCNext]_all
  /\ \A t \in Thread : WF_all(Writing(Step(t))) /\ SF_all(Writing(AddSample(t)))
  /\ WF_all(Scanning(AskPage))
  /\ \A s \in {1, 2} : WF_all(Scanning(Run(s)))

\* The variables of both keep their types.
BothTypeOK == TypeOK /\ ScanTypeOK

\* Every write gets the mutex of ZstdManager and its shard's lock and returns, and
\* every scan ends.
CallsEnd == WriteEnds /\ ScanEnds
=============================================================================
