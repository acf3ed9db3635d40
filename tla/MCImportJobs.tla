---------------------------- MODULE MCImportJobs ----------------------------
(* Instances of ImportJobs for TLC. *)
EXTENDS ImportJobs, TLC

TwoAndOne == [phase \in {"issues", "pulls"} |-> IF phase = "issues" THEN 2 ELSE 1]
=============================================================================
