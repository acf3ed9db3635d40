------------------------------ MODULE MCCIRuns ------------------------------
(* Instances of CIRuns for TLC. *)
EXTENDS CIRuns, TLC

CONSTANTS r1, r2, acme

OneOrg == {acme}
BothInOneOrg == [r \in Runs |-> acme]
FreePlan == [o \in Orgs |-> "free"]

SymRequests == Permutations(Requests)
SymJobs == Permutations(Jobs)
SymAll == SymRequests \union SymJobs
=============================================================================
