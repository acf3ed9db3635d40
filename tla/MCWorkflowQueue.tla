-------------------------- MODULE MCWorkflowQueue ---------------------------
(* Instances of WorkflowQueue for TLC. *)
EXTENDS WorkflowQueue, TLC

CONSTANTS build, deploy, big

\* deploy needs build; act would run build, deploy goes to a runner.
Chain == [j \in Jobs |-> IF j = deploy THEN {build} ELSE {}]
AllServeDeploy == [r \in Runners |-> {deploy}]
SomeRequests == {<<"dispatch", deploy, 1>>, <<"dispatch", build, 1>>, <<"cancel", build, 1>>}
Sym == Permutations(Workers)
=============================================================================
