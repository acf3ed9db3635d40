----------------------------- MODULE MCHandlers -----------------------------
(* Instances of Handlers for TLC. *)
EXTENDS Handlers, TLC

Symmetry ==
  UNION {Permutations(S) : S \in {Requests, Users, Codes, Names}}
=============================================================================
