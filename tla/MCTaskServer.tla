---------------------------- MODULE MCTaskServer ----------------------------
(* Instances of TaskServer for TLC. *)
EXTENDS TaskServer, TLC
=============================================================================
