------------------------------ MODULE Database ------------------------------
(***************************************************************************)
(* The two databases the server opens. Both check unique keys; only        *)
(* Postgres checks the REFERENCES clauses of the schema, for the SQLite    *)
(* connection is opened without the pragma that turns them on.             *)
(***************************************************************************)
CONSTANTS
  Requests,  \* HTTP requests; each is one call of one handler
  Users      \* who they come from

VARIABLE enforced  \* the database checks references

DatabaseTypeOK == enforced \in BOOLEAN
DatabaseInit == enforced \in BOOLEAN
=============================================================================
