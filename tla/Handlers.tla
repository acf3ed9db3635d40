------------------------------ MODULE Handlers ------------------------------
(***************************************************************************)
(* Requests of the API server over one database. The handlers of different *)
(* areas share no row, so that the requests of one behaviour are all of    *)
(* one area.                                                               *)
(***************************************************************************)
EXTENDS OAuthGrants, OrgMembers, Numbering, Repositories

VARIABLE area  \* the rows that the requests are about

vars == <<grantVars, orgVars, numberVars, repositoryVars, enforced, area>>

Areas == {"grants", "members", "numbers", "repositories"}

TypeOK ==
  /\ DatabaseTypeOK /\ GrantTypeOK /\ OrgTypeOK /\ NumberTypeOK /\ RepositoryTypeOK
  /\ area \in Areas

Init ==
  /\ DatabaseInit /\ GrantInit /\ OrgInit /\ NumberInit /\ RepositoryInit
  /\ area \in Areas
  /\ area # "members" => org = "absent"

Grants ==
  /\ area = "grants"
  /\ GrantNext \/ \E q \in Requests : GrantBegins(q)
  /\ UNCHANGED <<orgVars, numberVars, repositoryVars>>

Members ==
  /\ area = "members"
  /\ OrgNext \/ \E q \in Requests : OrgBegins(q)
  /\ UNCHANGED <<grantVars, numberVars, repositoryVars>>

NumbersOfRows ==
  /\ area = "numbers"
  /\ NumberNext \/ \E q \in Requests : NumberBegins(q)
  /\ UNCHANGED <<grantVars, orgVars, repositoryVars>>

RepositoriesOnDisk ==
  /\ area = "repositories"
  /\ RepositoryNext \/ \E q \in Requests : RepositoryBegins(q)
  /\ UNCHANGED <<grantVars, orgVars, numberVars>>

Next == (Grants \/ Members \/ NumbersOfRows \/ RepositoriesOnDisk) /\ UNCHANGED <<enforced, area>>

Spec == Init /\ [][Next]_vars
=============================================================================
