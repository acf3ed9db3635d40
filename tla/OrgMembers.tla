----------------------------- MODULE OrgMembers -----------------------------
(***************************************************************************)
(* The members of one organization: CreateOrgUsecase, InviteMemberUsecase, *)
(* RemoveMemberUsecase and DeleteOrgUsecase read roles, decide, and write, *)
(* in separate statements. Only what was read keeps the last owner.        *)
(***************************************************************************)
EXTENDS Database, Integers, FiniteSets

CONSTANT
  PageSize  \* memberships that ListByOrg returns: 1000 in the code

ASSUME OrgMembersAssumption == IsFiniteSet(Users) /\ PageSize \in Nat

VARIABLES
  org,     \* the organization's row
  role,    \* the membership of a user: its role, or none
  change,  \* where a request is, what it was asked for and has read
  stale    \* history: an owner was removed or demoted on a reading that was out of date

orgVars == <<org, role, change, stale>>

Ops == {"create", "invite", "remove", "delete"}
NoChange == [at |-> "idle", op |-> "none", caller |-> "none", target |-> "none", new |-> "none",
             outdated |-> FALSE]

Ended == [NoChange EXCEPT !.at = "ended"]

OrgTypeOK ==
  /\ org \in {"absent", "exists", "deleted"}
  /\ role \in [Users -> {"none", "member", "owner"}]
  /\ change \in [Requests -> [at: {"idle", "caller", "target", "count", "add", "update", "remove",
                                  "delete", "first", "ended", "failed"},
                              op: Ops \union {"none"},
                              caller: Users \union {"none"}, target: Users \union {"none"},
                              new: {"none", "member", "owner"}, outdated: BOOLEAN]]
  /\ stale \in BOOLEAN

Owners == {u \in Users : role[u] = "owner"}

OrgInit ==
  /\ \/ org = "absent" /\ role = [u \in Users |-> "none"]
     \/ org = "exists" /\ role \in [Users -> {"none", "member", "owner"}] /\ Owners # {}
  /\ change = [q \in Requests |-> NoChange]
  /\ stale = FALSE

Moves(q, from, to) == change[q].at = from /\ change' = [change EXCEPT ![q].at = to]
Ends(q, from) == change[q].at = from /\ change' = [change EXCEPT ![q] = Ended]

\* A request ends with a write: what the others have read by then is out of date.
Writes(q, from) ==
  /\ change[q].at = from
  /\ change' = [p \in Requests |-> CASE p = q -> Ended
                                [] change[p].at \in {"idle", "caller", "ended", "failed"} -> change[p]
                                [] OTHER -> [change[p] EXCEPT !.outdated = TRUE]]

SetRole(q, new) ==
  /\ role' = [role EXCEPT ![change[q].target] = new]
  /\ stale' = (stale \/ (change[q].outdated /\ change[q].target \in Owners /\ new # "owner"))

-----------------------------------------------------------------------------
(* The four handlers. *)

Ask(q, op, caller, target, new) ==
  /\ change[q].at = "idle"
  /\ \/ org = "absent" /\ op = "create"
     \/ org = "exists" /\ op # "create"
  /\ (new # "none") = (op = "invite")
  /\ op \in {"create", "delete"} => target = caller
  /\ change' = [change EXCEPT ![q] =
       [at |-> IF op = "create" THEN "first" ELSE "caller", op |-> op, caller |-> caller,
        target |-> target, new |-> new, outdated |-> FALSE]]
  /\ org' = IF op = "create" THEN "exists" ELSE org
  /\ UNCHANGED <<role, stale>>

\* Creating inserts the organization first and its owner second.
AddFirstOwner(q) ==
  /\ Writes(q, "first")
  /\ SetRole(q, "owner")
  /\ UNCHANGED org

CheckCaller(q) ==
  /\ \/ /\ Moves(q, "caller", IF change[q].op = "delete" THEN "delete" ELSE "target")
        /\ role[change[q].caller] = "owner"
     \/ Ends(q, "caller") /\ role[change[q].caller] # "owner"
  /\ UNCHANGED <<org, role, stale>>

Goal(q) == IF change[q].op = "invite" THEN "add" ELSE "remove"

\* Nobody to remove ends a removal; an owner who would not stay one is counted with the others.
ReadTarget(q) ==
  LET was == role[change[q].target]
      counted == was = "owner" /\ change[q].new # "owner"
      nobody == was = "none" /\ change[q].op = "remove"
  IN  /\ \/ Moves(q, "target", "count") /\ counted
         \/ Ends(q, "target") /\ nobody
         \/ Moves(q, "target", Goal(q)) /\ ~counted /\ ~nobody
      /\ UNCHANGED <<org, role, stale>>

\* Owners sort after members: only those the page has room for are counted.
OwnersListed ==
  LET members == Cardinality({u \in Users : role[u] = "member"})
      room == IF members < PageSize THEN PageSize - members ELSE 0
  IN  IF Cardinality(Owners) < room THEN Cardinality(Owners) ELSE room

\* Mutant of EnsureNotLastOwner: the last owner is not refused.
EnsureNotLastOwnerOffByOne(q) ==
  /\ \/ OwnersListed > 0 /\ Moves(q, "count", Goal(q))
     \/ OwnersListed <= 0 /\ Ends(q, "count")
  /\ UNCHANGED <<org, role, stale>>

EnsureNotLastOwner(q) ==
  /\ \/ OwnersListed > 1 /\ Moves(q, "count", Goal(q))
     \/ OwnersListed <= 1 /\ Ends(q, "count")
  /\ UNCHANGED <<org, role, stale>>

\* The primary key turns the insertion for a member into an update.
AddMember(q) ==
  /\ \/ Writes(q, "add") /\ role[change[q].target] = "none" /\ SetRole(q, change[q].new)
     \/ Moves(q, "add", "update") /\ role[change[q].target] # "none" /\ UNCHANGED <<role, stale>>
  /\ UNCHANGED org

\* An update of no row is not an error.
UpdateRole(q) ==
  /\ Writes(q, "update")
  /\ IF role[change[q].target] = "none" THEN UNCHANGED <<role, stale>> ELSE SetRole(q, change[q].new)
  /\ UNCHANGED org

RemoveMember(q) ==
  /\ Writes(q, "remove")
  /\ SetRole(q, "none")
  /\ UNCHANGED org

\* Checked references refuse it as long as anybody is a member; else the memberships stay.
DeleteOrg(q) ==
  /\ Writes(q, "delete")
  /\ org' = IF enforced /\ \E u \in Users : role[u] # "none" THEN org ELSE "deleted"
  /\ UNCHANGED <<role, stale>>

\* A statement or the audit log fails, the client goes away, or the server stops.
AbandonChange(q) ==
  /\ \/ Moves(q, "first", "failed")
     \/ \E at \in {"caller", "target", "count", "add", "update", "remove", "delete"} : Ends(q, at)
  /\ UNCHANGED <<org, role, stale>>

\* Mutant of OrgBegins: any role is accepted.
OrgBeginsUnchecked(q) ==
  \E op \in Ops, caller, target \in Users, new \in {"none", "member", "admin", "owner"} :
    Ask(q, op, caller, target, new)

\* Any role but these two is refused.
OrgBegins(q) ==
  \E op \in Ops, caller, target \in Users, new \in {"none", "member", "owner"} :
    Ask(q, op, caller, target, new)

OrgStep(q) ==
  \/ AddFirstOwner(q) \/ CheckCaller(q) \/ ReadTarget(q) \/ EnsureNotLastOwner(q)
  \/ AddMember(q) \/ UpdateRole(q) \/ RemoveMember(q) \/ DeleteOrg(q)
  \/ AbandonChange(q)

OrgNext == \E q \in Requests : OrgStep(q)

-----------------------------------------------------------------------------
(* Properties. *)

\* An organization has an owner, unless its creation stopped halfway or is still under
\* way, or one request removed or demoted an owner after another had changed the members
\* it counted (RemoveMemberUsecase and InviteMemberUsecase, ErrLastOwner).
OwnerRemains ==
  org = "exists" =>
    \/ Owners # {}
    \/ stale
    \/ \E q \in Requests : change[q].at \in {"first", "failed"}
=============================================================================
