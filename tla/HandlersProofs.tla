--------------------------- MODULE HandlersProofs ---------------------------
(* Proofs about Handlers, for any requests, users, codes and names, any    *)
(* size of the page and of the pool.                                       *)
EXTENDS Handlers, FiniteSetTheorems, WellFoundedInduction, TLAPS

-----------------------------------------------------------------------------
(* The inductive invariants, one for each area. *)

\* Between the two steps of a revocation no token lives but those made meanwhile.
RevocationClears ==
  (\E p \in Requests : grant[p] = "unauthorize") =>
    \A q \in Requests : token[q] = "live" => q \in overlapped

GrantInv == GrantTypeOK /\ RevocationClears /\ GrantsAccounted

\* What a request was asked for fits its steps.
ChangeFits ==
  \A q \in Requests :
    /\ change[q].at \in {"caller", "target", "count"} => (change[q].new # "none") = (change[q].op = "invite")
    /\ change[q].at \in {"count", "remove", "add", "update", "target", "caller", "first"} =>
         change[q].target \in Users
    /\ change[q].at = "remove" => change[q].new = "none"

\* Whoever is about to write, on a reading that is still good, leaves an owner.
OwnerLeft(q) ==
  \/ role[change[q].target] # "owner"
  \/ change[q].new = "owner"
  \/ \E u \in Users : u # change[q].target /\ role[u] = "owner"

ReadingHolds ==
  \A q \in Requests :
    change[q].at \in {"add", "update", "remove"} /\ ~change[q].outdated => OwnerLeft(q)

OrgInv == OrgTypeOK /\ ChangeFits /\ ReadingHolds /\ OwnerRemains

Creation == {"look up", "insert", "init", "undo row", "undo directory", "created"}
Operation ==
  [at: Creation \union {"idle", "rename", "audit", "delete", "answered", "done", "failed"},
   owner: Users \union {"none"}, login: Logins \union {"none"}, name: Names \union {"none"},
   target: Requests \union {"none"}]

OperationsFit ==
  /\ op \in [Requests -> Operation]
  /\ \A q \in Requests :
       /\ op[q].at \in Creation \union {"answered"} => Path(q) \in Paths
       /\ op[q].at \in {"rename", "audit", "delete"} => op[q].target \in Requests

\* Nobody else is in the middle of making or removing a directory at the path of a creation that
\* shares it with no other; its row has the name it was made with, and its directory is there.
PathsKept ==
  \A q \in Requests \ excused :
    HasRow(q) =>
      /\ named[q] = op[q].name
      /\ op[q].at \in {"init", "created", "answered"} =>
           \A p \in Requests \ {q} :
             op[p].at \in {"init", "undo row", "undo directory"} => Path(p) # Path(q)
      /\ op[q].at \in {"created", "answered"} => disk[Path(q)] = q

RepositoryInv == RepositoryTypeOK /\ OperationsFit /\ PathsKept

\* Requests that have inserted a row, if they ever will.
Past == {q \in Requests : work[q].at \notin {"idle", "begin", "number", "insert"}}

Work ==
  [at: {"idle", "begin", "number", "insert", "audit", "commit", "delete", "answered", "failed", "gave up"},
   kind: Kinds \union {"none"}, number: Numbers \union {0}, target: Requests \union {"none"},
   tries: 0..MaxNumberRetries, seen: SUBSET Requests, overtaken: 0..Cardinality(Requests)]

\* A row is the one its creation inserted; numbers count the creations that are past.
RowsInserted ==
  \A q \in Requests :
    /\ work[q].at = "idle" => work[q] = Unstarted
    /\ made[q] # NoRow =>
         /\ work[q].at \in {"audit", "commit", "answered", "failed"}
         /\ made[q] = [kind |-> work[q].kind, number |-> work[q].number]
    /\ made[q].number <= Cardinality(Past)
    /\ work[q].at = "insert" => work[q].number \in 1..(Cardinality(Past) + 1)
    /\ work[q].overtaken <= Cardinality(Past)
    /\ work[q].at \in {"begin", "commit"} => work[q].kind \in Unique
    /\ work[q].at \in {"number", "insert"} => work[q].kind \in Kinds
    /\ work[q].at = "delete" => work[q].kind = "none" /\ work[q].target \in Requests

\* A number is greater than those that were seen when it was chosen, and the rows that were
\* seen are past their insertion.
NumbersAbove ==
  \A q \in Requests : \A p \in work[q].seen :
    /\ p \in Past
    /\ made[p].kind = work[q].kind /\ made[p].kind \in Kinds => made[p].number < work[q].number

\* Each attempt that failed, or is going to, was overtaken by an insertion of its own.
AttemptsOvertaken ==
  \A q \in Requests :
    /\ work[q].tries <= work[q].overtaken
    /\ work[q].at \in {"idle", "begin", "number", "insert"} => work[q].tries < MaxNumberRetries
    /\ work[q].at = "insert" /\ ~(RowsOf(work[q].kind) \subseteq work[q].seen) =>
         work[q].tries + 1 <= work[q].overtaken
    /\ work[q].at = "gave up" => work[q].tries = MaxNumberRetries

ConnectionsHeld == held = Cardinality(InTransaction)

NumberInv ==
  /\ NumberTypeOK /\ work \in [Requests -> Work]
  /\ RowsInserted /\ NumbersAbove /\ AttemptsOvertaken /\ ConnectionsHeld

-----------------------------------------------------------------------------
(* Grants. *)

\* The invariant of the grants holds initially.
LEMMA GrantsInit == GrantInit => GrantInv
BY DEF GrantInit, GrantInv, GrantTypeOK, RevocationClears, GrantsAccounted

\* A request that begins keeps the invariant of the grants.
LEMMA GrantsBegin ==
  ASSUME GrantInv, UNCHANGED enforced, NEW q \in Requests, GrantBegins(q)
  PROVE  GrantInv'
<1> USE DEF GrantInv, Goes
<1>1. GrantTypeOK'
  BY DEF GrantBegins, StartRevocation, GetApp, GetDel, GrantTypeOK
<1>2. RevocationClears'
  BY DEF GrantBegins, StartRevocation, GetApp, GetDel, GrantTypeOK, RevocationClears
<1>3. GrantsAccounted'
  BY DEF GrantBegins, StartRevocation, GetApp, GetDel, GrantTypeOK, GrantsAccounted
<1>4. QED
  BY <1>1, <1>2, <1>3

\* A code that is issued or expires keeps the invariant of the grants.
LEMMA GrantsCode ==
  ASSUME GrantInv, UNCHANGED enforced, NEW c \in Codes, Authorize(c) \/ CodeExpires(c)
  PROVE  GrantInv'
BY DEF GrantInv, Authorize, CodeExpires, GrantTypeOK, RevocationClears, GrantsAccounted

\* A step of a request keeps the invariant of the grants.
LEMMA GrantsStep ==
  ASSUME GrantInv, UNCHANGED enforced, NEW q \in Requests, GrantStep(q)
  PROVE  GrantInv'
<1> USE DEF GrantInv, Goes
<1>1. CASE CheckClient(q)
  BY <1>1 DEF CheckClient, GrantTypeOK, RevocationClears, GrantsAccounted
<1>2. CASE IssueToken(q)
  <2>1. GrantTypeOK'
    BY <1>2 DEF IssueToken, GrantTypeOK
  <2>2. RevocationClears'
    BY <1>2 DEF IssueToken, GrantTypeOK, RevocationClears
  <2>3. GrantsAccounted'
    BY <1>2 DEF IssueToken, GrantTypeOK, GrantsAccounted
  <2>4. QED
    BY <2>1, <2>2, <2>3
<1>3. CASE UpsertAuthorization(q)
  BY <1>3 DEF UpsertAuthorization, GrantTypeOK, RevocationClears, GrantsAccounted
<1>4. CASE RevokeTokens(q)
  BY <1>4 DEF RevokeTokens, Revoked, GrantTypeOK, RevocationClears, GrantsAccounted
<1>5. CASE DeleteAuthorization(q)
  <2>1. \A p \in Requests : token[p] = "live" => p \in overlapped
    BY <1>5 DEF DeleteAuthorization, RevocationClears
  <2>2. QED
    BY <1>5, <2>1 DEF DeleteAuthorization, GrantTypeOK, RevocationClears, GrantsAccounted
<1>6. CASE DeleteApp(q)
  <2>1. UNCHANGED <<codes, unused, authorized, overlapped, enforced>> /\ grant' = [grant EXCEPT ![q] = "answered"]
    BY <1>6 DEF DeleteApp
  <2>2. CASE live /\ enforced /\ ~authorized
    <3>1. /\ token' = [p \in Requests |-> IF token[p] = "none" THEN "none" ELSE "deleted"]
          /\ live' = FALSE
      BY <1>6, <2>2 DEF DeleteApp, GrantTypeOK
    <3>2. QED
      BY <2>1, <3>1 DEF GrantTypeOK, RevocationClears, GrantsAccounted
  <2>3. CASE ~(live /\ enforced /\ ~authorized)
    <3>1. token' = token /\ live' \in BOOLEAN /\ (~enforced => ~live') /\ (~live => ~live')
      BY <1>6, <2>3 DEF DeleteApp, GrantTypeOK
    <3>2. GrantTypeOK' /\ RevocationClears'
      BY <2>1, <3>1 DEF GrantTypeOK, RevocationClears
    <3>3. GrantsAccounted'
      BY <1>6, <2>1, <3>1 DEF DeleteApp, GrantTypeOK, GrantsAccounted
    <3>4. QED
      BY <3>2, <3>3
  <2>4. QED
    BY <2>2, <2>3
<1>7. CASE AbandonGrant(q)
  BY <1>7 DEF AbandonGrant, GrantTypeOK, RevocationClears, GrantsAccounted
<1>8. QED
  BY <1>1, <1>2, <1>3, <1>4, <1>5, <1>6, <1>7 DEF GrantStep

\* Steps of other areas keep the invariant of the grants.
LEMMA GrantsKept == GrantInv /\ UNCHANGED <<grantVars, enforced>> => GrantInv'
BY DEF GrantInv, grantVars, GrantTypeOK, RevocationClears, GrantsAccounted

-----------------------------------------------------------------------------
(* Members. *)

ChangeAt == {"idle", "caller", "target", "count", "add", "update", "remove", "delete", "first",
             "ended", "failed"}
Change == [at: ChangeAt, op: Ops \union {"none"}, caller: Users \union {"none"},
           target: Users \union {"none"}, new: {"none", "member", "owner"}, outdated: BOOLEAN]

\* The constant states of a change are well typed.
LEMMA EndedChange == Ended \in Change /\ Ended.at = "ended" /\ NoChange \in Change /\ NoChange.at = "idle"
BY DEF Ended, NoChange, Change, ChangeAt

\* A request that moves on changes its place and nothing else.
LEMMA MovesChange ==
  ASSUME OrgTypeOK, NEW q \in Requests, NEW from, NEW to \in ChangeAt, Moves(q, from, to)
  PROVE  /\ change' \in [Requests -> Change] /\ change[q].at = from
         /\ change'[q].at = to /\ change'[q].op = change[q].op /\ change'[q].target = change[q].target
         /\ change'[q].new = change[q].new /\ change'[q].outdated = change[q].outdated
         /\ \A p \in Requests \ {q} : change'[p] = change[p]
<1> DEFINE new == [change[q] EXCEPT !.at = to]
<1>1. change \in [Requests -> Change]
  BY DEF OrgTypeOK, Change, ChangeAt
<1>2. /\ new \in Change /\ new.at = to /\ new.op = change[q].op /\ new.target = change[q].target
      /\ new.new = change[q].new /\ new.outdated = change[q].outdated
  BY <1>1 DEF Change
<1>3. change' = [change EXCEPT ![q] = new] /\ change[q].at = from
  BY <1>1 DEF Moves
<1> HIDE DEF new
<1>4. QED
  BY <1>1, <1>2, <1>3

\* A request that ends changes its own state and nothing else.
LEMMA EndsChange ==
  ASSUME OrgTypeOK, NEW q \in Requests, NEW from, Ends(q, from)
  PROVE  /\ change' \in [Requests -> Change] /\ change[q].at = from /\ change'[q].at = "ended"
         /\ \A p \in Requests \ {q} : change'[p] = change[p]
<1>1. change \in [Requests -> Change]
  BY DEF OrgTypeOK, Change, ChangeAt
<1>2. QED
  BY <1>1, EndedChange DEF Ends

\* A write ends its request and puts the readings of all others out of date.
LEMMA WritesChange ==
  ASSUME OrgTypeOK, NEW q \in Requests,
         NEW from \in {"first", "add", "update", "remove", "delete"}, Writes(q, from)
  PROVE  /\ change' \in [Requests -> Change] /\ change[q].at = from /\ change'[q].at = "ended"
         /\ \A p \in Requests \ {q} :
              /\ change'[p].at = change[p].at /\ change'[p].op = change[p].op
              /\ change'[p].target = change[p].target /\ change'[p].new = change[p].new
              /\ change[p].at \in {"idle", "caller", "ended", "failed"} \/ change'[p].outdated
<1>1. change \in [Requests -> Change]
  BY DEF OrgTypeOK, Change, ChangeAt
<1>2. change[q].at = from
  BY DEF Writes
<1>3. change' = [p \in Requests |-> CASE p = q -> Ended
                                [] change[p].at \in {"idle", "caller", "ended", "failed"} -> change[p]
                                [] OTHER -> [change[p] EXCEPT !.outdated = TRUE]]
  BY DEF Writes
<1>4. ASSUME NEW p \in Requests, p # q
      PROVE  /\ change'[p] \in Change
             /\ change'[p].at = change[p].at /\ change'[p].op = change[p].op
             /\ change'[p].target = change[p].target /\ change'[p].new = change[p].new
             /\ change[p].at \in {"idle", "caller", "ended", "failed"} \/ change'[p].outdated
  <2> DEFINE late == [change[p] EXCEPT !.outdated = TRUE]
  <2>1. /\ late \in Change /\ late.at = change[p].at /\ late.op = change[p].op
        /\ late.target = change[p].target /\ late.new = change[p].new /\ late.outdated
    BY <1>1 DEF Change
  <2>2. change'[p] \in {change[p], late} /\
        (change[p].at \in {"idle", "caller", "ended", "failed"} \/ change'[p] = late)
    <3>1. CASE change[p].at \in {"idle", "caller", "ended", "failed"}
      <4>1. change'[p] = change[p]
        <5>1. ~(p = q)
          BY <1>4
        <5>2. QED
          BY <1>3, <3>1, <5>1
      <4>2. QED
        BY <3>1, <4>1
    <3>2. CASE change[p].at \notin {"idle", "caller", "ended", "failed"}
      BY <1>3, <1>4, <3>2
    <3>3. QED
      BY <3>1, <3>2
  <2> HIDE DEF late
  <2>3. QED
    BY <1>1, <2>1, <2>2
<1>5. change'[q] = Ended
  BY <1>2, <1>3
<1>6. change' \in [Requests -> Change]
  <2>1. \A p \in Requests : change'[p] \in Change
    BY <1>4, <1>5, EndedChange
  <2> DEFINE new(p) == CASE p = q -> Ended
                         [] change[p].at \in {"idle", "caller", "ended", "failed"} -> change[p]
                         [] OTHER -> [change[p] EXCEPT !.outdated = TRUE]
  <2>2. change' = [p \in Requests |-> new(p)]
    BY <1>3
  <2> HIDE DEF new
  <2>3. QED
    BY <2>1, <2>2
<1>7. QED
  BY <1>2, <1>4, <1>5, <1>6, EndedChange

\* One more owner than one is an owner besides any user.
LEMMA TwoOwners ==
  ASSUME OrgTypeOK, OwnersListed > 1, NEW v
  PROVE  \E u \in Users : u # v /\ role[u] = "owner"
<1> SUFFICES ASSUME \A u \in Users : role[u] = "owner" => u = v PROVE FALSE
  OBVIOUS
<1>1. Owners \subseteq {v} /\ Owners \subseteq Users /\ {u \in Users : role[u] = "member"} \subseteq Users
  BY DEF Owners
<1>2. IsFiniteSet({v}) /\ Cardinality({v}) = 1
  BY FS_Singleton
<1>3. IsFiniteSet(Owners) /\ Cardinality(Owners) <= 1
  BY <1>1, <1>2, FS_Subset
<1>4. Cardinality(Owners) \in Nat
  BY <1>3, FS_CardinalityType
<1>5. IsFiniteSet({u \in Users : role[u] = "member"})
  BY <1>1, OrgMembersAssumption, FS_Subset
<1>6. Cardinality({u \in Users : role[u] = "member"}) \in Nat
  BY <1>5, FS_CardinalityType
<1> DEFINE n == Cardinality(Owners)
           m == Cardinality({u \in Users : role[u] = "member"})
           room == IF m < PageSize THEN PageSize - m ELSE 0
<1>7. room \in Nat
  BY <1>6, OrgMembersAssumption
<1>8. OwnersListed = IF n < room THEN n ELSE room
  BY DEF OwnersListed
<1> HIDE DEF n, room
<1>9. QED
  BY <1>3, <1>4, <1>7, <1>8 DEF n

\* The roles stay what they are, and so does what the other requests have read.
LEMMA MemberMoves ==
  ASSUME OrgInv, NEW q \in Requests, change' \in [Requests -> Change],
         \A p \in Requests \ {q} : change'[p] = change[p],
         UNCHANGED <<role, stale>>, org' = org \/ (org' = "exists" /\ change'[q].at = "first"),
         change[q].at \in {"first", "failed"} => change'[q].at \in {"first", "failed"},
         change'[q].at \in {"caller", "target", "count"} => (change'[q].new # "none") = (change'[q].op = "invite"),
         change'[q].at \in {"count", "remove", "add", "update", "target", "caller", "first"} =>
           change'[q].target \in Users,
         change'[q].at = "remove" => change'[q].new = "none",
         change'[q].at \in {"add", "update", "remove"} /\ ~change'[q].outdated =>
           \/ role[change'[q].target] # "owner"
           \/ change'[q].new = "owner"
           \/ \E u \in Users : u # change'[q].target /\ role[u] = "owner"
  PROVE  OrgInv'
<1>1. OrgTypeOK'
  BY DEF OrgInv, OrgTypeOK, Change, ChangeAt
<1>2. ChangeFits'
  BY DEF OrgInv, ChangeFits
<1>3. ReadingHolds'
  BY DEF OrgInv, ReadingHolds, OwnerLeft
<1>4. OwnerRemains'
  BY DEF OrgInv, OwnerRemains, Owners
<1>5. QED
  BY <1>1, <1>2, <1>3, <1>4 DEF OrgInv

\* Whoever writes a role leaves an owner, or notes that its reading was out of date.
LEMMA MemberWrites ==
  ASSUME OrgInv, NEW q \in Requests, NEW from \in {"first", "add", "update", "remove"}, Writes(q, from),
         NEW new \in {"none", "member", "owner"}, SetRole(q, new),
         new = IF from = "first" THEN "owner" ELSE change[q].new,
         UNCHANGED org
  PROVE  OrgInv'
<1> DEFINE v == change[q].target
<1>1. /\ change' \in [Requests -> Change] /\ change[q].at = from /\ change'[q].at = "ended"
      /\ \A p \in Requests \ {q} :
           /\ change'[p].at = change[p].at /\ change'[p].op = change[p].op
           /\ change'[p].target = change[p].target /\ change'[p].new = change[p].new
           /\ change[p].at \in {"idle", "caller", "ended", "failed"} \/ change'[p].outdated
  BY WritesChange DEF OrgInv
<1>2. v \in Users
  BY <1>1 DEF OrgInv, ChangeFits
<1>3. /\ role' \in [Users -> {"none", "member", "owner"}] /\ role'[v] = new
      /\ \A u \in Users \ {v} : role'[u] = role[u]
  BY <1>2 DEF SetRole, OrgInv, OrgTypeOK
<1>4. stale' \in BOOLEAN /\ (stale => stale')
      /\ (change[q].outdated /\ role[v] = "owner" /\ new # "owner" => stale')
  BY <1>2 DEF SetRole, OrgInv, OrgTypeOK, Owners
<1>5. OrgTypeOK'
  BY <1>1, <1>3, <1>4 DEF OrgInv, OrgTypeOK, Change, ChangeAt
<1>6. ChangeFits'
  BY <1>1 DEF OrgInv, ChangeFits
<1>7. ReadingHolds'
  <2>1. \A p \in Requests : change'[p].at \in {"add", "update", "remove"} => change'[p].outdated
    BY <1>1
  <2>2. QED
    BY <2>1 DEF ReadingHolds
<1>8. OwnerRemains'
  <2> SUFFICES ASSUME org' = "exists", ~stale' PROVE Owners' # {} \/ \E p \in Requests : change'[p].at \in {"first", "failed"}
    BY DEF OwnerRemains
  <2>1. CASE new = "owner"
    BY <1>2, <1>3, <2>1 DEF Owners
  <2>2. CASE new # "owner"
    <3>1. from # "first" /\ new = change[q].new
      BY <2>2
    <3>2. change[q].outdated => role[v] # "owner"
      BY <1>4, <2>2
    <3>3. \/ role[v] # "owner"
          \/ \E u \in Users : u # v /\ role[u] = "owner"
      <4>1. CASE change[q].outdated
        BY <3>2, <4>1
      <4>2. CASE ~change[q].outdated
        BY <1>1, <2>2, <3>1, <4>2 DEF OrgInv, ReadingHolds, OwnerLeft
      <4>3. QED
        BY <4>1, <4>2
    <3>4. Owners # {} \/ \E p \in Requests \ {q} : change[p].at \in {"first", "failed"}
      BY <1>1, <1>4, <3>1 DEF OrgInv, OwnerRemains
    <3>5. CASE \E u \in Users : u # v /\ role[u] = "owner"
      BY <1>3, <3>5 DEF Owners
    <3>6. CASE role[v] # "owner" /\ Owners # {}
      BY <1>3, <3>6 DEF Owners
    <3>7. CASE \E p \in Requests \ {q} : change[p].at \in {"first", "failed"}
      BY <1>1, <3>7
    <3>8. QED
      BY <3>3, <3>4, <3>5, <3>6, <3>7
  <2>3. QED
    BY <2>1, <2>2
<1>9. QED
  BY <1>5, <1>6, <1>7, <1>8 DEF OrgInv

\* An update or deletion that finds no row is a write all the same.
LEMMA MemberWritesNothing ==
  ASSUME OrgInv, NEW q \in Requests, NEW from \in {"update", "delete"}, Writes(q, from),
         UNCHANGED <<role, stale>>, org' \in {org, "deleted"}
  PROVE  OrgInv'
<1>1. /\ change' \in [Requests -> Change] /\ change[q].at = from /\ change'[q].at = "ended"
      /\ \A p \in Requests \ {q} :
           /\ change'[p].at = change[p].at /\ change'[p].op = change[p].op
           /\ change'[p].target = change[p].target /\ change'[p].new = change[p].new
           /\ change[p].at \in {"idle", "caller", "ended", "failed"} \/ change'[p].outdated
  BY WritesChange DEF OrgInv
<1>2. OrgTypeOK'
  BY <1>1 DEF OrgInv, OrgTypeOK, Change, ChangeAt
<1>3. ChangeFits'
  BY <1>1 DEF OrgInv, ChangeFits
<1>4. \A p \in Requests : change'[p].at \in {"add", "update", "remove"} => change'[p].outdated
  BY <1>1
<1>5. ReadingHolds'
  BY <1>4 DEF ReadingHolds
<1>6. Owners' = Owners
  BY DEF Owners
<1>7. OwnerRemains'
  BY <1>1, <1>6 DEF OrgInv, OwnerRemains
<1>8. QED
  BY <1>2, <1>3, <1>5, <1>7 DEF OrgInv

\* A request that begins keeps the invariant of the organization.
LEMMA MembersBegin ==
  ASSUME OrgInv, NEW q \in Requests, OrgBegins(q)
  PROVE  OrgInv'
<1>1. PICK o \in Ops, caller \in Users, target \in Users, new \in {"none", "member", "owner"} :
        Ask(q, o, caller, target, new)
  BY DEF OrgBegins
<1> DEFINE at == IF o = "create" THEN "first" ELSE "caller"
           c == [at |-> at, op |-> o, caller |-> caller, target |-> target, new |-> new, outdated |-> FALSE]
<1>2. c \in Change /\ c.at = at /\ c.op = o /\ c.target = target /\ c.new = new
  BY DEF Change, ChangeAt
<1>3. change' = [change EXCEPT ![q] = c] /\ change[q].at = "idle" /\ (new # "none") = (o = "invite")
  BY <1>1 DEF Ask
<1>4. org' = org \/ (org' = "exists" /\ at = "first")
  BY <1>1 DEF Ask
<1>5. change \in [Requests -> Change] /\ at \in {"first", "caller"} /\ UNCHANGED <<role, stale>>
  BY <1>1 DEF Ask, OrgInv, OrgTypeOK, Change, ChangeAt
<1> HIDE DEF c, at
<1>6. change' \in [Requests -> Change] /\ change'[q] = c /\ \A p \in Requests \ {q} : change'[p] = change[p]
  BY <1>2, <1>3, <1>5
<1>7. QED
  BY <1>2, <1>3, <1>4, <1>5, <1>6, MemberMoves

\* A step of a request keeps the invariant of the organization.
LEMMA MembersStep ==
  ASSUME OrgInv, NEW q \in Requests, OrgStep(q)
  PROVE  OrgInv'
<1>0. OrgTypeOK /\ ChangeFits
  BY DEF OrgInv
<1>1. ASSUME NEW from \in ChangeAt \ {"first", "failed"}, Ends(q, from), UNCHANGED <<org, role, stale>>
      PROVE  OrgInv'
  BY <1>0, <1>1, EndsChange, MemberMoves
<1>2. ASSUME NEW to \in {"add", "update", "remove"}, NEW from \in {"target", "count", "add"}, Moves(q, from, to),
             to = "remove" => change[q].new = "none",
             UNCHANGED <<org, role, stale>>,
             ~change[q].outdated =>
               \/ role[change[q].target] # "owner"
               \/ change[q].new = "owner"
               \/ \E u \in Users : u # change[q].target /\ role[u] = "owner"
      PROVE  OrgInv'
  <2>1. to \in ChangeAt
    BY DEF ChangeAt
  <2>2. change[q].target \in Users
    BY <1>0, <1>2 DEF Moves, ChangeFits
  <2>3. QED
    BY <1>0, <1>2, <2>1, <2>2, MovesChange, MemberMoves
<1>3. ASSUME NEW from \in {"target", "count"}, Moves(q, from, Goal(q)), UNCHANGED <<org, role, stale>>,
             \/ role[change[q].target] # "owner"
             \/ change[q].new = "owner"
             \/ \E u \in Users : u # change[q].target /\ role[u] = "owner"
      PROVE  OrgInv'
  <2>1. Goal(q) \in {"add", "remove"} /\ (Goal(q) = "remove" => change[q].op # "invite")
    BY DEF Goal
  <2>2. change[q].at = from
    BY <1>3 DEF Moves
  <2>3. Goal(q) = "remove" => change[q].new = "none"
    BY <1>0, <2>1, <2>2 DEF ChangeFits
  <2>4. QED
    BY <1>2, <1>3, <2>1, <2>3
<1>4. CASE AddFirstOwner(q)
  BY <1>4, MemberWrites DEF AddFirstOwner
<1>5. CASE CheckCaller(q)
  <2>1. CASE Ends(q, "caller")
    BY <1>1, <1>5, <2>1 DEF CheckCaller, ChangeAt
  <2>2. ASSUME NEW to \in {"delete", "target"}, Moves(q, "caller", to)
        PROVE  OrgInv'
    <3>1. to \in ChangeAt /\ change[q].at = "caller"
      BY <2>2 DEF ChangeAt, Moves
    <3>2. change[q].target \in Users /\ (change[q].new # "none") = (change[q].op = "invite")
      BY <1>0, <3>1 DEF ChangeFits
    <3>3. UNCHANGED <<org, role, stale>>
      BY <1>5 DEF CheckCaller
    <3>4. QED
      BY <1>0, <2>2, <3>1, <3>2, <3>3, MovesChange, MemberMoves
  <2>3. QED
    BY <1>5, <2>1, <2>2 DEF CheckCaller
<1>6. CASE ReadTarget(q)
  <2>1. UNCHANGED <<org, role, stale>>
    BY <1>6 DEF ReadTarget
  <2>2. CASE Ends(q, "target")
    BY <1>1, <2>1, <2>2 DEF ChangeAt
  <2>3. CASE Moves(q, "target", "count")
    <3>1. "count" \in ChangeAt /\ change[q].at = "target"
      BY <2>3 DEF ChangeAt, Moves
    <3>2. change[q].target \in Users /\ (change[q].new # "none") = (change[q].op = "invite")
      BY <1>0, <3>1 DEF ChangeFits
    <3>3. QED
      BY <1>0, <2>1, <2>3, <3>1, <3>2, MovesChange, MemberMoves
  <2>4. CASE /\ Moves(q, "target", Goal(q))
             /\ ~(role[change[q].target] = "owner" /\ change[q].new # "owner")
    BY <1>3, <2>1, <2>4
  <2>5. QED
    BY <1>6, <2>2, <2>3, <2>4 DEF ReadTarget
<1>7. CASE EnsureNotLastOwner(q)
  <2>1. UNCHANGED <<org, role, stale>>
    BY <1>7 DEF EnsureNotLastOwner
  <2>2. CASE Ends(q, "count")
    BY <1>1, <2>1, <2>2 DEF ChangeAt
  <2>3. CASE OwnersListed > 1 /\ Moves(q, "count", Goal(q))
    BY <1>0, <1>3, <2>1, <2>3, TwoOwners
  <2>4. QED
    BY <1>7, <2>2, <2>3 DEF EnsureNotLastOwner
<1>8. CASE AddMember(q)
  <2>1. CASE Writes(q, "add") /\ SetRole(q, change[q].new)
    <3>1. change[q].new \in {"none", "member", "owner"}
      BY <1>0 DEF OrgTypeOK
    <3>2. QED
      BY <1>8, <2>1, <3>1, MemberWrites DEF AddMember
  <2>2. CASE Moves(q, "add", "update") /\ UNCHANGED <<role, stale>>
    <3>1. change[q].at = "add"
      BY <2>2 DEF Moves
    <3>2. ~change[q].outdated => OwnerLeft(q)
      BY <3>1 DEF OrgInv, ReadingHolds
    <3>3. QED
      BY <1>2, <1>8, <2>2, <3>2 DEF AddMember, OwnerLeft
  <2>3. QED
    BY <1>8, <2>1, <2>2 DEF AddMember
<1>9. CASE UpdateRole(q)
  <2>1. change[q].new \in {"none", "member", "owner"}
    BY <1>0 DEF OrgTypeOK
  <2>2. CASE SetRole(q, change[q].new)
    BY <1>9, <2>1, <2>2, MemberWrites DEF UpdateRole
  <2>3. CASE UNCHANGED <<role, stale>>
    BY <1>9, <2>3, MemberWritesNothing DEF UpdateRole
  <2>4. QED
    BY <1>9, <2>2, <2>3 DEF UpdateRole
<1>10. CASE RemoveMember(q)
  <2>1. change[q].at = "remove"
    BY <1>10 DEF RemoveMember, Writes
  <2>2. change[q].new = "none"
    BY <1>0, <2>1 DEF ChangeFits
  <2>3. QED
    BY <1>10, <2>2, MemberWrites DEF RemoveMember
<1>11. CASE DeleteOrg(q)
  <2>1. org' \in {org, "deleted"}
    BY <1>11 DEF DeleteOrg
  <2>2. QED
    BY <1>11, <2>1, MemberWritesNothing DEF DeleteOrg
<1>12. CASE AbandonChange(q)
  <2>1. UNCHANGED <<org, role, stale>>
    BY <1>12 DEF AbandonChange
  <2>2. CASE Moves(q, "first", "failed")
    BY <1>0, <2>1, <2>2, MovesChange, MemberMoves DEF ChangeAt
  <2>3. ASSUME NEW at \in {"caller", "target", "count", "add", "update", "remove", "delete"}, Ends(q, at)
        PROVE  OrgInv'
    BY <1>1, <2>1, <2>3 DEF ChangeAt
  <2>4. QED
    BY <1>12, <2>2, <2>3 DEF AbandonChange
<1>13. QED
  BY <1>4, <1>5, <1>6, <1>7, <1>8, <1>9, <1>10, <1>11, <1>12 DEF OrgStep

\* Steps of other areas keep the invariant of the organization.
LEMMA MembersKept == OrgInv /\ UNCHANGED orgVars => OrgInv'
BY DEF OrgInv, orgVars, OrgTypeOK, ChangeFits, ReadingHolds, OwnerLeft, OwnerRemains, Owners

\* The invariant of the organization holds initially.
LEMMA MembersInit == OrgInit => OrgInv
<1> SUFFICES ASSUME OrgInit PROVE OrgInv
  OBVIOUS
<1>1. \A q \in Requests : change[q] = NoChange
  BY DEF OrgInit
<1>2. change \in [Requests -> Change]
  BY EndedChange DEF OrgInit
<1>3. OrgTypeOK
  BY <1>2 DEF OrgInit, OrgTypeOK, Change, ChangeAt
<1>4. ChangeFits /\ ReadingHolds
  BY <1>1, EndedChange DEF ChangeFits, ReadingHolds
<1>5. OwnerRemains
  BY DEF OrgInit, OwnerRemains
<1>6. QED
  BY <1>3, <1>4, <1>5 DEF OrgInv

-----------------------------------------------------------------------------
(* Repositories. *)

\* The invariant of the repositories holds initially.
LEMMA RepositoriesInit == RepositoryInit => RepositoryInv
<1> SUFFICES ASSUME RepositoryInit PROVE RepositoryInv
  OBVIOUS
<1>1. NoOp \in Operation /\ NoOp.at = "idle"
  BY DEF NoOp, Operation
<1>2. /\ op = [q \in Requests |-> NoOp] /\ named = [q \in Requests |-> "none"] /\ excused = {}
      /\ disk = [p \in Paths |-> "none"]
  BY DEF RepositoryInit
<1>3. RepositoryTypeOK
  BY <1>1, <1>2 DEF RepositoryTypeOK
<1>4. OperationsFit
  BY <1>1, <1>2 DEF OperationsFit, Creation
<1>5. PathsKept
  BY <1>2 DEF PathsKept, HasRow
<1>6. QED
  BY <1>3, <1>4, <1>5 DEF RepositoryInv

\* What a move does to the requests.
LEMMA MoveOperation ==
  ASSUME OperationsFit, NEW q \in Requests, NEW from,
         NEW to \in Creation \union {"answered", "done", "failed", "rename", "audit", "delete"},
         Move(q, from, to)
  PROVE  /\ op' \in [Requests -> Operation] /\ op[q].at = from
         /\ op'[q].at = to /\ op'[q].owner = op[q].owner /\ op'[q].login = op[q].login
         /\ op'[q].name = op[q].name /\ op'[q].target = op[q].target
         /\ \A p \in Requests \ {q} : op'[p] = op[p]
         /\ \A p \in Requests : Path(p)' = Path(p)
<1> DEFINE new == [op[q] EXCEPT !.at = to]
<1>1. op \in [Requests -> Operation]
  BY DEF OperationsFit
<1>2. /\ new \in Operation /\ new.at = to /\ new.owner = op[q].owner /\ new.login = op[q].login
      /\ new.name = op[q].name /\ new.target = op[q].target
  BY <1>1 DEF Operation
<1>3. op' = [op EXCEPT ![q] = new] /\ op[q].at = from
  BY <1>1 DEF Move
<1> HIDE DEF new
<1>4. /\ op' \in [Requests -> Operation] /\ op'[q] = new /\ \A p \in Requests \ {q} : op'[p] = op[p]
  BY <1>1, <1>2, <1>3
<1>5. QED
  BY <1>2, <1>3, <1>4 DEF Path

\* A request moves and the directories stay. It enters the making or the removal of a directory
\* from within it, or at a path that no creation has which is not excused.
LEMMA RepositoryMoves ==
  ASSUME RepositoryInv, NEW q \in Requests, NEW from,
         NEW to \in Creation \union {"answered", "done", "failed", "rename", "audit", "delete"},
         Move(q, from, to), UNCHANGED disk,
         named' \in [Requests -> Names \union {"none"}], excused \subseteq excused', excused' \subseteq Requests,
         op[q].at # "idle",
         to \in Creation \union {"answered"} => from \in Creation,
         to \in {"rename", "audit", "delete"} => op[q].target \in Requests,
         \A p \in Requests \ excused' : named'[p] # "none" =>
           /\ p # q \/ to # "init" => named[p] # "none"
           /\ named'[p] = op[p].name
           /\ p # q /\ to = "init" => Path(p) # Path(q),
         to = "init" /\ q \notin excused' =>
           \A p \in Requests \ {q} : op[p].at \in {"init", "undo row", "undo directory"} => Path(p) # Path(q),
         to \in {"created"} => from = "created",
         to = "answered" => from = "created",
         to \in {"undo row", "undo directory"} => from \in {"init", "undo row", "undo directory"}
  PROVE  RepositoryInv'
<1>1. /\ op' \in [Requests -> Operation] /\ op[q].at = from
      /\ op'[q].at = to /\ op'[q].owner = op[q].owner /\ op'[q].login = op[q].login
      /\ op'[q].name = op[q].name /\ op'[q].target = op[q].target
      /\ \A p \in Requests \ {q} : op'[p] = op[p]
      /\ \A p \in Requests : Path(p)' = Path(p)
  BY MoveOperation DEF RepositoryInv
<1>2. OperationsFit'
  <2>1. \A p \in Requests : op'[p].at \in Creation \union {"answered"} => Path(p)' \in Paths
    BY <1>1 DEF RepositoryInv, OperationsFit
  <2>2. \A p \in Requests : op'[p].at \in {"rename", "audit", "delete"} => op'[p].target \in Requests
    BY <1>1 DEF RepositoryInv, OperationsFit
  <2>3. QED
    BY <1>1, <2>1, <2>2 DEF OperationsFit
<1>3. RepositoryTypeOK'
  <2>1. NoOp.at = "idle"
    BY DEF NoOp
  <2>2. \A p \in Requests : op'[p] = NoOp \/ <<op'[p].login, op'[p].name>> \in Paths \/ op'[p].target \in Requests
    BY <1>1, <2>1 DEF RepositoryInv, RepositoryTypeOK
  <2>3. \A p \in Requests : op'[p].at \in Creation \union {"idle", "rename", "audit", "delete", "answered", "done", "failed"}
    BY <1>1 DEF Operation
  <2>4. disk' \in [Paths -> Requests \union {"none"}]
    BY DEF RepositoryInv, RepositoryTypeOK
  <2>5. QED
    BY <2>2, <2>3, <2>4 DEF RepositoryTypeOK, Creation
<1>4. ASSUME NEW p \in Requests \ excused', named'[p] # "none"
      PROVE  /\ named'[p] = op'[p].name
             /\ op'[p].at \in {"init", "created", "answered"} =>
                  \A x \in Requests \ {p} :
                    op'[x].at \in {"init", "undo row", "undo directory"} => Path(x)' # Path(p)'
             /\ op'[p].at \in {"created", "answered"} => disk'[Path(p)'] = p
  <2>1. named'[p] = op'[p].name /\ Path(p)' = Path(p) /\ p \notin excused
    BY <1>1, <1>4
  <2>2. CASE p = q
    <3>1. CASE to = "init"
      BY <1>1, <1>4, <2>1, <2>2, <3>1 DEF Path
    <3>2. CASE to # "init"
      <4>1. named[p] # "none"
        BY <1>4, <3>2
      <4>2. to \in {"created", "answered"} => from = "created"
        OBVIOUS
      <4>3. \A x \in Requests \ {p} : op'[x] = op[x] /\ Path(x)' = Path(x)
        BY <1>1, <2>2
      <4>4. to \in {"created", "answered"} =>
              /\ \A x \in Requests \ {p} : op[x].at \in {"init", "undo row", "undo directory"} => Path(x) # Path(p)
              /\ disk[Path(p)] = p
        BY <1>1, <2>1, <2>2, <4>1, <4>2 DEF RepositoryInv, PathsKept, HasRow
      <4>5. QED
        BY <1>1, <2>1, <2>2, <3>2, <4>3, <4>4 DEF Path
    <3>3. QED
      BY <3>1, <3>2
  <2>3. CASE p # q
    <3>1. named[p] # "none" /\ op'[p] = op[p]
      BY <1>1, <1>4, <2>3
    <3>2. /\ op[p].at \in {"init", "created", "answered"} =>
               \A x \in Requests \ {p} :
                 op[x].at \in {"init", "undo row", "undo directory"} => Path(x) # Path(p)
          /\ op[p].at \in {"created", "answered"} => disk[Path(p)] = p
      BY <2>1, <3>1 DEF RepositoryInv, PathsKept, HasRow
    <3>3. ASSUME op[p].at \in {"init", "created", "answered"}, NEW x \in Requests \ {p},
                 op'[x].at \in {"init", "undo row", "undo directory"}
          PROVE  Path(x)' # Path(p)'
      <4>1. CASE x # q
        BY <1>1, <3>1, <3>2, <3>3, <4>1 DEF Path
      <4>2. CASE x = q /\ to = "init"
        BY <1>1, <1>4, <2>3, <4>2
      <4>3. CASE x = q /\ to \in {"undo row", "undo directory"}
        BY <1>1, <3>2, <3>3, <4>3
      <4>4. QED
        BY <1>1, <3>3, <4>1, <4>2, <4>3
    <3>4. QED
      BY <2>1, <3>1, <3>2, <3>3
  <2>4. QED
    BY <2>2, <2>3
<1>5. PathsKept'
  BY <1>4 DEF PathsKept, HasRow
<1>6. QED
  BY <1>2, <1>3, <1>5 DEF RepositoryInv

\* A request begins: it had no row, or is excused.
LEMMA RepositoryBeginsKept ==
  ASSUME RepositoryInv, NEW q \in Requests, RepositoryBegins(q)
  PROVE  RepositoryInv'
<1> USE DEF RepositoryInv
<1>1. UNCHANGED <<named, disk, excused>> /\ op[q] = NoOp
  BY DEF RepositoryBegins, StartRepository, GetOwned
<1>2. NoOp \in Operation /\ NoOp.at = "idle" /\ NoOp.name = "none"
  BY DEF NoOp, Operation
<1>3. PICK new \in Operation :
        /\ op' = [op EXCEPT ![q] = new] /\ new.at \in {"look up", "rename", "audit"}
        /\ <<new.login, new.name>> \in Paths \/ new.target \in Requests
        /\ new.at = "look up" => <<new.login, new.name>> \in Paths
        /\ new.at # "look up" => new.target \in Requests
  <2>1. ASSUME NEW user \in Users, NEW login \in Logins, NEW name \in Names, StartRepository(q, user, login, name)
        PROVE  \E new \in Operation :
                 /\ op' = [op EXCEPT ![q] = new] /\ new.at = "look up"
                 /\ <<new.login, new.name>> \in Paths
    <3> DEFINE c == [NoOp EXCEPT !.at = "look up", !.owner = user, !.login = login, !.name = name]
    <3>1. c \in Operation /\ c.at = "look up" /\ c.login = login /\ c.name = name
      BY DEF NoOp, Operation, Creation
    <3>2. op' = [op EXCEPT ![q] = c]
      BY <2>1 DEF StartRepository
    <3> HIDE DEF c
    <3>3. QED
      BY <3>1, <3>2 DEF Paths
  <2>2. ASSUME NEW p \in Requests, NEW at \in {"rename", "audit"}, GetOwned(q, p, at)
        PROVE  \E new \in Operation :
                 op' = [op EXCEPT ![q] = new] /\ new.at = at /\ new.target \in Requests
    <3> DEFINE c == [op[q] EXCEPT !.at = at, !.target = p]
    <3>1. c \in Operation /\ c.at = at /\ c.target = p
      BY <1>1, <1>2 DEF NoOp, Operation, Creation
    <3>2. op' = [op EXCEPT ![q] = c]
      BY <2>2 DEF GetOwned, OperationsFit
    <3> HIDE DEF c
    <3>3. QED
      BY <3>1, <3>2
  <2>3. QED
    BY <2>1, <2>2 DEF RepositoryBegins
<1>4. op' \in [Requests -> Operation] /\ op'[q] = new /\ \A p \in Requests \ {q} : op'[p] = op[p]
  BY <1>3 DEF OperationsFit
<1>5. OperationsFit'
  BY <1>3, <1>4 DEF OperationsFit, Creation, Path
<1>6. RepositoryTypeOK'
  <2>1. \A p \in Requests : op'[p].at \in {"idle", "look up", "insert", "init", "undo row", "undo directory",
                        "created", "rename", "audit", "delete", "answered", "done", "failed"}
    BY <1>4 DEF Operation, Creation
  <2>2. \A p \in Requests : op'[p] = NoOp \/ <<op'[p].login, op'[p].name>> \in Paths \/ op'[p].target \in Requests
    BY <1>3, <1>4 DEF RepositoryTypeOK
  <2>3. QED
    BY <1>1, <2>1, <2>2 DEF RepositoryTypeOK
<1>7. ASSUME NEW p \in Requests \ excused, named[p] # "none"
      PROVE  /\ p # q
             /\ named[p] = op'[p].name
             /\ op'[p].at \in {"init", "created", "answered"} =>
                  \A x \in Requests \ {p} :
                    op'[x].at \in {"init", "undo row", "undo directory"} =>
                      <<op'[x].login, op'[x].name>> # <<op'[p].login, op'[p].name>>
             /\ op'[p].at \in {"created", "answered"} => disk[<<op'[p].login, op'[p].name>>] = p
  <2>1. p # q
    BY <1>1, <1>2, <1>7 DEF PathsKept, HasRow
  <2>2. QED
    BY <1>3, <1>4, <1>7, <2>1 DEF PathsKept, HasRow, Path
<1>8. PathsKept'
  BY <1>1, <1>7 DEF PathsKept, HasRow, Path
<1>9. QED
  BY <1>5, <1>6, <1>8

\* A step of a request keeps the invariant of the repositories.
LEMMA RepositoryStepKept ==
  ASSUME RepositoryInv, NEW q \in Requests, RepositoryStep(q)
  PROVE  RepositoryInv'
<1>0. /\ RepositoryTypeOK /\ OperationsFit /\ PathsKept
      /\ named \in [Requests -> Names \union {"none"}] /\ excused \subseteq Requests
  BY DEF RepositoryInv, RepositoryTypeOK
\* Nothing but the request's own place, and perhaps rows, and nothing that makes a row.
<1>1. ASSUME NEW from, NEW to \in Creation \union {"answered", "done", "failed", "delete"},
             Move(q, from, to), from # "idle", UNCHANGED disk,
             excused \subseteq excused', excused' \subseteq Requests,
             named' \in [Requests -> Names \union {"none"}],
             \A p \in Requests \ excused' : named'[p] # "none" => named'[p] = named[p],
             to \in Creation \union {"answered"} => from \in Creation,
             to = "delete" => from = "audit",
             to \notin {"init", "created"}, to = "answered" => from = "created",
             to \in {"undo row", "undo directory"} => from \in {"init", "undo row", "undo directory"}
      PROVE  RepositoryInv'
  <2>1. op[q].at = from
    BY <1>1 DEF Move
  <2>2. to = "delete" => op[q].target \in Requests
    BY <1>0, <1>1, <2>1 DEF OperationsFit
  <2>3. \A p \in Requests \ excused' : named'[p] # "none" => named[p] # "none" /\ named'[p] = op[p].name
    BY <1>0, <1>1 DEF PathsKept, HasRow
  <2>4. \A p \in Requests \ excused' : named'[p] # "none" =>
          /\ p # q \/ to # "init" => named[p] # "none"
          /\ named'[p] = op[p].name
          /\ p # q /\ to = "init" => Path(p) # Path(q)
    BY <1>1, <2>3
  <2>5. to \notin {"rename", "audit"} /\ to # "init" /\ op[q].at # "idle"
    BY <1>1, <2>1 DEF Creation
  <2>6. QED
    BY <1>1, <2>2, <2>4, <2>5, RepositoryMoves
<1>2. CASE GetByOwnerAndName(q)
  BY <1>0, <1>1, <1>2 DEF GetByOwnerAndName, Creation
<1>3. CASE InsertRepository(q)
  <2>1. /\ Move(q, "insert", "init") /\ op[q].at = "insert" /\ UNCHANGED disk
        /\ named' = [named EXCEPT ![q] = op[q].name]
        /\ excused' = excused \union Sharing(q) \union {p \in {q} : Sharing(q) # {}}
    BY <1>3 DEF InsertRepository, Move
  <2>2. op[q].name \in Names /\ Sharing(q) \subseteq Requests
    BY <1>0, <2>1 DEF OperationsFit, Creation, Path, Paths, Sharing
  <2>3. named' \in [Requests -> Names \union {"none"}] /\ named'[q] = op[q].name
        /\ excused \subseteq excused' /\ excused' \subseteq Requests
    BY <1>0, <2>1, <2>2
  <2>4. ASSUME NEW p \in Requests \ excused', named'[p] # "none"
        PROVE  named'[p] = op[p].name /\ (p # q => named[p] # "none" /\ Path(p) # Path(q))
    <3>1. CASE p = q
      BY <2>3, <3>1
    <3>2. CASE p # q
      <4>1. named'[p] = named[p] /\ p \notin excused /\ p \notin Sharing(q)
        BY <1>0, <2>1, <2>4, <3>2
      <4>2. QED
        BY <1>0, <2>4, <3>2, <4>1 DEF PathsKept, HasRow, Sharing
    <3>3. QED
      BY <3>1, <3>2
  <2>5. q \notin excused' =>
          \A p \in Requests \ {q} : op[p].at \in {"init", "undo row", "undo directory"} => Path(p) # Path(q)
    <3>1. q \notin excused' => Sharing(q) = {}
      BY <2>1
    <3>2. QED
      BY <3>1 DEF Sharing
  <2>6. QED
    BY <2>1, <2>3, <2>4, <2>5, RepositoryMoves DEF Creation
<1>4. CASE InitDirectory(q)
  <2>1. CASE Move(q, "init", "undo row") /\ UNCHANGED <<named, disk, excused>>
    BY <1>0, <1>1, <2>1 DEF Creation
  <2>2. CASE Move(q, "init", "created") /\ disk' = [disk EXCEPT ![Path(q)] = q] /\ UNCHANGED <<named, excused>>
    <3>1. /\ op' \in [Requests -> Operation] /\ op[q].at = "init"
          /\ op'[q].at = "created" /\ op'[q].owner = op[q].owner /\ op'[q].login = op[q].login
          /\ op'[q].name = op[q].name /\ op'[q].target = op[q].target
          /\ \A p \in Requests \ {q} : op'[p] = op[p]
      BY <1>0, <2>2, MoveOperation DEF Creation
    <3>2. Path(q) \in Paths
      BY <1>0, <3>1 DEF OperationsFit, Creation
    <3>3. /\ disk' \in [Paths -> Requests \union {"none"}] /\ disk'[Path(q)] = q
          /\ \A x \in Paths : x # Path(q) => disk'[x] = disk[x]
      BY <1>0, <2>2, <3>2 DEF RepositoryTypeOK
    <3>4. OperationsFit'
      BY <1>0, <3>1, <3>2 DEF OperationsFit, Creation, Path
    <3>5. RepositoryTypeOK'
      BY <1>0, <2>2, <3>1, <3>2, <3>3 DEF RepositoryTypeOK, Path
    <3>6. PathsKept'
      <4>1. ASSUME NEW p \in Requests \ excused, named[p] # "none"
            PROVE  /\ named[p] = op'[p].name
                   /\ op'[p].at \in {"init", "created", "answered"} =>
                        \A x \in Requests \ {p} :
                          op'[x].at \in {"init", "undo row", "undo directory"} =>
                            <<op'[x].login, op'[x].name>> # <<op'[p].login, op'[p].name>>
                   /\ op'[p].at \in {"created", "answered"} => disk'[<<op'[p].login, op'[p].name>>] = p
        <5>1. CASE p = q
          <6>1. /\ named[q] = op[q].name
                /\ \A x \in Requests \ {q} :
                     op[x].at \in {"init", "undo row", "undo directory"} => Path(x) # Path(q)
            BY <1>0, <3>1, <4>1, <5>1 DEF PathsKept, HasRow
          <6>2. <<op'[q].login, op'[q].name>> = Path(q) /\ \A x \in Requests \ {q} : op'[x] = op[x]
            BY <3>1 DEF Path
          <6>3. QED
            BY <3>1, <3>3, <5>1, <6>1, <6>2 DEF Path
        <5>2. CASE p # q
          <6>1. op'[p] = op[p]
            BY <3>1, <5>2
          <6>2. /\ named[p] = op[p].name
                /\ op[p].at \in {"init", "created", "answered"} =>
                     \A x \in Requests \ {p} :
                       op[x].at \in {"init", "undo row", "undo directory"} => Path(x) # Path(p)
                /\ op[p].at \in {"created", "answered"} => disk[Path(p)] = p
            BY <1>0, <4>1 DEF PathsKept, HasRow
          <6>3. \A x \in Requests \ {p} : op'[x].at \in {"init", "undo row", "undo directory"} => op'[x] = op[x]
            BY <3>1
          <6>4. op[p].at \in {"created", "answered"} => Path(p) \in Paths /\ Path(p) # Path(q)
            BY <1>0, <3>1, <5>2, <6>2 DEF OperationsFit, Creation
          <6>5. QED
            BY <3>3, <6>1, <6>2, <6>3, <6>4 DEF Path
        <5>3. QED
          BY <5>1, <5>2
      <4>2. QED
        BY <2>2, <4>1 DEF PathsKept, HasRow, Path
    <3>7. QED
      BY <3>4, <3>5, <3>6 DEF RepositoryInv
  <2>3. QED
    BY <1>4, <2>1, <2>2 DEF InitDirectory
<1>5. CASE UndoRow(q)
  BY <1>0, <1>1, <1>5 DEF UndoRow, Creation
<1>6. CASE UndoDirectory(q)
  <2>1. /\ op' \in [Requests -> Operation] /\ op[q].at = "undo directory"
        /\ op'[q].at = "failed" /\ op'[q].owner = op[q].owner /\ op'[q].login = op[q].login
        /\ op'[q].name = op[q].name /\ op'[q].target = op[q].target
        /\ \A p \in Requests \ {q} : op'[p] = op[p]
        /\ UNCHANGED <<named, excused>>
    BY <1>0, <1>6, MoveOperation DEF UndoDirectory
  <2>2. Path(q) \in Paths
    BY <1>0, <2>1 DEF OperationsFit, Creation
  <2>3. /\ disk' \in [Paths -> Requests \union {"none"}]
        /\ \A x \in Paths : x # Path(q) => disk'[x] = disk[x]
    BY <1>0, <1>6, <2>2 DEF UndoDirectory, RepositoryTypeOK
  <2>4. OperationsFit'
    BY <1>0, <2>1, <2>2 DEF OperationsFit, Creation, Path
  <2>5. RepositoryTypeOK'
    BY <1>0, <2>1, <2>2, <2>3 DEF RepositoryTypeOK, Path
  <2>6. PathsKept'
    <3>1. ASSUME NEW p \in Requests \ excused, named[p] # "none"
          PROVE  /\ named[p] = op'[p].name
                 /\ op'[p].at \in {"init", "created", "answered"} =>
                      \A x \in Requests \ {p} :
                        op'[x].at \in {"init", "undo row", "undo directory"} =>
                          <<op'[x].login, op'[x].name>> # <<op'[p].login, op'[p].name>>
                 /\ op'[p].at \in {"created", "answered"} => disk'[<<op'[p].login, op'[p].name>>] = p
      <4>1. /\ named[p] = op[p].name
            /\ op[p].at \in {"init", "created", "answered"} =>
                 \A x \in Requests \ {p} :
                   op[x].at \in {"init", "undo row", "undo directory"} => Path(x) # Path(p)
            /\ op[p].at \in {"created", "answered"} => disk[Path(p)] = p
        BY <1>0, <3>1 DEF PathsKept, HasRow
      <4>2. CASE p = q
        BY <2>1, <4>1, <4>2
      <4>3. CASE p # q
        <5>1. op'[p] = op[p]
          BY <2>1, <4>3
        <5>2. \A x \in Requests \ {p} : op'[x].at \in {"init", "undo row", "undo directory"} => op'[x] = op[x]
          BY <2>1
        <5>3. op[p].at \in {"created", "answered"} => Path(p) \in Paths /\ Path(p) # Path(q)
          BY <1>0, <2>1, <4>1, <4>3 DEF OperationsFit, Creation
        <5>4. QED
          BY <2>3, <4>1, <5>1, <5>2, <5>3 DEF Path
      <4>4. QED
        BY <4>2, <4>3
    <3>2. QED
      BY <2>1, <3>1 DEF PathsKept, HasRow, Path
  <2>7. QED
    BY <2>4, <2>5, <2>6 DEF RepositoryInv
<1>7. CASE AnswerCreated(q)
  BY <1>0, <1>1, <1>7 DEF AnswerCreated, Creation
<1>8. ASSUME NEW name \in Names, UpdateName(q, name)
      PROVE  RepositoryInv'
  <2> DEFINE p == op[q].target
  <2>1. op[q].at = "rename" /\ UNCHANGED disk
    BY <1>8 DEF UpdateName, Move
  <2>2. p \in Requests
    BY <1>0, <2>1 DEF OperationsFit
  <2>3. CASE Move(q, "rename", "done") /\ named' = [named EXCEPT ![p] = name] /\ excused' = excused \union {p}
    <3>1. \A x \in Requests \ excused' : named'[x] = named[x]
      BY <1>0, <2>3
    <3>2. named' \in [Requests -> Names \union {"none"}] /\ excused' \subseteq Requests
      BY <1>0, <2>2, <2>3
    <3>3. QED
      BY <1>1, <2>1, <2>3, <3>1, <3>2 DEF Creation
  <2>4. CASE (Move(q, "rename", "done") \/ Move(q, "rename", "failed")) /\ UNCHANGED <<named, excused>>
    BY <1>0, <1>1, <2>1, <2>4 DEF Creation
  <2>5. QED
    BY <1>8, <2>3, <2>4 DEF UpdateName
<1>9. CASE RecordDeletion(q)
  BY <1>0, <1>1, <1>9 DEF RecordDeletion, Creation
<1>10. CASE DeleteRepository(q)
  <2>1. Move(q, "delete", "done") /\ UNCHANGED <<disk, excused>>
        /\ named' = [named EXCEPT ![op[q].target] = "none"]
    BY <1>10 DEF DeleteRepository
  <2>2. named' \in [Requests -> Names \union {"none"}] /\ \A p \in Requests : named'[p] # "none" => named'[p] = named[p]
    BY <1>0, <2>1
  <2>3. QED
    BY <1>0, <1>1, <2>1, <2>2 DEF Creation
<1>11. CASE AbandonRepository(q)
  BY <1>0, <1>1, <1>11 DEF AbandonRepository, Working, Creation
<1>12. QED
  BY <1>2, <1>3, <1>4, <1>5, <1>6, <1>7, <1>8, <1>9, <1>10, <1>11 DEF RepositoryStep

\* Steps of other areas keep the invariant of the repositories.
LEMMA RepositoriesKept == RepositoryInv /\ UNCHANGED repositoryVars => RepositoryInv'
<1> SUFFICES ASSUME RepositoryInv, UNCHANGED repositoryVars PROVE RepositoryInv'
  OBVIOUS
<1>1. UNCHANGED <<named, disk, op, excused>>
  BY DEF repositoryVars
<1>2. RepositoryTypeOK' /\ OperationsFit' /\ PathsKept'
  BY <1>1 DEF RepositoryInv, RepositoryTypeOK, OperationsFit, PathsKept, HasRow, Path
<1>3. QED
  BY <1>2 DEF RepositoryInv

\* The invariant of the repositories has their directories in place.
LEMMA RepositoriesServed == RepositoryInv => RepositoryServed
<1> SUFFICES ASSUME RepositoryInv, NEW q \in Created \ excused PROVE disk[<<op[q].login, named[q]>>] = q
  BY DEF RepositoryServed
<1>1. QED
  BY DEF RepositoryInv, PathsKept, Created, HasRow, Path

-----------------------------------------------------------------------------
(* Numbers. *)

\* The greatest of some natural numbers.
LEMMA MaxBounds ==
  ASSUME NEW n \in Nat, NEW S \in SUBSET (0..n), S # {}
  PROVE  Max(S) \in S /\ \A s \in S : Max(S) >= s
<1> DEFINE From(m) == {s \in S : s >= m}
           T == {From(m) : m \in S}
<1>1. IsFiniteSet(S)
  <2>1. IsFiniteSet(0..n)
    BY FS_Interval
  <2>2. QED
    BY <2>1, FS_Subset
<1>2. T \subseteq FiniteSubsetsOf(S) /\ T # {}
  <2>1. FiniteSubsetsOf(S) = SUBSET S
    BY <1>1, FS_FiniteSubsetsOfFinite
  <2>2. T \subseteq SUBSET S
    OBVIOUS
  <2>3. T # {}
    <3>1. PICK m \in S : TRUE
      OBVIOUS
    <3>2. From(m) \in T
      BY <3>1
    <3>3. QED
      BY <3>2
  <2> HIDE DEF T
  <2>4. QED
    BY <2>1, <2>2, <2>3
<1>3. IsWellFoundedOn(StrictSubsetOrdering(S), FiniteSubsetsOf(S))
  BY FS_StrictSubsetOrderingWellFounded
<1>4. PICK t \in T : \A u \in T : <<u, t>> \notin StrictSubsetOrdering(S)
  BY <1>2, <1>3, WFMin
<1>5. PICK m \in S : t = From(m)
  OBVIOUS
<1>6. \A s \in S : m >= s
  <2> SUFFICES ASSUME NEW s \in S, ~(m >= s) PROVE FALSE
    OBVIOUS
  <2>1. m \in Nat /\ s \in Nat /\ s > m
    OBVIOUS
  <2>2. From(s) \subseteq From(m) /\ m \in From(m) /\ m \notin From(s) /\ From(m) \subseteq S
    <3>1. \A x \in S : x \in Nat
      OBVIOUS
    <3>2. \A x \in Nat : x >= s => x >= m
      BY <2>1
    <3>3. From(s) \subseteq From(m)
      BY <3>1, <3>2
    <3>4. m >= m /\ ~(m >= s)
      BY <2>1
    <3>5. QED
      BY <3>3, <3>4
  <2>3. From(s) \in T
    OBVIOUS
  <2> HIDE DEF From, T
  <2>4. <<From(s), From(m)>> \in StrictSubsetOrdering(S)
    BY <2>2 DEF StrictSubsetOrdering
  <2>5. QED
    BY <1>4, <1>5, <2>3, <2>4
<1>7. QED
  BY <1>6 DEF Max

\* Sets of requests are counted.
LEMMA Counted ==
  ASSUME NEW S \in SUBSET Requests
  PROVE  /\ Cardinality(S) \in Nat /\ Cardinality(Requests) \in Nat
         /\ Cardinality(S) <= Cardinality(Requests)
         /\ \A T \in SUBSET S : Cardinality(T) \in Nat /\ Cardinality(T) <= Cardinality(S)
         /\ \A q \in Requests :
              /\ q \notin S => Cardinality(S \union {q}) = Cardinality(S) + 1
              /\ q \in S => Cardinality(S \ {q}) = Cardinality(S) - 1 /\ Cardinality(S) >= 1
<1>1. IsFiniteSet(Requests)
  BY NumberingAssumption
<1>2. IsFiniteSet(S) /\ Cardinality(S) <= Cardinality(Requests)
  BY <1>1, FS_Subset
<1>3. Cardinality(S) \in Nat /\ Cardinality(Requests) \in Nat
  BY <1>1, <1>2, FS_CardinalityType
<1>4. \A T \in SUBSET S : IsFiniteSet(T) /\ Cardinality(T) <= Cardinality(S)
  BY <1>2, FS_Subset
<1>5. \A T \in SUBSET S : Cardinality(T) \in Nat
  BY <1>4, FS_CardinalityType
<1>6. ASSUME NEW q \in Requests, q \notin S
      PROVE  Cardinality(S \union {q}) = Cardinality(S) + 1
  BY <1>2, <1>6, FS_AddElement
<1>7. ASSUME NEW q \in Requests, q \in S
      PROVE  Cardinality(S \ {q}) = Cardinality(S) - 1 /\ Cardinality(S) >= 1
  <2>1. Cardinality(S \ {q}) = Cardinality(S) - 1
    BY <1>2, <1>7, FS_RemoveElement
  <2>2. Cardinality(S \ {q}) \in Nat
    BY <1>5
  <2>3. QED
    BY <1>3, <2>1, <2>2
<1>8. QED
  BY <1>2, <1>3, <1>4, <1>5, <1>6, <1>7

\* Whoever holds a number is not past its insertion yet: there is room for its number.
LEMMA RoomForNumber ==
  ASSUME NEW q \in Requests, q \notin Past
  PROVE  Past \subseteq Requests /\ Cardinality(Past) + 1 <= Cardinality(Requests)
<1>1. Past \in SUBSET Requests /\ Past \union {q} \in SUBSET Requests
  BY DEF Past
<1>2. Cardinality(Past \union {q}) = Cardinality(Past) + 1
  BY <1>1, Counted
<1>3. QED
  BY <1>1, <1>2, Counted

\* The type invariant of the area follows from its records.
LEMMA NumberTypes ==
  ASSUME work \in [Requests -> Work], held \in 0..MaxOpenConns,
         made \in [Requests -> {NoRow} \union [kind: Kinds, number: Numbers]]
  PROVE  NumberTypeOK
BY DEF NumberTypeOK, Work

\* A request moves and inserts nothing: rows may disappear.
Replaced(q, w) ==
  /\ w \in Work /\ work' = [work EXCEPT ![q] = w]
  /\ made' \in [Requests -> {NoRow} \union [kind: Kinds, number: Numbers]]
  /\ \A p \in Requests : made'[p] \in {made[p], NoRow}
  /\ held' \in 0..MaxOpenConns /\ held' = Cardinality(InTransaction')

\* It is where its record lets it be.
Placed(q, w) ==
  /\ w.at # "idle"
  /\ q \in Past => w.at \notin {"begin", "number", "insert"}
  /\ made[q] # NoRow =>
       w.at \in {"audit", "commit", "answered", "failed"} /\ w.kind = work[q].kind /\ w.number = work[q].number
  /\ w.at = "insert" => w.number \in 1..(Cardinality(Past) + 1) /\ RowsOf(w.kind) \subseteq w.seen
  /\ w.at \in {"begin", "commit"} => w.kind \in Unique
  /\ w.at \in {"number", "insert"} => w.kind \in Kinds
  /\ w.at = "delete" => w.kind = "none" /\ w.target \in Requests
  /\ \A p \in w.seen : p \in Past /\ (made[p].kind = w.kind /\ made[p].kind \in Kinds => made[p].number < w.number)

\* Its attempts are accounted for.
Accounted(q, w) ==
  /\ w.overtaken = work[q].overtaken
  /\ w.tries <= w.overtaken
  /\ w.at \in {"begin", "number", "insert"} => w.tries < MaxNumberRetries
  /\ w.at = "gave up" => w.tries = MaxNumberRetries

\* A request that moves, and inserts nothing, keeps the invariant of the numbers.
LEMMA NumberMoves ==
  ASSUME NumberInv, NEW q \in Requests, NEW w, Replaced(q, w), Placed(q, w), Accounted(q, w)
  PROVE  NumberInv'
<1>0. /\ NumberTypeOK /\ work \in [Requests -> Work] /\ RowsInserted /\ NumbersAbove /\ AttemptsOvertaken
      /\ made \in [Requests -> {NoRow} \union [kind: Kinds, number: Numbers]]
  BY DEF NumberInv, NumberTypeOK
<1>1. /\ w \in Work /\ work' \in [Requests -> Work] /\ work'[q] = w
      /\ \A p \in Requests \ {q} : work'[p] = work[p]
  BY <1>0 DEF Replaced
<1>2. Past \subseteq Past' /\ Past' \subseteq Requests
  BY <1>1 DEF Past, Placed
<1>3. /\ Cardinality(Past) \in Nat /\ Cardinality(Past') \in Nat /\ Cardinality(Requests) \in Nat
      /\ Cardinality(Past) <= Cardinality(Past')
  BY <1>2, Counted
<1>4. \A p \in Requests : made[p].number \in Nat /\ work[p].number \in Nat /\ work[p].overtaken \in Nat
  <2>1. NoRow.number \in Nat
    BY DEF NoRow
  <2>2. Numbers \subseteq Nat /\ Numbers \union {0} \subseteq Nat /\ 0..Cardinality(Requests) \subseteq Nat
    BY <1>3 DEF Numbers
  <2>3. \A p \in Requests : made[p].number \in Nat
    BY <1>0, <2>1, <2>2
  <2>4. \A p \in Requests : work[p].number \in Numbers \union {0} /\ work[p].overtaken \in 0..Cardinality(Requests)
    BY <1>0 DEF Work
  <2>5. \A p \in Requests : work[p].number \in Nat
    BY <2>2, <2>4
  <2>6. \A p \in Requests : work[p].overtaken \in Nat
    BY <2>2, <2>4
  <2>7. QED
    BY <2>3, <2>5, <2>6
<1>5. NoRow.number = 0 /\ NoRow.kind = "none" /\ "none" \notin Kinds
  BY DEF NoRow, Kinds, Unique
<1>6. \A p \in Requests : made'[p] \in {made[p], NoRow}
  BY DEF Replaced
<1>7. NumberTypeOK'
  BY <1>1, NumberTypes DEF Replaced, NumberTypeOK, Work
<1>8. RowsInserted'
  <2>1. ASSUME NEW p \in Requests
        PROVE  /\ work'[p].at = "idle" => work'[p] = Unstarted
               /\ made'[p] # NoRow =>
                    /\ work'[p].at \in {"audit", "commit", "answered", "failed"}
                    /\ made'[p] = [kind |-> work'[p].kind, number |-> work'[p].number]
               /\ made'[p].number <= Cardinality(Past')
               /\ work'[p].at = "insert" => work'[p].number \in 1..(Cardinality(Past') + 1)
               /\ work'[p].overtaken <= Cardinality(Past')
               /\ work'[p].at \in {"begin", "commit"} => work'[p].kind \in Unique
               /\ work'[p].at \in {"number", "insert"} => work'[p].kind \in Kinds
               /\ work'[p].at = "delete" => work'[p].kind = "none" /\ work'[p].target \in Requests
    <3>1. made[p].number <= Cardinality(Past) /\ work[p].overtaken <= Cardinality(Past)
      BY <1>0 DEF RowsInserted
    <3>2. made'[p].number <= Cardinality(Past')
      <4>1. made[p].number <= Cardinality(Past') /\ NoRow.number <= Cardinality(Past')
        BY <1>3, <1>4, <1>5, <3>1
      <4>2. QED
        BY <1>6, <4>1
    <3>3. work'[p].overtaken <= Cardinality(Past')
      <4>1. work[p].overtaken <= Cardinality(Past')
        BY <1>3, <1>4, <3>1
      <4>2. work'[p].overtaken = work[p].overtaken
        BY <1>1 DEF Accounted
      <4>3. QED
        BY <4>1, <4>2
    <3>4. 1..(Cardinality(Past) + 1) \subseteq 1..(Cardinality(Past') + 1)
      BY <1>3
    <3>5. CASE p = q
      <4>1. w.at = "insert" => w.number \in 1..(Cardinality(Past') + 1)
        BY <3>4 DEF Placed
      <4>2. made'[p] # NoRow =>
              /\ w.at \in {"audit", "commit", "answered", "failed"}
              /\ made'[p] = [kind |-> w.kind, number |-> w.number]
        <5>1. made'[p] # NoRow => made[q] # NoRow /\ made'[p] = made[q]
          BY <1>6, <3>5
        <5>2. made[q] # NoRow => made[q] = [kind |-> work[q].kind, number |-> work[q].number]
          BY <1>0 DEF RowsInserted
        <5>3. QED
          BY <5>1, <5>2 DEF Placed
      <4>3. QED
        BY <1>1, <3>2, <3>3, <3>5, <4>1, <4>2 DEF Placed
    <3>6. CASE p # q
      <4>1. work'[p] = work[p]
        BY <1>1, <3>6
      <4>2. work[p].at = "insert" => work[p].number \in 1..(Cardinality(Past') + 1)
        BY <1>0, <3>4 DEF RowsInserted
      <4>3. made'[p] # NoRow =>
              /\ work[p].at \in {"audit", "commit", "answered", "failed"}
              /\ made'[p] = [kind |-> work[p].kind, number |-> work[p].number]
        BY <1>0, <1>6 DEF RowsInserted
      <4>4. /\ work[p].at = "idle" => work[p] = Unstarted
            /\ work[p].at \in {"begin", "commit"} => work[p].kind \in Unique
            /\ work[p].at \in {"number", "insert"} => work[p].kind \in Kinds
            /\ work[p].at = "delete" => work[p].kind = "none" /\ work[p].target \in Requests
        BY <1>0 DEF RowsInserted
      <4>5. QED
        BY <3>2, <3>3, <4>1, <4>2, <4>3, <4>4
    <3>7. QED
      BY <3>5, <3>6
  <2>2. QED
    BY <2>1 DEF RowsInserted
<1>9. NumbersAbove'
  <2>1. ASSUME NEW r \in Requests, NEW p \in work'[r].seen
        PROVE  /\ p \in Past'
               /\ made'[p].kind = work'[r].kind /\ made'[p].kind \in Kinds => made'[p].number < work'[r].number
    <3>1. /\ p \in Past
          /\ made[p].kind = work'[r].kind /\ made[p].kind \in Kinds => made[p].number < work'[r].number
      <4>1. CASE r = q
        BY <1>1, <2>1, <4>1 DEF Placed
      <4>2. CASE r # q
        BY <1>0, <1>1, <2>1, <4>2 DEF NumbersAbove
      <4>3. QED
        BY <4>1, <4>2
    <3>2. p \in Requests
      BY <3>1 DEF Past
    <3>3. QED
      BY <1>2, <1>5, <1>6, <3>1, <3>2
  <2>2. QED
    BY <2>1 DEF NumbersAbove
<1>10. AttemptsOvertaken'
  <2>1. ASSUME NEW p \in Requests
        PROVE  /\ work'[p].tries <= work'[p].overtaken
               /\ work'[p].at \in {"idle", "begin", "number", "insert"} => work'[p].tries < MaxNumberRetries
               /\ work'[p].at = "insert" /\ ~({x \in Requests : made'[x].kind = work'[p].kind} \subseteq work'[p].seen) =>
                    work'[p].tries + 1 <= work'[p].overtaken
               /\ work'[p].at = "gave up" => work'[p].tries = MaxNumberRetries
    <3>1. work'[p].at = "insert" => {x \in Requests : made'[x].kind = work'[p].kind} \subseteq RowsOf(work'[p].kind)
      <4>1. work'[p].at = "insert" => work'[p].kind \in Kinds
        BY <1>8 DEF RowsInserted
      <4>2. QED
        BY <1>5, <1>6, <4>1 DEF RowsOf
    <3>2. CASE p = q
      BY <1>1, <3>1, <3>2 DEF Placed, Accounted
    <3>3. CASE p # q
      <4>1. work'[p] = work[p]
        BY <1>1, <3>3
      <4>2. QED
        BY <1>0, <3>1, <4>1 DEF AttemptsOvertaken
    <3>4. QED
      BY <3>2, <3>3
  <2>2. QED
    BY <2>1 DEF AttemptsOvertaken, RowsOf
<1>11. QED
  BY <1>1, <1>7, <1>8, <1>9, <1>10 DEF NumberInv, ConnectionsHeld, Replaced

\* Steps of other areas keep the invariant of the numbers.
LEMMA NumbersKept == NumberInv /\ UNCHANGED numberVars => NumberInv'
<1> SUFFICES ASSUME NumberInv, UNCHANGED numberVars PROVE NumberInv'
  OBVIOUS
<1>1. UNCHANGED <<made, work, held>>
  BY DEF numberVars
<1>2. Past' = Past /\ InTransaction' = InTransaction
  BY <1>1 DEF Past, InTransaction
<1>3. NumberTypeOK' /\ RowsInserted' /\ NumbersAbove' /\ AttemptsOvertaken' /\ ConnectionsHeld'
  BY <1>1, <1>2 DEF NumberInv, NumberTypeOK, RowsInserted, NumbersAbove, AttemptsOvertaken, RowsOf, ConnectionsHeld
<1>4. QED
  BY <1>1, <1>3 DEF NumberInv

\* The invariant of the numbers holds initially.
LEMMA NumbersInit == NumberInit => NumberInv
<1> SUFFICES ASSUME NumberInit PROVE NumberInv
  OBVIOUS
<1>1. Cardinality(Requests) \in Nat
  BY Counted
<1>2. Unstarted \in Work
  BY <1>1, NumberingAssumption DEF Unstarted, Work
<1>3. /\ made = [q \in Requests |-> NoRow] /\ work = [q \in Requests |-> Unstarted] /\ held = 0
      /\ Unstarted.at = "idle" /\ Unstarted.seen = {} /\ Unstarted.tries = 0 /\ Unstarted.overtaken = 0
      /\ NoRow.number = 0
  BY DEF NumberInit, Unstarted, NoRow
<1>4. Past = {} /\ InTransaction = {}
  BY <1>3 DEF Past, InTransaction
<1>5. Cardinality({}) = 0
  BY FS_EmptySet
<1>6. NumberTypeOK
  BY <1>2, <1>3, NumberTypes, NumberingAssumption
<1>7. ASSUME NEW q \in Requests
      PROVE  /\ work[q] = Unstarted /\ made[q] = NoRow /\ work[q].at = "idle" /\ work[q].seen = {}
             /\ made[q].number <= Cardinality(Past) /\ work[q].overtaken <= Cardinality(Past)
             /\ work[q].tries <= work[q].overtaken /\ work[q].tries < MaxNumberRetries
  <2>1. made[q] = NoRow /\ work[q] = Unstarted
    BY <1>3
  <2>2. made[q].number = 0 /\ work[q].overtaken = 0 /\ work[q].tries = 0
    BY <1>3, <2>1
  <2>3. Cardinality(Past) = 0 /\ MaxNumberRetries > 0
    BY <1>4, <1>5, NumberingAssumption
  <2>4. work[q].at = "idle" /\ work[q].seen = {}
    BY <1>3, <2>1
  <2>5. made[q].number <= Cardinality(Past) /\ work[q].overtaken <= Cardinality(Past)
    BY <2>2, <2>3
  <2>6. work[q].tries <= work[q].overtaken /\ work[q].tries < MaxNumberRetries
    BY <2>2, <2>3
  <2>7. QED
    BY <2>1, <2>4, <2>5, <2>6
<1>8. RowsInserted /\ NumbersAbove /\ AttemptsOvertaken
  <2>1. RowsInserted
    BY <1>7 DEF RowsInserted
  <2>2. NumbersAbove
    BY <1>7 DEF NumbersAbove
  <2>3. AttemptsOvertaken
    BY <1>7 DEF AttemptsOvertaken
  <2>4. QED
    BY <2>1, <2>2, <2>3
<1>9. QED
  BY <1>2, <1>3, <1>4, <1>5, <1>6, <1>8 DEF NumberInv, ConnectionsHeld

\* A transaction is a connection.
InTransactionWith(w) == w.kind \in Unique /\ w.at \in {"number", "insert", "audit", "commit"}

\* A connection is taken and given back with the transaction of one request.
LEMMA TransactionsCounted ==
  ASSUME NumberInv, NEW q \in Requests, NEW w \in Work, work' = [work EXCEPT ![q] = w]
  PROVE  /\ q \in InTransaction /\ InTransactionWith(w) => Cardinality(InTransaction') = held
         /\ q \notin InTransaction /\ InTransactionWith(w) => Cardinality(InTransaction') = held + 1
         /\ q \in InTransaction /\ ~InTransactionWith(w) => Cardinality(InTransaction') = held - 1 /\ held >= 1
         /\ q \notin InTransaction /\ ~InTransactionWith(w) => Cardinality(InTransaction') = held
<1>1. /\ work \in [Requests -> Work] /\ held = Cardinality(InTransaction)
      /\ work'[q] = w /\ \A p \in Requests \ {q} : work'[p] = work[p]
  BY DEF NumberInv, ConnectionsHeld
<1>2. InTransaction \in SUBSET Requests
  BY DEF InTransaction
<1>3. InTransactionWith(w) => InTransaction' = InTransaction \union {q}
  BY <1>1 DEF InTransaction, InTransactionWith
<1>4. ~InTransactionWith(w) => InTransaction' = InTransaction \ {q}
  BY <1>1 DEF InTransaction, InTransactionWith
<1>5. /\ q \notin InTransaction => Cardinality(InTransaction \union {q}) = held + 1
      /\ q \in InTransaction => Cardinality(InTransaction \ {q}) = held - 1 /\ held >= 1
  BY <1>1, <1>2, Counted
<1>6. /\ q \in InTransaction => InTransaction \union {q} = InTransaction
      /\ q \notin InTransaction => InTransaction \ {q} = InTransaction
  OBVIOUS
<1>7. QED
  BY <1>1, <1>3, <1>4, <1>5, <1>6

\* Rows that are in place stay where the record of their request lets them be.
LEMMA KeptPlaced ==
  ASSUME NumberInv, NEW q \in Requests, NEW w \in Work, w.at # "idle", w.at # "insert",
         w.kind = work[q].kind, w.number = work[q].number, w.seen = work[q].seen,
         q \in Past => w.at \notin {"begin", "number", "insert"},
         made[q] # NoRow => w.at \in {"audit", "commit", "answered", "failed"},
         w.at \in {"begin", "commit"} => w.kind \in Unique,
         w.at = "number" => w.kind \in Kinds,
         w.at # "delete"
  PROVE  Placed(q, w)
<1>1. \A p \in w.seen : p \in Past /\ (made[p].kind = w.kind /\ made[p].kind \in Kinds => made[p].number < w.number)
  BY DEF NumberInv, NumbersAbove
<1>2. QED
  BY <1>1 DEF Placed

\* A request that proceeds changes its place and nothing else.
LEMMA ProceedsWork ==
  ASSUME NumberInv, NEW q \in Requests, NEW from,
         NEW to \in {"number", "audit", "commit", "answered", "failed"}, Proceeds(q, from, to)
  PROVE  \E w \in Work :
           /\ work' = [work EXCEPT ![q] = w] /\ work[q].at = from /\ w.at = to
           /\ w.kind = work[q].kind /\ w.number = work[q].number /\ w.target = work[q].target
           /\ w.tries = work[q].tries /\ w.seen = work[q].seen /\ w.overtaken = work[q].overtaken
<1> DEFINE w == [work[q] EXCEPT !.at = to]
<1>1. work \in [Requests -> Work]
  BY DEF NumberInv
<1>2. /\ w \in Work /\ w.at = to
      /\ w.kind = work[q].kind /\ w.number = work[q].number /\ w.target = work[q].target
      /\ w.tries = work[q].tries /\ w.seen = work[q].seen /\ w.overtaken = work[q].overtaken
  <2>1. work[q] \in Work
    BY <1>1
  <2>2. w \in Work
    BY <2>1 DEF Work
  <2>3. w.at = to
    BY <2>1 DEF Work
  <2>4. w.kind = work[q].kind /\ w.number = work[q].number /\ w.target = work[q].target
    BY <2>1 DEF Work
  <2>5. w.tries = work[q].tries /\ w.seen = work[q].seen /\ w.overtaken = work[q].overtaken
    BY <2>1 DEF Work
  <2>6. QED
    BY <2>2, <2>3, <2>4, <2>5
<1>3. work' = [work EXCEPT ![q] = w] /\ work[q].at = from
  BY DEF Proceeds, At
<1> HIDE DEF w
<1>4. QED
  BY <1>2, <1>3

\* A request goes on as it was asked to: the steps that read and choose nothing.
LEMMA NumberProceeds ==
  ASSUME NumberInv, NEW q \in Requests, NEW from \in {"begin", "number", "insert", "audit", "commit", "delete"},
         NEW to \in {"number", "audit", "commit", "answered", "failed"}, Proceeds(q, from, to),
         to = "number" => from = "begin", to = "commit" => work[q].kind \in Unique,
         from \in {"begin", "number", "insert"} => to \in {"number", "failed"},
         made' \in [Requests -> {NoRow} \union [kind: Kinds, number: Numbers]],
         \A p \in Requests : made'[p] \in {made[p], NoRow},
         held' \in 0..MaxOpenConns, held' = Cardinality(InTransaction')
  PROVE  NumberInv'
<1>1. PICK w \in Work :
           /\ work' = [work EXCEPT ![q] = w] /\ work[q].at = from /\ w.at = to
           /\ w.kind = work[q].kind /\ w.number = work[q].number /\ w.target = work[q].target
           /\ w.tries = work[q].tries /\ w.seen = work[q].seen /\ w.overtaken = work[q].overtaken
  BY ProceedsWork
<1>2. RowsInserted /\ AttemptsOvertaken
  BY DEF NumberInv
<1>3. q \in Past => from \notin {"begin", "number", "insert"}
  BY <1>1 DEF Past
<1>4. made[q] # NoRow => from \in {"audit", "commit"}
  BY <1>1, <1>2 DEF RowsInserted
<1>5. from = "begin" => w.kind \in Unique /\ w.kind \in Kinds
  BY <1>1, <1>2 DEF RowsInserted, Kinds
<1>6. Placed(q, w)
  BY <1>1, <1>3, <1>4, <1>5, KeptPlaced
<1>7. work[q].tries <= work[q].overtaken /\ (from = "begin" => work[q].tries < MaxNumberRetries)
  BY <1>1, <1>2 DEF AttemptsOvertaken
<1>8. Accounted(q, w)
  BY <1>1, <1>7 DEF Accounted
<1>9. Replaced(q, w)
  BY <1>1 DEF Replaced
<1>10. QED
  BY <1>6, <1>8, <1>9, NumberMoves

\* A request that begins keeps the invariant of the numbers.
LEMMA NumbersBegin ==
  ASSUME NumberInv, NEW q \in Requests, NumberBegins(q)
  PROVE  NumberInv'
<1>0. /\ NumberTypeOK /\ work \in [Requests -> Work] /\ RowsInserted /\ AttemptsOvertaken
      /\ held = Cardinality(InTransaction) /\ held \in 0..MaxOpenConns
  BY DEF NumberInv, ConnectionsHeld, NumberTypeOK
<1>1. work[q].at = "idle" /\ UNCHANGED <<made, held>>
  BY DEF NumberBegins, StartCreation, GetMilestone, At
<1>2. work[q] = Unstarted /\ made[q] = NoRow /\ q \notin Past /\ q \notin InTransaction
  BY <1>0, <1>1 DEF RowsInserted, Past, InTransaction
<1>3. Unstarted \in Work /\ Unstarted.kind = "none" /\ Unstarted.seen = {}
  <2>1. Unstarted \in Work
    BY <1>0, <1>2
  <2>2. QED
    BY <2>1 DEF Unstarted
<1>4. work[q].tries <= work[q].overtaken /\ work[q].tries < MaxNumberRetries
  BY <1>0, <1>1 DEF AttemptsOvertaken
<1>5. PICK w \in Work :
        /\ work' = [work EXCEPT ![q] = w] /\ w.at \in {"begin", "number", "delete"} /\ w.seen = {}
        /\ w.tries = work[q].tries /\ w.overtaken = work[q].overtaken
        /\ w.at = "begin" => w.kind \in Unique
        /\ w.at = "number" => w.kind \in Kinds /\ w.kind \notin Unique
        /\ w.at = "delete" => w.kind = "none" /\ w.target \in Requests
  <2>1. ASSUME NEW kind \in Kinds, StartCreation(q, kind)
        PROVE  \E w \in Work :
                 /\ work' = [work EXCEPT ![q] = w] /\ w.seen = {}
                 /\ w.at = IF kind \in Unique THEN "begin" ELSE "number"
                 /\ w.tries = work[q].tries /\ w.overtaken = work[q].overtaken
                 /\ w.kind = kind
    <3> DEFINE at == IF kind \in Unique THEN "begin" ELSE "number"
               w == [work[q] EXCEPT !.at = at, !.kind = kind]
    <3>1. at \in {"begin", "number"}
      OBVIOUS
    <3>2. work' = [work EXCEPT ![q] = w]
      BY <2>1 DEF StartCreation
    <3>3. at = IF kind \in Unique THEN "begin" ELSE "number"
      OBVIOUS
    <3> HIDE DEF at
    <3>4. work[q] \in Work
      BY <1>0
    <3>5. w \in Work
      BY <3>1, <3>4 DEF Work
    <3>6. w.at = at /\ w.kind = kind /\ w.seen = work[q].seen
      BY <3>4 DEF Work
    <3>7. w.tries = work[q].tries /\ w.overtaken = work[q].overtaken
      BY <3>4 DEF Work
    <3> HIDE DEF w
    <3>8. QED
      BY <1>2, <1>3, <3>2, <3>3, <3>5, <3>6, <3>7
  <2>2. ASSUME NEW p \in Requests, GetMilestone(q, p)
        PROVE  \E w \in Work :
                 /\ work' = [work EXCEPT ![q] = w] /\ w.seen = {}
                 /\ w.at = "delete" /\ w.target = p /\ w.kind = "none"
                 /\ w.tries = work[q].tries /\ w.overtaken = work[q].overtaken
    <3> DEFINE w == [work[q] EXCEPT !.at = "delete", !.target = p]
    <3>1. work' = [work EXCEPT ![q] = w]
      BY <2>2 DEF GetMilestone
    <3>2. work[q] \in Work
      BY <1>0
    <3>3. w \in Work
      BY <3>2 DEF Work
    <3>4. w.at = "delete" /\ w.target = p /\ w.seen = work[q].seen /\ w.kind = work[q].kind
      BY <3>2 DEF Work
    <3>5. w.tries = work[q].tries /\ w.overtaken = work[q].overtaken
      BY <3>2 DEF Work
    <3> HIDE DEF w
    <3>6. QED
      BY <1>2, <1>3, <3>1, <3>3, <3>4, <3>5
  <2>3. QED
    BY <2>1, <2>2 DEF NumberBegins
<1>6. ~InTransactionWith(w)
  BY <1>5 DEF InTransactionWith
<1>7. Cardinality(InTransaction') = held
  BY <1>2, <1>5, <1>6, TransactionsCounted
<1>8. Replaced(q, w)
  BY <1>0, <1>1, <1>5, <1>7 DEF Replaced, NumberTypeOK
<1>9. Placed(q, w)
  BY <1>2, <1>5 DEF Placed, Kinds
<1>10. Accounted(q, w)
  BY <1>4, <1>5 DEF Accounted
<1>11. QED
  BY <1>8, <1>9, <1>10, NumberMoves

\* The next number is above those of the rows that were there.
LEMMA NextNumberKept ==
  ASSUME NumberInv, NEW q \in Requests, NextNumber(q)
  PROVE  NumberInv'
<1> DEFINE rows == RowsOf(work[q].kind)
           read == {0} \union {made[p].number : p \in rows}
           w == [work[q] EXCEPT !.at = "insert", !.seen = rows, !.number = Max(read) + 1]
<1>0. /\ NumberTypeOK /\ work \in [Requests -> Work] /\ RowsInserted /\ AttemptsOvertaken
      /\ held = Cardinality(InTransaction) /\ held \in 0..MaxOpenConns
      /\ made \in [Requests -> {NoRow} \union [kind: Kinds, number: Numbers]]
  BY DEF NumberInv, ConnectionsHeld, NumberTypeOK
<1>1. work[q].at = "number" /\ UNCHANGED <<made, held>> /\ work[q].kind \in Kinds
  BY <1>0 DEF NextNumber, At, RowsInserted
<1>2. work' = [work EXCEPT ![q] = w]
  BY DEF NextNumber
<1>3. q \notin Past /\ made[q] = NoRow
  BY <1>0, <1>1 DEF Past, RowsInserted
<1>4. /\ Cardinality(Past) \in Nat /\ Cardinality(Requests) \in Nat
      /\ Cardinality(Past) + 1 <= Cardinality(Requests)
  <2>1. Past \in SUBSET Requests
    BY DEF Past
  <2>2. QED
    BY <1>3, <2>1, Counted, RoomForNumber
<1>5. NoRow.kind = "none" /\ NoRow.number = 0 /\ "none" \notin Kinds
  BY DEF NoRow, Kinds, Unique
<1>6. rows \subseteq Past
  <2>1. ASSUME NEW p \in rows PROVE p \in Past
    <3>1. p \in Requests /\ made[p] # NoRow
      BY <1>1, <1>5 DEF RowsOf
    <3>2. QED
      BY <1>0, <3>1 DEF RowsInserted, Past
  <2>2. QED
    BY <2>1
<1>7. \A p \in Requests : made[p].number \in 0..Cardinality(Past)
  <2>1. TAKE p \in Requests
  <2>2. made[p].number <= Cardinality(Past)
    BY <1>0 DEF RowsInserted
  <2>3. made[p].number \in Nat
    <3>1. Numbers \subseteq Nat
      BY <1>4 DEF Numbers
    <3>2. NoRow.number \in Nat
      BY <1>5
    <3>3. QED
      BY <1>0, <3>1, <3>2
  <2>4. QED
    BY <1>4, <2>2, <2>3
<1>8. read \in SUBSET (0..Cardinality(Past)) /\ read # {}
  <2>1. 0 \in 0..Cardinality(Past)
    BY <1>4
  <2>2. rows \subseteq Requests
    BY DEF RowsOf
  <2>3. QED
    BY <1>7, <2>1, <2>2
<1>9. Max(read) \in read /\ \A s \in read : Max(read) >= s
  BY <1>4, <1>8, MaxBounds
<1>10. \A p \in rows : made[p].number \in read
  OBVIOUS
<1> DEFINE n == Max(read) + 1
<1> HIDE DEF read
<1>11. Max(read) \in 0..Cardinality(Past)
  BY <1>8, <1>9
<1>12. n \in 1..(Cardinality(Past) + 1) /\ n \in Numbers
  BY <1>4, <1>11 DEF Numbers
<1>13. \A p \in rows : made[p].number < n
  <2>1. TAKE p \in rows
  <2>2. made[p].number \in 0..Cardinality(Past) /\ Max(read) >= made[p].number
    BY <1>8, <1>9, <1>10
  <2>3. QED
    BY <1>4, <1>11, <2>2
<1>14. w = [work[q] EXCEPT !.at = "insert", !.seen = rows, !.number = n]
  OBVIOUS
<1>15. rows \subseteq Requests /\ RowsOf(work[q].kind) = rows
  BY DEF RowsOf
<1> HIDE DEF n, w, rows
<1>16. work[q] \in Work
  BY <1>0
<1>17. w \in Work
  BY <1>12, <1>14, <1>15, <1>16 DEF Work
<1>18. w.at = "insert" /\ w.seen = rows /\ w.number = n
  BY <1>14, <1>16 DEF Work
<1>19. w.kind = work[q].kind /\ w.tries = work[q].tries /\ w.overtaken = work[q].overtaken
  BY <1>14, <1>16 DEF Work
<1>20. InTransactionWith(w) = (q \in InTransaction)
  BY <1>1, <1>18, <1>19 DEF InTransactionWith, InTransaction
<1>21. Cardinality(InTransaction') = held
  BY <1>2, <1>17, <1>20, TransactionsCounted
<1>22. Replaced(q, w)
  BY <1>0, <1>1, <1>2, <1>17, <1>21 DEF Replaced
<1>23. Placed(q, w)
  BY <1>1, <1>3, <1>6, <1>12, <1>13, <1>15, <1>18, <1>19 DEF Placed
<1>24. Accounted(q, w)
  <2>1. work[q].tries <= work[q].overtaken /\ work[q].tries < MaxNumberRetries
    BY <1>0, <1>1 DEF AttemptsOvertaken
  <2>2. QED
    BY <1>18, <1>19, <2>1 DEF Accounted
<1>25. QED
  BY <1>22, <1>23, <1>24, NumberMoves

\* The row that is in the way was inserted after the number was read.
LEMMA ConflictKept ==
  ASSUME NumberInv, NEW q \in Requests, Conflict(q)
  PROVE  NumberInv'
<1> DEFINE at == IF work[q].tries + 1 = MaxNumberRetries THEN "gave up" ELSE "begin"
           w == [work[q] EXCEPT !.at = at, !.tries = @ + 1]
<1>0. /\ NumberTypeOK /\ work \in [Requests -> Work] /\ RowsInserted /\ AttemptsOvertaken /\ NumbersAbove
      /\ held = Cardinality(InTransaction) /\ held \in 0..MaxOpenConns
      /\ made \in [Requests -> {NoRow} \union [kind: Kinds, number: Numbers]]
  BY DEF NumberInv, ConnectionsHeld, NumberTypeOK
<1>1. /\ work[q].at = "insert" /\ made' = made /\ held' = held - 1 /\ work[q].kind \in Unique
      /\ work' = [work EXCEPT ![q] = w]
  BY DEF Conflict, At
<1>2. PICK p \in Requests : made[p] = [kind |-> work[q].kind, number |-> work[q].number]
  BY DEF Conflict
<1>3. q \notin Past /\ made[q] = NoRow /\ q \in InTransaction
  BY <1>0, <1>1 DEF Past, RowsInserted, InTransaction
<1>4. work[q] \in Work /\ MaxNumberRetries \in Nat \ {0} /\ MaxOpenConns \in Nat /\ Cardinality(Requests) \in Nat
  BY <1>0, NumberingAssumption, Counted
<1>5. work[q].tries \in 0..MaxNumberRetries /\ work[q].overtaken \in Nat /\ work[q].number \in Nat
  <2>1. work[q].overtaken \in 0..Cardinality(Requests) /\ work[q].number \in Numbers \union {0}
    BY <1>4 DEF Work
  <2>2. Numbers \union {0} \subseteq Nat /\ 0..Cardinality(Requests) \subseteq Nat
    BY <1>4 DEF Numbers
  <2>3. work[q].tries \in 0..MaxNumberRetries
    BY <1>4 DEF Work
  <2>4. QED
    BY <2>1, <2>2, <2>3
<1>6. p \notin work[q].seen
  <2> SUFFICES ASSUME p \in work[q].seen PROVE FALSE
    OBVIOUS
  <2>1. made[p].kind = work[q].kind /\ made[p].kind \in Kinds /\ made[p].number = work[q].number
    BY <1>1, <1>2 DEF Kinds
  <2>2. made[p].number < work[q].number
    BY <1>0, <2>1 DEF NumbersAbove
  <2>3. QED
    BY <1>5, <2>1, <2>2
<1>7. p \in RowsOf(work[q].kind)
  BY <1>2 DEF RowsOf
<1>8. work[q].tries + 1 <= work[q].overtaken /\ work[q].tries < MaxNumberRetries
  BY <1>0, <1>1, <1>6, <1>7 DEF AttemptsOvertaken
<1>9. /\ at \in {"gave up", "begin"} /\ (at = "gave up" => work[q].tries + 1 = MaxNumberRetries)
      /\ (at = "begin" => work[q].tries + 1 < MaxNumberRetries)
  BY <1>4, <1>5, <1>8
<1> HIDE DEF at
<1>10. work[q].tries + 1 \in 0..MaxNumberRetries
  BY <1>4, <1>5, <1>8
<1>11. w \in Work
  BY <1>4, <1>9, <1>10 DEF Work
<1>12. w.at = at /\ w.tries = work[q].tries + 1
  BY <1>4 DEF Work
<1>13. w.kind = work[q].kind /\ w.number = work[q].number /\ w.seen = work[q].seen /\ w.overtaken = work[q].overtaken
  BY <1>4 DEF Work
<1> HIDE DEF w
<1>14. ~InTransactionWith(w)
  BY <1>9, <1>12 DEF InTransactionWith
<1>15. Cardinality(InTransaction') = held - 1 /\ held >= 1
  BY <1>1, <1>3, <1>11, <1>14, TransactionsCounted
<1>16. held' \in 0..MaxOpenConns
  BY <1>0, <1>1, <1>4, <1>15
<1>17. Replaced(q, w)
  BY <1>0, <1>1, <1>11, <1>15, <1>16 DEF Replaced
<1>18. Placed(q, w)
  BY <1>1, <1>3, <1>9, <1>11, <1>12, <1>13, KeptPlaced
<1>19. Accounted(q, w)
  BY <1>8, <1>9, <1>12, <1>13 DEF Accounted
<1>20. QED
  BY <1>17, <1>18, <1>19, NumberMoves

\* An insertion counts against the attempts of all others of its kind.
LEMMA InsertKept ==
  ASSUME NumberInv, NEW q \in Requests, Insert(q)
  PROVE  NumberInv'
<1> DEFINE row == [kind |-> work[q].kind, number |-> work[q].number]
           w == [work[q] EXCEPT !.at = "audit"]
           late(p) == [work[p] EXCEPT !.overtaken = @ + 1]
           n == Cardinality(Past)
<1>0. /\ NumberTypeOK /\ work \in [Requests -> Work] /\ RowsInserted /\ AttemptsOvertaken /\ NumbersAbove
      /\ held = Cardinality(InTransaction) /\ held \in 0..MaxOpenConns
      /\ made \in [Requests -> {NoRow} \union [kind: Kinds, number: Numbers]]
  BY DEF NumberInv, ConnectionsHeld, NumberTypeOK
<1>1. work[q].at = "insert" /\ held' = held /\ made' = [made EXCEPT ![q] = row]
  BY DEF Insert, At
<1>2. work' = [p \in Requests |->
           CASE p = q -> w
             [] p # q /\ InFlight(p) /\ work[p].kind = row.kind -> late(p)
             [] OTHER -> work[p]]
  BY DEF Insert
<1>3. q \notin Past /\ made[q] = NoRow /\ work[q].kind \in Kinds /\ work[q].number \in 1..(n + 1)
  BY <1>0, <1>1 DEF Past, RowsInserted
<1>4. Past \in SUBSET Requests
  BY DEF Past
<1>5. n \in Nat /\ Cardinality(Requests) \in Nat /\ n + 1 <= Cardinality(Requests)
      /\ Cardinality(Past \union {q}) = n + 1
  BY <1>3, <1>4, Counted, RoomForNumber
<1> HIDE DEF n
<1>6. work[q].number \in Numbers
  BY <1>3, <1>5 DEF Numbers
<1>7. row \in [kind: Kinds, number: Numbers] /\ row.kind = work[q].kind /\ row.number = work[q].number
  BY <1>3, <1>6
<1>8. /\ w \in Work /\ w.at = "audit" /\ w.kind = work[q].kind /\ w.number = work[q].number
      /\ w.tries = work[q].tries /\ w.seen = work[q].seen /\ w.overtaken = work[q].overtaken
  <2>1. work[q] \in Work
    BY <1>0
  <2>2. w \in Work
    BY <2>1 DEF Work
  <2>3. w.at = "audit" /\ w.kind = work[q].kind /\ w.number = work[q].number
    BY <2>1 DEF Work
  <2>4. w.tries = work[q].tries /\ w.seen = work[q].seen /\ w.overtaken = work[q].overtaken
    BY <2>1 DEF Work
  <2>5. QED
    BY <2>2, <2>3, <2>4
<1>9. \A p \in Requests : work[p].overtaken \in 0..n
  <2>1. TAKE p \in Requests
  <2>2. work[p].overtaken \in 0..Cardinality(Requests)
    BY <1>0 DEF Work
  <2>3. work[p].overtaken <= n
    BY <1>0 DEF RowsInserted, n
  <2>4. QED
    BY <1>5, <2>2, <2>3
<1>10. ASSUME NEW p \in Requests
       PROVE  /\ late(p) \in Work /\ late(p).overtaken = work[p].overtaken + 1 /\ late(p).at = work[p].at
              /\ late(p).kind = work[p].kind /\ late(p).number = work[p].number
              /\ late(p).target = work[p].target /\ late(p).tries = work[p].tries /\ late(p).seen = work[p].seen
  <2>1. work[p] \in Work
    BY <1>0
  <2>2. work[p].overtaken + 1 \in 0..Cardinality(Requests)
    BY <1>5, <1>9
  <2>3. late(p) \in Work
    BY <2>1, <2>2 DEF Work
  <2>4. late(p).overtaken = work[p].overtaken + 1 /\ late(p).at = work[p].at
    BY <2>1 DEF Work
  <2>5. late(p).kind = work[p].kind /\ late(p).number = work[p].number
    BY <2>1 DEF Work
  <2>6. late(p).target = work[p].target /\ late(p).tries = work[p].tries /\ late(p).seen = work[p].seen
    BY <2>1 DEF Work
  <2>7. QED
    BY <2>3, <2>4, <2>5, <2>6
<1> HIDE DEF w, late, row
<1>11. work'[q] = w
  BY <1>2
<1>12. ASSUME NEW p \in Requests, p # q
       PROVE  /\ work'[p] \in {work[p], late(p)}
              /\ InFlight(p) /\ work[p].kind = work[q].kind => work'[p] = late(p)
  <2>1. CASE InFlight(p) /\ work[p].kind = row.kind
    BY <1>2, <1>12, <2>1
  <2>2. CASE ~(InFlight(p) /\ work[p].kind = row.kind)
    BY <1>2, <1>7, <1>12, <2>2
  <2>3. QED
    BY <1>7, <2>1, <2>2
<1>13. ASSUME NEW p \in Requests, p # q
       PROVE  /\ work'[p] \in Work /\ work'[p].at = work[p].at
              /\ work'[p].kind = work[p].kind /\ work'[p].number = work[p].number
              /\ work'[p].target = work[p].target /\ work'[p].tries = work[p].tries /\ work'[p].seen = work[p].seen
              /\ work'[p].overtaken \in {work[p].overtaken, work[p].overtaken + 1}
              /\ InFlight(p) /\ work[p].kind = work[q].kind => work'[p].overtaken = work[p].overtaken + 1
              /\ ~InFlight(p) => work'[p] = work[p]
  <2>1. work[p] \in Work
    BY <1>0
  <2>2. ~InFlight(p) => work'[p] = work[p]
    BY <1>2, <1>13
  <2>3. CASE work'[p] = late(p)
    BY <1>10, <2>2, <2>3
  <2>4. CASE work'[p] = work[p]
    BY <1>10, <1>12, <1>13, <2>1, <2>4
  <2>5. QED
    BY <1>12, <1>13, <2>3, <2>4
<1>14. work' \in [Requests -> Work]
  <2> DEFINE new(p) == CASE p = q -> w
             [] p # q /\ InFlight(p) /\ work[p].kind = row.kind -> late(p)
             [] OTHER -> work[p]
  <2>1. work' = [p \in Requests |-> new(p)]
    BY <1>2
  <2>2. \A p \in Requests : work'[p] \in Work
    BY <1>8, <1>11, <1>13
  <2> HIDE DEF new
  <2>3. QED
    BY <2>1, <2>2
<1>15. made'[q] = row /\ \A p \in Requests \ {q} : made'[p] = made[p]
  BY <1>0, <1>1
<1>16. Past' = Past \union {q}
  BY <1>4, <1>8, <1>11, <1>13 DEF Past
<1>17. Cardinality(Past') = n + 1
  BY <1>5, <1>16
<1>18. InTransaction' = InTransaction
  BY <1>1, <1>8, <1>11, <1>13 DEF InTransaction
<1>19. NumberTypeOK'
  <2>1. made' \in [Requests -> {NoRow} \union [kind: Kinds, number: Numbers]]
    BY <1>0, <1>1, <1>7
  <2>2. QED
    BY <1>0, <1>1, <1>14, <2>1, NumberTypes DEF NumberTypeOK, Work
<1>20. RowsInserted'
  <2>1. ASSUME NEW p \in Requests
        PROVE  /\ work'[p].at = "idle" => work'[p] = Unstarted
               /\ made'[p] # NoRow =>
                    /\ work'[p].at \in {"audit", "commit", "answered", "failed"}
                    /\ made'[p] = [kind |-> work'[p].kind, number |-> work'[p].number]
               /\ made'[p].number <= Cardinality(Past')
               /\ work'[p].at = "insert" => work'[p].number \in 1..(Cardinality(Past') + 1)
               /\ work'[p].overtaken <= Cardinality(Past')
               /\ work'[p].at \in {"begin", "commit"} => work'[p].kind \in Unique
               /\ work'[p].at \in {"number", "insert"} => work'[p].kind \in Kinds
               /\ work'[p].at = "delete" => work'[p].kind = "none" /\ work'[p].target \in Requests
    <3>1. CASE p = q
      <4>1. row.number <= n + 1
        BY <1>3, <1>5, <1>7
      <4>2. w.overtaken <= n + 1
        BY <1>5, <1>8, <1>9
      <4>3. row = [kind |-> w.kind, number |-> w.number]
        BY <1>8 DEF row
      <4>4. made'[p].number <= Cardinality(Past') /\ work'[p].overtaken <= Cardinality(Past')
        BY <1>11, <1>15, <1>17, <3>1, <4>1, <4>2
      <4>5. QED
        BY <1>8, <1>11, <1>15, <3>1, <4>3, <4>4
    <3>2. CASE p # q
      <4>1. /\ work'[p].at = work[p].at
            /\ work'[p].kind = work[p].kind /\ work'[p].number = work[p].number
            /\ work'[p].target = work[p].target
            /\ work'[p].overtaken \in {work[p].overtaken, work[p].overtaken + 1}
            /\ ~InFlight(p) => work'[p] = work[p]
        BY <1>13, <3>2
      <4>2. work'[p].overtaken <= Cardinality(Past')
        BY <1>5, <1>9, <1>17, <4>1
      <4>3. made[p].number <= n
        BY <1>0 DEF RowsInserted, n
      <4>4. made[p].number \in Nat
        <5>1. NoRow.number \in Nat
          BY DEF NoRow
        <5>2. Numbers \subseteq Nat
          BY <1>5 DEF Numbers
        <5>3. QED
          BY <1>0, <5>1, <5>2
      <4>5. made[p].number <= n + 1
        BY <1>5, <4>3, <4>4
      <4>6. made'[p].number <= Cardinality(Past')
        BY <1>15, <1>17, <3>2, <4>5
      <4>7. work[p].at = "insert" => work[p].number \in 1..(n + 1)
        BY <1>0 DEF RowsInserted, n
      <4>8. 1..(n + 1) \subseteq 1..(n + 1 + 1)
        BY <1>5
      <4>9. work'[p].at = "insert" => work'[p].number \in 1..(Cardinality(Past') + 1)
        BY <1>17, <4>1, <4>7, <4>8
      <4>10. work'[p].at = "idle" => work'[p] = Unstarted
        BY <1>0, <4>1 DEF RowsInserted, InFlight
      <4>11. made'[p] # NoRow =>
                    /\ work'[p].at \in {"audit", "commit", "answered", "failed"}
                    /\ made'[p] = [kind |-> work'[p].kind, number |-> work'[p].number]
        BY <1>0, <1>15, <3>2, <4>1 DEF RowsInserted
      <4>12. /\ work[p].at \in {"begin", "commit"} => work[p].kind \in Unique
             /\ work[p].at \in {"number", "insert"} => work[p].kind \in Kinds
             /\ work[p].at = "delete" => work[p].kind = "none" /\ work[p].target \in Requests
        BY <1>0 DEF RowsInserted
      <4>13. QED
        BY <4>1, <4>2, <4>6, <4>9, <4>10, <4>11, <4>12
    <3>3. QED
      BY <3>1, <3>2
  <2>2. QED
    BY <2>1 DEF RowsInserted
<1>21. NumbersAbove'
  <2>1. ASSUME NEW r \in Requests, NEW p \in work'[r].seen
        PROVE  /\ p \in Past'
               /\ made'[p].kind = work'[r].kind /\ made'[p].kind \in Kinds => made'[p].number < work'[r].number
    <3>1. work'[r].seen = work[r].seen /\ work'[r].kind = work[r].kind /\ work'[r].number = work[r].number
      BY <1>8, <1>11, <1>13
    <3>2. /\ p \in Past
          /\ made[p].kind = work[r].kind /\ made[p].kind \in Kinds => made[p].number < work[r].number
      BY <1>0, <2>1, <3>1 DEF NumbersAbove
    <3>3. made'[p] = made[p]
      BY <1>3, <1>4, <1>15, <3>2
    <3>4. QED
      BY <1>16, <3>1, <3>2, <3>3
  <2>2. QED
    BY <2>1 DEF NumbersAbove
<1>22. AttemptsOvertaken'
  <2>1. ASSUME NEW p \in Requests
        PROVE  /\ work'[p].tries <= work'[p].overtaken
               /\ work'[p].at \in {"idle", "begin", "number", "insert"} => work'[p].tries < MaxNumberRetries
               /\ work'[p].at = "insert" /\ ~({x \in Requests : made'[x].kind = work'[p].kind} \subseteq work'[p].seen) =>
                    work'[p].tries + 1 <= work'[p].overtaken
               /\ work'[p].at = "gave up" => work'[p].tries = MaxNumberRetries
    <3>1. /\ work[p].tries <= work[p].overtaken
          /\ work[p].at \in {"idle", "begin", "number", "insert"} => work[p].tries < MaxNumberRetries
          /\ work[p].at = "insert" /\ ~(RowsOf(work[p].kind) \subseteq work[p].seen) =>
               work[p].tries + 1 <= work[p].overtaken
          /\ work[p].at = "gave up" => work[p].tries = MaxNumberRetries
      BY <1>0 DEF AttemptsOvertaken
    <3>2. CASE p = q
      <4>1. w.at = "audit" /\ work'[p] = w
        BY <1>8, <1>11, <3>2
      <4>2. w.tries <= w.overtaken
        BY <1>8, <3>1, <3>2
      <4>3. QED
        BY <4>1, <4>2
    <3>3. CASE p # q
      <4>1. /\ work'[p].at = work[p].at /\ work'[p].kind = work[p].kind
            /\ work'[p].tries = work[p].tries /\ work'[p].seen = work[p].seen
            /\ work'[p].overtaken \in {work[p].overtaken, work[p].overtaken + 1}
            /\ InFlight(p) /\ work[p].kind = work[q].kind => work'[p].overtaken = work[p].overtaken + 1
        BY <1>13, <3>3
      <4>2. work[p].overtaken \in Nat /\ work[p].tries \in Nat
        <5>1. work[p].tries \in 0..MaxNumberRetries
          BY <1>0 DEF Work
        <5>2. work[p].overtaken \in 0..n
          BY <1>9
        <5>3. 0..MaxNumberRetries \subseteq Nat /\ 0..n \subseteq Nat
          BY <1>5, NumberingAssumption
        <5>4. work[p].tries \in Nat
          BY <5>1, <5>3
        <5>5. work[p].overtaken \in Nat
          BY <5>2, <5>3
        <5>6. QED
          BY <5>4, <5>5
      <4>3. work'[p].tries <= work'[p].overtaken
        <5>1. work[p].tries <= work[p].overtaken
          BY <3>1
        <5>2. work[p].tries <= work[p].overtaken + 1
          BY <4>2, <5>1
        <5>3. work'[p].tries = work[p].tries /\ work'[p].overtaken \in {work[p].overtaken, work[p].overtaken + 1}
          BY <4>1
        <5>4. QED
          BY <5>1, <5>2, <5>3
      <4>4. ASSUME work[p].at = "insert", work[p].kind # work[q].kind
            PROVE  {x \in Requests : made'[x].kind = work[p].kind} = RowsOf(work[p].kind)
        <5>1. work[p].kind \in Kinds
          BY <1>0, <4>4 DEF RowsInserted
        <5>2. made'[q].kind # work[p].kind /\ made[q].kind # work[p].kind
          BY <1>3, <1>7, <1>15, <4>4, <5>1 DEF NoRow, Kinds, Unique
        <5>3. QED
          BY <1>15, <5>2 DEF RowsOf
      <4>5. work'[p].at = "insert" /\ ~({x \in Requests : made'[x].kind = work'[p].kind} \subseteq work'[p].seen) =>
              work'[p].tries + 1 <= work'[p].overtaken
        <5>1. CASE work[p].kind = work[q].kind
          <6>1. work[p].at = "insert" => work'[p].overtaken = work[p].overtaken + 1
            BY <4>1, <5>1 DEF InFlight
          <6>2. QED
            BY <3>1, <4>1, <4>2, <6>1
        <5>2. CASE work[p].kind # work[q].kind
          <6>1. work'[p].at = "insert" /\ ~({x \in Requests : made'[x].kind = work'[p].kind} \subseteq work'[p].seen) =>
                  work[p].tries + 1 <= work[p].overtaken
            BY <3>1, <4>1, <4>4, <5>2
          <6>2. work[p].tries + 1 <= work[p].overtaken => work'[p].tries + 1 <= work'[p].overtaken
            BY <4>1, <4>2
          <6>3. QED
            BY <6>1, <6>2
        <5>3. QED
          BY <5>1, <5>2
      <4>6. QED
        BY <3>1, <4>1, <4>3, <4>5
    <3>4. QED
      BY <3>2, <3>3
  <2>2. QED
    BY <2>1 DEF AttemptsOvertaken, RowsOf
<1>23. QED
  BY <1>0, <1>1, <1>14, <1>18, <1>19, <1>20, <1>21, <1>22 DEF NumberInv, ConnectionsHeld

\* A step of a request keeps the invariant of the numbers.
LEMMA NumbersStep ==
  ASSUME NumberInv, NEW q \in Requests, NumberStep(q)
  PROVE  NumberInv'
<1>0. /\ NumberTypeOK /\ work \in [Requests -> Work] /\ RowsInserted
      /\ held = Cardinality(InTransaction) /\ held \in 0..MaxOpenConns
      /\ made \in [Requests -> {NoRow} \union [kind: Kinds, number: Numbers]]
      /\ MaxOpenConns \in Nat
  BY NumberingAssumption DEF NumberInv, ConnectionsHeld, NumberTypeOK
\* What the steps that go on do to the connections that are held.
<1>1. ASSUME NEW from \in {"begin", "audit", "commit", "delete"},
             NEW to \in {"number", "audit", "commit", "answered", "failed"}, Proceeds(q, from, to)
      PROVE  /\ from = "begin" /\ to = "number" => Cardinality(InTransaction') = held + 1
             /\ from = "audit" /\ to = "commit" /\ work[q].kind \in Unique => Cardinality(InTransaction') = held
             /\ from = "audit" /\ to = "answered" /\ work[q].kind \notin Unique => Cardinality(InTransaction') = held
             /\ from = "commit" /\ to = "answered" => Cardinality(InTransaction') = held - 1 /\ held >= 1
             /\ from = "delete" /\ to = "audit" => Cardinality(InTransaction') = held
  <2>1. PICK w \in Work :
           /\ work' = [work EXCEPT ![q] = w] /\ work[q].at = from /\ w.at = to /\ w.kind = work[q].kind
    BY <1>1, ProceedsWork
  <2>2. /\ from \in {"begin", "commit"} => work[q].kind \in Unique
        /\ from = "delete" => work[q].kind \notin Unique
    BY <1>0, <2>1 DEF RowsInserted, Unique
  <2>3. /\ q \in InTransaction /\ InTransactionWith(w) => Cardinality(InTransaction') = held
        /\ q \notin InTransaction /\ InTransactionWith(w) => Cardinality(InTransaction') = held + 1
        /\ q \in InTransaction /\ ~InTransactionWith(w) => Cardinality(InTransaction') = held - 1 /\ held >= 1
        /\ q \notin InTransaction /\ ~InTransactionWith(w) => Cardinality(InTransaction') = held
    BY <2>1, TransactionsCounted
  <2>4. q \in InTransaction <=> work[q].kind \in Unique /\ from \in {"audit", "commit"}
    BY <2>1 DEF InTransaction
  <2>5. InTransactionWith(w) <=> work[q].kind \in Unique /\ to \in {"number", "audit", "commit"}
    BY <2>1 DEF InTransactionWith
  <2>6. QED
    BY <2>2, <2>3, <2>4, <2>5
<1>2. CASE RunInTransaction(q)
  <2>1. Proceeds(q, "begin", "number") /\ held' = held + 1 /\ made' = made /\ held < MaxOpenConns
    BY <1>2 DEF RunInTransaction, AnotherConnection
  <2>2. held' \in 0..MaxOpenConns
    BY <1>0, <2>1
  <2>3. Cardinality(InTransaction') = held + 1
    BY <1>1, <2>1
  <2>4. QED
    BY <1>0, <2>1, <2>2, <2>3, NumberProceeds
<1>3. CASE InsertAuditLog(q)
  <2>1. UNCHANGED <<made, held>>
    BY <1>3 DEF InsertAuditLog
  <2>2. CASE work[q].kind \in Unique
    <3>1. Proceeds(q, "audit", "commit")
      BY <1>3, <2>2 DEF InsertAuditLog
    <3>2. QED
      BY <1>0, <1>1, <2>1, <2>2, <3>1, NumberProceeds
  <2>3. CASE work[q].kind \notin Unique
    <3>1. Proceeds(q, "audit", "answered")
      BY <1>3, <2>3 DEF InsertAuditLog
    <3>2. QED
      BY <1>0, <1>1, <2>1, <2>3, <3>1, NumberProceeds
  <2>4. QED
    BY <2>2, <2>3
<1>4. CASE Commit(q)
  <2>1. Proceeds(q, "commit", "answered") /\ held' = held - 1 /\ made' = made
    BY <1>4 DEF Commit
  <2>2. Cardinality(InTransaction') = held - 1 /\ held >= 1
    BY <1>1, <2>1
  <2>3. held' \in 0..MaxOpenConns
    BY <1>0, <2>1, <2>2
  <2>4. QED
    BY <1>0, <2>1, <2>2, <2>3, NumberProceeds
<1>5. CASE DeleteMilestone(q)
  <2>1. Proceeds(q, "delete", "audit") /\ held' = held /\ made' = [made EXCEPT ![work[q].target] = NoRow]
    BY <1>5 DEF DeleteMilestone
  <2>2. made' \in [Requests -> {NoRow} \union [kind: Kinds, number: Numbers]]
    BY <1>0, <2>1
  <2>3. \A p \in Requests : made'[p] \in {made[p], NoRow}
    BY <1>0, <2>1
  <2>4. Cardinality(InTransaction') = held
    BY <1>1, <2>1
  <2>5. QED
    BY <1>0, <2>1, <2>2, <2>3, <2>4, NumberProceeds
<1>6. CASE AbandonCreation(q)
  <2> DEFINE from == work[q].at
  <2>1. Proceeds(q, from, "failed") /\ made' = made /\ InFlight(q)
        /\ held' = IF q \in InTransaction THEN held - 1 ELSE held
    BY <1>6 DEF AbandonCreation
  <2>2. from \in {"begin", "number", "insert", "audit", "commit", "delete"}
    <3>1. work[q] \in Work
      BY <1>0
    <3>2. QED
      BY <2>1, <3>1 DEF InFlight, Work
  <2>3. PICK w \in Work : work' = [work EXCEPT ![q] = w] /\ w.at = "failed"
    BY <2>1, ProceedsWork
  <2>4. ~InTransactionWith(w)
    BY <2>3 DEF InTransactionWith
  <2>5. /\ q \in InTransaction => Cardinality(InTransaction') = held - 1 /\ held >= 1
        /\ q \notin InTransaction => Cardinality(InTransaction') = held
    BY <2>3, <2>4, TransactionsCounted
  <2>6. held' = Cardinality(InTransaction') /\ held' \in 0..MaxOpenConns
    <3>1. CASE q \in InTransaction
      BY <1>0, <2>1, <2>5, <3>1
    <3>2. CASE q \notin InTransaction
      BY <1>0, <2>1, <2>5, <3>2
    <3>3. QED
      BY <3>1, <3>2
  <2> HIDE DEF from
  <2>7. QED
    BY <1>0, <2>1, <2>2, <2>6, NumberProceeds
<1>7. QED
  BY <1>2, <1>3, <1>4, <1>5, <1>6, NextNumberKept, InsertKept, ConflictKept DEF NumberStep

\* The invariant of the numbers has them unique as far as creations saw each other.
LEMMA NumbersFollow == NumberInv => NumbersAllocated
<1> SUFFICES ASSUME NumberInv PROVE NumbersAllocated
  OBVIOUS
<1>0. /\ work \in [Requests -> Work] /\ RowsInserted /\ NumbersAbove /\ AttemptsOvertaken /\ ConnectionsHeld
  BY DEF NumberInv
<1>1. ASSUME NEW p \in RowsOf("milestone"), NEW q \in RowsOf("milestone"), made[p].number = made[q].number
      PROVE  p \notin work[q].seen
  <2> SUFFICES ASSUME p \in work[q].seen PROVE FALSE
    OBVIOUS
  <2>1. q \in Requests /\ made[q] # NoRow /\ made[q].kind = "milestone" /\ made[p].kind = "milestone"
    BY DEF RowsOf, NoRow
  <2>2. made[q] = [kind |-> work[q].kind, number |-> work[q].number]
    BY <1>0, <2>1 DEF RowsInserted
  <2>3. work[q].kind = "milestone" /\ work[q].number = made[q].number
    BY <2>1, <2>2
  <2>4. made[p].number < work[q].number
    BY <1>0, <2>1, <2>3 DEF NumbersAbove, Kinds
  <2>5. work[q].number \in Int
    <3>1. work[q] \in Work
      BY <1>0, <2>1
    <3>2. Numbers \union {0} \subseteq Int
      BY DEF Numbers
    <3>3. QED
      BY <3>1, <3>2 DEF Work
  <2>6. QED
    BY <1>1, <2>3, <2>4, <2>5
<1>2. \A q \in Requests : At(q, "gave up") => work[q].overtaken >= MaxNumberRetries
  <2> SUFFICES ASSUME NEW q \in Requests, At(q, "gave up") PROVE work[q].overtaken >= MaxNumberRetries
    OBVIOUS
  <2>1. work[q].tries <= work[q].overtaken /\ work[q].tries = MaxNumberRetries
    BY <1>0 DEF AttemptsOvertaken, At
  <2>2. QED
    BY <2>1
<1>3. held = MaxOpenConns => Cardinality(InTransaction) >= MaxOpenConns
  BY <1>0, NumberingAssumption DEF ConnectionsHeld
<1>4. QED
  BY <1>1, <1>2, <1>3 DEF NumbersAllocated

-----------------------------------------------------------------------------
(* All areas. *)

HandlersInv == DatabaseTypeOK /\ GrantInv /\ OrgInv /\ NumberInv /\ RepositoryInv /\ area \in Areas

\* The invariants of all areas hold together.
LEMMA HandlersInductive == Spec => []HandlersInv
<1>1. Init => HandlersInv
  BY GrantsInit, MembersInit, NumbersInit, RepositoriesInit DEF Init, HandlersInv, DatabaseInit, DatabaseTypeOK
<1>2. HandlersInv /\ [Next]_vars => HandlersInv'
  <2> SUFFICES ASSUME HandlersInv, [Next]_vars PROVE HandlersInv'
    OBVIOUS
  <2>0. DatabaseTypeOK /\ GrantInv /\ OrgInv /\ NumberInv /\ RepositoryInv /\ area \in Areas
    BY DEF HandlersInv
  <2>1. UNCHANGED <<enforced, area>>
    BY DEF Next, vars
  <2>2. DatabaseTypeOK' /\ (area \in Areas)'
    BY <2>0, <2>1 DEF DatabaseTypeOK
  <2>3. CASE Grants
    <3>1. UNCHANGED <<orgVars, numberVars, repositoryVars>>
      BY <2>3 DEF Grants
    <3>2. GrantInv'
      BY <2>0, <2>1, <2>3, GrantsBegin, GrantsCode, GrantsStep DEF Grants, GrantNext
    <3>3. OrgInv' /\ NumberInv' /\ RepositoryInv'
      BY <2>0, <3>1, MembersKept, NumbersKept, RepositoriesKept
    <3>4. QED
      BY <2>2, <3>2, <3>3 DEF HandlersInv
  <2>4. CASE Members
    <3>1. UNCHANGED <<grantVars, numberVars, repositoryVars>>
      BY <2>4 DEF Members
    <3>2. OrgInv'
      BY <2>0, <2>4, MembersBegin, MembersStep DEF Members, OrgNext
    <3>3. GrantInv' /\ NumberInv' /\ RepositoryInv'
      BY <2>0, <2>1, <3>1, GrantsKept, NumbersKept, RepositoriesKept
    <3>4. QED
      BY <2>2, <3>2, <3>3 DEF HandlersInv
  <2>5. CASE NumbersOfRows
    <3>1. UNCHANGED <<grantVars, orgVars, repositoryVars>>
      BY <2>5 DEF NumbersOfRows
    <3>2. NumberInv'
      BY <2>0, <2>5, NumbersBegin, NumbersStep DEF NumbersOfRows, NumberNext
    <3>3. GrantInv' /\ OrgInv' /\ RepositoryInv'
      BY <2>0, <2>1, <3>1, GrantsKept, MembersKept, RepositoriesKept
    <3>4. QED
      BY <2>2, <3>2, <3>3 DEF HandlersInv
  <2>6. CASE RepositoriesOnDisk
    <3>1. UNCHANGED <<grantVars, orgVars, numberVars>>
      BY <2>6 DEF RepositoriesOnDisk
    <3>2. RepositoryInv'
      BY <2>0, <2>6, RepositoryBeginsKept, RepositoryStepKept DEF RepositoriesOnDisk, RepositoryNext
    <3>3. GrantInv' /\ OrgInv' /\ NumberInv'
      BY <2>0, <2>1, <3>1, GrantsKept, MembersKept, NumbersKept
    <3>4. QED
      BY <2>2, <3>2, <3>3 DEF HandlersInv
  <2>7. CASE UNCHANGED vars
    <3>1. UNCHANGED <<grantVars, orgVars, numberVars, repositoryVars>>
      BY <2>7 DEF vars
    <3>2. QED
      BY <2>0, <2>1, <2>2, <3>1, GrantsKept, MembersKept, NumbersKept, RepositoriesKept DEF HandlersInv
  <2>8. QED
    BY <2>3, <2>4, <2>5, <2>6, <2>7 DEF Next
<1>3. QED
  BY <1>1, <1>2, PTL DEF Spec

\* Requests, rows and connections have their types in every area.
THEOREM TypeCorrect == Spec => []TypeOK
<1>1. HandlersInv => TypeOK
  BY DEF HandlersInv, TypeOK, GrantInv, OrgInv, NumberInv, RepositoryInv
<1>2. QED
  BY <1>1, HandlersInductive, PTL

\* A token that works is one whose authorization the user sees, but for the accounts the
\* property gives of the others: between the two steps of a revocation none lives but those
\* that were issued meanwhile, and an exchange writes the authorization after the token.
THEOREM GrantsAreAccounted == Spec => []GrantsAccounted
<1>1. HandlersInv => GrantsAccounted
  BY DEF HandlersInv, GrantInv
<1>2. QED
  BY <1>1, HandlersInductive, PTL

\* An organization has an owner, whatever its members ask for at once, unless its creation
\* stopped halfway or an owner went by a write decided on a reading that another write had
\* overtaken: a reading that is good leaves an owner besides the target.
THEOREM OwnerStays == Spec => []OwnerRemains
<1>1. HandlersInv => OwnerRemains
  BY DEF HandlersInv, OrgInv
<1>2. QED
  BY <1>1, HandlersInductive, PTL

\* Numbers are unique as far as creations saw each other's rows; a creation gives up only when
\* as many others overtook it as it made attempts; connections are held by transactions alone.
THEOREM NumbersAreAllocated == Spec => []NumbersAllocated
<1>1. HandlersInv => NumbersAllocated
  BY NumbersFollow DEF HandlersInv
<1>2. QED
  BY <1>1, HandlersInductive, PTL

\* A repository whose creation was answered keeps its directory at its login and name, unless
\* it shared the path with another creation or was renamed.
THEOREM RepositoriesAreServed == Spec => []RepositoryServed
<1>1. HandlersInv => RepositoryServed
  BY RepositoriesServed DEF HandlersInv
<1>2. QED
  BY <1>1, HandlersInductive, PTL
=============================================================================
