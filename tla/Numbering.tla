------------------------------ MODULE Numbering ------------------------------
(***************************************************************************)
(* The numbers of a repository's issues, pull requests and milestones.     *)
(* Each is one more than the greatest there is, read in one statement and  *)
(* inserted in another: a unique key and retries settle the races of       *)
(* issues and pull requests, nothing those of milestones. The transaction  *)
(* around the statements of a creation holds a connection of the pool and  *)
(* contains none of them: each takes a second connection for itself.       *)
(***************************************************************************)
EXTENDS Database, Integers, FiniteSets, FiniteSetsExt

CONSTANTS
  MaxOpenConns,     \* connections of the pool: DB_MAX_OPEN_CONNS, 25
  MaxNumberRetries  \* attempts of a creation: 5 in the code

ASSUME NumberingAssumption ==
  IsFiniteSet(Requests) /\ MaxOpenConns \in Nat \ {0} /\ MaxNumberRetries \in Nat \ {0}

VARIABLES
  made,  \* the row a request inserted, or none
  work,  \* where a request is, and what it has read
  held   \* connections that transactions hold

numberVars == <<made, work, held>>

Unique == {"issue", "pull"}
Kinds == Unique \union {"milestone"}
Numbers == 1..Cardinality(Requests)
NoRow == [kind |-> "none", number |-> 0]

\* seen: the rows there were when the number was read; overtaken: rows of the kind that
\* others inserted since the creation began.
Unstarted == [at |-> "idle", kind |-> "none", number |-> 0, target |-> "none", tries |-> 0,
              seen |-> {}, overtaken |-> 0]

NumberTypeOK ==
  /\ made \in [Requests -> {NoRow} \union [kind: Kinds, number: Numbers]]
  /\ \A q \in Requests :
       /\ work[q].at \in {"idle", "begin", "number", "insert", "audit", "commit", "delete",
                          "answered", "failed", "gave up"}
       /\ work[q].kind \in Kinds \union {"none"}
       /\ work[q].number \in Numbers \union {0}
       /\ work[q].target \in Requests \union {"none"}
       /\ work[q].tries \in 0..MaxNumberRetries
       /\ work[q].seen \subseteq Requests
       /\ work[q].overtaken \in 0..Cardinality(Requests)
  /\ held \in 0..MaxOpenConns

NumberInit ==
  /\ made = [q \in Requests |-> NoRow]
  /\ work = [q \in Requests |-> Unstarted]
  /\ held = 0

RowsOf(kind) == {q \in Requests : made[q].kind = kind}
InTransaction == {q \in Requests : work[q].kind \in Unique /\
                                   work[q].at \in {"number", "insert", "audit", "commit"}}

At(q, at) == work[q].at = at
Proceeds(q, from, to) == At(q, from) /\ work' = [work EXCEPT ![q].at = to]
AnotherConnection == held < MaxOpenConns

-----------------------------------------------------------------------------
(* CreateIssueUsecase, CreatePRUsecase, CreateMilestoneUsecase. *)

StartCreation(q, kind) ==
  /\ At(q, "idle")
  /\ work' = [work EXCEPT ![q].at = IF kind \in Unique THEN "begin" ELSE "number",
                          ![q].kind = kind]
  /\ UNCHANGED <<made, held>>

RunInTransaction(q) ==
  /\ AnotherConnection
  /\ Proceeds(q, "begin", "number")
  /\ held' = held + 1
  /\ UNCHANGED made

\* Mutant of NextNumber: the greatest number itself, or 1.
NextNumberGreatest(q) ==
  LET rows == RowsOf(work[q].kind)
  IN  /\ At(q, "number") /\ AnotherConnection
      /\ work' = [work EXCEPT ![q].at = "insert", ![q].seen = rows,
                              ![q].number = Max({1} \union {made[p].number : p \in rows})]
      /\ UNCHANGED <<made, held>>

NextNumber(q) ==
  LET rows == RowsOf(work[q].kind)
  IN  /\ At(q, "number") /\ AnotherConnection
      /\ work' = [work EXCEPT ![q].at = "insert", ![q].seen = rows,
                              ![q].number = Max({0} \union {made[p].number : p \in rows}) + 1]
      /\ UNCHANGED <<made, held>>

InFlight(p) == work[p].at \notin {"idle", "answered", "failed", "gave up"}

Insert(q) ==
  LET row == [kind |-> work[q].kind, number |-> work[q].number]
  IN  /\ At(q, "insert") /\ AnotherConnection
      /\ row.kind \in Unique => \A p \in Requests : made[p] # row
      /\ made' = [made EXCEPT ![q] = row]
      /\ work' = [p \in Requests |->
           CASE p = q -> [work[q] EXCEPT !.at = "audit"]
             [] p # q /\ InFlight(p) /\ work[p].kind = row.kind ->
                  [work[p] EXCEPT !.overtaken = @ + 1]
             [] OTHER -> work[p]]
      /\ UNCHANGED held

\* Mutant of Conflict: the transaction is not rolled back before the next attempt.
ConflictKeepsConnection(q) ==
  LET last == work[q].tries + 1 = MaxNumberRetries
  IN  /\ At(q, "insert") /\ AnotherConnection
      /\ work[q].kind \in Unique
      /\ \E p \in Requests : made[p] = [kind |-> work[q].kind, number |-> work[q].number]
      /\ work' = [work EXCEPT ![q].at = IF last THEN "gave up" ELSE "begin", ![q].tries = @ + 1]
      /\ UNCHANGED <<made, held>>

\* The unique key refuses the row: roll back and try again.
Conflict(q) ==
  LET last == work[q].tries + 1 = MaxNumberRetries
  IN  /\ At(q, "insert") /\ AnotherConnection
      /\ work[q].kind \in Unique
      /\ \E p \in Requests : made[p] = [kind |-> work[q].kind, number |-> work[q].number]
      /\ work' = [work EXCEPT ![q].at = IF last THEN "gave up" ELSE "begin", ![q].tries = @ + 1]
      /\ held' = held - 1
      /\ UNCHANGED made

InsertAuditLog(q) ==
  /\ AnotherConnection
  /\ Proceeds(q, "audit", IF work[q].kind \in Unique THEN "commit" ELSE "answered")
  /\ UNCHANGED <<made, held>>

Commit(q) ==
  /\ Proceeds(q, "commit", "answered")
  /\ held' = held - 1
  /\ UNCHANGED made

-----------------------------------------------------------------------------
(* DeleteMilestoneUsecase: issues and pull requests are never deleted. *)

\* If two have the number, either may be returned.
GetMilestone(q, p) ==
  /\ At(q, "idle") /\ AnotherConnection
  /\ made[p].kind = "milestone"
  /\ work' = [work EXCEPT ![q].at = "delete", ![q].target = p]
  /\ UNCHANGED <<made, held>>

DeleteMilestone(q) ==
  /\ AnotherConnection
  /\ Proceeds(q, "delete", "audit")
  /\ made' = [made EXCEPT ![work[q].target] = NoRow]
  /\ UNCHANGED held

-----------------------------------------------------------------------------

\* A statement fails, the client goes away, or the thirty seconds of the timeout
\* middleware are over: the transaction rolls back nothing, for it contains nothing.
AbandonCreation(q) ==
  /\ InFlight(q)
  /\ Proceeds(q, work[q].at, "failed")
  /\ held' = IF q \in InTransaction THEN held - 1 ELSE held
  /\ UNCHANGED made

NumberBegins(q) ==
  \/ \E kind \in Kinds : StartCreation(q, kind)
  \/ \E p \in Requests : GetMilestone(q, p)

NumberStep(q) ==
  \/ RunInTransaction(q) \/ NextNumber(q) \/ Insert(q) \/ Conflict(q) \/ InsertAuditLog(q)
  \/ Commit(q)
  \/ DeleteMilestone(q)
  \/ AbandonCreation(q)

NumberNext == \E q \in Requests : NumberStep(q)

-----------------------------------------------------------------------------
(* Properties. *)

\* The comment in migration 006 that the application keeps the numbers of milestones unique:
\* it does, unless neither of two creations saw the row of the other. What keeps a creation
\* from its number: it gives up only if others inserted as many rows meanwhile as it made
\* attempts (maxNumberRetries), and waits for a connection only if creations in the middle of
\* their transactions hold the whole pool, and wait for each other until the timeout takes
\* one away.
NumbersAllocated ==
  /\ \A p, q \in RowsOf("milestone") :
       p # q /\ made[p].number = made[q].number => p \notin work[q].seen /\ q \notin work[p].seen
  /\ \A q \in Requests : At(q, "gave up") => work[q].overtaken >= MaxNumberRetries
  /\ held = MaxOpenConns => Cardinality(InTransaction) >= MaxOpenConns
=============================================================================
