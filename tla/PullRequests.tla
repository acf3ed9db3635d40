---------------------------- MODULE PullRequests ----------------------------
(***************************************************************************)
(* Pull requests: the rows of pull_requests, the branches of the bare      *)
(* repository on disk, and everything that moves either: pushes, merge and *)
(* edit requests, and the asynq task that finds out whether a pull request *)
(* is mergeable by merging it for real and setting the base branch back.   *)
(*                                                                         *)
(* A commit is the set of changes its history contains: a merge, a squash  *)
(* and a rebase all end in the union of base and head. Two changes of one  *)
(* place conflict. Every SQL statement and every write of a ref is one     *)
(* step, and so is reading the two branches that Merge resolves.           *)
(***************************************************************************)
EXTENDS Integers, FiniteSets

CONSTANTS
  PRs,          \* pull requests of a repository
  Branches,     \* its branches
  BaseOf,       \* BaseRef of a pull request
  HeadOf,       \* HeadRef of a pull request
  Changes,      \* what clients push, each change once (bounds the pushes)
  TargetOf,     \* the branch a change is pushed to
  Conflicts,    \* pairs of changes that do not merge
  Requests,     \* concurrent HTTP requests
  Methods,      \* merge methods in use
  EditStates,   \* states a PATCH request may ask for
  Required,     \* RequiredApprovingReviews of a branch, 0 without protection
  NeedsGreen,   \* branches with RequiredStatusChecks
  MaxReviews,   \* bound: approving reviewers of a pull request
  MaxTries,     \* bound: attempts of a mergeable check (1 + MaxRetry)
  Faults        \* which of "db", "git", "queue", "crash" may happen

Commits == SUBSET Changes

ASSUME PullRequestsAssumption ==
  /\ PRs # {}
  /\ BaseOf \in [PRs -> Branches]
  /\ HeadOf \in [PRs -> Branches]
  /\ \A p \in PRs : BaseOf[p] # HeadOf[p]
  /\ TargetOf \in [Changes -> Branches]
  /\ Conflicts \subseteq SUBSET Changes
  /\ Methods \subseteq {"merge", "squash", "rebase"}
  /\ EditStates \subseteq {"open", "closed"}
  /\ Required \in [Branches -> Nat]
  /\ NeedsGreen \subseteq Branches
  /\ MaxReviews \in Nat
  /\ MaxTries \in Nat \ {0}
  /\ Faults \subseteq {"db", "git", "queue", "crash"}

VARIABLES
  ref,        \* the commit each branch points at
  row,        \* the pull_requests table; sha is {} while merge_commit_sha is NULL
  approvals,  \* distinct reviewers with a submitted APPROVED review
  green,      \* head commits whose required workflows have a successful run
  check,      \* the mergeable check of a pull request
  req,        \* the HTTP requests in flight
  landed      \* history: what was pushed to or merged into a branch

vars == <<ref, row, approvals, green, check, req, landed>>

State == {"none", "open", "closed", "merged"}
Mergeable == {"unknown", "clean", "dirty"}
Row == [state: State, sha: SUBSET Commits, mergeable: Mergeable]
CheckAt == {"idle", "load", "resolve", "merge", "write", "restore", "save"}
RequestAt == {"idle", "reviews", "checks", "resolve", "write", "writeHead", "record", "save"}

NoRow == [state |-> "none", sha |-> {}, mergeable |-> "unknown"]
NoCheck == [at |-> "idle", tries |-> 0, copy |-> NoRow, saved |-> {},
            base |-> {}, head |-> {}, result |-> "unknown"]
NoRequest == [at |-> "idle", pr |-> CHOOSE p \in PRs : TRUE, method |-> "merge",
              copy |-> NoRow, base |-> {}, head |-> {}]

CheckState == [at: CheckAt, tries: 0..MaxTries, copy: Row, saved: Commits,
               base: Commits, head: Commits, result: Mergeable]
RequestState == [at: RequestAt, pr: PRs, method: {"merge", "squash", "rebase"}, copy: Row,
                 base: Commits, head: Commits]

TypeOK ==
  /\ ref \in [Branches -> Commits]
  /\ row \in [PRs -> Row]
  /\ approvals \in [PRs -> 0..MaxReviews]
  /\ green \subseteq Commits
  /\ check \in [PRs -> CheckState]
  /\ req \in [Requests -> RequestState]
  /\ landed \in [Branches -> Commits]

Init ==
  /\ ref = [b \in Branches |-> {}]
  /\ row = [p \in PRs |-> NoRow]
  /\ approvals = [p \in PRs |-> 0]
  /\ green = {}
  /\ check = [p \in PRs |-> NoCheck]
  /\ req = [q \in Requests |-> NoRequest]
  /\ landed = [b \in Branches |-> {}]

-----------------------------------------------------------------------------
(* What git and people do. *)

Clash(base, head) ==
  \E c \in base \ head, d \in head \ base : {c, d} \in Conflicts

\* git receive-pack moves a branch only from the commit the client named, so a
\* push is one step on top of what the branch holds.
Push(c) ==
  LET b == TargetOf[c] IN
  /\ c \notin landed[b] \union ref[b]
  /\ ~Clash(ref[b], {c})
  /\ ref' = [ref EXCEPT ![b] = @ \union {c}]
  /\ landed' = [landed EXCEPT ![b] = @ \union {c}]
  /\ UNCHANGED <<row, approvals, green, check, req>>

\* The last required workflow run for a head ends with success.
ChecksPass(b) ==
  /\ \E p \in PRs : HeadOf[p] = b /\ BaseOf[p] \in NeedsGreen
  /\ ref[b] \notin green
  /\ green' = green \union {ref[b]}
  /\ UNCHANGED <<ref, row, approvals, check, req, landed>>

\* The number is allocated and the row inserted in one transaction; the check
\* is enqueued afterwards and a failure of that is only logged.
CreatePR(p) ==
  /\ row[p].state = "none"
  /\ row' = [row EXCEPT ![p].state = "open"]
  /\ \/ check' = [check EXCEPT ![p].at = "load", ![p].tries = 1]
     \/ "queue" \in Faults /\ check' = check
  /\ UNCHANGED <<ref, approvals, green, req, landed>>

\* The row was open when the review's handler read it; it may have been closed
\* or merged since. CountSatisfiedReviews counts approving reviewers, none is
\* ever taken back.
Approve(p) ==
  /\ row[p].state # "none"
  /\ approvals[p] < MaxReviews
  /\ approvals' = [approvals EXCEPT ![p] = @ + 1]
  /\ UNCHANGED <<ref, row, green, check, req, landed>>

-----------------------------------------------------------------------------
(* A merge request: MergePRUsecase.Execute. *)

Leave(q) == req' = [req EXCEPT ![q] = NoRequest]
Goto(q, at) == req' = [req EXCEPT ![q].at = at]

Base(q) == BaseOf[req[q].pr]
Head(q) == HeadOf[req[q].pr]

\* Execute refuses "merged" only: a closed pull request can be merged.
MergeLoad(q, p, method) ==
  /\ req[q].at = "idle"
  /\ row[p].state \notin {"none", "merged"}
  /\ req' = [req EXCEPT ![q] = [NoRequest EXCEPT !.at = "reviews", !.pr = p, !.method = method]]
  /\ UNCHANGED <<ref, row, approvals, green, check, landed>>

\* Mutant of MergeReviews: one review short is let through.
MergeReviewsOffByOne(q) ==
  /\ req[q].at = "reviews"
  /\ IF approvals[req[q].pr] + 1 < Required[Base(q)] THEN Leave(q) ELSE Goto(q, "checks")
  /\ UNCHANGED <<ref, row, approvals, green, check, landed>>

MergeReviews(q) ==
  /\ req[q].at = "reviews"
  /\ IF approvals[req[q].pr] < Required[Base(q)] THEN Leave(q) ELSE Goto(q, "checks")
  /\ UNCHANGED <<ref, row, approvals, green, check, landed>>

\* Mutant of MergeChecks: the runs of the base are looked at, not the head's.
MergeChecksOfBase(q) ==
  /\ req[q].at = "checks"
  /\ IF Base(q) \in NeedsGreen /\ ref[Base(q)] \notin green
       THEN Leave(q) ELSE Goto(q, "resolve")
  /\ UNCHANGED <<ref, row, approvals, green, check, landed>>

MergeChecks(q) ==
  /\ req[q].at = "checks"
  /\ IF Base(q) \in NeedsGreen /\ ref[Head(q)] \notin green
       THEN Leave(q) ELSE Goto(q, "resolve")
  /\ UNCHANGED <<ref, row, approvals, green, check, landed>>

\* Merge resolves both branches again; a conflict is answered with 409.
MergeResolve(q) ==
  LET base == ref[Base(q)]  head == ref[Head(q)] IN
  /\ req[q].at = "resolve"
  /\ IF Clash(base, head)
       THEN Leave(q)
       ELSE req' = [req EXCEPT ![q].at = "write", ![q].base = base, ![q].head = head]
  /\ UNCHANGED <<ref, row, approvals, green, check, landed>>

Merged(m) == m.base \union m.head

\* Only a rebase that is no fast-forward and has commits to replay moves the
\* head branch as well.
RewritesHead(m) ==
  m.method = "rebase" /\ ~(m.base \subseteq m.head) /\ ~(m.head \subseteq m.base)

\* Mutant of MergeWrite: the base is set to the head, diverged or not.
MergeWriteFastForward(q) ==
  /\ req[q].at = "write"
  /\ ref' = [ref EXCEPT ![Base(q)] = req[q].head]
  /\ landed' = [landed EXCEPT ![Base(q)] = @ \union req[q].head]
  /\ Goto(q, IF RewritesHead(req[q]) THEN "writeHead" ELSE "record")
  /\ UNCHANGED <<row, approvals, green, check>>

\* SetReference does not compare with what was resolved.
MergeWrite(q) ==
  /\ req[q].at = "write"
  /\ ref' = [ref EXCEPT ![Base(q)] = Merged(req[q])]
  /\ landed' = [landed EXCEPT ![Base(q)] = @ \union req[q].head]
  /\ Goto(q, IF RewritesHead(req[q]) THEN "writeHead" ELSE "record")
  /\ UNCHANGED <<row, approvals, green, check>>

\* The error of this write is dropped.
MergeWriteHead(q) ==
  /\ req[q].at = "writeHead"
  /\ \/ /\ ref' = [ref EXCEPT ![Head(q)] = Merged(req[q])]
        /\ landed' = [landed EXCEPT ![Head(q)] = @ \union req[q].base]
     \/ "git" \in Faults /\ UNCHANGED <<ref, landed>>
  /\ Goto(q, "record")
  /\ UNCHANGED <<row, approvals, green, check>>

\* SetMerged names the row by id only.
MergeRecord(q) ==
  /\ req[q].at = "record"
  /\ row' = [row EXCEPT ![req[q].pr].state = "merged", ![req[q].pr].sha = {Merged(req[q])}]
  /\ Leave(q)
  /\ UNCHANGED <<ref, approvals, green, check, landed>>

-----------------------------------------------------------------------------
(* A PATCH request: the row is read, changed and written back as a whole. *)

EditLoad(q, p) ==
  /\ req[q].at = "idle"
  /\ row[p].state # "none"
  /\ req' = [req EXCEPT ![q] = [NoRequest EXCEPT !.at = "save", !.pr = p, !.copy = row[p]]]
  /\ UNCHANGED <<ref, row, approvals, green, check, landed>>

\* Update writes title, body, state, mergeable; the merge columns it leaves alone.
Update(p, state, mergeable) ==
  row' = [row EXCEPT ![p].state = state, ![p].mergeable = mergeable]

EditSave(q) ==
  /\ req[q].at = "save"
  /\ \E state \in {req[q].copy.state} \union EditStates :
       Update(req[q].pr, state, req[q].copy.mergeable)
  /\ Leave(q)
  /\ UNCHANGED <<ref, approvals, green, check, landed>>

\* A query, a transaction or an access to the repository fails: the request
\* ends there, and what it did stays done.
RequestFails(q) ==
  /\ \/ "db" \in Faults /\ req[q].at \in {"reviews", "checks", "record", "save"}
     \/ "git" \in Faults /\ req[q].at \in {"checks", "resolve", "write"}
  /\ Leave(q)
  /\ UNCHANGED <<ref, row, approvals, green, check, landed>>

-----------------------------------------------------------------------------
(* The mergeable check: HandlePRMergeableCheck. *)

CheckLoad(p) ==
  /\ check[p].at = "load"
  /\ check' = [check EXCEPT ![p].at = "resolve", ![p].copy = row[p]]
  /\ UNCHANGED <<ref, row, approvals, green, req, landed>>

\* Mutant of CheckResolve: the head is remembered, not the base.
CheckResolveHead(p) ==
  /\ check[p].at = "resolve"
  /\ check' = [check EXCEPT ![p].at = "merge", ![p].saved = ref[HeadOf[p]]]
  /\ UNCHANGED <<ref, row, approvals, green, req, landed>>

CheckResolve(p) ==
  /\ check[p].at = "resolve"
  /\ check' = [check EXCEPT ![p].at = "merge", ![p].saved = ref[BaseOf[p]]]
  /\ UNCHANGED <<ref, row, approvals, green, req, landed>>

\* After a conflict nothing was written, and the base is set back all the same.
CheckMerge(p) ==
  LET base == ref[BaseOf[p]]  head == ref[HeadOf[p]] IN
  /\ check[p].at = "merge"
  /\ check' = [check EXCEPT ![p] =
       IF Clash(base, head)
         THEN [@ EXCEPT !.at = "restore", !.result = "dirty"]
         ELSE [@ EXCEPT !.at = "write", !.result = "clean", !.base = base, !.head = head]]
  /\ UNCHANGED <<ref, row, approvals, green, req, landed>>

CheckWrite(p) ==
  /\ check[p].at = "write"
  /\ ref' = [ref EXCEPT ![BaseOf[p]] = Merged(check[p])]
  /\ check' = [check EXCEPT ![p].at = "restore"]
  /\ UNCHANGED <<row, approvals, green, req, landed>>

\* restoreBranchRef sets the branch whatever it points at now.
CheckRestore(p) ==
  /\ check[p].at = "restore"
  /\ ref' = [ref EXCEPT ![BaseOf[p]] = check[p].saved]
  /\ check' = [check EXCEPT ![p].at = "save"]
  /\ UNCHANGED <<row, approvals, green, req, landed>>

\* Mutant of CheckSave: the whole row of the copy is written, merged or not.
CheckSaveMarksMerged(p) ==
  /\ check[p].at = "save"
  /\ Update(p, IF check[p].result = "clean" THEN "merged" ELSE check[p].copy.state, check[p].result)
  /\ check' = [check EXCEPT ![p] = NoCheck]
  /\ UNCHANGED <<ref, approvals, green, req, landed>>

CheckSave(p) ==
  /\ check[p].at = "save"
  /\ Update(p, check[p].copy.state, check[p].result)
  /\ check' = [check EXCEPT ![p] = NoCheck]
  /\ UNCHANGED <<ref, approvals, green, req, landed>>

\* Mutant of Again: one attempt too many.
AgainOffByOne(k) ==
  IF k.at = "idle" \/ k.tries > MaxTries
    THEN NoCheck ELSE [NoCheck EXCEPT !.at = "load", !.tries = k.tries + 1]

\* asynq runs a task that failed, or was lost with its process, from its start.
Again(k) ==
  IF k.at = "idle" \/ k.tries >= MaxTries
    THEN NoCheck ELSE [NoCheck EXCEPT !.at = "load", !.tries = k.tries + 1]

CheckFails(p) ==
  /\ \/ "db" \in Faults /\ check[p].at \in {"load", "save"}
     \/ "git" \in Faults /\ check[p].at \in {"resolve", "merge", "write", "restore"}
  /\ check' = [check EXCEPT ![p] = Again(@)]
  /\ UNCHANGED <<ref, row, approvals, green, req, landed>>

Crash ==
  /\ "crash" \in Faults
  /\ check' = [p \in PRs |-> IF check[p].at = "load" THEN check[p] ELSE Again(check[p])]
  /\ req' = [q \in Requests |-> NoRequest]
  /\ UNCHANGED <<ref, row, approvals, green, landed>>

-----------------------------------------------------------------------------
RequestStep(q) ==
  \/ MergeReviews(q)
  \/ MergeChecks(q)
  \/ MergeResolve(q)
  \/ MergeWrite(q)
  \/ MergeWriteHead(q)
  \/ MergeRecord(q)
  \/ EditSave(q)
  \/ RequestFails(q)

CheckStep(p) ==
  \/ CheckLoad(p)
  \/ CheckResolve(p)
  \/ CheckMerge(p)
  \/ CheckWrite(p)
  \/ CheckRestore(p)
  \/ CheckSave(p)
  \/ CheckFails(p)

NewRequest(q, p) ==
  \/ \E method \in Methods : MergeLoad(q, p, method)
  \/ EditLoad(q, p)

Next ==
  \/ \E c \in Changes : Push(c)
  \/ \E b \in Branches : ChecksPass(b)
  \/ \E p \in PRs : CreatePR(p)
  \/ \E p \in PRs : Approve(p)
  \/ \E p \in PRs : CheckStep(p)
  \/ \E q \in Requests, p \in PRs : NewRequest(q, p)
  \/ \E q \in Requests : RequestStep(q)
  \/ Crash

Spec == Init /\ [][Next]_vars

\* Who has read a branch and goes on to write it, or to rely on it.
Merging(q, b) == req[q].at \in {"resolve", "write", "writeHead"} /\ b \in {Base(q), Head(q)}
Checking(p, b) == check[p].at \in {"merge", "write", "restore"} /\ BaseOf[p] = b

\* One holder at a time, and no push to a branch that is held: what a lock on
\* the branch would give, and nothing in the code does.
Alone(b) ==
  /\ \A q, s \in Requests : Merging(q, b) /\ Merging(s, b) => q = s
  /\ \A p, s \in PRs : Checking(p, b) /\ Checking(s, b) => p = s
  /\ \A q \in Requests, p \in PRs : ~(Merging(q, b) /\ Checking(p, b))

Exclusive ==
  \A b \in Branches :
    /\ Alone(b)'
    /\ ref'[b] # ref[b] /\ UNCHANGED <<req, check>> =>
         (\A q \in Requests : ~Merging(q, b)) /\ (\A p \in PRs : ~Checking(p, b))

SerialSpec == Init /\ [][Next /\ Exclusive]_vars
-----------------------------------------------------------------------------
(* Properties. *)

\* Update writes state and mergeable from a copy that may be old, from two
\* places, and SetMerged the merge columns: however they interleave, a row that
\* says merged has a merge commit.
MergeIsReal ==
  \A p \in PRs : row[p].state = "merged" => row[p].sha # {}

\* A pull request that was ever merged had the approving reviews its base
\* branch requires, whoever edits, checks and merges at the same time.
MergeWasApproved ==
  \A p \in PRs : row[p].sha # {} => approvals[p] >= Required[BaseOf[p]]

\* A branch holds what was pushed to it or merged into it: no accepted change
\* is lost and nothing comes in another way. While a check has the base
\* borrowed, what it is going to set it back to counts.
BranchesAsLanded ==
  \A b \in Branches :
    LET borrowers == {p \in PRs : BaseOf[p] = b /\ check[p].at = "restore"} IN
    IF borrowers = {} THEN ref[b] = landed[b]
    ELSE \A p \in borrowers : check[p].saved = landed[b]

\* The workflow runs required by the base succeeded for the very commit of the
\* head that is merged, not for one it held a moment before.
MergesGreenHead ==
  \A q \in Requests :
    req[q].at \in {"write", "writeHead", "record"} /\ Base(q) \in NeedsGreen => req[q].head \in green

\* TestHandlePRMergeableCheckClean, TestHandlePRMergeableCheckDirty: the check
\* leaves the base branch unchanged. When nothing was merged and no check is
\* at work, every branch is what clients pushed to it.
CheckLeavesBase ==
  (\A p \in PRs : check[p].at = "idle") => ref = landed

\* The comment on Merge: it merges head into base. A pull request recorded as
\* merged is contained in its base once no check has it borrowed.
MergedIntoBase ==
  \A p \in PRs : (\A s \in PRs : check[s].at \notin {"restore"}) =>
    \A c \in row[p].sha : c \subseteq ref[BaseOf[p]]
=============================================================================
