------------------------- MODULE PullRequestsProofs -------------------------
(***************************************************************************)
(* Theorems about PullRequests, for any set of pull requests, branches,    *)
(* changes and requests: type correctness, and that stale copies of a row  *)
(* never fabricate a merge, nor concurrency a merge that lacks reviews.    *)
(***************************************************************************)
EXTENDS PullRequests, TLAPS

\* The idle records are well typed.
LEMMA IdleTypes ==
  /\ NoRow \in Row
  /\ NoCheck \in CheckState
  /\ NoRequest \in RequestState
<1>1. NoRow \in Row
  BY DEF NoRow, Row, State, Mergeable
<1>2. (CHOOSE p \in PRs : TRUE) \in PRs
  BY PullRequestsAssumption DEF PullRequestsAssumption
<1>3. {} \in Commits
  BY DEF Commits
<1>4. NoRequest \in RequestState
  BY <1>1, <1>2, <1>3 DEF NoRequest, RequestState, RequestAt
<1>5. NoCheck \in CheckState
  BY <1>1, <1>3, PullRequestsAssumption DEF NoCheck, CheckState, CheckAt, Mergeable, PullRequestsAssumption
<1> QED BY <1>1, <1>4, <1>5

\* A step of an HTTP request keeps every table well typed.
LEMMA RequestStepType ==
  ASSUME TypeOK, NEW q \in Requests, RequestStep(q)
  PROVE  TypeOK'
<1> DEFINE m == req[q]
<1>m. /\ m \in RequestState /\ m.pr \in PRs /\ m.base \in Commits /\ m.head \in Commits
      /\ m.copy \in Row /\ m.copy.state \in State /\ m.copy.mergeable \in Mergeable
      /\ Base(q) \in Branches /\ Head(q) \in Branches
  BY PullRequestsAssumption DEF TypeOK, RequestState, Row, Base, Head, PullRequestsAssumption
<1>u. Merged(m) \in Commits
  BY <1>m DEF Merged, Commits
<1> HIDE DEF m
<1>leave. ASSUME Leave(q) PROVE req' \in [Requests -> RequestState]
  BY <1>leave, IdleTypes DEF Leave, TypeOK
<1>goto. ASSUME NEW at \in RequestAt, Goto(q, at) PROVE req' \in [Requests -> RequestState]
  BY <1>goto DEF Goto, TypeOK, RequestState
<1>at. {"checks", "resolve", "write", "writeHead", "record"} \subseteq RequestAt
  BY DEF RequestAt
<1>1. CASE MergeReviews(q)
  BY <1>1, <1>leave, <1>goto, <1>at DEF MergeReviews, TypeOK
<1>2. CASE MergeChecks(q)
  BY <1>2, <1>leave, <1>goto, <1>at DEF MergeChecks, TypeOK
<1>3. CASE MergeResolve(q)
  <2>1. ref[Base(q)] \in Commits /\ ref[Head(q)] \in Commits
    BY <1>m DEF TypeOK
  <2>2. req' \in [Requests -> RequestState]
    <3>1. CASE Leave(q)
      BY <3>1, <1>leave
    <3>2. CASE req' = [req EXCEPT ![q].at = "write", ![q].base = ref[Base(q)], ![q].head = ref[Head(q)]]
      <4>1. [m EXCEPT !.at = "write", !.base = ref[Base(q)], !.head = ref[Head(q)]] \in RequestState
        BY <1>m, <1>at, <2>1 DEF RequestState
      <4>2. req' = [req EXCEPT ![q] = [m EXCEPT !.at = "write", !.base = ref[Base(q)], !.head = ref[Head(q)]]]
        BY <3>2 DEF m, TypeOK
      <4> QED BY <4>1, <4>2 DEF TypeOK
    <3> QED BY <1>3, <3>1, <3>2 DEF MergeResolve
  <2> QED BY <1>3, <2>2 DEF MergeResolve, TypeOK
<1>4. CASE MergeWrite(q)
  <2>1. req' \in [Requests -> RequestState]
    BY <1>4, <1>goto, <1>at DEF MergeWrite
  <2>2. ref' \in [Branches -> Commits]
    BY <1>4, <1>m, <1>u DEF MergeWrite, TypeOK, m
  <2>3. landed' \in [Branches -> Commits]
    BY <1>4, <1>m DEF MergeWrite, TypeOK, m, Commits
  <2> QED BY <1>4, <2>1, <2>2, <2>3 DEF MergeWrite, TypeOK
<1>5. CASE MergeWriteHead(q)
  <2>1. req' \in [Requests -> RequestState]
    BY <1>5, <1>goto, <1>at DEF MergeWriteHead
  <2>2. ref' \in [Branches -> Commits]
    BY <1>5, <1>m, <1>u DEF MergeWriteHead, TypeOK, m
  <2>3. landed' \in [Branches -> Commits]
    BY <1>5, <1>m DEF MergeWriteHead, TypeOK, m, Commits
  <2> QED BY <1>5, <2>1, <2>2, <2>3 DEF MergeWriteHead, TypeOK
<1>6. CASE MergeRecord(q)
  <2>1. [row[m.pr] EXCEPT !.state = "merged", !.sha = {Merged(m)}] \in Row
    BY <1>m, <1>u DEF TypeOK, Row, State
  <2>2. row' = [row EXCEPT ![m.pr] = [row[m.pr] EXCEPT !.state = "merged", !.sha = {Merged(m)}]]
    BY <1>6, <1>m DEF MergeRecord, TypeOK, m
  <2>3. row' \in [PRs -> Row]
    BY <2>1, <2>2 DEF TypeOK
  <2> QED BY <1>6, <1>leave, <2>3 DEF MergeRecord, TypeOK
<1>7. CASE EditSave(q)
  <2>1. PICK state \in {m.copy.state} \union EditStates : Update(m.pr, state, m.copy.mergeable)
    BY <1>7 DEF EditSave, m
  <2>2. state \in State
    BY <1>m, <2>1, PullRequestsAssumption DEF State, PullRequestsAssumption
  <2>3. [row[m.pr] EXCEPT !.state = state, !.mergeable = m.copy.mergeable] \in Row
    BY <1>m, <2>2 DEF TypeOK, Row
  <2>4. row' = [row EXCEPT ![m.pr] = [row[m.pr] EXCEPT !.state = state, !.mergeable = m.copy.mergeable]]
    BY <2>1, <1>m DEF Update, TypeOK
  <2>5. row' \in [PRs -> Row]
    BY <2>3, <2>4 DEF TypeOK
  <2> QED BY <1>7, <1>leave, <2>5 DEF EditSave, TypeOK
<1>8. CASE RequestFails(q)
  BY <1>8, <1>leave DEF RequestFails, TypeOK
<1> QED BY <1>1, <1>2, <1>3, <1>4, <1>5, <1>6, <1>7, <1>8 DEF RequestStep

\* The next attempt of a check is well typed: the tries stay within MaxTries.
LEMMA AgainType ==
  ASSUME NEW k \in CheckState
  PROVE  Again(k) \in CheckState
<1>1. k.tries \in 0..MaxTries /\ MaxTries \in Nat
  BY PullRequestsAssumption DEF CheckState, PullRequestsAssumption
<1>2. CASE k.at = "idle" \/ k.tries >= MaxTries
  BY <1>2, IdleTypes DEF Again
<1>3. CASE ~(k.at = "idle" \/ k.tries >= MaxTries)
  <2>1. k.tries + 1 \in 0..MaxTries
    BY <1>1, <1>3
  <2>2. [NoCheck EXCEPT !.at = "load", !.tries = k.tries + 1] \in CheckState
    BY <2>1, IdleTypes DEF CheckState, CheckAt
  <2> QED BY <1>3, <2>2 DEF Again
<1> QED BY <1>2, <1>3

\* A step of a mergeable check keeps every table well typed.
LEMMA CheckStepType ==
  ASSUME TypeOK, NEW p \in PRs, CheckStep(p)
  PROVE  TypeOK'
<1> DEFINE k == check[p]
<1>k. /\ k \in CheckState /\ k.base \in Commits /\ k.head \in Commits /\ k.saved \in Commits
      /\ k.tries \in 0..MaxTries /\ k.result \in Mergeable
      /\ k.copy \in Row /\ k.copy.state \in State /\ BaseOf[p] \in Branches /\ HeadOf[p] \in Branches
  BY PullRequestsAssumption DEF TypeOK, CheckState, Row, PullRequestsAssumption
<1>u. Merged(k) \in Commits
  BY <1>k DEF Merged, Commits
<1>r. row[p] \in Row /\ ref[BaseOf[p]] \in Commits /\ ref[HeadOf[p]] \in Commits
  BY <1>k DEF TypeOK
<1> HIDE DEF k
<1>set. ASSUME NEW x \in CheckState, check' = [check EXCEPT ![p] = x]
        PROVE  check' \in [PRs -> CheckState]
  BY <1>set DEF TypeOK
<1>1. CASE CheckLoad(p)
  <2>1. [k EXCEPT !.at = "resolve", !.copy = row[p]] \in CheckState
    BY <1>k, <1>r DEF CheckState, CheckAt
  <2>2. check' = [check EXCEPT ![p] = [k EXCEPT !.at = "resolve", !.copy = row[p]]]
    BY <1>1 DEF CheckLoad, TypeOK, k
  <2> QED BY <1>1, <1>set, <2>1, <2>2 DEF CheckLoad, TypeOK
<1>2. CASE CheckResolve(p)
  <2>1. [k EXCEPT !.at = "merge", !.saved = ref[BaseOf[p]]] \in CheckState
    BY <1>k, <1>r DEF CheckState, CheckAt
  <2>2. check' = [check EXCEPT ![p] = [k EXCEPT !.at = "merge", !.saved = ref[BaseOf[p]]]]
    BY <1>2 DEF CheckResolve, TypeOK, k
  <2> QED BY <1>2, <1>set, <2>1, <2>2 DEF CheckResolve, TypeOK
<1>3. CASE CheckMerge(p)
  <2>1. [k EXCEPT !.at = "restore", !.result = "dirty"] \in CheckState
    BY <1>k DEF CheckState, CheckAt, Mergeable
  <2>2. [k EXCEPT !.at = "write", !.result = "clean",
                  !.base = ref[BaseOf[p]], !.head = ref[HeadOf[p]]] \in CheckState
    BY <1>k, <1>r DEF CheckState, CheckAt, Mergeable
  <2>3. PICK x \in CheckState : check' = [check EXCEPT ![p] = x]
    BY <1>3, <2>1, <2>2 DEF CheckMerge, TypeOK, k
  <2> QED BY <1>3, <1>set, <2>3 DEF CheckMerge, TypeOK
<1>4. CASE CheckWrite(p)
  <2>1. ref' \in [Branches -> Commits]
    BY <1>4, <1>k, <1>u DEF CheckWrite, TypeOK, k
  <2>2. [k EXCEPT !.at = "restore"] \in CheckState
    BY <1>k DEF CheckState, CheckAt
  <2>3. check' = [check EXCEPT ![p] = [k EXCEPT !.at = "restore"]]
    BY <1>4 DEF CheckWrite, TypeOK, k
  <2> QED BY <1>4, <1>set, <2>1, <2>2, <2>3 DEF CheckWrite, TypeOK
<1>5. CASE CheckRestore(p)
  <2>1. ref' \in [Branches -> Commits]
    BY <1>5, <1>k DEF CheckRestore, TypeOK, k
  <2>2. [k EXCEPT !.at = "save"] \in CheckState
    BY <1>k DEF CheckState, CheckAt
  <2>3. check' = [check EXCEPT ![p] = [k EXCEPT !.at = "save"]]
    BY <1>5 DEF CheckRestore, TypeOK, k
  <2> QED BY <1>5, <1>set, <2>1, <2>2, <2>3 DEF CheckRestore, TypeOK
<1>6. CASE CheckSave(p)
  <2>1. [row[p] EXCEPT !.state = k.copy.state, !.mergeable = k.result] \in Row
    BY <1>k, <1>r DEF Row
  <2>2. row' = [row EXCEPT ![p] = [row[p] EXCEPT !.state = k.copy.state, !.mergeable = k.result]]
    BY <1>6 DEF CheckSave, Update, TypeOK, k
  <2>3. row' \in [PRs -> Row]
    BY <2>1, <2>2 DEF TypeOK
  <2> QED BY <1>6, <1>set, <2>3, IdleTypes DEF CheckSave, TypeOK
<1>7. CASE CheckFails(p)
  <2>1. Again(k) \in CheckState
    BY <1>k, AgainType
  <2>2. check' = [check EXCEPT ![p] = Again(k)]
    BY <1>7 DEF CheckFails, k
  <2> QED BY <1>7, <1>set, <2>1, <2>2 DEF CheckFails, TypeOK
<1> QED BY <1>1, <1>2, <1>3, <1>4, <1>5, <1>6, <1>7 DEF CheckStep

\* Every step keeps every table well typed.
LEMMA StepType ==
  ASSUME TypeOK, [Next]_vars
  PROVE  TypeOK'
<1>1. ASSUME NEW c \in Changes, Push(c) PROVE TypeOK'
  <2>1. TargetOf[c] \in Branches
    BY PullRequestsAssumption DEF PullRequestsAssumption
  <2>2. ref' \in [Branches -> Commits] /\ landed' \in [Branches -> Commits]
    BY <1>1, <2>1 DEF Push, TypeOK, Commits
  <2> QED BY <1>1, <2>2 DEF Push, TypeOK
<1>2. ASSUME NEW b \in Branches, ChecksPass(b) PROVE TypeOK'
  BY <1>2 DEF ChecksPass, TypeOK
<1>3. ASSUME NEW p \in PRs, CreatePR(p) PROVE TypeOK'
  <2>1. [row[p] EXCEPT !.state = "open"] \in Row
    BY DEF TypeOK, Row, State
  <2>2. row' \in [PRs -> Row]
    BY <1>3, <2>1 DEF CreatePR, TypeOK
  <2>3. [check[p] EXCEPT !.at = "load", !.tries = 1] \in CheckState
    <3>1. 1 \in 0..MaxTries /\ check[p] \in CheckState
      BY PullRequestsAssumption DEF TypeOK, PullRequestsAssumption
    <3> QED BY <3>1 DEF CheckState, CheckAt
  <2>4. \/ check' = [check EXCEPT ![p] = [check[p] EXCEPT !.at = "load", !.tries = 1]]
        \/ check' = check
    BY <1>3 DEF CreatePR, TypeOK
  <2>5. check' \in [PRs -> CheckState]
    BY <2>3, <2>4 DEF TypeOK
  <2> QED BY <1>3, <2>2, <2>5 DEF CreatePR, TypeOK
<1>4. ASSUME NEW p \in PRs, Approve(p) PROVE TypeOK'
  <2>1. approvals[p] + 1 \in 0..MaxReviews
    BY <1>4, PullRequestsAssumption DEF Approve, TypeOK, PullRequestsAssumption
  <2>2. approvals' \in [PRs -> 0..MaxReviews]
    BY <1>4, <2>1 DEF Approve, TypeOK
  <2> QED BY <1>4, <2>2 DEF Approve, TypeOK
<1>5. ASSUME NEW q \in Requests, NEW p \in PRs, NewRequest(q, p) PROVE TypeOK'
  <2>1. CASE \E method \in Methods : MergeLoad(q, p, method)
    <3>1. PICK method \in Methods : MergeLoad(q, p, method)
      BY <2>1
    <3>2. [NoRequest EXCEPT !.at = "reviews", !.pr = p, !.method = method] \in RequestState
      BY IdleTypes, PullRequestsAssumption DEF RequestState, RequestAt, PullRequestsAssumption
    <3>3. req' \in [Requests -> RequestState]
      BY <3>1, <3>2 DEF MergeLoad, TypeOK
    <3> QED BY <3>1, <3>3 DEF MergeLoad, TypeOK
  <2>2. CASE EditLoad(q, p)
    <3>1. [NoRequest EXCEPT !.at = "save", !.pr = p, !.copy = row[p]] \in RequestState
      BY IdleTypes DEF RequestState, RequestAt, TypeOK
    <3>2. req' \in [Requests -> RequestState]
      BY <2>2, <3>1 DEF EditLoad, TypeOK
    <3> QED BY <2>2, <3>2 DEF EditLoad, TypeOK
  <2> QED BY <1>5, <2>1, <2>2 DEF NewRequest
<1>6. ASSUME Crash PROVE TypeOK'
  <2>1. ASSUME NEW p \in PRs PROVE Again(check[p]) \in CheckState
    BY AgainType DEF TypeOK
  <2>2. check' \in [PRs -> CheckState]
    BY <1>6, <2>1 DEF Crash, TypeOK
  <2>3. req' \in [Requests -> RequestState]
    BY <1>6, IdleTypes DEF Crash
  <2> QED BY <1>6, <2>2, <2>3 DEF Crash, TypeOK
<1>7. CASE UNCHANGED vars
  BY <1>7 DEF vars, TypeOK
<1> QED BY <1>1, <1>2, <1>3, <1>4, <1>5, <1>6, <1>7, RequestStepType, CheckStepType DEF Next

\* Type correctness: the rows, the branches, the requests and the checks stay
\* in the ranges TypeOK names, whatever fails and overlaps.
THEOREM TypeCorrect == Spec => []TypeOK
<1>1. Init => TypeOK
  BY IdleTypes, PullRequestsAssumption DEF Init, TypeOK, Commits, PullRequestsAssumption
<1>2. TypeOK /\ [Next]_vars => TypeOK'
  BY StepType
<1> QED BY <1>1, <1>2, PTL DEF Spec

-----------------------------------------------------------------------------
(* Stale copies never fabricate a merge. The invariant is not inductive by *)
(* itself: a handler writes back the state of a copy, so a copy that says  *)
(* merged must be of a row that has a merge commit, too.                   *)

CopiesReal ==
  /\ \A p \in PRs : check[p].copy.state = "merged" => row[p].sha # {}
  /\ \A q \in Requests : req[q].copy.state = "merged" => row[req[q].pr].sha # {}

RealInv == MergeIsReal /\ CopiesReal

\* What any step makes of a row: a merge commit is never lost, and a row that
\* says merged has one.
LEMMA RowStep ==
  ASSUME TypeOK, RealInv, [Next]_vars, NEW p \in PRs
  PROVE  /\ row[p].sha # {} => row'[p].sha # {}
         /\ row'[p].state = "merged" => row'[p].sha # {}
<1>0. CASE row' = row
  BY <1>0 DEF RealInv, MergeIsReal
<1>1. ASSUME NEW s \in PRs, CreatePR(s) PROVE row' = [row EXCEPT ![s] = [row[s] EXCEPT !.state = "open"]]
  BY <1>1 DEF CreatePR, TypeOK
<1>2. ASSUME NEW q \in Requests, MergeRecord(q)
      PROVE  row' = [row EXCEPT ![req[q].pr] =
                       [row[req[q].pr] EXCEPT !.state = "merged", !.sha = {Merged(req[q])}]]
  BY <1>2 DEF MergeRecord, TypeOK
<1>3. ASSUME NEW s \in PRs, NEW state, NEW mergeable, Update(s, state, mergeable),
             state = "merged" => row[s].sha # {}
      PROVE  /\ row[p].sha # {} => row'[p].sha # {}
             /\ row'[p].state = "merged" => row'[p].sha # {}
  <2>1. row' = [row EXCEPT ![s] = [row[s] EXCEPT !.state = state, !.mergeable = mergeable]]
    BY <1>3 DEF Update, TypeOK
  <2> QED BY <1>3, <2>1 DEF TypeOK, Row, RealInv, MergeIsReal
<1>4. ASSUME NEW s \in PRs, CreatePR(s)
      PROVE  /\ row[p].sha # {} => row'[p].sha # {}
             /\ row'[p].state = "merged" => row'[p].sha # {}
  BY <1>4, <1>1 DEF TypeOK, Row, RealInv, MergeIsReal
<1>5. ASSUME NEW q \in Requests, MergeRecord(q)
      PROVE  /\ row[p].sha # {} => row'[p].sha # {}
             /\ row'[p].state = "merged" => row'[p].sha # {}
  <2> DEFINE s == req[q].pr
             x == [row[s] EXCEPT !.state = "merged", !.sha = {Merged(req[q])}]
  <2>1. s \in PRs /\ row[s] \in Row
    BY DEF TypeOK, RequestState
  <2>2. x.sha # {}
    BY <2>1 DEF Row
  <2>3. row' = [row EXCEPT ![s] = x]
    BY <1>2, <1>5
  <2> HIDE DEF x, s
  <2>4. row'[p] = IF p = s THEN x ELSE row[p]
    BY <2>1, <2>3 DEF TypeOK
  <2> QED BY <2>2, <2>4 DEF RealInv, MergeIsReal
<1>6. ASSUME NEW q \in Requests, EditSave(q)
      PROVE  /\ row[p].sha # {} => row'[p].sha # {}
             /\ row'[p].state = "merged" => row'[p].sha # {}
  <2>1. PICK state \in {req[q].copy.state} \union EditStates :
          Update(req[q].pr, state, req[q].copy.mergeable)
    BY <1>6 DEF EditSave
  <2>2. state = "merged" => row[req[q].pr].sha # {}
    BY <2>1, PullRequestsAssumption DEF RealInv, CopiesReal, PullRequestsAssumption
  <2>3. req[q].pr \in PRs
    BY DEF TypeOK, RequestState
  <2> QED BY <1>3, <2>1, <2>2, <2>3
<1>7. ASSUME NEW s \in PRs, CheckSave(s)
      PROVE  /\ row[p].sha # {} => row'[p].sha # {}
             /\ row'[p].state = "merged" => row'[p].sha # {}
  BY <1>3, <1>7 DEF CheckSave, RealInv, CopiesReal
<1>8. ASSUME NEW q \in Requests, RequestStep(q), ~MergeRecord(q), ~EditSave(q) PROVE row' = row
  BY <1>8 DEF RequestStep, MergeReviews, MergeChecks, MergeResolve, MergeWrite, MergeWriteHead, RequestFails
<1>9. ASSUME NEW s \in PRs, CheckStep(s), ~CheckSave(s) PROVE row' = row
  BY <1>9 DEF CheckStep, CheckLoad, CheckResolve, CheckMerge, CheckWrite, CheckRestore, CheckFails
<1>10. \/ \E s \in PRs : CreatePR(s) \/ CheckSave(s)
       \/ \E q \in Requests : MergeRecord(q) \/ EditSave(q)
       \/ row' = row
  BY <1>8, <1>9 DEF Next, vars, Push, ChecksPass, Approve, NewRequest, MergeLoad, EditLoad, Crash
<1> QED BY <1>0, <1>4, <1>5, <1>6, <1>7, <1>10

\* What any step makes of the copies: they are kept, dropped, or taken afresh.
LEMMA CopyStep ==
  ASSUME TypeOK, [Next]_vars
  PROVE  /\ \A p \in PRs : check'[p].copy \in {check[p].copy, row[p], NoRow}
         /\ \A q \in Requests :
              \/ req'[q].copy = req[q].copy /\ req'[q].pr = req[q].pr
              \/ req'[q].copy = NoRow
              \/ req'[q].copy = row[req'[q].pr]
<1> DEFINE Checks == \A p \in PRs : check'[p].copy \in {check[p].copy, row[p], NoRow}
           Kept(q) == \/ req'[q].copy = req[q].copy /\ req'[q].pr = req[q].pr
                      \/ req'[q].copy = NoRow
                      \/ req'[q].copy = row[req'[q].pr]
<1>1. ASSUME NEW q \in Requests, RequestStep(q) PROVE check' = check /\ \A r \in Requests : Kept(r)
  <2>1. ASSUME Leave(q) PROVE \A r \in Requests : Kept(r)
    BY <2>1 DEF Leave, NoRequest, TypeOK
  <2>2. ASSUME NEW at, Goto(q, at) PROVE \A r \in Requests : Kept(r)
    BY <2>2 DEF Goto, TypeOK, RequestState
  <2>3. CASE MergeReviews(q)
    BY <2>1, <2>2, <2>3 DEF MergeReviews
  <2>4. CASE MergeChecks(q)
    BY <2>1, <2>2, <2>4 DEF MergeChecks
  <2>5. CASE MergeResolve(q)
    <3>1. CASE Leave(q)
      BY <2>1, <2>5, <3>1 DEF MergeResolve
    <3>2. CASE ~Leave(q)
      <4>1. req' = [req EXCEPT ![q].at = "write", ![q].base = ref[Base(q)], ![q].head = ref[Head(q)]]
        BY <2>5, <3>2 DEF MergeResolve
      <4> QED BY <2>5, <4>1 DEF MergeResolve, TypeOK, RequestState
    <3> QED BY <3>1, <3>2
  <2>6. CASE MergeWrite(q)
    BY <2>2, <2>6 DEF MergeWrite
  <2>7. CASE MergeWriteHead(q)
    BY <2>2, <2>7 DEF MergeWriteHead
  <2>8. CASE MergeRecord(q) \/ EditSave(q) \/ RequestFails(q)
    BY <2>1, <2>8 DEF MergeRecord, EditSave, RequestFails
  <2> QED BY <1>1, <2>3, <2>4, <2>5, <2>6, <2>7, <2>8 DEF RequestStep
<1>2. ASSUME NEW p \in PRs, CheckStep(p) PROVE req' = req /\ Checks
  <2>1. check[p].copy \in {check[p].copy, row[p], NoRow} /\ NoCheck.copy = NoRow
    BY DEF NoCheck
  <2>2. Again(check[p]).copy = NoRow
    BY DEF Again, NoCheck
  <2>3. req' = req
    BY <1>2 DEF CheckStep, CheckLoad, CheckResolve, CheckMerge, CheckWrite, CheckRestore, CheckSave, CheckFails
  <2>4. CASE CheckLoad(p)
    BY <2>4 DEF CheckLoad, TypeOK, CheckState
  <2>5. CASE CheckResolve(p)
    BY <2>5 DEF CheckResolve, TypeOK, CheckState
  <2>6. CASE CheckMerge(p)
    BY <2>6 DEF CheckMerge, TypeOK, CheckState
  <2>7. CASE CheckWrite(p)
    BY <2>7 DEF CheckWrite, TypeOK, CheckState
  <2>8. CASE CheckRestore(p)
    BY <2>8 DEF CheckRestore, TypeOK, CheckState
  <2>9. CASE CheckSave(p)
    BY <2>1, <2>9 DEF CheckSave, TypeOK
  <2>10. CASE CheckFails(p)
    BY <2>2, <2>10 DEF CheckFails, TypeOK
  <2> QED BY <1>2, <2>3, <2>4, <2>5, <2>6, <2>7, <2>8, <2>9, <2>10 DEF CheckStep
<1>3. ASSUME NEW p \in PRs, CreatePR(p) PROVE req' = req /\ Checks
  BY <1>3 DEF CreatePR, TypeOK, CheckState
<1>4. ASSUME NEW q \in Requests, NEW p \in PRs, NewRequest(q, p)
      PROVE  check' = check /\ \A r \in Requests : Kept(r)
  <2>1. CASE EditLoad(q, p)
    BY <2>1 DEF EditLoad, NoRequest, TypeOK
  <2>2. ASSUME NEW method \in Methods, MergeLoad(q, p, method)
        PROVE  check' = check /\ \A r \in Requests : Kept(r)
    BY <2>2 DEF MergeLoad, NoRequest, TypeOK
  <2> QED BY <1>4, <2>1, <2>2 DEF NewRequest
<1>5. ASSUME Crash PROVE Checks /\ \A r \in Requests : Kept(r)
  <2>1. \A p \in PRs : Again(check[p]).copy = NoRow
    BY DEF Again, NoCheck
  <2>2. \A r \in Requests : Kept(r)
    BY <1>5 DEF Crash, NoRequest
  <2>3. Checks
    BY <1>5, <2>1 DEF Crash
  <2> QED BY <2>2, <2>3
<1>6. CASE check' = check /\ req' = req
  BY <1>6
<1>7. \/ check' = check /\ req' = req
      \/ \E p \in PRs : CreatePR(p) \/ CheckStep(p)
      \/ \E q \in Requests : RequestStep(q) \/ \E p \in PRs : NewRequest(q, p)
      \/ Crash
  BY DEF Next, vars, Push, ChecksPass, Approve
<1> QED BY <1>1, <1>2, <1>3, <1>4, <1>5, <1>6, <1>7

\* PATCH requests and mergeable checks write the state of a row back from a
\* copy; whatever they interleave with, a row that says merged has a merge commit.
THEOREM MergeAlwaysReal == Spec => []MergeIsReal
<1>1. Init => RealInv
  BY DEF Init, RealInv, MergeIsReal, CopiesReal, NoRow, NoCheck, NoRequest
<1>2. TypeOK /\ TypeOK' /\ RealInv /\ [Next]_vars => RealInv'
  <2> SUFFICES ASSUME TypeOK, TypeOK', RealInv, [Next]_vars PROVE RealInv'
    OBVIOUS
  <2>1. MergeIsReal'
    BY RowStep DEF MergeIsReal
  <2>2. ASSUME NEW p \in PRs, check'[p].copy.state = "merged" PROVE row'[p].sha # {}
    BY <2>2, CopyStep, RowStep DEF RealInv, MergeIsReal, CopiesReal, NoRow
  <2>3. ASSUME NEW q \in Requests, req'[q].copy.state = "merged" PROVE row'[req'[q].pr].sha # {}
    <3>1. req'[q].pr \in PRs
      BY DEF TypeOK, RequestState
    <3>2. row[req'[q].pr].sha # {}
      BY <2>3, <3>1, CopyStep DEF RealInv, MergeIsReal, CopiesReal, NoRow
    <3> QED BY <3>1, <3>2, RowStep
  <2> QED BY <2>1, <2>2, <2>3 DEF RealInv, CopiesReal
<1>3. RealInv => MergeIsReal
  BY DEF RealInv
<1> QED BY <1>1, <1>2, <1>3, TypeCorrect, PTL DEF Spec

-----------------------------------------------------------------------------
(* No merge without its reviews. Between the count of the reviews and the  *)
(* UPDATE that records the merge a request is on its way with a count that *)
(* was enough: the strengthening carries that fact along the way.          *)

Counted == {"checks", "resolve", "write", "writeHead", "record"}

ApprovedInv ==
  /\ MergeWasApproved
  /\ \A q \in Requests : req[q].at \in Counted => approvals[req[q].pr] >= Required[Base(q)]

\* No step takes an approving review back.
LEMMA ApprovalsGrow ==
  ASSUME TypeOK, [Next]_vars, NEW p \in PRs
  PROVE  /\ approvals[p] \in Nat /\ approvals'[p] \in Nat
         /\ approvals'[p] >= approvals[p]
<1>1. approvals[p] \in Nat
  BY PullRequestsAssumption DEF TypeOK, PullRequestsAssumption
<1>2. ASSUME NEW s \in PRs, Approve(s) PROVE approvals'[p] \in Nat /\ approvals'[p] >= approvals[p]
  BY <1>1, <1>2 DEF Approve, TypeOK
<1>3. ASSUME NEW q \in Requests, RequestStep(q) PROVE approvals' = approvals
  BY <1>3 DEF RequestStep, MergeReviews, MergeChecks, MergeResolve, MergeWrite, MergeWriteHead,
              MergeRecord, EditSave, RequestFails
<1>4. ASSUME NEW s \in PRs, CheckStep(s) PROVE approvals' = approvals
  BY <1>4 DEF CheckStep, CheckLoad, CheckResolve, CheckMerge, CheckWrite, CheckRestore, CheckSave, CheckFails
<1>5. approvals' = approvals \/ \E s \in PRs : Approve(s)
  BY <1>3, <1>4 DEF Next, vars, Push, ChecksPass, CreatePR, NewRequest, MergeLoad, EditLoad, Crash
<1> QED BY <1>1, <1>2, <1>5

\* How a request comes to be past the count: it was already, for the same pull
\* request, or it has just counted enough.
LEMMA CountedStep ==
  ASSUME TypeOK, [Next]_vars, NEW q \in Requests, req'[q].at \in Counted
  PROVE  /\ req'[q].pr = req[q].pr
         /\ \/ req[q].at \in Counted
            \/ req[q].at = "reviews" /\ approvals[req[q].pr] >= Required[Base(q)]
<1> DEFINE Goal == /\ req'[q].pr = req[q].pr
                   /\ \/ req[q].at \in Counted
                      \/ req[q].at = "reviews" /\ approvals[req[q].pr] >= Required[Base(q)]
<1>0. "idle" \notin Counted /\ "reviews" \notin Counted /\ "save" \notin Counted
  BY DEF Counted
<1>i. NoRequest.at \notin Counted
  BY <1>0 DEF NoRequest
<1>1. CASE req' = req
  BY <1>1
<1>2. ASSUME NEW r \in Requests, RequestStep(r) PROVE Goal
  <2>1. CASE r # q
    <3>1. req'[q] = req[q]
      BY <1>2, <2>1 DEF RequestStep, MergeReviews, MergeChecks, MergeResolve, MergeWrite, MergeWriteHead,
                        MergeRecord, EditSave, RequestFails, Leave, Goto, TypeOK
    <3> QED BY <3>1
  <2>2. CASE r = q
    <3>1. ~Leave(q)
      BY <1>i DEF Leave, TypeOK
    <3>2. ASSUME NEW at, Goto(q, at) PROVE req'[q].pr = req[q].pr
      BY <3>2 DEF Goto, TypeOK, RequestState
    <3>3. CASE MergeReviews(q)
      <4>1. ~(approvals[req[q].pr] < Required[Base(q)])
        BY <3>1, <3>3 DEF MergeReviews
      <4>2. approvals[req[q].pr] \in Nat /\ Required[Base(q)] \in Nat
        BY PullRequestsAssumption DEF TypeOK, RequestState, Base, PullRequestsAssumption
      <4> QED BY <3>1, <3>2, <3>3, <4>1, <4>2 DEF MergeReviews
    <3>4. CASE MergeChecks(q)
      BY <3>1, <3>2, <3>4 DEF MergeChecks, Counted
    <3>5. CASE MergeResolve(q)
      <4>1. req' = [req EXCEPT ![q].at = "write", ![q].base = ref[Base(q)], ![q].head = ref[Head(q)]]
        BY <3>1, <3>5 DEF MergeResolve
      <4>2. req'[q].pr = req[q].pr
        BY <4>1 DEF TypeOK, RequestState
      <4> QED BY <3>5, <4>2 DEF MergeResolve, Counted
    <3>6. CASE MergeWrite(q)
      BY <3>2, <3>6 DEF MergeWrite, Counted
    <3>7. CASE MergeWriteHead(q)
      BY <3>2, <3>7 DEF MergeWriteHead, Counted
    <3>8. ~(MergeRecord(q) \/ EditSave(q) \/ RequestFails(q))
      BY <3>1 DEF MergeRecord, EditSave, RequestFails
    <3> QED BY <1>2, <2>2, <3>3, <3>4, <3>5, <3>6, <3>7, <3>8 DEF RequestStep
  <2> QED BY <2>1, <2>2
<1>3. ASSUME NEW r \in Requests, NEW p \in PRs, NewRequest(r, p) PROVE Goal
  <2>1. ASSUME NEW x, req' = [req EXCEPT ![r] = x], x.at \notin Counted PROVE Goal
    BY <2>1 DEF TypeOK
  <2>2. CASE EditLoad(r, p)
    <3>1. [NoRequest EXCEPT !.at = "save", !.pr = p, !.copy = row[p]].at \notin Counted
      BY <1>0 DEF NoRequest
    <3> QED BY <2>1, <2>2, <3>1 DEF EditLoad
  <2>3. ASSUME NEW method \in Methods, MergeLoad(r, p, method) PROVE Goal
    <3>1. [NoRequest EXCEPT !.at = "reviews", !.pr = p, !.method = method].at \notin Counted
      BY <1>0 DEF NoRequest
    <3> QED BY <2>1, <2>3, <3>1 DEF MergeLoad
  <2> QED BY <1>3, <2>2, <2>3 DEF NewRequest
<1>4. ~Crash
  BY <1>i DEF Crash
<1>5. ASSUME NEW p \in PRs, CheckStep(p) PROVE req' = req
  BY <1>5 DEF CheckStep, CheckLoad, CheckResolve, CheckMerge, CheckWrite, CheckRestore, CheckSave, CheckFails
<1>6. \/ req' = req
      \/ \E r \in Requests : RequestStep(r) \/ \E p \in PRs : NewRequest(r, p)
  BY <1>4, <1>5 DEF Next, vars, Push, ChecksPass, CreatePR, Approve
<1> QED BY <1>1, <1>2, <1>3, <1>6

\* Where a merge commit comes from: the row had one, or a request past the
\* count records one.
LEMMA ShaStep ==
  ASSUME TypeOK, [Next]_vars, NEW p \in PRs, row'[p].sha # {}
  PROVE  row[p].sha # {} \/ \E q \in Requests : req[q].at \in Counted /\ req[q].pr = p
<1>1. CASE row' = row
  BY <1>1
<1>2. ASSUME NEW s \in PRs, NEW state, NEW mergeable, Update(s, state, mergeable) PROVE row'[p].sha = row[p].sha
  BY <1>2 DEF Update, TypeOK, Row
<1>3. ASSUME NEW s \in PRs, CreatePR(s) PROVE row'[p].sha = row[p].sha
  BY <1>3 DEF CreatePR, TypeOK, Row
<1>4. ASSUME NEW q \in Requests, EditSave(q) PROVE row'[p].sha = row[p].sha
  <2>1. req[q].pr \in PRs
    BY DEF TypeOK, RequestState
  <2> QED BY <1>2, <1>4, <2>1 DEF EditSave
<1>5. ASSUME NEW s \in PRs, CheckSave(s) PROVE row'[p].sha = row[p].sha
  BY <1>2, <1>5 DEF CheckSave
<1>6. ASSUME NEW q \in Requests, MergeRecord(q)
      PROVE  row'[p].sha = row[p].sha \/ (req[q].at \in Counted /\ req[q].pr = p)
  <2>1. CASE req[q].pr = p
    BY <1>6, <2>1 DEF MergeRecord, Counted
  <2>2. CASE req[q].pr # p
    BY <1>6, <2>2 DEF MergeRecord, TypeOK
  <2> QED BY <2>1, <2>2
<1>7. ASSUME NEW q \in Requests, RequestStep(q), ~MergeRecord(q), ~EditSave(q) PROVE row' = row
  BY <1>7 DEF RequestStep, MergeReviews, MergeChecks, MergeResolve, MergeWrite, MergeWriteHead, RequestFails
<1>8. ASSUME NEW s \in PRs, CheckStep(s), ~CheckSave(s) PROVE row' = row
  BY <1>8 DEF CheckStep, CheckLoad, CheckResolve, CheckMerge, CheckWrite, CheckRestore, CheckFails
<1>9. \/ \E s \in PRs : CreatePR(s) \/ CheckSave(s)
      \/ \E q \in Requests : MergeRecord(q) \/ EditSave(q)
      \/ row' = row
  BY <1>7, <1>8 DEF Next, vars, Push, ChecksPass, Approve, NewRequest, MergeLoad, EditLoad, Crash
<1> QED BY <1>1, <1>3, <1>4, <1>5, <1>6, <1>9

\* A pull request with a merge commit had the approving reviews its base branch
\* requires, however many requests, checks, failures and restarts interleave.
THEOREM MergeAlwaysApproved == Spec => []MergeWasApproved
<1>1. Init => ApprovedInv
  BY DEF Init, ApprovedInv, MergeWasApproved, Counted, NoRow, NoRequest
<1>2. TypeOK /\ TypeOK' /\ ApprovedInv /\ [Next]_vars => ApprovedInv'
  <2> SUFFICES ASSUME TypeOK, TypeOK', ApprovedInv, [Next]_vars PROVE ApprovedInv'
    OBVIOUS
  <2>n. \A p \in PRs : Required[BaseOf[p]] \in Nat
    BY PullRequestsAssumption DEF PullRequestsAssumption
  <2>p. \A q \in Requests : req[q].pr \in PRs
    BY DEF TypeOK, RequestState
  <2>1. ASSUME NEW q \in Requests, req'[q].at \in Counted
        PROVE  approvals'[req'[q].pr] >= Required[BaseOf[req'[q].pr]]
    <3>1. req'[q].pr = req[q].pr /\ approvals[req[q].pr] >= Required[BaseOf[req[q].pr]]
      BY <2>1, CountedStep DEF ApprovedInv, Base
    <3> QED BY <2>n, <2>p, <3>1, ApprovalsGrow
  <2>2. ASSUME NEW p \in PRs, row'[p].sha # {} PROVE approvals'[p] >= Required[BaseOf[p]]
    <3>1. approvals[p] >= Required[BaseOf[p]]
      BY <2>2, ShaStep DEF ApprovedInv, MergeWasApproved, Base
    <3> QED BY <2>n, <3>1, ApprovalsGrow
  <2> QED BY <2>1, <2>2 DEF ApprovedInv, MergeWasApproved, Base
<1>3. ApprovedInv => MergeWasApproved
  BY DEF ApprovedInv
<1> QED BY <1>1, <1>2, <1>3, TypeCorrect, PTL DEF Spec

-----------------------------------------------------------------------------
(* Which step can have changed a row, a check or a request.                *)

\* A row is written by its creation, by its check, or by a request about it.
LEMMA RowCases ==
  ASSUME TypeOK, [Next]_vars, NEW p \in PRs
  PROVE  \/ row'[p] = row[p]
         \/ CreatePR(p) \/ CheckSave(p)
         \/ \E q \in Requests : req[q].pr = p /\ (MergeRecord(q) \/ EditSave(q))
<1>t. row \in [PRs -> Row]
  BY DEF TypeOK
<1>1. ASSUME NEW s \in PRs, s # p, CreatePR(s) \/ CheckSave(s) PROVE row'[p] = row[p]
  BY <1>1, <1>t DEF CreatePR, CheckSave, Update
<1>2. ASSUME NEW q \in Requests, req[q].pr # p, MergeRecord(q) \/ EditSave(q) PROVE row'[p] = row[p]
  BY <1>2, <1>t DEF MergeRecord, EditSave, Update
<1>3. ASSUME NEW q \in Requests, RequestStep(q), ~MergeRecord(q), ~EditSave(q) PROVE row' = row
  BY <1>3 DEF RequestStep, MergeReviews, MergeChecks, MergeResolve, MergeWrite, MergeWriteHead, RequestFails
<1>4. ASSUME NEW s \in PRs, CheckStep(s), ~CheckSave(s) PROVE row' = row
  BY <1>4 DEF CheckStep, CheckLoad, CheckResolve, CheckMerge, CheckWrite, CheckRestore, CheckFails
<1>5. \/ \E s \in PRs : CreatePR(s) \/ CheckSave(s)
      \/ \E q \in Requests : MergeRecord(q) \/ EditSave(q)
      \/ row' = row
  BY <1>3, <1>4 DEF Next, vars, Push, ChecksPass, Approve, NewRequest, MergeLoad, EditLoad, Crash
<1> QED BY <1>1, <1>2, <1>5

\* A check moves by a step of its own, by its enqueuing, or by a new attempt.
LEMMA CheckCases ==
  ASSUME TypeOK, [Next]_vars, NEW p \in PRs
  PROVE  \/ check'[p] = check[p]
         \/ CreatePR(p) /\ check'[p].at = "load"
         \/ CheckLoad(p) \/ CheckResolve(p) \/ CheckMerge(p) \/ CheckWrite(p) \/ CheckRestore(p)
         \/ CheckSave(p) /\ check'[p] = NoCheck
         \/ (Crash \/ CheckFails(p)) /\ check'[p] = Again(check[p])
<1>t. check \in [PRs -> CheckState]
  BY DEF TypeOK
<1>1. ASSUME NEW s \in PRs, s # p, CheckStep(s) PROVE check'[p] = check[p]
  BY <1>1, <1>t DEF CheckStep, CheckLoad, CheckResolve, CheckMerge, CheckWrite, CheckRestore, CheckSave, CheckFails
<1>2. ASSUME CheckSave(p) PROVE check'[p] = NoCheck
  BY <1>2, <1>t DEF CheckSave
<1>3. ASSUME CheckFails(p) PROVE check'[p] = Again(check[p])
  BY <1>3, <1>t DEF CheckFails
<1>4. ASSUME NEW s \in PRs, CreatePR(s) PROVE check'[p] = check[p] \/ (s = p /\ check'[p].at = "load")
  BY <1>4, <1>t DEF CreatePR, CheckState
<1>5. ASSUME Crash PROVE check'[p] = check[p] \/ check'[p] = Again(check[p])
  BY <1>5 DEF Crash
<1>6. ASSUME NEW q \in Requests, RequestStep(q) PROVE check' = check
  BY <1>6 DEF RequestStep, MergeReviews, MergeChecks, MergeResolve, MergeWrite, MergeWriteHead,
              MergeRecord, EditSave, RequestFails
<1>7. \/ \E s \in PRs : CheckStep(s) \/ CreatePR(s)
      \/ Crash
      \/ check' = check
  BY <1>6 DEF Next, vars, Push, ChecksPass, Approve, NewRequest, MergeLoad, EditLoad
<1> QED BY <1>1, <1>2, <1>3, <1>4, <1>5, <1>7 DEF CheckStep

\* A request moves by a step of its own, starts, or is lost with the server.
LEMMA RequestCases ==
  ASSUME TypeOK, [Next]_vars, NEW q \in Requests
  PROVE  \/ req'[q] = req[q]
         \/ RequestStep(q)
         \/ \E p \in PRs : NewRequest(q, p)
         \/ Crash /\ req'[q] = NoRequest
<1>t. req \in [Requests -> RequestState]
  BY DEF TypeOK
<1>1. ASSUME NEW s \in Requests, s # q, RequestStep(s) PROVE req'[q] = req[q]
  BY <1>1, <1>t DEF RequestStep, MergeReviews, MergeChecks, MergeResolve, MergeWrite, MergeWriteHead,
                    MergeRecord, EditSave, RequestFails, Leave, Goto
<1>2. ASSUME NEW s \in Requests, s # q, NEW p \in PRs, NewRequest(s, p) PROVE req'[q] = req[q]
  BY <1>2, <1>t DEF NewRequest, MergeLoad, EditLoad
<1>3. ASSUME Crash PROVE req'[q] = NoRequest
  BY <1>3 DEF Crash
<1>4. ASSUME NEW p \in PRs, CheckStep(p) PROVE req' = req
  BY <1>4 DEF CheckStep, CheckLoad, CheckResolve, CheckMerge, CheckWrite, CheckRestore, CheckSave, CheckFails
<1>5. \/ \E s \in Requests : RequestStep(s) \/ \E p \in PRs : NewRequest(s, p)
      \/ Crash
      \/ req' = req
  BY <1>4 DEF Next, vars, Push, ChecksPass, CreatePR, Approve
<1> QED BY <1>1, <1>2, <1>3, <1>5

\* A check belongs to a row: none is at work before its pull request is created.
CreatedInv ==
  /\ \A p \in PRs : row[p].state = "none" => check[p].at = "idle"
  /\ \A p \in PRs : check[p].at \notin {"idle", "load"} => check[p].copy.state # "none"
  /\ \A q \in Requests : req[q].at = "save" => req[q].copy.state # "none"

\* A row, once created, stays; a copy that is worked on is of a row that exists.
LEMMA CreatedFirst == Spec => []CreatedInv
<1>1. Init => CreatedInv
  BY DEF Init, CreatedInv, NoRow, NoCheck, NoRequest
<1>2. TypeOK /\ CreatedInv /\ [Next]_vars => CreatedInv'
  <2> SUFFICES ASSUME TypeOK, CreatedInv, [Next]_vars PROVE CreatedInv'
    OBVIOUS
  <2>t. check \in [PRs -> CheckState] /\ req \in [Requests -> RequestState] /\ row \in [PRs -> Row]
    BY DEF TypeOK
  <2>1. ASSUME NEW p \in PRs, row[p].state # "none" PROVE row'[p].state # "none"
    <3>1. ASSUME NEW state, NEW mergeable, Update(p, state, mergeable), state # "none" PROVE row'[p].state # "none"
      BY <3>1, <2>t DEF Update, Row
    <3>2. ASSUME CheckSave(p) PROVE row'[p].state # "none"
      BY <3>1, <3>2 DEF CheckSave, CreatedInv
    <3>3. ASSUME NEW q \in Requests, req[q].pr = p, EditSave(q) PROVE row'[p].state # "none"
      BY <3>1, <3>3, PullRequestsAssumption DEF EditSave, CreatedInv, PullRequestsAssumption
    <3>4. ASSUME NEW q \in Requests, req[q].pr = p, MergeRecord(q) PROVE row'[p].state # "none"
      BY <3>4, <2>t DEF MergeRecord, Row
    <3>5. ~CreatePR(p)
      BY <2>1 DEF CreatePR
    <3> QED BY <2>1, <3>2, <3>3, <3>4, <3>5, RowCases
  <2>2. ASSUME NEW p \in PRs, row'[p].state = "none" PROVE check'[p].at = "idle"
    <3>1. row[p].state = "none" /\ check[p].at = "idle"
      BY <2>1, <2>2 DEF CreatedInv
    <3>2. Again(check[p]) = NoCheck
      BY <3>1 DEF Again
    <3>3. ~CreatePR(p)
      BY <2>2, <2>t DEF CreatePR, Row
    <3>4. ~(CheckLoad(p) \/ CheckResolve(p) \/ CheckMerge(p) \/ CheckWrite(p) \/ CheckRestore(p))
      BY <3>1 DEF CheckLoad, CheckResolve, CheckMerge, CheckWrite, CheckRestore
    <3>5. NoCheck.at = "idle"
      BY DEF NoCheck
    <3> QED BY <3>1, <3>2, <3>3, <3>4, <3>5, CheckCases
  <2>3. ASSUME NEW p \in PRs, check'[p].at \notin {"idle", "load"} PROVE check'[p].copy.state # "none"
    <3>1. CASE CheckLoad(p)
      BY <3>1, <2>t DEF CheckLoad, CreatedInv, CheckState
    <3>2. CASE CheckResolve(p)
      BY <3>2, <2>t DEF CheckResolve, CreatedInv, CheckState
    <3>3. CASE CheckMerge(p)
      BY <3>3, <2>t DEF CheckMerge, CreatedInv, CheckState
    <3>4. CASE CheckWrite(p)
      BY <3>4, <2>t DEF CheckWrite, CreatedInv, CheckState
    <3>5. CASE CheckRestore(p)
      BY <3>5, <2>t DEF CheckRestore, CreatedInv, CheckState
    <3>6. Again(check[p]).at \in {"load", "idle"} /\ NoCheck.at = "idle"
      BY DEF Again, NoCheck
    <3> QED BY <2>3, <3>1, <3>2, <3>3, <3>4, <3>5, <3>6, CheckCases DEF CreatedInv
  <2>4. ASSUME NEW q \in Requests, req'[q].at = "save" PROVE req'[q].copy.state # "none"
    <3>1. ASSUME RequestStep(q) PROVE req'[q].at # "save"
      BY <3>1, <2>t DEF RequestStep, MergeReviews, MergeChecks, MergeResolve, MergeWrite, MergeWriteHead,
                        MergeRecord, EditSave, RequestFails, Leave, Goto, NoRequest, RequestState
    <3>2. ASSUME NEW p \in PRs, NewRequest(q, p) PROVE req'[q].copy.state # "none"
      BY <2>4, <3>2, <2>t DEF NewRequest, MergeLoad, EditLoad, NoRequest
    <3>3. req'[q] # NoRequest
      BY <2>4 DEF NoRequest
    <3> QED BY <2>4, <3>1, <3>2, <3>3, RequestCases DEF CreatedInv
  <2> QED BY <2>2, <2>3, <2>4 DEF CreatedInv
<1> QED BY <1>1, <1>2, TypeCorrect, PTL DEF Spec

-----------------------------------------------------------------------------
(* What one holder of a branch at a time would give. SerialSpec has every  *)
(* step of Spec that leaves a branch alone while another actor has read it *)
(* and is going to write it. The invariant ties what each holder has in    *)
(* hand to the branch it holds, and a lost restore is left out: when git   *)
(* fails or the server stops between the trial merge and the restore, the  *)
(* base stays as the trial merge left it, whoever holds it.                *)

OnMerge == {"merge", "write", "restore"}
OnWrite == {"write", "writeHead", "record"}

\* A branch no check has borrowed is what was pushed to it or merged into it.
LandedAt(b) ==
  (\A p \in PRs : BaseOf[p] = b => check[p].at # "restore") => ref[b] = landed[b]

\* A check sets the base back to all that had landed on it.
SavedOf(p) == check[p].at \in OnMerge => check[p].saved = landed[BaseOf[p]]

\* What Merge resolved is still what the branches hold, and what it wrote has landed.
ResolvedOf(q) ==
  /\ req[q].at = "write" => req[q].base = ref[Base(q)]
  /\ req[q].at \in {"write", "writeHead"} => req[q].head = ref[Head(q)]
  /\ req[q].at \in {"writeHead", "record"} => Merged(req[q]) \subseteq landed[Base(q)]

\* The head that is going to be merged has its successful runs.
GreenOf(q) ==
  Base(q) \in NeedsGreen =>
    /\ req[q].at = "resolve" => ref[Head(q)] \in green
    /\ req[q].at \in OnWrite => req[q].head \in green

\* A recorded merge has landed on the base.
RecordedOf(p) == \A c \in row[p].sha : c \subseteq landed[BaseOf[p]]

SerialInv ==
  /\ \A b \in Branches : Alone(b) /\ LandedAt(b)
  /\ \A p \in PRs : SavedOf(p) /\ RecordedOf(p)
  /\ \A q \in Requests : ResolvedOf(q) /\ GreenOf(q)

\* Git answers and the server stays up: the failures these theorems allow.
GitHolds == Faults \subseteq {"db", "queue"}

SerialStep == TypeOK /\ TypeOK' /\ CreatedInv /\ GitHolds /\ SerialInv /\ Next /\ Exclusive

\* The identities a step refers to are in range, and a request's base is not its head.
LEMMA Ranges ==
  ASSUME TypeOK
  PROVE  /\ \A q \in Requests : /\ req[q] \in RequestState /\ req[q].pr \in PRs
                                /\ Base(q) \in Branches /\ Head(q) \in Branches /\ Base(q) # Head(q)
         /\ \A p \in PRs : check[p] \in CheckState /\ BaseOf[p] \in Branches
<1>1. \A q \in Requests : req[q] \in RequestState /\ req[q].pr \in PRs
  BY DEF TypeOK, RequestState
<1>2. \A p \in PRs : check[p] \in CheckState
  BY DEF TypeOK
<1> QED BY <1>1, <1>2, PullRequestsAssumption DEF Base, Head, PullRequestsAssumption

\* Without git faults and restarts a check that has the base borrowed goes on
\* to restore it; the failures that are left come before it or after it.
LEMMA CheckKept ==
  ASSUME SerialStep, NEW p \in PRs
  PROVE  \/ check'[p] = check[p]
         \/ CheckResolve(p) \/ CheckMerge(p) \/ CheckWrite(p) \/ CheckRestore(p)
         \/ check'[p].at \notin OnMerge /\ check[p].at \notin OnMerge
<1>t. check \in [PRs -> CheckState]
  BY DEF SerialStep, TypeOK
<1>1. ~Crash
  BY DEF SerialStep, GitHolds, Crash
<1>2. ASSUME CheckLoad(p) PROVE check'[p].at \notin OnMerge /\ check[p].at \notin OnMerge
  BY <1>2, <1>t DEF CheckLoad, OnMerge, CheckState
<1>3. ASSUME CheckSave(p), check'[p] = NoCheck PROVE check'[p].at \notin OnMerge /\ check[p].at \notin OnMerge
  BY <1>3 DEF CheckSave, OnMerge, NoCheck
<1>4. ASSUME CheckFails(p), check'[p] = Again(check[p])
      PROVE  check'[p].at \notin OnMerge /\ check[p].at \notin OnMerge
  <2>1. check[p].at \in {"load", "save"}
    BY <1>4 DEF CheckFails, SerialStep, GitHolds
  <2>2. Again(check[p]).at \in {"load", "idle"}
    BY DEF Again, NoCheck
  <2> QED BY <1>4, <2>1, <2>2 DEF OnMerge
<1>5. ASSUME CreatePR(p), check'[p].at = "load" PROVE check'[p].at \notin OnMerge /\ check[p].at \notin OnMerge
  BY <1>5 DEF CreatePR, SerialStep, CreatedInv, OnMerge
<1> QED BY <1>1, <1>2, <1>3, <1>4, <1>5, CheckCases DEF SerialStep

\* Nobody has the branch in hand.
Free(b) == (\A q \in Requests : ~Merging(q, b)) /\ (\A p \in PRs : ~Checking(p, b))

\* Who can have moved a branch, and what it is then.
LEMMA BranchCases ==
  ASSUME SerialStep, NEW b \in Branches
  PROVE  /\ landed[b] \subseteq landed'[b]
         /\ \/ ref'[b] = ref[b] /\ landed'[b] = landed[b]
            \/ Free(b) /\ req' = req /\ check' = check
                 /\ \E c \in Changes : ref'[b] = ref[b] \union {c} /\ landed'[b] = landed[b] \union {c}
            \/ \E q \in Requests : MergeWrite(q) /\ b = Base(q)
            \/ \E q \in Requests : MergeWriteHead(q) /\ b = Head(q)
            \/ \E p \in PRs : (CheckWrite(p) \/ CheckRestore(p)) /\ b = BaseOf[p] /\ landed'[b] = landed[b]
<1>t. /\ ref \in [Branches -> Commits] /\ landed \in [Branches -> Commits]
      /\ ref' \in [Branches -> Commits] /\ landed' \in [Branches -> Commits]
  BY DEF SerialStep, TypeOK
<1>1. ASSUME NEW c \in Changes, Push(c), b = TargetOf[c]
      PROVE  /\ Free(b) /\ req' = req /\ check' = check
             /\ ref'[b] = ref[b] \union {c} /\ landed'[b] = landed[b] \union {c}
  <2>1. ref'[b] = ref[b] \union {c} /\ landed'[b] = landed[b] \union {c} /\ req' = req /\ check' = check
    BY <1>1, <1>t DEF Push
  <2>2. ref'[b] # ref[b]
    BY <1>1, <2>1 DEF Push
  <2> QED BY <2>1, <2>2 DEF SerialStep, Exclusive, Free
<1>2. ASSUME NEW c \in Changes, Push(c), b # TargetOf[c] PROVE ref'[b] = ref[b] /\ landed'[b] = landed[b]
  BY <1>2, <1>t DEF Push
<1>3. ASSUME NEW q \in Requests, MergeWrite(q)
      PROVE  /\ landed[b] \subseteq landed'[b]
             /\ b # Base(q) => (ref'[b] = ref[b] /\ landed'[b] = landed[b])
  BY <1>3, <1>t DEF MergeWrite
<1>4. ASSUME NEW q \in Requests, MergeWriteHead(q)
      PROVE  /\ landed[b] \subseteq landed'[b]
             /\ b # Head(q) => (ref'[b] = ref[b] /\ landed'[b] = landed[b])
  BY <1>4, <1>t DEF MergeWriteHead
<1>5. ASSUME NEW p \in PRs, CheckWrite(p) \/ CheckRestore(p)
      PROVE  landed' = landed /\ (b # BaseOf[p] => ref'[b] = ref[b])
  BY <1>5, <1>t DEF CheckWrite, CheckRestore
<1>6. ASSUME NEW q \in Requests, RequestStep(q), ~MergeWrite(q), ~MergeWriteHead(q)
      PROVE  ref' = ref /\ landed' = landed
  BY <1>6 DEF RequestStep, MergeReviews, MergeChecks, MergeResolve, MergeRecord, EditSave, RequestFails
<1>7. ASSUME NEW p \in PRs, CheckStep(p), ~CheckWrite(p), ~CheckRestore(p) PROVE ref' = ref /\ landed' = landed
  BY <1>7 DEF CheckStep, CheckLoad, CheckResolve, CheckMerge, CheckSave, CheckFails
<1>8. \/ \E c \in Changes : Push(c)
      \/ \E q \in Requests : MergeWrite(q) \/ MergeWriteHead(q)
      \/ \E p \in PRs : CheckWrite(p) \/ CheckRestore(p)
      \/ ref' = ref /\ landed' = landed
  BY <1>6, <1>7 DEF SerialStep, Next, ChecksPass, CreatePR, Approve, NewRequest, MergeLoad, EditLoad, Crash
<1>9. CASE \E c \in Changes : Push(c)
  <2>1. PICK c \in Changes : Push(c)
    BY <1>9
  <2>2. CASE b = TargetOf[c]
    <3>1. landed[b] \subseteq landed'[b]
      BY <1>1, <2>1, <2>2
    <3> QED BY <1>1, <2>1, <2>2, <3>1
  <2>3. CASE b # TargetOf[c]
    BY <1>2, <2>1, <2>3
  <2> QED BY <2>2, <2>3
<1>10. CASE \E q \in Requests : MergeWrite(q) \/ MergeWriteHead(q)
  <2>1. ASSUME NEW q \in Requests, MergeWrite(q) PROVE b = Base(q) \/ (ref'[b] = ref[b] /\ landed'[b] = landed[b])
    BY <1>3, <2>1
  <2>2. ASSUME NEW q \in Requests, MergeWriteHead(q)
        PROVE  b = Head(q) \/ (ref'[b] = ref[b] /\ landed'[b] = landed[b])
    BY <1>4, <2>2
  <2>3. landed[b] \subseteq landed'[b]
    BY <1>3, <1>4, <1>10
  <2> QED BY <1>10, <2>1, <2>2, <2>3
<1>11. CASE \E p \in PRs : CheckWrite(p) \/ CheckRestore(p)
  <2>1. PICK p \in PRs : CheckWrite(p) \/ CheckRestore(p)
    BY <1>11
  <2>2. landed' = landed /\ (b # BaseOf[p] => ref'[b] = ref[b])
    BY <1>5, <2>1
  <2> QED BY <2>1, <2>2
<1>12. CASE ref' = ref /\ landed' = landed
  BY <1>12
<1> QED BY <1>8, <1>9, <1>10, <1>11, <1>12

\* A branch a merge holds does not move under it.
LEMMA HeldStill ==
  ASSUME SerialStep, NEW q \in Requests, NEW b \in Branches, Merging(q, b), req'[q] = req[q]
  PROVE  ref'[b] = ref[b]
<1>a. Alone(b)
  BY DEF SerialStep, SerialInv
<1>t. req \in [Requests -> RequestState]
  BY DEF SerialStep, TypeOK
<1>1. ~Free(b)
  BY DEF Free
<1>2. ASSUME NEW s \in Requests, MergeWrite(s), b = Base(s) PROVE FALSE
  <2>1. s = q
    BY <1>2, <1>a DEF MergeWrite, Merging, Alone
  <2> QED BY <1>2, <1>t, <2>1 DEF MergeWrite, Goto, RequestState
<1>3. ASSUME NEW s \in Requests, MergeWriteHead(s), b = Head(s) PROVE FALSE
  <2>1. s = q
    BY <1>3, <1>a DEF MergeWriteHead, Merging, Alone
  <2> QED BY <1>3, <1>t, <2>1 DEF MergeWriteHead, Goto, RequestState
<1>4. ASSUME NEW p \in PRs, CheckWrite(p) \/ CheckRestore(p), b = BaseOf[p] PROVE FALSE
  BY <1>4, <1>a DEF CheckWrite, CheckRestore, Checking, Alone
<1> QED BY <1>1, <1>2, <1>3, <1>4, BranchCases

\* Nothing lands on a branch a check holds.
LEMMA BorrowedStill ==
  ASSUME SerialStep, NEW p \in PRs, check[p].at \in OnMerge
  PROVE  landed'[BaseOf[p]] = landed[BaseOf[p]]
<1> DEFINE b == BaseOf[p]
<1>b. b \in Branches /\ Checking(p, b)
  BY Ranges DEF SerialStep, Checking, OnMerge
<1>a. Alone(b)
  BY <1>b DEF SerialStep, SerialInv
<1>1. ~Free(b)
  BY <1>b DEF Free
<1> HIDE DEF b
<1>2. ASSUME NEW s \in Requests, MergeWrite(s), b = Base(s) PROVE FALSE
  BY <1>2, <1>a, <1>b DEF MergeWrite, Merging, Alone
<1>3. ASSUME NEW s \in Requests, MergeWriteHead(s), b = Head(s) PROVE FALSE
  BY <1>3, <1>a, <1>b DEF MergeWriteHead, Merging, Alone
<1>4. landed'[b] = landed[b]
  BY <1>1, <1>2, <1>3, <1>b, BranchCases
<1> QED BY <1>4 DEF b

\* A branch that is not borrowed after the step is what has landed on it.
LEMMA LandedStep ==
  ASSUME SerialStep, NEW b \in Branches, \A p \in PRs : BaseOf[p] = b => check'[p].at # "restore"
  PROVE  ref'[b] = landed'[b]
<1>a. Alone(b) /\ LandedAt(b)
  BY DEF SerialStep, SerialInv
<1>t. /\ ref \in [Branches -> Commits] /\ landed \in [Branches -> Commits]
      /\ check \in [PRs -> CheckState] /\ req \in [Requests -> RequestState]
  BY DEF SerialStep, TypeOK
<1>1. CASE \E p \in PRs : CheckRestore(p) /\ BaseOf[p] = b
  <2>1. PICK p \in PRs : CheckRestore(p) /\ BaseOf[p] = b
    BY <1>1
  <2>2. ref'[b] = check[p].saved /\ landed'[b] = landed[b]
    BY <2>1, <1>t DEF CheckRestore
  <2>3. check[p].saved = landed[b]
    BY <2>1 DEF SerialStep, SerialInv, SavedOf, OnMerge, CheckRestore
  <2> QED BY <2>2, <2>3
<1>2. CASE \A p \in PRs : BaseOf[p] = b => ~CheckRestore(p)
  <2>1. \A p \in PRs : BaseOf[p] = b => check[p].at # "restore"
    <3> SUFFICES ASSUME NEW p \in PRs, BaseOf[p] = b, check[p].at = "restore" PROVE FALSE
      OBVIOUS
    <3>1. ~CheckResolve(p) /\ ~CheckMerge(p) /\ ~CheckWrite(p) /\ ~CheckRestore(p)
      BY <1>2 DEF CheckResolve, CheckMerge, CheckWrite
    <3>2. check[p].at \in OnMerge
      BY DEF OnMerge
    <3> QED BY <3>1, <3>2, CheckKept
  <2>2. ref[b] = landed[b]
    BY <1>a, <2>1 DEF LandedAt
  <2>3. ASSUME NEW q \in Requests, MergeWrite(q), b = Base(q) PROVE ref'[b] = landed'[b]
    <3>1. ref'[b] = req[q].base \union req[q].head /\ landed'[b] = landed[b] \union req[q].head
      BY <2>3, <1>t DEF MergeWrite, Merged
    <3>2. req[q].base = ref[b]
      BY <2>3 DEF SerialStep, SerialInv, ResolvedOf, MergeWrite
    <3> QED BY <2>2, <3>1, <3>2
  <2>4. ASSUME NEW q \in Requests, MergeWriteHead(q), b = Head(q) PROVE ref'[b] = landed'[b]
    <3>1. ref'[b] = req[q].base \union req[q].head /\ landed'[b] = landed[b] \union req[q].base
      BY <2>4, <1>t DEF MergeWriteHead, Merged, SerialStep, GitHolds
    <3>2. req[q].head = ref[b]
      BY <2>4 DEF SerialStep, SerialInv, ResolvedOf, MergeWriteHead
    <3> QED BY <2>2, <3>1, <3>2
  <2>5. ASSUME NEW p \in PRs, CheckWrite(p), b = BaseOf[p] PROVE FALSE
    BY <2>5, <1>t DEF CheckWrite, CheckState
  <2>6. ASSUME NEW c \in Changes, ref'[b] = ref[b] \union {c}, landed'[b] = landed[b] \union {c}
        PROVE  ref'[b] = landed'[b]
    BY <2>2, <2>6
  <2> QED BY <1>2, <2>2, <2>3, <2>4, <2>5, <2>6, BranchCases
<1> QED BY <1>1, <1>2

\* What a check is going to set the base back to is all that has landed on it.
LEMMA SavedStep ==
  ASSUME SerialStep, NEW p \in PRs, check'[p].at \in OnMerge
  PROVE  check'[p].saved = landed'[BaseOf[p]]
<1>t. /\ check \in [PRs -> CheckState] /\ check' \in [PRs -> CheckState] /\ BaseOf[p] \in Branches
  BY Ranges DEF SerialStep, TypeOK
<1>1. CASE CheckResolve(p)
  <2>1. check'[p].saved = ref[BaseOf[p]] /\ landed' = landed /\ check'[p].at = "merge"
    BY <1>1, <1>t DEF CheckResolve, CheckState
  <2>2. ASSUME NEW s \in PRs, BaseOf[s] = BaseOf[p], check[s].at = "restore" PROVE FALSE
    <3>1. s # p
      BY <1>1, <2>2 DEF CheckResolve
    <3>2. check'[s] = check[s]
      BY <1>1, <1>t, <3>1 DEF CheckResolve
    <3>3. Alone(BaseOf[p])'
      BY <1>t DEF SerialStep, Exclusive
    <3>4. \A x, y \in PRs : Checking(x, BaseOf[p])' /\ Checking(y, BaseOf[p])' => x = y
      BY <3>3 DEF Alone
    <3>5. Checking(s, BaseOf[p])' /\ Checking(p, BaseOf[p])'
      BY <2>1, <2>2, <3>2 DEF Checking
    <3> QED BY <3>1, <3>4, <3>5
  <2>3. ref[BaseOf[p]] = landed[BaseOf[p]]
    BY <1>t, <2>2 DEF SerialStep, SerialInv, LandedAt
  <2> QED BY <2>1, <2>3
<1>2. CASE check[p].at \in OnMerge
  <2>1. check[p].saved = landed[BaseOf[p]] /\ landed'[BaseOf[p]] = landed[BaseOf[p]]
    BY <1>2, BorrowedStill DEF SerialStep, SerialInv, SavedOf
  <2>2. ASSUME CheckMerge(p) PROVE check'[p].saved = check[p].saved
    BY <2>2, <1>t DEF CheckMerge, CheckState
  <2>3. ASSUME CheckWrite(p) PROVE check'[p].saved = check[p].saved
    BY <2>3, <1>t DEF CheckWrite, CheckState
  <2>4. ASSUME CheckRestore(p) PROVE check'[p].saved = check[p].saved
    BY <2>4, <1>t DEF CheckRestore, CheckState
  <2>5. ~CheckResolve(p)
    BY <1>2 DEF CheckResolve, OnMerge
  <2> QED BY <1>2, <2>1, <2>2, <2>3, <2>4, <2>5, CheckKept
<1>3. CASE ~CheckResolve(p) /\ check[p].at \notin OnMerge
  <2>1. ~CheckMerge(p) /\ ~CheckWrite(p) /\ ~CheckRestore(p)
    BY <1>3 DEF CheckMerge, CheckWrite, CheckRestore, OnMerge
  <2> QED BY <1>3, <2>1, CheckKept
<1> QED BY <1>1, <1>2, <1>3

\* A request that has not moved is still where the branches are; a step of the
\* request itself moves them along with it.
LEMMA ResolvedStep ==
  ASSUME SerialStep, NEW q \in Requests
  PROVE  ResolvedOf(q)'
<1>i. ResolvedOf(q)
  BY DEF SerialStep, SerialInv
<1>r. /\ Base(q) \in Branches /\ Head(q) \in Branches /\ Base(q) # Head(q)
      /\ req[q] \in RequestState
  BY Ranges DEF SerialStep
<1>t. /\ ref \in [Branches -> Commits] /\ landed \in [Branches -> Commits]
      /\ req \in [Requests -> RequestState]
  BY DEF SerialStep, TypeOK
<1>a. Alone(Base(q)) /\ LandedAt(Base(q))
  BY <1>r DEF SerialStep, SerialInv
<1>0. ASSUME req'[q].at \notin OnWrite PROVE ResolvedOf(q)'
  BY <1>0 DEF ResolvedOf, OnWrite
<1>1. CASE req'[q] = req[q]
  <2>1. landed[Base(q)] \subseteq landed'[Base(q)]
    BY <1>r, BranchCases
  <2>2. ASSUME req[q].at \in {"write", "writeHead"} PROVE ref'[Base(q)] = ref[Base(q)] /\ ref'[Head(q)] = ref[Head(q)]
    <3>1. Merging(q, Base(q)) /\ Merging(q, Head(q))
      BY <2>2 DEF Merging
    <3> QED BY <1>1, <1>r, <3>1, HeldStill
  <2> QED BY <1>1, <1>i, <2>1, <2>2 DEF ResolvedOf, Base, Head, Merged
<1>2. CASE MergeResolve(q)
  <2>1. CASE Leave(q)
    BY <1>0, <1>t, <2>1 DEF Leave, NoRequest, OnWrite
  <2>2. CASE ~Leave(q)
    <3>1. req' = [req EXCEPT ![q].at = "write", ![q].base = ref[Base(q)], ![q].head = ref[Head(q)]] /\ ref' = ref
      BY <1>2, <2>2 DEF MergeResolve
    <3>2. /\ req'[q].at = "write" /\ req'[q].pr = req[q].pr
          /\ req'[q].base = ref[Base(q)] /\ req'[q].head = ref[Head(q)]
      BY <1>t, <3>1 DEF RequestState
    <3> QED BY <3>1, <3>2 DEF ResolvedOf, Base, Head
  <2> QED BY <2>1, <2>2
<1>3. CASE MergeWrite(q)
  <2>1. /\ req'[q].pr = req[q].pr /\ req'[q].base = req[q].base /\ req'[q].head = req[q].head
        /\ req'[q].at \in {"writeHead", "record"}
    BY <1>3, <1>t DEF MergeWrite, Goto, RequestState
  <2>2. ref'[Head(q)] = ref[Head(q)] /\ landed'[Base(q)] = landed[Base(q)] \union req[q].head
    BY <1>3, <1>r, <1>t DEF MergeWrite
  <2>3. req[q].base = ref[Base(q)] /\ req[q].head = ref[Head(q)]
    BY <1>3, <1>i DEF MergeWrite, ResolvedOf
  <2>4. ref[Base(q)] = landed[Base(q)]
    BY <1>3, <1>a DEF LandedAt, Alone, MergeWrite, Merging, Checking
  <2>5. req[q].base \union req[q].head \subseteq landed'[Base(q)]
    BY <2>2, <2>3, <2>4
  <2> QED BY <2>1, <2>2, <2>3, <2>5 DEF ResolvedOf, Base, Head, Merged
<1>4. CASE MergeWriteHead(q)
  <2>1. /\ req'[q].pr = req[q].pr /\ req'[q].base = req[q].base /\ req'[q].head = req[q].head
        /\ req'[q].at = "record"
    BY <1>4, <1>t DEF MergeWriteHead, Goto, RequestState
  <2>2. landed'[Base(q)] = landed[Base(q)]
    BY <1>4, <1>r, <1>t DEF MergeWriteHead
  <2>3. Merged(req[q]) \subseteq landed[Base(q)]
    BY <1>4, <1>i DEF MergeWriteHead, ResolvedOf
  <2> QED BY <2>1, <2>2, <2>3 DEF ResolvedOf, Base, Merged
<1>5. CASE MergeReviews(q) \/ MergeChecks(q) \/ MergeRecord(q) \/ EditSave(q) \/ RequestFails(q)
  <2>1. req'[q].at \in {"idle", "checks", "resolve"}
    BY <1>5, <1>t DEF MergeReviews, MergeChecks, MergeRecord, EditSave, RequestFails, Leave, Goto,
                      NoRequest, RequestState
  <2> QED BY <1>0, <2>1 DEF OnWrite
<1>6. CASE \E p \in PRs : NewRequest(q, p)
  <2>1. req'[q].at \in {"reviews", "save"}
    BY <1>6, <1>t DEF NewRequest, MergeLoad, EditLoad, NoRequest
  <2> QED BY <1>0, <2>1 DEF OnWrite
<1>7. CASE req'[q] = NoRequest
  BY <1>0, <1>7 DEF NoRequest, OnWrite
<1> QED BY <1>1, <1>2, <1>3, <1>4, <1>5, <1>6, <1>7, RequestCases DEF SerialStep, RequestStep

\* The head whose runs were looked at is the one that is merged.
LEMMA GreenStep ==
  ASSUME SerialStep, NEW q \in Requests
  PROVE  GreenOf(q)'
<1>i. GreenOf(q)
  BY DEF SerialStep, SerialInv
<1>r. Head(q) \in Branches /\ req[q] \in RequestState
  BY Ranges DEF SerialStep
<1>t. req \in [Requests -> RequestState]
  BY DEF SerialStep, TypeOK
<1>g. green \subseteq green'
  <2>1. ASSUME NEW s \in Requests, RequestStep(s) PROVE green' = green
    BY <2>1 DEF RequestStep, MergeReviews, MergeChecks, MergeResolve, MergeWrite, MergeWriteHead,
                MergeRecord, EditSave, RequestFails
  <2>2. ASSUME NEW p \in PRs, CheckStep(p) PROVE green' = green
    BY <2>2 DEF CheckStep, CheckLoad, CheckResolve, CheckMerge, CheckWrite, CheckRestore, CheckSave, CheckFails
  <2>3. green' = green \/ \E b \in Branches : ChecksPass(b)
    BY <2>1, <2>2 DEF SerialStep, Next, Push, CreatePR, Approve, NewRequest, MergeLoad, EditLoad, Crash
  <2> QED BY <2>3 DEF ChecksPass
<1>0. ASSUME req'[q].at \notin OnWrite \union {"resolve"} PROVE GreenOf(q)'
  BY <1>0 DEF GreenOf
<1>1. CASE req'[q] = req[q]
  <2>1. ASSUME req[q].at = "resolve" PROVE ref'[Head(q)] = ref[Head(q)]
    <3>1. Merging(q, Head(q))
      BY <2>1 DEF Merging
    <3> QED BY <1>1, <1>r, <3>1, HeldStill
  <2> QED BY <1>1, <1>g, <1>i, <2>1 DEF GreenOf, Base, Head
<1>2. CASE MergeResolve(q)
  <2>1. CASE Leave(q)
    BY <1>0, <1>t, <2>1 DEF Leave, NoRequest, OnWrite
  <2>2. CASE ~Leave(q)
    <3>1. req' = [req EXCEPT ![q].at = "write", ![q].base = ref[Base(q)], ![q].head = ref[Head(q)]]
      BY <1>2, <2>2 DEF MergeResolve
    <3>2. req'[q].at = "write" /\ req'[q].pr = req[q].pr /\ req'[q].head = ref[Head(q)]
      BY <1>t, <3>1 DEF RequestState
    <3>3. Base(q) \in NeedsGreen => ref[Head(q)] \in green
      BY <1>2, <1>i DEF MergeResolve, GreenOf
    <3> QED BY <1>g, <3>2, <3>3 DEF GreenOf, Base, Head
  <2> QED BY <2>1, <2>2
<1>3. CASE MergeWrite(q) \/ MergeWriteHead(q)
  <2>1. /\ req'[q].pr = req[q].pr /\ req'[q].head = req[q].head
        /\ req'[q].at \in {"writeHead", "record"} /\ req[q].at \in {"write", "writeHead"}
    BY <1>3, <1>t DEF MergeWrite, MergeWriteHead, Goto, RequestState
  <2> QED BY <1>g, <1>i, <2>1 DEF GreenOf, Base, Head, OnWrite
<1>4. CASE MergeChecks(q)
  <2>1. CASE Leave(q)
    BY <1>0, <1>t, <2>1 DEF Leave, NoRequest, OnWrite
  <2>2. CASE ~Leave(q)
    <3>1. /\ Base(q) \in NeedsGreen => ref[Head(q)] \in green
          /\ Goto(q, "resolve") /\ ref' = ref
      BY <1>4, <2>2 DEF MergeChecks
    <3>2. req'[q].at = "resolve" /\ req'[q].pr = req[q].pr
      BY <1>t, <3>1 DEF Goto, RequestState
    <3> QED BY <1>g, <3>1, <3>2 DEF GreenOf, Base, Head, OnWrite
  <2> QED BY <2>1, <2>2
<1>5. CASE MergeReviews(q) \/ MergeRecord(q) \/ EditSave(q) \/ RequestFails(q)
  <2>1. req'[q].at \in {"idle", "checks"}
    BY <1>5, <1>t DEF MergeReviews, MergeRecord, EditSave, RequestFails, Leave, Goto, NoRequest, RequestState
  <2> QED BY <1>0, <2>1 DEF OnWrite
<1>6. CASE \E p \in PRs : NewRequest(q, p)
  <2>1. req'[q].at \in {"reviews", "save"}
    BY <1>6, <1>t DEF NewRequest, MergeLoad, EditLoad, NoRequest
  <2> QED BY <1>0, <2>1 DEF OnWrite
<1>7. CASE req'[q] = NoRequest
  BY <1>0, <1>7 DEF NoRequest, OnWrite
<1> QED BY <1>1, <1>2, <1>3, <1>4, <1>5, <1>6, <1>7, RequestCases DEF SerialStep, RequestStep

\* What a row records as merged stays on its base.
LEMMA RecordedStep ==
  ASSUME SerialStep, NEW p \in PRs
  PROVE  RecordedOf(p)'
<1>t. row \in [PRs -> Row] /\ BaseOf[p] \in Branches
  BY Ranges DEF SerialStep, TypeOK
<1>i. RecordedOf(p) /\ landed[BaseOf[p]] \subseteq landed'[BaseOf[p]]
  BY <1>t, BranchCases DEF SerialStep, SerialInv
<1>0. ASSUME row'[p].sha = row[p].sha PROVE RecordedOf(p)'
  BY <1>0, <1>i DEF RecordedOf
<1>1. ASSUME NEW state, NEW mergeable, Update(p, state, mergeable) PROVE row'[p].sha = row[p].sha
  BY <1>1, <1>t DEF Update, Row
<1>2. ASSUME NEW q \in Requests, req[q].pr = p, EditSave(q) PROVE RecordedOf(p)'
  BY <1>0, <1>1, <1>2 DEF EditSave
<1>3. ASSUME CheckSave(p) PROVE RecordedOf(p)'
  BY <1>0, <1>1, <1>3 DEF CheckSave
<1>4. ASSUME CreatePR(p) PROVE row'[p].sha = row[p].sha
  BY <1>4, <1>t DEF CreatePR, Row
<1>5. ASSUME NEW q \in Requests, req[q].pr = p, MergeRecord(q) PROVE RecordedOf(p)'
  <2>1. row'[p].sha = {Merged(req[q])}
    BY <1>5, <1>t DEF MergeRecord, Row
  <2>2. Merged(req[q]) \subseteq landed[BaseOf[p]]
    BY <1>5 DEF MergeRecord, SerialStep, SerialInv, ResolvedOf, Base
  <2> QED BY <1>i, <2>1, <2>2 DEF RecordedOf
<1> QED BY <1>0, <1>2, <1>3, <1>4, <1>5, RowCases DEF SerialStep

\* The invariant is inductive under one holder at a time.
LEMMA SerialInvStep ==
  ASSUME TypeOK, TypeOK', CreatedInv, GitHolds, SerialInv, [Next /\ Exclusive]_vars
  PROVE  SerialInv'
<1>1. CASE UNCHANGED vars
  BY <1>1 DEF vars, SerialInv, Alone, Merging, Checking, LandedAt, SavedOf, ResolvedOf, GreenOf, RecordedOf, Base, Head
<1>2. CASE Next /\ Exclusive
  <2>0. SerialStep
    BY <1>2 DEF SerialStep
  <2>1. \A b \in Branches : Alone(b)'
    BY <1>2 DEF Exclusive
  <2>2. \A b \in Branches : LandedAt(b)'
    BY <2>0, LandedStep DEF LandedAt
  <2>3. \A p \in PRs : SavedOf(p)' /\ RecordedOf(p)'
    BY <2>0, SavedStep, RecordedStep DEF SavedOf
  <2>4. \A q \in Requests : ResolvedOf(q)' /\ GreenOf(q)'
    BY <2>0, ResolvedStep, GreenStep
  <2> QED BY <2>1, <2>2, <2>3, <2>4 DEF SerialInv
<1> QED BY <1>1, <1>2

\* Every behaviour with one holder of a branch at a time is one of the system.
LEMMA SerialIsSpec == SerialSpec => Spec
<1>1. [Next /\ Exclusive]_vars => [Next]_vars
  OBVIOUS
<1> QED BY <1>1, PTL DEF SerialSpec, Spec

\* The invariant of the serial specification.
LEMMA SerialInvariant ==
  ASSUME GitHolds
  PROVE  SerialSpec => []SerialInv
<1>1. Init => SerialInv
  BY PullRequestsAssumption DEF Init, SerialInv, Alone, Merging, Checking, LandedAt, SavedOf, ResolvedOf, GreenOf, RecordedOf,
        OnMerge, OnWrite, NoRow, NoCheck, NoRequest, PullRequestsAssumption
<1>2. TypeOK /\ TypeOK' /\ CreatedInv /\ SerialInv /\ [Next /\ Exclusive]_vars => SerialInv'
  BY SerialInvStep
<1> QED BY <1>1, <1>2, TypeCorrect, CreatedFirst, SerialIsSpec, PTL DEF SerialSpec

\* With one holder of a branch at a time, merges, trial merges, restores and
\* pushes lose no accepted change and bring nothing else in.
THEOREM SerialBranchesAsLanded ==
  ASSUME GitHolds
  PROVE  SerialSpec => []BranchesAsLanded
<1>1. SerialInv => BranchesAsLanded
  BY DEF SerialInv, LandedAt, SavedOf, OnMerge, BranchesAsLanded
<1> QED BY <1>1, SerialInvariant, PTL

\* With one holder of a branch at a time, the commit that is merged is the one
\* whose required workflow runs succeeded.
THEOREM SerialMergesGreenHead ==
  ASSUME GitHolds
  PROVE  SerialSpec => []MergesGreenHead
<1>1. SerialInv => MergesGreenHead
  BY DEF SerialInv, GreenOf, OnWrite, MergesGreenHead
<1> QED BY <1>1, SerialInvariant, PTL

\* With one holder of a branch at a time, what a row records as merged is in
\* its base branch whenever no check has it borrowed.
THEOREM SerialMergedIntoBase ==
  ASSUME GitHolds
  PROVE  SerialSpec => []MergedIntoBase
<1>1. ASSUME TypeOK, SerialInv PROVE MergedIntoBase
  <2>1. \A p \in PRs : BaseOf[p] \in Branches
    BY PullRequestsAssumption DEF PullRequestsAssumption
  <2> QED BY <1>1, <2>1 DEF SerialInv, LandedAt, RecordedOf, MergedIntoBase
<1> QED BY <1>1, SerialInvariant, TypeCorrect, SerialIsSpec, PTL
=============================================================================
