-------------------------- MODULE ImportJobsProofs --------------------------
(* Proofs about ImportJobs, for any number of pages, workers, requests,    *)
(* tries and faults.                                                       *)
EXTENDS ImportJobs, TLAPS

-----------------------------------------------------------------------------
(* The inductive invariants. *)

Paged == {"issues", "pulls"}

\* The items of a phase up to a page have their rows, or were lost.
Through(phase, page) == \A n \in 1..Pages[phase] : n <= page => <<phase, n>> \in rows \union lost

\* What a phase is for is there.
Done(phase) ==
  /\ phase = "clone" => clone = "whole"
  /\ phase = "metadata" => repository /\ target
  /\ phase \in Paged => Through(phase, Pages[phase])

Before(phase, other) ==
  \/ phase = "clone" /\ other # "clone"
  \/ phase = "metadata" /\ other \notin {"clone", "metadata"}
  \/ phase = "issues" /\ other \in {"pulls", "done"}
  \/ phase = "pulls" /\ other = "done"

\* The steps of a worker belong to its phase, and pages are those there are.
Fits(x) ==
  /\ x.at \in {"load", "start", "fetch", "mirror"} => x.phase = "clone"
  /\ x.at \in {"create", "setTarget"} => x.phase = "metadata"
  /\ x.at \in {"page", "item", "comments", "save"} => x.phase \in Paged /\ x.page \in 1..(Pages[x.phase] + 1)
  /\ x.at \in {"item", "comments", "save"} => x.page <= Pages[x.phase]
  /\ x.at = "comments" => x.phase = "issues"
  /\ x.at = "mark" => x.phase # "done"

WorkersFit == \A w \in Workers : Fits(worker[w])

\* A worker has behind it the phases before its own and the pages before its own.
Advanced(x) ==
  x.at # "idle" =>
    /\ \A phase \in Phases : Before(phase, x.phase) => Done(phase)
    /\ x.at = "mark" => Done(x.phase)
    /\ x.at = "setTarget" => repository
    /\ x.at \in {"page", "item", "comments", "save"} => Through(x.phase, x.page - 1)
    /\ x.at \in {"comments", "save"} => Through(x.phase, x.page)

Progress ==
  /\ \A phase \in Phases : checkpoint[phase].completed => Done(phase)
  /\ \A phase \in Paged : Through(phase, checkpoint[phase].cursor)
  /\ \A w \in Workers : Advanced(worker[w])
  /\ status = "completed" => \A phase \in Phases : Done(phase)

\* One worker at most writes the clone, and it is not whole yet.
MirrorAlone ==
  \A w \in Workers : worker[w].at = "mirror" =>
    clone = "partial" /\ \A v \in Workers \ {w} : worker[v].at # "mirror"

\* The comments of an issue are left to the one worker that inserted its row.
CommentsLeft ==
  /\ \A i \in Issues : comments[i] <= 1 /\ (i \notin rows => comments[i] = 0)
  /\ \A w \in Workers : worker[w].at = "comments" =>
       /\ Item(w) \in rows /\ comments[Item(w)] = 0
       /\ \A v \in Workers \ {w} : worker[v].at = "comments" => Item(v) # Item(w)

ImportInv == TypeOK /\ WorkersFit /\ Progress /\ MirrorAlone /\ CommentsLeft

-----------------------------------------------------------------------------
(* What steps keep. *)

\* Nothing that a phase is for is taken away.
StoreKept ==
  /\ clone = "whole" => clone' = "whole"
  /\ repository => repository'
  /\ target => target'
  /\ rows \subseteq rows' /\ lost \subseteq lost'

\* Items that are through stay so while nothing is taken away.
LEMMA ThroughKept ==
  ASSUME StoreKept, NEW phase, NEW page, Through(phase, page)
  PROVE  \A n \in 1..Pages[phase] : n <= page => <<phase, n>> \in rows' \union lost'
BY DEF StoreKept, Through

\* A phase that is done stays so while nothing is taken away.
LEMMA DoneKept ==
  ASSUME StoreKept, NEW phase, Done(phase)
  PROVE  Done(phase)'
BY DEF StoreKept, Done, Through

\* No worker is both idle and at a step.
LEMMA IdleIsNotBusy == Idle.at = "idle" /\ "idle" \notin At /\ \A x \in Busy : x.at \in At /\ x.at # "idle"
BY DEF Idle, At, Busy

\* An idle worker fits.
LEMMA IdleFits == Fits(Idle) /\ Idle.at = "idle"
BY DEF Fits, Idle

\* An item is a phase and one of its pages.
LEMMA ItemsAre ==
  /\ \A phase \in Paged : \A n \in 1..Pages[phase] : <<phase, n>> \in Items
  /\ \A n \in 1..Pages["issues"] : <<"issues", n>> \in Issues
  /\ \A i \in Items : \E phase \in Paged : \E n \in 1..Pages[phase] : i = <<phase, n>>
BY DEF Items, Issues, Paged

\* Every phase has finitely many pages.
LEMMA PagesAreNat == \A phase \in Paged : Pages[phase] \in Nat
BY ImportJobsAssumption DEF Paged

\* A worker that goes on keeps its task, its phase and its page.
LEMMA GotoWorker ==
  ASSUME TypeOK, NEW w \in Workers, NEW at \in At, worker[w].at # "idle", Goto(w, at)
  PROVE  \E x \in Busy :
           /\ worker' = [worker EXCEPT ![w] = x] /\ worker[w] \in Busy
           /\ x.at = at /\ x.task = worker[w].task /\ x.phase = worker[w].phase /\ x.page = worker[w].page
<1> DEFINE x == [worker[w] EXCEPT !.at = at]
<1>1. worker[w] \in Busy
  BY IdleIsNotBusy DEF TypeOK
<1>2. x \in Busy
  BY <1>1 DEF Busy
<1>3. x.at = at /\ x.task = worker[w].task /\ x.phase = worker[w].phase /\ x.page = worker[w].page
  BY <1>1 DEF Busy
<1>4. worker' = [worker EXCEPT ![w] = x]
  BY DEF Goto, TypeOK
<1> HIDE DEF x
<1>5. QED
  BY <1>1, <1>2, <1>3, <1>4

\* One worker moves; no phase loses what it did.
Moves(w, x) ==
  /\ x \in {Idle} \union Busy /\ worker' = [worker EXCEPT ![w] = x]
  /\ StoreKept
  /\ checkpoint' \in [Phases -> [cursor: Nat, completed: BOOLEAN]]
  /\ \A phase \in Phases : checkpoint'[phase].completed => checkpoint[phase].completed \/ Done(phase)
  /\ \A phase \in Paged :
       checkpoint'[phase].cursor <= Pages[phase] /\ Through(phase, checkpoint'[phase].cursor)
  /\ status' = "completed" => status = "completed" \/ \A phase \in Phases : Done(phase)
  /\ Fits(x)

Advances(x) ==
  x.at # "idle" =>
    /\ \A phase \in Phases : Before(phase, x.phase) => Done(phase) \/ Done(phase)'
    /\ x.at = "mark" => Done(x.phase)'
    /\ x.at = "setTarget" => repository'
    /\ x.at \in {"page", "item", "comments", "save"} =>
         \A n \in 1..Pages[x.phase] : n <= x.page - 1 => <<x.phase, n>> \in rows' \union lost'
    /\ x.at \in {"comments", "save"} =>
         \A n \in 1..Pages[x.phase] : n <= x.page => <<x.phase, n>> \in rows' \union lost'

\* A worker that moves on as far as the checkpoints allow keeps what they stand for.
LEMMA MovesProgress ==
  ASSUME TypeOK, WorkersFit, Progress, NEW w \in Workers, NEW x, Moves(w, x), Advances(x)
  PROVE  WorkersFit' /\ Progress'
<1>1. worker' \in [Workers -> {Idle} \union Busy] /\ worker'[w] = x /\ StoreKept
      /\ \A v \in Workers \ {w} : worker'[v] = worker[v]
  BY DEF Moves, TypeOK
<1>2. WorkersFit'
  <2>1. \A v \in Workers : Fits(worker[v])
    BY DEF WorkersFit
  <2>2. ASSUME NEW v \in Workers PROVE Fits(worker'[v])
    BY <1>1, <2>1 DEF Moves
  <2>3. QED
    BY <2>2 DEF WorkersFit, Fits
<1>3. \A phase \in Phases : Done(phase) => Done(phase)'
  BY <1>1, DoneKept
<1>4. \A phase \in Phases : checkpoint'[phase].completed => Done(phase)'
  BY <1>3 DEF Moves, Progress
<1>5. \A phase \in Paged : \A n \in 1..Pages[phase] :
        n <= checkpoint'[phase].cursor => <<phase, n>> \in rows' \union lost'
  <2>1. \A phase \in Paged : Through(phase, checkpoint'[phase].cursor)
    BY DEF Moves
  <2>2. QED
    BY <1>1, <2>1 DEF StoreKept, Through
<1>6. ASSUME NEW v \in Workers, worker'[v].at # "idle"
      PROVE  /\ \A phase \in Phases : Before(phase, worker'[v].phase) => Done(phase)'
             /\ worker'[v].at = "mark" => \E phase \in Phases : phase = worker'[v].phase /\ Done(phase)'
             /\ worker'[v].at = "setTarget" => repository'
             /\ worker'[v].at \in {"page", "item", "comments", "save"} =>
                  \A n \in 1..Pages[worker'[v].phase] :
                    n <= worker'[v].page - 1 => <<worker'[v].phase, n>> \in rows' \union lost'
             /\ worker'[v].at \in {"comments", "save"} =>
                  \A n \in 1..Pages[worker'[v].phase] :
                    n <= worker'[v].page => <<worker'[v].phase, n>> \in rows' \union lost'
  <2>0. worker'[v] \in Busy /\ Fits(worker'[v])
    <3>1. worker'[v] \in Busy
      BY <1>1, <1>6, IdleIsNotBusy
    <3>2. Fits(worker'[v])
      BY <1>1 DEF WorkersFit, Moves
    <3>3. QED
      BY <3>1, <3>2
  <2>1. CASE v = w
    <3>1. x.at = "mark" => x.phase \in Phases
      BY <1>1, <2>0, <2>1 DEF Busy, Fits
    <3>2. x.at = "mark" => \E phase \in Phases : phase = x.phase /\ Done(phase)'
      <4>1. ASSUME x.at = "mark" PROVE \E phase \in Phases : phase = x.phase /\ Done(phase)'
        <5>1. PICK phase \in Phases : phase = x.phase
          BY <3>1, <4>1
        <5>2. Done(x.phase)'
          BY <4>1 DEF Advances
        <5>3. Done(phase)'
          BY <5>1, <5>2 DEF Done, Through
        <5>4. QED
          BY <5>1, <5>3
      <4>2. QED
        BY <4>1
    <3>3. QED
      BY <1>1, <1>3, <1>6, <2>1, <3>2 DEF Advances
  <2>2. CASE v # w
    <3>1. worker'[v] = worker[v] /\ Advanced(worker[v])
      BY <1>1, <2>2 DEF Progress
    <3>2. worker[v].at = "mark" => worker[v].phase \in Phases
      BY <2>0, <3>1 DEF Busy, Fits
    <3>3. /\ \A phase \in Phases : Before(phase, worker[v].phase) => Done(phase)
          /\ worker[v].at = "mark" => Done(worker[v].phase)
          /\ worker[v].at = "setTarget" => repository
          /\ worker[v].at \in {"page", "item", "comments", "save"} => Through(worker[v].phase, worker[v].page - 1)
          /\ worker[v].at \in {"comments", "save"} => Through(worker[v].phase, worker[v].page)
      BY <1>6, <3>1 DEF Advanced
    <3>4. worker[v].at \in {"page", "item", "comments", "save"} =>
            \A n \in 1..Pages[worker[v].phase] :
              n <= worker[v].page - 1 => <<worker[v].phase, n>> \in rows' \union lost'
      BY <1>1, <3>3 DEF StoreKept, Through
    <3>5. worker[v].at \in {"comments", "save"} =>
            \A n \in 1..Pages[worker[v].phase] :
              n <= worker[v].page => <<worker[v].phase, n>> \in rows' \union lost'
      BY <1>1, <3>3 DEF StoreKept, Through
    <3>6. worker[v].at = "mark" => \E phase \in Phases : phase = worker[v].phase /\ Done(phase)'
      BY <1>3, <3>2, <3>3
    <3>7. worker[v].at = "setTarget" => repository'
      BY <1>1, <3>3 DEF StoreKept
    <3>8. \A phase \in Phases : Before(phase, worker[v].phase) => Done(phase)'
      BY <1>3, <3>3
    <3>9. QED
      BY <3>1, <3>4, <3>5, <3>6, <3>7, <3>8
  <2>3. QED
    BY <2>1, <2>2
<1>7. ASSUME NEW v \in Workers PROVE Advanced(worker[v])'
  <2>1. CASE worker'[v].at = "idle"
    BY <2>1 DEF Advanced
  <2>2. CASE worker'[v].at # "idle"
    <3>1. worker'[v].at = "mark" => Done(worker[v].phase)'
      <4>1. ASSUME worker'[v].at = "mark" PROVE Done(worker[v].phase)'
        <5>1. PICK phase \in Phases : phase = worker'[v].phase /\ Done(phase)'
          BY <1>6, <2>2, <4>1
        <5>2. QED
          BY <5>1 DEF Done, Through
      <4>2. QED
        BY <4>1
    <3>2. QED
      BY <1>6, <2>2, <3>1 DEF Advanced, Through, Before
  <2>3. QED
    BY <2>1, <2>2
<1>8. status' = "completed" => \A phase \in Phases : Done(phase)'
  BY <1>3 DEF Moves, Progress
<1>9. Progress'
  BY <1>4, <1>5, <1>7, <1>8 DEF Progress, Through
<1>10. QED
  BY <1>2, <1>9

\* A worker that leaves the clone to itself, or comes from it.
LEMMA MirrorKept ==
  ASSUME TypeOK, MirrorAlone, NEW w \in Workers, NEW x, worker' = [worker EXCEPT ![w] = x],
         x.at # "mirror", clone' = clone \/ worker[w].at = "mirror"
  PROVE  MirrorAlone'
<1>1. worker'[w] = x /\ \A v \in Workers \ {w} : worker'[v] = worker[v]
  BY DEF TypeOK
<1>2. QED
  BY <1>1 DEF MirrorAlone

\* A worker that has no comments to insert leaves them to the others.
LEMMA CommentsKept ==
  ASSUME TypeOK, CommentsLeft, NEW w \in Workers, NEW x, worker' = [worker EXCEPT ![w] = x],
         x.at # "comments", rows \subseteq rows',
         \/ comments' = comments
         \/ worker[w].at = "comments" /\ Item(w) \in Issues /\ comments' = [comments EXCEPT ![Item(w)] = @ + 1]
  PROVE  CommentsLeft'
<1>1. worker'[w] = x /\ \A v \in Workers \ {w} : worker'[v] = worker[v]
  BY DEF TypeOK
<1>2. \A i \in Issues : comments[i] <= 1 /\ (i \notin rows => comments[i] = 0)
  BY DEF CommentsLeft
<1>3. \A v \in Workers : worker[v].at = "comments" =>
        /\ <<worker[v].phase, worker[v].page>> \in rows /\ comments[<<worker[v].phase, worker[v].page>>] = 0
        /\ \A u \in Workers \ {v} : worker[u].at = "comments" =>
             <<worker[u].phase, worker[u].page>> # <<worker[v].phase, worker[v].page>>
  BY DEF CommentsLeft, Item
<1>4. \A v \in Workers : worker'[v].at = "comments" => v # w /\ worker'[v] = worker[v]
  BY <1>1
<1>5. CASE comments' = comments
  <2>1. \A i \in Issues : comments'[i] <= 1 /\ (i \notin rows' => comments'[i] = 0)
    BY <1>2, <1>5
  <2>2. QED
    BY <1>3, <1>4, <1>5, <2>1 DEF CommentsLeft, Item
<1>6. CASE worker[w].at = "comments" /\ Item(w) \in Issues /\ comments' = [comments EXCEPT ![Item(w)] = @ + 1]
  <2> DEFINE i == <<worker[w].phase, worker[w].page>>
  <2>1. i \in rows /\ comments[i] = 0 /\ i \in Issues
    BY <1>3, <1>6 DEF Item
  <2>2. comments' = [comments EXCEPT ![i] = comments[i] + 1]
    BY <1>6 DEF Item
  <2> HIDE DEF i
  <2>3. comments'[i] = 1 /\ \A j \in Issues : j # i => comments'[j] = comments[j]
    BY <2>1, <2>2 DEF TypeOK
  <2>4. \A j \in Issues : comments'[j] <= 1 /\ (j \notin rows' => comments'[j] = 0)
    BY <1>2, <2>1, <2>3
  <2>5. ASSUME NEW v \in Workers, worker'[v].at = "comments"
        PROVE  /\ <<worker'[v].phase, worker'[v].page>> \in rows'
               /\ comments'[<<worker'[v].phase, worker'[v].page>>] = 0
               /\ \A u \in Workers \ {v} : worker'[u].at = "comments" =>
                    <<worker'[u].phase, worker'[u].page>> # <<worker'[v].phase, worker'[v].page>>
    <3> DEFINE j == <<worker[v].phase, worker[v].page>>
    <3>1. v # w /\ worker'[v] = worker[v]
      BY <1>4, <2>5
    <3>2. j \in rows /\ comments[j] = 0 /\ j # i
      BY <1>3, <1>6, <2>5, <3>1 DEF i
    <3>3. comments'[j] = comments[j]
      BY <2>2, <3>2
    <3>4. \A u \in Workers \ {v} : worker'[u].at = "comments" =>
            <<worker'[u].phase, worker'[u].page>> # <<worker'[v].phase, worker'[v].page>>
      BY <1>3, <1>4, <2>5, <3>1
    <3>5. QED
      BY <3>1, <3>2, <3>3, <3>4
  <2>6. QED
    BY <2>4, <2>5 DEF CommentsLeft, Item
<1>7. QED
  BY <1>5, <1>6

\* Requests and the queue leave the workers and the store alone.
LEMMA StoreAlone ==
  ASSUME ImportInv, UNCHANGED <<store, worker>>, status' = "completed" => status = "completed"
  PROVE  WorkersFit' /\ Progress' /\ MirrorAlone' /\ CommentsLeft'
<1>1. UNCHANGED <<target, checkpoint, clone, repository, rows, comments, lost, worker>>
  BY DEF store
<1>2. WorkersFit' /\ MirrorAlone' /\ CommentsLeft'
  BY <1>1 DEF ImportInv, WorkersFit, Fits, MirrorAlone, CommentsLeft, Item
<1>3. Progress'
  BY <1>1 DEF ImportInv, Progress, Advanced, Done, Through, Before
<1>4. QED
  BY <1>2, <1>3

\* A worker moves and the store stays, as does every checkpoint.
LEMMA StoreStays ==
  ASSUME ImportInv, NEW w \in Workers, NEW x \in {Idle} \union Busy, worker' = [worker EXCEPT ![w] = x],
         UNCHANGED store, x.at \notin {"mirror", "comments"}, Fits(x),
         status' = "completed" => status = "completed" \/ \A phase \in Phases : Done(phase),
         x.at # "idle" =>
           /\ \A phase \in Phases : Before(phase, x.phase) => Done(phase)
           /\ x.at = "mark" => Done(x.phase)
           /\ x.at = "setTarget" => repository
           /\ x.at \in {"page", "item", "save"} => Through(x.phase, x.page - 1)
           /\ x.at = "save" => Through(x.phase, x.page)
  PROVE  WorkersFit' /\ Progress' /\ MirrorAlone' /\ CommentsLeft'
<1>1. UNCHANGED <<target, checkpoint, clone, repository, rows, comments, lost>>
  BY DEF store
<1>2. TypeOK /\ WorkersFit /\ Progress /\ MirrorAlone /\ CommentsLeft
  BY DEF ImportInv
<1>3. StoreKept
  BY <1>1 DEF StoreKept
<1>4. Moves(w, x)
  <2>1. checkpoint' \in [Phases -> [cursor: Nat, completed: BOOLEAN]] /\ checkpoint' = checkpoint
    BY <1>1, <1>2 DEF TypeOK
  <2>2. \A phase \in Paged : checkpoint[phase].cursor <= Pages[phase] /\ Through(phase, checkpoint[phase].cursor)
    BY <1>2 DEF TypeOK, Progress, Paged
  <2>3. QED
    BY <1>3, <2>1, <2>2 DEF Moves
<1>5. Advances(x)
  BY <1>1 DEF Advances, Through, Done
<1>6. WorkersFit' /\ Progress'
  BY <1>2, <1>4, <1>5, MovesProgress
<1>7. MirrorAlone' /\ CommentsLeft'
  BY <1>1, <1>2, MirrorKept, CommentsKept
<1>8. QED
  BY <1>6, <1>7

-----------------------------------------------------------------------------
(* The steps. *)

\* An enqueued task keeps the queue well typed.
LEMMA PutTypes ==
  ASSUME TypeOK, NEW t, Put(t)
  PROVE  queue' \in [Task -> Nat]
<1>1. queue \in [Task -> Nat]
  BY DEF TypeOK
<1>2. CASE t \in Task
  <2>1. queue[t] + 1 \in Nat
    BY <1>1, <1>2
  <2>2. QED
    BY <1>1, <2>1 DEF Put
<1>3. CASE t \notin Task
  BY <1>1, <1>3 DEF Put
<1>4. QED
  BY <1>2, <1>3

\* Requests keep the invariant.
LEMMA RequestsKept ==
  ASSUME ImportInv, NEW q \in Requests,
         CreateImport(q) \/ CancelRead(q) \/ RetryRead(q) \/ RequestStep(q) \/ RequestFails(q)
  PROVE  ImportInv'
<1>0. TypeOK
  BY DEF ImportInv
<1>1. UNCHANGED <<store, worker>> /\ (status' = "completed" => status = "completed")
  BY DEF CreateImport, CancelRead, RetryRead, RequestStep, RequestFails, NewRequest,
         EnqueueGitHubImport, CancelWrite, RetryWrite
<1>2. UNCHANGED <<target, checkpoint, clone, repository, rows, comments, lost, worker>>
  BY <1>1 DEF store
<1>3. request' \in [Requests -> {"idle", "cancel", "requeue", "enqueue"}]
  BY <1>0 DEF CreateImport, CancelRead, RetryRead, RequestStep, RequestFails, NewRequest,
              EnqueueGitHubImport, CancelWrite, RetryWrite, Goes, TypeOK
<1>4. queue' \in [Task -> Nat]
  <2>1. CASE EnqueueGitHubImport(q)
    BY <1>0, <2>1, PutTypes DEF EnqueueGitHubImport
  <2>2. CASE UNCHANGED queue
    BY <1>0, <2>2 DEF TypeOK
  <2>3. QED
    BY <2>1, <2>2 DEF CreateImport, CancelRead, RetryRead, RequestStep, RequestFails, NewRequest,
                      CancelWrite, RetryWrite
<1>5. asked' \in 0..MaxRequests /\ faults' \in 0..MaxFaults
  <2>1. asked' = asked \/ (asked < MaxRequests /\ asked' = asked + 1)
    BY DEF CreateImport, CancelRead, RetryRead, RequestStep, RequestFails, NewRequest,
           EnqueueGitHubImport, CancelWrite, RetryWrite
  <2>2. faults' = faults \/ (faults < MaxFaults /\ faults' = faults + 1)
    BY DEF CreateImport, CancelRead, RetryRead, RequestStep, RequestFails, NewRequest,
           EnqueueGitHubImport, CancelWrite, RetryWrite
  <2>3. asked \in 0..MaxRequests /\ faults \in 0..MaxFaults
    BY <1>0 DEF TypeOK
  <2>4. QED
    BY <2>1, <2>2, <2>3, ImportJobsAssumption
<1>6. status' \in Status /\ excuse' \subseteq {"request", "bare", "start", "unmarked", "crash"}
  BY <1>0 DEF CreateImport, CancelRead, RetryRead, RequestStep, RequestFails, NewRequest,
              EnqueueGitHubImport, CancelWrite, RetryWrite, TypeOK, Status
<1>7. TypeOK'
  BY <1>0, <1>2, <1>3, <1>4, <1>5, <1>6 DEF TypeOK
<1>8. QED
  BY <1>1, <1>7, StoreAlone DEF ImportInv

\* A delivery keeps the invariant.
LEMMA DeliverKept ==
  ASSUME ImportInv, NEW w \in Workers, NEW t \in Task, Deliver(w, t)
  PROVE  ImportInv'
<1> DEFINE x == [at |-> "load", task |-> t, phase |-> "clone", page |-> 0]
<1>0. TypeOK
  BY DEF ImportInv
<1>1. x \in Busy /\ x.at = "load" /\ x.phase = "clone"
  BY DEF Busy, At, Phases
<1>2. worker' = [worker EXCEPT ![w] = x] /\ UNCHANGED <<status, store, request, asked, faults, excuse>>
  BY DEF Deliver
<1> HIDE DEF x
<1>3. Fits(x) /\ \A phase : ~Before(phase, x.phase)
  BY <1>1 DEF Fits, Before
<1>4. WorkersFit' /\ Progress' /\ MirrorAlone' /\ CommentsLeft'
  BY <1>1, <1>2, <1>3, StoreStays
<1>5. queue' \in [Task -> Nat]
  <2>1. queue \in [Task -> Nat] /\ queue[t] > 0 /\ queue' = [queue EXCEPT ![t] = queue[t] - 1]
    BY <1>0 DEF TypeOK, Deliver
  <2>2. queue[t] - 1 \in Nat
    BY <2>1
  <2>3. QED
    BY <2>1, <2>2
<1>6. worker' \in [Workers -> {Idle} \union Busy]
  BY <1>0, <1>1, <1>2 DEF TypeOK
<1>7. TypeOK'
  BY <1>0, <1>2, <1>5, <1>6 DEF TypeOK, store
<1>8. QED
  BY <1>4, <1>7 DEF ImportInv

\* A step that only moves a worker and perhaps the row, the queue and the histories.
LEMMA WorkerAlone ==
  ASSUME ImportInv, NEW w \in Workers, NEW x \in {Idle} \union Busy, worker' = [worker EXCEPT ![w] = x],
         UNCHANGED <<store, request, asked>>, x.at \notin {"mirror", "comments"}, Fits(x),
         status' \in Status,
         status' = "completed" => status = "completed" \/ \A phase \in Phases : Done(phase),
         queue' \in [Task -> Nat], faults' = faults \/ (faults < MaxFaults /\ faults' = faults + 1),
         excuse' \subseteq {"request", "bare", "start", "unmarked", "crash"},
         x.at # "idle" =>
           /\ \A phase \in Phases : Before(phase, x.phase) => Done(phase)
           /\ x.at = "mark" => Done(x.phase)
           /\ x.at = "setTarget" => repository
           /\ x.at \in {"page", "item", "save"} => Through(x.phase, x.page - 1)
           /\ x.at = "save" => Through(x.phase, x.page)
  PROVE  ImportInv'
<1>0. TypeOK
  BY DEF ImportInv
<1>1. WorkersFit' /\ Progress' /\ MirrorAlone' /\ CommentsLeft'
  BY StoreStays
<1>2. UNCHANGED <<target, checkpoint, clone, repository, rows, comments, lost>>
  BY DEF store
<1>3. faults' \in 0..MaxFaults
  <2>1. faults \in 0..MaxFaults
    BY <1>0 DEF TypeOK
  <2>2. QED
    BY <2>1, ImportJobsAssumption
<1>4. worker' \in [Workers -> {Idle} \union Busy]
  BY <1>0 DEF TypeOK
<1>5. TypeOK'
  BY <1>0, <1>2, <1>3, <1>4 DEF TypeOK
<1>6. QED
  BY <1>1, <1>5 DEF ImportInv

\* A worker that gives its task back is idle.
LEMMA WorkerIdle ==
  ASSUME ImportInv, NEW w \in Workers, worker' = [worker EXCEPT ![w] = Idle],
         UNCHANGED <<store, request, asked>>, status' \in {status, "failed"},
         queue' \in [Task -> Nat], faults' = faults \/ (faults < MaxFaults /\ faults' = faults + 1),
         excuse' \subseteq {"request", "bare", "start", "unmarked", "crash"}
  PROVE  ImportInv'
<1>1. status' \in Status /\ (status' = "completed" => status = "completed")
  BY DEF ImportInv, TypeOK, Status
<1>2. QED
  BY <1>1, IdleFits, WorkerAlone

\* A handler that is retried leaves its worker idle.
LEMMA RetryIdle ==
  ASSUME TypeOK, NEW w \in Workers, Retry(w)
  PROVE  worker' = [worker EXCEPT ![w] = Idle] /\ queue' \in [Task -> Nat]
<1>1. CASE worker[w].task.tries < MaxTries
  <2> DEFINE t == worker[w].task
             next == [t EXCEPT !.tries = @ + 1]
  <2>1. Put(next)
    BY <1>1 DEF Retry
  <2> HIDE DEF next
  <2>2. QED
    BY <2>1, PutTypes DEF Retry
<1>2. CASE ~(worker[w].task.tries < MaxTries)
  BY <1>2 DEF Retry, TypeOK
<1>3. QED
  BY <1>1, <1>2

\* A worker goes on in its phase: what it has behind it stays behind it.
LEMMA WorkerGoes ==
  ASSUME ImportInv, NEW w \in Workers, NEW at \in At, Goto(w, at), worker[w].at # "idle",
         UNCHANGED <<store, queue, request, asked>>, status' \in Status,
         status' = "completed" => status = "completed" \/ \A phase \in Phases : Done(phase),
         faults' = faults \/ (faults < MaxFaults /\ faults' = faults + 1), excuse' = excuse,
         at \notin {"load", "fetch", "mirror", "create", "comments"},
         at = "start" => worker[w].at = "load",
         at = "setTarget" => FALSE,
         at \in {"page", "item", "save"} => worker[w].at \in {"page", "item", "comments", "save"},
         at \in {"item", "save"} => worker[w].page <= Pages[worker[w].phase],
         at = "save" => worker[w].at = "comments" \/ Item(w) \in rows \union lost,
         at = "mark" => worker[w].phase # "done" /\ Done(worker[w].phase)
  PROVE  ImportInv'
<1>0. TypeOK /\ Fits(worker[w]) /\ Advanced(worker[w])
  BY DEF ImportInv, WorkersFit, Progress
<1>1. PICK x \in Busy :
           /\ worker' = [worker EXCEPT ![w] = x] /\ worker[w] \in Busy
           /\ x.at = at /\ x.task = worker[w].task /\ x.phase = worker[w].phase /\ x.page = worker[w].page
  BY <1>0, GotoWorker
<1>2. Fits(x)
  BY <1>0, <1>1 DEF Fits
<1>3. /\ \A phase \in Phases : Before(phase, x.phase) => Done(phase)
      /\ x.at = "mark" => Done(x.phase)
      /\ x.at \in {"page", "item", "save"} => Through(x.phase, x.page - 1)
  BY <1>0, <1>1 DEF Advanced
<1>4. x.at = "save" => Through(x.phase, x.page)
  <2>1. CASE worker[w].at = "comments"
    BY <1>0, <1>1, <2>1 DEF Advanced
  <2>2. CASE at = "save" /\ Item(w) \in rows \union lost
    <3>1. Through(x.phase, x.page - 1) /\ <<x.phase, x.page>> \in rows \union lost
      BY <1>1, <1>3, <2>2 DEF Item
    <3>2. x.page \in Nat
      BY DEF Busy
    <3>3. ASSUME NEW n \in 1..Pages[x.phase], n <= x.page PROVE <<x.phase, n>> \in rows \union lost
      <4>1. n <= x.page - 1 \/ n = x.page
        BY <3>2, <3>3
      <4>2. QED
        BY <3>1, <4>1 DEF Through
    <3>4. QED
      BY <3>3 DEF Through
  <2>3. QED
    BY <1>1, <2>1, <2>2
<1>5. queue' \in [Task -> Nat] /\ excuse' \subseteq {"request", "bare", "start", "unmarked", "crash"}
  BY <1>0 DEF TypeOK
<1>6. QED
  BY <1>1, <1>2, <1>3, <1>4, <1>5, WorkerAlone

\* Whatever ends a handler keeps the invariant.
LEMMA IdleStepsKept ==
  ASSUME ImportInv, NEW w \in Workers,
         Ack(w) \/ Crash(w) \/ StartFails(w) \/ failImport(w) \/ failImportIgnored(w)
  PROVE  ImportInv'
<1>0. TypeOK
  BY DEF ImportInv
<1>1. worker' = [worker EXCEPT ![w] = Idle] /\ queue' \in [Task -> Nat]
  <2>1. CASE Ack(w)
    BY <1>0, <2>1 DEF Ack, TypeOK
  <2>2. CASE Retry(w)
    BY <1>0, <2>2, RetryIdle
  <2>3. QED
    BY <2>1, <2>2 DEF Crash, StartFails, failImport, failImportIgnored
<1>2. UNCHANGED <<store, request, asked>> /\ status' \in {status, "failed"}
  BY DEF Ack, Crash, StartFails, failImport, failImportIgnored
<1>3. faults' = faults \/ (faults < MaxFaults /\ faults' = faults + 1)
  BY DEF Ack, Crash, StartFails, failImport, failImportIgnored
<1>4. excuse' \subseteq {"request", "bare", "start", "unmarked", "crash"}
  BY <1>0 DEF Ack, Crash, StartFails, failImport, failImportIgnored, TypeOK
<1>5. QED
  BY <1>1, <1>2, <1>3, <1>4, WorkerIdle

\* Loading the job and its checkpoints keeps the invariant.
LEMMA LoadJobKept ==
  ASSUME ImportInv, NEW w \in Workers, LoadJob(w)
  PROVE  ImportInv'
<1>0. TypeOK /\ "start" \in At
  BY DEF ImportInv, At
<1>1. CASE worker[w].task.payload = "full"
  <2>1. worker[w].at = "load" /\ Goto(w, "start")
        /\ UNCHANGED <<status, store, queue, request, asked, faults, excuse>>
    BY <1>1 DEF LoadJob
  <2>2. status' \in Status /\ (status' = "completed" => status = "completed")
    BY <1>0, <2>1 DEF TypeOK
  <2>3. QED
    BY <1>0, <2>1, <2>2, WorkerGoes
<1>2. CASE worker[w].task.payload # "full"
  <2>1. worker' = [worker EXCEPT ![w] = Idle] /\ excuse' = excuse \union {"bare"}
        /\ UNCHANGED <<status, store, queue, request, asked, faults>>
    BY <1>2 DEF LoadJob
  <2>2. queue' \in [Task -> Nat] /\ excuse' \subseteq {"request", "bare", "start", "unmarked", "crash"}
    BY <1>0, <2>1 DEF TypeOK
  <2>3. QED
    BY <2>1, <2>2, WorkerIdle
<1>3. QED
  BY <1>1, <1>2

\* Marking the import as running keeps the invariant.
LEMMA StartImportKept ==
  ASSUME ImportInv, NEW w \in Workers, StartImport(w)
  PROVE  ImportInv'
<1>1. worker[w].at = "start" /\ Goto(w, "check") /\ status' = "running"
      /\ UNCHANGED <<store, queue, request, asked, faults, excuse>>
  BY DEF StartImport
<1>2. "check" \in At /\ status' \in Status /\ status' # "completed"
  BY <1>1 DEF At, Status
<1>3. QED
  BY <1>1, <1>2, WorkerGoes

\* A page that GitHub does not have: all the pages before it are the phase.
LEMMA FetchPageKept ==
  ASSUME ImportInv, NEW w \in Workers, FetchPage(w)
  PROVE  ImportInv'
<1>0. TypeOK /\ Fits(worker[w]) /\ Advanced(worker[w])
  BY DEF ImportInv, WorkersFit, Progress
<1>1. worker[w].at = "page" /\ UNCHANGED <<status, store, queue, request, asked, faults, excuse>>
  BY DEF FetchPage
<1>2. worker[w].phase \in Paged /\ worker[w].page \in 1..(Pages[worker[w].phase] + 1)
      /\ Through(worker[w].phase, worker[w].page - 1)
  BY <1>0, <1>1 DEF Fits, Advanced
<1>3. status' \in Status /\ (status' = "completed" => status = "completed")
  BY <1>0, <1>1 DEF TypeOK
<1>4. CASE worker[w].page > Pages[worker[w].phase]
  <2>1. Goto(w, "mark") /\ "mark" \in At
    BY <1>4 DEF FetchPage, At
  <2>2. worker[w].page - 1 = Pages[worker[w].phase]
    BY <1>2, <1>4, PagesAreNat
  <2>3. worker[w].phase # "done" /\ Done(worker[w].phase)
    BY <1>2, <2>2 DEF Done, Paged
  <2>4. QED
    BY <1>1, <1>3, <2>1, <2>3, WorkerGoes
<1>5. CASE ~(worker[w].page > Pages[worker[w].phase])
  <2>1. Goto(w, "item") /\ "item" \in At
    BY <1>5 DEF FetchPage, At
  <2>2. worker[w].page <= Pages[worker[w].phase]
    BY <1>2, <1>5, PagesAreNat
  <2>3. QED
    BY <1>1, <1>3, <2>1, <2>2, WorkerGoes
<1>6. QED
  BY <1>4, <1>5

\* Who is through all the phases says so.
LEMMA CompleteImportKept ==
  ASSUME ImportInv, NEW w \in Workers, CompleteImport(w)
  PROVE  ImportInv'
<1>0. Advanced(worker[w])
  BY DEF ImportInv, Progress
<1>1. worker[w].at = "check" /\ worker[w].phase = "done" /\ Goto(w, "ack") /\ status' = "completed"
      /\ UNCHANGED <<store, queue, request, asked, faults, excuse>>
  BY DEF CompleteImport
<1>2. "ack" \in At /\ status' \in Status
  BY <1>1 DEF At, Status
<1>3. \A phase \in Phases : Done(phase)
  <2>1. \A phase \in Phases : Before(phase, "done")
    BY DEF Phases, Before
  <2>2. QED
    BY <1>0, <1>1, <2>1 DEF Advanced
<1>4. QED
  BY <1>1, <1>2, <1>3, WorkerGoes

\* A phase that fails keeps the invariant.
LEMMA PhaseFailsKept ==
  ASSUME ImportInv, NEW w \in Workers, PhaseFails(w)
  PROVE  ImportInv'
<1>1. worker[w].at # "idle" /\ Goto(w, "fail") /\ faults < MaxFaults /\ faults' = faults + 1
      /\ UNCHANGED <<status, store, queue, request, asked, excuse>>
  BY DEF PhaseFails
<1>2. "fail" \in At /\ status' \in Status /\ (status' = "completed" => status = "completed")
  BY <1>1 DEF At, ImportInv, TypeOK
<1>3. QED
  BY <1>1, <1>2, WorkerGoes

\* Looking at the checkpoint of the next phase keeps the invariant.
LEMMA CheckPhaseKept ==
  ASSUME ImportInv, NEW w \in Workers, CheckPhase(w)
  PROVE  ImportInv'
<1> DEFINE phase == worker[w].phase
           next == [worker[w] EXCEPT !.phase = NextPhase(phase)]
           first == [worker[w] EXCEPT !.at = FirstStep(phase),
                        !.page = IF phase \in {"issues", "pulls"}
                                   THEN resumePageFromCheckpoint(phase) ELSE 0]
           x == IF checkpoint[phase].completed THEN next ELSE first
<1>0. TypeOK /\ WorkersFit /\ Progress
  BY DEF ImportInv
<1>1. worker[w].at = "check" /\ phase # "done" /\ worker' = [worker EXCEPT ![w] = x]
      /\ UNCHANGED <<status, store, queue, request, asked, faults, excuse>>
  BY DEF CheckPhase
<1>2. worker[w] \in Busy /\ phase \in Phases
  <2>1. worker[w] \in Busy
    BY <1>0, <1>1, IdleIsNotBusy DEF TypeOK
  <2>2. QED
    BY <1>1, <2>1 DEF Busy
<1>3. \A p \in Phases : Before(p, phase) => Done(p)
  BY <1>0, <1>1 DEF Progress, Advanced
<1>4. /\ queue' \in [Task -> Nat] /\ status' \in Status /\ (status' = "completed" => status = "completed")
      /\ excuse' \subseteq {"request", "bare", "start", "unmarked", "crash"}
  BY <1>0, <1>1 DEF TypeOK
<1>5. CASE checkpoint[phase].completed
  <2>1. x = next
    BY <1>5
  <2>2. next.at = "check" /\ next.phase = NextPhase(phase) /\ NextPhase(phase) \in Phases \union {"done"}
        /\ next \in Busy
    <3>1. NextPhase(phase) \in Phases \union {"done"}
      BY <1>2 DEF NextPhase, Phases
    <3>2. next \in Busy /\ next.at = "check" /\ next.phase = NextPhase(phase)
      BY <1>1, <1>2, <3>1 DEF Busy
    <3>3. QED
      BY <3>1, <3>2
  <2>3. Done(phase)
    BY <1>0, <1>2, <1>5 DEF Progress
  <2>4. \A p \in Phases : Before(p, NextPhase(phase)) => Before(p, phase) \/ p = phase
    BY <1>2 DEF Phases, NextPhase, Before
  <2> HIDE DEF next, x
  <2>5. Fits(next)
    BY <2>2 DEF Fits
  <2>6. \A p \in Phases : Before(p, next.phase) => Done(p)
    BY <1>3, <2>2, <2>3, <2>4
  <2>7. worker' = [worker EXCEPT ![w] = next]
    BY <1>1, <2>1
  <2>8. QED
    BY <1>1, <1>4, <2>2, <2>5, <2>6, <2>7, WorkerAlone
<1>6. CASE ~checkpoint[phase].completed
  <2> DEFINE page == IF phase \in {"issues", "pulls"} THEN resumePageFromCheckpoint(phase) ELSE 0
  <2>1. x = first
    BY <1>6
  <2>2. phase \in Paged => page \in 1..(Pages[phase] + 1) /\ page \in Nat /\ Through(phase, page - 1)
    <3>1. ASSUME phase \in Paged PROVE page \in 1..(Pages[phase] + 1) /\ page \in Nat /\ Through(phase, page - 1)
      <4>1. checkpoint[phase].cursor \in Nat /\ checkpoint[phase].cursor <= Pages[phase]
        BY <1>0, <1>2, <3>1 DEF TypeOK, Paged
      <4>2. page = checkpoint[phase].cursor + 1
        BY <3>1 DEF resumePageFromCheckpoint, Paged
      <4> HIDE DEF page
      <4>3. page - 1 = checkpoint[phase].cursor /\ page \in 1..(Pages[phase] + 1) /\ page \in Nat
        BY <3>1, <4>1, <4>2, PagesAreNat
      <4>4. Through(phase, checkpoint[phase].cursor)
        BY <1>0, <3>1 DEF Progress
      <4>5. QED
        BY <4>3, <4>4
    <3>2. QED
      BY <3>1
  <2>3. page \in Nat
    BY <2>2 DEF Paged
  <2>4. FirstStep(phase) \in At /\ FirstStep(phase) \notin {"mirror", "comments", "save", "mark", "setTarget", "item", "idle"}
        /\ (FirstStep(phase) = "page" <=> phase \in Paged)
        /\ (FirstStep(phase) = "fetch" => phase = "clone") /\ (FirstStep(phase) = "create" => phase = "metadata")
        /\ FirstStep(phase) \notin {"load", "start"}
    BY <1>2 DEF FirstStep, Phases, At, Paged
  <2> HIDE DEF page
  <2>5. first \in Busy /\ first.at = FirstStep(phase) /\ first.phase = phase /\ first.page = page
    BY <1>2, <2>3, <2>4 DEF Busy, page
  <2> HIDE DEF first, x
  <2>6. Fits(first)
    BY <2>2, <2>4, <2>5 DEF Fits
  <2>7. /\ \A p \in Phases : Before(p, first.phase) => Done(p)
        /\ first.at \in {"page", "item", "save"} => Through(first.phase, first.page - 1)
        /\ first.at \notin {"mark", "setTarget", "save"}
    BY <1>3, <2>2, <2>4, <2>5
  <2>8. worker' = [worker EXCEPT ![w] = first]
    BY <1>1, <2>1
  <2>9. first \in {Idle} \union Busy /\ first.at \notin {"mirror", "comments"}
    BY <2>4, <2>5
  <2>10. QED
    BY <1>1, <1>4, <2>6, <2>7, <2>8, <2>9, WorkerAlone
<1>7. QED
  BY <1>5, <1>6

-----------------------------------------------------------------------------
(* The steps that change the store. *)

StoreTypes ==
  /\ clone \in {"none", "partial", "whole"} /\ target \in BOOLEAN /\ repository \in BOOLEAN
  /\ rows \subseteq Items /\ comments \in [Issues -> Nat] /\ lost \subseteq Items

\* A step that adds to what is stored, and moves one worker, keeps the invariant.
LEMMA StoreStep ==
  ASSUME ImportInv, NEW w \in Workers, NEW x, Moves(w, x), Advances(x), MirrorAlone', CommentsLeft',
         StoreTypes', UNCHANGED <<status, queue, request, asked, excuse>>,
         faults' = faults \/ (faults < MaxFaults /\ faults' = faults + 1)
  PROVE  ImportInv'
<1>0. TypeOK /\ WorkersFit /\ Progress
  BY DEF ImportInv
<1>1. WorkersFit' /\ Progress'
  BY <1>0, MovesProgress
<1>2. faults' \in 0..MaxFaults
  <2>1. faults \in 0..MaxFaults
    BY <1>0 DEF TypeOK
  <2>2. QED
    BY <2>1, ImportJobsAssumption
<1>3. worker' \in [Workers -> {Idle} \union Busy]
  BY <1>0 DEF TypeOK, Moves
<1>4. checkpoint' \in [Phases -> [cursor: Nat, completed: BOOLEAN]]
      /\ \A phase \in {"issues", "pulls"} : checkpoint'[phase].cursor <= Pages[phase]
  BY DEF Moves, Paged
<1>5. TypeOK'
  BY <1>0, <1>2, <1>3, <1>4 DEF TypeOK, StoreTypes
<1>6. QED
  BY <1>1, <1>5 DEF ImportInv

\* A worker moves on by itself while status and checkpoints stay.
LEMMA CheckpointStays ==
  ASSUME ImportInv, NEW w \in Workers, NEW x \in Busy, worker' = [worker EXCEPT ![w] = x],
         StoreKept, UNCHANGED <<status, checkpoint>>, Fits(x)
  PROVE  Moves(w, x)
<1>1. TypeOK /\ Progress
  BY DEF ImportInv
<1>2. checkpoint' \in [Phases -> [cursor: Nat, completed: BOOLEAN]]
  BY <1>1 DEF TypeOK
<1>3. \A phase \in Paged : checkpoint[phase].cursor <= Pages[phase] /\ Through(phase, checkpoint[phase].cursor)
  BY <1>1 DEF TypeOK, Progress, Paged
<1>4. QED
  BY <1>2, <1>3 DEF Moves

\* What a worker that is not idle knows, and how it goes on.
LEMMA GoesOn ==
  ASSUME ImportInv, NEW w \in Workers, NEW at \in At, worker[w].at # "idle", Goto(w, at)
  PROVE  \E x \in Busy :
           /\ worker' = [worker EXCEPT ![w] = x] /\ worker[w] \in Busy
           /\ x.at = at /\ x.task = worker[w].task /\ x.phase = worker[w].phase /\ x.page = worker[w].page
           /\ Fits(worker[w]) /\ \A phase \in Phases : Before(phase, x.phase) => Done(phase)
<1>1. TypeOK /\ Fits(worker[w]) /\ Advanced(worker[w])
  BY DEF ImportInv, WorkersFit, Progress
<1>2. \A phase \in Phases : Before(phase, worker[w].phase) => Done(phase)
  BY <1>1 DEF Advanced
<1>3. PICK x \in Busy :
           /\ worker' = [worker EXCEPT ![w] = x] /\ worker[w] \in Busy
           /\ x.at = at /\ x.task = worker[w].task /\ x.phase = worker[w].phase /\ x.page = worker[w].page
  BY <1>1, GotoWorker
<1>4. QED
  BY <1>1, <1>2, <1>3

\* Starting the mirror, where no directory is, keeps the invariant.
LEMMA CloneFetchKept ==
  ASSUME ImportInv, NEW w \in Workers, CloneFetch(w)
  PROVE  ImportInv'
<1>0. TypeOK /\ MirrorAlone /\ CommentsLeft
  BY DEF ImportInv
<1>1. worker[w].at = "fetch"
      /\ UNCHANGED <<status, target, checkpoint, repository, rows, comments, lost, queue, request, asked, faults, excuse>>
  BY DEF CloneFetch
<1>2. CASE clone = "none"
  <2>1. clone' = "partial" /\ Goto(w, "mirror") /\ "mirror" \in At
    BY <1>2 DEF CloneFetch, At
  <2>2. PICK x \in Busy :
           /\ worker' = [worker EXCEPT ![w] = x] /\ worker[w] \in Busy
           /\ x.at = "mirror" /\ x.task = worker[w].task /\ x.phase = worker[w].phase /\ x.page = worker[w].page
           /\ Fits(worker[w]) /\ \A phase \in Phases : Before(phase, x.phase) => Done(phase)
    BY <1>1, <2>1, GoesOn
  <2>3. StoreKept /\ StoreTypes'
    BY <1>0, <1>1, <1>2, <2>1 DEF StoreKept, StoreTypes, TypeOK
  <2>4. Fits(x)
    BY <1>1, <2>2 DEF Fits
  <2>5. Moves(w, x)
    BY <1>1, <2>2, <2>3, <2>4, CheckpointStays
  <2>6. Advances(x)
    BY <2>2 DEF Advances
  <2>7. worker'[w] = x /\ \A v \in Workers \ {w} : worker'[v] = worker[v]
    BY <1>0, <2>2 DEF TypeOK
  <2>8. MirrorAlone'
    <3>1. \A v \in Workers : worker[v].at # "mirror"
      BY <1>0, <1>2 DEF MirrorAlone
    <3>2. QED
      BY <2>1, <2>7, <3>1 DEF MirrorAlone
  <2>9. CommentsLeft'
    BY <1>0, <1>1, <2>2, CommentsKept
  <2>10. QED
    BY <1>1, <2>3, <2>5, <2>6, <2>8, <2>9, StoreStep
<1>3. CASE clone # "none"
  <2>1. Goto(w, "fail") /\ UNCHANGED store /\ "fail" \in At
    BY <1>1, <1>3 DEF CloneFetch, store, At
  <2>2. status' \in Status /\ (status' = "completed" => status = "completed")
    BY <1>0, <1>1 DEF TypeOK
  <2>3. QED
    BY <1>1, <2>1, <2>2, WorkerGoes
<1>4. QED
  BY <1>2, <1>3

\* The end of the mirror makes the clone whole.
LEMMA CloneMirrorKept ==
  ASSUME ImportInv, NEW w \in Workers, CloneMirror(w)
  PROVE  ImportInv'
<1>0. TypeOK /\ MirrorAlone /\ CommentsLeft
  BY DEF ImportInv
<1>1. worker[w].at = "mirror" /\ clone' = "whole" /\ Goto(w, "mark") /\ "mark" \in At
      /\ UNCHANGED <<status, target, checkpoint, repository, rows, comments, lost, queue, request, asked, faults, excuse>>
  BY DEF CloneMirror, At
<1>2. PICK x \in Busy :
         /\ worker' = [worker EXCEPT ![w] = x] /\ worker[w] \in Busy
         /\ x.at = "mark" /\ x.task = worker[w].task /\ x.phase = worker[w].phase /\ x.page = worker[w].page
         /\ Fits(worker[w]) /\ \A phase \in Phases : Before(phase, x.phase) => Done(phase)
  BY <1>1, GoesOn
<1>3. StoreKept /\ StoreTypes'
  BY <1>0, <1>1 DEF StoreKept, StoreTypes, TypeOK
<1>4. x.phase = "clone"
  BY <1>1, <1>2 DEF Fits
<1>5. Fits(x)
  BY <1>2, <1>4 DEF Fits
<1>6. Moves(w, x)
  BY <1>1, <1>2, <1>3, <1>5, CheckpointStays
<1>7. Done(x.phase)'
  BY <1>1, <1>4 DEF Done, Paged
<1>8. Advances(x)
  BY <1>2, <1>7 DEF Advances
<1>9. MirrorAlone' /\ CommentsLeft'
  BY <1>0, <1>1, <1>2, MirrorKept, CommentsKept
<1>10. QED
  BY <1>1, <1>3, <1>6, <1>8, <1>9, StoreStep

\* Only the worker that began the clone removes it, and it was not whole.
LEMMA CloneFailsKept ==
  ASSUME ImportInv, NEW w \in Workers, CloneFails(w)
  PROVE  ImportInv'
<1>0. TypeOK /\ MirrorAlone /\ CommentsLeft
  BY DEF ImportInv
<1>1. worker[w].at = "mirror" /\ clone' = "none" /\ Goto(w, "fail") /\ "fail" \in At
      /\ faults < MaxFaults /\ faults' = faults + 1
      /\ UNCHANGED <<status, target, checkpoint, repository, rows, comments, lost, queue, request, asked, excuse>>
  BY DEF CloneFails, At
<1>2. PICK x \in Busy :
         /\ worker' = [worker EXCEPT ![w] = x] /\ worker[w] \in Busy
         /\ x.at = "fail" /\ x.task = worker[w].task /\ x.phase = worker[w].phase /\ x.page = worker[w].page
         /\ Fits(worker[w]) /\ \A phase \in Phases : Before(phase, x.phase) => Done(phase)
  BY <1>1, GoesOn
<1>3. StoreKept /\ StoreTypes'
  <2>1. clone = "partial"
    BY <1>0, <1>1 DEF MirrorAlone
  <2>2. QED
    BY <1>0, <1>1, <2>1 DEF StoreKept, StoreTypes, TypeOK
<1>4. Fits(x)
  BY <1>2 DEF Fits
<1>5. Moves(w, x)
  BY <1>1, <1>2, <1>3, <1>4, CheckpointStays
<1>6. Advances(x)
  BY <1>2 DEF Advances
<1>7. MirrorAlone' /\ CommentsLeft'
  BY <1>0, <1>1, <1>2, MirrorKept, CommentsKept
<1>8. QED
  BY <1>1, <1>3, <1>5, <1>6, <1>7, StoreStep

\* Inserting the repository keeps the invariant.
LEMMA CreateRepositoryKept ==
  ASSUME ImportInv, NEW w \in Workers, CreateRepository(w)
  PROVE  ImportInv'
<1> DEFINE at == IF repository THEN "fail" ELSE "setTarget"
<1>0. TypeOK /\ MirrorAlone /\ CommentsLeft
  BY DEF ImportInv
<1>1. worker[w].at = "create" /\ repository' = TRUE /\ Goto(w, at) /\ at \in At /\ at \in {"fail", "setTarget"}
      /\ UNCHANGED <<status, target, checkpoint, clone, rows, comments, lost, queue, request, asked, faults, excuse>>
  BY DEF CreateRepository, At
<1> HIDE DEF at
<1>2. PICK x \in Busy :
         /\ worker' = [worker EXCEPT ![w] = x] /\ worker[w] \in Busy
         /\ x.at = at /\ x.task = worker[w].task /\ x.phase = worker[w].phase /\ x.page = worker[w].page
         /\ Fits(worker[w]) /\ \A phase \in Phases : Before(phase, x.phase) => Done(phase)
  BY <1>1, GoesOn
<1>3. StoreKept /\ StoreTypes'
  BY <1>0, <1>1 DEF StoreKept, StoreTypes, TypeOK
<1>4. Fits(x)
  BY <1>1, <1>2 DEF Fits
<1>5. Moves(w, x)
  BY <1>1, <1>2, <1>3, <1>4, CheckpointStays
<1>6. Advances(x)
  BY <1>1, <1>2 DEF Advances
<1>7. MirrorAlone' /\ CommentsLeft'
  BY <1>0, <1>1, <1>2, MirrorKept, CommentsKept
<1>8. QED
  BY <1>1, <1>3, <1>5, <1>6, <1>7, StoreStep

\* Recording the repository in the job keeps the invariant.
LEMMA SetTargetRepositoryKept ==
  ASSUME ImportInv, NEW w \in Workers, SetTargetRepository(w)
  PROVE  ImportInv'
<1>0. TypeOK /\ MirrorAlone /\ CommentsLeft
  BY DEF ImportInv
<1>1. worker[w].at = "setTarget" /\ target' = TRUE /\ Goto(w, "mark") /\ "mark" \in At
      /\ UNCHANGED <<status, checkpoint, clone, repository, rows, comments, lost, queue, request, asked, faults, excuse>>
  BY DEF SetTargetRepository, At
<1>2. PICK x \in Busy :
         /\ worker' = [worker EXCEPT ![w] = x] /\ worker[w] \in Busy
         /\ x.at = "mark" /\ x.task = worker[w].task /\ x.phase = worker[w].phase /\ x.page = worker[w].page
         /\ Fits(worker[w]) /\ \A phase \in Phases : Before(phase, x.phase) => Done(phase)
  BY <1>1, GoesOn
<1>3. StoreKept /\ StoreTypes'
  BY <1>0, <1>1 DEF StoreKept, StoreTypes, TypeOK
<1>4. x.phase = "metadata" /\ repository
  BY <1>1, <1>2 DEF Fits, ImportInv, Progress, Advanced
<1>5. Fits(x)
  BY <1>2, <1>4 DEF Fits
<1>6. Moves(w, x)
  BY <1>1, <1>2, <1>3, <1>5, CheckpointStays
<1>7. Done(x.phase)'
  BY <1>1, <1>4 DEF Done, Paged
<1>8. Advances(x)
  BY <1>2, <1>7 DEF Advances
<1>9. MirrorAlone' /\ CommentsLeft'
  BY <1>0, <1>1, <1>2, MirrorKept, CommentsKept
<1>10. QED
  BY <1>1, <1>3, <1>6, <1>8, <1>9, StoreStep

\* The item of a page comes after those of the pages before it.
LEMMA ItemAdded ==
  ASSUME StoreKept, NEW phase, NEW page \in Nat, Through(phase, page - 1), <<phase, page>> \in rows' \union lost'
  PROVE  \A n \in 1..Pages[phase] : n <= page => <<phase, n>> \in rows' \union lost'
<1>1. ASSUME NEW n \in 1..Pages[phase], n <= page PROVE <<phase, n>> \in rows' \union lost'
  <2>1. CASE n = page
    BY <2>1
  <2>2. CASE n <= page - 1
    <3>1. <<phase, n>> \in rows \union lost
      BY <2>2 DEF Through
    <3>2. QED
      BY <3>1 DEF StoreKept
  <2>3. QED
    BY <1>1, <2>1, <2>2
<1>2. QED
  BY <1>1

\* A worker at a page is between those it has imported and the one it imports.
AtPage(w, x) ==
  /\ x.phase = worker[w].phase /\ x.page = worker[w].page
  /\ x.phase \in Paged /\ x.page \in 1..Pages[x.phase] /\ x.page \in Nat
  /\ Item(w) = <<x.phase, x.page>> /\ Item(w) \in Items
  /\ Through(x.phase, x.page - 1)
  /\ \A phase \in Phases : Before(phase, x.phase) => Done(phase)

\* Within a page a worker keeps its phase, cursor and copies.
LEMMA PageGoesOn ==
  ASSUME ImportInv, NEW w \in Workers, NEW at \in At, worker[w].at \in {"item", "comments", "save"}, Goto(w, at)
  PROVE  \E x \in Busy : worker' = [worker EXCEPT ![w] = x] /\ x.at = at /\ AtPage(w, x)
<1>1. PICK x \in Busy :
         /\ worker' = [worker EXCEPT ![w] = x] /\ worker[w] \in Busy
         /\ x.at = at /\ x.task = worker[w].task /\ x.phase = worker[w].phase /\ x.page = worker[w].page
         /\ Fits(worker[w]) /\ \A phase \in Phases : Before(phase, x.phase) => Done(phase)
  BY GoesOn
<1>2. x.phase \in Paged /\ x.page \in 1..(Pages[x.phase] + 1) /\ x.page <= Pages[x.phase]
  BY <1>1 DEF Fits
<1>3. x.page \in 1..Pages[x.phase] /\ x.page \in Nat
  BY <1>2, PagesAreNat
<1>4. Through(x.phase, x.page - 1)
  BY <1>1 DEF ImportInv, Progress, Advanced
<1>5. Item(w) = <<x.phase, x.page>> /\ Item(w) \in Items
  BY <1>1, <1>2, <1>3, ItemsAre DEF Item
<1>6. QED
  BY <1>1, <1>2, <1>3, <1>4, <1>5 DEF AtPage

\* The item of a page is dealt with: the worker goes on, behind that page.
LEMMA ItemDone ==
  ASSUME ImportInv, NEW w \in Workers, NEW x \in Busy, worker' = [worker EXCEPT ![w] = x], AtPage(w, x),
         x.at \in {"save", "comments"}, x.at = "comments" => x.phase = "issues",
         StoreKept, UNCHANGED <<status, checkpoint>>, Item(w) \in rows' \union lost'
  PROVE  Moves(w, x) /\ Advances(x)
<1>1. Fits(x)
  <2>1. x.phase \in Paged /\ x.page <= Pages[x.phase] /\ x.page \in 1..(Pages[x.phase] + 1)
    BY PagesAreNat DEF AtPage
  <2>2. QED
    BY <2>1 DEF Fits
<1>2. Moves(w, x)
  BY <1>1, CheckpointStays
<1>3. \A n \in 1..Pages[x.phase] : n <= x.page => <<x.phase, n>> \in rows' \union lost'
  BY ItemAdded DEF AtPage
<1>4. \A n \in 1..Pages[x.phase] : n <= x.page - 1 => <<x.phase, n>> \in rows' \union lost'
  <2>1. x.page \in Nat
    BY DEF AtPage
  <2>2. QED
    BY <1>3, <2>1
<1>5. Advances(x)
  BY <1>3, <1>4 DEF Advances, AtPage
<1>6. QED
  BY <1>2, <1>5

\* Nobody has comments to insert for an issue that has no row.
LEMMA ImportIssueKept ==
  ASSUME ImportInv, NEW w \in Workers, ImportIssue(w)
  PROVE  ImportInv'
<1> DEFINE at == IF Item(w) \in rows THEN "save" ELSE "comments"
<1>0. TypeOK /\ MirrorAlone /\ CommentsLeft
  BY DEF ImportInv
<1>1. worker[w].at = "item" /\ worker[w].phase = "issues" /\ rows' = rows \union {Item(w)} /\ Goto(w, at)
      /\ UNCHANGED <<status, target, checkpoint, clone, repository, comments, lost, queue, request, asked, faults, excuse>>
  BY DEF ImportIssue
<1>2. at \in At /\ at \in {"save", "comments"} /\ (at = "comments" => Item(w) \notin rows)
  BY DEF At
<1> HIDE DEF at
<1>3. PICK x \in Busy : worker' = [worker EXCEPT ![w] = x] /\ x.at = at /\ AtPage(w, x)
  BY <1>1, <1>2, PageGoesOn
<1>4. StoreKept /\ StoreTypes'
  BY <1>0, <1>1, <1>3 DEF StoreKept, StoreTypes, TypeOK, AtPage
<1>5. Moves(w, x) /\ Advances(x)
  <2>1. x.phase = "issues"
    BY <1>1, <1>3 DEF AtPage
  <2>2. Item(w) \in rows' \union lost'
    BY <1>1
  <2>3. QED
    BY <1>1, <1>2, <1>3, <1>4, <2>1, <2>2, ItemDone
<1>6. MirrorAlone'
  BY <1>0, <1>1, <1>2, <1>3, MirrorKept
<1>7. CommentsLeft'
  <2>1. CASE at = "save"
    BY <1>0, <1>1, <1>3, <2>1, CommentsKept
  <2>2. CASE at = "comments"
    <3> DEFINE i == <<x.phase, x.page>>
    <3>1. i \in Issues /\ Item(w) = i /\ i \notin rows
      BY <1>1, <1>2, <1>3, <2>2, ItemsAre DEF AtPage
    <3>2. comments[i] = 0 /\ \A j \in Issues : comments[j] <= 1 /\ (j \notin rows => comments[j] = 0)
      BY <1>0, <3>1 DEF CommentsLeft
    <3>3. worker'[w] = x /\ \A v \in Workers \ {w} : worker'[v] = worker[v]
      BY <1>0, <1>3 DEF TypeOK
    <3>4. \A v \in Workers : worker[v].at = "comments" =>
            /\ <<worker[v].phase, worker[v].page>> \in rows /\ comments[<<worker[v].phase, worker[v].page>>] = 0
            /\ \A u \in Workers \ {v} : worker[u].at = "comments" =>
                 <<worker[u].phase, worker[u].page>> # <<worker[v].phase, worker[v].page>>
      BY <1>0 DEF CommentsLeft, Item
    <3>5. i = <<worker'[w].phase, worker'[w].page>>
      BY <3>3
    <3> HIDE DEF i
    <3>6. ASSUME NEW v \in Workers, worker'[v].at = "comments"
          PROVE  /\ <<worker'[v].phase, worker'[v].page>> \in rows'
                 /\ comments'[<<worker'[v].phase, worker'[v].page>>] = 0
                 /\ \A u \in Workers \ {v} : worker'[u].at = "comments" =>
                      <<worker'[u].phase, worker'[u].page>> # <<worker'[v].phase, worker'[v].page>>
      <4>1. CASE v = w
        <5>1. i \in rows' /\ comments'[i] = 0
          BY <1>1, <3>1, <3>2
        <5>2. \A u \in Workers \ {w} : worker'[u].at = "comments" => <<worker'[u].phase, worker'[u].page>> # i
          BY <3>1, <3>3, <3>4
        <5>3. QED
          BY <3>5, <4>1, <5>1, <5>2
      <4>2. CASE v # w
        <5>1. worker'[v] = worker[v] /\ <<worker[v].phase, worker[v].page>> \in rows
              /\ comments[<<worker[v].phase, worker[v].page>>] = 0
          BY <3>3, <3>4, <3>6, <4>2
        <5>2. \A u \in Workers \ {v} : worker'[u].at = "comments" =>
                <<worker'[u].phase, worker'[u].page>> # <<worker[v].phase, worker[v].page>>
          <6>1. ASSUME NEW u \in Workers \ {v}, worker'[u].at = "comments"
                PROVE  <<worker'[u].phase, worker'[u].page>> # <<worker[v].phase, worker[v].page>>
            <7>1. CASE u = w
              BY <3>1, <3>5, <5>1, <7>1
            <7>2. CASE u # w
              BY <3>3, <3>4, <3>6, <5>1, <6>1, <7>2
            <7>3. QED
              BY <7>1, <7>2
          <6>2. QED
            BY <6>1
        <5>3. QED
          BY <1>1, <5>1, <5>2
      <4>3. QED
        BY <4>1, <4>2
    <3>7. \A j \in Issues : comments'[j] <= 1 /\ (j \notin rows' => comments'[j] = 0)
      BY <1>1, <3>2
    <3>8. QED
      BY <3>6, <3>7 DEF CommentsLeft, Item
  <2>3. QED
    BY <1>2, <2>1, <2>2
<1>8. QED
  BY <1>1, <1>4, <1>5, <1>6, <1>7, StoreStep

\* Inserting an issue or a pull request keeps the invariant.
LEMMA ImportPullRequestKept ==
  ASSUME ImportInv, NEW w \in Workers, ImportPullRequest(w)
  PROVE  ImportInv'
<1>0. TypeOK /\ MirrorAlone /\ CommentsLeft
  BY DEF ImportInv
<1>1. worker[w].at = "item" /\ rows' = rows \union {Item(w)} /\ Goto(w, "save") /\ "save" \in At
      /\ UNCHANGED <<status, target, checkpoint, clone, repository, comments, lost, queue, request, asked, faults, excuse>>
  BY DEF ImportPullRequest, At
<1>2. PICK x \in Busy : worker' = [worker EXCEPT ![w] = x] /\ x.at = "save" /\ AtPage(w, x)
  BY <1>1, PageGoesOn
<1>3. StoreKept /\ StoreTypes'
  BY <1>0, <1>1, <1>2 DEF StoreKept, StoreTypes, TypeOK, AtPage
<1>4. Moves(w, x) /\ Advances(x)
  BY <1>1, <1>2, <1>3, ItemDone
<1>5. MirrorAlone' /\ CommentsLeft'
  BY <1>0, <1>1, <1>2, MirrorKept, CommentsKept
<1>6. QED
  BY <1>1, <1>3, <1>4, <1>5, StoreStep

\* An item that fails is noted as lost.
LEMMA ItemFailsKept ==
  ASSUME ImportInv, NEW w \in Workers, ItemFails(w)
  PROVE  ImportInv'
<1>0. TypeOK /\ MirrorAlone /\ CommentsLeft /\ Advanced(worker[w])
  BY DEF ImportInv, Progress
<1>1. worker[w].at \in {"item", "comments"} /\ Goto(w, "save") /\ "save" \in At
      /\ lost' = (IF worker[w].at = "item" THEN lost \union {Item(w)} ELSE lost)
      /\ faults < MaxFaults /\ faults' = faults + 1
      /\ UNCHANGED <<status, target, checkpoint, clone, repository, rows, comments, queue, request, asked, excuse>>
  BY DEF ItemFails, At
<1>2. PICK x \in Busy : worker' = [worker EXCEPT ![w] = x] /\ x.at = "save" /\ AtPage(w, x)
  BY <1>1, PageGoesOn
<1>3. StoreKept /\ StoreTypes'
  BY <1>0, <1>1, <1>2 DEF StoreKept, StoreTypes, TypeOK, AtPage
<1>4. Item(w) \in rows' \union lost'
  <2>1. CASE worker[w].at = "item"
    BY <1>1, <2>1
  <2>2. CASE worker[w].at = "comments"
    BY <1>0, <1>1, <2>2 DEF CommentsLeft
  <2>3. QED
    BY <1>1, <2>1, <2>2
<1>5. Moves(w, x) /\ Advances(x)
  BY <1>1, <1>2, <1>3, <1>4, ItemDone
<1>6. MirrorAlone' /\ CommentsLeft'
  BY <1>0, <1>1, <1>2, MirrorKept, CommentsKept
<1>7. QED
  BY <1>1, <1>3, <1>5, <1>6, StoreStep

\* The comments of an issue are inserted by the one worker they are left to.
LEMMA ImportCommentsKept ==
  ASSUME ImportInv, NEW w \in Workers, ImportComments(w)
  PROVE  ImportInv'
<1>0. TypeOK /\ MirrorAlone /\ CommentsLeft /\ Fits(worker[w])
  BY DEF ImportInv, WorkersFit
<1>1. worker[w].at = "comments" /\ comments' = [comments EXCEPT ![Item(w)] = @ + 1] /\ Goto(w, "save") /\ "save" \in At
      /\ UNCHANGED <<status, target, checkpoint, clone, repository, rows, lost, queue, request, asked, faults, excuse>>
  BY DEF ImportComments, At
<1>2. PICK x \in Busy : worker' = [worker EXCEPT ![w] = x] /\ x.at = "save" /\ AtPage(w, x)
  BY <1>1, PageGoesOn
<1>3. Item(w) \in Issues
  <2>1. x.phase = "issues"
    BY <1>0, <1>1, <1>2 DEF Fits, AtPage
  <2>2. QED
    BY <1>2, <2>1, ItemsAre DEF AtPage
<1>4. comments' \in [Issues -> Nat]
  BY <1>0, <1>1, <1>3 DEF TypeOK
<1>5. StoreKept /\ StoreTypes'
  BY <1>0, <1>1, <1>4 DEF StoreKept, StoreTypes, TypeOK
<1>6. Item(w) \in rows' \union lost'
  BY <1>0, <1>1 DEF CommentsLeft
<1>7. Moves(w, x) /\ Advances(x)
  BY <1>1, <1>2, <1>5, <1>6, ItemDone
<1>8. MirrorAlone'
  BY <1>0, <1>1, <1>2, MirrorKept
<1>9. CommentsLeft'
  BY <1>0, <1>1, <1>2, <1>3, CommentsKept
<1>10. QED
  BY <1>1, <1>5, <1>7, <1>8, <1>9, StoreStep

\* A page is saved by who is through it: another worker's cursor may go back,
\* never beyond what was imported.
LEMMA SaveCheckpointKept ==
  ASSUME ImportInv, NEW w \in Workers, SaveCheckpoint(w)
  PROVE  ImportInv'
<1> PICK phase, page, at, x, saved :
      /\ phase = worker[w].phase /\ page = worker[w].page
      /\ at = IF page = Pages[phase] THEN "mark" ELSE "page"
      /\ x = [worker[w] EXCEPT !.at = at, !.page = page + 1]
      /\ saved = [cursor |-> page, completed |-> FALSE]
  OBVIOUS
<1>0. TypeOK /\ MirrorAlone /\ CommentsLeft /\ Fits(worker[w]) /\ Advanced(worker[w]) /\ Progress
  BY DEF ImportInv, WorkersFit, Progress
<1>1. worker[w].at = "save" /\ checkpoint' = [checkpoint EXCEPT ![phase] = saved]
      /\ UNCHANGED <<status, target, clone, repository, rows, comments, lost, queue, request, asked, faults, excuse>>
  BY DEF SaveCheckpoint
<1>2. worker[w] \in Busy
  BY <1>0, <1>1, IdleIsNotBusy DEF TypeOK
<1>3. worker' = [worker EXCEPT ![w] = x]
  BY <1>0 DEF SaveCheckpoint, TypeOK
<1>4. phase \in Paged /\ page \in 1..(Pages[phase] + 1) /\ page <= Pages[phase]
  BY <1>0, <1>1 DEF Fits
<1>5. page \in 1..Pages[phase] /\ page \in Nat /\ page + 1 \in Nat /\ Pages[phase] \in Nat
  BY <1>4, PagesAreNat
<1>6. x \in Busy /\ x.at = at /\ x.phase = phase /\ x.page = page + 1 /\ at \in {"mark", "page"}
  BY <1>2, <1>5 DEF Busy, At
<1>7. saved.cursor = page /\ saved.completed = FALSE /\ saved \in [cursor: Nat, completed: BOOLEAN]
  BY <1>5
<1>8. Through(phase, page) /\ \A p \in Phases : Before(p, phase) => Done(p)
  BY <1>0, <1>1 DEF Advanced
<1>9. (at = "mark" => page = Pages[phase]) /\ (at = "page" => page # Pages[phase])
  OBVIOUS
<1>10. StoreKept /\ StoreTypes'
  BY <1>0, <1>1 DEF StoreKept, StoreTypes, TypeOK
<1>11. Fits(x)
  <2>1. x.at = "page" => x.page \in 1..(Pages[x.phase] + 1)
    BY <1>5, <1>6, <1>9
  <2>2. x.phase \in Paged /\ x.at \in {"mark", "page"} /\ x.phase # "done"
    BY <1>4, <1>6 DEF Paged
  <2>3. QED
    BY <2>1, <2>2 DEF Fits
<1>12. Moves(w, x)
  <2>1. checkpoint \in [Phases -> [cursor: Nat, completed: BOOLEAN]] /\ phase \in Phases
    BY <1>0, <1>4 DEF TypeOK, Phases, Paged
  <2>2. checkpoint' \in [Phases -> [cursor: Nat, completed: BOOLEAN]] /\ checkpoint'[phase] = saved
        /\ \A p \in Phases : p # phase => checkpoint'[p] = checkpoint[p]
    BY <1>1, <1>7, <2>1
  <2>3. \A p \in Phases : checkpoint'[p].completed => checkpoint[p].completed
    BY <1>7, <2>2
  <2>4. \A p \in Paged : checkpoint[p].cursor <= Pages[p] /\ Through(p, checkpoint[p].cursor) /\ p \in Phases
    BY <1>0 DEF TypeOK, Progress, Paged, Phases
  <2>5. \A p \in Paged : checkpoint'[p].cursor <= Pages[p] /\ Through(p, checkpoint'[p].cursor)
    BY <1>4, <1>5, <1>7, <1>8, <2>2, <2>4
  <2>6. QED
    BY <1>1, <1>3, <1>6, <1>10, <1>11, <2>2, <2>3, <2>5 DEF Moves
<1>13. Advances(x)
  <2>1. \A n \in 1..Pages[phase] : n <= page => <<phase, n>> \in rows' \union lost'
    BY <1>1, <1>8 DEF Through
  <2>2. at = "mark" => Done(phase)'
    <3>1. ASSUME at = "mark" PROVE Done(phase)'
      <4>1. \A n \in 1..Pages[phase] : n <= Pages[phase] => <<phase, n>> \in rows' \union lost'
        BY <1>9, <2>1, <3>1
      <4>2. phase # "clone" /\ phase # "metadata"
        BY <1>4 DEF Paged
      <4>3. QED
        BY <4>1, <4>2 DEF Done, Through
    <3>2. QED
      BY <3>1
  <2>3. x.at = "mark" => Done(x.phase)'
    <3>1. ASSUME x.at = "mark" PROVE Done(x.phase)'
      BY <1>6, <2>2, <3>1 DEF Done, Through
    <3>2. QED
      BY <3>1
  <2>4. \A n \in 1..Pages[phase] : n <= x.page - 1 => <<phase, n>> \in rows' \union lost'
    BY <1>5, <1>6, <2>1
  <2>5. QED
    BY <1>6, <1>8, <2>3, <2>4 DEF Advances
<1>14. x.at \notin {"mirror", "comments"}
  BY <1>6
<1>15. MirrorAlone' /\ CommentsLeft'
  BY <1>0, <1>1, <1>3, <1>14, MirrorKept, CommentsKept
<1>16. QED
  BY <1>1, <1>10, <1>12, <1>13, <1>15, StoreStep

\* Saving the checkpoint claims no more than was done.
LEMMA MarkPhaseCompleteKept ==
  ASSUME ImportInv, NEW w \in Workers, MarkPhaseComplete(w)
  PROVE  ImportInv'
<1> PICK phase, x, saved :
      /\ phase = worker[w].phase
      /\ x = [worker[w] EXCEPT !.at = "check", !.phase = NextPhase(phase), !.page = 0]
      /\ saved = [checkpoint[phase] EXCEPT !.completed = TRUE]
  OBVIOUS
<1>0. TypeOK /\ MirrorAlone /\ CommentsLeft /\ Fits(worker[w]) /\ Advanced(worker[w]) /\ Progress
  BY DEF ImportInv, WorkersFit, Progress
<1>1. worker[w].at = "mark"
      /\ UNCHANGED <<status, target, clone, repository, rows, comments, lost, queue, request, asked, faults, excuse>>
  BY DEF MarkPhaseComplete
<1>2. worker[w] \in Busy /\ phase \in Phases
  <2>1. worker[w] \in Busy
    BY <1>0, <1>1, IdleIsNotBusy DEF TypeOK
  <2>2. QED
    BY <1>0, <1>1, <2>1 DEF Busy, Fits
<1>3. worker' = [worker EXCEPT ![w] = x]
  BY <1>0 DEF MarkPhaseComplete, TypeOK
<1>4. checkpoint' = [checkpoint EXCEPT ![phase] = saved]
  BY <1>0, <1>2 DEF MarkPhaseComplete, TypeOK
<1>5. NextPhase(phase) \in Phases \union {"done"}
      /\ \A p \in Phases : Before(p, NextPhase(phase)) => Before(p, phase) \/ p = phase
  BY <1>2 DEF NextPhase, Phases, Before
<1>6. x \in Busy /\ x.at = "check" /\ x.phase = NextPhase(phase)
  BY <1>2, <1>5 DEF Busy, At
<1>7. saved \in [cursor: Nat, completed: BOOLEAN] /\ saved.cursor = checkpoint[phase].cursor
  BY <1>0, <1>2 DEF TypeOK
<1>8. Done(phase) /\ \A p \in Phases : Before(p, phase) => Done(p)
  BY <1>0, <1>1 DEF Advanced
<1>9. StoreKept /\ StoreTypes'
  BY <1>0, <1>1 DEF StoreKept, StoreTypes, TypeOK
<1>10. Fits(x)
  BY <1>6 DEF Fits
<1>11. Moves(w, x)
  <2>1. checkpoint \in [Phases -> [cursor: Nat, completed: BOOLEAN]]
    BY <1>0 DEF TypeOK
  <2>2. checkpoint' \in [Phases -> [cursor: Nat, completed: BOOLEAN]] /\ checkpoint'[phase] = saved
        /\ \A p \in Phases : p # phase => checkpoint'[p] = checkpoint[p]
    BY <1>2, <1>4, <1>7, <2>1
  <2>3. \A p \in Phases : checkpoint'[p].completed => checkpoint[p].completed \/ Done(p)
    BY <1>8, <2>2
  <2>4. \A p \in Paged : checkpoint[p].cursor <= Pages[p] /\ Through(p, checkpoint[p].cursor) /\ p \in Phases
    BY <1>0 DEF TypeOK, Progress, Paged, Phases
  <2>5. \A p \in Paged : checkpoint'[p].cursor = checkpoint[p].cursor
    BY <1>7, <2>2, <2>4
  <2>6. \A p \in Paged : checkpoint'[p].cursor <= Pages[p] /\ Through(p, checkpoint'[p].cursor)
    BY <2>4, <2>5
  <2>7. QED
    BY <1>1, <1>3, <1>6, <1>9, <1>10, <2>2, <2>3, <2>6 DEF Moves
<1>12. Advances(x)
  <2>1. \A p \in Phases : Before(p, x.phase) => Done(p)
    BY <1>5, <1>6, <1>8
  <2>2. QED
    BY <1>6, <2>1 DEF Advances
<1>13. MirrorAlone' /\ CommentsLeft'
  BY <1>0, <1>1, <1>3, <1>6, MirrorKept, CommentsKept
<1>14. QED
  BY <1>1, <1>9, <1>11, <1>12, <1>13, StoreStep

-----------------------------------------------------------------------------
(* The theorems. *)

\* The invariant of the import holds throughout.
LEMMA ImportInvInductive == Spec => []ImportInv
<1>1. Init => ImportInv
  <2> SUFFICES ASSUME Init PROVE ImportInv
    OBVIOUS
  <2>1. TypeOK
    <3>1. checkpoint \in [Phases -> [cursor: Nat, completed: BOOLEAN]]
          /\ \A phase \in {"issues", "pulls"} : checkpoint[phase].cursor <= Pages[phase]
      BY ImportJobsAssumption DEF Init, Phases
    <3>2. 0 \in 0..MaxRequests /\ 0 \in 0..MaxFaults
      BY ImportJobsAssumption
    <3>3. QED
      BY <3>1, <3>2 DEF Init, TypeOK, Status
  <2>2. \A w \in Workers : worker[w] = Idle /\ worker[w].at = "idle"
    BY IdleFits DEF Init
  <2>3. WorkersFit /\ MirrorAlone
    BY <2>2, IdleFits DEF WorkersFit, MirrorAlone
  <2>4. CommentsLeft
    BY <2>2 DEF Init, CommentsLeft
  <2>5. Progress
    <3>1. \A phase \in Phases : checkpoint[phase].completed = FALSE /\ checkpoint[phase].cursor = 0
      BY DEF Init
    <3>2. \A phase \in Paged : Through(phase, checkpoint[phase].cursor)
      <4>1. ASSUME NEW phase \in Paged PROVE Through(phase, 0)
        BY DEF Through
      <4>2. QED
        BY <3>1, <4>1 DEF Paged, Phases
    <3>3. \A w \in Workers : Advanced(worker[w])
      BY <2>2 DEF Advanced
    <3>4. status # "completed"
      BY DEF Init
    <3>5. QED
      BY <3>1, <3>2, <3>3, <3>4 DEF Progress
  <2>6. QED
    BY <2>1, <2>3, <2>4, <2>5 DEF ImportInv
<1>2. ImportInv /\ [Next]_vars => ImportInv'
  <2> SUFFICES ASSUME ImportInv, [Next]_vars PROVE ImportInv'
    OBVIOUS
  <2>1. ASSUME NEW q \in Requests,
               CreateImport(q) \/ CancelRead(q) \/ RetryRead(q) \/ RequestStep(q) \/ RequestFails(q)
        PROVE  ImportInv'
    BY <2>1, RequestsKept
  <2>2. ASSUME NEW w \in Workers, NEW t \in Task, Deliver(w, t) PROVE ImportInv'
    BY <2>2, DeliverKept
  <2>3. ASSUME NEW w \in Workers, WorkerStep(w) PROVE ImportInv'
    BY <2>3, LoadJobKept, StartImportKept, CheckPhaseKept, MarkPhaseCompleteKept, CloneFetchKept, CloneMirrorKept,
       CreateRepositoryKept, SetTargetRepositoryKept, FetchPageKept, ImportIssueKept, ImportPullRequestKept,
       ImportCommentsKept, SaveCheckpointKept, CompleteImportKept, IdleStepsKept DEF WorkerStep
  <2>4. ASSUME NEW w \in Workers, WorkerFault(w) PROVE ImportInv'
    BY <2>4, IdleStepsKept, CloneFailsKept, ItemFailsKept, PhaseFailsKept DEF WorkerFault
  <2>5. CASE UNCHANGED vars
    <3>1. TypeOK'
      BY <2>5 DEF ImportInv, TypeOK, vars, store
    <3>2. QED
      BY <2>5, <3>1, StoreAlone DEF ImportInv, vars
  <2>6. QED
    BY <2>1, <2>2, <2>3, <2>4, <2>5 DEF Next
<1>3. QED
  BY <1>1, <1>2, PTL DEF Spec

\* Type correctness: the row, the checkpoints, the queue and the workers stay
\* what they are meant to be, and no cursor of a phase goes beyond its pages.
THEOREM TypeCorrect == Spec => []TypeOK
<1>1. ImportInv => TypeOK
  BY DEF ImportInv
<1>2. QED
  BY <1>1, ImportInvInductive, PTL

\* An import whose row says completed has its whole clone, its repository and
\* every issue and pull request that was not lost on its own, for any number of
\* pages, however often it was retried, stopped, and run by several workers.
THEOREM CompletedImportIsWhole == Spec => []CompletedIsWhole
<1>1. ImportInv => CompletedIsWhole
  <2> SUFFICES ASSUME ImportInv, status = "completed"
               PROVE  clone = "whole" /\ repository /\ target /\ Items \subseteq rows \union lost
    BY DEF CompletedIsWhole
  <2>1. \A phase \in Phases : Done(phase)
    BY DEF ImportInv, Progress
  <2>2. clone = "whole" /\ repository /\ target
    BY <2>1 DEF Phases, Done
  <2>3. \A phase \in Paged : Through(phase, Pages[phase])
    BY <2>1 DEF Phases, Done, Paged
  <2>4. \A phase \in Paged : \A n \in 1..Pages[phase] : <<phase, n>> \in rows \union lost
    <3>1. ASSUME NEW phase \in Paged, NEW n \in 1..Pages[phase] PROVE <<phase, n>> \in rows \union lost
      <4>1. n <= Pages[phase]
        BY PagesAreNat
      <4>2. QED
        BY <2>3, <4>1 DEF Through
    <3>2. QED
      BY <3>1
  <2>5. QED
    BY <2>2, <2>4, ItemsAre
<1>2. QED
  BY <1>1, ImportInvInductive, PTL

\* Comments are inserted at most once, although they have no key: the insert of
\* the issue's row decides which worker inserts them.
THEOREM CommentsInsertedOnce == Spec => []CommentsOnce
<1>1. ImportInv => CommentsOnce
  BY DEF ImportInv, CommentsLeft, CommentsOnce
<1>2. QED
  BY <1>1, ImportInvInductive, PTL
=============================================================================
