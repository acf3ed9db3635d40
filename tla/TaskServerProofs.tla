-------------------------- MODULE TaskServerProofs --------------------------
(* Proofs about TaskServer, for any artifacts, verification runs and       *)
(* requests, any number of deliveries, worker goroutines and faults.       *)
EXTENDS TaskServer, TLAPS

-----------------------------------------------------------------------------
(* The inductive invariants. *)

\* Whoever is about to delete a row has removed the object, and an object that came back is
\* either noted, or cannot have: the cleanup only takes what is too old to be uploaded.
RemovedFirst ==
  /\ \A a \in ArtifactIds : deletes[a] = "row" /\ a \in object => a \in late
  /\ \A a \in cleanup.batch : age[a] = "expired"
  /\ cleanup.at = "row" =>
       cleanup.item \in ArtifactIds /\ age[cleanup.item] = "expired" /\ cleanup.item \notin object

\* A run that no worker has heard of.
Untouched(r) ==
  /\ task[r].waiting = FALSE /\ task[r].tries = 0
  /\ handler[r] = "idle" /\ checks[r] = 0

\* Each delivery records checks once and after it was counted; a row is only written
\* completed behind them.
ChecksCounted(r) ==
  /\ status[r] = "none" => Untouched(r)
  /\ task[r].waiting => handler[r] = "idle" /\ task[r].tries >= 1
  /\ handler[r] # "idle" => task[r].tries >= 1
  /\ checks[r] <= task[r].tries
  /\ task[r].waiting \/ handler[r] \in {"start", "record", "panic"} => checks[r] < task[r].tries
  /\ handler[r] = "finish" => status[r] = "deleted" \/ checks[r] >= 1
  /\ status[r] = "completed" => checks[r] >= 1

Enqueues(q, r) == request[q][1] = "enqueue" /\ request[q][2] = r

\* A run waits for one request, which alone will enqueue its task, and for the first time.
EnqueuedOnce ==
  /\ \A q \in McpRequests, r \in Runs :
       Enqueues(q, r) => Untouched(r) /\ status[r] \in {"queued", "deleted"}
  /\ \A p, q \in McpRequests, r \in Runs : Enqueues(p, r) /\ Enqueues(q, r) => p = q

RunsInv == EnqueuedOnce /\ \A r \in Runs : ChecksCounted(r)

-----------------------------------------------------------------------------
(* Artifacts. *)

\* The invariant of the artifacts holds initially.
LEMMA ArtifactsInit == ArtInit => ArtTypeOK /\ RemovedFirst /\ NoObjectLeft
BY DEF ArtInit, ArtTypeOK, RemovedFirst, NoObjectLeft, Done

\* The requests and the store: they do not touch the cleanup.
LEMMA RequestsStep ==
  ASSUME ArtTypeOK, RemovedFirst, NoObjectLeft, NEW a \in ArtifactIds,
         \/ CreateArtifact(a) \/ Upload(a) \/ CompleteArtifact(a) \/ Expires(a)
         \/ DeleteRead(a) \/ DeleteStep(a) \/ DeleteFails(a)
  PROVE  ArtTypeOK' /\ RemovedFirst' /\ NoObjectLeft'
<1> USE DEF ArtTypeOK, RemovedFirst, NoObjectLeft
<1>1. CASE CreateArtifact(a)
  BY <1>1 DEF CreateArtifact
<1>2. CASE Upload(a)
  BY <1>2 DEF Upload
<1>3. CASE CompleteArtifact(a)
  BY <1>3 DEF CompleteArtifact
<1>4. CASE Expires(a)
  BY <1>4 DEF Expires
<1>5. CASE DeleteRead(a)
  BY <1>5 DEF DeleteRead
<1>6. CASE DeleteObject(a)
  BY <1>6 DEF DeleteObject
<1>7. CASE SoftDelete(a)
  BY <1>7 DEF SoftDelete
<1>8. CASE DeleteFails(a)
  BY <1>8 DEF DeleteFails
<1>9. QED
  BY <1>1, <1>2, <1>3, <1>4, <1>5, <1>6, <1>7, <1>8 DEF DeleteStep

Cleanup == [at: {"idle", "list", "object", "row"}, batch: SUBSET ArtifactIds, full: BOOLEAN,
            item: ArtifactIds \union {"none"}, again: BOOLEAN]

\* A cleanup that is done is idle and holds no batch.
LEMMA DoneType == Done \in Cleanup /\ Done.at = "idle" /\ Done.batch = {}
BY DEF Done, Cleanup

\* After an item the handler has rows left, lists again, or is done.
LEMMA AfterItemBatch ==
  ASSUME ArtTypeOK, NEW batch \in SUBSET ArtifactIds
  PROVE  /\ AfterItem(batch) \in Cleanup /\ AfterItem(batch).at \in {"idle", "list", "object"}
         /\ AfterItem(batch).batch \subseteq batch
<1>1. cleanup \in Cleanup
  BY DEF ArtTypeOK, Cleanup
<1>2. CASE batch # {}
  BY <1>1, <1>2 DEF AfterItem, Cleanup
<1>3. CASE batch = {} /\ cleanup.full
  BY <1>3, DoneType DEF AfterItem, Cleanup
<1>4. CASE batch = {} /\ ~cleanup.full
  BY <1>4, DoneType DEF AfterItem
<1>5. QED
  BY <1>2, <1>3, <1>4

\* The handler moves to a state in which it has no row in hand.
LEMMA NothingInHand ==
  ASSUME ArtTypeOK, RemovedFirst, NEW next \in Cleanup, cleanup' = next, next.at # "row",
         \A a \in next.batch : age[a] = "expired",
         UNCHANGED <<object, age, deletes, store, late>>
  PROVE  cleanup' \in Cleanup /\ RemovedFirst'
BY DEF RemovedFirst

\* The cleanup keeps the invariant of the artifacts.
LEMMA CleanupPart ==
  ASSUME ArtTypeOK, RemovedFirst, NoObjectLeft, CleanupStep \/ CleanupEnds \/ DeliverCleanup
  PROVE  ArtTypeOK' /\ RemovedFirst' /\ NoObjectLeft'
<1> USE DEF NoObjectLeft
<1>1. cleanup \in Cleanup /\ cleanup.batch \subseteq ArtifactIds
  BY DEF ArtTypeOK, Cleanup
<1>2. CASE DeliverCleanup
  <2>1. [Done EXCEPT !.at = "list"] \in Cleanup /\ [Done EXCEPT !.at = "list"].at # "row"
        /\ [Done EXCEPT !.at = "list"].batch = {}
    BY DoneType DEF Cleanup
  <2>2. cleanup' \in Cleanup /\ RemovedFirst'
    BY <1>2, <2>1, NothingInHand DEF DeliverCleanup
  <2>3. QED
    BY <1>2, <2>2 DEF DeliverCleanup, ArtTypeOK, Cleanup
<1>3. CASE CleanupEnds
  <2>1. cleanup' \in Cleanup /\ RemovedFirst'
    BY <1>3, DoneType, NothingInHand DEF CleanupEnds
  <2>2. QED
    BY <1>3, <2>1 DEF CleanupEnds, ArtTypeOK, Cleanup
<1>4. CASE ListExpired
  <2>1. PICK batch \in SUBSET Expired :
          cleanup' = IF batch = {} THEN Done
                     ELSE [cleanup EXCEPT !.at = "object", !.batch = batch,
                                          !.full = Cardinality(batch) = BatchSize]
    BY <1>4 DEF ListExpired
  <2>2. \A a \in batch : a \in ArtifactIds /\ age[a] = "expired"
    BY <2>1 DEF Expired
  <2>3. cleanup' \in Cleanup /\ cleanup'.at # "row" /\ cleanup'.batch \subseteq batch
    <3>1. CASE batch = {}
      BY <2>1, <3>1, DoneType
    <3>2. CASE batch # {}
      <4> DEFINE full == Cardinality(batch) = BatchSize
      <4>1. full \in BOOLEAN
        OBVIOUS
      <4>2. cleanup' = [cleanup EXCEPT !.at = "object", !.batch = batch, !.full = full]
        BY <2>1, <3>2
      <4> HIDE DEF full
      <4>3. QED
        BY <1>1, <2>2, <4>1, <4>2 DEF Cleanup
    <3>3. QED
      BY <3>1, <3>2
  <2>4. RemovedFirst'
    BY <1>4, <2>2, <2>3, NothingInHand DEF ListExpired
  <2>5. QED
    BY <1>4, <2>3, <2>4 DEF ListExpired, ArtTypeOK, Cleanup
<1>5. CASE CleanupObject
  <2>1. PICK a \in cleanup.batch :
          IF store = "up"
            THEN /\ object' = object \ {a}
                 /\ cleanup' = [cleanup EXCEPT !.at = "row", !.batch = @ \ {a}, !.item = a]
            ELSE cleanup' = AfterItem(cleanup.batch \ {a}) /\ UNCHANGED object
    BY <1>5 DEF CleanupObject
  <2>2. a \in ArtifactIds /\ age[a] = "expired"
    BY <1>1, <2>1 DEF RemovedFirst
  <2>3. UNCHANGED <<row, age, deletes, store, late>>
    BY <1>5 DEF CleanupObject
  <2>4. CASE store = "up"
    <3>1. /\ cleanup' \in Cleanup /\ cleanup'.item = a /\ cleanup'.batch \subseteq cleanup.batch
          /\ object' = object \ {a}
      <4> DEFINE rest == cleanup.batch \ {a}
      <4>1. rest \in SUBSET ArtifactIds /\ rest \subseteq cleanup.batch
        BY <1>1
      <4>2. cleanup' = [cleanup EXCEPT !.at = "row", !.batch = rest, !.item = a] /\ object' = object \ {a}
        BY <2>1, <2>4
      <4> HIDE DEF rest
      <4>3. QED
        BY <1>1, <2>2, <4>1, <4>2 DEF Cleanup
    <3>2. RemovedFirst'
      BY <2>2, <2>3, <3>1 DEF RemovedFirst
    <3>3. QED
      BY <2>3, <3>1, <3>2 DEF ArtTypeOK, Cleanup
  <2>5. CASE store # "up"
    <3>1. cleanup' = AfterItem(cleanup.batch \ {a}) /\ UNCHANGED object
      BY <2>1, <2>5
    <3>2. cleanup' \in Cleanup /\ cleanup'.at # "row" /\ cleanup'.batch \subseteq cleanup.batch
      BY <1>1, <3>1, AfterItemBatch
    <3>3. RemovedFirst'
      BY <2>3, <3>1, <3>2, NothingInHand DEF RemovedFirst
    <3>4. QED
      BY <2>3, <3>1, <3>2, <3>3 DEF ArtTypeOK, Cleanup
  <2>6. QED
    BY <2>4, <2>5
<1>6. CASE CleanupRow
  <2>1. cleanup' \in Cleanup /\ cleanup'.at # "row" /\ cleanup'.batch \subseteq cleanup.batch
    BY <1>1, <1>6, AfterItemBatch DEF CleanupRow
  <2>2. RemovedFirst'
    BY <1>6, <2>1, NothingInHand DEF CleanupRow, RemovedFirst
  <2>3. NoObjectLeft'
    BY <1>6 DEF CleanupRow, RemovedFirst, ArtTypeOK
  <2>4. row' \in [ArtifactIds -> {"none", "pending", "completed", "deleted"}]
    BY <1>6 DEF CleanupRow, ArtTypeOK
  <2>5. QED
    BY <1>6, <2>1, <2>2, <2>3, <2>4 DEF CleanupRow, ArtTypeOK, Cleanup
<1>7. QED
  BY <1>2, <1>3, <1>4, <1>5, <1>6 DEF CleanupStep

\* Every step keeps the invariant of the artifacts.
LEMMA ArtifactsStep ==
  ASSUME ArtTypeOK, RemovedFirst, NoObjectLeft,
         ArtNext \/ DeliverCleanup \/ CleanupEnds \/ UNCHANGED artVars
  PROVE  ArtTypeOK' /\ RemovedFirst' /\ NoObjectLeft'
<1>1. CASE StoreTurns
  BY <1>1 DEF StoreTurns, ArtTypeOK, RemovedFirst, NoObjectLeft
<1>2. CASE UNCHANGED artVars
  BY <1>2 DEF artVars, ArtTypeOK, RemovedFirst, NoObjectLeft
<1>3. CASE CleanupTimesOut
  BY <1>3, CleanupPart DEF CleanupTimesOut
<1>4. QED
  BY <1>1, <1>2, <1>3, RequestsStep, CleanupPart DEF ArtNext

-----------------------------------------------------------------------------
(* Verifications. *)

McpInv == McpTypeOK /\ RunsInv

\* A step that changes what there is of one run, and moves no request.
LEMMA OneRun ==
  ASSUME RunsInv, NEW r \in Runs, UNCHANGED request,
         \A x \in Runs \ {r} : /\ status'[x] = status[x] /\ checks'[x] = checks[x]
                               /\ task'[x] = task[x] /\ handler'[x] = handler[x],
         ChecksCounted(r)',
         Untouched(r) /\ status[r] \in {"queued", "deleted"} =>
           Untouched(r)' /\ status'[r] \in {"queued", "deleted"}
  PROVE  RunsInv'
<1>1. ASSUME NEW x \in Runs
      PROVE  ChecksCounted(x)'
  BY <1>1 DEF RunsInv, ChecksCounted, Untouched
<1>2. EnqueuedOnce'
  BY DEF RunsInv, EnqueuedOnce, Enqueues, Untouched
<1>3. QED
  BY <1>1, <1>2 DEF RunsInv

\* What the retry of a task, and with it the end of a handler, comes to.
LEMMA RetriesRun ==
  ASSUME McpTypeOK, NEW r \in Runs, NEW was, RetryVerification(r, was)
  PROVE  /\ handler' \in [Runs -> {"idle", "start", "record", "panic", "finish", "ack"}]
         /\ task' \in [Runs -> [waiting: BOOLEAN, tries: 0..McpTries]]
         /\ orphaned' \subseteq Runs
         /\ handler'[r] = "idle"
         /\ \/ task'[r] = task[r]
            \/ task'[r].waiting /\ task'[r].tries = task[r].tries + 1
         /\ \A x \in Runs \ {r} : task'[x] = task[x] /\ handler'[x] = handler[x]
<1>1. /\ handler' \in [Runs -> {"idle", "start", "record", "panic", "finish", "ack"}]
      /\ handler'[r] = "idle" /\ orphaned' \subseteq Runs
      /\ \A x \in Runs \ {r} : handler'[x] = handler[x]
  BY DEF RetryVerification, Becomes, McpTypeOK
<1>2. CASE task[r].tries < McpTries
  <2> DEFINE n == task[r].tries + 1
             new == [waiting |-> TRUE, tries |-> n]
  <2>1. n \in 0..McpTries
    BY <1>2, McpAssumption DEF McpTypeOK
  <2>2. task' = [task EXCEPT ![r] = new]
    BY <1>2 DEF RetryVerification, McpTypeOK
  <2> HIDE DEF n
  <2>3. new \in [waiting: BOOLEAN, tries: 0..McpTries] /\ new.waiting /\ new.tries = n
    BY <2>1
  <2> HIDE DEF new
  <2>4. QED
    BY <1>1, <2>2, <2>3 DEF n, McpTypeOK
<1>3. CASE ~(task[r].tries < McpTries)
  BY <1>1, <1>3 DEF RetryVerification, McpTypeOK
<1>4. QED
  BY <1>2, <1>3

\* A request that goes on is well typed and enqueues nothing new.
LEMMA RequestType ==
  ASSUME McpTypeOK, NEW q \in McpRequests, NEW to \in {"idle", "create"}, Asks(q, to)
  PROVE  /\ request' \in [McpRequests -> {"idle", "create"} \X {"none"} \union {"enqueue"} \X Runs]
         /\ \A p \in McpRequests, r \in Runs : Enqueues(p, r)' => Enqueues(p, r) /\ p # q
BY DEF McpTypeOK, Asks, Enqueues

\* The four steps of a request: it takes an id that nobody has, and gives it to one task.
LEMMA McpRequestsStep ==
  ASSUME McpInv, NEW q \in McpRequests, CheckLimits(q) \/ McpRequestStep(q) \/ EnqueueFails(q)
  PROVE  McpInv'
<1> USE DEF McpInv
<1>1. CASE CheckLimits(q)
  <2>1. McpTypeOK'
    BY <1>1, RequestType DEF CheckLimits, McpTypeOK
  <2>2. EnqueuedOnce'
    BY <1>1, RequestType DEF CheckLimits, RunsInv, EnqueuedOnce, Untouched
  <2>3. \A r \in Runs : ChecksCounted(r)'
    BY <1>1 DEF CheckLimits, RunsInv, ChecksCounted, Untouched
  <2>4. QED
    BY <2>1, <2>2, <2>3 DEF RunsInv
<1>2. CASE CreateRun(q) /\ UNCHANGED status
  <2>0. Asks(q, "idle")
    BY <1>2 DEF CreateRun, McpTypeOK
  <2>1. McpTypeOK'
    BY <1>2, <2>0, RequestType DEF CreateRun, McpTypeOK
  <2>2. EnqueuedOnce'
    BY <1>2, <2>0, RequestType DEF CreateRun, RunsInv, EnqueuedOnce, Untouched
  <2>3. \A r \in Runs : ChecksCounted(r)'
    BY <1>2 DEF CreateRun, RunsInv, ChecksCounted, Untouched
  <2>4. QED
    BY <2>1, <2>2, <2>3 DEF RunsInv
<1>3. ASSUME NEW r \in Runs, CreateRun(q), status[r] = "none", status' = [status EXCEPT ![r] = "queued"],
             request' = [request EXCEPT ![q] = <<"enqueue", r>>]
      PROVE  McpInv'
  <2>1. McpTypeOK'
    BY <1>3 DEF CreateRun, McpTypeOK, Active
  <2>2. Untouched(r)
    BY <1>3 DEF RunsInv, ChecksCounted
  <2>3. \A p \in McpRequests : ~Enqueues(p, r)
    BY <1>3 DEF RunsInv, EnqueuedOnce
  <2>4. /\ \A p \in McpRequests, x \in Runs : Enqueues(p, x)' => (p = q /\ x = r) \/ (Enqueues(p, x) /\ p # q /\ x # r)
    BY <1>3, <2>3 DEF Enqueues, McpTypeOK
  <2>5. UNCHANGED <<checks, task, handler>> /\ status'[r] = "queued"
        /\ \A x \in Runs \ {r} : status'[x] = status[x]
    BY <1>3 DEF CreateRun, McpTypeOK
  <2>6. EnqueuedOnce'
    BY <2>2, <2>4, <2>5 DEF RunsInv, EnqueuedOnce, Untouched
  <2>7. ASSUME NEW x \in Runs
        PROVE  ChecksCounted(x)'
    BY <2>2, <2>5 DEF RunsInv, ChecksCounted, Untouched
  <2>8. QED
    BY <2>1, <2>6, <2>7 DEF RunsInv
<1>4. CASE EnqueueMCPVerification(q)
  <2>1. PICK r \in Runs : request[q] = <<"enqueue", r>>
    BY <1>4 DEF EnqueueMCPVerification, McpTypeOK
  <2>2. Enqueues(q, r)
    BY <2>1 DEF Enqueues
  <2>3. /\ task' = [task EXCEPT ![r] = [waiting |-> TRUE, tries |-> 1]]
        /\ Asks(q, "idle") /\ UNCHANGED <<status, checks, handler, faults, orphaned>>
    BY <1>4, <2>1 DEF EnqueueMCPVerification
  <2>4. task' \in [Runs -> [waiting: BOOLEAN, tries: 0..McpTries]]
    BY <2>3, McpAssumption DEF McpTypeOK
  <2>5. task'[r].waiting /\ task'[r].tries = 1 /\ \A x \in Runs \ {r} : task'[x] = task[x]
    BY <2>3 DEF McpTypeOK
  <2>6. McpTypeOK'
    BY <2>3, <2>4, RequestType DEF McpTypeOK
  <2>7. Untouched(r) /\ status[r] \in {"queued", "deleted"}
    BY <2>2 DEF RunsInv, EnqueuedOnce
  <2>8. \A p \in McpRequests, x \in Runs : Enqueues(p, x)' => Enqueues(p, x) /\ x # r
    BY <2>2, <2>3, RequestType DEF RunsInv, EnqueuedOnce
  <2>9. EnqueuedOnce'
    BY <2>3, <2>5, <2>8 DEF RunsInv, EnqueuedOnce, Untouched
  <2>10. ASSUME NEW x \in Runs
         PROVE  ChecksCounted(x)'
    BY <2>3, <2>5, <2>7 DEF RunsInv, ChecksCounted, Untouched
  <2>11. QED
    BY <2>6, <2>9, <2>10 DEF RunsInv
<1>5. CASE EnqueueFails(q)
  <2>1. PICK r \in Runs : request[q] = <<"enqueue", r>>
    BY <1>5 DEF EnqueueFails, McpTypeOK
  <2>2. orphaned' \subseteq Runs /\ faults' \in 0..MaxFaults
    BY <1>5, <2>1, McpAssumption DEF EnqueueFails, McpTypeOK
  <2>3. McpTypeOK'
    BY <1>5, <2>2, RequestType DEF EnqueueFails, McpTypeOK
  <2>4. EnqueuedOnce'
    BY <1>5, RequestType DEF EnqueueFails, RunsInv, EnqueuedOnce, Untouched
  <2>5. \A x \in Runs : ChecksCounted(x)'
    BY <1>5 DEF EnqueueFails, RunsInv, ChecksCounted, Untouched
  <2>6. QED
    BY <2>3, <2>4, <2>5 DEF RunsInv
<1>6. QED
  BY <1>1, <1>2, <1>3, <1>4, <1>5 DEF McpRequestStep, CreateRun

\* A run that somebody gives up or that is given up on keeps its checks, and its task may come
\* again: what was recorded before the last delivery began is not more than the deliveries.
LEMMA RetryKeepsRuns ==
  ASSUME McpInv, NEW r \in Runs, NEW was, RetryVerification(r, was), handler[r] # "idle",
         UNCHANGED <<checks, request>>,
         status' \in [Runs -> Active \union {"none", "completed", "errored", "deleted"}],
         \A x \in Runs \ {r} : status'[x] = status[x],
         status'[r] = "none" => status[r] = "none",
         status'[r] = "completed" => status[r] = "completed",
         faults' \in 0..MaxFaults
  PROVE  McpInv'
<1>1. McpTypeOK'
  BY RetriesRun DEF McpInv, McpTypeOK
<1>2. checks[r] \in Nat /\ task[r].tries \in Nat
  BY DEF McpInv, McpTypeOK
<1>3. ChecksCounted(r)
  BY DEF McpInv, RunsInv
<1>4. handler'[r] = "idle" /\ (\/ task'[r] = task[r]
                               \/ task'[r].waiting /\ task'[r].tries = task[r].tries + 1)
  BY RetriesRun DEF McpInv
<1>5. checks'[r] = checks[r]
  OBVIOUS
<1>6. ChecksCounted(r)'
  BY <1>2, <1>3, <1>4, <1>5 DEF ChecksCounted, Untouched
<1>7. ~Untouched(r)
  BY DEF Untouched
<1>8. RunsInv'
  BY <1>6, <1>7, OneRun, RetriesRun DEF McpInv
<1>9. QED
  BY <1>1, <1>8 DEF McpInv

\* Deleting a verification keeps the invariant of the runs.
LEMMA DeleteRunStep ==
  ASSUME McpInv, NEW r \in Runs, DeleteRun(r)
  PROVE  McpInv'
<1>1. McpTypeOK'
  BY McpAssumption DEF DeleteRun, McpInv, McpTypeOK
<1>2. /\ status'[r] = "deleted" /\ checks'[r] = 0 /\ UNCHANGED <<task, handler, request>>
      /\ \A x \in Runs \ {r} : status'[x] = status[x] /\ checks'[x] = checks[x]
  BY DEF DeleteRun, McpInv, McpTypeOK
<1>3. ChecksCounted(r) /\ task[r].tries \in Nat /\ checks[r] \in Nat
  BY DEF McpInv, RunsInv, McpTypeOK
<1>4. ChecksCounted(r)'
  BY <1>2, <1>3 DEF ChecksCounted, Untouched
<1>5. RunsInv'
  BY <1>2, <1>4, OneRun DEF McpInv, Untouched
<1>6. QED
  BY <1>1, <1>5 DEF McpInv

\* The handler goes on with the task it has.
LEMMA HandlerStep ==
  ASSUME McpInv, NEW r \in Runs, NEW at \in {"record", "panic", "finish", "ack", "idle"}, Becomes(r, at),
         handler[r] # "idle", UNCHANGED <<task, request, orphaned>>,
         status' \in [Runs -> Active \union {"none", "completed", "errored", "deleted"}],
         checks' \in [Runs -> Nat],
         \A x \in Runs \ {r} : status'[x] = status[x] /\ checks'[x] = checks[x],
         status'[r] # "none", faults' \in 0..MaxFaults,
         checks'[r] <= task[r].tries,
         at \in {"record", "panic"} => checks'[r] < task[r].tries,
         at = "finish" \/ status'[r] = "completed" => status'[r] = "deleted" \/ checks'[r] >= 1
  PROVE  McpInv'
<1>1. /\ handler' \in [Runs -> {"idle", "start", "record", "panic", "finish", "ack"}]
      /\ handler'[r] = at /\ \A x \in Runs \ {r} : handler'[x] = handler[x]
  BY DEF Becomes, McpInv, McpTypeOK
<1>2. checks' \in [Runs -> 0..McpTries]
  <2>1. \A x \in Runs : task[x].tries \in 0..McpTries /\ checks[x] \in 0..McpTries
    BY DEF McpInv, McpTypeOK
  <2>2. \A x \in Runs : checks'[x] \in 0..McpTries
    BY <2>1, McpAssumption
  <2>3. QED
    BY <2>2
<1>3. McpTypeOK'
  BY <1>1, <1>2 DEF McpInv, McpTypeOK
<1>4. ChecksCounted(r) /\ ~Untouched(r)
  BY DEF McpInv, RunsInv, Untouched
<1>5. ChecksCounted(r)'
  BY <1>1, <1>4 DEF ChecksCounted
<1>6. RunsInv'
  BY <1>1, <1>4, <1>5, OneRun DEF McpInv
<1>7. QED
  BY <1>3, <1>6 DEF McpInv

\* A delivery is counted before its handler does anything.
LEMMA DeliverStep ==
  ASSUME McpInv, NEW r \in Runs, DeliverVerification(r)
  PROVE  McpInv'
<1> DEFINE new == [task[r] EXCEPT !.waiting = FALSE]
<1>1. task[r] \in [waiting: BOOLEAN, tries: 0..McpTries] /\ task[r].waiting /\ checks[r] \in Nat
  BY DEF DeliverVerification, McpInv, McpTypeOK
<1>2. new \in [waiting: BOOLEAN, tries: 0..McpTries] /\ ~new.waiting /\ new.tries = task[r].tries
  BY <1>1
<1>3. task' = [task EXCEPT ![r] = new]
  BY DEF DeliverVerification, McpInv, McpTypeOK
<1> HIDE DEF new
<1>4. /\ task' \in [Runs -> [waiting: BOOLEAN, tries: 0..McpTries]]
      /\ ~task'[r].waiting /\ task'[r].tries = task[r].tries
      /\ \A x \in Runs \ {r} : task'[x] = task[x]
  BY <1>2, <1>3 DEF McpInv, McpTypeOK
<1>5. /\ handler' \in [Runs -> {"idle", "start", "record", "panic", "finish", "ack"}]
      /\ handler'[r] = "start" /\ \A x \in Runs \ {r} : handler'[x] = handler[x]
      /\ UNCHANGED <<status, checks, request, faults, orphaned>>
  BY DEF DeliverVerification, McpInv, McpTypeOK
<1>6. McpTypeOK'
  BY <1>4, <1>5 DEF McpInv, McpTypeOK
<1>7. ChecksCounted(r) /\ ~Untouched(r)
  BY <1>1 DEF McpInv, RunsInv, Untouched
<1>8. task[r].tries \in Nat
  BY <1>1
<1>9. ChecksCounted(r)'
  BY <1>1, <1>4, <1>5, <1>7, <1>8 DEF ChecksCounted, Untouched
<1>10. RunsInv'
  BY <1>4, <1>5, <1>7, <1>9, OneRun DEF McpInv
<1>11. QED
  BY <1>6, <1>10 DEF McpInv

\* A step of a handler, or its fault, keeps the invariant of the runs.
LEMMA McpHandlersStep ==
  ASSUME McpInv, NEW r \in Runs, McpHandlerStep(r) \/ McpFault(r)
  PROVE  McpInv'
<1>1. /\ handler[r] # "idle"
  BY DEF McpHandlerStep, McpFault, StartRun, BatchCreateChecks, FinishRun, RecoverPanic,
     AckVerification, VerificationFails, Panic, WorkerStops
<1>2. /\ status \in [Runs -> Active \union {"none", "completed", "errored", "deleted"}]
      /\ checks \in [Runs -> 0..McpTries] /\ checks[r] \in Nat /\ task[r].tries \in Nat
      /\ faults \in 0..MaxFaults /\ checks \in [Runs -> Nat]
  BY McpAssumption DEF McpInv, McpTypeOK
<1>3. ChecksCounted(r) /\ status[r] # "none"
  BY <1>1 DEF McpInv, RunsInv, ChecksCounted, Untouched
<1>4. ASSUME RetryVerification(r, status[r]), UNCHANGED <<status, checks, request>>, faults' \in 0..MaxFaults
      PROVE  McpInv'
  BY <1>1, <1>2, <1>4, RetryKeepsRuns
<1>5. CASE StartRun(r)
  <2>1. CASE status[r] = "deleted" \/ ActiveRuns \ {r} # {}
    BY <1>2, <1>4, <1>5, <2>1 DEF StartRun
  <2>2. CASE ~(status[r] = "deleted" \/ ActiveRuns \ {r} # {})
    <3>1. /\ status' = [status EXCEPT ![r] = "running"] /\ Becomes(r, "record")
          /\ UNCHANGED <<task, orphaned, checks, request, faults>> /\ handler[r] = "start"
      BY <1>5, <2>2 DEF StartRun
    <3>2. /\ status' \in [Runs -> Active \union {"none", "completed", "errored", "deleted"}]
          /\ status'[r] = "running" /\ \A x \in Runs \ {r} : status'[x] = status[x]
      BY <1>2, <3>1 DEF Active
    <3>3. checks[r] < task[r].tries
      BY <1>3, <3>1 DEF ChecksCounted
    <3>4. QED
      BY <1>1, <1>2, <3>1, <3>2, <3>3, HandlerStep
  <2>3. QED
    BY <2>1, <2>2
<1>6. CASE BatchCreateChecks(r)
  <2>1. CASE status[r] = "deleted"
    BY <1>2, <1>4, <1>6, <2>1 DEF BatchCreateChecks
  <2>2. CASE status[r] # "deleted"
    <3>1. /\ checks' = [checks EXCEPT ![r] = @ + 1] /\ Becomes(r, "finish")
          /\ UNCHANGED <<task, orphaned, status, request, faults>> /\ handler[r] = "record"
      BY <1>6, <2>2 DEF BatchCreateChecks
    <3>2. checks' \in [Runs -> Nat] /\ checks'[r] = checks[r] + 1
          /\ \A x \in Runs \ {r} : checks'[x] = checks[x]
      BY <1>2, <3>1
    <3>3. checks[r] < task[r].tries
      BY <1>3, <3>1 DEF ChecksCounted
    <3>4. checks'[r] <= task[r].tries /\ checks'[r] >= 1
      BY <1>2, <3>2, <3>3
    <3>5. QED
      BY <1>1, <1>2, <1>3, <3>1, <3>2, <3>4, HandlerStep
  <2>3. QED
    BY <2>1, <2>2
<1>7. CASE FinishRun(r)
  <2>1. CASE status[r] = "deleted"
    BY <1>2, <1>4, <1>7, <2>1 DEF FinishRun
  <2>2. CASE status[r] # "deleted"
    <3>1. /\ status' = [status EXCEPT ![r] = "completed"] /\ Becomes(r, "ack")
          /\ UNCHANGED <<task, orphaned, checks, request, faults>> /\ handler[r] = "finish"
      BY <1>7, <2>2 DEF FinishRun
    <3>2. /\ status' \in [Runs -> Active \union {"none", "completed", "errored", "deleted"}]
          /\ status'[r] = "completed" /\ \A x \in Runs \ {r} : status'[x] = status[x]
      BY <1>2, <3>1
    <3>3. checks[r] >= 1 /\ checks[r] <= task[r].tries
      BY <1>3, <2>2, <3>1 DEF ChecksCounted
    <3>4. QED
      BY <1>1, <1>2, <3>1, <3>2, <3>3, HandlerStep
  <2>3. QED
    BY <2>1, <2>2
<1>8. CASE RecoverPanic(r)
  <2> DEFINE was == IF status[r] = "deleted" THEN "deleted" ELSE "errored"
  <2>1. /\ status' = [status EXCEPT ![r] = was] /\ RetryVerification(r, was)
        /\ UNCHANGED <<checks, request, faults>>
    BY <1>8 DEF RecoverPanic
  <2>2. was \in {"deleted", "errored"}
    OBVIOUS
  <2> HIDE DEF was
  <2>3. /\ status' \in [Runs -> Active \union {"none", "completed", "errored", "deleted"}]
        /\ status'[r] = was /\ \A x \in Runs \ {r} : status'[x] = status[x]
    BY <1>2, <2>1, <2>2
  <2>4. QED
    BY <1>1, <1>2, <2>1, <2>2, <2>3, RetryKeepsRuns
<1>9. CASE AckVerification(r)
  <2>1. Becomes(r, "idle") /\ UNCHANGED <<status, checks, task, request, faults, orphaned>>
    BY <1>9 DEF AckVerification
  <2>2. checks[r] <= task[r].tries /\ (status[r] = "completed" => checks[r] >= 1)
    BY <1>3 DEF ChecksCounted
  <2>3. QED
    BY <1>1, <1>2, <1>3, <2>1, <2>2, HandlerStep
<1>10. CASE VerificationFails(r) \/ WorkerStops(r)
  <2>1. /\ RetryVerification(r, status[r]) /\ UNCHANGED <<status, checks, request>>
        /\ faults' = faults + 1 /\ faults < MaxFaults
    BY <1>10 DEF VerificationFails, WorkerStops
  <2>2. faults' \in 0..MaxFaults
    BY <1>2, <2>1, McpAssumption
  <2>3. QED
    BY <1>4, <2>1, <2>2
<1>11. CASE Panic(r)
  <2>1. /\ Becomes(r, "panic") /\ UNCHANGED <<status, checks, task, request, orphaned>>
        /\ faults' = faults + 1 /\ faults < MaxFaults /\ handler[r] = "record"
    BY <1>11 DEF Panic
  <2>2. faults' \in 0..MaxFaults
    BY <1>2, <2>1, McpAssumption
  <2>3. checks[r] < task[r].tries /\ (status[r] = "completed" => checks[r] >= 1)
    BY <1>3, <2>1 DEF ChecksCounted
  <2>4. checks[r] <= task[r].tries
    BY <1>2, <2>3
  <2>5. QED
    BY <1>1, <1>2, <1>3, <2>1, <2>2, <2>3, <2>4, HandlerStep
<1>12. QED
  BY <1>5, <1>6, <1>7, <1>8, <1>9, <1>10, <1>11 DEF McpHandlerStep, McpFault

\* Every step keeps the invariant of the runs.
LEMMA McpStep ==
  ASSUME McpInv, McpNext \/ (\E r \in Runs : DeliverVerification(r)) \/ UNCHANGED <<mcpVars, faults>>
  PROVE  McpInv'
<1>1. CASE UNCHANGED <<mcpVars, faults>>
  BY <1>1 DEF mcpVars, McpInv, McpTypeOK, RunsInv, EnqueuedOnce, Enqueues, ChecksCounted, Untouched
<1>2. QED
  BY <1>1, McpRequestsStep, DeleteRunStep, McpHandlersStep, DeliverStep DEF McpNext

-----------------------------------------------------------------------------
(* The theorems. *)

TaskServerInv == McpInv /\ ArtTypeOK /\ RemovedFirst /\ NoObjectLeft

\* The invariants of both tasks hold together on one pool of goroutines.
LEMMA TaskServerInvariant == Spec => []TaskServerInv
<1>1. Init => TaskServerInv
  <2> SUFFICES ASSUME Init PROVE TaskServerInv
    OBVIOUS
  <2>1. ArtTypeOK /\ RemovedFirst /\ NoObjectLeft
    BY ArtifactsInit DEF Init
  <2>2. McpTypeOK
    BY McpAssumption DEF Init, McpInit, McpTypeOK
  <2>3. RunsInv
    BY DEF Init, McpInit, RunsInv, EnqueuedOnce, Enqueues, ChecksCounted, Untouched
  <2>4. QED
    BY <2>1, <2>2, <2>3 DEF TaskServerInv, McpInv
<1>2. TaskServerInv /\ [Next]_vars => TaskServerInv'
  <2> SUFFICES ASSUME TaskServerInv, [Next]_vars PROVE TaskServerInv'
    OBVIOUS
  <2>1. ASSUME McpNext \/ (\E r \in Runs : DeliverVerification(r)), UNCHANGED artVars
        PROVE  TaskServerInv'
    BY <2>1, McpStep, ArtifactsStep DEF TaskServerInv
  <2>2. ASSUME ArtNext \/ DeliverCleanup, UNCHANGED <<mcpVars, faults>>
        PROVE  TaskServerInv'
    BY <2>2, McpStep, ArtifactsStep DEF TaskServerInv
  <2>3. CASE CleanupFails
    <3>1. ArtTypeOK' /\ RemovedFirst' /\ NoObjectLeft'
      BY <2>3, ArtifactsStep DEF CleanupFails, TaskServerInv
    <3>2. faults' \in 0..MaxFaults
      BY <2>3, McpAssumption DEF CleanupFails, TaskServerInv, McpInv, McpTypeOK
    <3>3. McpInv'
      BY <2>3, <3>2 DEF CleanupFails, mcpVars, TaskServerInv, McpInv, McpTypeOK, RunsInv, EnqueuedOnce,
         Enqueues, ChecksCounted, Untouched
    <3>4. QED
      BY <3>1, <3>3 DEF TaskServerInv
  <2>4. CASE UNCHANGED vars
    <3>1. UNCHANGED <<mcpVars, faults>> /\ UNCHANGED artVars
      BY <2>4 DEF vars
    <3>2. QED
      BY <3>1, McpStep, ArtifactsStep DEF TaskServerInv
  <2>5. QED
    BY <2>1, <2>2, <2>3, <2>4 DEF Next, RunVerificationTask, RunCleanupTask
<1>3. QED
  BY <1>1, <1>2, PTL DEF Spec

\* Every reachable state is well typed: no task is delivered more often than its retries allow,
\* and no more checks are recorded than it was delivered.
THEOREM TypeCorrect == Spec => []TypeOK
<1>1. TaskServerInv => TypeOK
  BY DEF TaskServerInv, McpInv, TypeOK
<1>2. QED
  BY <1>1, TaskServerInvariant, PTL

\* A completed verification has its checks, and not more sets of them than deliveries, whatever
\* failed, stopped or was deleted on the way.
THEOREM ChecksOfCompleted == Spec => []CompletedHasChecks
<1>1. ASSUME TaskServerInv
      PROVE  CompletedHasChecks
  <2>1. ASSUME NEW r \in Runs, status[r] = "completed"
        PROVE  checks[r] \in 1..task[r].tries
    <3>1. ChecksCounted(r) /\ checks[r] \in Nat /\ task[r].tries \in Nat
      BY <1>1 DEF TaskServerInv, McpInv, McpTypeOK, RunsInv
    <3>2. QED
      BY <2>1, <3>1 DEF ChecksCounted
  <2>2. QED
    BY <2>1 DEF CompletedHasChecks
<1>2. QED
  BY <1>1, TaskServerInvariant, PTL

\* A deleted artifact leaves no object, unless one was uploaded after its deletion: neither the
\* cleanup nor a request deletes a row before its object.
THEOREM ObjectsGoWithRows == Spec => []NoObjectLeft
<1>1. TaskServerInv => NoObjectLeft
  BY DEF TaskServerInv
<1>2. QED
  BY <1>1, TaskServerInvariant, PTL
=============================================================================
