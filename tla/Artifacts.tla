------------------------------ MODULE Artifacts ------------------------------
(***************************************************************************)
(* Artifacts of workflow runs: a row in the database, an object in the     *)
(* store that the client uploads with a presigned URL, the request that    *)
(* deletes both, and ArtifactCleanupWorker, which a scheduler starts every *)
(* hour and which deletes the expired ones batch by batch.                 *)
(*                                                                         *)
(* A task without a timeout of its own gets the default one of asynq: its  *)
(* context ends, and with it the handler. What it left is for a later one. *)
(***************************************************************************)
EXTENDS Integers, FiniteSets

CONSTANTS
  ArtifactIds,  \* artifacts
  BatchSize     \* rows that the cleanup lists at a time

ASSUME ArtifactsAssumption == BatchSize \in Nat \ {0}

VARIABLES
  row,      \* the row of an artifact: its status, none or deleted
  object,   \* the store has the object
  age,      \* the upload URL is still valid, or the retention is over
  deletes,  \* the request that deletes an artifact
  cleanup,  \* the cleanup handler: what it does, and with which rows
  store,    \* the object store answers
  late      \* history: objects uploaded after the object was deleted

artVars == <<row, object, age, deletes, cleanup, store, late>>

Done == [at |-> "idle", batch |-> {}, full |-> FALSE, item |-> "none", again |-> FALSE]
Expired == {a \in ArtifactIds : row[a] = "completed" /\ age[a] = "expired"}

ArtTypeOK ==
  /\ row \in [ArtifactIds -> {"none", "pending", "completed", "deleted"}]
  /\ object \subseteq ArtifactIds
  /\ age \in [ArtifactIds -> {"new", "expired"}]
  /\ deletes \in [ArtifactIds -> {"idle", "object", "row"}]
  /\ cleanup \in [at: {"idle", "list", "object", "row"}, batch: SUBSET ArtifactIds, full: BOOLEAN,
                item: ArtifactIds \union {"none"}, again: BOOLEAN]
  /\ store \in {"up", "down"}
  /\ late \subseteq ArtifactIds

ArtInit ==
  /\ row = [a \in ArtifactIds |-> "none"]
  /\ object = {}
  /\ age = [a \in ArtifactIds |-> "new"]
  /\ deletes = [a \in ArtifactIds |-> "idle"]
  /\ cleanup = Done
  /\ store = "up"
  /\ late = {}

-----------------------------------------------------------------------------
(* The client: create, upload, complete. *)

CreateArtifact(a) ==
  /\ row[a] = "none"
  /\ row' = [row EXCEPT ![a] = "pending"]
  /\ UNCHANGED <<object, age, deletes, cleanup, store, late>>

\* The URL is good for five minutes whatever happens to the row.
Upload(a) ==
  /\ row[a] # "none" /\ age[a] = "new"
  /\ store = "up"
  /\ object' = object \union {a}
  /\ late' = IF row[a] = "deleted" \/ deletes[a] = "row" THEN late \union {a} ELSE late
  /\ UNCHANGED <<row, age, deletes, cleanup, store>>

\* Neither the object nor deleted_at is looked at; a deleted row stays deleted.
CompleteArtifact(a) ==
  /\ row[a] = "pending"
  /\ row' = [row EXCEPT ![a] = "completed"]
  /\ UNCHANGED <<object, age, deletes, cleanup, store, late>>

\* Five minutes for the URL, one to ninety days of retention.
Expires(a) ==
  /\ row[a] # "none" /\ age[a] = "new"
  /\ age' = [age EXCEPT ![a] = "expired"]
  /\ UNCHANGED <<row, object, deletes, cleanup, store, late>>

-----------------------------------------------------------------------------
(* DeleteArtifactUsecase.Execute: the row is read, the object goes, the row goes. *)

DeleteRead(a) ==
  /\ deletes[a] = "idle"
  /\ row[a] \in {"pending", "completed"}
  /\ deletes' = [deletes EXCEPT ![a] = "object"]
  /\ UNCHANGED <<row, object, age, cleanup, store, late>>

\* Mutant of DeleteObject: an error of the store does not stop the request.
DeleteObjectIgnored(a) ==
  /\ deletes[a] = "object"
  /\ deletes' = [deletes EXCEPT ![a] = "row"]
  /\ object' = IF store = "up" THEN object \ {a} ELSE object
  /\ UNCHANGED <<row, age, cleanup, store, late>>

DeleteObject(a) ==
  /\ deletes[a] = "object"
  /\ IF store = "up"
       THEN object' = object \ {a} /\ deletes' = [deletes EXCEPT ![a] = "row"]
       ELSE deletes' = [deletes EXCEPT ![a] = "idle"] /\ UNCHANGED object
  /\ UNCHANGED <<row, age, cleanup, store, late>>

SoftDelete(a) ==
  /\ deletes[a] = "row"
  /\ row' = [row EXCEPT ![a] = "deleted"]
  /\ deletes' = [deletes EXCEPT ![a] = "idle"]
  /\ UNCHANGED <<object, age, cleanup, store, late>>

\* The database refuses, or the process stops: the object may be gone already.
DeleteFails(a) ==
  /\ deletes[a] # "idle"
  /\ deletes' = [deletes EXCEPT ![a] = "idle"]
  /\ UNCHANGED <<row, object, age, cleanup, store, late>>

-----------------------------------------------------------------------------
(* ArtifactCleanupWorker.HandleCleanup. *)

\* The task that the scheduler enqueues every hour.
DeliverCleanup ==
  /\ cleanup = Done
  /\ cleanup' = [Done EXCEPT !.at = "list"]
  /\ UNCHANGED <<row, object, age, deletes, store, late>>

\* The query has a limit and no order.
ListExpired ==
  /\ cleanup.at = "list"
  /\ \E batch \in SUBSET Expired :
       /\ Cardinality(batch) = IF Cardinality(Expired) < BatchSize THEN Cardinality(Expired) ELSE BatchSize
       /\ cleanup' = IF batch = {} THEN Done
                     ELSE [cleanup EXCEPT !.at = "object", !.batch = batch,
                                          !.full = Cardinality(batch) = BatchSize]
  /\ UNCHANGED <<row, object, age, deletes, store, late>>

\* A batch that was full is followed by another one, even if nothing could be deleted.
AfterItem(batch) ==
  IF batch # {} THEN [cleanup EXCEPT !.at = "object", !.batch = batch, !.item = "none"]
  ELSE IF cleanup.full THEN [Done EXCEPT !.at = "list", !.again = TRUE]
  ELSE Done

CleanupObject ==
  /\ cleanup.at = "object"
  /\ \E a \in cleanup.batch :
       IF store = "up"
         THEN /\ object' = object \ {a}
              /\ cleanup' = [cleanup EXCEPT !.at = "row", !.batch = @ \ {a}, !.item = a]
         ELSE cleanup' = AfterItem(cleanup.batch \ {a}) /\ UNCHANGED object
  /\ UNCHANGED <<row, age, deletes, store, late>>

\* Mutant of CleanupRow: the row is left for the next cleanup.
CleanupRowKept ==
  /\ cleanup.at = "row"
  /\ cleanup' = AfterItem(cleanup.batch)
  /\ UNCHANGED <<row, object, age, deletes, store, late>>

CleanupRow ==
  /\ cleanup.at = "row"
  /\ row' = [row EXCEPT ![cleanup.item] = "deleted"]
  /\ cleanup' = AfterItem(cleanup.batch)
  /\ UNCHANGED <<object, age, deletes, store, late>>

CleanupEnds == cleanup' = Done /\ UNCHANGED <<row, object, age, deletes, store, late>>

\* Only a handler that lists again and again lasts until its timeout.
CleanupTimesOut == cleanup.again /\ CleanupEnds

StoreTurns ==
  /\ store' = IF store = "up" THEN "down" ELSE "up"
  /\ UNCHANGED <<row, object, age, deletes, cleanup, late>>

-----------------------------------------------------------------------------
DeleteStep(a) == DeleteObject(a) \/ SoftDelete(a)
CleanupStep == ListExpired \/ CleanupObject \/ CleanupRow

\* Everything but DeliverCleanup, which needs a free worker.
ArtNext ==
  \/ \E a \in ArtifactIds :
       \/ CreateArtifact(a) \/ Upload(a) \/ CompleteArtifact(a) \/ Expires(a)
       \/ DeleteRead(a) \/ DeleteStep(a) \/ DeleteFails(a)
  \/ CleanupStep \/ CleanupTimesOut \/ StoreTurns
-----------------------------------------------------------------------------
(* Properties. *)

\* An artifact that is gone from the database leaves no object behind in the
\* store, unless it was uploaded after the object had been deleted.
NoObjectLeft == \A a \in object : row[a] = "deleted" => a \in late

\* An expired artifact goes away in the end, or the store is down again and again.
ExpiredGoes ==
  \A a \in ArtifactIds : []<>(a \notin Expired \/ store = "down")
=============================================================================
