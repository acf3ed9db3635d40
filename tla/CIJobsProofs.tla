---------------------------- MODULE CIJobsProofs ----------------------------
(* Proofs about CIJobs, for any set of jobs, any workflow files and any    *)
(* number of slots.                                                        *)
EXTENDS CIJobsRefinement, FiniteSetTheorems, TLAPS

-----------------------------------------------------------------------------
(* The inductive invariant, in the parts it is proved in. *)

\* The slots taken are those of the jobs past Acquire that have not released theirs.
Holding == {j \in Jobs : pc[j] \in {"next", "exec", "result", "release"}}

SlotsCounted == sem = Cardinality(Holding)

Decided(j) == results[j] \in {"success", "failure"}

Barred(j) == j \in IfFalse \/ \E n \in Needs[j] : results[n] \in {"failure", "skipped"}

Cleared(j) == j \notin IfFalse /\ \A n \in Needs[j] : results[n] = "success"

\* A job has a result only once it is past its decision, and one that is torn down without
\* a result is so by a fatal error.
ResultsPlaced ==
  \A j \in Jobs :
    /\ results[j] # "none" => pc[j] \in {"skipDone", "release", "close", "gone"}
    /\ pc[j] = "skipDone" => results[j] = "skipped"
    /\ pc[j] = "release" => results[j] # "skipped"
    /\ pc[j] \in {"release", "close", "gone"} /\ results[j] = "none" => cancelled

\* What a job has seen of its needs by the time it is somewhere.
NeedsSeen ==
  \A j \in Jobs :
    /\ pc[j] = "alive" => Needs[j] \subseteq closed
    /\ pc[j] \in {"gate", "skip", "acquire"} \union Executing \/ results[j] # "none" =>
         \A n \in Needs[j] : n \in closed /\ results[n] # "none"
    /\ pc[j] = "skip" \/ results[j] = "skipped" => Barred(j)
    /\ pc[j] \in {"acquire"} \union Executing \/ Decided(j) => Cleared(j)

FlowInv ==
  /\ \A j \in Jobs : Needs[j] \subseteq Jobs
  /\ closed = {j \in Jobs : pc[j] = "gone"}
  /\ ResultsPlaced
  /\ NeedsSeen

\* The instances a job is through with.
Past(j, k) == k < combo[j] \/ pc[j] = "result" \/ Decided(j)

Fails(j) == \E k \in 1..Combos[j] : fate[<<j, k>>] = "failure"

\* logicalFailed is what the instances so far came to.
OutcomeInv ==
  \A j \in Jobs :
    /\ failed[j] => Fails(j) \/ cancelled
    /\ ~failed[j] => \A k \in 1..Combos[j] : Past(j, k) => fate[<<j, k>>] = "success"
    /\ Decided(j) => (results[j] = "failure" <=> failed[j])

\* Instances come one after the other.
CombosInv ==
  \A j \in Jobs :
    /\ pc[j] \in {"needs", "alive", "gate", "skip", "skipDone", "acquire"} => combo[j] = 1
    /\ results[j] = "skipped" => combo[j] = 1
    /\ pc[j] = "result" => combo[j] = Combos[j]

RowsInv ==
  \A j \in Jobs : \A k \in 1..Combos[j] :
    LET current == pc[j] = "exec" /\ k = combo[j] IN
    /\ Past(j, k) /\ <<j, k>> \notin unsaved => row[<<j, k>>] \in {"cancelled", fate[<<j, k>>]}
    /\ current => row[<<j, k>>] \in {"in_progress", "cancelled"}
    /\ ~Past(j, k) /\ ~current /\ (results[j] # "skipped" \/ k # 1) => row[<<j, k>>] = "none"
    /\ results[j] = "skipped" /\ k = 1 /\ pc[j] # "skipDone" /\ ~cancelled => row[<<j, k>>] = "skipped"

VerdictInv ==
  /\ verdict # "none" => \A j \in Jobs : pc[j] = "gone"
  /\ verdict \in {"success", "failure"} =>
       ~cancelled /\ (verdict = "failure" <=> \E j \in Jobs : results[j] = "failure")

-----------------------------------------------------------------------------
(* What the operators come to. *)

\* An accepted file gives every job at least one instance.
LEMMA CombosCounted ==
  ASSUME ir \in Files
  PROVE  Combos \in [Jobs -> Nat \ {0}] /\ IfFalse \subseteq Jobs
BY CIJobsAssumption DEF Combos, IfFalse

\* A job with a number up to its combinations is an instance.
LEMMA InstanceOf ==
  ASSUME NEW j \in Jobs, NEW k \in 1..Combos[j]
  PROVE  <<j, k>> \in Instances
BY DEF Instances

\* An instance is a job with a number up to its combinations.
LEMMA InstanceParts ==
  ASSUME NEW i \in Instances
  PROVE  i[1] \in Jobs /\ i[2] \in 1..Combos[i[1]] /\ i = <<i[1], i[2]>>
BY DEF Instances

\* Every job has a first instance.
LEMMA FirstInstance ==
  ASSUME ir \in Files, NEW j \in Jobs
  PROVE  <<j, 1>> \in Instances
BY CombosCounted, InstanceOf

\* A step of a job is of one file and is about that job alone: it leaves where the others
\* are, and their rows and results, alone; and no context that was cancelled revives.
LEMMA JobFrame ==
  ASSUME TypeOK, NEW j \in Jobs, JobStep(j)
  PROVE  /\ ir' = ir /\ fate' = fate /\ verdict' = verdict
         /\ cancelled => cancelled'
         /\ closed \subseteq closed'
         /\ \A m \in Jobs \ {j} :
              /\ pc'[m] = pc[m] /\ combo'[m] = combo[m] /\ failed'[m] = failed[m]
              /\ results'[m] = results[m]
              /\ m \in closed' => m \in closed
              /\ \A k \in 1..Combos[m] :
                   /\ row'[<<m, k>>] = row[<<m, k>>]
                   /\ <<m, k>> \in unsaved' <=> <<m, k>> \in unsaved
<1> USE DEF Goto
<1>0. \A m \in Jobs \ {j} : \A k \in 1..Combos[m] : <<m, k>> \in Instances
  BY InstanceOf
<1>1. CASE AwaitNeeds(j)
  BY <1>1 DEF AwaitNeeds, TypeOK
<1>2. CASE AwaitCancelled(j)
  BY <1>2 DEF AwaitCancelled, TypeOK
<1>3. CASE CheckAlive(j)
  BY <1>3 DEF CheckAlive, TypeOK
<1>4. CASE Gate(j)
  BY <1>4 DEF Gate, TypeOK
<1>5. CASE SkipCreate(j)
  BY <1>0, <1>5 DEF SkipCreate, TypeOK
<1>6. CASE SkipComplete(j)
  BY <1>0, <1>6 DEF SkipComplete, TypeOK
<1>7. CASE Acquire(j)
  BY <1>7 DEF Acquire, TypeOK
<1>8. CASE AcquireCancelled(j)
  BY <1>8 DEF AcquireCancelled, TypeOK
<1>9. CASE CreateInstance(j)
  BY <1>0, <1>9 DEF CreateInstance, TypeOK
<1>10. CASE InstanceNotCreated(j)
  BY <1>10 DEF InstanceNotCreated, TypeOK
<1>11. CASE RunInstance(j)
  BY <1>0, <1>11 DEF RunInstance, TypeOK
<1>12. CASE RecordResult(j)
  BY <1>12 DEF RecordResult, TypeOK
<1>13. CASE Release(j)
  BY <1>13 DEF Release, TypeOK
<1>14. CASE CloseDone(j)
  BY <1>14 DEF CloseDone, TypeOK
<1>15. QED
  BY <1>1, <1>2, <1>3, <1>4, <1>5, <1>6, <1>7, <1>8, <1>9, <1>10, <1>11, <1>12, <1>13, <1>14
     DEF JobStep

-----------------------------------------------------------------------------
(* Type correctness. *)

\* Initially everything is well typed and no slot is taken.
LEMMA InitType == Init => TypeOK /\ SlotsCounted
<1> SUFFICES ASSUME Init PROVE TypeOK /\ SlotsCounted
  OBVIOUS
<1>1. ir \in Files
  BY DEF Init
<1>2. Combos \in [Jobs -> Nat \ {0}]
  BY <1>1, CombosCounted
<1>3. Cardinality({}) = 0
  BY FS_EmptySet
<1>4. TypeOK
  <2>1. \A j \in Jobs : combo[j] \in 1..Combos[j]
    BY <1>2 DEF Init
  <2>2. sem \in 0..Parallel
    BY CIJobsAssumption DEF Init
  <2>3. fate \in [Instances -> {"success", "failure"}] /\ row \in [Instances -> RowStatus]
    BY DEF Init, RowStatus
  <2>4. /\ pc \in [Jobs -> JobPC] /\ combo \in [Jobs -> Nat] /\ failed \in [Jobs -> BOOLEAN]
        /\ results \in [Jobs -> Result]
    BY DEF Init, JobPC, Result
  <2>5. /\ closed = {} /\ mu = {} /\ unsaved = {} /\ cancelled = FALSE /\ verdict = "none"
    BY DEF Init
  <2>6. Cardinality(mu) <= 1
    BY <1>3, <2>5
  <2>7. QED
    BY <1>1, <2>1, <2>2, <2>3, <2>4, <2>5, <2>6 DEF TypeOK
<1>5. Holding = {}
  BY DEF Init, Holding
<1>6. QED
  BY <1>3, <1>4, <1>5 DEF SlotsCounted, Init

\* The slots that are taken can be counted.
LEMMA HoldingFinite == IsFiniteSet(Holding) /\ IsFiniteSet(Holding')
<1>1. Holding \subseteq Jobs /\ Holding' \subseteq Jobs
  BY DEF Holding
<1>2. QED
  BY <1>1, CIJobsAssumption, FS_Subset

\* The file of a run is fixed, and with it its instances.
LEMMA SameInstances ==
  ASSUME ir' = ir
  PROVE  Instances' = Instances /\ Combos' = Combos /\ Needs' = Needs /\ IfFalse' = IfFalse
BY DEF Instances, Combos, Needs, IfFalse

\* The semaphore counts: a job takes a slot by Acquire and gives it back by Release.
LEMMA JobSlots ==
  ASSUME TypeOK, SlotsCounted, NEW j \in Jobs, JobStep(j)
  PROVE  SlotsCounted' /\ sem' \in 0..Parallel
<1> USE DEF Goto
<1>1. IsFiniteSet(Holding) /\ SlotsCounted /\ sem \in 0..Parallel
  BY HoldingFinite DEF TypeOK
<1>2. ASSUME Holding' = Holding, sem' = sem
      PROVE  SlotsCounted' /\ sem' \in 0..Parallel
  BY <1>1, <1>2 DEF SlotsCounted
<1>3. CASE Acquire(j)
  <2>1. Holding' = Holding \union {j} /\ j \notin Holding
    BY <1>3 DEF Acquire, Holding, TypeOK
  <2>2. Cardinality(Holding') = Cardinality(Holding) + 1
    BY <1>1, <2>1, FS_AddElement
  <2>3. QED
    BY <1>1, <1>3, <2>2, CIJobsAssumption DEF Acquire, SlotsCounted
<1>4. CASE Release(j)
  <2>1. Holding' = Holding \ {j} /\ j \in Holding
    BY <1>4 DEF Release, Holding, TypeOK
  <2>2. Cardinality(Holding') = Cardinality(Holding) - 1 /\ Cardinality(Holding') \in Nat
    BY <1>1, <2>1, HoldingFinite, FS_RemoveElement, FS_CardinalityType
  <2>3. sem' = sem - 1
    BY <1>4 DEF Release
  <2>4. QED
    BY <1>1, <2>2, <2>3, CIJobsAssumption DEF SlotsCounted
<1>5. CASE AwaitNeeds(j)
  BY <1>2, <1>5 DEF AwaitNeeds, TypeOK, Holding
<1>6. CASE AwaitCancelled(j)
  BY <1>2, <1>6 DEF AwaitCancelled, TypeOK, Holding
<1>7. CASE CheckAlive(j)
  BY <1>2, <1>7 DEF CheckAlive, TypeOK, Holding
<1>8. CASE Gate(j)
  BY <1>2, <1>8 DEF Gate, TypeOK, Holding
<1>9. CASE SkipCreate(j)
  BY <1>2, <1>9 DEF SkipCreate, TypeOK, Holding
<1>10. CASE SkipComplete(j)
  BY <1>2, <1>10 DEF SkipComplete, TypeOK, Holding
<1>11. CASE AcquireCancelled(j)
  BY <1>2, <1>11 DEF AcquireCancelled, TypeOK, Holding
<1>12. CASE CreateInstance(j)
  BY <1>2, <1>12 DEF CreateInstance, TypeOK, Holding
<1>13. CASE InstanceNotCreated(j)
  BY <1>2, <1>13 DEF InstanceNotCreated, TypeOK, Holding
<1>14. CASE RunInstance(j)
  BY <1>2, <1>14 DEF RunInstance, TypeOK, Holding
<1>15. CASE RecordResult(j)
  BY <1>2, <1>15 DEF RecordResult, TypeOK, Holding
<1>16. CASE CloseDone(j)
  BY <1>2, <1>16 DEF CloseDone, TypeOK, Holding
<1>17. QED
  BY <1>3, <1>4, <1>5, <1>6, <1>7, <1>8, <1>9, <1>10, <1>11, <1>12, <1>13, <1>14, <1>15, <1>16
     DEF JobStep

\* A step of a job goroutine keeps everything well typed.
LEMMA JobStepType ==
  ASSUME TypeOK, SlotsCounted, NEW j \in Jobs, JobStep(j)
  PROVE  TypeOK'
<1> USE DEF Goto
<1>1. /\ ir' = ir /\ fate' = fate /\ verdict' = verdict /\ sem' \in 0..Parallel
      /\ Instances' = Instances /\ Combos' = Combos
  BY JobFrame, JobSlots, SameInstances
<1>2. /\ <<j, 1>> \in Instances /\ <<j, combo[j]>> \in Instances
      /\ Combos \in [Jobs -> Nat \ {0}] /\ combo[j] \in 1..Combos[j]
  BY FirstInstance, InstanceOf, CombosCounted DEF TypeOK
<1>3. Cardinality({}) <= 1 /\ Cardinality({j}) <= 1
  <2>1. Cardinality({}) = 0
    BY FS_EmptySet
  <2>2. Cardinality({j}) = 1
    BY FS_Singleton
  <2>3. QED
    BY <2>1, <2>2
<1>4. CASE AwaitNeeds(j)
  BY <1>1, <1>4 DEF AwaitNeeds, TypeOK, JobPC
<1>5. CASE AwaitCancelled(j)
  BY <1>1, <1>5 DEF AwaitCancelled, TypeOK, JobPC
<1>6. CASE CheckAlive(j)
  BY <1>1, <1>6 DEF CheckAlive, TypeOK, JobPC
<1>7. CASE Gate(j)
  BY <1>1, <1>7 DEF Gate, TypeOK, JobPC
<1>8. CASE SkipCreate(j)
  BY <1>1, <1>2, <1>3, <1>8 DEF SkipCreate, TypeOK, JobPC, Result, RowStatus
<1>9. CASE SkipComplete(j)
  BY <1>1, <1>2, <1>3, <1>9 DEF SkipComplete, TypeOK, JobPC, RowStatus
<1>10. CASE Acquire(j)
  BY <1>1, <1>10 DEF Acquire, TypeOK, JobPC
<1>11. CASE AcquireCancelled(j)
  BY <1>1, <1>11 DEF AcquireCancelled, TypeOK, JobPC
<1>12. CASE CreateInstance(j)
  BY <1>1, <1>2, <1>12 DEF CreateInstance, TypeOK, JobPC, RowStatus
<1>13. CASE InstanceNotCreated(j)
  BY <1>1, <1>13 DEF InstanceNotCreated, TypeOK, JobPC
<1>14. CASE RunInstance(j)
  <2>1. PICK outcome \in {"success", "failure"} :
          /\ failed' = [failed EXCEPT ![j] = @ \/ outcome = "failure"]
          /\ \/ /\ row' = [row EXCEPT ![<<j, combo[j]>>] = IF @ = "in_progress" THEN outcome ELSE @]
                /\ unsaved' = unsaved
             \/ unsaved' = unsaved \union {<<j, combo[j]>>} /\ row' = row
    BY <1>2, <1>14 DEF RunInstance, TypeOK
  <2>2. row' \in [Instances -> RowStatus] /\ unsaved' \subseteq Instances
    BY <1>2, <2>1 DEF TypeOK, RowStatus
  <2>3. failed' \in [Jobs -> BOOLEAN]
    BY <2>1 DEF TypeOK
  <2>4. combo' \in [Jobs -> Nat] /\ \A m \in Jobs : combo'[m] \in 1..Combos[m]
    BY <1>2, <1>14 DEF RunInstance, TypeOK
  <2>5. pc' \in [Jobs -> JobPC]
    BY <1>14 DEF RunInstance, TypeOK, JobPC
  <2>6. QED
    BY <1>1, <1>14, <2>2, <2>3, <2>4, <2>5 DEF RunInstance, TypeOK
<1>15. CASE RecordResult(j)
  BY <1>1, <1>15 DEF RecordResult, TypeOK, JobPC, Result
<1>16. CASE Release(j)
  BY <1>1, <1>16 DEF Release, TypeOK, JobPC
<1>17. CASE CloseDone(j)
  BY <1>1, <1>17 DEF CloseDone, TypeOK, JobPC
<1>18. QED
  BY <1>4, <1>5, <1>6, <1>7, <1>8, <1>9, <1>10, <1>11, <1>12, <1>13, <1>14, <1>15, <1>16, <1>17
     DEF JobStep

\* Every step keeps everything well typed and the slots counted.
LEMMA StepType == TypeOK /\ SlotsCounted /\ [Next]_vars => TypeOK' /\ SlotsCounted'
<1> SUFFICES ASSUME TypeOK, SlotsCounted, [Next]_vars PROVE TypeOK' /\ SlotsCounted'
  OBVIOUS
<1>1. ASSUME NEW j \in Jobs, JobStep(j)
      PROVE  TypeOK' /\ SlotsCounted'
  BY <1>1, JobSlots, JobStepType
<1>2. ASSUME Return \/ UserCancelsRows \/ UNCHANGED vars
      PROVE  SlotsCounted' /\ ir' = ir
  BY <1>2 DEF Return, UserCancelsRows, vars, SlotsCounted, Holding
<1>3. CASE Return
  BY <1>2, <1>3, SameInstances DEF Return, TypeOK
<1>4. CASE UserCancelsRows
  <2>1. row' \in [Instances -> RowStatus]
    BY <1>4 DEF UserCancelsRows, TypeOK, RowStatus
  <2>2. QED
    BY <1>2, <1>4, <2>1, SameInstances DEF UserCancelsRows, TypeOK
<1>5. CASE UNCHANGED vars
  BY <1>2, <1>5, SameInstances DEF vars, TypeOK
<1>6. QED
  BY <1>1, <1>2, <1>3, <1>4, <1>5 DEF Next, Returned

\* Every reachable state is well typed: in particular no more than Parallel slots are ever
\* taken and none is given back that was not, and mu has one holder at most.
THEOREM TypeCorrect == Spec => []TypeOK
<1>1. Spec => [](TypeOK /\ SlotsCounted)
  BY InitType, StepType, PTL DEF Spec
<1>2. QED
  BY <1>1, PTL

-----------------------------------------------------------------------------
(* What a job has seen of its needs, and NeedsHonored. *)

\* Initially no job has come further than its channels and results say.
LEMMA InitFlow == Init => FlowInv
<1> SUFFICES ASSUME Init PROVE FlowInv
  OBVIOUS
<1>1. \A j \in Jobs : Needs[j] \subseteq Jobs
  BY CIJobsAssumption DEF Init, Accepted, Ordered, Needs
<1>2. ResultsPlaced /\ closed = {j \in Jobs : pc[j] = "gone"}
  BY DEF Init, ResultsPlaced
<1>3. NeedsSeen
  BY DEF Init, NeedsSeen, Executing, Decided
<1>4. QED
  BY <1>1, <1>2, <1>3 DEF FlowInv

\* The closed channels are those of the goroutines that are gone.
LEMMA JobClosed ==
  ASSUME TypeOK, closed = {m \in Jobs : pc[m] = "gone"}, NEW j \in Jobs, JobStep(j)
  PROVE  /\ closed' = {m \in Jobs : pc'[m] = "gone"}
         /\ pc[j] # "gone"
<1> USE DEF Goto
<1>1. CASE CloseDone(j)
  BY <1>1 DEF CloseDone, TypeOK
<1>2. CASE AwaitNeeds(j) \/ AwaitCancelled(j) \/ CheckAlive(j) \/ Gate(j)
  BY <1>2 DEF AwaitNeeds, AwaitCancelled, CheckAlive, Gate, TypeOK
<1>3. CASE SkipCreate(j) \/ SkipComplete(j) \/ Acquire(j) \/ AcquireCancelled(j)
  BY <1>3 DEF SkipCreate, SkipComplete, Acquire, AcquireCancelled, TypeOK
<1>4. CASE CreateInstance(j) \/ InstanceNotCreated(j) \/ RecordResult(j) \/ Release(j)
  BY <1>4 DEF CreateInstance, InstanceNotCreated, RecordResult, Release, TypeOK
<1>5. CASE RunInstance(j)
  <2>1. pc[j] = "exec" /\ closed' = closed
    BY <1>5 DEF RunInstance
  <2>2. pc' = [pc EXCEPT ![j] = "next"] \/ pc' = [pc EXCEPT ![j] = "result"]
    BY <1>5 DEF RunInstance
  <2>3. QED
    BY <2>1, <2>2 DEF TypeOK
<1>6. QED
  BY <1>1, <1>2, <1>3, <1>4, <1>5 DEF JobStep

\* Results are written once, before the done channel closes.
LEMMA JobResults ==
  ASSUME TypeOK, ResultsPlaced, NEW j \in Jobs, JobStep(j)
  PROVE  /\ ResultsPlaced'
         /\ results[j] # "none" => results'[j] = results[j]
<1> USE DEF Goto
<1>1. \A m \in Jobs \ {j} : pc'[m] = pc[m] /\ results'[m] = results[m]
  BY JobFrame
<1>2. cancelled => cancelled'
  BY JobFrame
<1> DEFINE Placed(m) ==
      /\ results[m] # "none" => pc[m] \in {"skipDone", "release", "close", "gone"}
      /\ pc[m] = "skipDone" => results[m] = "skipped"
      /\ pc[m] = "release" => results[m] # "skipped"
      /\ pc[m] \in {"release", "close", "gone"} /\ results[m] = "none" => cancelled
<1>3. Placed(j)
  BY DEF ResultsPlaced
<1>4. Placed(j)' /\ (results[j] # "none" => results'[j] = results[j])
  <2>1. CASE AwaitNeeds(j) \/ AwaitCancelled(j) \/ CheckAlive(j) \/ Gate(j)
    BY <1>3, <2>1 DEF AwaitNeeds, AwaitCancelled, CheckAlive, Gate, TypeOK
  <2>2. CASE SkipCreate(j) \/ SkipComplete(j)
    BY <1>3, <2>2 DEF SkipCreate, SkipComplete, TypeOK
  <2>3. CASE Acquire(j) \/ AcquireCancelled(j) \/ CreateInstance(j)
    BY <1>3, <2>3 DEF Acquire, AcquireCancelled, CreateInstance, TypeOK
  <2>4. CASE InstanceNotCreated(j) \/ RunInstance(j) \/ RecordResult(j)
    BY <1>3, <2>4 DEF InstanceNotCreated, RunInstance, RecordResult, TypeOK
  <2>5. CASE Release(j) \/ CloseDone(j)
    BY <1>3, <2>5 DEF Release, CloseDone, TypeOK
  <2>6. QED
    BY <2>1, <2>2, <2>3, <2>4, <2>5 DEF JobStep
<1>5. QED
  BY <1>1, <1>2, <1>4 DEF ResultsPlaced

\* A step of a job goroutine keeps results and channels in line with its place.
LEMMA JobFlow ==
  ASSUME TypeOK, FlowInv, NEW j \in Jobs, JobStep(j)
  PROVE  FlowInv'
<1> USE DEF Goto
<1>1. /\ ir' = ir /\ closed \subseteq closed'
      /\ \A m \in Jobs \ {j} : pc'[m] = pc[m] /\ results'[m] = results[m]
  BY JobFrame
<1>2. Needs' = Needs /\ IfFalse' = IfFalse
  BY <1>1, SameInstances
<1>3. closed' = {m \in Jobs : pc'[m] = "gone"} /\ pc[j] # "gone"
  BY JobClosed DEF FlowInv
<1>4. ResultsPlaced' /\ (results[j] # "none" => results'[j] = results[j])
  BY JobResults DEF FlowInv
<1>5. \A n \in closed : results'[n] = results[n]
  BY <1>1, <1>3 DEF FlowInv, TypeOK
<1>6. \A m \in Jobs : Needs[m] \subseteq Jobs
  BY DEF FlowInv
<1> DEFINE Settled(m) == \A n \in Needs[m] : n \in closed /\ results[n] # "none"
           Seen(m) ==
      /\ pc[m] = "alive" => Needs[m] \subseteq closed
      /\ pc[m] \in {"gate", "skip", "acquire"} \union Executing \/ results[m] # "none" => Settled(m)
      /\ pc[m] = "skip" \/ results[m] = "skipped" => Barred(m)
      /\ pc[m] \in {"acquire"} \union Executing \/ Decided(m) => Cleared(m)
<1>7. \A m \in Jobs : Seen(m)
  BY DEF FlowInv, NeedsSeen
\* What is settled stays so.
<1>8. ASSUME NEW m \in Jobs, Settled(m)
      PROVE  Settled(m)' /\ (Barred(m) => Barred(m)') /\ (Cleared(m) => Cleared(m)')
  BY <1>1, <1>2, <1>5, <1>8 DEF Barred, Cleared
<1>9. ASSUME NEW m \in Jobs \ {j}
      PROVE  Seen(m)'
  BY <1>1, <1>2, <1>7, <1>8, <1>9 DEF Decided, Executing
<1>10. Seen(j)'
  <2>1. CASE AwaitNeeds(j)
    BY <1>2, <1>7, <1>8, <2>1 DEF AwaitNeeds, TypeOK, Decided, Executing
  <2>2. CASE AwaitCancelled(j) \/ AcquireCancelled(j)
    BY <1>2, <1>7, <1>8, <2>2 DEF AwaitCancelled, AcquireCancelled, TypeOK, Decided, Executing
  <2>3. CASE CheckAlive(j)
    <3>1. ASSUME ~cancelled, NEW n \in Needs[j]
          PROVE  results[n] # "none"
      BY <1>6, <1>7, <2>3, <3>1 DEF CheckAlive, FlowInv, ResultsPlaced
    <3>2. pc[j] = "alive" /\ pc'[j] \in {"close", "gate"} /\ results' = results /\ closed' = closed
      BY <2>3 DEF CheckAlive, TypeOK
    <3>3. cancelled => pc'[j] = "close"
      BY <2>3 DEF CheckAlive, TypeOK
    <3>4. results[j] = "none"
      BY <3>2 DEF FlowInv, ResultsPlaced
    <3>5. QED
      BY <1>2, <1>7, <3>1, <3>2, <3>3, <3>4 DEF Decided, Executing
  <2>4. CASE Gate(j)
    <3>1. pc[j] = "gate" /\ Settled(j) /\ results' = results /\ closed' = closed
      BY <1>7, <2>4 DEF Gate
    <3>2. \A n \in Needs[j] : results[n] # "success" => results[n] \in {"failure", "skipped"}
      BY <1>6, <3>1 DEF TypeOK, Result
    <3>3. pc'[j] = IF firstUnsatisfiedNeed(j) \/ j \in IfFalse THEN "skip" ELSE "acquire"
      BY <2>4 DEF Gate, TypeOK
    <3>4. results[j] = "none"
      BY <3>1 DEF FlowInv, ResultsPlaced
    <3>5. IF firstUnsatisfiedNeed(j) \/ j \in IfFalse THEN Barred(j) ELSE Cleared(j)
      BY <3>2 DEF firstUnsatisfiedNeed, Barred, Cleared
    <3>6. QED
      BY <1>8, <3>1, <3>3, <3>4, <3>5 DEF Decided, Executing
  <2>5. CASE SkipCreate(j)
    BY <1>2, <1>7, <1>8, <2>5 DEF SkipCreate, TypeOK, Decided, Executing
  <2>6. CASE SkipComplete(j) \/ Release(j) \/ CloseDone(j)
    BY <1>2, <1>7, <1>8, <2>6 DEF SkipComplete, Release, CloseDone, TypeOK, Decided, Executing
  <2>7. CASE Acquire(j) \/ CreateInstance(j)
    BY <1>2, <1>7, <1>8, <2>7 DEF Acquire, CreateInstance, TypeOK, Decided, Executing
  <2>8. CASE InstanceNotCreated(j)
    BY <1>2, <1>7, <1>8, <2>8 DEF InstanceNotCreated, TypeOK, Decided, Executing
  <2>9. CASE RunInstance(j)
    <3>1. pc[j] = "exec" /\ results' = results
      BY <2>9 DEF RunInstance
    <3>2. pc'[j] \in {"next", "result"}
      BY <2>9 DEF RunInstance, TypeOK
    <3>3. results[j] = "none"
      BY <3>1 DEF FlowInv, ResultsPlaced
    <3>4. Settled(j) /\ Cleared(j)
      BY <1>7, <3>1 DEF Executing
    <3>5. QED
      BY <1>8, <3>1, <3>2, <3>3, <3>4 DEF Decided, Executing
  <2>10. CASE RecordResult(j)
    BY <1>2, <1>7, <1>8, <2>10 DEF RecordResult, TypeOK, Decided, Executing
  <2>11. QED
    BY <2>1, <2>2, <2>3, <2>4, <2>5, <2>6, <2>7, <2>8, <2>9, <2>10 DEF JobStep
<1>11. NeedsSeen'
  BY <1>9, <1>10 DEF NeedsSeen
<1>12. QED
  BY <1>2, <1>3, <1>4, <1>6, <1>11 DEF FlowInv

\* Every step keeps results and channels in line with the places of the goroutines.
LEMMA StepFlow == TypeOK /\ FlowInv /\ [Next]_vars => FlowInv'
<1> SUFFICES ASSUME TypeOK, FlowInv, [Next]_vars PROVE FlowInv'
  OBVIOUS
<1>1. ASSUME NEW j \in Jobs, JobStep(j)
      PROVE  FlowInv'
  BY <1>1, JobFlow
<1>2. CASE Return \/ UserCancelsRows \/ UNCHANGED vars
  <2>1. /\ ir' = ir /\ pc' = pc /\ results' = results /\ closed' = closed
        /\ cancelled' = cancelled
    BY <1>2 DEF Return, UserCancelsRows, vars
  <2>2. Needs' = Needs /\ IfFalse' = IfFalse
    BY <2>1, SameInstances
  <2>3. ResultsPlaced'
    BY <2>1 DEF FlowInv, ResultsPlaced
  <2>4. NeedsSeen'
    BY <2>1, <2>2 DEF FlowInv, NeedsSeen, Decided, Barred, Cleared
  <2>5. QED
    BY <2>1, <2>2, <2>3, <2>4 DEF FlowInv
<1>3. QED
  BY <1>1, <1>2 DEF Next, Returned

\* Results and channels are always in line with the places of the goroutines.
LEMMA FlowCorrect == Spec => [](TypeOK /\ FlowInv)
BY TypeCorrect, InitFlow, StepFlow, PTL DEF Spec

\* No job executes, and none has come to a success or a failure, before each of its needs
\* recorded a success and closed its channel: the wait on the channels, the look at the
\* context after it and the gate under mu are together enough, in every schedule.
THEOREM NeedsAreHonored == Spec => []NeedsHonored
<1>1. FlowInv => NeedsHonored
  BY DEF FlowInv, NeedsSeen, NeedsHonored, Decided, Cleared, Executing
<1>2. QED
  BY <1>1, FlowCorrect, PTL

-----------------------------------------------------------------------------
(* What a job comes to, and ScheduleIndependent. *)

\* Initially no instance has come to anything.
LEMMA InitOutcome == Init => OutcomeInv /\ CombosInv
<1> SUFFICES ASSUME Init PROVE OutcomeInv /\ CombosInv
  OBVIOUS
<1>1. \A j \in Jobs : /\ pc[j] = "needs" /\ combo[j] = 1 /\ ~failed[j] /\ results[j] = "none"
                      /\ \A k \in 1..Combos[j] : ~(k < combo[j])
  BY DEF Init
<1>2. QED
  BY <1>1 DEF OutcomeInv, CombosInv, Past, Decided

\* A job goes through its instances one after the other.
LEMMA JobCombos ==
  ASSUME TypeOK, FlowInv, CombosInv, NEW j \in Jobs, JobStep(j)
  PROVE  CombosInv'
<1> USE DEF Goto
<1>1. /\ Combos' = Combos
      /\ \A m \in Jobs \ {j} : pc'[m] = pc[m] /\ combo'[m] = combo[m] /\ results'[m] = results[m]
  BY JobFrame, SameInstances
<1> DEFINE InOrder(m) ==
      /\ pc[m] \in {"needs", "alive", "gate", "skip", "skipDone", "acquire"} => combo[m] = 1
      /\ results[m] = "skipped" => combo[m] = 1
      /\ pc[m] = "result" => combo[m] = Combos[m]
<1>2. InOrder(j) /\ (results[j] # "none" => pc[j] \in {"skipDone", "release", "close", "gone"})
  BY DEF CombosInv, FlowInv, ResultsPlaced
<1>3. InOrder(j)'
  <2>1. CASE AwaitNeeds(j) \/ AwaitCancelled(j) \/ CheckAlive(j) \/ Gate(j)
    BY <1>2, <2>1 DEF AwaitNeeds, AwaitCancelled, CheckAlive, Gate, TypeOK
  <2>2. CASE SkipCreate(j) \/ SkipComplete(j)
    BY <1>2, <2>2 DEF SkipCreate, SkipComplete, TypeOK
  <2>3. CASE Acquire(j) \/ AcquireCancelled(j) \/ CreateInstance(j)
    BY <1>2, <2>3 DEF Acquire, AcquireCancelled, CreateInstance, TypeOK
  <2>4. CASE InstanceNotCreated(j) \/ RecordResult(j) \/ Release(j) \/ CloseDone(j)
    BY <1>2, <2>4 DEF InstanceNotCreated, RecordResult, Release, CloseDone, TypeOK
  <2>5. CASE RunInstance(j)
    <3>1. pc[j] = "exec" /\ results' = results /\ combo[j] \in 1..Combos[j]
      BY <2>5 DEF RunInstance, TypeOK
    <3>2. Combos[j] \in Nat
      BY CombosCounted DEF TypeOK
    <3>3. \/ pc'[j] = "next"
          \/ pc'[j] = "result" /\ ~(combo[j] < Combos[j]) /\ combo'[j] = combo[j]
      BY <2>5 DEF RunInstance, TypeOK
    <3>4. QED
      BY <1>1, <1>2, <3>1, <3>2, <3>3
  <2>6. QED
    BY <2>1, <2>2, <2>3, <2>4, <2>5 DEF JobStep
<1>4. QED
  BY <1>1, <1>3 DEF CombosInv

\* The instances a job is through with grow by one when an instance ends, and by none else
\* but where the job has all of them.
LEMMA JobPast ==
  ASSUME TypeOK, FlowInv, CombosInv, NEW j \in Jobs, JobStep(j), NEW m \in Jobs, NEW k \in 1..Combos[m]
  PROVE  /\ Past(m, k) => Past(m, k)'
         /\ Past(m, k)' => Past(m, k) \/ (RunInstance(j) /\ m = j /\ k = combo[j])
<1> USE DEF Goto
<1>1. m # j => pc'[m] = pc[m] /\ combo'[m] = combo[m] /\ results'[m] = results[m]
  BY JobFrame
<1>2. CASE m # j
  BY <1>1, <1>2 DEF Past, Decided
<1>3. CASE m = j
  <2>0. /\ combo[j] \in 1..Combos[j] /\ Combos[j] \in Nat /\ k \in 1..Combos[j]
        /\ results[j] # "none" => results'[j] = results[j]
    BY <1>3, CombosCounted, JobResults DEF TypeOK, FlowInv
  <2>1. CASE RunInstance(j)
    <3>1. pc[j] = "exec" /\ results' = results /\ ~Decided(j) /\ ~Decided(j)'
      BY <2>1 DEF RunInstance, FlowInv, ResultsPlaced, Decided
    <3>2. \/ /\ pc'[j] = "next" /\ combo'[j] = combo[j] + 1
          \/ /\ pc'[j] = "result" /\ combo'[j] = combo[j] /\ ~(combo[j] < Combos[j])
      BY <2>1 DEF RunInstance, TypeOK
    <3>3. QED
      BY <1>3, <2>0, <2>1, <3>1, <3>2 DEF Past
  <2>2. CASE RecordResult(j)
    BY <1>3, <2>0, <2>2 DEF RecordResult, Past, Decided, TypeOK
  <2>3. CASE AwaitNeeds(j) \/ AwaitCancelled(j) \/ CheckAlive(j) \/ Gate(j)
    BY <1>3, <2>3 DEF AwaitNeeds, AwaitCancelled, CheckAlive, Gate, TypeOK, Past, Decided
  <2>4. CASE SkipCreate(j) \/ SkipComplete(j)
    BY <1>3, <2>0, <2>4 DEF SkipCreate, SkipComplete, TypeOK, FlowInv, ResultsPlaced, Past, Decided
  <2>5. CASE Acquire(j) \/ AcquireCancelled(j) \/ CreateInstance(j)
    BY <1>3, <2>5 DEF Acquire, AcquireCancelled, CreateInstance, TypeOK, Past, Decided
  <2>6. CASE InstanceNotCreated(j) \/ Release(j) \/ CloseDone(j)
    BY <1>3, <2>6 DEF InstanceNotCreated, Release, CloseDone, TypeOK, Past, Decided
  <2>7. QED
    BY <2>1, <2>2, <2>3, <2>4, <2>5, <2>6 DEF JobStep
<1>4. QED
  BY <1>2, <1>3

\* What a job has come to so far is what its instances so far came to.
LEMMA JobOutcome ==
  ASSUME TypeOK, FlowInv, CombosInv, OutcomeInv, NEW j \in Jobs, JobStep(j)
  PROVE  OutcomeInv'
<1> USE DEF Goto
<1>1. /\ Combos' = Combos /\ fate' = fate /\ (cancelled => cancelled')
      /\ \A m \in Jobs \ {j} : failed'[m] = failed[m] /\ results'[m] = results[m]
  BY JobFrame, SameInstances
<1>2. results[j] # "none" => results'[j] = results[j]
  BY JobResults DEF FlowInv
<1> DEFINE Known(m) ==
      /\ failed[m] => Fails(m) \/ cancelled
      /\ ~failed[m] => \A k \in 1..Combos[m] : Past(m, k) => fate[<<m, k>>] = "success"
      /\ Decided(m) => (results[m] = "failure" <=> failed[m])
<1>3. \A m \in Jobs : Known(m)
  BY DEF OutcomeInv
<1>4. ASSUME NEW m \in Jobs \ {j}
      PROVE  Known(m)'
  <2>1. \A k \in 1..Combos[m] : Past(m, k)' => Past(m, k)
    BY JobPast, <1>4
  <2>2. QED
    BY <1>1, <1>3, <2>1 DEF Fails, Decided
<1>5. Known(j)'
  <2>1. CASE RunInstance(j)
    <3>1. PICK outcome \in {fate[<<j, combo[j]>>]} \union (IF cancelled THEN {"failure"} ELSE {}) :
            failed' = [failed EXCEPT ![j] = @ \/ outcome = "failure"]
      BY <2>1 DEF RunInstance
    <3>2. /\ combo[j] \in 1..Combos[j] /\ <<j, combo[j]>> \in Instances
          /\ fate[<<j, combo[j]>>] \in {"success", "failure"}
      BY InstanceOf DEF TypeOK
    <3>3. failed'[j] = (failed[j] \/ outcome = "failure")
      BY <3>1 DEF TypeOK
    <3>4. outcome = "failure" => Fails(j) \/ cancelled
      BY <3>1, <3>2 DEF Fails
    <3>5. outcome # "failure" => fate[<<j, combo[j]>>] = "success"
      BY <3>1, <3>2
    <3>6. ~Decided(j)'
      BY <2>1 DEF RunInstance, FlowInv, ResultsPlaced, Decided
    <3>7. \A k \in 1..Combos[j] : Past(j, k)' => Past(j, k) \/ k = combo[j]
      BY JobPast
    <3>8. Fails(j)' <=> Fails(j)
      BY <1>1 DEF Fails
    <3>9. QED
      BY <1>1, <1>3, <3>3, <3>4, <3>5, <3>6, <3>7, <3>8
  <2>2. CASE ~RunInstance(j)
    <3>1. failed' = failed
      BY <2>2 DEF JobStep, AwaitNeeds, AwaitCancelled, CheckAlive, Gate, SkipCreate, SkipComplete,
           Acquire, AcquireCancelled, CreateInstance, InstanceNotCreated, RecordResult, Release, CloseDone
    <3>2. \A k \in 1..Combos[j] : Past(j, k)' => Past(j, k)
      BY <2>2, JobPast
    <3>3. Decided(j)' /\ results[j] = "none" => (results'[j] = "failure" <=> failed[j])
      <4>1. CASE RecordResult(j)
        BY <4>1 DEF RecordResult, TypeOK, Result
      <4>2. CASE SkipCreate(j)
        BY <4>2 DEF SkipCreate, TypeOK, Decided
      <4>3. CASE results' = results
        BY <4>3 DEF Decided
      <4>4. QED
        BY <2>2, <4>1, <4>2, <4>3 DEF JobStep, AwaitNeeds, AwaitCancelled, CheckAlive, Gate,
           SkipComplete, Acquire, AcquireCancelled, CreateInstance, InstanceNotCreated, Release, CloseDone
    <3>4. Fails(j)' <=> Fails(j)
      BY <1>1 DEF Fails
    <3>5. QED
      BY <1>1, <1>2, <1>3, <3>1, <3>2, <3>3, <3>4 DEF Decided
  <2>3. QED
    BY <2>1, <2>2
<1>6. QED
  BY <1>4, <1>5 DEF OutcomeInv

\* Every step keeps the outcome of a job that of its instances.
LEMMA StepOutcome ==
  TypeOK /\ FlowInv /\ CombosInv /\ OutcomeInv /\ [Next]_vars => CombosInv' /\ OutcomeInv'
<1> SUFFICES ASSUME TypeOK, FlowInv, CombosInv, OutcomeInv, [Next]_vars
             PROVE  CombosInv' /\ OutcomeInv'
  OBVIOUS
<1>1. ASSUME NEW j \in Jobs, JobStep(j)
      PROVE  CombosInv' /\ OutcomeInv'
  BY <1>1, JobCombos, JobOutcome
<1>2. CASE Return \/ UserCancelsRows \/ UNCHANGED vars
  <2>1. /\ ir' = ir /\ pc' = pc /\ results' = results /\ combo' = combo /\ failed' = failed
        /\ fate' = fate /\ cancelled' = cancelled
    BY <1>2 DEF Return, UserCancelsRows, vars
  <2>2. Combos' = Combos
    BY <2>1, SameInstances
  <2>3. QED
    BY <2>1, <2>2 DEF CombosInv, OutcomeInv, Past, Decided, Fails
<1>3. QED
  BY <1>1, <1>2 DEF Next, Returned

\* The outcome of a job is always that of its instances.
LEMMA OutcomeCorrect == Spec => [](TypeOK /\ FlowInv /\ CombosInv /\ OutcomeInv)
BY FlowCorrect, InitOutcome, StepOutcome, PTL DEF Spec

\* Fails says of a job what the properties say of its instances.
LEMMA FailsMeans ==
  ASSUME NEW j \in Jobs
  PROVE  Fails(j) <=> \E i \in Instances : i[1] = j /\ fate[i] = "failure"
<1>1. ASSUME Fails(j)
      PROVE  \E i \in Instances : i[1] = j /\ fate[i] = "failure"
  <2>1. PICK k \in 1..Combos[j] : fate[<<j, k>>] = "failure"
    BY <1>1 DEF Fails
  <2>2. <<j, k>> \in Instances /\ <<j, k>>[1] = j
    BY InstanceOf
  <2>3. QED
    BY <2>1, <2>2
<1>2. ASSUME NEW i \in Instances, i[1] = j, fate[i] = "failure"
      PROVE  Fails(j)
  BY <1>2, InstanceParts DEF Fails
<1>3. QED
  BY <1>1, <1>2

\* A success comes of steps that succeed, a failure of steps that fail or of a fatal error.
LEMMA DecidedResult ==
  ASSUME TypeOK, FlowInv, CombosInv, OutcomeInv, NEW j \in Jobs
  PROVE  /\ results[j] = "success" => ~Fails(j)
         /\ results[j] = "failure" => Fails(j) \/ cancelled
<1>1. results[j] = "success" => \A k \in 1..Combos[j] : fate[<<j, k>>] = "success"
  BY DEF OutcomeInv, Decided, Past
<1>2. results[j] = "failure" => failed[j]
  BY DEF OutcomeInv, Decided
<1>3. QED
  BY <1>1, <1>2 DEF OutcomeInv, Fails

\* Whatever the schedule and whatever fails beside it, a job that is skipped is so for its own
\* condition or for a need that came to a failure or a skip, and one that comes to a success
\* or a failure is what its steps come to, or was killed by a fatal error.
THEOREM ScheduleDoesNotDecide == Spec => []ScheduleIndependent
<1>1. TypeOK /\ FlowInv /\ CombosInv /\ OutcomeInv => ScheduleIndependent
  <2> SUFFICES ASSUME TypeOK, FlowInv, CombosInv, OutcomeInv, NEW j \in Jobs
               PROVE  /\ results[j] = "skipped" => Barred(j)
                      /\ Decided(j) => ~Barred(j)
                      /\ results[j] = "success" => ~Fails(j)
                      /\ results[j] = "failure" => Fails(j) \/ cancelled
    BY FailsMeans DEF ScheduleIndependent, Barred, Decided
  <2>1. results[j] = "skipped" => Barred(j)
    BY DEF FlowInv, NeedsSeen
  <2>2. Decided(j) => ~Barred(j)
    BY DEF FlowInv, NeedsSeen, Cleared, Barred
  <2>3. QED
    BY <2>1, <2>2, DecidedResult
<1>2. QED
  BY <1>1, OutcomeCorrect, PTL

-----------------------------------------------------------------------------
(* The verdict, and VerdictOfJobs. *)

\* The verdict follows the results of the jobs in every step.
LEMMA StepVerdict ==
  TypeOK /\ FlowInv /\ VerdictInv /\ [Next]_vars => VerdictInv'
<1> SUFFICES ASSUME TypeOK, FlowInv, VerdictInv, [Next]_vars PROVE VerdictInv'
  OBVIOUS
<1>1. ASSUME NEW j \in Jobs, JobStep(j)
      PROVE  VerdictInv'
  <2>1. verdict' = verdict /\ pc[j] # "gone"
    BY <1>1, JobFrame, JobClosed DEF FlowInv
  <2>2. QED
    BY <2>1 DEF VerdictInv
<1>2. CASE Return
  BY <1>2 DEF Return, VerdictInv, TypeOK
<1>3. CASE UserCancelsRows \/ UNCHANGED vars
  BY <1>3 DEF UserCancelsRows, vars, VerdictInv
<1>4. QED
  BY <1>1, <1>2, <1>3 DEF Next, Returned

\* The verdict always follows the results of the jobs.
LEMMA VerdictCorrect == Spec => []VerdictInv
<1>1. Init => VerdictInv
  BY DEF Init, VerdictInv
<1>2. QED
  BY <1>1, FlowCorrect, StepVerdict, PTL DEF Spec

\* A run that gets a verdict had every job decided, and the verdict is a failure exactly if
\* the steps of a job that was not skipped fail.
THEOREM VerdictIsOfJobs == Spec => []VerdictOfJobs
<1>1. TypeOK /\ FlowInv /\ CombosInv /\ OutcomeInv /\ VerdictInv => VerdictOfJobs
  <2> SUFFICES ASSUME TypeOK, FlowInv, CombosInv, OutcomeInv, VerdictInv,
                      verdict \in {"success", "failure"}
               PROVE  /\ \A j \in Jobs : results[j] # "none"
                      /\ verdict = "failure" <=> \E j \in Jobs : results[j] # "skipped" /\ Fails(j)
    BY FailsMeans DEF VerdictOfJobs
  <2>1. \A j \in Jobs : pc[j] = "gone" /\ ~cancelled
    BY DEF VerdictInv
  <2>2. \A j \in Jobs : results[j] # "none"
    BY <2>1 DEF FlowInv, ResultsPlaced
  <2>3. \A j \in Jobs : results[j] = "failure" <=> results[j] # "skipped" /\ Fails(j)
    BY <2>1, <2>2, DecidedResult DEF TypeOK, Result
  <2>4. QED
    BY <2>2, <2>3 DEF VerdictInv
<1>2. QED
  BY <1>1, OutcomeCorrect, VerdictCorrect, PTL

-----------------------------------------------------------------------------
(* The rows, and RowsSettled. *)

\* Initially there is no job row.
LEMMA InitRows == Init => RowsInv
<1> SUFFICES ASSUME Init, NEW j \in Jobs, NEW k \in 1..Combos[j]
             PROVE  /\ pc[j] = "needs" /\ results[j] = "none" /\ ~Past(j, k)
                    /\ row[<<j, k>>] = "none"
  BY DEF RowsInv
<1>1. row[<<j, k>>] = "none"
  BY InstanceOf DEF Init
<1>2. QED
  BY <1>1 DEF Init, Past, Decided

\* A step of a job goroutine leaves no row behind that is not settled.
LEMMA JobRows ==
  ASSUME TypeOK, FlowInv, CombosInv, RowsInv, NEW j \in Jobs, JobStep(j)
  PROVE  RowsInv'
<1> USE DEF Goto
<1>0. Combos' = Combos /\ Instances' = Instances /\ fate' = fate /\ (cancelled => cancelled')
  BY JobFrame, SameInstances
<1>1. \A m \in Jobs \ {j} :
        /\ pc'[m] = pc[m] /\ combo'[m] = combo[m] /\ results'[m] = results[m]
        /\ \A k \in 1..Combos[m] :
             /\ row'[<<m, k>>] = row[<<m, k>>]
             /\ <<m, k>> \in unsaved' <=> <<m, k>> \in unsaved
  BY JobFrame
<1> DEFINE Current(m, k) == pc[m] = "exec" /\ k = combo[m]
           Settled(m, k) ==
      /\ Past(m, k) /\ <<m, k>> \notin unsaved => row[<<m, k>>] \in {"cancelled", fate[<<m, k>>]}
      /\ Current(m, k) => row[<<m, k>>] \in {"in_progress", "cancelled"}
      /\ ~Past(m, k) /\ ~Current(m, k) /\ (results[m] # "skipped" \/ k # 1) => row[<<m, k>>] = "none"
      /\ results[m] = "skipped" /\ k = 1 /\ pc[m] # "skipDone" /\ ~cancelled
           => row[<<m, k>>] = "skipped"
<1>2. \A m \in Jobs : \A k \in 1..Combos[m] : Settled(m, k)
  BY DEF RowsInv
<1>3. ASSUME NEW m \in Jobs \ {j}, NEW k \in 1..Combos[m]
      PROVE  Settled(m, k)'
  <2>1. Past(m, k)' <=> Past(m, k)
    BY <1>1 DEF Past, Decided
  <2>2. QED
    BY <1>0, <1>1, <1>2, <2>1
<1>4. ASSUME NEW k \in 1..Combos[j]
      PROVE  Settled(j, k)'
  <2>1. /\ Settled(j, k) /\ <<j, k>> \in Instances /\ row[<<j, k>>] \in RowStatus
        /\ <<j, combo[j]>> \in Instances /\ <<j, 1>> \in Instances /\ combo[j] \in Nat
        /\ results[j] # "none" => results'[j] = results[j]
    BY <1>2, InstanceOf, FirstInstance, JobResults DEF TypeOK, FlowInv
  <2>2. /\ Past(j, k) => Past(j, k)'
        /\ Past(j, k)' => Past(j, k) \/ (RunInstance(j) /\ k = combo[j])
    BY JobPast
  <2>3. /\ pc[j] \in {"needs", "alive", "gate", "skip", "skipDone", "acquire"} => combo[j] = 1
        /\ results[j] # "none" => pc[j] \in {"skipDone", "release", "close", "gone"}
        /\ pc[j] = "skipDone" => results[j] = "skipped"
        /\ results[j] = "skipped" => combo[j] = 1
    BY DEF CombosInv, FlowInv, ResultsPlaced
  <2>4. CASE AwaitNeeds(j) \/ AwaitCancelled(j) \/ CheckAlive(j) \/ Gate(j)
    <3>1. row' = row /\ unsaved' = unsaved /\ results' = results /\ cancelled' = cancelled
      BY <2>4 DEF AwaitNeeds, AwaitCancelled, CheckAlive, Gate
    <3>2. pc[j] \in {"needs", "alive", "gate"} /\ pc'[j] \in {"alive", "close", "gate", "skip", "acquire"}
      BY <2>4 DEF AwaitNeeds, AwaitCancelled, CheckAlive, Gate, TypeOK
    <3>3. ~RunInstance(j)
      BY <3>2 DEF RunInstance
    <3>4. results[j] = "none" /\ ~Current(j, k) /\ ~Current(j, k)'
      BY <2>3, <3>2
    <3>5. Past(j, k)' <=> Past(j, k)
      BY <2>2, <3>3
    <3>6. QED
      BY <1>0, <2>1, <3>1, <3>4, <3>5
  <2>5. CASE SkipCreate(j)
    <3>1. /\ pc[j] = "skip" /\ unsaved' = unsaved /\ combo' = combo /\ results'[j] = "skipped"
          /\ k # 1 => row'[<<j, k>>] = row[<<j, k>>]
      BY <2>1, <2>5 DEF SkipCreate, TypeOK
    <3>2. pc'[j] = "skipDone" \/ (pc'[j] = "close" /\ cancelled')
      BY <2>5 DEF SkipCreate, TypeOK
    <3>3. ~Past(j, k) /\ ~Past(j, k)' /\ ~Current(j, k) /\ ~Current(j, k)' /\ results[j] = "none"
      BY <2>3, <3>1, <3>2 DEF Past, Decided
    <3>4. QED
      BY <2>1, <3>1, <3>2, <3>3
  <2>6. CASE SkipComplete(j)
    <3>1. /\ pc[j] = "skipDone" /\ pc'[j] = "close" /\ unsaved' = unsaved /\ combo' = combo
          /\ results' = results
          /\ k # 1 => row'[<<j, k>>] = row[<<j, k>>]
      BY <2>1, <2>6 DEF SkipComplete, TypeOK
    <3>2. row'[<<j, 1>>] = "skipped" \/ cancelled'
      BY <2>1, <2>6 DEF SkipComplete, TypeOK
    <3>3. ~Past(j, k) /\ ~Past(j, k)' /\ ~Current(j, k) /\ ~Current(j, k)' /\ results[j] = "skipped"
      BY <2>3, <3>1 DEF Past, Decided
    <3>4. QED
      BY <2>1, <3>1, <3>2, <3>3
  <2>7. CASE Acquire(j) \/ AcquireCancelled(j) \/ InstanceNotCreated(j)
    <3>1. /\ row' = row /\ unsaved' = unsaved /\ results' = results
          /\ pc[j] \in {"acquire", "next"} /\ pc'[j] \in {"next", "close", "release"}
      BY <2>7 DEF Acquire, AcquireCancelled, InstanceNotCreated, TypeOK
    <3>2. results[j] = "none" /\ ~Current(j, k) /\ ~Current(j, k)'
      BY <2>3, <3>1
    <3>3. Past(j, k)' <=> Past(j, k)
      BY <2>2, <3>1 DEF RunInstance
    <3>4. QED
      BY <1>0, <2>1, <3>1, <3>2, <3>3
  <2>8. CASE CreateInstance(j)
    <3>1. /\ unsaved' = unsaved /\ results' = results /\ combo' = combo
          /\ pc[j] = "next" /\ pc'[j] = "exec"
          /\ row'[<<j, k>>] = IF k = combo[j] THEN "in_progress" ELSE row[<<j, k>>]
      BY <2>1, <2>8 DEF CreateInstance, TypeOK
    <3>2. results[j] = "none" /\ ~Current(j, k) /\ (Current(j, k)' <=> k = combo[j])
      BY <2>3, <3>1
    <3>3. (Past(j, k)' <=> Past(j, k)) /\ (k = combo[j] => ~Past(j, k))
      BY <2>1, <2>2, <3>1, <3>2 DEF RunInstance, Past, Decided
    <3>4. QED
      BY <1>0, <2>1, <3>1, <3>2, <3>3
  <2>9. CASE RunInstance(j)
    <3>1. results' = results /\ pc[j] = "exec" /\ pc'[j] \in {"next", "result"}
      BY <2>9 DEF RunInstance, TypeOK
    <3>2. results[j] = "none" /\ (Current(j, k) <=> k = combo[j]) /\ ~Current(j, k)'
      BY <2>3, <3>1
    <3>3. k # combo[j] => row'[<<j, k>>] = row[<<j, k>>] /\ (<<j, k>> \in unsaved' <=> <<j, k>> \in unsaved)
      BY <2>1, <2>9 DEF RunInstance, TypeOK
    <3>4. k = combo[j] /\ <<j, k>> \notin unsaved' => row'[<<j, k>>] \in {"cancelled", fate[<<j, k>>]}
      <4> SUFFICES ASSUME k = combo[j], <<j, k>> \notin unsaved'
                   PROVE  row'[<<j, k>>] \in {"cancelled", fate[<<j, k>>]}
        OBVIOUS
      <4>1. ~cancelled /\ row' = [row EXCEPT ![<<j, k>>] = IF @ = "in_progress" THEN fate[<<j, k>>] ELSE @]
        BY <2>9 DEF RunInstance
      <4>2. row[<<j, k>>] \in {"in_progress", "cancelled"}
        BY <2>1, <3>2
      <4>3. QED
        BY <2>1, <4>1, <4>2 DEF TypeOK
    <3>5. k = combo[j] => Past(j, k)'
      <4>1. pc'[j] = "result" \/ combo'[j] = combo[j] + 1
        BY <2>9 DEF RunInstance, TypeOK
      <4>2. QED
        BY <2>1, <4>1 DEF Past
    <3>6. CASE k = combo[j]
      BY <1>0, <3>1, <3>2, <3>4, <3>5, <3>6
    <3>7. CASE k # combo[j]
      <4>1. Past(j, k)' <=> Past(j, k)
        BY <2>2, <3>7
      <4>2. QED
        BY <1>0, <2>1, <3>1, <3>2, <3>3, <3>7, <4>1
    <3>8. QED
      BY <3>6, <3>7
  <2>10. CASE RecordResult(j)
    <3>1. /\ row' = row /\ unsaved' = unsaved /\ pc[j] = "result" /\ pc'[j] = "release"
          /\ results'[j] \in {"success", "failure"}
      BY <2>10 DEF RecordResult, TypeOK
    <3>2. Past(j, k) /\ Past(j, k)'
      BY <3>1 DEF Past, Decided
    <3>3. QED
      BY <1>0, <2>1, <3>1, <3>2
  <2>11. CASE Release(j) \/ CloseDone(j)
    <3>1. /\ row' = row /\ unsaved' = unsaved /\ results' = results /\ cancelled' = cancelled
          /\ pc[j] \in {"release", "close"} /\ pc'[j] \in {"close", "gone"}
      BY <2>11 DEF Release, CloseDone, TypeOK
    <3>2. (Past(j, k)' <=> Past(j, k)) /\ ~Current(j, k) /\ ~Current(j, k)'
      BY <2>2, <3>1 DEF RunInstance
    <3>3. QED
      BY <1>0, <2>1, <3>1, <3>2
  <2>12. QED
    BY <2>4, <2>5, <2>6, <2>7, <2>8, <2>9, <2>10, <2>11 DEF JobStep
<1>5. ASSUME NEW m \in Jobs, NEW k \in 1..Combos[m]
      PROVE  Settled(m, k)'
  BY <1>3, <1>4
<1> HIDE DEF Settled
<1>6. \A m \in Jobs : \A k \in 1..Combos'[m] : Settled(m, k)'
  BY <1>0, <1>5
<1>7. QED
  BY <1>6 DEF RowsInv, Settled

\* A user cancels rows that are in progress, wherever their jobs are.
LEMMA UserRows ==
  ASSUME TypeOK, RowsInv, UserCancelsRows
  PROVE  RowsInv'
<1>1. /\ ir' = ir /\ pc' = pc /\ results' = results /\ combo' = combo /\ fate' = fate
      /\ unsaved' = unsaved /\ cancelled' = cancelled
  BY DEF UserCancelsRows
<1>2. Combos' = Combos
  BY <1>1, SameInstances
<1>3. ASSUME NEW j \in Jobs, NEW k \in 1..Combos[j]
      PROVE  row'[<<j, k>>] = IF row[<<j, k>>] = "in_progress" THEN "cancelled" ELSE row[<<j, k>>]
  BY InstanceOf DEF UserCancelsRows, TypeOK
<1>4. ASSUME NEW j \in Jobs, NEW k \in 1..Combos[j]
      PROVE  Past(j, k)' <=> Past(j, k)
  BY <1>1 DEF Past, Decided
<1>5. ASSUME NEW j \in Jobs, NEW k \in 1..Combos[j]
      PROVE  fate[<<j, k>>] \in {"success", "failure"}
  BY InstanceOf DEF TypeOK
<1> DEFINE Settled(j, k) ==
      LET current == pc[j] = "exec" /\ k = combo[j] IN
      /\ Past(j, k) /\ <<j, k>> \notin unsaved => row[<<j, k>>] \in {"cancelled", fate[<<j, k>>]}
      /\ current => row[<<j, k>>] \in {"in_progress", "cancelled"}
      /\ ~Past(j, k) /\ ~current /\ (results[j] # "skipped" \/ k # 1) => row[<<j, k>>] = "none"
      /\ results[j] = "skipped" /\ k = 1 /\ pc[j] # "skipDone" /\ ~cancelled
           => row[<<j, k>>] = "skipped"
<1>6. ASSUME NEW j \in Jobs, NEW k \in 1..Combos[j]
      PROVE  Settled(j, k)'
  <2>1. Settled(j, k)
    BY DEF RowsInv
  <2>2. QED
    BY <1>1, <1>3, <1>4, <1>5, <2>1
<1> HIDE DEF Settled
<1>7. \A j \in Jobs : \A k \in 1..Combos'[j] : Settled(j, k)'
  BY <1>2, <1>6
<1>8. QED
  BY <1>7 DEF RowsInv, Settled

\* No step leaves a row behind that is not settled.
LEMMA StepRows == TypeOK /\ FlowInv /\ CombosInv /\ RowsInv /\ [Next]_vars => RowsInv'
<1> SUFFICES ASSUME TypeOK, FlowInv, CombosInv, RowsInv, [Next]_vars PROVE RowsInv'
  OBVIOUS
<1>1. ASSUME NEW j \in Jobs, JobStep(j)
      PROVE  RowsInv'
  BY <1>1, JobRows
<1>2. CASE Return \/ UNCHANGED vars
  <2>1. /\ ir' = ir /\ pc' = pc /\ results' = results /\ combo' = combo /\ fate' = fate
        /\ unsaved' = unsaved /\ cancelled' = cancelled /\ row' = row
    BY <1>2 DEF Return, vars
  <2>2. Combos' = Combos
    BY <2>1, SameInstances
  <2>3. QED
    BY <2>1, <2>2 DEF RowsInv, Past, Decided
<1>3. QED
  BY <1>1, <1>2, UserRows DEF Next, Returned

\* The rows behind a job are always settled.
LEMMA RowsCorrect == Spec => []RowsInv
BY InitRows, StepRows, OutcomeCorrect, PTL DEF Spec

\* When a run gets a verdict no job row is left in progress: each instance has the outcome of
\* its steps, or was skipped with its job, or cancelled by a user, but for those whose outcome
\* the database refused.
THEOREM RowsAreSettled == Spec => []RowsSettled
<1>1. TypeOK /\ FlowInv /\ CombosInv /\ OutcomeInv /\ VerdictInv /\ RowsInv => RowsSettled
  <2> SUFFICES ASSUME TypeOK, FlowInv, CombosInv, OutcomeInv, VerdictInv, RowsInv,
                      verdict \in {"success", "failure"}, NEW i \in Instances \ unsaved
               PROVE  \/ row[i] \in {"cancelled", fate[i]}
                      \/ results[i[1]] = "skipped" /\ row[i] \in {"skipped", "none"}
    BY DEF RowsSettled
  <2>0. PICK j \in Jobs : \E k \in 1..Combos[j] : i = <<j, k>>
    BY InstanceParts
  <2>1. PICK k \in 1..Combos[j] : i = <<j, k>>
    BY <2>0
  <2>2. ~cancelled /\ pc[j] = "gone" /\ results[j] # "none"
    BY DEF VerdictInv, FlowInv, ResultsPlaced
  <2>3. CASE Decided(j)
    <3>1. Past(j, k)
      BY <2>3 DEF Past
    <3>2. QED
      BY <2>1, <3>1 DEF RowsInv
  <2>4. CASE results[j] = "skipped"
    <3>1. ~Past(j, k) /\ pc[j] # "exec" /\ pc[j] # "skipDone"
      BY <2>2, <2>4 DEF Past, Decided, CombosInv
    <3>2. row[<<j, k>>] \in {"skipped", "none"}
      <4>1. CASE k = 1
        BY <2>2, <2>4, <3>1, <4>1 DEF RowsInv
      <4>2. CASE k # 1
        BY <3>1, <4>2 DEF RowsInv
      <4>3. QED
        BY <4>1, <4>2
    <3>3. i[1] = j
      BY <2>1
    <3>4. QED
      BY <2>1, <2>4, <3>2, <3>3
  <2>5. QED
    BY <2>2, <2>3, <2>4 DEF TypeOK, Result, Decided
<1>2. QED
  BY <1>1, OutcomeCorrect, VerdictCorrect, RowsCorrect, PTL

-----------------------------------------------------------------------------
(* The goroutines as an executor of CIRuns: ImplementsExecutor.            *)

\* What the steps' images need besides: one job at a time holds mu, its row is there while it
\* does, and a job at its first instance has not failed yet.
BoardInv ==
  /\ mu = {j \in Jobs : pc[j] = "skipDone"}
  /\ \A j \in Jobs :
       /\ pc[j] = "skipDone" => row[<<j, 1>>] \in {"in_progress", "cancelled"}
       /\ pc[j] \in {"needs", "alive", "gate", "skip", "skipDone", "acquire", "next", "exec"}
            /\ combo[j] = 1 => ~failed[j]

\* Initially nobody holds mu and no row is in between.
LEMMA InitBoard == Init => BoardInv
BY DEF Init, BoardInv

\* A step of a job goroutine keeps what the images of its steps need.
LEMMA JobBoard ==
  ASSUME TypeOK, FlowInv, CombosInv, BoardInv, NEW j \in Jobs, JobStep(j)
  PROVE  BoardInv'
<1> USE DEF Goto
<1>1. \A m \in Jobs \ {j} : pc'[m] = pc[m] /\ combo'[m] = combo[m] /\ failed'[m] = failed[m]
  BY JobFrame
<1>2. \A m \in Jobs \ {j} : row'[<<m, 1>>] = row[<<m, 1>>]
  <2>1. \A m \in Jobs : 1 \in 1..Combos[m]
    BY CombosCounted DEF TypeOK
  <2>2. QED
    BY <2>1, JobFrame
<1> DEFINE Fresh(m) ==
      /\ pc[m] = "skipDone" => row[<<m, 1>>] \in {"in_progress", "cancelled"}
      /\ pc[m] \in {"needs", "alive", "gate", "skip", "skipDone", "acquire", "next", "exec"}
           /\ combo[m] = 1 => ~failed[m]
           Held == mu' = {m \in Jobs : pc'[m] = "skipDone"}
<1>3. \A m \in Jobs : Fresh(m)
  BY DEF BoardInv
<1>4. <<j, 1>> \in Instances /\ combo[j] \in 1..Combos[j]
  BY FirstInstance DEF TypeOK
<1>5. Fresh(j)' /\ Held
  <2>1. CASE AwaitNeeds(j) \/ AwaitCancelled(j) \/ CheckAlive(j) \/ Gate(j)
    BY <1>3, <2>1 DEF AwaitNeeds, AwaitCancelled, CheckAlive, Gate, TypeOK, BoardInv
  <2>2. CASE SkipCreate(j)
    BY <1>3, <1>4, <2>2 DEF SkipCreate, TypeOK, BoardInv
  <2>3. CASE SkipComplete(j)
    <3>1. pc[j] = "skipDone" /\ mu' = {} /\ pc' = [pc EXCEPT ![j] = "close"]
      BY <2>3 DEF SkipComplete
    <3>2. mu = {j}
      <4>1. j \in mu
        BY <3>1 DEF BoardInv
      <4>2. Cardinality(mu) <= 1 /\ mu \subseteq Jobs
        BY DEF TypeOK
      <4>3. IsFiniteSet(mu)
        BY <4>2, CIJobsAssumption, FS_Subset
      <4>4. Cardinality(mu) = 1
        BY <4>1, <4>2, <4>3, FS_EmptySet, FS_CardinalityType
      <4>5. \E x : mu = {x}
        BY <4>3, <4>4, FS_Singleton
      <4>6. QED
        BY <4>1, <4>5
    <3>3. QED
      BY <3>1, <3>2 DEF TypeOK, BoardInv
  <2>4. CASE Acquire(j) \/ AcquireCancelled(j) \/ CreateInstance(j)
    BY <1>3, <1>4, <2>4 DEF Acquire, AcquireCancelled, CreateInstance, TypeOK, BoardInv
  <2>5. CASE InstanceNotCreated(j) \/ RecordResult(j) \/ Release(j) \/ CloseDone(j)
    BY <1>3, <2>5 DEF InstanceNotCreated, RecordResult, Release, CloseDone, TypeOK, BoardInv
  <2>6. CASE RunInstance(j)
    <3>1. pc[j] = "exec" /\ mu' = mu
      BY <2>6 DEF RunInstance
    <3>2. \/ pc' = [pc EXCEPT ![j] = "result"]
          \/ pc' = [pc EXCEPT ![j] = "next"] /\ combo'[j] = combo[j] + 1
      BY <2>6 DEF RunInstance, TypeOK
    <3>3. QED
      BY <1>4, <3>1, <3>2 DEF TypeOK, BoardInv
  <2>7. QED
    BY <2>1, <2>2, <2>3, <2>4, <2>5, <2>6 DEF JobStep
<1>6. QED
  BY <1>1, <1>2, <1>3, <1>5 DEF BoardInv

\* Every step keeps what the images of the steps need.
LEMMA StepBoard == TypeOK /\ FlowInv /\ CombosInv /\ BoardInv /\ [Next]_vars => BoardInv'
<1> SUFFICES ASSUME TypeOK, FlowInv, CombosInv, BoardInv, [Next]_vars PROVE BoardInv'
  OBVIOUS
<1>1. ASSUME NEW j \in Jobs, JobStep(j)
      PROVE  BoardInv'
  BY <1>1, JobBoard
<1>2. CASE UserCancelsRows
  <2>1. \A j \in Jobs : <<j, 1>> \in Instances
    BY FirstInstance DEF TypeOK
  <2>2. QED
    BY <1>2, <2>1 DEF UserCancelsRows, BoardInv, TypeOK
<1>3. CASE Return \/ UNCHANGED vars
  BY <1>3 DEF Return, vars, BoardInv
<1>4. QED
  BY <1>1, <1>2, <1>3 DEF Next, Returned

\* What the images of the steps need is always there.
LEMMA BoardCorrect == Spec => []BoardInv
BY InitBoard, StepBoard, OutcomeCorrect, PTL DEF Spec

\* Where CIRuns takes a job to be, without the row of a job that was not skipped.
LEMMA TaskBefore ==
  ASSUME NEW j \in Jobs, pc[j] \in {"needs", "alive", "gate", "skip", "acquire", "next"}
  PROVE  TaskOf(j) = "waiting"
BY DEF TaskOf

\* The image of a job that is over is its result, or dropped if it left no trace.
LEMMA TaskAfter ==
  ASSUME NEW j \in Jobs, pc[j] \in {"release", "close", "gone"}
  PROVE  TaskOf(j) = IF results[j] = "none" \/ (results[j] = "skipped" /\ row[<<j, 1>>] = "none")
                     THEN "dropped" ELSE results[j]
BY DEF TaskOf

\* What CIRuns sees of the other jobs, and of the run, does not change.
LEMMA BoardFrame ==
  ASSUME TypeOK, FlowInv, VerdictInv, NEW j \in Jobs, JobStep(j)
  PROVE  /\ \A m \in Jobs \ {j} : TaskOf(m)' = TaskOf(m) /\ row'[<<m, 1>>] = row[<<m, 1>>]
         /\ verdict' = verdict /\ verdict = "none" /\ RunRow' = RunRow
<1>1. /\ verdict' = verdict
      /\ \A m \in Jobs \ {j} : pc'[m] = pc[m] /\ failed'[m] = failed[m] /\ results'[m] = results[m]
  BY JobFrame
<1>2. \A m \in Jobs \ {j} : row'[<<m, 1>>] = row[<<m, 1>>]
  <2>1. \A m \in Jobs : 1 \in 1..Combos[m]
    BY CombosCounted DEF TypeOK
  <2>2. QED
    BY <2>1, JobFrame
<1>3. verdict = "none"
  BY JobClosed DEF FlowInv, VerdictInv
<1>4. \A m \in Jobs \ {j} : TaskOf(m)' = TaskOf(m)
  BY <1>1, <1>2 DEF TaskOf
<1>5. RunRow' = RunRow
  BY <1>1 DEF RunRow
<1>6. QED
  BY <1>1, <1>2, <1>3, <1>4, <1>5

BoardRow == [e \in {Exec} |-> [j \in Jobs |-> row[<<j, 1>>]]]
BoardPC == [e \in {Exec} |-> IF verdict = "none" THEN "jobs" ELSE "done"]
BoardTask == [e \in {Exec} |-> [j \in Jobs |-> TaskOf(j)]]
BoardFatal == [e \in {Exec} |-> cancelled]

\* One job of the executor changes: what CIRuns sees of the tables and the goroutines.
LEMMA BoardChange ==
  ASSUME TypeOK, FlowInv, VerdictInv, NEW j \in Jobs, JobStep(j)
  PROVE  /\ BoardPC[Exec] = "jobs" /\ BoardTask[Exec][j] = TaskOf(j)
         /\ BoardFatal[Exec] = cancelled /\ BoardRow[Exec][j] = row[<<j, 1>>]
         /\ BoardTask' = [BoardTask EXCEPT ![Exec][j] = TaskOf(j)']
         /\ BoardRow' = [BoardRow EXCEPT ![Exec][j] = row'[<<j, 1>>]]
         /\ BoardFatal' = [BoardFatal EXCEPT ![Exec] = cancelled']
         /\ TaskOf(j)' = TaskOf(j) => BoardTask' = BoardTask
         /\ row'[<<j, 1>>] = row[<<j, 1>>] => BoardRow' = BoardRow
         /\ cancelled' = cancelled => BoardFatal' = BoardFatal
         /\ BoardPC' = BoardPC /\ RunRow' = RunRow
<1>1. /\ \A m \in Jobs \ {j} : TaskOf(m)' = TaskOf(m) /\ row'[<<m, 1>>] = row[<<m, 1>>]
      /\ verdict' = verdict /\ verdict = "none" /\ RunRow' = RunRow
  BY BoardFrame
<1>2. BoardPC[Exec] = "jobs" /\ BoardPC' = BoardPC
  BY <1>1 DEF BoardPC
<1>3. BoardTask[Exec][j] = TaskOf(j) /\ BoardRow[Exec][j] = row[<<j, 1>>] /\ BoardFatal[Exec] = cancelled
  BY DEF BoardTask, BoardRow, BoardFatal
<1>4. /\ BoardFatal' = [BoardFatal EXCEPT ![Exec] = cancelled']
      /\ cancelled' = cancelled => BoardFatal' = BoardFatal
  BY DEF BoardFatal
<1>5. /\ BoardRow' = [BoardRow EXCEPT ![Exec][j] = row'[<<j, 1>>]]
      /\ row'[<<j, 1>>] = row[<<j, 1>>] => BoardRow' = BoardRow
  BY <1>1 DEF BoardRow
<1>6. /\ BoardTask' = [BoardTask EXCEPT ![Exec][j] = TaskOf(j)']
      /\ TaskOf(j)' = TaskOf(j) => BoardTask' = BoardTask
  BY <1>1 DEF BoardTask
<1>7. QED
  BY <1>1, <1>2, <1>3, <1>4, <1>5, <1>6

\* What CIRuns sees stays as it is.
LEMMA BoardStutters ==
  ASSUME BoardRow' = BoardRow, BoardPC' = BoardPC, BoardTask' = BoardTask, BoardFatal' = BoardFatal,
         RunRow' = RunRow
  PROVE  UNCHANGED (Board!vars)
BY DEF Board!vars, BoardRow, BoardPC, BoardTask, BoardFatal

\* A job that has not started is given up after a fatal error, or because its row cannot be had.
LEMMA BoardDrops ==
  ASSUME TypeOK, FlowInv, VerdictInv, NEW j \in Jobs, JobStep(j),
         TaskOf(j) = "waiting", TaskOf(j)' = "dropped", row'[<<j, 1>>] = row[<<j, 1>>],
         \/ cancelled /\ cancelled'
         \/ "db" \in Faults /\ cancelled'
  PROVE  Board!DropJob(Exec, j) \/ Board!CreateJobFails(Exec, j)
<1>1. /\ BoardPC[Exec] = "jobs" /\ BoardTask[Exec][j] = "waiting" /\ BoardFatal[Exec] = cancelled
      /\ BoardTask' = [BoardTask EXCEPT ![Exec][j] = "dropped"]
      /\ BoardRow' = BoardRow
      /\ BoardPC' = BoardPC /\ RunRow' = RunRow
  BY BoardChange
<1>2. CASE cancelled /\ cancelled'
  <2>1. BoardFatal' = BoardFatal
    BY <1>2 DEF BoardFatal
  <2>2. QED
    BY <1>1, <1>2, <2>1 DEF Board!DropJob, BoardRow, BoardPC, BoardTask, BoardFatal
<1>3. CASE "db" \in Faults /\ cancelled'
  <2>1. BoardFatal' = [BoardFatal EXCEPT ![Exec] = TRUE]
    BY <1>3 DEF BoardFatal
  <2>2. QED
    BY <1>1, <1>3, <2>1 DEF Board!CreateJobFails, BoardRow, BoardPC, BoardTask, BoardFatal
<1>4. QED
  BY <1>2, <1>3

\* A step of a job goroutine is a step of the executor of CIRuns, or none.
LEMMA BoardJobStep ==
  ASSUME TypeOK, FlowInv, CombosInv, OutcomeInv, RowsInv, VerdictInv, BoardInv, NoMatrices,
         NEW j \in Jobs, JobStep(j)
  PROVE  (\E k \in Jobs : Board!JobStep(Exec, k)) \/ UNCHANGED (Board!vars)
<1> USE DEF Goto
<1>1. /\ BoardPC[Exec] = "jobs" /\ BoardTask[Exec][j] = TaskOf(j)
      /\ BoardFatal[Exec] = cancelled /\ BoardRow[Exec][j] = row[<<j, 1>>]
      /\ BoardTask' = [BoardTask EXCEPT ![Exec][j] = TaskOf(j)']
      /\ BoardRow' = [BoardRow EXCEPT ![Exec][j] = row'[<<j, 1>>]]
      /\ BoardFatal' = [BoardFatal EXCEPT ![Exec] = cancelled']
      /\ TaskOf(j)' = TaskOf(j) => BoardTask' = BoardTask
      /\ row'[<<j, 1>>] = row[<<j, 1>>] => BoardRow' = BoardRow
      /\ cancelled' = cancelled => BoardFatal' = BoardFatal
      /\ BoardPC' = BoardPC /\ RunRow' = RunRow
  BY BoardChange
<1>2. /\ Combos[j] = 1 /\ combo[j] = 1 /\ <<j, 1>> \in Instances /\ 1 \in 1..Combos[j]
      /\ fate[<<j, 1>>] \in {"success", "failure"} /\ row[<<j, 1>>] \in RowStatus
  <2>1. Combos[j] = 1 /\ combo[j] \in 1..Combos[j] /\ <<j, 1>> \in Instances
    BY FirstInstance DEF NoMatrices, TypeOK
  <2>2. QED
    BY <2>1 DEF TypeOK
<1>3. results[j] # "none" => pc[j] \in {"skipDone", "release", "close", "gone"}
  BY DEF FlowInv, ResultsPlaced
<1>4. ASSUME TaskOf(j)' = TaskOf(j), row'[<<j, 1>>] = row[<<j, 1>>], cancelled' = cancelled
      PROVE  UNCHANGED (Board!vars)
  BY <1>1, <1>4, BoardStutters
<1>5. CASE AwaitNeeds(j) \/ Gate(j) \/ Acquire(j)
  <2>1. /\ pc[j] \in {"needs", "gate", "acquire"} /\ pc'[j] \in {"alive", "skip", "acquire", "next"}
        /\ row' = row /\ cancelled' = cancelled
    BY <1>5 DEF AwaitNeeds, Gate, Acquire, TypeOK
  <2>2. TaskOf(j) = "waiting" /\ TaskOf(j)' = "waiting"
    BY <2>1 DEF TaskOf
  <2>3. QED
    BY <1>4, <2>1, <2>2
<1>6. CASE CheckAlive(j) /\ ~cancelled
  <2>1. pc[j] = "alive" /\ pc'[j] = "gate" /\ row' = row /\ cancelled' = cancelled
    BY <1>6 DEF CheckAlive, TypeOK
  <2>2. TaskOf(j) = "waiting" /\ TaskOf(j)' = "waiting"
    BY <2>1 DEF TaskOf
  <2>3. QED
    BY <1>4, <2>1, <2>2
<1>7. CASE AwaitCancelled(j) \/ AcquireCancelled(j) \/ (CheckAlive(j) /\ cancelled)
  <2>1. /\ pc[j] \in {"needs", "acquire", "alive"} /\ pc'[j] = "close" /\ results' = results
        /\ row' = row /\ cancelled /\ cancelled'
    BY <1>7 DEF AwaitCancelled, AcquireCancelled, CheckAlive, TypeOK
  <2>2. TaskOf(j) = "waiting" /\ TaskOf(j)' = "dropped"
    BY <1>3, <2>1 DEF TaskOf
  <2>3. QED
    BY <2>1, <2>2, BoardDrops DEF Board!JobStep
<1>8. CASE SkipCreate(j)
  <2>1. pc[j] = "skip" /\ mu = {} /\ results'[j] = "skipped"
    BY <1>8 DEF SkipCreate, TypeOK
  <2>2. TaskOf(j) = "waiting"
    BY <2>1 DEF TaskOf
  <2>3. CASE pc'[j] = "skipDone"
    <3>1. cancelled' = cancelled /\ row'[<<j, 1>>] = "in_progress"
      BY <1>2, <1>8, <2>3 DEF SkipCreate, TypeOK
    <3>2. TaskOf(j)' = "skipping"
      BY <2>3 DEF TaskOf
    <3>3. \A k \in Jobs : BoardTask[Exec][k] # "skipping"
      <4> SUFFICES ASSUME NEW k \in Jobs PROVE TaskOf(k) # "skipping"
        BY DEF BoardTask
      <4>1. pc[k] # "skipDone"
        BY <2>1 DEF BoardInv
      <4>2. QED
        BY <4>1 DEF TaskOf, TypeOK, Result
    <3>4. Board!SkipJob(Exec, j)
      BY <1>1, <2>2, <3>1, <3>2, <3>3 DEF Board!SkipJob, BoardRow, BoardPC, BoardTask, BoardFatal
    <3>5. QED
      BY <3>4 DEF Board!JobStep
  <2>4. CASE pc'[j] # "skipDone"
    <3>1. "db" \in Faults /\ pc'[j] = "close" /\ cancelled' /\ row' = row
      BY <1>8, <2>4 DEF SkipCreate, TypeOK
    <3>2. row[<<j, 1>>] = "none"
      BY <1>2, <1>3, <2>1 DEF RowsInv, Past, Decided
    <3>3. TaskOf(j)' = "dropped"
      BY <2>1, <3>1, <3>2 DEF TaskOf
    <3>4. QED
      BY <2>2, <3>1, <3>3, BoardDrops DEF Board!JobStep
  <2>5. QED
    BY <2>3, <2>4
<1>9. CASE SkipComplete(j)
  <2>1. pc[j] = "skipDone" /\ pc'[j] = "close" /\ results'[j] = results[j]
    BY <1>9 DEF SkipComplete, TypeOK
  <2>2. results[j] = "skipped" /\ row[<<j, 1>>] \in {"in_progress", "cancelled"}
    BY <2>1 DEF FlowInv, ResultsPlaced, BoardInv
  <2>3. TaskOf(j) = "skipping"
    BY <2>1 DEF TaskOf
  <2>4. \/ /\ row[<<j, 1>>] = "in_progress"
           /\ row'[<<j, 1>>] = "skipped" /\ cancelled' = cancelled
        \/ /\ row[<<j, 1>>] # "in_progress" \/ "db" \in Faults
           /\ row' = row /\ cancelled' = TRUE
    BY <1>2, <1>9 DEF SkipComplete, TypeOK
  <2>5. TaskOf(j)' = "skipped"
    BY <2>1, <2>2, <2>4 DEF TaskOf
  <2>6. Board!SkipJobDone(Exec, j)
    BY <1>1, <2>3, <2>4, <2>5 DEF Board!SkipJobDone, BoardRow, BoardPC, BoardTask, BoardFatal
  <2>7. QED
    BY <2>6 DEF Board!JobStep
<1>10. CASE CreateInstance(j)
  <2>1. pc[j] = "next" /\ pc'[j] = "exec" /\ ~cancelled /\ cancelled' = cancelled
    BY <1>10 DEF CreateInstance, TypeOK
  <2>2. row'[<<j, 1>>] = "in_progress"
    BY <1>2, <1>10 DEF CreateInstance, TypeOK
  <2>3. TaskOf(j) = "waiting" /\ TaskOf(j)' = "running"
    BY <2>1 DEF TaskOf
  <2>4. Board!StartJob(Exec, j)
    BY <1>1, <2>1, <2>2, <2>3 DEF Board!StartJob, BoardRow, BoardPC, BoardTask, BoardFatal
  <2>5. QED
    BY <2>4 DEF Board!JobStep
<1>11. CASE InstanceNotCreated(j)
  <2>1. /\ pc[j] = "next" /\ pc'[j] = "release" /\ results' = results /\ row' = row
        /\ cancelled \/ "db" \in Faults
        /\ cancelled'
    BY <1>11 DEF InstanceNotCreated, TypeOK
  <2>2. TaskOf(j) = "waiting" /\ TaskOf(j)' = "dropped"
    BY <1>3, <2>1 DEF TaskOf
  <2>3. QED
    BY <2>1, <2>2, BoardDrops DEF Board!JobStep
<1>12. CASE RunInstance(j)
  <2>1. /\ pc[j] = "exec" /\ pc'[j] = "result" /\ cancelled' = cancelled /\ ~failed[j]
        /\ results' = results
    BY <1>2, <1>12 DEF RunInstance, TypeOK, BoardInv
  <2> DEFINE RowBy(i, outcome) ==
        \/ /\ ~cancelled
           /\ row' = [row EXCEPT ![i] = IF @ = "in_progress" THEN outcome ELSE @]
        \/ /\ cancelled \/ "db" \in Faults
           /\ row' = row
  <2>2. PICK outcome \in {fate[<<j, combo[j]>>]} \union (IF cancelled THEN {"failure"} ELSE {}) :
          failed' = [failed EXCEPT ![j] = @ \/ outcome = "failure"] /\ RowBy(<<j, combo[j]>>, outcome)
    BY <1>12 DEF RunInstance
  <2>3. outcome \in {"success", "failure"} /\ RowBy(<<j, 1>>, outcome)
    BY <1>2, <2>2
  <2>4. TaskOf(j) = "running" /\ TaskOf(j)' = outcome
    BY <2>1, <2>2, <2>3 DEF TaskOf, TypeOK
  <2>5. \/ ~cancelled /\ row'[<<j, 1>>] = IF row[<<j, 1>>] = "in_progress" THEN outcome ELSE row[<<j, 1>>]
        \/ (cancelled \/ "db" \in Faults) /\ row'[<<j, 1>>] = row[<<j, 1>>]
    <3>1. row \in [Instances -> RowStatus] /\ <<j, 1>> \in Instances
      BY <1>2 DEF TypeOK
    <3>2. QED
      BY <2>3, <3>1
  <2>6. Board!FinishJob(Exec, j, outcome)
    <3>1. \/ /\ ~cancelled
             /\ BoardRow' = [BoardRow EXCEPT ![Exec][j] = IF @ = "in_progress" THEN outcome ELSE @]
          \/ (cancelled \/ "db" \in Faults) /\ BoardRow' = BoardRow
      BY <1>1, <2>5
    <3>2. BoardTask[Exec][j] = "running" /\ BoardTask' = [BoardTask EXCEPT ![Exec][j] = outcome]
      BY <1>1, <2>4
    <3>3. BoardFatal' = BoardFatal
      BY <1>1, <2>1
    <3>4. QED
      BY <1>1, <3>1, <3>2, <3>3 DEF Board!FinishJob, BoardRow, BoardPC, BoardTask, BoardFatal
  <2>7. QED
    BY <2>3, <2>6 DEF Board!JobStep
<1>13. CASE RecordResult(j)
  <2>1. /\ pc[j] = "result" /\ pc'[j] = "release" /\ row' = row /\ cancelled' = cancelled
        /\ results'[j] = IF failed[j] THEN "failure" ELSE "success"
    BY <1>13 DEF RecordResult, TypeOK
  <2>2. TaskOf(j)' = TaskOf(j)
    BY <2>1 DEF TaskOf
  <2>3. QED
    BY <1>4, <2>1, <2>2
<1>14. CASE Release(j) \/ CloseDone(j)
  <2>1. /\ pc[j] \in {"release", "close"} /\ pc'[j] \in {"close", "gone"} /\ row' = row
        /\ cancelled' = cancelled /\ results' = results
    BY <1>14 DEF Release, CloseDone, TypeOK
  <2>2. TaskOf(j)' = TaskOf(j)
    BY <2>1 DEF TaskOf
  <2>3. QED
    BY <1>4, <2>1, <2>2
<1>15. QED
  BY <1>5, <1>6, <1>7, <1>8, <1>9, <1>10, <1>11, <1>12, <1>13, <1>14 DEF JobStep

\* The return of the handler is the end of the executor of CIRuns.
LEMMA BoardReturn ==
  ASSUME TypeOK, FlowInv, CombosInv, RowsInv, NoMatrices, Return
  PROVE  Board!FinishRun(Exec) \/ Board!FinishFatal(Exec)
<1>1. /\ verdict = "none" /\ \A j \in Jobs : pc[j] = "gone"
      /\ verdict' = IF cancelled THEN "error"
                    ELSE IF \E j \in Jobs : results[j] = "failure" THEN "failure" ELSE "success"
      /\ pc' = pc /\ failed' = failed /\ results' = results /\ row' = row /\ cancelled' = cancelled
  BY DEF Return
<1>2. /\ BoardPC[Exec] = "jobs" /\ BoardPC' = [BoardPC EXCEPT ![Exec] = "done"]
      /\ BoardRow' = BoardRow /\ BoardTask' = BoardTask /\ BoardFatal' = BoardFatal
      /\ BoardFatal[Exec] = cancelled
  BY <1>1 DEF BoardPC, BoardRow, BoardTask, BoardFatal, TaskOf
<1>3. \A j \in Jobs : BoardTask[Exec][j] = TaskOf(j)
  BY DEF BoardTask
<1>4. CASE cancelled
  <2>1. RunRow' = RunRow
    BY <1>1, <1>4 DEF RunRow
  <2>2. \A j \in Jobs : BoardTask[Exec][j] \in {"success", "failure", "skipped", "dropped"}
    BY <1>1, <1>3, TaskAfter DEF TypeOK, Result
  <2>3. QED
    BY <1>2, <1>4, <2>1, <2>2
       DEF Board!FinishFatal, Board!Ended, BoardRow, BoardPC, BoardTask, BoardFatal
<1>5. CASE ~cancelled
  <2>1. \A j \in Jobs : results[j] # "none"
    BY <1>1, <1>5 DEF FlowInv, ResultsPlaced
  <2>2. ASSUME NEW j \in Jobs, results[j] = "skipped"
        PROVE  row[<<j, 1>>] # "none"
    <3>1. 1 \in 1..Combos[j]
      BY DEF NoMatrices
    <3>2. QED
      BY <1>1, <1>5, <2>2, <3>1 DEF RowsInv
  <2>3. \A j \in Jobs : BoardTask[Exec][j] = results[j]
    BY <1>1, <1>3, <2>1, <2>2, TaskAfter
  <2>4. \A j \in Jobs : BoardTask[Exec][j] \in {"success", "failure", "skipped"}
    BY <2>1, <2>3 DEF TypeOK, Result
  <2>5. RunRow = [status |-> "in_progress", conclusion |-> "null"]
    BY <1>1 DEF RunRow
  <2>6. CASE \E j \in Jobs : results[j] = "failure"
    <3>1. RunRow' = [status |-> "failed", conclusion |-> "failure"]
      BY <1>1, <1>5, <2>6 DEF RunRow
    <3>2. ~ \A j \in Jobs : BoardTask[Exec][j] \in {"success", "skipped"}
      BY <2>3, <2>6
    <3>3. Board!markRun(Exec[1], "failed", "failure")
      BY <2>5, <3>1 DEF Board!markRun, Exec
    <3>4. QED
      BY <1>2, <1>5, <2>4, <3>2, <3>3
         DEF Board!FinishRun, Board!Ended, Board!Passed, BoardRow, BoardPC, BoardTask, BoardFatal
  <2>7. CASE ~ \E j \in Jobs : results[j] = "failure"
    <3>1. RunRow' = [status |-> "completed", conclusion |-> "success"]
      BY <1>1, <1>5, <2>7 DEF RunRow
    <3>2. \A j \in Jobs : BoardTask[Exec][j] \in {"success", "skipped"}
      BY <2>3, <2>4, <2>7
    <3>3. Board!markRun(Exec[1], "completed", "success")
      BY <2>5, <3>1 DEF Board!markRun, Exec
    <3>4. QED
      BY <1>2, <1>5, <2>4, <3>2, <3>3
         DEF Board!FinishRun, Board!Ended, Board!Passed, BoardRow, BoardPC, BoardTask, BoardFatal
  <2>8. QED
    BY <2>6, <2>7
<1>6. QED
  BY <1>4, <1>5

\* Every step is a step of the executor of CIRuns, a cancellation of rows, or none.
LEMMA BoardNext ==
  TypeOK /\ FlowInv /\ CombosInv /\ OutcomeInv /\ RowsInv /\ VerdictInv /\ BoardInv /\ [Next]_vars
    => [NoMatrices => Board!ExecutorStep(Exec) \/ UserCancelsRows]_(Board!vars)
<1> SUFFICES ASSUME TypeOK, FlowInv, CombosInv, OutcomeInv, RowsInv, VerdictInv, BoardInv, NoMatrices,
                    [Next]_vars
             PROVE  Board!ExecutorStep(Exec) \/ UserCancelsRows \/ UNCHANGED (Board!vars)
  OBVIOUS
<1>1. ASSUME NEW j \in Jobs, JobStep(j)
      PROVE  Board!ExecutorStep(Exec) \/ UNCHANGED (Board!vars)
  BY <1>1, BoardJobStep DEF Board!ExecutorStep
<1>2. CASE Return
  BY <1>2, BoardReturn DEF Board!ExecutorStep
<1>3. CASE UNCHANGED vars
  <2>1. \A j \in Jobs : TaskOf(j)' = TaskOf(j) /\ row'[<<j, 1>>] = row[<<j, 1>>]
    BY <1>3 DEF vars, TaskOf
  <2>2. RunRow' = RunRow /\ verdict' = verdict /\ cancelled' = cancelled
    BY <1>3 DEF vars, RunRow
  <2>3. QED
    BY <2>1, <2>2, BoardStutters DEF BoardRow, BoardPC, BoardTask, BoardFatal
<1>4. QED
  BY <1>1, <1>2, <1>3 DEF Next, Returned

\* The goroutines of CIJobs are an executor of CIRuns: for any file without a matrix, every
\* step one takes is a step CIRuns lets the executor of an attempt take, or changes nothing
\* CIRuns knows of; the only other step is a user's cancellation of the rows.
THEOREM ExecutorImplemented == Spec => ImplementsExecutor
BY BoardNext, OutcomeCorrect, RowsCorrect, VerdictCorrect, BoardCorrect, PTL
   DEF Spec, ImplementsExecutor
=============================================================================
