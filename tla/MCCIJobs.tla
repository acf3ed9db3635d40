------------------------------ MODULE MCCIJobs ------------------------------
(* Instances of CIJobs for TLC, and what WorkflowFile computes checked     *)
(* against what it should be, over all small inputs; JobStepsChecks has    *)
(* the same for conditions and steps.                                      *)
EXTENDS CIJobsRefinement, JobStepsChecks

CONSTANTS lint, build, test, ghost

Os == [axes |-> [os |-> <<"linux", "mac">>], include |-> << >>, exclude |-> << >>]

\* test needs build, and a third job: needed by test, after it, beside it; in a circle; and
\* a need that names no job.
Beside == [j \in Jobs |-> IF j = test THEN {build} ELSE {}]
Fan == [Beside EXCEPT ![test] = {build, lint}]
Line == [Beside EXCEPT ![lint] = {test}]
Circle == [Line EXCEPT ![build] = {lint}]
Unknown == [Line EXCEPT ![build] = {ghost}]

\* A condition of a job does not hold if it fails; no job's status is told to it.
FileOf(needs, m, cond) ==
  [needs |-> needs, matrix |-> [j \in Jobs |-> IF j = build THEN m ELSE NoMatrix],
   ifFalse |-> {j \in {lint} : EvaluateCondition(cond, StepContext(NoEntries, FALSE)) # Bool(TRUE)}]

SomeFiles ==
  {FileOf(needs, m, IfFailed) : needs \in {Beside, Fan, Line, Circle, Unknown}, m \in {NoMatrix, Os}}
    \union {FileOf(Fan, m, << >>) : m \in {NoMatrix, Os}}
    \union {FileOf([j \in Jobs |-> {}], NoMatrix, << >>)}

-----------------------------------------------------------------------------

\* Some jobs wait for each other in a circle.
Cyclic(needs) == \E S \in SUBSET DOMAIN needs : S # {} /\ \A j \in S : needs[j] \intersect S # {}

\* A file is refused for its needs exactly if one is unknown or some are circular, and the
\* order of one that is not puts every job after its needs (parser.go, buildDAG).
ASSUME OrderCorrect ==
  \A needs \in [{lint, build, test} -> SUBSET {lint, build, test, ghost}] :
    LET order == buildDAG(needs)
        known == \A j \in DOMAIN needs : ghost \notin needs[j]
    IN  /\ Ordered(needs) <=> known /\ ~Cyclic(needs)
        /\ Ordered(needs) => IsInjective(order) /\ ToSet(order) = DOMAIN needs
        /\ \A i \in DOMAIN order : \A n \in needs[order[i]] : n \in ToSet(SubSeq(order, 1, i - 1))

Rows == UNION {[K -> {1, 2}] : K \in SUBSET {"a", "b"}}
RowLists == {<< >>} \union {<<r>> : r \in Rows}
Axes == UNION {[K -> {<< >>, <<1>>, <<1, 2>>}] : K \in SUBSET {"a", "b"}}

\* A matrix has its product once, in which nothing is lost but to exclude and which include
\* only adds to; no combination matches an excluded row, and a row that is included is part of
\* a combination unless one that contains it is excluded (parser.go, expandMatrix).
ASSUME MatrixCorrect ==
  \A axes \in Axes, include, exclude \in RowLists :
    LET m == [axes |-> axes, include |-> include, exclude |-> exclude]
        excluded(c) == exclude # << >> /\ rowMatches(c, exclude[1])
        product == {c \in [DOMAIN axes -> {1, 2}] : \A k \in DOMAIN axes : c[k] \in ToSet(axes[k])}
        combos == expandMatrix(m).combos
    IN  expandMatrix(m).fits =>
        /\ IsInjective(cartesianProduct(axes)) /\ ToSet(cartesianProduct(axes)) = product
        /\ {c \in product : ~excluded(c)} \subseteq ToSet(combos)
        /\ include = << >> => IsInjective(combos)
        /\ \A c \in ToSet(combos) : ~excluded(c)
        /\ \A i \in DOMAIN include :
             \/ \E c \in ToSet(combos) : rowMatches(c, include[i])
             \/ \E c \in Rows : rowMatches(c, include[i]) /\ excluded(c)
=============================================================================
