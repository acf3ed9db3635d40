---------------------------- MODULE WorkflowFile ----------------------------
(***************************************************************************)
(* What ParseWorkflowFull makes of a workflow file once YAML has been      *)
(* decoded: the order of the jobs by their needs (buildDAG) and the        *)
(* combinations of a job's matrix (expandMatrix). A file is a record of    *)
(* the needs and the matrix of every job and of the jobs whose if: does    *)
(* not hold. The order among jobs that are ready together, and the order   *)
(* of a matrix's keys, are those of their names: any order here.           *)
(***************************************************************************)
EXTENDS Integers, Sequences, FiniteSets, SequencesExt, TLC

CONSTANT MaxCombos  \* maxMatrixCombinations, 256 in the code

ASSUME MaxCombosAssumption == MaxCombos \in Nat \ {0}

-----------------------------------------------------------------------------
(* buildDAG: repeatedly take a job that waits for nothing. *)

\* An unknown need counts, and nothing ever counts it off.
inDegree(needs) == [j \in DOMAIN needs |-> Cardinality(needs[j])]

PopReady(dag, needs) ==
  LET cur == CHOOSE j \in dag.queue : TRUE
      next == {j \in DOMAIN needs : cur \in needs[j]}
      degree == [j \in DOMAIN needs |-> IF j \in next THEN dag.degree[j] - 1 ELSE dag.degree[j]]
  IN  [degree |-> degree, queue |-> (dag.queue \ {cur}) \union {j \in next : degree[j] = 0},
       order |-> Append(dag.order, cur)]

buildDAG(needs) ==
  LET first == [degree |-> inDegree(needs), queue |-> {j \in DOMAIN needs : needs[j] = {}},
                order |-> << >>]
      after[n \in 0..Cardinality(DOMAIN needs)] ==
        IF n = 0 THEN first
        ELSE IF after[n - 1].queue = {} THEN after[n - 1] ELSE PopReady(after[n - 1], needs)
  IN  after[Cardinality(DOMAIN needs)].order

\* No diagnostic: every need names a job, and no job is left over.
Ordered(needs) ==
  /\ \A j \in DOMAIN needs : needs[j] \subseteq DOMAIN needs
  /\ Len(buildDAG(needs)) = Cardinality(DOMAIN needs)

-----------------------------------------------------------------------------
(* expandMatrix. A combination and a row of include or exclude map keys to *)
(* values; axes map keys to sequences of values.                           *)

NoMatrix == [axes |-> << >>, include |-> << >>, exclude |-> << >>]

ExtendBy(combos, key, values) ==
  FlattenSeq([c \in DOMAIN combos |-> [v \in DOMAIN values |-> (key :> values[v]) @@ combos[c]]])

\* Too many combinations end the product: what there is of it is not used.
cartesianProduct(axes) ==
  FoldLeft(LAMBDA combos, key :
             IF Len(combos) > MaxCombos THEN combos ELSE ExtendBy(combos, key, axes[key]),
           << << >> >>, SetToSeq(DOMAIN axes))

includeRowMatches(combo, row) ==
  \A k \in DOMAIN row \intersect DOMAIN combo : combo[k] = row[k]

\* A row is added to copies of the combinations it does not contradict, and the originals
\* stay, the empty one of a matrix without keys too. One that contradicts all stands alone,
\* if it names as many keys as they do, and else is written over copies of all of them.
applyInclude(combos, include) ==
  FoldLeft(LAMBDA all, row :
    LET matched == SelectSeq(combos, LAMBDA c : includeRowMatches(c, row))
        over(cs) == [c \in DOMAIN cs |-> row @@ cs[c]]
        alone == combos = << >> \/ Cardinality(DOMAIN row) >= Cardinality(DOMAIN combos[1])
    IN  all \o CASE matched # << >> -> over(matched)
                 [] matched = << >> /\ alone -> <<row>>
                 [] OTHER -> over(combos),
    combos, include)

rowMatches(combo, pattern) ==
  \A k \in DOMAIN pattern : k \in DOMAIN combo /\ combo[k] = pattern[k]

applyExclude(combos, exclude) ==
  SelectSeq(combos, LAMBDA c : ~ \E i \in DOMAIN exclude : rowMatches(c, exclude[i]))

\* Excluding comes last: it takes rows away that include has just added.
expandMatrix(m) ==
  LET product == cartesianProduct(m.axes)
      combos == applyExclude(applyInclude(product, m.include), m.exclude)
      fits == Len(product) <= MaxCombos /\ Len(combos) <= MaxCombos
  IN  [combos |-> combos, fits |-> fits]

\* A matrix that comes to nothing is no matrix: the job runs once.
CombosOf(m) ==
  IF m = NoMatrix \/ expandMatrix(m).combos = << >> THEN 1 ELSE Len(expandMatrix(m).combos)

-----------------------------------------------------------------------------

\* HandleCIRun goes on with a file that has no diagnostic.
Accepted(file) ==
  /\ Ordered(file.needs)
  /\ \A j \in DOMAIN file.matrix : expandMatrix(file.matrix[j]).fits
=============================================================================
