--------------------------- MODULE JobStepsChecks ---------------------------
(***************************************************************************)
(* What Expression and JobSteps compute against what they should, over all *)
(* small inputs.                                                           *)
(***************************************************************************)
EXTENDS JobSteps

\* Conditions, as a workflow has them after if:.
Always == <<"always", "(", ")">>
IfFailed == <<"failure", "(", ")">>
IfSuccess == <<"success", "(", ")">>
Wrapped(cond) == <<"${{">> \o cond \o <<"}}">>

NoEntries == << >>

-----------------------------------------------------------------------------
(* Parsing. *)

Operators == UNION {Levels[l] : l \in DOMAIN Levels}
LevelOf(op) == CHOOSE l \in DOMAIN Levels : op \in Levels[l]

\* How tightly a tree holds together, and its text with no more parentheses than it needs.
Tightness(e) == IF e.kind = "binary" THEN LevelOf(e.op) ELSE Len(Levels) + 1

RECURSIVE Shown(_), Unparenthesized(_)

ShownIn(e, least) == IF Tightness(e) < least THEN <<"(">> \o Shown(e) \o <<")">> ELSE Shown(e)

Shown(e) ==
  CASE e.kind \in {"literal", "context"} -> <<e.value>>
    [] e.kind = "unary" -> <<"!">> \o ShownIn(e.operand, Len(Levels) + 1)
    [] e.kind = "binary" -> ShownIn(e.left, LevelOf(e.op)) \o <<e.op>>
                              \o ShownIn(e.right, LevelOf(e.op) + 1)
    [] e.kind = "call" -> <<e.fn, "(">> \o (IF e.args = << >> THEN << >> ELSE Shown(e.args[1]))
                            \o <<")">>

\* The tokens of a tree but for parentheses and commas.
Unparenthesized(e) ==
  CASE e.kind \in {"literal", "context"} -> <<e.value>>
    [] e.kind = "unary" -> <<"!">> \o Unparenthesized(e.operand)
    [] e.kind = "binary" -> Unparenthesized(e.left) \o <<e.op>> \o Unparenthesized(e.right)
    [] e.kind = "call" ->
         <<e.fn>> \o FlattenSeq([i \in DOMAIN e.args |-> Unparenthesized(e.args[i])])

Leaves == {Literal("1"), Context("ref")}
Above(es) == {Not(e) : e \in es} \union {Call("failure", <<e>>) : e \in es}
               \union {Binary(op, l, r) : op \in Operators, l, r \in es}
SmallTrees == Leaves \union Above(Leaves)
\* One operator of a level is enough below another.
Below == Leaves \union {Not(e) : e \in Leaves} \union {Call("failure", << >>)}
           \union {Binary(op, Literal("1"), Context("ref")) : op \in {"||", "&&", "==", "<"}}
Trees == SmallTrees \union Above(Below)

\* What is written with the parentheses its precedences ask for, and no others, is read as it
\* was meant (expression.go, parseOr down to parsePrimary).
ASSUME PrecedenceCorrect ==
  \A e \in Trees : ParseExpression(Shown(e)) = Parsed(e, Len(Shown(e)) + 1, TRUE)

SomeTokens == {"||", "==", "!", "(", ")", ",", "ref", "failure", "1"}
ShortInputs == UNION {[1..n -> SomeTokens] : n \in 1..4}
Inputs == ShortInputs \union {<<"failure", "(">> \o tokens : tokens \in ShortInputs}

\* An expression without a diagnostic is read to its end, in its order, and nothing of it is
\* dropped or read twice (expression.go, ParseExpression).
ASSUME NothingDropped ==
  \A tokens \in Inputs :
    LET r == ParseExpression(tokens)
    IN  r.ok => Unparenthesized(r.node) = SelectSeq(tokens, LAMBDA t : t \notin {"(", ")", ","})

-----------------------------------------------------------------------------
(* Evaluating. *)

Values == {Null, Str(""), Str("main"), Str("2"), Number(0), Number(1), Number(2), Bool(TRUE),
           Bool(FALSE)}

\* Equality is symmetric, an order is not both ways, and what is numeric is equal or ordered
\* (expression_eval.go, looseEqual and compare).
ASSUME ComparisonsAgree ==
  \A a, b \in Values :
    /\ looseEqual(a, a)
    /\ looseEqual(a, b) <=> looseEqual(b, a)
    /\ compare("<", a, b) => compare("<=", a, b) /\ ~compare("<", b, a) /\ ~compare(">", a, b)
    /\ "number" \in {a.t, b.t} /\ compare("<=", a, b) /\ compare(">=", a, b) => looseEqual(a, b)

Entries == [ref |-> "main"]
StatusContexts == [entries : {NoEntries, Entries}, failed : BOOLEAN, cancelled : BOOLEAN]

\* Trees evaluate: only an unknown function is an error, and a decided && or || hides it.
ASSUME ConditionsEvaluate ==
  \A e \in Trees, ctx \in StatusContexts :
    LET unknown == Call("hashFiles", << >>)
        holds(x) == truthy(EvaluateExpression(x, ctx))
    IN  /\ EvaluateExpression(e, ctx) # Failure
        /\ holds(Not(e)) = ~holds(e)
        /\ EvaluateExpression(Binary("&&", e, unknown), ctx) = Failure <=> holds(e)
        /\ EvaluateExpression(Binary("||", e, unknown), ctx) = Failure <=> ~holds(e)
        /\ EvaluateExpression(Binary("&&", unknown, e), ctx) = Failure

-----------------------------------------------------------------------------
(* Steps. *)

Conditions == {<< >>, Always, Wrapped(IfFailed), IfSuccess, <<"!">> \o IfFailed, <<"!">>,
               <<"ref", "==", "main">>}
Steps == [cond : Conditions, does : {"script", "other"}, works : BOOLEAN]

\* An instance fails if a step that ran has failed or a condition has; a step without a
\* condition runs as long as none has, one with always() in any case, one with failure() if
\* success() would not have let it, and one with another condition whatever has failed
\* before (ci_worker.go, runJobSteps).
ASSUME StepsCorrect ==
  \A n \in 0..3 : \A steps \in [1..n -> Steps] :
    LET job == runJobSteps(steps, Entries)
        broken == {i \in 1..n : steps[i].cond = <<"!">>}
        failing == broken \union
                     {i \in job.ran : steps[i].does = "script" /\ ~steps[i].works}
        failedBefore(i) == \E k \in failing : k < i
    IN  /\ job.failed <=> failing # {}
        /\ \A i \in 1..n :
             i \in job.ran <=>
               CASE steps[i].cond \in {<< >>, IfSuccess, <<"!">> \o IfFailed} -> ~failedBefore(i)
                 [] steps[i].cond = Wrapped(IfFailed) -> failedBefore(i)
                 [] steps[i].cond \in {Always, <<"ref", "==", "main">>} -> TRUE
                 [] OTHER -> FALSE

\* A condition is its first span: what stands around it is ignored.
ASSUME OnlyTheSpanCounts ==
  \A ctx \in StatusContexts :
    /\ EvaluateCondition(Wrapped(IfFailed), ctx) = Bool(ctx.failed)
    /\ EvaluateCondition(<<"!">> \o Wrapped(IfFailed), ctx) = Bool(ctx.failed)
    /\ EvaluateCondition(Wrapped(IfSuccess) \o <<"&&">> \o Wrapped(<<"false">>), ctx)
         = EvaluateCondition(IfSuccess, ctx)
=============================================================================
