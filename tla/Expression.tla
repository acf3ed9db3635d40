----------------------------- MODULE Expression -----------------------------
(***************************************************************************)
(* The conditions of a workflow: what ParseExpression makes of an if:, and *)
(* what EvaluateCondition says of it. An expression is a sequence of       *)
(* tokens, and a text stands for all its spellings in capitals and small   *)
(* letters, which compare as equal. What the functions of text (contains,  *)
(* format, ...) return is left out.                                        *)
(***************************************************************************)
EXTENDS Integers, Sequences, FiniteSets, SequencesExt, TLC

CONSTANTS
  Paths,     \* tokens that name an entry of a context, such as github.ref
  Literals   \* tokens that are literals, by their text without quotes

\* knownFunctions, those of text left out
FunctionNames == {"success", "failure", "always", "cancelled", "hashFiles"}

\* Binary operators, those that bind weakest first; all are left-associative.
Levels == <<{"||"}, {"&&"}, {"==", "!="}, {"<", "<=", ">", ">="}>>

-----------------------------------------------------------------------------
(* Parsing. A result has the tree, the place of the next token and whether *)
(* there is no diagnostic of severity error. Parsing goes on after one.    *)

NoNode == [kind |-> "none"]
Literal(text) == [kind |-> "literal", value |-> text]
Context(path) == [kind |-> "context", value |-> path]
Not(e) == [kind |-> "unary", operand |-> e]
Binary(op, l, r) == [kind |-> "binary", op |-> op, left |-> l, right |-> r]
Call(fn, args) == [kind |-> "call", fn |-> fn, args |-> args]

Parsed(node, at, ok) == [node |-> node, at |-> at, ok |-> ok]

Sees(tokens, i, set) == i \in DOMAIN tokens /\ tokens[i] \in set

RECURSIVE ParseLevel(_, _, _), ParseRest(_, _, _), ParseUnary(_, _), ParseArgs(_, _)

\* parseOr, parseAnd, parseEquality and parseComparison, by their level.
ParseLevel(level, tokens, i) ==
  IF level > Len(Levels) THEN ParseUnary(tokens, i)
  ELSE ParseRest(level, tokens, ParseLevel(level + 1, tokens, i))

\* The loop of these four: what is parsed becomes the left operand of the next operator.
ParseRest(level, tokens, left) ==
  IF ~Sees(tokens, left.at, Levels[level]) THEN left
  ELSE LET right == ParseLevel(level + 1, tokens, left.at + 1)
           node == Binary(tokens[left.at], left.node, right.node)
       IN  ParseRest(level, tokens, Parsed(node, right.at, left.ok /\ right.ok))

\* Parentheses leave no trace in the tree.
Group(tokens, i) ==
  LET inner == ParseLevel(1, tokens, i + 1)
  IN  IF Sees(tokens, inner.at, {")"}) THEN [inner EXCEPT !.at = @ + 1]
      ELSE [inner EXCEPT !.ok = FALSE]

\* Arguments with nothing in their place are dropped, with a diagnostic.
ParseArgs(tokens, i) ==
  LET first == ParseLevel(1, tokens, i)
      args == IF first.node = NoNode THEN << >> ELSE <<first.node>>
  IN  IF ~Sees(tokens, first.at, {","}) THEN Parsed(args, first.at, first.ok)
      ELSE LET rest == ParseArgs(tokens, first.at + 1)
           IN  Parsed(args \o rest.node, rest.at, first.ok /\ rest.ok)

ParseCall(fn, tokens, i) ==
  LET args == IF Sees(tokens, i + 1, {")"}) THEN Parsed(<< >>, i + 1, TRUE)
              ELSE ParseArgs(tokens, i + 1)
      closed == Sees(tokens, args.at, {")"})
  IN  Parsed(Call(fn, args.node), IF closed THEN args.at + 1 ELSE args.at, closed /\ args.ok)

ParsePrimary(tokens, i) ==
  CASE Sees(tokens, i, {"("}) -> Group(tokens, i)
    [] Sees(tokens, i, Literals) -> Parsed(Literal(tokens[i]), i + 1, TRUE)
    [] Sees(tokens, i, Paths \union FunctionNames) ->
         IF Sees(tokens, i + 1, {"("}) THEN ParseCall(tokens[i], tokens, i + 1)
         ELSE Parsed(Context(tokens[i]), i + 1, TRUE)
    [] OTHER -> Parsed(NoNode, i, FALSE)

ParseUnary(tokens, i) ==
  IF ~Sees(tokens, i, {"!"}) THEN ParsePrimary(tokens, i)
  ELSE LET r == ParseUnary(tokens, i + 1) IN [r EXCEPT !.node = Not(@)]

\* No tokens parse to nothing; what is left over is an error.
ParseExpression(tokens) ==
  IF tokens = << >> THEN Parsed(NoNode, 1, TRUE)
  ELSE LET r == ParseLevel(1, tokens, 1) IN [r EXCEPT !.ok = @ /\ r.at > Len(tokens)]

-----------------------------------------------------------------------------
(* Evaluating, with the entries of the contexts and the status of the job. *)

Null == [t |-> "null"]
Str(s) == [t |-> "string", v |-> s]
Number(n) == [t |-> "number", v |-> n]
Bool(b) == [t |-> "bool", v |-> b]
Failure == [t |-> "error"]

truthy(x) ==
  CASE x.t = "null" -> FALSE
    [] x.t = "bool" -> x.v
    [] x.t = "number" -> x.v # 0
    [] x.t = "string" -> x.v # ""

\* Numerals of one digit: what ParseFloat reads.
Digits == 0..9
IsNumeral(text) == \E n \in Digits : ToString(n) = text
Value(text) == CHOOSE n \in Digits : ToString(n) = text

asString(x) ==
  CASE x.t = "null" -> ""
    [] x.t = "bool" -> IF x.v THEN "true" ELSE "false"
    [] x.t = "number" -> ToString(x.v)
    [] x.t = "string" -> x.v

HasNumber(x) == x.t = "string" => x.v = "" \/ IsNumeral(x.v)

asNumber(x) ==
  CASE x.t = "number" -> x.v
    [] x.t = "bool" -> IF x.v THEN 1 ELSE 0
    [] x.t = "null" \/ x = Str("") -> 0
    [] OTHER -> Value(x.v)

\* Quotes are gone: 'true' and '1' are no texts.
literalValue(text) ==
  CASE text \in {"true", "false"} -> Bool(text = "true")
    [] IsNumeral(text) -> Number(Value(text))
    [] OTHER -> Str(text)

looseEqual(a, b) ==
  CASE "number" \in {a.t, b.t} /\ HasNumber(a) /\ HasNumber(b) -> asNumber(a) = asNumber(b)
    [] "bool" \in {a.t, b.t} -> truthy(a) = truthy(b)
    [] OTHER -> asString(a) = asString(b)

compare(op, a, b) ==
  /\ HasNumber(a) /\ HasNumber(b)
  /\ CASE op = "<" -> asNumber(a) < asNumber(b)
       [] op = "<=" -> asNumber(a) <= asNumber(b)
       [] op = ">" -> asNumber(a) > asNumber(b)
       [] op = ">=" -> asNumber(a) >= asNumber(b)

Apply(op, a, b) ==
  CASE op = "==" -> looseEqual(a, b)
    [] op = "!=" -> ~looseEqual(a, b)
    [] OTHER -> compare(op, a, b)

\* hashFiles has a name for the parser and no meaning here.
evalCall(fn, ctx) ==
  CASE fn = "success" -> Bool(~ctx.failed /\ ~ctx.cancelled)
    [] fn = "failure" -> Bool(ctx.failed)
    [] fn = "cancelled" -> Bool(ctx.cancelled)
    [] fn = "always" -> Bool(TRUE)
    [] OTHER -> Failure

RECURSIVE EvaluateExpression(_, _)

\* The right operand of && and || is evaluated only if the left one does not decide.
EvaluateExpression(node, ctx) ==
  LET of(e) == EvaluateExpression(e, ctx)
  IN  CASE node.kind = "literal" -> literalValue(node.value)
        [] node.kind = "context" -> IF node.value \in DOMAIN ctx.entries
                                    THEN Str(ctx.entries[node.value]) ELSE Null
        [] node.kind = "unary" -> LET x == of(node.operand)
                                  IN  IF x = Failure THEN x ELSE Bool(~truthy(x))
        [] node.kind = "binary" ->
             LET a == of(node.left)
                 decided == node.op \in {"&&", "||"} /\ truthy(a) = (node.op = "||")
                 b == of(node.right)
             IN  CASE a = Failure -> a
                   [] a # Failure /\ decided -> a
                   [] OTHER -> IF b = Failure \/ node.op \in {"&&", "||"} THEN b
                               ELSE Bool(Apply(node.op, a, b))
        [] node.kind = "call" ->
             IF \E i \in DOMAIN node.args : of(node.args[i]) = Failure THEN Failure
             ELSE evalCall(node.fn, ctx)

-----------------------------------------------------------------------------
(* Conditions. *)

\* The place of the }} that closes a span opened before from, 0 if there is none.
findExprEnd(tokens, from) ==
  LET depth(j) == Cardinality({k \in from..j : tokens[k] = "${{"})
                    - Cardinality({k \in from..j : tokens[k] = "}}"})
      ends == {j \in from..Len(tokens) : depth(j) = -1}
  IN  IF ends = {} THEN 0 ELSE CHOOSE j \in ends : \A k \in ends : j <= k

\* What is evaluated of a condition: the first span, if it has one.
Span(cond) ==
  LET start == SelectInSeq(cond, LAMBDA token : token = "${{")
      end == findExprEnd(cond, start + 1)
  IN  CASE start = 0 -> Parsed(cond, 1, TRUE)
        [] start # 0 /\ end = 0 -> Parsed(<< >>, 1, FALSE)
        [] OTHER -> Parsed(SubSeq(cond, start + 1, end - 1), 1, TRUE)

\* An empty condition holds. It fails if it does not parse or cannot be evaluated.
EvaluateCondition(cond, ctx) ==
  LET span == Span(cond)
      parsed == ParseExpression(span.node)
      result == EvaluateExpression(parsed.node, ctx)
  IN  CASE ~span.ok \/ ~parsed.ok -> Failure
        [] span.ok /\ parsed.ok /\ parsed.node = NoNode -> Bool(TRUE)
        [] OTHER -> IF result = Failure THEN result ELSE Bool(truthy(result))
=============================================================================
