--------------------------- MODULE ConditionMeaning ---------------------------
(***************************************************************************)
(* What the "if" of a step means, said of expression trees: the reference  *)
(* the evaluator in JobExecutor is compared with.                          *)
(*                                                                         *)
(* A tree is the list of its nodes: <<"lit", v>>, <<"call", name>>,        *)
(* <<"path", parts>>, <<"not", e>>, or <<op, l, r>> with op a comparison,  *)
(* "&&" or "||", where e, l and r are the numbers of nodes before it.  The *)
(* last node is the root.  The steps of a plan carry the tree of their     *)
(* "if" in a field of its own, NoTree where the tokens are not the text of *)
(* an expression.                                                          *)
(***************************************************************************)
EXTENDS JobExecutor

NoTree == <<>>

Binary == {"&&", "||"}

IsLiteral(v) == v \in {Nil, Bool(TRUE), Bool(FALSE)} \/ v = Num(v[2]) \/ v = Str(v[2])

IsPath(parts) == Len(parts) \in Nat \ {0} /\ parts = [j \in 1..Len(parts) |-> parts[j]]

\* n can be node number k.
IsNode(n, k) ==
  \/ n[1] = "lit"  /\ IsLiteral(n[2])
  \/ n[1] = "call"
  \/ n[1] = "path" /\ IsPath(n[2])
  \/ n[1] = "not"  /\ n[2] \in 1..(k - 1)
  \/ n[1] \in Comparisons \cup Binary /\ n[2] \in 1..(k - 1) /\ n[3] \in 1..(k - 1)

IsTree(t) ==
  /\ Len(t) \in Nat \ {0}
  /\ \A k \in 1..Len(t) : IsNode(t[k], k)

\* How tightly the operator of a node binds.
Strength(n) ==
  CASE n[1] = "||"           -> 1
    [] n[1] = "&&"           -> 2
    [] n[1] = "not"          -> 3
    [] n[1] \in Comparisons  -> 4
    [] OTHER                 -> 5

Ident(name) == [typ |-> "ident", val |-> name]

Literal(v) ==
  CASE v[1] = "nil"  -> [typ |-> "null", val |-> "null"]
    [] v[1] = "bool" -> [typ |-> "bool", val |-> ValueToString(v)]
    [] v[1] = "num"  -> [typ |-> "number", val |-> v[2]]
    [] OTHER         -> [typ |-> "string", val |-> v[2]]

\* A path with its dots.
Dotted(parts) ==
  [n \in 1..(2 * Len(parts) - 1) |-> IF n % 2 = 1 THEN Ident(parts[(n + 1) \div 2]) ELSE Sign(".")]

\* The text of node j in a place for operands of a strength, with parentheses
\* only if it binds less tightly.
Placed(t, text, j, strength) ==
  IF Strength(t[j]) >= strength THEN text[j]
  ELSE <<Sign("(")>> \o text[j] \o <<Sign(")")>>

Prefix(sign, e)   == <<Sign(sign)>> \o e
Infix(l, sign, r) == l \o <<Sign(sign)>> \o r

NodeText(t, text, k) ==
  LET n == t[k]
      at(j, strength) == Placed(t, text, j, strength)
  IN  CASE n[1] = "lit"  -> <<Literal(n[2])>>
        [] n[1] = "call" -> Call(n[2])
        [] n[1] = "path" -> Dotted(n[2])
        [] n[1] = "not"  -> Prefix("!", at(n[2], 3))
        [] n[1] \in Comparisons -> Infix(at(n[2], 5), n[1], at(n[3], 5))
        [] n[1] \in Binary      -> Infix(at(n[2], Strength(n)), n[1], at(n[3], Strength(n) + 1))

\* The texts of the nodes, and the text of the tree.
Texts(t) ==
  LET text[k \in 1..Len(t)] == NodeText(t, text, k)
  IN  text

Text(t) == Texts(t)[Len(t)]

ASSUME MeaningAssumption ==
  \A p \in Plans : \A k \in DOMAIN p : p[k].tree # NoTree =>
    IsTree(p[k].tree) /\ p[k].cond = Text(p[k].tree)

\* An unknown function has no value, and neither has what contains one.
Undefined == [def |-> FALSE]
Means(v) == [def |-> TRUE, val |-> v]

NodeMeaning(t, mean, k, ctx) ==
  LET n == t[k]
  IN  CASE n[1] = "lit"  -> Means(n[2])
        [] n[1] = "call" -> IF n[2] \in KnownFunctions THEN Means(CallFunction(n[2], ctx)) ELSE Undefined
        [] n[1] = "path" -> Means(Lookup(n[2], ctx))
        [] n[1] = "not"  ->
             LET e == mean[n[2]]
             IN  IF e.def THEN Means(Bool(~IsTruthy(e.val))) ELSE Undefined
        [] OTHER ->
             LET l == mean[n[2]]
                 r == mean[n[3]]
             IN  IF ~(l.def /\ r.def) THEN Undefined
                 ELSE IF n[1] \in Comparisons THEN Means(EvalComparison(l.val, n[1], r.val))
                 ELSE Means(Bool(Combine(n[1], IsTruthy(l.val), IsTruthy(r.val))))

\* The meanings of the nodes, and the meaning of the tree.
Meanings(t, ctx) ==
  LET mean[k \in 1..Len(t)] == NodeMeaning(t, mean, k, ctx)
  IN  mean

Meaning(t, ctx) == Meanings(t, ctx)[Len(t)]

(***************************************************************************)
(* A step with an "if" runs iff that is the text of an expression whose    *)
(* value is true at this point of the job: "&&" binds tighter than "||",   *)
(* "!" tighter than both but less than a comparison, and parentheses,      *)
(* negations and operands nest.  Text that is no expression, and an        *)
(* expression with an unknown function in any operand, also in one that    *)
(* does not decide the value, skip the step (eval.go:43-54, 217-374,       *)
(* executor.go:287-303).                                                   *)
(***************************************************************************)
ConditionMeansTree ==
  pc = "step" /\ i \in DOMAIN plan /\ step.cond # <<>> =>
    (ShouldRun <=> /\ step.tree # NoTree
                   /\ LET m == Meaning(step.tree, BuildEvalContext)
                      IN  m.def /\ IsTruthy(m.val))
===============================================================================
