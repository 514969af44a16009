---------------------------- MODULE MCJobExecutor ----------------------------
(***************************************************************************)
(* JobExecutor for TLC: every job of up to MaxSteps of the steps below, a  *)
(* job whose steps try every status function after a failure, and for each *)
(* condition a job that evaluates it after a step that may fail, set a     *)
(* variable and an output.                                                 *)
(***************************************************************************)
EXTENDS ConditionMeaning

CONSTANT MaxSteps

Step(kind, tree, cond, coe, cmds) ==
  [kind |-> kind, tree |-> tree, cond |-> cond, coe |-> coe, cmds |-> cmds]

\* A step without "if", and one with the expression f().
Plain(kind, coe) ==
  Step(kind, NoTree, <<>>, coe, IF kind \in {"run", "docker"} THEN <<[coe |-> FALSE]>> ELSE <<>>)
If(f, s) == [s EXCEPT !.tree = <<<<"call", f>>>>, !.cond = Call(f)]

MCSteps ==
  {Plain("run", b) : b \in BOOLEAN} \cup {If("always", Plain("run", b)) : b \in BOOLEAN}
    \cup {Step("composite", NoTree, <<>>, FALSE, <<[coe |-> TRUE], [coe |-> FALSE]>>),
          Plain("unsupported", TRUE), If("failure", Plain("docker", FALSE))}

MCConds ==
  <<Plain("run", FALSE), If("success", Plain("checkout", FALSE)),
    If("failure", Plain("run", FALSE)), If("cancelled", Plain("run", FALSE)),
    If("unknown", Plain("run", FALSE)), If("always", Plain("checkout", FALSE))>>

-------------------------------------------------------------------------------
\* Words: what strings.ToLower, ParseFloat and Compare say about them.
MCLowerOf    == "Failure" :> "failure" @@ "Outcome" :> "outcome" @@ "SET" :> "set"
MCNumberOf   == "0" :> 0 @@ "2" :> 2 @@ "10" :> 10
MCDictionary == <<"", "0", "10", "2", "failure", "false", "set", "success", "true">>

\* Trees: one node, and what an operator makes of others.
CallOf(f) == <<<<"call", f>>>>
Lit(v)    == <<<<"lit", v>>>>
Path(s)   == <<<<"path", s>>>>
Not(t)    == Append(t, <<"not", Len(t)>>)

\* The nodes of t behind d others.
Behind(d, t) ==
  [k \in DOMAIN t |->
     CASE t[k][1] = "not"                    -> <<"not", t[k][2] + d>>
       [] t[k][1] \in Comparisons \cup Binary -> <<t[k][1], t[k][2] + d, t[k][3] + d>>
       [] OTHER                              -> t[k]]

Op(op, l, r) == l \o Behind(Len(l), r) \o <<<<op, Len(l), Len(l) + Len(r)>>>>
Ops(S, L, R) == {Op(op, l, r) : op \in S, l \in L, r \in R}

Step0(name) == Path(<<"steps", "__step_0", name>>)

\* Operands: status functions, an unknown function, texts of true and false look.
Atoms ==
  {CallOf("failure"), CallOf("hashFiles"), CallOf("unknown"),
   Lit(Str("false")), Step0("Outcome"), Lit(Str("Failure"))}

\* Comparisons that numbers, texts, case, nil and absent names decide differently.
Compared ==
  Ops(Comparisons, {Lit(Str("10")), Lit(Num(2))}, {Lit(Num(10)), Lit(Str("2"))})
    \cup Ops({"=="},
             {Path(<<"env", "__step_0">>), Path(<<"steps">>), Step0("conclusion"),
              Path(<<"steps", "__STEP_0", "conclusion">>),
              Path(<<"steps", "__step_0", "outputs", "__step_0">>),
              Path(<<"job", "status">>), Lit(Bool(TRUE))},
             {Lit(Str("SET")), Lit(Str("success")), Lit(Str("true")), Lit(Nil)})
    \cup {Op(">", Step0("outcome"), Lit(Str("false")))}

MCTrees ==
  LET ops == {"&&", "||", "=="}
      few == {CallOf("failure"), Lit(Str("false")), CallOf("hashFiles")}
      duo == Ops(ops, few, few)
  IN  Atoms \cup Ops(ops, Atoms, Atoms) \cup Compared
        \cup {CallOf(f) : f \in {"always", "success", "cancelled", "contains"}}
        \cup {Not(t) : t \in Atoms \cup duo} \cup {Not(Not(t)) : t \in Atoms}
        \cup Ops(ops, duo, few) \cup Ops(ops, few, duo)
        \cup Ops(ops, {Not(t) : t \in few}, few)

\* No expressions: half of one, two of them, a chain of comparisons, a call or a
\* path that does not end.
always == Call("always")
Malformed ==
  {<<Sign("(")>> \o always, always \o always, always \o <<Sign("&&")>>, <<Sign("!")>>,
   always \o <<Sign("==")>> \o always \o <<Sign("==")>> \o always, SubSeq(always, 1, 2),
   <<Ident("env"), Sign(".")>>, <<Ident("env"), Sign("["), Ident("a"), Sign("]")>>,
   <<Ident("always"), Sign("("), Sign(","), Sign(")")>>}

MCPlans ==
  UNION {[1..n -> MCSteps] : n \in 1..MaxSteps} \cup {MCConds}
    \cup {<<Plain("run", FALSE), Step("checkout", t, Text(t), FALSE, <<>>)>> : t \in MCTrees}
    \cup {<<Plain("run", FALSE), Step("checkout", NoTree, c, FALSE, <<>>)>> : c \in Malformed}
===============================================================================
