--------------------------------- MODULE Expr ---------------------------------
(***************************************************************************)
(* The expression evaluator of internal/runner/eval.go and the context it  *)
(* reads (context.go): a recursive-descent parser that evaluates as it     *)
(* goes, so an operand that does not decide the value is still evaluated   *)
(* and its error is still an error.                                        *)
(*                                                                         *)
(* The input is a token sequence: tokenize is left out, and so are the     *)
(* functions that build or search text (contains, startsWith, endsWith,    *)
(* format, join, toJSON, fromJSON).  What Go's string functions say about  *)
(* the words that occur are constants.                                     *)
(***************************************************************************)
EXTENDS Integers, Sequences, TLC

CONSTANTS
  LowerOf,     \* strings.ToLower of the words with capitals
  NumberOf,    \* strconv.ParseFloat of the words it accepts
  Dictionary   \* the lower-case words in the order of strings.Compare

-------------------------------------------------------------------------------
(* Values: nil, bool, number, string, and the maps of the context. *)

Nil     == <<"nil">>
Bool(b) == <<"bool", b>>
Num(n)  == <<"num", n>>
Str(s)  == <<"str", s>>
Map(f)  == <<"map", f>>

IsTruthy(v) ==
  CASE v[1] = "nil"  -> FALSE
    [] v[1] = "bool" -> v[2]
    [] v[1] = "num"  -> v[2] # 0
    [] v[1] = "str"  -> v[2] # ""
    [] OTHER         -> TRUE

\* A map becomes its JSON text, which is no other word.
ValueToString(v) ==
  CASE v[1] = "nil"  -> ""
    [] v[1] = "bool" -> IF v[2] THEN "true" ELSE "false"
    [] v[1] = "num"  -> ToString(v[2])
    [] v[1] = "str"  -> v[2]
    [] OTHER         -> "json"

IsFloat(v) == v[1] = "num" \/ (v[1] = "str" /\ v[2] \in DOMAIN NumberOf)
ToFloat(v) == IF v[1] = "num" THEN v[2] ELSE NumberOf[v[2]]

Lower(s) == IF s \in DOMAIN LowerOf THEN LowerOf[s] ELSE s
Folded(v) == Lower(ValueToString(v))

\* nil equals nil only; numbers, and texts that are numbers, by value.
ValuesEqual(a, b) ==
  IF a = Nil \/ b = Nil THEN a = Nil /\ b = Nil
  ELSE IF IsFloat(a) /\ IsFloat(b) THEN ToFloat(a) = ToFloat(b)
  ELSE Folded(a) = Folded(b)

\* The side the order comparisons put a on, as a number: by value or by text.
Place(a, b) ==
  IF IsFloat(a) /\ IsFloat(b) THEN ToFloat(a)
  ELSE CHOOSE n \in DOMAIN Dictionary : Dictionary[n] = Folded(a)

EvalComparison(l, op, r) ==
  Bool(CASE op = "==" -> ValuesEqual(l, r)
         [] op = "!=" -> ~ValuesEqual(l, r)
         [] op = "<"  -> Place(l, r) < Place(r, l)
         [] op = "<=" -> Place(l, r) <= Place(r, l)
         [] op = ">"  -> Place(l, r) > Place(r, l)
         [] op = ">=" -> Place(l, r) >= Place(r, l))

-------------------------------------------------------------------------------
(* The context: [vars, jobStatus, cancelled]; vars maps "env", "steps"... to maps. *)

\* A key as it is written or, failing that, one that differs in case only.
Child(v, part) ==
  IF v[1] # "map" THEN Nil
  ELSE IF part \in DOMAIN v[2] THEN v[2][part]
  ELSE LET keys == {k \in DOMAIN v[2] : Lower(k) = Lower(part)}
       IN  IF keys = {} THEN Nil ELSE v[2][CHOOSE k \in keys : TRUE]

LookupValue(parts, v) ==
  LET at[n \in 0..Len(parts)] == IF n = 0 THEN v ELSE Child(at[n - 1], parts[n])
  IN  at[Len(parts)]

\* The first part, and the ID of a step, have to be spelled exactly.
Lookup(parts, ctx) ==
  LET root == parts[1]
  IN  CASE root \notin DOMAIN ctx.vars -> Nil
        [] root # "steps" -> LookupValue(Tail(parts), Map(ctx.vars[root]))
        [] OTHER ->
             IF Len(parts) < 2 \/ parts[2] \notin DOMAIN ctx.vars.steps THEN Nil
             ELSE LookupValue(Tail(Tail(parts)), ctx.vars.steps[parts[2]])

KnownFunctions == {"always", "success", "failure", "cancelled", "hashFiles"}

CallFunction(name, ctx) ==
  CASE name = "always"    -> Bool(TRUE)
    [] name = "success"   -> Bool(ctx.jobStatus \in {"success", "pending"})
    [] name = "failure"   -> Bool(ctx.jobStatus = "failure")
    [] name = "cancelled" -> Bool(ctx.cancelled)
    [] name = "hashFiles" -> Str("")

-------------------------------------------------------------------------------
(* The parser.  A token has a type, typ, and a value, val (itself for a sign). *)

Comparisons == {"==", "!=", "<", "<=", ">", ">="}

Fail == [ok |-> FALSE]
Result(v, next) == [ok |-> TRUE, val |-> v, next |-> next]

\* peek().typ at position p
Peek(toks, p) == IF p > Len(toks) THEN "EOF" ELSE toks[p].typ

Combine(sign, a, b) == IF sign = "||" THEN a \/ b ELSE a /\ b

\* operand sign operand ...: right-recursive here, since the loop of the code
\* folds an associative operation.
Chain(parse, rule, operand, sign, toks, p) ==
  LET l == parse[<<operand, p>>]
  IN  IF ~l.ok \/ Peek(toks, l.next) # sign THEN l
      ELSE LET r == parse[<<rule, l.next + 1>>]
           IN  IF r.ok THEN Result(Bool(Combine(sign, IsTruthy(l.val), IsTruthy(r.val))), r.next)
               ELSE Fail

\* Mutant: a "!" takes the primary that follows only.
MutParseNot(parse, toks, p) ==
  IF Peek(toks, p) # "!" THEN parse[<<"comparison", p>>]
  ELSE LET e == parse[<<"primary", p + 1>>]
       IN  IF e.ok THEN Result(Bool(~IsTruthy(e.val)), e.next) ELSE Fail

\* A "!" takes the whole comparison that follows.
ParseNot(parse, toks, p) ==
  IF Peek(toks, p) # "!" THEN parse[<<"comparison", p>>]
  ELSE LET e == parse[<<"not", p + 1>>]
       IN  IF e.ok THEN Result(Bool(~IsTruthy(e.val)), e.next) ELSE Fail

\* One comparison: a second sign is left for the caller.
ParseComparison(parse, toks, p) ==
  LET l == parse[<<"primary", p>>]
  IN  IF ~l.ok \/ Peek(toks, l.next) \notin Comparisons THEN l
      ELSE LET r == parse[<<"primary", l.next + 1>>]
           IN  IF r.ok THEN Result(EvalComparison(l.val, Peek(toks, l.next), r.val), r.next)
               ELSE Fail

\* e and then the closing sign.
Closed(e, toks) ==
  IF e.ok /\ Peek(toks, e.next) = ")" THEN Result(e.val, e.next + 1) ELSE Fail

\* The arguments from p on, up to ")" or the end, as the number of them.
ParseArgs(parse, toks, p, first) ==
  IF Peek(toks, p) \in {")", "EOF"} THEN Result(0, p)
  ELSE IF ~first /\ Peek(toks, p) # "," THEN Fail
  ELSE LET e == parse[<<"or", IF first THEN p ELSE p + 1>>]
       IN  IF e.ok THEN parse[<<"rest", e.next>>] ELSE Fail

\* The parts .name and [n] from p on.  No array is in the context, so that an
\* index finds nothing: "[n]" is the key of nothing.
ParseParts(parse, toks, p) ==
  LET then(part, next) ==
        LET e == parse[<<"parts", next>>]
        IN  IF e.ok THEN Result(<<part>> \o e.val, e.next) ELSE Fail
  IN  CASE Peek(toks, p) = "." ->
             IF Peek(toks, p + 1) = "ident" THEN then(toks[p + 1].val, p + 2) ELSE Fail
        [] Peek(toks, p) = "[" ->
             IF Peek(toks, p + 1) = "number" /\ Peek(toks, p + 2) = "]"
             THEN then("[n]", p + 3) ELSE Fail
        [] OTHER -> Result(<<>>, p)

\* A call, or a path into the context.
ParseIdentOrCall(parse, toks, p, ctx) ==
  IF Peek(toks, p + 1) = "("
  THEN LET args == Closed(parse[<<"args", p + 2>>], toks)
       IN  IF args.ok /\ toks[p].val \in KnownFunctions
           THEN Result(CallFunction(toks[p].val, ctx), args.next) ELSE Fail
  ELSE LET parts == parse[<<"parts", p + 1>>]
       IN  IF parts.ok THEN Result(Lookup(<<toks[p].val>> \o parts.val, ctx), parts.next)
           ELSE Fail

ParsePrimary(parse, toks, p, ctx) ==
  CASE Peek(toks, p) = "("      -> Closed(parse[<<"or", p + 1>>], toks)
    [] Peek(toks, p) = "string" -> Result(Str(toks[p].val), p + 1)
    [] Peek(toks, p) = "number" -> Result(Num(toks[p].val), p + 1)
    [] Peek(toks, p) = "bool"   -> Result(Bool(toks[p].val = "true"), p + 1)
    [] Peek(toks, p) = "null"   -> Result(Nil, p + 1)
    [] Peek(toks, p) = "ident"  -> ParseIdentOrCall(parse, toks, p, ctx)
    [] OTHER                    -> Fail

Rules == {"or", "and", "not", "comparison", "primary", "args", "rest", "parts"}

ParseRule(parse, rule, toks, p, ctx) ==
  CASE rule = "or"         -> Chain(parse, "or", "and", "||", toks, p)
    [] rule = "and"        -> Chain(parse, "and", "not", "&&", toks, p)
    [] rule = "not"        -> ParseNot(parse, toks, p)
    [] rule = "comparison" -> ParseComparison(parse, toks, p)
    [] rule = "primary"    -> ParsePrimary(parse, toks, p, ctx)
    [] rule = "args"       -> ParseArgs(parse, toks, p, TRUE)
    [] rule = "rest"       -> ParseArgs(parse, toks, p, FALSE)
    [] rule = "parts"      -> ParseParts(parse, toks, p)

\* What each rule makes of the tokens from each position on.
Parser(toks, ctx) ==
  LET parse[x \in Rules \X (1..(Len(toks) + 1))] == ParseRule(parse, x[1], toks, x[2], ctx)
  IN  parse

\* The expression has to reach to the last token.
Eval(toks, ctx) ==
  LET e == Parser(toks, ctx)[<<"or", 1>>]
  IN  IF e.ok /\ e.next > Len(toks) THEN e ELSE Fail

\* What the callers of EvalBool do with it: an error is no "true".
EvalBool(toks, ctx) ==
  LET e == Eval(toks, ctx) IN e.ok /\ IsTruthy(e.val)
===============================================================================
