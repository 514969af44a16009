--------------------------- MODULE JobExecutorProofs ---------------------------
(***************************************************************************)
(* Theorems about JobExecutor, for jobs of any number of steps and         *)
(* commands, with any conditions: what a job leaves behind, what its       *)
(* result says, what the evaluator makes of an expression of any size, and *)
(* which steps run.                                                        *)
(***************************************************************************)
EXTENDS ConditionMeaning, WellFoundedInduction, TLAPS

(***************************************************************************)
(* TypeOK in two parts: the flags, and the rest.                           *)
(***************************************************************************)
Flags ==
  /\ ctxDone \in BOOLEAN /\ connDone \in (IF ctxDone THEN BOOLEAN ELSE {FALSE})
  /\ failed \in BOOLEAN /\ missing \in BOOLEAN /\ tampered \in BOOLEAN

\* The types of the rest.
Data ==
  /\ \A k \in DOMAIN plan : IsStep(plan[k])
  /\ pc \in {"setup", "start", "step", "exec", "record", "cleanup", "returned"}
  /\ container \in {"none", "created", "running", "removed"}
  /\ i \in 1..(Len(plan) + 1)
  /\ pc \in {"exec", "record"} => i \in DOMAIN plan
  /\ pc = "exec" => cmd \in DOMAIN step.cmds
  /\ outcome \in [DOMAIN plan -> {"none", "skipped", "success", "failure"}]
  /\ jobStatus \in {"pending", "failure"}
  /\ file \in Seq(DOMAIN plan)
  /\ offset \in Nat
  /\ liveEnv \subseteq DOMAIN plan
  /\ outputs \in [DOMAIN plan -> SUBSET DOMAIN plan]
  /\ wrote \subseteq DOMAIN plan
  /\ artifacts \subseteq made /\ made \subseteq DOMAIN plan
  /\ strays \subseteq DOMAIN plan
  /\ result \in {"none", "success", "failure", "error"}

\* Both, for a job that is one of the plans.
TInv == plan \in Plans /\ Flags /\ Data

(***************************************************************************)
(* What the assumption on the constant says of the job at hand.            *)
(***************************************************************************)
LEMMA PlanIsSeq ==
  ASSUME plan \in Plans
  PROVE  /\ Len(plan) \in Nat /\ DOMAIN plan = 1..Len(plan)
         /\ \A k \in DOMAIN plan : IsStep(plan[k])
  BY ExecutorAssumption

(***************************************************************************)
(* A file of entries stays one when a step appends to it or overwrites it. *)
(***************************************************************************)
LEMMA EntriesOf ==
  ASSUME NEW S, NEW f \in Seq(S), NEW x \in S
  PROVE  Append(f, x) \in Seq(S) /\ <<x>> \in Seq(S) /\ <<>> \in Seq(S)
  OBVIOUS

\* A job that has not begun has the types.
LEMMA InitTInv == Init => TInv
  <1> SUFFICES ASSUME Init PROVE TInv
    OBVIOUS
  <1>1. plan \in Plans /\ Len(plan) \in Nat /\ DOMAIN plan = 1..Len(plan)
        /\ \A k \in DOMAIN plan : IsStep(plan[k])
    BY PlanIsSeq DEF Init
  <1>2. connDone = FALSE /\ ctxDone = FALSE /\ failed = FALSE /\ missing = FALSE
        /\ tampered = FALSE
    BY DEF Init
  <1>3. /\ pc = "setup" /\ container = "none" /\ i = 1 /\ cmd = 1 /\ jobStatus = "pending"
        /\ outcome = [k \in DOMAIN plan |-> "none"] /\ outputs = [k \in DOMAIN plan |-> {}]
        /\ file = <<>> /\ offset = 0 /\ liveEnv = {} /\ wrote = {} /\ made = {}
        /\ artifacts = {} /\ strays = {} /\ result = "none"
    BY DEF Init
  <1>4. i \in 1..(Len(plan) + 1)
    BY <1>1, <1>3
  <1>5. file \in Seq(DOMAIN plan)
    BY <1>3
  <1>6. ctxDone \in BOOLEAN /\ connDone \in (IF ctxDone THEN BOOLEAN ELSE {FALSE})
        /\ failed \in BOOLEAN /\ missing \in BOOLEAN /\ tampered \in BOOLEAN
    BY <1>2, Zenon
  <1> QED
    BY <1>1, <1>3, <1>4, <1>5, <1>6 DEF TInv, Flags, Data

(***************************************************************************)
(* Every action keeps the types: a step is begun and recorded only while   *)
(* one is left, and a command run only while the step has one.             *)
(***************************************************************************)
LEMMA NextTInv == TInv /\ [Next]_vars => TInv'
  <1> SUFFICES ASSUME TInv, [Next]_vars PROVE TInv'
    OBVIOUS
  <1>1. /\ plan \in Plans /\ Flags /\ Data /\ Len(plan) \in Nat /\ DOMAIN plan = 1..Len(plan)
        /\ \A k \in DOMAIN plan : IsStep(plan[k])
    BY PlanIsSeq DEF TInv
  <1>2. Flags'
    <2> USE DEF Flags
    <2>1. CASE Cancel
      BY <1>1, <2>1, Zenon DEF Cancel, stepVars, fileVars
    <2>2. CASE JobTimeout
      <3>1. connDone \in BOOLEAN
        BY <1>1, Zenon
      <3> QED
        BY <1>1, <2>2, <3>1, Zenon DEF JobTimeout, stepVars, fileVars
    <2>3. CASE JobIfFalse \/ SetupFails \/ CreateContainer \/ StartContainer \/ StartFails \/ Remove
      BY <1>1, <2>3, Zenon DEF JobIfFalse, SetupFails, CreateContainer, StartContainer,
                               StartFails, Remove, stepVars, fileVars
    <2>4. CASE SkipStep
      BY <1>1, <2>4, Zenon DEF SkipStep, fileVars
    <2>5. CASE BeginStep
      <3>1. CannotExecute \in BOOLEAN
        BY Zenon DEF CannotExecute
      <3>2. failed' \in {CannotExecute} \cup {b \in {TRUE} : MayNotResolve}
        BY <2>5, Zenon DEF BeginStep
      <3>3. failed' \in BOOLEAN
        BY <3>1, <3>2, Zenon
      <3> QED
        BY <1>1, <2>5, <3>3, Zenon DEF BeginStep, fileVars
    <2>6. ASSUME NEW ok \in BOOLEAN, NEW effect \in Effects, Command(ok, effect) PROVE Flags'
      <3>1. failed' \in BOOLEAN /\ missing' \in BOOLEAN /\ tampered' \in BOOLEAN
        BY <2>6, Zenon DEF Command, StopsStep, WriteFile
      <3> QED
        BY <1>1, <2>6, <3>1, Zenon DEF Command
    <2>7. CASE RecordStep \/ Finish
      BY <1>1, <2>7, Zenon DEF RecordStep, Finish, stepVars
    <2>8. CASE UNCHANGED vars
      BY <1>1, <2>8, Zenon DEF vars
    <2> QED
      BY <2>1, <2>2, <2>3, <2>4, <2>5, <2>6, <2>7, <2>8 DEF Next
  <1>3. plan' \in Plans /\ Data'
    <2> USE DEF Data
    <2>1. CASE Cancel \/ JobTimeout
      BY <1>1, <2>1 DEF Cancel, JobTimeout, stepVars, fileVars, step
    <2>2. CASE JobIfFalse \/ SetupFails
      BY <1>1, <2>2 DEF JobIfFalse, SetupFails, stepVars, fileVars, step
    <2>3. CASE CreateContainer \/ StartContainer \/ StartFails \/ Remove
      BY <1>1, <2>3 DEF CreateContainer, StartContainer, StartFails, Remove, stepVars, fileVars,
                        step
    <2>4. CASE SkipStep
      <3>1. /\ i \in DOMAIN plan /\ i' = i + 1 /\ pc = "step"
            /\ outcome' = [outcome EXCEPT ![i] = "skipped"]
            /\ UNCHANGED <<plan, pc, container, cmd, jobStatus, fileVars, result>>
        BY <2>4 DEF SkipStep
      <3> QED
        BY <1>1, <3>1 DEF fileVars, step
    <2>5. CASE BeginStep
      <3>1. /\ cmd' = 1 /\ i \in DOMAIN plan /\ pc' \in {"record", "exec"}
            /\ pc' = "exec" => step.cmds # <<>>
            /\ UNCHANGED <<plan, container, i, outcome, jobStatus, fileVars, result>>
        BY <2>5 DEF BeginStep
      <3>2. step.cmds # <<>> => 1 \in DOMAIN step.cmds
        BY <1>1, <3>1 DEF IsStep, step
      <3> QED
        BY <1>1, <3>1, <3>2 DEF fileVars, step
    <2>6. ASSUME NEW ok \in BOOLEAN, NEW effect \in Effects, Command(ok, effect)
          PROVE  plan' \in Plans /\ Data'
      <3>1. i \in DOMAIN plan /\ IsStep(step) /\ cmd \in DOMAIN step.cmds
        BY <1>1, <2>6 DEF Command, step
      <3>2. file' \in Seq(DOMAIN plan)
        <4>1. file' \in {Append(file, i), <<i>>, <<>>, file}
          BY <2>6 DEF Command, WriteFile
        <4>2. file \in Seq(DOMAIN plan)
          BY <1>1
        <4>3. /\ Append(file, i) \in Seq(DOMAIN plan) /\ <<i>> \in Seq(DOMAIN plan)
              /\ <<>> \in Seq(DOMAIN plan)
          BY <3>1, <4>2, EntriesOf
        <4> QED
          BY <4>1, <4>2, <4>3, Zenon
      <3>3. wrote' \subseteq DOMAIN plan /\ made' \subseteq DOMAIN plan /\ made \subseteq made'
        <4>1. wrote' \in {wrote, wrote \cup {i}} /\ made' \in {made, made \cup {i}}
          BY <2>6 DEF Command, WriteFile
        <4> QED
          BY <1>1, <3>1, <4>1
      <3>4. pc' \in {"record", "exec"} /\ (pc' = "exec" => cmd' \in DOMAIN step.cmds)
        BY <2>6, <3>1 DEF Command, LastCommand, IsStep
      <3>5. UNCHANGED <<plan, container, i, outcome, jobStatus, offset, liveEnv, outputs,
                        artifacts, result>>
        BY <2>6 DEF Command
      <3>6. strays' \subseteq DOMAIN plan
        <4>1. strays' \in {strays, strays \cup {i}}
          BY <2>6 DEF Command, ActionContainer
        <4> QED
          BY <1>1, <3>1, <4>1
      <3> QED
        BY <1>1, <3>1, <3>2, <3>3, <3>4, <3>5, <3>6 DEF step
    <2>7. CASE RecordStep
      <3>1. i \in DOMAIN plan
        BY <1>1, <2>7 DEF RecordStep
      <3>2. Delta \subseteq DOMAIN plan
        BY <1>1 DEF Delta
      <3>3. offset' \in Nat
        BY <1>1, <2>7 DEF RecordStep, NewOffset
      <3>4. /\ outcome' \in [DOMAIN plan -> {"none", "skipped", "success", "failure"}]
            /\ outputs' \in [DOMAIN plan -> SUBSET DOMAIN plan]
            /\ liveEnv' \subseteq DOMAIN plan
            /\ jobStatus' \in {"pending", "failure"}
        BY <1>1, <2>7, <3>1, <3>2 DEF RecordStep, StatusAfter
      <3>5. /\ i' = i + 1 /\ pc' = "step"
            /\ UNCHANGED <<plan, container, cmd, file, wrote, made, artifacts, strays, result>>
        BY <2>7 DEF RecordStep
      <3> QED
        BY <1>1, <3>1, <3>3, <3>4, <3>5
    <2>8. CASE Finish
      BY <1>1, <2>8 DEF Finish, stepVars, step
    <2>9. CASE UNCHANGED vars
      BY <1>1, <2>9 DEF vars, step
    <2> QED
      BY <2>1, <2>2, <2>3, <2>4, <2>5, <2>6, <2>7, <2>8, <2>9 DEF Next
  <1> QED
    BY <1>2, <1>3 DEF TInv

(***************************************************************************)
(* The types hold for any jobs; the loop of steps and commands stays       *)
(* within its bounds (executor.go:278-345, action.go).                     *)
(***************************************************************************)
THEOREM TypeCorrect == Spec => []TypeOK
  <1>1. TInv => TypeOK
    BY Zenon DEF TInv, Flags, Data, TypeOK
  <1> QED
    BY <1>1, InitTInv, NextTInv, PTL DEF Spec

-------------------------------------------------------------------------------
(***************************************************************************)
(* There is no container before CreateContainer; whatever ends a job after *)
(* it goes through Remove.                                                 *)
(***************************************************************************)
ContainerInv == ContainerRemoved /\ (pc = "setup" => container = "none")

(***************************************************************************)
(* Unless the run's context ended, no way out of RunJob leaves a container *)
(* behind, and unless the job's ended no docker action leaves one          *)
(* (executor.go:256-274, action.go:423).                                   *)
(***************************************************************************)
THEOREM NoContainerBehind == Spec => []ContainerRemoved
  <1>1. Init => ContainerInv
    BY DEF Init, ContainerInv, ContainerRemoved
  <1>2. ContainerInv /\ [Next]_vars => ContainerInv'
    <2> SUFFICES ASSUME ContainerInv, [Next]_vars PROVE ContainerInv'
      OBVIOUS
    <2> USE DEF ContainerInv, ContainerRemoved
    <2>1. CASE Cancel \/ JobTimeout
      BY <2>1 DEF Cancel, JobTimeout, fileVars
    <2>2. CASE JobIfFalse \/ CreateContainer \/ StartContainer \/ StartFails
      BY <2>2 DEF JobIfFalse, CreateContainer, StartContainer, StartFails, fileVars
    <2>3. CASE SetupFails
      BY <2>3 DEF SetupFails, fileVars
    <2>4. CASE Remove
      BY <2>4 DEF Remove, fileVars
    <2>5. CASE SkipStep \/ BeginStep \/ RecordStep \/ Finish
      BY <2>5 DEF SkipStep, BeginStep, RecordStep, Finish, fileVars
    <2>6. CASE \E ok \in BOOLEAN, effect \in Effects : Command(ok, effect)
      BY <2>6 DEF Command, ActionContainer
    <2>7. CASE UNCHANGED vars
      BY <2>7 DEF vars, fileVars
    <2> QED
      BY <2>1, <2>2, <2>3, <2>4, <2>5, <2>6, <2>7 DEF Next
  <1>3. ContainerInv => ContainerRemoved
    BY DEF ContainerInv
  <1> QED
    BY <1>1, <1>2, <1>3, PTL DEF Spec

-------------------------------------------------------------------------------
(***************************************************************************)
(* How far the loop is: the steps before i have an outcome and the others  *)
(* none, the status of the job is that of the steps behind it, and only    *)
(* Finish sets the result of a job whose steps were begun.                 *)
(***************************************************************************)
Recorded == \A k \in DOMAIN plan : outcome[k] = "none" <=> k >= i

\* The job failed iff a step did that continue-on-error does not absorb.
StatusIsSteps == jobStatus = "failure" <=> \E k \in DOMAIN plan : Fatal(k)

\* A job past its first step gets its result from Finish, when it is past the last.
ResultFollows ==
  /\ pc \in {"setup", "start"} => i = 1
  /\ pc \notin {"cleanup", "returned"} => result = "none"
  /\ i > 1 /\ result # "none" =>
       /\ i > Len(plan)
       /\ result = IF jobStatus = "failure" THEN "failure" ELSE "success"

\* The inductive invariant of the step loop.
StepsInv == Recorded /\ StatusIsSteps /\ ResultFollows

\* Before the first step nothing is recorded.
LEMMA InitStepsInv == Init => StepsInv
  <1> SUFFICES ASSUME Init PROVE StepsInv
    OBVIOUS
  <1>1. Len(plan) \in Nat /\ DOMAIN plan = 1..Len(plan)
    BY PlanIsSeq DEF Init
  <1> QED
    BY <1>1 DEF Init, StepsInv, Recorded, StatusIsSteps, ResultFollows, Fatal

(***************************************************************************)
(* SkipStep and RecordStep move past a step once, with its outcome.        *)
(***************************************************************************)
LEMMA OutcomeOfStep ==
  ASSUME TInv, StepsInv, i \in DOMAIN plan, plan' = plan, i' = i + 1,
         NEW oc \in {"skipped", "success", "failure"}, outcome' = [outcome EXCEPT ![i] = oc]
  PROVE  /\ Recorded'
         /\ \A k \in DOMAIN plan : Fatal(k)' <=> Fatal(k) \/ (k = i /\ oc = "failure" /\ ~plan[i].coe)
  <1>1. Len(plan) \in Nat /\ DOMAIN plan = 1..Len(plan)
    BY PlanIsSeq DEF TInv
  <1>2. DOMAIN outcome = DOMAIN plan
    BY DEF TInv, Data
  <1>3. outcome[i] = "none"
    BY <1>1 DEF StepsInv, Recorded
  <1>4. Recorded'
    BY <1>1, <1>2 DEF StepsInv, Recorded
  <1> QED
    BY <1>2, <1>3, <1>4 DEF Fatal

\* Every step of the executor keeps it.
LEMMA NextStepsInv == TInv /\ StepsInv /\ [Next]_vars => StepsInv'
  <1> SUFFICES ASSUME TInv, StepsInv, [Next]_vars PROVE StepsInv'
    OBVIOUS
  <1>1. Len(plan) \in Nat /\ DOMAIN plan = 1..Len(plan)
    BY PlanIsSeq DEF TInv
  <1>2. ASSUME UNCHANGED <<plan, i, outcome, jobStatus>>, ResultFollows' PROVE StepsInv'
    BY <1>2 DEF StepsInv, Recorded, StatusIsSteps, Fatal
  <1>3. CASE Cancel \/ JobTimeout \/ UNCHANGED vars
    <2>1. UNCHANGED <<plan, pc, stepVars, result>>
      BY <1>3 DEF Cancel, JobTimeout, vars, stepVars, fileVars
    <2> QED
      BY <1>2, <2>1 DEF stepVars, StepsInv, ResultFollows
  <1>4. CASE JobIfFalse \/ SetupFails \/ CreateContainer \/ StartContainer \/ StartFails \/ Remove
    <2>1. /\ UNCHANGED <<plan, stepVars>>
          /\ \/ pc \in {"setup", "start"} /\ pc' \in {"start", "step"} /\ result' = result
             \/ pc \in {"setup", "start"} /\ pc' \in {"cleanup", "returned"}
             \/ pc = "cleanup" /\ pc' = "returned" /\ result' = result
      BY <1>4 DEF JobIfFalse, SetupFails, CreateContainer, StartContainer, StartFails, Remove,
                  fileVars
    <2> QED
      BY <1>2, <2>1 DEF stepVars, StepsInv, ResultFollows
  <1>5. CASE SkipStep
    <2>1. /\ pc = "step" /\ i \in DOMAIN plan /\ i' = i + 1
          /\ outcome' = [outcome EXCEPT ![i] = "skipped"]
          /\ UNCHANGED <<plan, pc, jobStatus, result>>
      BY <1>5 DEF SkipStep, fileVars
    <2>2. Recorded' /\ \A k \in DOMAIN plan : Fatal(k)' <=> Fatal(k)
      BY <2>1, OutcomeOfStep
    <2> QED
      BY <2>1, <2>2 DEF StepsInv, StatusIsSteps, ResultFollows
  <1>6. CASE BeginStep
    <2>1. /\ pc = "step" /\ pc' \in {"record", "exec"}
          /\ UNCHANGED <<plan, i, outcome, jobStatus, result>>
      BY <1>6 DEF BeginStep, fileVars
    <2> QED
      BY <1>2, <2>1 DEF StepsInv, ResultFollows
  <1>7. ASSUME NEW ok \in BOOLEAN, NEW effect \in Effects, Command(ok, effect) PROVE StepsInv'
    <2>1. /\ pc = "exec" /\ pc' \in {"record", "exec"}
          /\ UNCHANGED <<plan, i, outcome, jobStatus, result>>
      BY <1>7 DEF Command
    <2> QED
      BY <1>2, <2>1 DEF StepsInv, ResultFollows
  <1>8. CASE RecordStep
    <2>1. /\ pc = "record" /\ pc' = "step" /\ i' = i + 1 /\ jobStatus' = StatusAfter
          /\ outcome' = [outcome EXCEPT ![i] = IF failed THEN "failure" ELSE "success"]
          /\ UNCHANGED <<plan, result>>
      BY <1>8 DEF RecordStep
    <2>2. i \in DOMAIN plan
      BY <2>1 DEF TInv, Data
    <2>3. Recorded' /\ \A k \in DOMAIN plan :
                          Fatal(k)' <=> Fatal(k) \/ (k = i /\ failed /\ ~plan[i].coe)
      BY <2>1, <2>2, OutcomeOfStep
    <2>4. StatusIsSteps'
      BY <2>1, <2>2, <2>3 DEF StepsInv, StatusIsSteps, StatusAfter, step
    <2> QED
      BY <2>1, <2>3, <2>4 DEF StepsInv, ResultFollows
  <1>9. CASE Finish
    <2>1. /\ pc = "step" /\ i > Len(plan) /\ pc' = "cleanup"
          /\ result' = IF jobStatus = "pending" THEN "success" ELSE jobStatus
          /\ UNCHANGED <<plan, i, outcome, jobStatus>>
      BY <1>9 DEF Finish, stepVars
    <2>2. jobStatus \in {"pending", "failure"}
      BY DEF TInv, Data
    <2> QED
      BY <1>2, <2>1, <2>2 DEF StepsInv, ResultFollows
  <1> QED
    BY <1>3, <1>4, <1>5, <1>6, <1>7, <1>8, <1>9 DEF Next

(***************************************************************************)
(* The result of a job that got through its steps is theirs, whatever      *)
(* their number, conditions and continue-on-error (executor.go:278-405).   *)
(***************************************************************************)
THEOREM ResultOfSteps == Spec => []ResultIsSteps
  <1>1. TInv /\ StepsInv => ResultIsSteps
    <2> SUFFICES ASSUME TInv, StepsInv, i > 1, i > Len(plan), result # "none"
                 PROVE  /\ \A k \in DOMAIN plan : outcome[k] # "none"
                        /\ result = IF \E k \in DOMAIN plan : Fatal(k) THEN "failure"
                                    ELSE "success"
      BY DEF ResultIsSteps
    <2>1. Len(plan) \in Nat /\ DOMAIN plan = 1..Len(plan) /\ i \in Nat
      BY PlanIsSeq DEF TInv, Data
    <2>2. \A k \in DOMAIN plan : outcome[k] # "none"
      BY <2>1 DEF StepsInv, Recorded
    <2> QED
      BY <2>2 DEF StepsInv, StatusIsSteps, ResultFollows
  <1> QED
    BY <1>1, InitTInv, NextTInv, InitStepsInv, NextStepsInv, PTL DEF Spec

-------------------------------------------------------------------------------
(***************************************************************************)
(* The expression evaluator.  The parser is a recursive function, defined  *)
(* by CHOOSE over its equation; nothing follows about it until something   *)
(* is shown to satisfy the equation.                                       *)
(***************************************************************************)

\* Induction over the numbers, for a set of them.
LEMMA FromZero ==
  ASSUME NEW S \in SUBSET Nat, 0 \in S, \A n \in S : n + 1 \in S
  PROVE  \A n \in Nat : n \in S
  <1> DEFINE less == {ss \in Nat \X Nat : ss[1] < ss[2]}
             T == Nat \ S
  <1> SUFFICES ASSUME T # {} PROVE FALSE
    OBVIOUS
  <1>1. IsWellFoundedOn(less, Nat)
    BY NatLessThanWellFounded, Zenon DEF OpToRel
  <1>2. T \in SUBSET Nat /\ T # {}
    OBVIOUS
  <1> HIDE DEF T
  <1>3. PICK x \in T : \A y \in T : ~(<<y, x>> \in less)
    BY <1>1, <1>2, WFMin
  <1> USE DEF T
  <1>4. x - 1 \in Nat /\ x - 1 < x /\ x \in Nat
    BY <1>3
  <1>5. <<x - 1, x>> \in less
    BY <1>4
  <1>6. x - 1 \in S
    BY <1>3, <1>4, <1>5
  <1>7. (x - 1) + 1 = x
    BY <1>4
  <1> QED
    BY <1>3, <1>6, <1>7

(***************************************************************************)
(* The recursion of the parser ends for any tokens: a rule asks for rules  *)
(* at later positions or, at its own, for rules of a lower rank.           *)
(***************************************************************************)
Rank(rule) ==
  CASE rule = "parts"      -> 0
    [] rule = "rest"       -> 1
    [] rule = "primary"    -> 2
    [] rule = "comparison" -> 3
    [] rule = "not"        -> 4
    [] rule = "and"        -> 5
    [] rule = "or"         -> 6
    [] rule = "args"       -> 7

\* The rules that take at least one token.
Exprs == {"or", "and", "not", "comparison", "primary"}

\* An answer at position p of n tokens goes on at a position from here to the end.
Good(e, rule, p, n) == e.ok => e.next \in (IF rule \in Exprs THEN p + 1 ELSE p)..(n + 1)

\* f and g answer alike, and well, whatever a rule may ask at position p.
AgreeBelow(f, g, rule, p, n) ==
  \A r \in Rules, q \in 1..(n + 1) :
    q > p \/ (q = p /\ Rank(r) < Rank(rule)) =>
      f[<<r, q>>] = g[<<r, q>>] /\ Good(f[<<r, q>>], r, q, n)

\* A token that is not the end is one of the tokens.
LEMMA PeekWithin ==
  ASSUME NEW toks, Len(toks) \in Nat, NEW p \in Nat, Peek(toks, p) # "EOF"
  PROVE  p <= Len(toks)
  BY DEF Peek

\* An error is no answer; an answer has its value and its end.
LEMMA AnswerForms ==
  /\ ~Fail.ok
  /\ \A v, q : Result(v, q).ok /\ Result(v, q).next = q /\ Result(v, q).val = v
  BY DEF Fail, Result

\* What a rule answers: the same for f and g, and well.
SameAnswer(f, g, rule, toks, p, ctx) ==
  /\ ParseRule(f, rule, toks, p, ctx) = ParseRule(g, rule, toks, p, ctx)
  /\ Good(ParseRule(f, rule, toks, p, ctx), rule, p, Len(toks))

\* or and and ask for their operand here and for themselves after the sign
\* (eval.go:226-256).
LEMMA ChainSame ==
  ASSUME NEW toks, Len(toks) \in Nat, NEW f, NEW g, NEW p \in 1..(Len(toks) + 1),
         NEW rule \in {"or", "and"}, AgreeBelow(f, g, rule, p, Len(toks)),
         NEW operand \in Exprs, Rank(operand) < Rank(rule), NEW sign \in {"||", "&&"}
  PROVE  /\ Chain(f, rule, operand, sign, toks, p) = Chain(g, rule, operand, sign, toks, p)
         /\ Good(Chain(f, rule, operand, sign, toks, p), rule, p, Len(toks))
  <1> DEFINE n == Len(toks)
             l == f[<<operand, p>>]
             r == f[<<rule, l.next + 1>>]
             v == Bool(Combine(sign, IsTruthy(l.val), IsTruthy(r.val)))
  <1>1. operand \in Rules /\ rule \in Rules /\ rule \in Exprs
    BY DEF Exprs, Rules
  <1>2. l = g[<<operand, p>>] /\ Good(l, operand, p, n)
    BY <1>1 DEF AgreeBelow
  <1>3. CASE ~l.ok \/ Peek(toks, l.next) # sign
    <2>1. Chain(f, rule, operand, sign, toks, p) = l /\ Chain(g, rule, operand, sign, toks, p) = l
      BY <1>2, <1>3 DEF Chain
    <2> QED
      BY <1>1, <1>2, <2>1 DEF Good
  <1>4. CASE l.ok /\ Peek(toks, l.next) = sign
    <2>1. l.next \in (p + 1)..(n + 1)
      BY <1>2, <1>4 DEF Good
    <2>2. l.next <= n
      BY <1>4, <2>1, PeekWithin
    <2>3. l.next + 1 \in 1..(n + 1) /\ l.next + 1 > p
      BY <2>1, <2>2
    <2>4. r = g[<<rule, l.next + 1>>] /\ Good(r, rule, l.next + 1, n)
      BY <1>1, <2>3 DEF AgreeBelow
    <2>5. /\ Chain(f, rule, operand, sign, toks, p) = IF r.ok THEN Result(v, r.next) ELSE Fail
          /\ Chain(g, rule, operand, sign, toks, p) = IF r.ok THEN Result(v, r.next) ELSE Fail
      BY <1>2, <1>4, <2>4 DEF Chain
    <2>6. r.ok => r.next \in (p + 1)..(n + 1)
      BY <1>1, <2>1, <2>4 DEF Good
    <2> HIDE DEF r, v
    <2>7. Good(IF r.ok THEN Result(v, r.next) ELSE Fail, rule, p, n)
      BY <1>1, <2>6, AnswerForms DEF Good
    <2> QED
      BY <2>5, <2>7
  <1> QED
    BY <1>3, <1>4

\* not asks for the comparison here or for itself after the "!" (eval.go:258-268).
LEMMA NotSame ==
  ASSUME NEW toks, Len(toks) \in Nat, NEW f, NEW g, NEW p \in 1..(Len(toks) + 1),
         AgreeBelow(f, g, "not", p, Len(toks))
  PROVE  /\ ParseNot(f, toks, p) = ParseNot(g, toks, p)
         /\ Good(ParseNot(f, toks, p), "not", p, Len(toks))
  <1> DEFINE n == Len(toks)
             e == f[<<"not", p + 1>>]
             c == f[<<"comparison", p>>]
             v == Bool(~IsTruthy(e.val))
  <1>1. {"not", "comparison"} \subseteq Rules /\ {"not", "comparison"} \subseteq Exprs
        /\ Rank("comparison") < Rank("not")
    BY DEF Exprs, Rules, Rank
  <1>2. CASE Peek(toks, p) # "!"
    <2>1. c = g[<<"comparison", p>>] /\ Good(c, "comparison", p, n)
      BY <1>1 DEF AgreeBelow
    <2>2. ParseNot(f, toks, p) = c /\ ParseNot(g, toks, p) = c
      BY <1>2, <2>1 DEF ParseNot
    <2> QED
      BY <1>1, <2>1, <2>2 DEF Good
  <1>3. CASE Peek(toks, p) = "!"
    <2>1. p <= n
      BY <1>3, PeekWithin
    <2>2. e = g[<<"not", p + 1>>] /\ Good(e, "not", p + 1, n)
      BY <1>1, <2>1 DEF AgreeBelow
    <2>3. /\ ParseNot(f, toks, p) = IF e.ok THEN Result(v, e.next) ELSE Fail
          /\ ParseNot(g, toks, p) = IF e.ok THEN Result(v, e.next) ELSE Fail
      BY <1>3, <2>2 DEF ParseNot
    <2>4. e.ok => e.next \in (p + 1)..(n + 1)
      BY <1>1, <2>1, <2>2 DEF Good
    <2> HIDE DEF e, v
    <2>5. Good(IF e.ok THEN Result(v, e.next) ELSE Fail, "not", p, n)
      BY <1>1, <2>4, AnswerForms DEF Good
    <2> QED
      BY <2>3, <2>5
  <1> QED
    BY <1>2, <1>3

\* comparison asks for primaries, here and after the sign (eval.go:270-285).
LEMMA ComparisonSame ==
  ASSUME NEW toks, Len(toks) \in Nat, NEW f, NEW g, NEW p \in 1..(Len(toks) + 1),
         AgreeBelow(f, g, "comparison", p, Len(toks))
  PROVE  /\ ParseComparison(f, toks, p) = ParseComparison(g, toks, p)
         /\ Good(ParseComparison(f, toks, p), "comparison", p, Len(toks))
  <1> DEFINE n == Len(toks)
             l == f[<<"primary", p>>]
             r == f[<<"primary", l.next + 1>>]
             v == EvalComparison(l.val, Peek(toks, l.next), r.val)
  <1>1. {"primary", "comparison"} \subseteq Rules /\ {"primary", "comparison"} \subseteq Exprs
        /\ Rank("primary") < Rank("comparison") /\ "EOF" \notin Comparisons
    BY DEF Exprs, Rules, Rank, Comparisons
  <1>2. l = g[<<"primary", p>>] /\ Good(l, "primary", p, n)
    BY <1>1 DEF AgreeBelow
  <1>3. CASE ~l.ok \/ Peek(toks, l.next) \notin Comparisons
    <2>1. ParseComparison(f, toks, p) = l /\ ParseComparison(g, toks, p) = l
      BY <1>2, <1>3 DEF ParseComparison
    <2> QED
      BY <1>1, <1>2, <2>1 DEF Good
  <1>4. CASE l.ok /\ Peek(toks, l.next) \in Comparisons
    <2>1. l.next \in (p + 1)..(n + 1)
      BY <1>1, <1>2, <1>4 DEF Good
    <2>2. l.next <= n
      BY <1>1, <1>4, <2>1, PeekWithin
    <2>3. l.next + 1 \in 1..(n + 1) /\ l.next + 1 > p
      BY <2>1, <2>2
    <2>4. r = g[<<"primary", l.next + 1>>] /\ Good(r, "primary", l.next + 1, n)
      BY <1>1, <2>3 DEF AgreeBelow
    <2>5. /\ ParseComparison(f, toks, p) = IF r.ok THEN Result(v, r.next) ELSE Fail
          /\ ParseComparison(g, toks, p) = IF r.ok THEN Result(v, r.next) ELSE Fail
      BY <1>2, <1>4, <2>4 DEF ParseComparison
    <2>6. r.ok => r.next \in (p + 1)..(n + 1)
      BY <1>1, <2>1, <2>4 DEF Good
    <2> HIDE DEF r, v
    <2>7. Good(IF r.ok THEN Result(v, r.next) ELSE Fail, "comparison", p, n)
      BY <1>1, <2>6, AnswerForms DEF Good
    <2> QED
      BY <2>5, <2>7
  <1> QED
    BY <1>3, <1>4

\* Arguments ask for an expression, and for the rest after it.
LEMMA ArgsSame ==
  ASSUME NEW toks, Len(toks) \in Nat, NEW f, NEW g, NEW p \in 1..(Len(toks) + 1),
         NEW rule \in {"args", "rest"}, AgreeBelow(f, g, rule, p, Len(toks)),
         NEW first, first \in BOOLEAN, first <=> rule = "args"
  PROVE  /\ ParseArgs(f, toks, p, first) = ParseArgs(g, toks, p, first)
         /\ Good(ParseArgs(f, toks, p, first), rule, p, Len(toks))
  <1> DEFINE n == Len(toks)
             at == IF first THEN p ELSE p + 1
             e == f[<<"or", at>>]
             r == f[<<"rest", e.next>>]
  <1>1. {"or", "rest"} \subseteq Rules /\ "or" \in Exprs /\ "rest" \notin Exprs /\ rule \notin Exprs
        /\ Rank("or") < Rank("args")
    BY DEF Exprs, Rules, Rank
  <1>2. CASE Peek(toks, p) \in {")", "EOF"}
    <2>1. ParseArgs(f, toks, p, first) = Result(0, p) /\ ParseArgs(g, toks, p, first) = Result(0, p)
      BY <1>2 DEF ParseArgs
    <2> QED
      BY <1>1, <2>1, AnswerForms DEF Good
  <1>3. CASE Peek(toks, p) \notin {")", "EOF"} /\ ~first /\ Peek(toks, p) # ","
    <2>1. ParseArgs(f, toks, p, first) = Fail /\ ParseArgs(g, toks, p, first) = Fail
      BY <1>3 DEF ParseArgs
    <2> QED
      BY <1>1, <2>1, AnswerForms DEF Good
  <1>4. CASE Peek(toks, p) \notin {")", "EOF"} /\ ~(~first /\ Peek(toks, p) # ",")
    <2>1. p <= n
      <3>1. Peek(toks, p) # "EOF"
        BY <1>4
      <3> QED
        BY <3>1, PeekWithin
    <2>2. at \in p..(n + 1) /\ (at > p \/ (at = p /\ rule = "args"))
      BY <2>1
    <2> HIDE DEF at
    <2>3. e = g[<<"or", at>>] /\ Good(e, "or", at, n)
      BY <1>1, <2>2 DEF AgreeBelow
    <2>4. /\ ParseArgs(f, toks, p, first) = IF e.ok THEN f[<<"rest", e.next>>] ELSE Fail
          /\ ParseArgs(g, toks, p, first) = IF e.ok THEN g[<<"rest", e.next>>] ELSE Fail
      BY <1>4, <2>3 DEF ParseArgs, at
    <2>5. CASE ~e.ok
      BY <1>1, <2>4, <2>5, AnswerForms DEF Good
    <2>6. CASE e.ok
      <3>1. e.next \in (p + 1)..(n + 1)
        BY <1>1, <2>2, <2>3, <2>6 DEF Good
      <3> HIDE DEF e
      <3>2. r = g[<<"rest", e.next>>] /\ Good(r, "rest", e.next, n)
        BY <1>1, <3>1 DEF AgreeBelow
      <3>3. Good(r, rule, p, n)
        BY <1>1, <3>1, <3>2 DEF Good
      <3> QED
        BY <2>4, <2>6, <3>2, <3>3
    <2> QED
      BY <2>5, <2>6
  <1> QED
    BY <1>2, <1>3, <1>4

\* One part and then the rest: what ParseParts calls "then".
PartThen(f, part, next) ==
  LET e == f[<<"parts", next>>]
  IN  IF e.ok THEN Result(<<part>> \o e.val, e.next) ELSE Fail

\* The parts after one of a path are read further on.
LEMMA PartThenSame ==
  ASSUME NEW n \in Nat, NEW f, NEW g, NEW p \in 1..(n + 1),
         AgreeBelow(f, g, "parts", p, n), NEW q \in (p + 1)..(n + 1), NEW part
  PROVE  /\ PartThen(f, part, q) = PartThen(g, part, q)
         /\ Good(PartThen(f, part, q), "parts", p, n)
  <1> DEFINE e == f[<<"parts", q>>]
             v == <<part>> \o e.val
  <1>1. "parts" \in Rules /\ "parts" \notin Exprs
    BY DEF Rules, Exprs
  <1>2. e = g[<<"parts", q>>] /\ Good(e, "parts", q, n)
    BY <1>1 DEF AgreeBelow
  <1>3. /\ PartThen(f, part, q) = IF e.ok THEN Result(v, e.next) ELSE Fail
        /\ PartThen(g, part, q) = IF e.ok THEN Result(v, e.next) ELSE Fail
    BY <1>2 DEF PartThen
  <1>4. e.ok => e.next \in p..(n + 1)
    BY <1>1, <1>2 DEF Good
  <1> HIDE DEF e, v
  <1>5. Good(IF e.ok THEN Result(v, e.next) ELSE Fail, "parts", p, n)
    BY <1>1, <1>4, AnswerForms DEF Good
  <1> QED
    BY <1>3, <1>5

\* ParseParts, with what it calls "then" named.
LEMMA PartsCases ==
  ASSUME NEW f, NEW toks, NEW p
  PROVE  ParseParts(f, toks, p) =
           IF Peek(toks, p) = "."
           THEN IF Peek(toks, p + 1) = "ident" THEN PartThen(f, toks[p + 1].val, p + 2) ELSE Fail
           ELSE IF Peek(toks, p) = "["
           THEN IF Peek(toks, p + 1) = "number" /\ Peek(toks, p + 2) = "]"
                THEN PartThen(f, "[n]", p + 3) ELSE Fail
           ELSE Result(<<>>, p)
  BY DEF ParseParts, PartThen

\* A path asks for the parts further on only.
LEMMA PartsSame ==
  ASSUME NEW toks, Len(toks) \in Nat, NEW f, NEW g, NEW p \in 1..(Len(toks) + 1),
         AgreeBelow(f, g, "parts", p, Len(toks))
  PROVE  /\ ParseParts(f, toks, p) = ParseParts(g, toks, p)
         /\ Good(ParseParts(f, toks, p), "parts", p, Len(toks))
  <1> DEFINE n == Len(toks)
  <1>1. "parts" \notin Exprs
    BY DEF Exprs
  <1>2. Good(Fail, "parts", p, n) /\ Good(Result(<<>>, p), "parts", p, n)
    BY <1>1, AnswerForms DEF Good
  <1>3. CASE Peek(toks, p) = "." /\ Peek(toks, p + 1) = "ident"
    <2>1. p + 1 <= n
      BY <1>3, PeekWithin
    <2>2. p + 2 \in (p + 1)..(n + 1)
      BY <2>1
    <2> QED
      BY <1>3, <2>2, PartsCases, PartThenSame
  <1>4. CASE Peek(toks, p) = "[" /\ Peek(toks, p + 1) = "number" /\ Peek(toks, p + 2) = "]"
    <2>1. p + 2 <= n
      BY <1>4, PeekWithin
    <2>2. p + 3 \in (p + 1)..(n + 1)
      BY <2>1
    <2> QED
      BY <1>4, <2>2, PartsCases, PartThenSame
  <1> QED
    BY <1>2, <1>3, <1>4, PartsCases

\* The closing sign is one more token.
LEMMA ClosedGood ==
  ASSUME NEW toks, Len(toks) \in Nat, NEW e, NEW p \in 1..(Len(toks) + 1),
         e.ok => e.next \in p..(Len(toks) + 1)
  PROVE  LET c == Closed(e, toks) IN c.ok => c.next \in (p + 1)..(Len(toks) + 1)
  <1>1. CASE e.ok /\ Peek(toks, e.next) = ")"
    <2>1. e.next <= Len(toks)
      BY <1>1, PeekWithin
    <2>2. Closed(e, toks) = Result(e.val, e.next + 1)
      BY <1>1 DEF Closed
    <2> QED
      BY <1>1, <2>1, <2>2, AnswerForms
  <1>2. CASE ~(e.ok /\ Peek(toks, e.next) = ")")
    BY <1>2, AnswerForms DEF Closed
  <1> QED
    BY <1>1, <1>2

\* A name asks for its arguments or its parts, behind it.
LEMMA IdentOrCallSame ==
  ASSUME NEW toks, Len(toks) \in Nat, NEW f, NEW g, NEW p \in 1..(Len(toks) + 1), NEW ctx,
         AgreeBelow(f, g, "primary", p, Len(toks)), p <= Len(toks)
  PROVE  /\ ParseIdentOrCall(f, toks, p, ctx) = ParseIdentOrCall(g, toks, p, ctx)
         /\ Good(ParseIdentOrCall(f, toks, p, ctx), "primary", p, Len(toks))
  <1> DEFINE n == Len(toks)
  <1>1. {"args", "parts"} \subseteq Rules /\ {"args", "parts"} \cap Exprs = {} /\ "primary" \in Exprs
    BY DEF Rules, Exprs
  <1>2. CASE Peek(toks, p + 1) = "("
    <2> DEFINE a == f[<<"args", p + 2>>]
               c == Closed(a, toks)
               v == CallFunction(toks[p].val, ctx)
    <2>1. p + 1 <= n
      BY <1>2, PeekWithin
    <2>2. p + 2 \in 1..(n + 1) /\ p + 2 > p
      BY <2>1
    <2>3. a = g[<<"args", p + 2>>] /\ Good(a, "args", p + 2, n)
      BY <1>1, <2>2 DEF AgreeBelow
    <2>4. a.ok => a.next \in (p + 2)..(n + 1)
      BY <1>1, <2>3 DEF Good
    <2>5. c.ok => c.next \in (p + 1)..(n + 1)
      <3> HIDE DEF a
      <3> DEFINE q == p + 2
      <3>1. q \in 1..(n + 1) /\ (a.ok => a.next \in q..(n + 1))
        BY <2>2, <2>4
      <3> HIDE DEF q
      <3>2. c.ok => c.next \in (q + 1)..(n + 1)
        BY <3>1, ClosedGood
      <3> QED
        BY <3>2 DEF q
    <2>6. /\ ParseIdentOrCall(f, toks, p, ctx)
               = IF c.ok /\ toks[p].val \in KnownFunctions THEN Result(v, c.next) ELSE Fail
          /\ ParseIdentOrCall(g, toks, p, ctx)
               = IF c.ok /\ toks[p].val \in KnownFunctions THEN Result(v, c.next) ELSE Fail
      BY <1>2, <2>3 DEF ParseIdentOrCall
    <2> HIDE DEF c, v
    <2>7. Good(IF c.ok /\ toks[p].val \in KnownFunctions THEN Result(v, c.next) ELSE Fail,
               "primary", p, n)
      BY <1>1, <2>5, AnswerForms DEF Good
    <2> QED
      BY <2>6, <2>7
  <1>3. CASE Peek(toks, p + 1) # "("
    <2> DEFINE s == f[<<"parts", p + 1>>]
               v == Lookup(<<toks[p].val>> \o s.val, ctx)
    <2>1. s = g[<<"parts", p + 1>>] /\ Good(s, "parts", p + 1, n)
      BY <1>1 DEF AgreeBelow
    <2>2. /\ ParseIdentOrCall(f, toks, p, ctx) = IF s.ok THEN Result(v, s.next) ELSE Fail
          /\ ParseIdentOrCall(g, toks, p, ctx) = IF s.ok THEN Result(v, s.next) ELSE Fail
      BY <1>3, <2>1 DEF ParseIdentOrCall
    <2>3. s.ok => s.next \in (p + 1)..(n + 1)
      BY <1>1, <2>1 DEF Good
    <2> HIDE DEF s, v
    <2>4. Good(IF s.ok THEN Result(v, s.next) ELSE Fail, "primary", p, n)
      BY <1>1, <2>3, AnswerForms DEF Good
    <2> QED
      BY <2>2, <2>4
  <1> QED
    BY <1>2, <1>3

\* primary asks for nothing here: parentheses and names go on behind their first token.
LEMMA PrimarySame ==
  ASSUME NEW toks, Len(toks) \in Nat, NEW f, NEW g, NEW p \in 1..(Len(toks) + 1), NEW ctx,
         AgreeBelow(f, g, "primary", p, Len(toks))
  PROVE  /\ ParsePrimary(f, toks, p, ctx) = ParsePrimary(g, toks, p, ctx)
         /\ Good(ParsePrimary(f, toks, p, ctx), "primary", p, Len(toks))
  <1> DEFINE n == Len(toks)
  <1>1. {"or", "primary"} \subseteq Rules /\ {"or", "primary"} \subseteq Exprs
    BY DEF Rules, Exprs
  <1>2. CASE Peek(toks, p) \notin {"(", "string", "number", "bool", "null", "ident"}
    <2>1. ParsePrimary(f, toks, p, ctx) = Fail /\ ParsePrimary(g, toks, p, ctx) = Fail
      BY <1>2 DEF ParsePrimary
    <2> QED
      BY <2>1, AnswerForms DEF Good
  <1>3. ASSUME Peek(toks, p) \in {"(", "string", "number", "bool", "null", "ident"}
        PROVE  p <= n
    <2>1. Peek(toks, p) # "EOF"
      BY <1>3
    <2> QED
      BY <2>1, PeekWithin
  <1>4. CASE Peek(toks, p) \in {"string", "number", "bool", "null"}
    <2> DEFINE v == CASE Peek(toks, p) = "string" -> Str(toks[p].val)
                      [] Peek(toks, p) = "number" -> Num(toks[p].val)
                      [] Peek(toks, p) = "bool" -> Bool(toks[p].val = "true")
                      [] Peek(toks, p) = "null" -> Nil
    <2>1. /\ ParsePrimary(f, toks, p, ctx) = Result(v, p + 1)
          /\ ParsePrimary(g, toks, p, ctx) = Result(v, p + 1)
      BY <1>4 DEF ParsePrimary
    <2>2. p <= n
      BY <1>3, <1>4
    <2> HIDE DEF v
    <2>3. Good(Result(v, p + 1), "primary", p, n)
      BY <1>1, <2>2, AnswerForms DEF Good
    <2> QED
      BY <2>1, <2>3
  <1>5. CASE Peek(toks, p) = "ident"
    <2>1. /\ ParsePrimary(f, toks, p, ctx) = ParseIdentOrCall(f, toks, p, ctx)
          /\ ParsePrimary(g, toks, p, ctx) = ParseIdentOrCall(g, toks, p, ctx)
      BY <1>5 DEF ParsePrimary
    <2> QED
      BY <1>3, <1>5, <2>1, IdentOrCallSame
  <1>6. CASE Peek(toks, p) = "("
    <2> DEFINE e == f[<<"or", p + 1>>]
               q == p + 1
    <2>1. p <= n
      BY <1>3, <1>6
    <2>2. e = g[<<"or", p + 1>>] /\ Good(e, "or", p + 1, n)
      BY <1>1, <2>1 DEF AgreeBelow
    <2>3. q \in 1..(n + 1) /\ (e.ok => e.next \in q..(n + 1))
      BY <1>1, <2>1, <2>2 DEF Good
    <2>4. /\ ParsePrimary(f, toks, p, ctx) = Closed(e, toks)
          /\ ParsePrimary(g, toks, p, ctx) = Closed(e, toks)
      BY <1>6, <2>2 DEF ParsePrimary
    <2> HIDE DEF q, e
    <2>5. LET c == Closed(e, toks) IN c.ok => c.next \in (q + 1)..(n + 1)
      BY <2>3, ClosedGood
    <2>6. Good(Closed(e, toks), "primary", p, n)
      BY <1>1, <2>5 DEF Good, q
    <2> QED
      BY <2>4, <2>6
  <1> QED
    BY <1>2, <1>4, <1>5, <1>6

\* So no rule asks for anything at its own position but rules of a lower rank.
LEMMA RuleSame ==
  ASSUME NEW toks, Len(toks) \in Nat, NEW f, NEW g, NEW p \in 1..(Len(toks) + 1), NEW ctx,
         NEW rule \in Rules, AgreeBelow(f, g, rule, p, Len(toks))
  PROVE  SameAnswer(f, g, rule, toks, p, ctx)
  <1>1. CASE rule = "or"
    <2>1. "and" \in Exprs /\ Rank("and") < Rank("or")
      BY DEF Exprs, Rank
    <2> QED
      BY <1>1, <2>1, ChainSame DEF SameAnswer, ParseRule
  <1>2. CASE rule = "and"
    <2>1. "not" \in Exprs /\ Rank("not") < Rank("and")
      BY DEF Exprs, Rank
    <2> QED
      BY <1>2, <2>1, ChainSame DEF SameAnswer, ParseRule
  <1>3. CASE rule = "not"
    BY <1>3, NotSame DEF SameAnswer, ParseRule
  <1>4. CASE rule = "comparison"
    BY <1>4, ComparisonSame DEF SameAnswer, ParseRule
  <1>5. CASE rule = "primary"
    BY <1>5, PrimarySame DEF SameAnswer, ParseRule
  <1>6. CASE rule = "args"
    <2>1. TRUE \in BOOLEAN /\ (TRUE <=> rule = "args") /\ rule \in {"args", "rest"}
      BY <1>6
    <2>2. /\ ParseArgs(f, toks, p, TRUE) = ParseArgs(g, toks, p, TRUE)
          /\ Good(ParseArgs(f, toks, p, TRUE), rule, p, Len(toks))
      BY <2>1, ArgsSame, Zenon
    <2>3. \A h : ParseRule(h, rule, toks, p, ctx) = ParseArgs(h, toks, p, TRUE)
      BY <1>6 DEF ParseRule
    <2> QED
      BY <2>2, <2>3 DEF SameAnswer
  <1>7. CASE rule = "rest"
    <2>1. FALSE \in BOOLEAN /\ (FALSE <=> rule = "args") /\ rule \in {"args", "rest"}
      BY <1>7
    <2>2. /\ ParseArgs(f, toks, p, FALSE) = ParseArgs(g, toks, p, FALSE)
          /\ Good(ParseArgs(f, toks, p, FALSE), rule, p, Len(toks))
      BY <2>1, ArgsSame, Zenon
    <2>3. \A h : ParseRule(h, rule, toks, p, ctx) = ParseArgs(h, toks, p, FALSE)
      BY <1>7 DEF ParseRule
    <2> QED
      BY <2>2, <2>3 DEF SameAnswer
  <1>8. CASE rule = "parts"
    BY <1>8, PartsSame DEF SameAnswer, ParseRule
  <1> QED
    BY <1>1, <1>2, <1>3, <1>4, <1>5, <1>6, <1>7, <1>8 DEF Rules

\* The order in which the entries of the parser function can be filled in.
Depth(rule, p, n) == 8 * (n + 1 - p) + Rank(rule)

\* Q holds what the parser answers, for the entries up to a depth.
FilledIn(Q, toks, ctx, d) ==
  \A r \in Rules, q \in 1..(Len(toks) + 1) : Depth(r, q, Len(toks)) < d =>
    Q[<<r, q>>] = ParseRule(Q, r, toks, q, ctx) /\ Good(Q[<<r, q>>], r, q, Len(toks))

\* There are eight ranks.
LEMMA RankRange ==
  ASSUME NEW r \in Rules
  PROVE  Rank(r) \in 0..7
  BY DEF Rules, Rank

\* What a rule asks for comes earlier in that order.
LEMMA DepthOrder ==
  ASSUME NEW n \in Nat, NEW q \in 1..(n + 1), NEW q2 \in 1..(n + 1),
         NEW r \in Rules, NEW r2 \in Rules,
         q2 > q \/ (q2 = q /\ Rank(r2) < Rank(r))
  PROVE  Depth(r, q, n) \in Nat /\ Depth(r2, q2, n) \in Nat /\ Depth(r2, q2, n) < Depth(r, q, n)
  <1> DEFINE a == Rank(r)
             b == Rank(r2)
  <1>1. a \in 0..7 /\ b \in 0..7
    BY RankRange
  <1>2. q2 > q \/ (q2 = q /\ b < a)
    OBVIOUS
  <1>3. Depth(r, q, n) = 8 * (n + 1 - q) + a /\ Depth(r2, q2, n) = 8 * (n + 1 - q2) + b
    BY DEF Depth
  <1> HIDE DEF a, b
  <1> QED
    BY <1>1, <1>2, <1>3

\* Entries filled in up to a depth can be filled in one further.
LEMMA FillNext ==
  ASSUME NEW toks, Len(toks) \in Nat, NEW ctx, NEW d \in Nat, NEW Q, FilledIn(Q, toks, ctx, d)
  PROVE  \E h : FilledIn(h, toks, ctx, d + 1)
  <1> DEFINE n == Len(toks)
             D == Rules \X (1..(n + 1))
             h == [x \in D |-> IF Depth(x[1], x[2], n) = d THEN ParseRule(Q, x[1], toks, x[2], ctx)
                               ELSE Q[x]]
  <1>1. ASSUME NEW r \in Rules, NEW q \in 1..(n + 1)
        PROVE  h[<<r, q>>] = IF Depth(r, q, n) = d THEN ParseRule(Q, r, toks, q, ctx)
                             ELSE Q[<<r, q>>]
    <2>1. <<r, q>> \in D /\ <<r, q>>[1] = r /\ <<r, q>>[2] = q
      OBVIOUS
    <2> HIDE DEF D
    <2> QED
      BY <2>1
  <1> HIDE DEF h
  <1>2. ASSUME NEW r \in Rules, NEW q \in 1..(n + 1), Depth(r, q, n) < d + 1
        PROVE  SameAnswer(Q, h, r, toks, q, ctx)
    <2>1. ASSUME NEW r2 \in Rules, NEW q2 \in 1..(n + 1),
                 q2 > q \/ (q2 = q /\ Rank(r2) < Rank(r))
          PROVE  Q[<<r2, q2>>] = h[<<r2, q2>>] /\ Good(Q[<<r2, q2>>], r2, q2, n)
      <3>1. /\ Depth(r, q, n) \in Nat /\ Depth(r2, q2, n) \in Nat
            /\ Depth(r2, q2, n) < Depth(r, q, n)
        BY <2>1, DepthOrder
      <3>2. Depth(r2, q2, n) < d /\ Depth(r2, q2, n) # d
        BY <1>2, <3>1
      <3> QED
        BY <1>1, <3>2 DEF FilledIn
    <2>2. AgreeBelow(Q, h, r, q, n)
      BY <2>1 DEF AgreeBelow
    <2> QED
      BY <2>2, RuleSame
  <1>3. ASSUME NEW r \in Rules, NEW q \in 1..(n + 1), Depth(r, q, n) < d + 1
        PROVE  h[<<r, q>>] = ParseRule(h, r, toks, q, ctx) /\ Good(h[<<r, q>>], r, q, n)
    <2>1. SameAnswer(Q, h, r, toks, q, ctx)
      BY <1>2, <1>3
    <2>2. h[<<r, q>>] = ParseRule(Q, r, toks, q, ctx)
      <3>1. CASE Depth(r, q, n) = d
        BY <1>1, <3>1
      <3>2. CASE Depth(r, q, n) # d
        <4>1. Depth(r, q, n) \in Int
          BY RankRange DEF Depth
        <4>2. Depth(r, q, n) < d
          BY <1>3, <3>2, <4>1
        <4> QED
          BY <1>1, <3>2, <4>2 DEF FilledIn
      <3> QED
        BY <3>1, <3>2
    <2> QED
      BY <2>1, <2>2 DEF SameAnswer
  <1>4. FilledIn(h, toks, ctx, d + 1)
    BY <1>3 DEF FilledIn
  <1> QED
    BY <1>4

\* f satisfies the equation of the parser function.
Parses(f, toks, ctx) ==
  \A rule \in Rules, p \in 1..(Len(toks) + 1) : f[<<rule, p>>] = ParseRule(f, rule, toks, p, ctx)

(***************************************************************************)
(* The recursive descent ends for any tokens, whether they are an          *)
(* expression or not: its calls can be ordered, so there is a function     *)
(* that satisfies the equation of the parser at every rule and position,   *)
(* and Parser is one (eval.go:222-374).                                    *)
(***************************************************************************)
THEOREM ParserParses ==
  ASSUME NEW toks, Len(toks) \in Nat, NEW ctx
  PROVE  Parses(Parser(toks, ctx), toks, ctx)
  <1> DEFINE n == Len(toks)
             D == Rules \X (1..(n + 1))
             Eqn(g) == g = [x \in D |-> ParseRule(g, x[1], toks, x[2], ctx)]
             S == {d \in Nat : \E Q : FilledIn(Q, toks, ctx, d)}
  <1>1. 0 \in S
    <2>1. FilledIn(<<>>, toks, ctx, 0)
      <3>1. \A r \in Rules, q \in 1..(n + 1) : ~(Depth(r, q, n) < 0)
        BY RankRange DEF Depth
      <3> QED
        BY <3>1 DEF FilledIn
    <2> QED
      BY <2>1
  <1>2. ASSUME NEW d \in S PROVE d + 1 \in S
    <2>1. PICK Q : FilledIn(Q, toks, ctx, d)
      OBVIOUS
    <2>2. \E h : FilledIn(h, toks, ctx, d + 1)
      BY <2>1, FillNext
    <2> QED
      BY <2>2
  <1>3. 8 * (n + 1) \in S
    <2> HIDE DEF S
    <2>1. S \in SUBSET Nat
      BY DEF S
    <2>2. 8 * (n + 1) \in Nat
      OBVIOUS
    <2> QED
      BY <1>1, <1>2, <2>1, <2>2, FromZero
  <1>4. PICK Q : FilledIn(Q, toks, ctx, 8 * (n + 1))
    BY <1>3
  <1> DEFINE f == [x \in D |-> Q[x]]
  <1>5. ASSUME NEW r \in Rules, NEW q \in 1..(n + 1)
        PROVE  f[<<r, q>>] = Q[<<r, q>>] /\ Good(Q[<<r, q>>], r, q, n)
               /\ Q[<<r, q>>] = ParseRule(Q, r, toks, q, ctx)
    <2>1. Depth(r, q, n) < 8 * (n + 1)
      BY RankRange DEF Depth
    <2>2. <<r, q>> \in D
      OBVIOUS
    <2> HIDE DEF D
    <2> QED
      BY <1>4, <2>1, <2>2 DEF FilledIn
  <1>6. f = [x \in D |-> f[x]]
    <2> HIDE DEF D
    <2> QED
      OBVIOUS
  <1> HIDE DEF f
  <1>7. ASSUME NEW r \in Rules, NEW q \in 1..(n + 1)
        PROVE  f[<<r, q>>] = ParseRule(f, r, toks, q, ctx)
    <2>1. AgreeBelow(Q, f, r, q, n)
      BY <1>5 DEF AgreeBelow
    <2>2. SameAnswer(Q, f, r, toks, q, ctx)
      BY <2>1, RuleSame
    <2> QED
      BY <1>5, <2>2 DEF SameAnswer
  <1>8. ASSUME NEW x \in D PROVE f[x] = ParseRule(f, x[1], toks, x[2], ctx)
    <2>1. PICK r \in Rules, q \in 1..(n + 1) : x = <<r, q>>
      OBVIOUS
    <2>2. f[<<r, q>>] = ParseRule(f, r, toks, q, ctx)
      BY <1>7
    <2> QED
      BY <2>1, <2>2
  <1>9. Eqn(f)
    <2> HIDE DEF D
    <2> QED
      BY <1>6, <1>8
  <1> DEFINE g == CHOOSE h : Eqn(h)
  <1>10. Eqn(g)
    BY <1>9
  <1>11. Parser(toks, ctx) = g
    BY DEF Parser
  <1> HIDE DEF g
  <1>12. \A rule \in Rules, p \in 1..(n + 1) : g[<<rule, p>>] = ParseRule(g, rule, toks, p, ctx)
    BY <1>10
  <1> QED
    BY <1>11, <1>12 DEF Parses

-------------------------------------------------------------------------------
(***************************************************************************)
(* What the parser reads from p to before q, said without the text: the    *)
(* tokens there are an operand of strength s that means m, so that every   *)
(* rule for operands of that strength answers m, if what follows does not  *)
(* go on with the operand; and before "&&" or "||", m joined to the answer *)
(* for what follows.                                                       *)
(***************************************************************************)

\* What the parser answers for a text that ends before q and means m.
Answer(m, q) == IF m.def THEN Result(m.val, q) ELSE Fail

\* The same, when a sign and an operand with the answer e follow.
ThenAnswer(sign, m, e) ==
  IF m.def /\ e.ok
  THEN Result(Bool(Combine(sign, IsTruthy(m.val), IsTruthy(e.val))), e.next) ELSE Fail

\* The meaning of l sign r, of a negation and of a comparison.
Joined(sign, l, r) ==
  IF l.def /\ r.def THEN Means(Bool(Combine(sign, IsTruthy(l.val), IsTruthy(r.val)))) ELSE Undefined

Negated(m) == IF m.def THEN Means(Bool(~IsTruthy(m.val))) ELSE Undefined

Compared(op, l, r) ==
  IF l.def /\ r.def THEN Means(EvalComparison(l.val, op, r.val)) ELSE Undefined

\* The signs that go on a name or a path, and those that go on a primary.
Joins == {"(", ".", "["}
Signs == Joins \cup Comparisons

\* Rule by rule: an operand that begins with "!" is no primary and no comparison.
ReadsPrimary(f, toks, p, q, m) ==
  /\ Peek(toks, p) # "!"
  /\ Peek(toks, q) \notin Joins => f[<<"primary", p>>] = Answer(m, q)

ReadsComparison(f, toks, p, q, m) ==
  /\ Peek(toks, p) # "!"
  /\ Peek(toks, q) \notin Signs => f[<<"comparison", p>>] = Answer(m, q)

ReadsNot(f, toks, p, q, m) ==
  Peek(toks, q) \notin Signs => f[<<"not", p>>] = Answer(m, q)

ReadsChain(f, toks, rule, sign, p, q, m) ==
  /\ Peek(toks, q) \notin Signs \cup {"&&", sign} => f[<<rule, p>>] = Answer(m, q)
  /\ Peek(toks, q) = sign => f[<<rule, p>>] = ThenAnswer(sign, m, f[<<rule, q + 1>>])

\* By strength, as Strength numbers them.
Reads(f, toks, s, p, q, m) ==
  CASE s = 5 -> ReadsPrimary(f, toks, p, q, m)
    [] s = 4 -> ReadsComparison(f, toks, p, q, m)
    [] s = 3 -> ReadsNot(f, toks, p, q, m)
    [] s = 2 -> ReadsChain(f, toks, "and", "&&", p, q, m)
    [] s = 1 -> ReadsChain(f, toks, "or", "||", p, q, m)

\* Reads, strength by strength.
LEMMA ReadsCases ==
  ASSUME NEW f, NEW toks, NEW p, NEW q, NEW m
  PROVE  /\ Reads(f, toks, 5, p, q, m) <=> ReadsPrimary(f, toks, p, q, m)
         /\ Reads(f, toks, 4, p, q, m) <=> ReadsComparison(f, toks, p, q, m)
         /\ Reads(f, toks, 3, p, q, m) <=> ReadsNot(f, toks, p, q, m)
         /\ Reads(f, toks, 2, p, q, m) <=> ReadsChain(f, toks, "and", "&&", p, q, m)
         /\ Reads(f, toks, 1, p, q, m) <=> ReadsChain(f, toks, "or", "||", p, q, m)
  <1>1. Reads(f, toks, 5, p, q, m) <=> ReadsPrimary(f, toks, p, q, m)
    BY DEF Reads
  <1>2. Reads(f, toks, 4, p, q, m) <=> ReadsComparison(f, toks, p, q, m)
    BY DEF Reads
  <1>3. Reads(f, toks, 3, p, q, m) <=> ReadsNot(f, toks, p, q, m)
    BY DEF Reads
  <1>4. Reads(f, toks, 2, p, q, m) <=> ReadsChain(f, toks, "and", "&&", p, q, m)
    BY DEF Reads
  <1>5. Reads(f, toks, 1, p, q, m) <=> ReadsChain(f, toks, "or", "||", p, q, m)
    BY DEF Reads
  <1> QED
    BY <1>1, <1>2, <1>3, <1>4, <1>5

\* The rules of a function that satisfies the equation of the parser.
LEMMA RuleOf ==
  ASSUME NEW toks, NEW ctx, NEW f, Parses(f, toks, ctx), NEW p \in 1..(Len(toks) + 1)
  PROVE  /\ f[<<"or", p>>] = Chain(f, "or", "and", "||", toks, p)
         /\ f[<<"and", p>>] = Chain(f, "and", "not", "&&", toks, p)
         /\ f[<<"not", p>>] = ParseNot(f, toks, p)
         /\ f[<<"comparison", p>>] = ParseComparison(f, toks, p)
         /\ f[<<"primary", p>>] = ParsePrimary(f, toks, p, ctx)
         /\ f[<<"args", p>>] = ParseArgs(f, toks, p, TRUE)
         /\ f[<<"parts", p>>] = ParseParts(f, toks, p)
  <1>1. \A r \in Rules : f[<<r, p>>] = ParseRule(f, r, toks, p, ctx)
    BY DEF Parses
  <1>2. Rules = {"or", "and", "not", "comparison", "primary", "args", "rest", "parts"}
    BY DEF Rules
  <1>3. f[<<"or", p>>] = Chain(f, "or", "and", "||", toks, p)
    BY <1>1, <1>2 DEF ParseRule
  <1>4. f[<<"and", p>>] = Chain(f, "and", "not", "&&", toks, p)
    BY <1>1, <1>2 DEF ParseRule
  <1>5. f[<<"not", p>>] = ParseNot(f, toks, p)
    BY <1>1, <1>2 DEF ParseRule
  <1>6. f[<<"comparison", p>>] = ParseComparison(f, toks, p)
    BY <1>1, <1>2 DEF ParseRule
  <1>7. f[<<"primary", p>>] = ParsePrimary(f, toks, p, ctx)
    BY <1>1, <1>2 DEF ParseRule
  <1>8. f[<<"args", p>>] = ParseArgs(f, toks, p, TRUE)
    <2>1. f[<<"args", p>>] = ParseRule(f, "args", toks, p, ctx)
      BY <1>1, <1>2
    <2> QED
      BY <2>1 DEF ParseRule
  <1>9. f[<<"parts", p>>] = ParseParts(f, toks, p)
    BY <1>1, <1>2 DEF ParseRule
  <1> QED
    BY <1>3, <1>4, <1>5, <1>6, <1>7, <1>8, <1>9

\* An answer goes on where the text ends, if it is one.
LEMMA AnswerFacts ==
  ASSUME NEW m, NEW q
  PROVE  /\ ~m.def => Answer(m, q) = Fail /\ ~Answer(m, q).ok
         /\ m.def => /\ Answer(m, q) = Result(m.val, q)
                     /\ Answer(m, q).ok /\ Answer(m, q).val = m.val /\ Answer(m, q).next = q
  BY AnswerForms DEF Answer

\* A meaning has a value; Undefined is none.
LEMMA MeaningForms ==
  /\ ~Undefined.def
  /\ \A v : Means(v).def /\ Means(v).val = v
  BY DEF Undefined, Means

\* An operand is a chain of one, and the first of a longer one.
LEMMA ChainReads ==
  ASSUME NEW f, NEW toks, NEW rule, NEW operand, NEW sign, NEW p, NEW q, NEW m,
         f[<<rule, p>>] = Chain(f, rule, operand, sign, toks, p),
         Peek(toks, q) \notin Signs \cup ({"&&"} \ {sign}) => f[<<operand, p>>] = Answer(m, q),
         sign \notin Signs
  PROVE  ReadsChain(f, toks, rule, sign, p, q, m)
  <1> DEFINE l == f[<<operand, p>>]
             r == f[<<rule, l.next + 1>>]
  <1>1. Chain(f, rule, operand, sign, toks, p) =
          IF ~l.ok \/ Peek(toks, l.next) # sign THEN l
          ELSE IF r.ok THEN Result(Bool(Combine(sign, IsTruthy(l.val), IsTruthy(r.val))), r.next)
          ELSE Fail
    BY DEF Chain
  <1>2. ASSUME Peek(toks, q) \notin Signs \cup {"&&", sign} PROVE f[<<rule, p>>] = Answer(m, q)
    <2>1. l = Answer(m, q)
      BY <1>2
    <2> HIDE DEF l, r
    <2>2. ~l.ok \/ Peek(toks, l.next) # sign
      BY <1>2, <2>1, AnswerFacts
    <2> QED
      BY <1>1, <2>1, <2>2
  <1>3. ASSUME Peek(toks, q) = sign PROVE f[<<rule, p>>] = ThenAnswer(sign, m, f[<<rule, q + 1>>])
    <2>1. l = Answer(m, q)
      BY <1>3
    <2> HIDE DEF l
    <2>2. CASE ~m.def
      BY <1>1, <2>1, <2>2, AnswerFacts DEF ThenAnswer
    <2>3. CASE m.def
      <3>1. l.ok /\ l.next = q /\ l.val = m.val
        BY <2>1, <2>3, AnswerFacts
      <3> QED
        BY <1>1, <1>3, <2>3, <3>1 DEF ThenAnswer
    <2> QED
      BY <2>2, <2>3
  <1> QED
    BY <1>2, <1>3 DEF ReadsChain

\* What is read as an operand of a strength is read as one of the next lower.
LEMMA ReadsWeaker ==
  ASSUME NEW toks, NEW ctx, NEW f, Parses(f, toks, ctx), NEW p \in 1..(Len(toks) + 1), NEW q, NEW m
  PROVE  /\ Reads(f, toks, 5, p, q, m) => Reads(f, toks, 4, p, q, m)
         /\ Reads(f, toks, 4, p, q, m) => Reads(f, toks, 3, p, q, m)
         /\ Reads(f, toks, 3, p, q, m) => Reads(f, toks, 2, p, q, m)
         /\ Reads(f, toks, 2, p, q, m) => Reads(f, toks, 1, p, q, m)
  <1>0. "&&" \notin Signs /\ "||" \notin Signs
    BY DEF Signs, Joins, Comparisons
  <1>1. ASSUME ReadsPrimary(f, toks, p, q, m) PROVE ReadsComparison(f, toks, p, q, m)
    <2> SUFFICES ASSUME Peek(toks, q) \notin Signs PROVE f[<<"comparison", p>>] = Answer(m, q)
      BY <1>1 DEF ReadsPrimary, ReadsComparison
    <2> DEFINE l == f[<<"primary", p>>]
    <2>1. l = Answer(m, q)
      BY <1>1 DEF ReadsPrimary, Signs
    <2>2. ~l.ok \/ Peek(toks, l.next) \notin Comparisons
      BY <2>1, AnswerFacts DEF Signs
    <2>3. ParseComparison(f, toks, p) = l
      BY <2>2 DEF ParseComparison
    <2> QED
      BY <2>1, <2>3, RuleOf
  <1>2. ASSUME ReadsComparison(f, toks, p, q, m) PROVE ReadsNot(f, toks, p, q, m)
    <2>1. f[<<"not", p>>] = f[<<"comparison", p>>]
      BY <1>2, RuleOf DEF ReadsComparison, ParseNot
    <2> QED
      BY <1>2, <2>1 DEF ReadsComparison, ReadsNot
  <1>3. ASSUME ReadsNot(f, toks, p, q, m) PROVE ReadsChain(f, toks, "and", "&&", p, q, m)
    <2>1. f[<<"and", p>>] = Chain(f, "and", "not", "&&", toks, p)
      BY RuleOf
    <2>2. Peek(toks, q) \notin Signs \cup ({"&&"} \ {"&&"}) => f[<<"not", p>>] = Answer(m, q)
      BY <1>3 DEF ReadsNot
    <2> QED
      BY <1>0, <2>1, <2>2, ChainReads
  <1>4. ASSUME ReadsChain(f, toks, "and", "&&", p, q, m)
        PROVE  ReadsChain(f, toks, "or", "||", p, q, m)
    <2>1. f[<<"or", p>>] = Chain(f, "or", "and", "||", toks, p)
      BY RuleOf
    <2>2. Peek(toks, q) \notin Signs \cup ({"&&"} \ {"||"}) => f[<<"and", p>>] = Answer(m, q)
      BY <1>4 DEF ReadsChain
    <2> QED
      BY <1>0, <2>1, <2>2, ChainReads
  <1> QED
    BY <1>1, <1>2, <1>3, <1>4, ReadsCases

\* So it is read as one of any lower strength.
LEMMA ReadsAsOperand ==
  ASSUME NEW toks, NEW ctx, NEW f, Parses(f, toks, ctx), NEW p \in 1..(Len(toks) + 1), NEW q, NEW m,
         NEW s \in 1..5, NEW s2 \in 1..5, s2 <= s, Reads(f, toks, s, p, q, m)
  PROVE  Reads(f, toks, s2, p, q, m)
  <1>1. /\ Reads(f, toks, 5, p, q, m) => Reads(f, toks, 4, p, q, m)
        /\ Reads(f, toks, 4, p, q, m) => Reads(f, toks, 3, p, q, m)
        /\ Reads(f, toks, 3, p, q, m) => Reads(f, toks, 2, p, q, m)
        /\ Reads(f, toks, 2, p, q, m) => Reads(f, toks, 1, p, q, m)
    BY ReadsWeaker
  <1>2. s \in {1, 2, 3, 4, 5} /\ s2 \in {1, 2, 3, 4, 5}
    OBVIOUS
  <1> QED
    BY <1>1, <1>2

\* What stands in parentheses is read as a primary.
LEMMA ParensRead ==
  ASSUME NEW toks, NEW ctx, NEW f, Parses(f, toks, ctx), NEW p \in 1..(Len(toks) + 1), NEW q, NEW m,
         Peek(toks, p) = "(", Peek(toks, q) = ")", Reads(f, toks, 1, p + 1, q, m)
  PROVE  Reads(f, toks, 5, p, q + 1, m)
  <1> DEFINE e == f[<<"or", p + 1>>]
  <1>1. ")" \notin Signs \cup {"&&", "||"}
    BY DEF Signs, Joins, Comparisons
  <1>2. e = Answer(m, q)
    <2>1. ReadsChain(f, toks, "or", "||", p + 1, q, m)
      BY ReadsCases
    <2> QED
      BY <1>1, <2>1 DEF ReadsChain
  <1>3. f[<<"primary", p>>] = Closed(e, toks)
    <2>1. f[<<"primary", p>>] = ParsePrimary(f, toks, p, ctx)
      BY RuleOf
    <2> QED
      BY <2>1 DEF ParsePrimary
  <1> HIDE DEF e
  <1>4. Closed(e, toks) = Answer(m, q + 1)
    <2>1. CASE m.def
      BY <1>2, <2>1, AnswerFacts DEF Closed
    <2>2. CASE ~m.def
      BY <1>2, <2>2, AnswerFacts DEF Closed
    <2> QED
      BY <2>1, <2>2
  <1> QED
    BY <1>3, <1>4, ReadsCases DEF ReadsPrimary

\* A "!" and an operand of its strength are read as a negation.
LEMMA NotReads ==
  ASSUME NEW toks, NEW ctx, NEW f, Parses(f, toks, ctx), NEW p \in 1..(Len(toks) + 1), NEW q, NEW m,
         Peek(toks, p) = "!", Reads(f, toks, 3, p + 1, q, m)
  PROVE  Reads(f, toks, 3, p, q, Negated(m))
  <1> DEFINE e == f[<<"not", p + 1>>]
             v == Bool(~IsTruthy(m.val))
  <1> SUFFICES ASSUME Peek(toks, q) \notin Signs PROVE f[<<"not", p>>] = Answer(Negated(m), q)
    BY ReadsCases DEF ReadsNot
  <1>1. e = Answer(m, q)
    BY ReadsCases DEF ReadsNot
  <1>2. f[<<"not", p>>] = IF e.ok THEN Result(Bool(~IsTruthy(e.val)), e.next) ELSE Fail
    BY RuleOf DEF ParseNot
  <1> HIDE DEF e
  <1>3. CASE m.def
    <2>1. e.ok /\ e.val = m.val /\ e.next = q
      BY <1>1, <1>3, AnswerFacts
    <2>2. f[<<"not", p>>] = Result(v, q)
      BY <1>2, <2>1
    <2>3. Negated(m) = Means(v)
      BY <1>3 DEF Negated
    <2> HIDE DEF v
    <2> QED
      BY <2>2, <2>3, MeaningForms, AnswerFacts
  <1>4. CASE ~m.def
    <2>1. f[<<"not", p>>] = Fail
      BY <1>1, <1>2, <1>4, AnswerFacts
    <2>2. Negated(m) = Undefined
      BY <1>4 DEF Negated
    <2> QED
      BY <2>1, <2>2, MeaningForms, AnswerFacts
  <1> QED
    BY <1>3, <1>4

\* Two primaries and the sign between them are read as a comparison.
LEMMA ComparisonReads ==
  ASSUME NEW toks, NEW ctx, NEW f, Parses(f, toks, ctx), NEW p \in 1..(Len(toks) + 1), NEW j, NEW q,
         NEW l, NEW r, NEW op \in Comparisons, Peek(toks, j) = op,
         Reads(f, toks, 5, p, j, l), Reads(f, toks, 5, j + 1, q, r)
  PROVE  Reads(f, toks, 4, p, q, Compared(op, l, r))
  <1> DEFINE a == f[<<"primary", p>>]
             b == f[<<"primary", j + 1>>]
             v == EvalComparison(l.val, op, r.val)
  <1>1. Peek(toks, p) # "!"
    BY ReadsCases DEF ReadsPrimary
  <1> SUFFICES ASSUME Peek(toks, q) \notin Signs
               PROVE  f[<<"comparison", p>>] = Answer(Compared(op, l, r), q)
    BY <1>1, ReadsCases DEF ReadsComparison
  <1>2. op \notin Joins
    BY DEF Joins, Comparisons
  <1>3. a = Answer(l, j) /\ b = Answer(r, q)
    <2>1. ReadsPrimary(f, toks, p, j, l) /\ ReadsPrimary(f, toks, j + 1, q, r)
      BY ReadsCases
    <2> QED
      BY <1>2, <2>1 DEF ReadsPrimary, Signs
  <1>4. f[<<"comparison", p>>] = ParseComparison(f, toks, p)
    BY RuleOf
  <1>5. CASE ~l.def
    <2>1. ParseComparison(f, toks, p) = Fail
      BY <1>3, <1>5, AnswerFacts DEF ParseComparison
    <2>2. Compared(op, l, r) = Undefined
      BY <1>5 DEF Compared
    <2> QED
      BY <1>4, <2>1, <2>2, MeaningForms, AnswerFacts
  <1>6. CASE l.def
    <2>1. a.ok /\ a.val = l.val /\ a.next = j
      BY <1>3, <1>6, AnswerFacts
    <2>2. ParseComparison(f, toks, p)
            = IF b.ok THEN Result(EvalComparison(l.val, op, b.val), b.next) ELSE Fail
      BY <2>1 DEF ParseComparison
    <2> HIDE DEF b
    <2>3. CASE ~r.def
      <3>1. ParseComparison(f, toks, p) = Fail
        BY <1>3, <2>2, <2>3, AnswerFacts
      <3>2. Compared(op, l, r) = Undefined
        BY <2>3 DEF Compared
      <3> QED
        BY <1>4, <3>1, <3>2, MeaningForms, AnswerFacts
    <2>4. CASE r.def
      <3>1. b.ok /\ b.val = r.val /\ b.next = q
        BY <1>3, <2>4, AnswerFacts
      <3>2. ParseComparison(f, toks, p) = Result(v, q)
        BY <2>2, <3>1
      <3>3. Compared(op, l, r) = Means(v)
        BY <1>6, <2>4 DEF Compared
      <3> HIDE DEF v
      <3> QED
        BY <1>4, <3>2, <3>3, MeaningForms, AnswerFacts
    <2> QED
      BY <2>3, <2>4
  <1> QED
    BY <1>5, <1>6

\* The truth of a Boolean is itself.
LEMMA CombineTruth ==
  ASSUME NEW sign, NEW a, NEW b
  PROVE  IsTruthy(Bool(Combine(sign, a, b))) = Combine(sign, a, b)
  BY DEF IsTruthy, Bool

\* Both operations associate: the loop of the code, from the left, and the recursion of
\* the model, from the right, agree.
LEMMA CombineAssociates ==
  ASSUME NEW sign, NEW a, NEW b, NEW c
  PROVE  Combine(sign, a, Combine(sign, b, c)) = Combine(sign, Combine(sign, a, b), c)
  BY DEF Combine

\* An operand joined to what follows, and two operands joined, one by one or together.
LEMMA ThenJoins ==
  ASSUME NEW sign, NEW l, NEW r, NEW q, NEW e
  PROVE  /\ ThenAnswer(sign, l, Answer(r, q)) = Answer(Joined(sign, l, r), q)
         /\ ThenAnswer(sign, l, ThenAnswer(sign, r, e)) = ThenAnswer(sign, Joined(sign, l, r), e)
  <1> DEFINE a == IsTruthy(l.val)
             b == IsTruthy(r.val)
             c == IsTruthy(e.val)
             v == Bool(Combine(sign, a, b))
  <1>1. CASE l.def /\ r.def
    <2>1. Joined(sign, l, r) = Means(v) /\ Joined(sign, l, r).def /\ Joined(sign, l, r).val = v
      <3>1. Joined(sign, l, r) = Means(v)
        BY <1>1 DEF Joined
      <3> HIDE DEF v
      <3> QED
        BY <3>1, MeaningForms
    <2>2. ThenAnswer(sign, l, Answer(r, q)) = Result(v, q)
      BY <1>1, AnswerFacts DEF ThenAnswer
    <2>3. CASE ~e.ok
      <3>1. ThenAnswer(sign, r, e) = Fail /\ ThenAnswer(sign, Joined(sign, l, r), e) = Fail
        BY <2>3 DEF ThenAnswer
      <3>2. ThenAnswer(sign, l, Fail) = Fail
        BY AnswerForms DEF ThenAnswer
      <3> QED
        BY <2>1, <2>2, <3>1, <3>2, AnswerFacts
    <2>4. CASE e.ok
      <3> DEFINE w == Bool(Combine(sign, b, c))
                 x == Bool(Combine(sign, a, IsTruthy(w)))
                 y == Bool(Combine(sign, IsTruthy(v), c))
      <3>1. ThenAnswer(sign, r, e) = Result(w, e.next)
        BY <1>1, <2>4 DEF ThenAnswer
      <3>2. ThenAnswer(sign, l, Result(w, e.next)) = Result(x, e.next)
        <4> HIDE DEF w
        <4> QED
          BY <1>1, AnswerForms DEF ThenAnswer
      <3>3. ThenAnswer(sign, Joined(sign, l, r), e) = Result(y, e.next)
        <4> HIDE DEF v
        <4> QED
          BY <2>1, <2>4 DEF ThenAnswer
      <3>4. x = y
        <4> HIDE DEF a, b, c
        <4>1. IsTruthy(w) = Combine(sign, b, c) /\ IsTruthy(v) = Combine(sign, a, b)
          BY CombineTruth
        <4>2. Combine(sign, a, Combine(sign, b, c)) = Combine(sign, Combine(sign, a, b), c)
          BY CombineAssociates
        <4> QED
          BY <4>1, <4>2
      <3> QED
        BY <2>1, <2>2, <3>1, <3>2, <3>3, <3>4, AnswerFacts
    <2> QED
      BY <2>3, <2>4
  <1>2. CASE ~l.def
    <2>1. Joined(sign, l, r) = Undefined /\ ~Joined(sign, l, r).def
      BY <1>2, MeaningForms DEF Joined
    <2>2. \A x : ThenAnswer(sign, l, x) = Fail
      BY <1>2 DEF ThenAnswer
    <2>3. ThenAnswer(sign, Joined(sign, l, r), e) = Fail
      BY <2>1 DEF ThenAnswer
    <2> QED
      BY <2>1, <2>2, <2>3, AnswerFacts
  <1>3. CASE ~r.def
    <2>1. Joined(sign, l, r) = Undefined /\ ~Joined(sign, l, r).def
      BY <1>3, MeaningForms DEF Joined
    <2>2. Answer(r, q) = Fail /\ ThenAnswer(sign, r, e) = Fail
      BY <1>3, AnswerFacts DEF ThenAnswer
    <2>3. ThenAnswer(sign, l, Fail) = Fail
      BY AnswerForms DEF ThenAnswer
    <2>4. ThenAnswer(sign, Joined(sign, l, r), e) = Fail
      BY <2>1 DEF ThenAnswer
    <2> QED
      BY <2>1, <2>2, <2>3, <2>4, AnswerFacts
  <1> QED
    BY <1>1, <1>2, <1>3

\* Two chains with the sign between them are one chain.
LEMMA ChainsJoin ==
  ASSUME NEW f, NEW toks, NEW rule, NEW sign \in {"&&", "||"}, NEW p, NEW j, NEW q, NEW l, NEW r,
         Peek(toks, j) = sign, ReadsChain(f, toks, rule, sign, p, j, l),
         ReadsChain(f, toks, rule, sign, j + 1, q, r)
  PROVE  ReadsChain(f, toks, rule, sign, p, q, Joined(sign, l, r))
  <1> DEFINE e == f[<<rule, j + 1>>]
  <1>1. f[<<rule, p>>] = ThenAnswer(sign, l, e)
    BY DEF ReadsChain
  <1>2. ASSUME Peek(toks, q) \notin Signs \cup {"&&", sign}
        PROVE  f[<<rule, p>>] = Answer(Joined(sign, l, r), q)
    <2>1. e = Answer(r, q)
      BY <1>2 DEF ReadsChain
    <2> QED
      BY <1>1, <2>1, ThenJoins
  <1>3. ASSUME Peek(toks, q) = sign
        PROVE  f[<<rule, p>>] = ThenAnswer(sign, Joined(sign, l, r), f[<<rule, q + 1>>])
    <2>1. e = ThenAnswer(sign, r, f[<<rule, q + 1>>])
      BY <1>3 DEF ReadsChain
    <2> QED
      BY <1>1, <2>1, ThenJoins
  <1> QED
    BY <1>2, <1>3 DEF ReadsChain

\* "&&" and "||" read their right operand as one that binds tighter.
LEMMA BinaryReads ==
  ASSUME NEW toks, NEW ctx, NEW f, Parses(f, toks, ctx), NEW p, NEW j, j + 1 \in 1..(Len(toks) + 1),
         NEW q, NEW l, NEW r, NEW s \in {1, 2}, NEW sign,
         sign = IF s = 1 THEN "||" ELSE "&&", Peek(toks, j) = sign,
         Reads(f, toks, s, p, j, l), Reads(f, toks, s + 1, j + 1, q, r)
  PROVE  Reads(f, toks, s, p, q, Joined(sign, l, r))
  <1> DEFINE j2 == j + 1
  <1>1. Reads(f, toks, s, j2, q, r)
    <2> HIDE DEF j2
    <2>1. j2 \in 1..(Len(toks) + 1) /\ Reads(f, toks, s + 1, j2, q, r)
      BY DEF j2
    <2> QED
      BY <2>1, ReadsWeaker
  <1>2. CASE s = 1
    <2>1. ReadsChain(f, toks, "or", "||", p, j, l) /\ ReadsChain(f, toks, "or", "||", j + 1, q, r)
      BY <1>1, <1>2, ReadsCases
    <2> QED
      BY <1>2, <2>1, ChainsJoin, ReadsCases
  <1>3. CASE s = 2
    <2>1. ReadsChain(f, toks, "and", "&&", p, j, l) /\ ReadsChain(f, toks, "and", "&&", j + 1, q, r)
      BY <1>1, <1>3, ReadsCases
    <2> QED
      BY <1>3, <2>1, ChainsJoin, ReadsCases
  <1> QED
    BY <1>2, <1>3

-------------------------------------------------------------------------------
(***************************************************************************)
(* Texts: lists of tokens, where they stand in others, and how the parser  *)
(* reads the three kinds of leaves.                                        *)
(***************************************************************************)

\* w is a sequence, of anything.
IsList(w) == Len(w) \in Nat /\ w = [j \in 1..Len(w) |-> w[j]]

\* A sequence over a set is one of anything.
LEMMA SeqIsList ==
  ASSUME NEW S, NEW w \in Seq(S)
  PROVE  IsList(w)
  BY DEF IsList

\* c is a and then b.
IsConcat(c, a, b) ==
  /\ IsList(c) /\ Len(c) = Len(a) + Len(b)
  /\ \A j \in 1..Len(a) : c[j] = a[j]
  /\ \A j \in 1..Len(b) : c[Len(a) + j] = b[j]

\* Two lists, one after the other.
LEMMA ListsConcat ==
  ASSUME NEW a, NEW b, IsList(a), IsList(b)
  PROVE  IsConcat(a \o b, a, b)
  <1> DEFINE S == {a[j] : j \in 1..Len(a)} \cup {b[j] : j \in 1..Len(b)}
  <1>1. a \in Seq(S) /\ b \in Seq(S)
    <2>1. [j \in 1..Len(a) |-> a[j]] \in Seq(S)
      BY DEF IsList
    <2>2. [j \in 1..Len(b) |-> b[j]] \in Seq(S)
      BY DEF IsList
    <2> QED
      BY <2>1, <2>2 DEF IsList
  <1> HIDE DEF S
  <1>2. a \o b \in Seq(S) /\ Len(a \o b) = Len(a) + Len(b)
    BY <1>1
  <1>3. \A j \in 1..Len(a) : (a \o b)[j] = a[j]
    BY <1>1
  <1>4. \A j \in 1..Len(b) : (a \o b)[Len(a) + j] = b[j]
    BY <1>1
  <1>5. IsList(a \o b)
    BY <1>2, SeqIsList, Zenon
  <1> QED
    BY <1>2, <1>3, <1>4, <1>5 DEF IsConcat

\* A list of one element.
LEMMA ListOfOne ==
  ASSUME NEW x
  PROVE  IsList(<<x>>) /\ Len(<<x>>) = 1 /\ <<x>>[1] = x
  BY DEF IsList

\* Two lists with the same elements.
LEMMA ListsEqual ==
  ASSUME NEW a, NEW b, IsList(a), IsList(b), Len(a) = Len(b), \A j \in 1..Len(a) : a[j] = b[j]
  PROVE  a = b
  <1>1. [j \in 1..Len(a) |-> a[j]] = [j \in 1..Len(b) |-> b[j]]
    OBVIOUS
  <1> QED
    BY <1>1 DEF IsList

\* w stands in the tokens from p to before q.
Occurs(w, toks, p, q) ==
  /\ IsList(w) /\ q = p + Len(w) /\ p \in 1..(Len(toks) + 1) /\ q \in 1..(Len(toks) + 1)
  /\ \A j \in 1..Len(w) : toks[p + j - 1] = w[j]

\* Where two lists stand one after the other, each stands in its place.
LEMMA OccursSplit ==
  ASSUME NEW toks, Len(toks) \in Nat, NEW a, NEW b, IsList(a), IsList(b), NEW p, NEW q,
         Occurs(a \o b, toks, p, q)
  PROVE  Occurs(a, toks, p, p + Len(a)) /\ Occurs(b, toks, p + Len(a), q)
  <1> DEFINE la == Len(a)
             lb == Len(b)
             c == a \o b
  <1>1. /\ IsList(c) /\ Len(c) = la + lb /\ la \in Nat /\ lb \in Nat
        /\ \A j \in 1..la : c[j] = a[j]
        /\ \A j \in 1..lb : c[la + j] = b[j]
    BY ListsConcat DEF IsList, IsConcat
  <1>2. /\ q = p + Len(c) /\ p \in 1..(Len(toks) + 1) /\ q \in 1..(Len(toks) + 1)
        /\ \A j \in 1..Len(c) : toks[p + j - 1] = c[j]
    BY DEF Occurs
  <1> HIDE DEF la, lb, c
  <1>3. q = (p + la) + lb /\ p + la \in 1..(Len(toks) + 1)
    BY <1>1, <1>2
  <1>4. ASSUME NEW j \in 1..la PROVE toks[p + j - 1] = a[j]
    BY <1>1, <1>2
  <1>5. ASSUME NEW j \in 1..lb PROVE toks[(p + la) + j - 1] = b[j]
    <2>1. la + j \in 1..Len(c) /\ p + (la + j) - 1 = (p + la) + j - 1
      BY <1>1, <1>2
    <2> QED
      BY <1>1, <1>2, <2>1
  <1> QED
    BY <1>2, <1>3, <1>4, <1>5 DEF Occurs, la, lb

\* Where one token stands.
LEMMA OccursOne ==
  ASSUME NEW toks, Len(toks) \in Nat, NEW x, NEW p, NEW q, Occurs(<<x>>, toks, p, q)
  PROVE  /\ q = p + 1 /\ p \in 1..Len(toks) /\ p \in 1..(Len(toks) + 1) /\ q \in 1..(Len(toks) + 1)
         /\ toks[p] = x /\ Peek(toks, p) = x.typ
  <1>1. /\ q = p + 1 /\ p \in 1..(Len(toks) + 1) /\ q \in 1..(Len(toks) + 1)
        /\ \A j \in 1..1 : toks[p + j - 1] = <<x>>[j]
    BY ListOfOne DEF Occurs
  <1>2. p + 1 - 1 = p /\ p \in 1..Len(toks) /\ 1 \in 1..1
    BY <1>1
  <1>3. toks[p] = x
    <2>1. toks[p + 1 - 1] = <<x>>[1]
      BY <1>1, <1>2
    <2> QED
      BY <1>2, <2>1
  <1> QED
    BY <1>1, <1>2, <1>3 DEF Peek

\* A literal is read as its value.
LEMMA LiteralReads ==
  ASSUME NEW toks, Len(toks) \in Nat, NEW ctx, NEW f, Parses(f, toks, ctx), NEW p, NEW q,
         NEW v, IsLiteral(v), Occurs(<<Literal(v)>>, toks, p, q)
  PROVE  Reads(f, toks, 5, p, q, Means(v))
  <1>1. /\ q = p + 1 /\ p \in 1..(Len(toks) + 1)
        /\ toks[p] = Literal(v) /\ Peek(toks, p) = Literal(v).typ
    BY OccursOne
  <1>2. f[<<"primary", p>>] = ParsePrimary(f, toks, p, ctx)
    <2>1. p \in 1..(Len(toks) + 1)
      BY <1>1
    <2> QED
      BY <2>1, RuleOf, Zenon
  <1>3. Peek(toks, p) # "!" /\ ParsePrimary(f, toks, p, ctx) = Result(v, p + 1)
    <2>1. CASE v = Nil
      <3>1. Peek(toks, p) = "null"
        BY <1>1, <2>1 DEF Literal, Nil
      <3> QED
        BY <2>1, <3>1 DEF ParsePrimary
    <2>2. CASE v = Bool(TRUE)
      <3>1. Peek(toks, p) = "bool" /\ toks[p].val = "true"
        BY <1>1, <2>2 DEF Literal, Bool, ValueToString
      <3>2. (toks[p].val = "true") = TRUE
        BY <3>1
      <3> QED
        BY <2>2, <3>1, <3>2 DEF ParsePrimary
    <2>3. CASE v = Bool(FALSE)
      <3>1. Peek(toks, p) = "bool" /\ toks[p].val = "false"
        BY <1>1, <2>3 DEF Literal, Bool, ValueToString
      <3>2. (toks[p].val = "true") = FALSE
        BY <3>1
      <3> QED
        BY <2>3, <3>1, <3>2 DEF ParsePrimary
    <2>4. CASE v = Num(v[2])
      <3>1. Peek(toks, p) = "number" /\ toks[p].val = v[2]
        <4>1. v[1] = "num"
          BY <2>4 DEF Num
        <4> QED
          BY <1>1, <4>1 DEF Literal
      <3> QED
        BY <2>4, <3>1 DEF ParsePrimary
    <2>5. CASE v = Str(v[2])
      <3>1. Peek(toks, p) = "string" /\ toks[p].val = v[2]
        <4>1. v[1] = "str"
          BY <2>5 DEF Str
        <4> QED
          BY <1>1, <4>1 DEF Literal
      <3> QED
        BY <2>5, <3>1 DEF ParsePrimary
    <2> QED
      BY <2>1, <2>2, <2>3, <2>4, <2>5 DEF IsLiteral
  <1>4. Answer(Means(v), q) = Result(v, p + 1)
    BY <1>1, MeaningForms, AnswerFacts
  <1> QED
    BY <1>2, <1>3, <1>4, ReadsCases DEF ReadsPrimary

\* The meaning of a call.
CallMeaning(name, ctx) ==
  IF name \in KnownFunctions THEN Means(CallFunction(name, ctx)) ELSE Undefined

\* A call is read as what the function returns, an unknown one as an error.
LEMMA CallReads ==
  ASSUME NEW toks, Len(toks) \in Nat, NEW ctx, NEW f, Parses(f, toks, ctx), NEW p, NEW q,
         NEW name, Occurs(Call(name), toks, p, q)
  PROVE  Reads(f, toks, 5, p, q, CallMeaning(name, ctx))
  <1>1. /\ Len(Call(name)) = 3
        /\ Call(name)[1].typ = "ident" /\ Call(name)[1].val = name
        /\ Call(name)[2].typ = "(" /\ Call(name)[3].typ = ")"
    BY DEF Call, Sign
  <1>2. q = p + 3 /\ p \in 1..(Len(toks) + 1) /\ q \in 1..(Len(toks) + 1)
        /\ \A j \in 1..3 : toks[p + j - 1] = Call(name)[j]
    BY <1>1 DEF Occurs
  <1>3. p + 1 - 1 = p /\ p + 2 - 1 = p + 1 /\ p + 3 - 1 = p + 2 /\ {1, 2, 3} \subseteq 1..3
    BY <1>2
  <1>4. toks[p] = Call(name)[1] /\ toks[p + 1] = Call(name)[2] /\ toks[p + 2] = Call(name)[3]
    <2>1. \A j \in {1, 2, 3} : toks[p + j - 1] = Call(name)[j]
      BY <1>2, <1>3
    <2> QED
      BY <1>3, <2>1
  <1>5. /\ Peek(toks, p) = "ident" /\ toks[p].val = name
        /\ Peek(toks, p + 1) = "(" /\ Peek(toks, p + 2) = ")"
    BY <1>1, <1>2, <1>4 DEF Peek
  <1>6. f[<<"primary", p>>] = ParseIdentOrCall(f, toks, p, ctx)
    <2>1. f[<<"primary", p>>] = ParsePrimary(f, toks, p, ctx)
      <3>1. p \in 1..(Len(toks) + 1)
        BY <1>2
      <3> QED
        BY <3>1, RuleOf, Zenon
    <2> QED
      BY <1>5, <2>1 DEF ParsePrimary
  <1>7. f[<<"args", p + 2>>] = Result(0, p + 2)
    <2> DEFINE r == p + 2
    <2>1. r \in 1..(Len(toks) + 1)
      BY <1>2
    <2>2. Peek(toks, r) = ")"
      BY <1>5
    <2> HIDE DEF r
    <2>3. f[<<"args", r>>] = ParseArgs(f, toks, r, TRUE)
      BY <2>1, RuleOf
    <2>4. f[<<"args", r>>] = Result(0, r)
      BY <2>2, <2>3 DEF ParseArgs
    <2> QED
      BY <2>4 DEF r
  <1>8. Closed(Result(0, p + 2), toks) = Result(0, q) /\ Result(0, q).ok /\ Result(0, q).next = q
    <2>1. (p + 2) + 1 = q
      BY <1>2
    <2> QED
      BY <1>5, <2>1, AnswerForms DEF Closed
  <1>9. ParseIdentOrCall(f, toks, p, ctx)
          = IF name \in KnownFunctions THEN Result(CallFunction(name, ctx), q) ELSE Fail
    BY <1>5, <1>7, <1>8 DEF ParseIdentOrCall
  <1>10. Answer(CallMeaning(name, ctx), q)
          = IF name \in KnownFunctions THEN Result(CallFunction(name, ctx), q) ELSE Fail
    BY MeaningForms, AnswerFacts DEF CallMeaning
  <1> QED
    BY <1>5, <1>6, <1>9, <1>10, ReadsCases DEF ReadsPrimary

\* The parts after the first j.
From(parts, j) == [n \in 1..(Len(parts) - j) |-> parts[j + n]]

\* What is left of a list.
LEMMA FromIsList ==
  ASSUME NEW parts, Len(parts) \in Nat, NEW j \in 0..Len(parts)
  PROVE  /\ IsList(From(parts, j)) /\ Len(From(parts, j)) = Len(parts) - j
         /\ \A n \in 1..(Len(parts) - j) : From(parts, j)[n] = parts[j + n]
  <1> DEFINE k == Len(parts) - j
             w == [n \in 1..k |-> parts[j + n]]
  <1>1. k \in Nat
    OBVIOUS
  <1> HIDE DEF k
  <1>2. Len(w) = k
    BY <1>1
  <1>3. \A n \in 1..k : w[n] = parts[j + n]
    OBVIOUS
  <1>4. w = [n \in 1..k |-> w[n]]
    OBVIOUS
  <1>5. From(parts, j) = w
    BY DEF From, k
  <1> HIDE DEF w
  <1> QED
    BY <1>1, <1>2, <1>3, <1>4, <1>5 DEF IsList, k

\* One part more.
LEMMA FromNext ==
  ASSUME NEW parts, Len(parts) \in Nat, NEW j \in 0..(Len(parts) - 1)
  PROVE  <<parts[j + 1]>> \o From(parts, j + 1) = From(parts, j)
  <1> DEFINE L == Len(parts)
             a == <<parts[j + 1]>>
             b == From(parts, j + 1)
             c == From(parts, j)
             i2 == j + 1
  <1>1. IsList(a) /\ Len(a) = 1 /\ a[1] = parts[j + 1]
    BY ListOfOne
  <1>2. IsList(b) /\ Len(b) = L - (j + 1) /\ \A n \in 1..(L - (j + 1)) : b[n] = parts[(j + 1) + n]
    <2>1. i2 \in 0..L
      OBVIOUS
    <2> HIDE DEF i2
    <2>2. IsList(From(parts, i2)) /\ Len(From(parts, i2)) = L - i2
          /\ \A n \in 1..(L - i2) : From(parts, i2)[n] = parts[i2 + n]
      BY <2>1, FromIsList
    <2> QED
      BY <2>2 DEF i2
  <1>3. IsList(c) /\ Len(c) = L - j /\ \A n \in 1..(L - j) : c[n] = parts[j + n]
    <2>1. j \in 0..L
      OBVIOUS
    <2> QED
      BY <2>1, FromIsList
  <1> HIDE DEF a, b, c
  <1>4. /\ IsList(a \o b) /\ Len(a \o b) = Len(a) + Len(b)
        /\ \A n \in 1..Len(a) : (a \o b)[n] = a[n]
        /\ \A n \in 1..Len(b) : (a \o b)[Len(a) + n] = b[n]
    <2>1. IsList(a) /\ IsList(b)
      BY <1>1, <1>2
    <2>2. IsConcat(a \o b, a, b)
      BY <2>1, ListsConcat
    <2> QED
      BY <2>2 DEF IsConcat
  <1>5. Len(a \o b) = Len(c)
    BY <1>1, <1>2, <1>3, <1>4
  <1>6. ASSUME NEW n \in 1..Len(a \o b) PROVE (a \o b)[n] = c[n]
    <2>1. n \in 1..(L - j)
      BY <1>3, <1>5
    <2>2. CASE n = 1
      BY <1>1, <1>3, <1>4, <2>1, <2>2
    <2>3. CASE n # 1
      <3>1. n - 1 \in 1..(L - (j + 1)) /\ 1 + (n - 1) = n /\ (j + 1) + (n - 1) = j + n
        BY <2>1, <2>3
      <3>2. (a \o b)[1 + (n - 1)] = b[n - 1]
        BY <1>1, <1>2, <1>4, <3>1
      <3>3. b[n - 1] = parts[(j + 1) + (n - 1)]
        BY <1>2, <3>1
      <3> QED
        BY <1>3, <2>1, <3>1, <3>2, <3>3
    <2> QED
      BY <2>2, <2>3
  <1>7. a \o b = c
    BY <1>3, <1>4, <1>5, <1>6, ListsEqual
  <1> QED
    BY <1>7 DEF a, b, c

\* The text of a path: its parts at the odd places, dots between them.
LEMMA DottedIsList ==
  ASSUME NEW parts, Len(parts) \in Nat, Len(parts) # 0
  PROVE  /\ IsList(Dotted(parts)) /\ Len(Dotted(parts)) = 2 * Len(parts) - 1
         /\ \A j \in 1..Len(parts) : Dotted(parts)[2 * j - 1] = Ident(parts[j])
         /\ \A j \in 1..(Len(parts) - 1) : Dotted(parts)[2 * j] = Sign(".")
  <1> DEFINE k == 2 * Len(parts) - 1
             val(n) == IF n % 2 = 1 THEN Ident(parts[(n + 1) \div 2]) ELSE Sign(".")
             w == [n \in 1..k |-> val(n)]
  <1>1. k \in Nat
    OBVIOUS
  <1>2. Dotted(parts) = w
    BY DEF Dotted
  <1>3. Len(w) = k /\ w = [n \in 1..k |-> w[n]] /\ \A n \in 1..k : w[n] = val(n)
    <2> HIDE DEF k, val
    <2> QED
      BY <1>1
  <1>4. ASSUME NEW j \in 1..Len(parts) PROVE w[2 * j - 1] = Ident(parts[j])
    <2>1. 2 * j - 1 \in 1..k /\ (2 * j - 1) % 2 = 1 /\ ((2 * j - 1) + 1) \div 2 = j
      OBVIOUS
    <2> HIDE DEF w, k
    <2> QED
      BY <1>3, <2>1
  <1>5. ASSUME NEW j \in 1..(Len(parts) - 1) PROVE w[2 * j] = Sign(".")
    <2>1. 2 * j \in 1..k /\ (2 * j) % 2 # 1
      OBVIOUS
    <2> HIDE DEF w, k
    <2> QED
      BY <1>3, <2>1
  <1> HIDE DEF w, k
  <1>6. IsList(w) /\ Len(w) = k
    BY <1>1, <1>3 DEF IsList
  <1> QED
    BY <1>2, <1>4, <1>5, <1>6 DEF k

\* From behind part j on, the parser reads the parts after j: by induction from the end.
LEMMA PartsRead ==
  ASSUME NEW toks, Len(toks) \in Nat, NEW ctx, NEW f, Parses(f, toks, ctx), NEW p, NEW q,
         NEW parts, Len(parts) \in Nat, Len(parts) # 0, Occurs(Dotted(parts), toks, p, q),
         Peek(toks, q) \notin Joins, NEW j \in 1..Len(parts)
  PROVE  f[<<"parts", p + 2 * j - 1>>] = Result(From(parts, j), q)
  <1> DEFINE L == Len(parts)
             At(n) == f[<<"parts", p + 2 * (L - n) - 1>>] = Result(From(parts, L - n), q)
             S == {n \in Nat : n < L => At(n)}
  <1>1. /\ q = p + (2 * L - 1) /\ p \in 1..(Len(toks) + 1) /\ q \in 1..(Len(toks) + 1)
        /\ \A n \in 1..(2 * L - 1) : toks[p + n - 1] = Dotted(parts)[n]
    BY DottedIsList DEF Occurs
  <1>2. 0 \in S
    <2>1. p + 2 * (L - 0) - 1 = q /\ L - 0 = L
      BY <1>1
    <2>2. f[<<"parts", q>>] = ParseParts(f, toks, q)
      <3>1. q \in 1..(Len(toks) + 1)
        BY <1>1
      <3> QED
        BY <3>1, RuleOf, Zenon
    <2>3. ParseParts(f, toks, q) = Result(<<>>, q)
      BY PartsCases DEF Joins
    <2>4. From(parts, L) = <<>>
      <3>1. L - L = 0
        OBVIOUS
      <3>2. From(parts, L) = [n \in 1..0 |-> parts[L + n]]
        BY <3>1 DEF From
      <3> QED
        BY <3>2
    <2>5. At(0)
      BY <2>1, <2>2, <2>3, <2>4
    <2> QED
      BY <2>5
  <1>3. ASSUME NEW n \in S PROVE n + 1 \in S
    <2> SUFFICES ASSUME n + 1 < L PROVE At(n + 1)
      OBVIOUS
    <2> DEFINE k == L - (n + 1)
               r == p + 2 * k - 1
    <2>1. n \in Nat /\ At(n)
      OBVIOUS
    <2>2. /\ k \in 1..(L - 1) /\ k + 1 = L - n /\ r + 2 = p + 2 * (L - n) - 1
          /\ r \in 1..(Len(toks) + 1) /\ r + 1 \in 1..Len(toks) /\ r \in 1..Len(toks)
          /\ 2 * k \in 1..(2 * L - 1) /\ 2 * (k + 1) - 1 \in 1..(2 * L - 1)
          /\ p + 2 * k - 1 = r /\ p + (2 * (k + 1) - 1) - 1 = r + 1
          /\ k + 1 \in 1..L
      BY <1>1, <2>1
    <2>3. f[<<"parts", r + 2>>] = Result(From(parts, k + 1), q)
      BY <2>1, <2>2
    <2> HIDE DEF k, r, At
    <2>4. toks[r] = Sign(".") /\ toks[r + 1] = Ident(parts[k + 1])
      <3>1. toks[p + 2 * k - 1] = Dotted(parts)[2 * k]
        BY <1>1, <2>2
      <3>2. toks[p + (2 * (k + 1) - 1) - 1] = Dotted(parts)[2 * (k + 1) - 1]
        BY <1>1, <2>2
      <3>3. Dotted(parts)[2 * k] = Sign(".") /\ Dotted(parts)[2 * (k + 1) - 1] = Ident(parts[k + 1])
        BY <2>2, DottedIsList
      <3> QED
        BY <2>2, <3>1, <3>2, <3>3
    <2>5. Peek(toks, r) = "." /\ Peek(toks, r + 1) = "ident" /\ toks[r + 1].val = parts[k + 1]
      <3>1. ~(r > Len(toks)) /\ ~(r + 1 > Len(toks))
        BY <2>2
      <3>2. Peek(toks, r) = toks[r].typ /\ Peek(toks, r + 1) = toks[r + 1].typ
        BY <3>1 DEF Peek
      <3>3. toks[r].typ = "." /\ toks[r + 1].typ = "ident" /\ toks[r + 1].val = parts[k + 1]
        BY <2>4 DEF Sign, Ident
      <3> QED
        BY <3>2, <3>3
    <2>6. f[<<"parts", r>>] = ParseParts(f, toks, r)
      <3>1. r \in 1..(Len(toks) + 1)
        BY <2>2
      <3> QED
        BY <3>1, RuleOf, Zenon
    <2>7. ParseParts(f, toks, r) = PartThen(f, parts[k + 1], r + 2)
      BY <2>5, PartsCases
    <2>8. PartThen(f, parts[k + 1], r + 2) = Result(<<parts[k + 1]>> \o From(parts, k + 1), q)
      BY <2>3, AnswerForms DEF PartThen
    <2>9. <<parts[k + 1]>> \o From(parts, k + 1) = From(parts, k)
      <3>1. k \in 0..(Len(parts) - 1)
        BY <2>2
      <3> QED
        BY <3>1, FromNext
    <2>10. f[<<"parts", r>>] = Result(From(parts, k), q)
      BY <2>6, <2>7, <2>8, <2>9
    <2> QED
      BY <2>10 DEF At, k, r
  <1>4. \A n \in Nat : n \in S
    <2> HIDE DEF S
    <2>1. S \in SUBSET Nat
      BY DEF S
    <2> QED
      BY <1>2, <1>3, <2>1, FromZero
  <1>5. L - j \in Nat /\ L - j < L /\ L - (L - j) = j
    OBVIOUS
  <1>6. At(L - j)
    BY <1>4, <1>5
  <1> QED
    BY <1>5, <1>6

\* A path is read as what the context has there.
LEMMA PathReads ==
  ASSUME NEW toks, Len(toks) \in Nat, NEW ctx, NEW f, Parses(f, toks, ctx), NEW p, NEW q,
         NEW parts, IsList(parts), Len(parts) # 0, Occurs(Dotted(parts), toks, p, q)
  PROVE  Reads(f, toks, 5, p, q, Means(Lookup(parts, ctx)))
  <1> DEFINE L == Len(parts)
             m == Means(Lookup(parts, ctx))
  <1>1. L \in Nat /\ L # 0
    BY DEF IsList
  <1>2. /\ q = p + (2 * L - 1) /\ p \in 1..(Len(toks) + 1) /\ q \in 1..(Len(toks) + 1)
        /\ \A n \in 1..(2 * L - 1) : toks[p + n - 1] = Dotted(parts)[n]
        /\ Dotted(parts)[2 * 1 - 1] = Ident(parts[1])
        /\ \A j \in 1..(L - 1) : Dotted(parts)[2 * j] = Sign(".")
    <2> DEFINE w == Dotted(parts)
    <2>1. /\ Len(w) = 2 * L - 1
          /\ \A j \in 1..L : w[2 * j - 1] = Ident(parts[j])
          /\ \A j \in 1..(L - 1) : w[2 * j] = Sign(".")
      BY <1>1, DottedIsList
    <2>2. /\ q = p + Len(w) /\ p \in 1..(Len(toks) + 1) /\ q \in 1..(Len(toks) + 1)
          /\ \A n \in 1..Len(w) : toks[p + n - 1] = w[n]
      BY DEF Occurs
    <2>3. 1 \in 1..L
      BY <1>1
    <2> HIDE DEF w, L
    <2>4. w[2 * 1 - 1] = Ident(parts[1])
      BY <2>1, <2>3
    <2>5. /\ q = p + (2 * L - 1)
          /\ \A n \in 1..(2 * L - 1) : toks[p + n - 1] = w[n]
      BY <2>1, <2>2
    <2> QED
      BY <2>1, <2>2, <2>4, <2>5 DEF w
  <1>3. p \in 1..Len(toks) /\ p + 1 <= Len(toks) + 1 /\ p + 1 \in Nat
    BY <1>1, <1>2
  <1>4. toks[p] = Ident(parts[1])
    <2>1. 2 * 1 - 1 = 1 /\ 1 \in 1..(2 * L - 1) /\ p + 1 - 1 = p
      BY <1>1, <1>2
    <2>2. toks[p + 1 - 1] = Dotted(parts)[1]
      BY <1>2, <2>1
    <2> QED
      BY <1>2, <2>1, <2>2
  <1>5. Peek(toks, p) = "ident" /\ toks[p].val = parts[1]
    BY <1>3, <1>4 DEF Peek, Ident
  <1> SUFFICES ASSUME Peek(toks, q) \notin Joins
               PROVE  f[<<"primary", p>>] = Answer(m, q)
    BY <1>5, ReadsCases DEF ReadsPrimary
  <1>6. Peek(toks, p + 1) # "("
    <2>1. CASE L = 1
      <3>1. q = p + 1
        BY <1>2, <2>1
      <3> QED
        BY <3>1 DEF Joins
    <2>2. CASE L # 1
      <3>1. /\ 2 * 1 \in 1..(2 * L - 1) /\ p + 2 * 1 - 1 = p + 1 /\ 1 \in 1..(L - 1)
            /\ p + 1 \in 1..Len(toks)
        <4> HIDE DEF L
        <4>1. q = p + (2 * L - 1) /\ p \in 1..(Len(toks) + 1) /\ q \in 1..(Len(toks) + 1)
              /\ L \in Nat /\ L > 1
          BY <1>1, <1>2, <2>2
        <4> QED
          BY <4>1
      <3>2. toks[p + 2 * 1 - 1] = Dotted(parts)[2 * 1] /\ Dotted(parts)[2 * 1] = Sign(".")
        BY <1>2, <3>1
      <3>3. toks[p + 1] = Sign(".")
        BY <3>1, <3>2
      <3> QED
        BY <3>1, <3>3 DEF Peek, Sign
    <2> QED
      BY <2>1, <2>2
  <1>7. f[<<"parts", p + 1>>] = Result(From(parts, 1), q)
    <2>1. 1 \in 1..L /\ p + 2 * 1 - 1 = p + 1
      BY <1>1, <1>2
    <2>2. f[<<"parts", p + 2 * 1 - 1>>] = Result(From(parts, 1), q)
      BY <1>1, <2>1, PartsRead
    <2> QED
      BY <2>1, <2>2
  <1>8. <<parts[1]>> \o From(parts, 1) = parts
    <2>1. 0 \in 0..(L - 1) /\ 0 + 1 = 1
      BY <1>1
    <2>2. <<parts[0 + 1]>> \o From(parts, 0 + 1) = From(parts, 0)
      BY <1>1, <2>1, FromNext
    <2>3. From(parts, 0) = parts
      <3> DEFINE w == From(parts, 0)
      <3>1. 0 \in 0..L /\ L - 0 = L /\ \A n \in 1..L : 0 + n = n
        BY <1>1
      <3>2. IsList(w) /\ Len(w) = L - 0 /\ \A n \in 1..(L - 0) : w[n] = parts[0 + n]
        BY <1>1, <3>1, FromIsList
      <3> HIDE DEF w
      <3>3. Len(w) = L /\ \A n \in 1..Len(w) : w[n] = parts[n]
        BY <3>1, <3>2
      <3>4. w = parts
        BY <3>2, <3>3, ListsEqual
      <3> QED
        BY <3>4 DEF w
    <2> QED
      BY <2>1, <2>2, <2>3
  <1>9. f[<<"primary", p>>] = ParseIdentOrCall(f, toks, p, ctx)
    <2>1. p \in 1..(Len(toks) + 1)
      BY <1>2
    <2>2. f[<<"primary", p>>] = ParsePrimary(f, toks, p, ctx)
      BY <2>1, RuleOf, Zenon
    <2> QED
      BY <1>5, <2>2 DEF ParsePrimary
  <1>10. ParseIdentOrCall(f, toks, p, ctx) = Result(Lookup(parts, ctx), q)
    <2> DEFINE s == f[<<"parts", p + 1>>]
    <2>1. s.ok /\ s.val = From(parts, 1) /\ s.next = q
      BY <1>7, AnswerForms
    <2>2. ParseIdentOrCall(f, toks, p, ctx)
            = IF s.ok THEN Result(Lookup(<<toks[p].val>> \o s.val, ctx), s.next) ELSE Fail
      BY <1>6 DEF ParseIdentOrCall
    <2> HIDE DEF s
    <2> QED
      BY <1>5, <1>8, <2>1, <2>2
  <1>11. Answer(m, q) = Result(Lookup(parts, ctx), q)
    BY MeaningForms, AnswerFacts
  <1> QED
    BY <1>9, <1>10, <1>11

-------------------------------------------------------------------------------
(***************************************************************************)
(* Trees: what a node is, and what its text and its meaning are, by kind.  *)
(***************************************************************************)

\* The kinds without operands.
Leaves == {"lit", "call", "path"}

\* No sign is a kind of leaf.
LEMMA KindsDiffer ==
  /\ Comparisons \cap Binary = {} /\ Comparisons \cap {"lit", "call", "path", "not"} = {}
  /\ Binary \cap {"lit", "call", "path", "not"} = {}
  BY DEF Comparisons, Binary

\* The kinds of nodes.
LEMMA NodeKinds ==
  ASSUME NEW n, NEW k, IsNode(n, k)
  PROVE  \/ n[1] = "lit" /\ IsLiteral(n[2])
         \/ n[1] = "call"
         \/ n[1] = "path" /\ IsList(n[2]) /\ Len(n[2]) # 0
         \/ n[1] = "not" /\ n[2] \in 1..(k - 1)
         \/ n[1] \in Comparisons /\ n[2] \in 1..(k - 1) /\ n[3] \in 1..(k - 1)
         \/ n[1] \in Binary /\ n[2] \in 1..(k - 1) /\ n[3] \in 1..(k - 1)
  <1>1. ASSUME NEW s, IsPath(s) PROVE IsList(s) /\ Len(s) # 0
    BY <1>1 DEF IsPath, IsList
  <1> QED
    BY <1>1 DEF IsNode

\* The text of an operation.
LEMMA TextKinds ==
  ASSUME NEW t, NEW text, NEW k
  PROVE  LET n == t[k]
             at(j, strength) == Placed(t, text, j, strength)
         IN  /\ n[1] = "lit" => NodeText(t, text, k) = <<Literal(n[2])>>
             /\ n[1] = "call" => NodeText(t, text, k) = Call(n[2])
             /\ n[1] = "path" => NodeText(t, text, k) = Dotted(n[2])
             /\ n[1] = "not" => NodeText(t, text, k) = Prefix("!", at(n[2], 3))
             /\ n[1] \in Comparisons =>
                  NodeText(t, text, k) = Infix(at(n[2], 5), n[1], at(n[3], 5))
             /\ n[1] \in Binary =>
                  NodeText(t, text, k) = Infix(at(n[2], Strength(n)), n[1], at(n[3], Strength(n) + 1))
  <1> DEFINE n == t[k]
             at(j, strength) == Placed(t, text, j, strength)
  <1>1. ASSUME n[1] = "lit" PROVE NodeText(t, text, k) = <<Literal(n[2])>>
    <2>1. n[1] \notin Comparisons /\ n[1] \notin Binary
      BY <1>1, KindsDiffer
    <2> QED
      BY <1>1, <2>1 DEF NodeText
  <1>2. ASSUME n[1] = "call" PROVE NodeText(t, text, k) = Call(n[2])
    <2>1. n[1] \notin Comparisons /\ n[1] \notin Binary
      BY <1>2, KindsDiffer
    <2> QED
      BY <1>2, <2>1 DEF NodeText
  <1>3. ASSUME n[1] = "path" PROVE NodeText(t, text, k) = Dotted(n[2])
    <2>1. n[1] \notin Comparisons /\ n[1] \notin Binary
      BY <1>3, KindsDiffer
    <2> QED
      BY <1>3, <2>1 DEF NodeText
  <1>4. ASSUME n[1] = "not" PROVE NodeText(t, text, k) = Prefix("!", at(n[2], 3))
    <2>1. n[1] \notin Comparisons /\ n[1] \notin Binary
      BY <1>4, KindsDiffer
    <2> QED
      BY <1>4, <2>1 DEF NodeText
  <1>5. ASSUME n[1] \in Comparisons
        PROVE  NodeText(t, text, k) = Infix(at(n[2], 5), n[1], at(n[3], 5))
    <2>1. n[1] \notin {"lit", "call", "path", "not"} /\ n[1] \notin Binary
      BY <1>5, KindsDiffer
    <2> QED
      BY <1>5, <2>1 DEF NodeText
  <1>6. ASSUME n[1] \in Binary
        PROVE  NodeText(t, text, k) = Infix(at(n[2], Strength(n)), n[1], at(n[3], Strength(n) + 1))
    <2>1. n[1] \notin {"lit", "call", "path", "not"} /\ n[1] \notin Comparisons
      BY <1>6, KindsDiffer
    <2> QED
      BY <1>6, <2>1 DEF NodeText
  <1> QED
    BY <1>1, <1>2, <1>3, <1>4, <1>5, <1>6

\* The strengths of the kinds.
LEMMA StrengthKinds ==
  ASSUME NEW n
  PROVE  /\ Strength(n) \in 1..5
         /\ n[1] \in Leaves => Strength(n) = 5
         /\ n[1] = "not" => Strength(n) = 3
         /\ n[1] \in Comparisons => Strength(n) = 4
         /\ n[1] \in Binary => /\ Strength(n) \in {1, 2}
                               /\ n[1] = IF Strength(n) = 1 THEN "||" ELSE "&&"
  <1>1. CASE n[1] \in Comparisons
    <2>1. n[1] \notin Binary /\ n[1] \notin {"lit", "call", "path", "not"}
      BY <1>1, KindsDiffer
    <2>2. Strength(n) = 4
      BY <1>1, <2>1 DEF Strength, Binary
    <2> QED
      BY <1>1, <2>1, <2>2 DEF Leaves
  <1>2. CASE n[1] \in Binary
    <2>1. n[1] \notin Comparisons
      BY <1>2, KindsDiffer
    <2> QED
      BY <1>2, <2>1 DEF Strength, Binary, Leaves
  <1>3. CASE n[1] \notin Comparisons /\ n[1] \notin Binary
    BY <1>3 DEF Strength, Binary, Leaves
  <1> QED
    BY <1>1, <1>2, <1>3

\* The text of a node depends on those of earlier nodes only.
LEMMA NodeTextSame ==
  ASSUME NEW t, NEW k, IsNode(t[k], k), NEW a, NEW b, \A j \in 1..(k - 1) : a[j] = b[j]
  PROVE  NodeText(t, a, k) = NodeText(t, b, k)
  <1> DEFINE n == t[k]
  <1>1. ASSUME NEW j \in 1..(k - 1), NEW s PROVE Placed(t, a, j, s) = Placed(t, b, j, s)
    BY DEF Placed
  <1>2. CASE n[1] \in Leaves
    BY <1>2, TextKinds DEF Leaves
  <1>3. CASE n[1] = "not" /\ n[2] \in 1..(k - 1)
    BY <1>1, <1>3, TextKinds
  <1>4. CASE n[1] \in Comparisons /\ n[2] \in 1..(k - 1) /\ n[3] \in 1..(k - 1)
    BY <1>1, <1>4, TextKinds
  <1>5. CASE n[1] \in Binary /\ n[2] \in 1..(k - 1) /\ n[3] \in 1..(k - 1)
    BY <1>1, <1>5, TextKinds
  <1> QED
    BY <1>2, <1>3, <1>4, <1>5, NodeKinds DEF Leaves

\* The meaning of an operation.
LEMMA MeaningKinds ==
  ASSUME NEW t, NEW mean, NEW k, NEW ctx
  PROVE  LET n == t[k]
             m == NodeMeaning(t, mean, k, ctx)
         IN  /\ n[1] = "lit" => m = Means(n[2])
             /\ n[1] = "call" => m = CallMeaning(n[2], ctx)
             /\ n[1] = "path" => m = Means(Lookup(n[2], ctx))
             /\ n[1] = "not" => m = Negated(mean[n[2]])
             /\ n[1] \in Comparisons => m = Compared(n[1], mean[n[2]], mean[n[3]])
             /\ n[1] \in Binary => m = Joined(n[1], mean[n[2]], mean[n[3]])
  <1> DEFINE n == t[k]
             m == NodeMeaning(t, mean, k, ctx)
  <1>1. ASSUME n[1] = "lit" PROVE m = Means(n[2])
    BY <1>1 DEF NodeMeaning
  <1>2. ASSUME n[1] = "call" PROVE m = CallMeaning(n[2], ctx)
    BY <1>2 DEF NodeMeaning, CallMeaning
  <1>3. ASSUME n[1] = "path" PROVE m = Means(Lookup(n[2], ctx))
    BY <1>3 DEF NodeMeaning
  <1>4. ASSUME n[1] = "not" PROVE m = Negated(mean[n[2]])
    BY <1>4 DEF NodeMeaning, Negated
  <1>5. ASSUME n[1] \in Comparisons PROVE m = Compared(n[1], mean[n[2]], mean[n[3]])
    <2>1. n[1] \notin {"lit", "call", "path", "not"}
      BY <1>5, KindsDiffer
    <2> QED
      BY <1>5, <2>1 DEF NodeMeaning, Compared
  <1>6. ASSUME n[1] \in Binary PROVE m = Joined(n[1], mean[n[2]], mean[n[3]])
    <2>1. n[1] \notin {"lit", "call", "path", "not"} /\ n[1] \notin Comparisons
      BY <1>6, KindsDiffer
    <2> QED
      BY <1>6, <2>1 DEF NodeMeaning, Joined
  <1> QED
    BY <1>1, <1>2, <1>3, <1>4, <1>5, <1>6

\* The meaning of a node depends on those of earlier nodes only.
LEMMA NodeMeaningSame ==
  ASSUME NEW t, NEW k, IsNode(t[k], k), NEW a, NEW b, NEW ctx, \A j \in 1..(k - 1) : a[j] = b[j]
  PROVE  NodeMeaning(t, a, k, ctx) = NodeMeaning(t, b, k, ctx)
  <1> DEFINE n == t[k]
  <1>1. CASE n[1] \in Leaves
    BY <1>1, MeaningKinds DEF Leaves
  <1>2. CASE n[1] = "not" /\ n[2] \in 1..(k - 1)
    BY <1>2, MeaningKinds
  <1>3. CASE n[1] \in Comparisons /\ n[2] \in 1..(k - 1) /\ n[3] \in 1..(k - 1)
    BY <1>3, MeaningKinds
  <1>4. CASE n[1] \in Binary /\ n[2] \in 1..(k - 1) /\ n[3] \in 1..(k - 1)
    BY <1>4, MeaningKinds
  <1> QED
    BY <1>1, <1>2, <1>3, <1>4, NodeKinds DEF Leaves

\* So the texts satisfy their equation,
LEMMA TextsUnfold ==
  ASSUME NEW t, IsTree(t)
  PROVE  \A k \in 1..Len(t) : Texts(t)[k] = NodeText(t, Texts(t), k)
  <1> DEFINE L == Len(t)
             Eqn(g) == g = [k \in 1..L |-> NodeText(t, g, k)]
             Upto(h, d) == \A k \in 1..L : k <= d => h[k] = NodeText(t, h, k)
             S == {d \in Nat : \E h : Upto(h, d)}
  <1>1. L \in Nat /\ \A k \in 1..L : IsNode(t[k], k)
    BY DEF IsTree
  <1>2. 0 \in S
    <2>1. Upto(<<>>, 0)
      BY <1>1
    <2> QED
      BY <2>1
  <1>3. ASSUME NEW d \in S PROVE d + 1 \in S
    <2>1. PICK h : Upto(h, d)
      OBVIOUS
    <2> DEFINE g == [k \in 1..L |-> IF k = d + 1 THEN NodeText(t, h, k) ELSE h[k]]
    <2>2. ASSUME NEW k \in 1..L, k <= d + 1 PROVE g[k] = NodeText(t, g, k)
      <3>1. \A j \in 1..(k - 1) : h[j] = g[j]
        BY <1>1, <2>2
      <3>2. g[k] = NodeText(t, h, k)
        BY <2>1, <2>2
      <3> HIDE DEF g
      <3>3. NodeText(t, h, k) = NodeText(t, g, k)
        BY <1>1, <3>1, NodeTextSame
      <3> QED
        BY <3>2, <3>3
    <2> HIDE DEF g
    <2>3. Upto(g, d + 1)
      BY <2>2
    <2> HIDE DEF Upto
    <2> QED
      BY <2>3
  <1>4. L \in S
    <2> HIDE DEF S
    <2>1. S \in SUBSET Nat
      BY DEF S
    <2> QED
      BY <1>1, <1>2, <1>3, <2>1, FromZero
  <1>5. PICK h : Upto(h, L)
    BY <1>4
  <1> DEFINE f == [k \in 1..L |-> h[k]]
  <1>6. ASSUME NEW k \in 1..L PROVE f[k] = NodeText(t, f, k)
    <2>1. \A j \in 1..(k - 1) : h[j] = f[j]
      BY <1>1
    <2>2. f[k] = NodeText(t, h, k)
      BY <1>1, <1>5
    <2> HIDE DEF f
    <2>3. NodeText(t, h, k) = NodeText(t, f, k)
      BY <1>1, <2>1, NodeTextSame
    <2> QED
      BY <2>2, <2>3
  <1>7. f = [k \in 1..L |-> f[k]]
    OBVIOUS
  <1> HIDE DEF f
  <1>8. Eqn(f)
    BY <1>6, <1>7
  <1> DEFINE g == CHOOSE g : Eqn(g)
  <1>9. Eqn(g)
    BY <1>8
  <1>10. Texts(t) = g
    BY DEF Texts
  <1> HIDE DEF g
  <1> QED
    BY <1>9, <1>10

\* and the meanings theirs.
LEMMA MeaningsUnfold ==
  ASSUME NEW t, IsTree(t), NEW ctx
  PROVE  \A k \in 1..Len(t) : Meanings(t, ctx)[k] = NodeMeaning(t, Meanings(t, ctx), k, ctx)
  <1> DEFINE L == Len(t)
             Eqn(g) == g = [k \in 1..L |-> NodeMeaning(t, g, k, ctx)]
             Upto(h, d) == \A k \in 1..L : k <= d => h[k] = NodeMeaning(t, h, k, ctx)
             S == {d \in Nat : \E h : Upto(h, d)}
  <1>1. L \in Nat /\ \A k \in 1..L : IsNode(t[k], k)
    BY DEF IsTree
  <1>2. 0 \in S
    <2>1. Upto(<<>>, 0)
      BY <1>1
    <2> QED
      BY <2>1
  <1>3. ASSUME NEW d \in S PROVE d + 1 \in S
    <2>1. PICK h : Upto(h, d)
      OBVIOUS
    <2> DEFINE g == [k \in 1..L |-> IF k = d + 1 THEN NodeMeaning(t, h, k, ctx) ELSE h[k]]
    <2>2. ASSUME NEW k \in 1..L, k <= d + 1 PROVE g[k] = NodeMeaning(t, g, k, ctx)
      <3>1. \A j \in 1..(k - 1) : h[j] = g[j]
        BY <1>1, <2>2
      <3>2. g[k] = NodeMeaning(t, h, k, ctx)
        BY <2>1, <2>2
      <3> HIDE DEF g
      <3>3. NodeMeaning(t, h, k, ctx) = NodeMeaning(t, g, k, ctx)
        BY <1>1, <3>1, NodeMeaningSame
      <3> QED
        BY <3>2, <3>3
    <2> HIDE DEF g
    <2>3. Upto(g, d + 1)
      BY <2>2
    <2> HIDE DEF Upto
    <2> QED
      BY <2>3
  <1>4. L \in S
    <2> HIDE DEF S
    <2>1. S \in SUBSET Nat
      BY DEF S
    <2> QED
      BY <1>1, <1>2, <1>3, <2>1, FromZero
  <1>5. PICK h : Upto(h, L)
    BY <1>4
  <1> DEFINE f == [k \in 1..L |-> h[k]]
  <1>6. ASSUME NEW k \in 1..L PROVE f[k] = NodeMeaning(t, f, k, ctx)
    <2>1. \A j \in 1..(k - 1) : h[j] = f[j]
      BY <1>1
    <2>2. f[k] = NodeMeaning(t, h, k, ctx)
      BY <1>1, <1>5
    <2> HIDE DEF f
    <2>3. NodeMeaning(t, h, k, ctx) = NodeMeaning(t, f, k, ctx)
      BY <1>1, <2>1, NodeMeaningSame
    <2> QED
      BY <2>2, <2>3
  <1>7. f = [k \in 1..L |-> f[k]]
    OBVIOUS
  <1> HIDE DEF f
  <1>8. Eqn(f)
    BY <1>6, <1>7
  <1> DEFINE g == CHOOSE g : Eqn(g)
  <1>9. Eqn(g)
    BY <1>8
  <1>10. Meanings(t, ctx) = g
    BY DEF Meanings
  <1> HIDE DEF g
  <1> QED
    BY <1>9, <1>10

-------------------------------------------------------------------------------
(***************************************************************************)
(* By induction over the nodes of a tree, the text of every node is read   *)
(* as what the node means, wherever it stands.                             *)
(***************************************************************************)

\* A placed text is a list.
LEMMA PlacedIsList ==
  ASSUME NEW t, NEW text, NEW j, NEW s, IsList(text[j])
  PROVE  IsList(Placed(t, text, j, s))
  <1> DEFINE a == <<Sign("(")>>
             b == text[j]
             c == <<Sign(")")>>
  <1>1. IsList(a) /\ IsList(b) /\ IsList(c)
    BY ListOfOne
  <1> HIDE DEF a, b, c
  <1>2. IsList(a \o b)
    BY <1>1, ListsConcat DEF IsConcat
  <1> DEFINE d == a \o b
  <1> HIDE DEF d
  <1>3. IsList(d \o c)
    BY <1>1, <1>2, ListsConcat DEF IsConcat, d
  <1> QED
    BY <1>1, <1>3 DEF Placed, a, b, c, d

\* So is an operation with its operands,
LEMMA InfixIsList ==
  ASSUME NEW a, NEW sign, NEW c, IsList(a), IsList(c)
  PROVE  IsList(Infix(a, sign, c)) /\ IsList(a \o <<Sign(sign)>>)
  <1> DEFINE b == <<Sign(sign)>>
  <1>1. IsList(b)
    BY ListOfOne
  <1> HIDE DEF b
  <1> DEFINE d == a \o b
  <1>2. IsList(d)
    BY <1>1, ListsConcat DEF IsConcat
  <1> HIDE DEF d
  <1>3. IsList(d \o c)
    BY <1>2, ListsConcat DEF IsConcat
  <1> QED
    BY <1>2, <1>3 DEF Infix, b, d

\* and a sign with one.
LEMMA PrefixIsList ==
  ASSUME NEW sign, NEW c, IsList(c)
  PROVE  IsList(Prefix(sign, c))
  <1> DEFINE b == <<Sign(sign)>>
  <1>1. IsList(b)
    BY ListOfOne
  <1> HIDE DEF b
  <1>2. IsList(b \o c)
    BY <1>1, ListsConcat DEF IsConcat
  <1> QED
    BY <1>2 DEF Prefix, b

\* The texts of all nodes are lists.
LEMMA TextsAreLists ==
  ASSUME NEW t, IsTree(t)
  PROVE  \A k \in 1..Len(t) : IsList(Texts(t)[k])
  <1> DEFINE L == Len(t)
             text == Texts(t)
             S == {d \in Nat : \A k \in 1..L : k <= d => IsList(text[k])}
  <1>1. L \in Nat /\ \A k \in 1..L : IsNode(t[k], k) /\ text[k] = NodeText(t, text, k)
    BY TextsUnfold DEF IsTree
  <1> HIDE DEF text
  <1>2. 0 \in S
    OBVIOUS
  <1>3. ASSUME NEW d \in S, d + 1 \in 1..L PROVE IsList(text[d + 1])
    <2> DEFINE k == d + 1
               n == t[k]
    <2>1. k \in 1..L /\ \A j \in 1..(k - 1) : IsList(text[j])
      BY <1>1, <1>3
    <2> SUFFICES IsList(text[k])
      OBVIOUS
    <2> HIDE DEF k
    <2>2. IsNode(n, k) /\ text[k] = NodeText(t, text, k)
      BY <1>1, <2>1
    <2> HIDE DEF n
    <2>3. ASSUME NEW j \in 1..(k - 1), NEW s PROVE IsList(Placed(t, text, j, s))
      BY <2>1, PlacedIsList
    <2>4. CASE n[1] = "lit"
      BY <2>2, <2>4, TextKinds, ListOfOne DEF n
    <2>5. CASE n[1] = "call"
      <3>1. IsList(Call(n[2]))
        BY DEF Call, IsList
      <3> QED
        BY <2>2, <2>5, <3>1, TextKinds DEF n
    <2>6. CASE n[1] = "path" /\ IsList(n[2]) /\ Len(n[2]) # 0
      <3>1. IsList(Dotted(n[2]))
        BY <2>6, DottedIsList DEF IsList
      <3> QED
        BY <2>2, <2>6, <3>1, TextKinds DEF n
    <2>7. CASE n[1] = "not" /\ n[2] \in 1..(k - 1)
      <3>1. IsList(Placed(t, text, n[2], 3))
        BY <2>3, <2>7
      <3>2. IsList(Prefix("!", Placed(t, text, n[2], 3)))
        BY <3>1, PrefixIsList
      <3> QED
        BY <2>2, <2>7, <3>2, TextKinds DEF n
    <2>8. CASE n[1] \in Comparisons /\ n[2] \in 1..(k - 1) /\ n[3] \in 1..(k - 1)
      <3>1. IsList(Placed(t, text, n[2], 5)) /\ IsList(Placed(t, text, n[3], 5))
        BY <2>3, <2>8
      <3>2. IsList(Infix(Placed(t, text, n[2], 5), n[1], Placed(t, text, n[3], 5)))
        BY <3>1, InfixIsList
      <3> QED
        BY <2>2, <2>8, <3>2, TextKinds DEF n
    <2>9. CASE n[1] \in Binary /\ n[2] \in 1..(k - 1) /\ n[3] \in 1..(k - 1)
      <3> DEFINE s == Strength(n)
                 u == Strength(n) + 1
      <3>1. IsList(Placed(t, text, n[2], s)) /\ IsList(Placed(t, text, n[3], u))
        BY <2>3, <2>9
      <3>2. IsList(Infix(Placed(t, text, n[2], s), n[1], Placed(t, text, n[3], u)))
        BY <3>1, InfixIsList
      <3> QED
        BY <2>2, <2>9, <3>2, TextKinds DEF n
    <2> QED
      BY <2>2, <2>4, <2>5, <2>6, <2>7, <2>8, <2>9, NodeKinds
  <1>4. ASSUME NEW d \in S PROVE d + 1 \in S
    <2>1. ASSUME NEW k \in 1..L, k <= d + 1 PROVE IsList(text[k])
      <3>1. CASE k = d + 1
        BY <1>3, <3>1
      <3>2. CASE k # d + 1
        BY <1>1, <2>1, <3>2
      <3> QED
        BY <3>1, <3>2
    <2> QED
      BY <2>1
  <1>5. \A d \in Nat : d \in S
    <2> HIDE DEF S
    <2>1. S \in SUBSET Nat
      BY DEF S
    <2> QED
      BY <1>2, <1>4, <2>1, FromZero
  <1>6. L \in S
    BY <1>1, <1>5
  <1> QED
    BY <1>1, <1>6 DEF text

\* Wherever the text of node k stands, the parser f finds its meaning.
NodeIsRead(f, toks, t, text, mean, k) ==
  \A p, q : Occurs(text[k], toks, p, q) => Reads(f, toks, Strength(t[k]), p, q, mean[k])

\* An operand is read in its place, with the parentheses it needs there.
LEMMA PlacedReads ==
  ASSUME NEW toks, Len(toks) \in Nat, NEW ctx, NEW f, Parses(f, toks, ctx),
         NEW t, NEW text, NEW mean, NEW j, IsList(text[j]),
         NodeIsRead(f, toks, t, text, mean, j), NEW s \in 1..5, NEW p, NEW q,
         Occurs(Placed(t, text, j, s), toks, p, q)
  PROVE  Reads(f, toks, s, p, q, mean[j])
  <1> DEFINE S == Strength(t[j])
             m == mean[j]
             w == text[j]
  <1>1. S \in 1..5
    BY StrengthKinds
  <1>2. p \in 1..(Len(toks) + 1)
    BY DEF Occurs
  <1>3. CASE S >= s
    <2>1. Occurs(w, toks, p, q)
      BY <1>3 DEF Placed
    <2>2. Reads(f, toks, S, p, q, m)
      BY <2>1 DEF NodeIsRead
    <2> HIDE DEF S, m
    <2>3. s <= S
      BY <1>1, <1>3
    <2> QED
      BY <1>1, <1>2, <2>2, <2>3, ReadsAsOperand DEF m
  <1>4. CASE ~(S >= s)
    <2> DEFINE a == <<Sign("(")>>
               c == <<Sign(")")>>
               d == a \o w
    <2>1. IsList(a) /\ IsList(c) /\ Len(a) = 1 /\ Len(c) = 1 /\ IsList(w)
      BY ListOfOne
    <2>2. Placed(t, text, j, s) = d \o c
      BY <1>4 DEF Placed
    <2> HIDE DEF a, c, w
    <2>3. IsList(d)
      BY <2>1, ListsConcat DEF IsConcat
    <2>4. Occurs(d, toks, p, p + Len(d)) /\ Occurs(c, toks, p + Len(d), q)
      <3> HIDE DEF d
      <3> QED
        BY <2>1, <2>2, <2>3, OccursSplit
    <2> DEFINE r == p + Len(d)
               p1 == p + 1
    <2>5. Occurs(a, toks, p, p + 1) /\ Occurs(w, toks, p + 1, r)
      <3> HIDE DEF r
      <3>1. Occurs(a \o w, toks, p, r)
        BY <2>4 DEF r
      <3> QED
        BY <2>1, <3>1, OccursSplit
    <2>6. Peek(toks, p) = "("
      <3>1. Peek(toks, p) = Sign("(").typ
        BY <2>5, OccursOne DEF a
      <3> QED
        BY <3>1 DEF Sign
    <2>7. Peek(toks, r) = ")" /\ q = r + 1
      <3> HIDE DEF r
      <3>1. Occurs(c, toks, r, q)
        BY <2>4 DEF r
      <3>2. Peek(toks, r) = Sign(")").typ /\ q = r + 1
        BY <3>1, OccursOne DEF c
      <3> QED
        BY <3>2 DEF Sign
    <2> HIDE DEF r, d
    <2>8. Reads(f, toks, S, p1, r, m) /\ p1 \in 1..(Len(toks) + 1)
      <3>1. Occurs(w, toks, p1, r)
        BY <2>5
      <3> QED
        BY <3>1 DEF NodeIsRead, Occurs, w
    <2> HIDE DEF p1, S, m
    <2>9. Reads(f, toks, 1, p1, r, m)
      <3>1. 1 \in 1..5 /\ 1 <= S
        BY <1>1
      <3> QED
        BY <1>1, <2>8, <3>1, ReadsAsOperand
    <2>10. Reads(f, toks, 5, p, r + 1, m)
      BY <1>2, <2>6, <2>7, <2>9, ParensRead DEF p1
    <2>11. Reads(f, toks, 5, p, q, m)
      BY <2>7, <2>10
    <2>12. Reads(f, toks, s, p, q, m)
      <3>1. 5 \in 1..5 /\ s <= 5
        OBVIOUS
      <3> QED
        BY <1>2, <2>11, <3>1, ReadsAsOperand
    <2> QED
      BY <2>12 DEF m
  <1> QED
    BY <1>3, <1>4

\* The places of the operands.
LEMMA InfixPlaces ==
  ASSUME NEW toks, Len(toks) \in Nat, NEW a, NEW sign, NEW c, IsList(a), IsList(c), NEW p, NEW q,
         Occurs(Infix(a, sign, c), toks, p, q)
  PROVE  \E j \in 1..Len(toks) :
           Occurs(a, toks, p, j) /\ Peek(toks, j) = sign /\ Occurs(c, toks, j + 1, q)
           /\ j + 1 \in 1..(Len(toks) + 1) /\ p \in 1..(Len(toks) + 1)
  <1> DEFINE b == <<Sign(sign)>>
             d == a \o b
             j == p + Len(a)
             e == p + Len(d)
  <1>1. IsList(b) /\ IsList(d) /\ Len(b) = 1
    BY InfixIsList, ListOfOne
  <1>2. Infix(a, sign, c) = d \o c
    BY DEF Infix
  <1> HIDE DEF b
  <1>3. Occurs(d, toks, p, e) /\ Occurs(c, toks, e, q)
    <2> HIDE DEF d
    <2> QED
      BY <1>1, <1>2, OccursSplit
  <1>4. Occurs(a, toks, p, j) /\ Occurs(b, toks, j, e)
    <2> HIDE DEF e
    <2> QED
      BY <1>1, <1>3, OccursSplit
  <1> HIDE DEF j, e, d
  <1>5. /\ e = j + 1 /\ j \in 1..Len(toks) /\ Peek(toks, j) = Sign(sign).typ
        /\ e \in 1..(Len(toks) + 1)
    BY <1>4, OccursOne DEF b
  <1>6. p \in 1..(Len(toks) + 1)
    BY <1>4 DEF Occurs
  <1>7. Peek(toks, j) = sign
    BY <1>5 DEF Sign
  <1> QED
    BY <1>3, <1>4, <1>5, <1>6, <1>7

\* The place of the only operand.
LEMMA PrefixPlaces ==
  ASSUME NEW toks, Len(toks) \in Nat, NEW sign, NEW c, IsList(c), NEW p, NEW q,
         Occurs(Prefix(sign, c), toks, p, q)
  PROVE  Peek(toks, p) = sign /\ Occurs(c, toks, p + 1, q) /\ p \in 1..(Len(toks) + 1)
  <1> DEFINE b == <<Sign(sign)>>
  <1>1. IsList(b) /\ Len(b) = 1
    BY ListOfOne
  <1>2. Prefix(sign, c) = b \o c
    BY DEF Prefix
  <1> HIDE DEF b
  <1>3. Occurs(b, toks, p, p + 1) /\ Occurs(c, toks, p + 1, q)
    BY <1>1, <1>2, OccursSplit
  <1>4. Peek(toks, p) = Sign(sign).typ /\ p \in 1..(Len(toks) + 1)
    BY <1>3, OccursOne DEF b
  <1> QED
    BY <1>3, <1>4 DEF Sign

\* A node is read if the nodes before it are.
LEMMA NodesAreRead ==
  ASSUME NEW toks, Len(toks) \in Nat, NEW ctx, NEW f, Parses(f, toks, ctx), NEW t, IsTree(t),
         NEW k \in 1..Len(t),
         \A j \in 1..(k - 1) : NodeIsRead(f, toks, t, Texts(t), Meanings(t, ctx), j)
  PROVE  NodeIsRead(f, toks, t, Texts(t), Meanings(t, ctx), k)
  <1> DEFINE n == t[k]
             text == Texts(t)
             mean == Meanings(t, ctx)
  <1>1. /\ IsNode(n, k) /\ text[k] = NodeText(t, text, k) /\ mean[k] = NodeMeaning(t, mean, k, ctx)
        /\ \A j \in 1..Len(t) : IsList(text[j])
        /\ Len(t) \in Nat
    BY TextsUnfold, MeaningsUnfold, TextsAreLists DEF IsTree
  <1>2. \A j \in 1..(k - 1) : NodeIsRead(f, toks, t, text, mean, j) /\ IsList(text[j])
    BY <1>1
  <1> HIDE DEF text, mean, n
  <1> SUFFICES ASSUME NEW p, NEW q, Occurs(text[k], toks, p, q)
               PROVE  Reads(f, toks, Strength(n), p, q, mean[k])
    BY DEF NodeIsRead, text, mean, n
  <1>3. ASSUME NEW j \in 1..(k - 1), NEW s \in 1..5, NEW a, NEW b,
               Occurs(Placed(t, text, j, s), toks, a, b)
        PROVE  Reads(f, toks, s, a, b, mean[j])
    BY <1>2, <1>3, PlacedReads
  <1>4. ASSUME NEW j \in 1..(k - 1), NEW s PROVE IsList(Placed(t, text, j, s))
    BY <1>2, PlacedIsList
  <1>5. CASE n[1] = "lit" /\ IsLiteral(n[2])
    <2>1. text[k] = <<Literal(n[2])>> /\ mean[k] = Means(n[2]) /\ Strength(n) = 5
      BY <1>1, <1>5, TextKinds, MeaningKinds, StrengthKinds DEF n, Leaves
    <2> QED
      BY <1>5, <2>1, LiteralReads
  <1>6. CASE n[1] = "call"
    <2>1. text[k] = Call(n[2]) /\ mean[k] = CallMeaning(n[2], ctx) /\ Strength(n) = 5
      BY <1>1, <1>6, TextKinds, MeaningKinds, StrengthKinds DEF n, Leaves
    <2> QED
      BY <1>6, <2>1, CallReads
  <1>7. CASE n[1] = "path" /\ IsList(n[2]) /\ Len(n[2]) # 0
    <2>1. text[k] = Dotted(n[2]) /\ mean[k] = Means(Lookup(n[2], ctx)) /\ Strength(n) = 5
      BY <1>1, <1>7, TextKinds, MeaningKinds, StrengthKinds DEF n, Leaves
    <2> QED
      BY <1>7, <2>1, PathReads
  <1>8. CASE n[1] = "not" /\ n[2] \in 1..(k - 1)
    <2> DEFINE e == n[2]
               w == Placed(t, text, e, 3)
    <2>1. text[k] = Prefix("!", w) /\ mean[k] = Negated(mean[e]) /\ Strength(n) = 3
      BY <1>1, <1>8, TextKinds, MeaningKinds, StrengthKinds DEF n, Leaves
    <2>2. IsList(w)
      BY <1>4, <1>8
    <2> HIDE DEF w, e
    <2>3. Peek(toks, p) = "!" /\ Occurs(w, toks, p + 1, q) /\ p \in 1..(Len(toks) + 1)
      BY <2>1, <2>2, PrefixPlaces
    <2>4. Reads(f, toks, 3, p + 1, q, mean[e])
      <3>1. e \in 1..(k - 1) /\ 3 \in 1..5
        BY <1>8 DEF e
      <3> QED
        BY <1>3, <2>3, <3>1 DEF w
    <2> QED
      BY <2>1, <2>3, <2>4, NotReads
  <1>9. CASE n[1] \in Comparisons /\ n[2] \in 1..(k - 1) /\ n[3] \in 1..(k - 1)
    <2> DEFINE d == n[2]
               e == n[3]
               op == n[1]
               a == Placed(t, text, d, 5)
               c == Placed(t, text, e, 5)
    <2>1. text[k] = Infix(a, op, c) /\ mean[k] = Compared(op, mean[d], mean[e]) /\ Strength(n) = 4
      BY <1>1, <1>9, TextKinds, MeaningKinds, StrengthKinds DEF n, Leaves
    <2>2. IsList(a) /\ IsList(c)
      BY <1>4, <1>9
    <2>3. d \in 1..(k - 1) /\ e \in 1..(k - 1) /\ 5 \in 1..5 /\ op \in Comparisons
      BY <1>9
    <2> HIDE DEF a, c, d, e, op
    <2>4. PICK j \in 1..Len(toks) :
            Occurs(a, toks, p, j) /\ Peek(toks, j) = op /\ Occurs(c, toks, j + 1, q)
            /\ j + 1 \in 1..(Len(toks) + 1) /\ p \in 1..(Len(toks) + 1)
      BY <2>1, <2>2, InfixPlaces
    <2>5. Reads(f, toks, 5, p, j, mean[d])
      BY <1>3, <2>3, <2>4 DEF a
    <2>6. Reads(f, toks, 5, j + 1, q, mean[e])
      BY <1>3, <2>3, <2>4 DEF c
    <2> QED
      BY <2>1, <2>3, <2>4, <2>5, <2>6, ComparisonReads
  <1>10. CASE n[1] \in Binary /\ n[2] \in 1..(k - 1) /\ n[3] \in 1..(k - 1)
    <2> DEFINE d == n[2]
               e == n[3]
               op == n[1]
               s == Strength(n)
               a == Placed(t, text, d, s)
               c == Placed(t, text, e, s + 1)
    <2>1. /\ text[k] = Infix(a, op, c) /\ mean[k] = Joined(op, mean[d], mean[e])
          /\ s \in {1, 2} /\ op = IF s = 1 THEN "||" ELSE "&&"
      BY <1>1, <1>10, TextKinds, MeaningKinds, StrengthKinds DEF n, Leaves
    <2>2. IsList(a) /\ IsList(c)
      BY <1>4, <1>10
    <2>3. d \in 1..(k - 1) /\ e \in 1..(k - 1) /\ s \in 1..5 /\ s + 1 \in 1..5
      BY <1>10, <2>1
    <2> HIDE DEF a, c, d, e, op, s
    <2>4. PICK j \in 1..Len(toks) :
            Occurs(a, toks, p, j) /\ Peek(toks, j) = op /\ Occurs(c, toks, j + 1, q)
            /\ j + 1 \in 1..(Len(toks) + 1) /\ p \in 1..(Len(toks) + 1)
      BY <2>1, <2>2, InfixPlaces
    <2>5. Reads(f, toks, s, p, j, mean[d])
      BY <1>3, <2>3, <2>4 DEF a
    <2>6. Reads(f, toks, s + 1, j + 1, q, mean[e])
      BY <1>3, <2>3, <2>4 DEF c
    <2>7. Reads(f, toks, s, p, q, Joined(op, mean[d], mean[e]))
      BY <2>1, <2>4, <2>5, <2>6, BinaryReads
    <2> QED
      BY <2>1, <2>7 DEF s
  <1> QED
    BY <1>1, <1>5, <1>6, <1>7, <1>8, <1>9, <1>10, NodeKinds

\* The evaluator makes of the text of a tree what the tree means (eval.go:30-54).
LEMMA EvalIsMeaning ==
  ASSUME NEW t, IsTree(t), NEW ctx
  PROVE  EvalBool(Text(t), ctx) <=> Meaning(t, ctx).def /\ IsTruthy(Meaning(t, ctx).val)
  <1> DEFINE L == Len(t)
             toks == Text(t)
             N == Len(toks)
             f == Parser(toks, ctx)
             m == Meaning(t, ctx)
             text == Texts(t)
             mean == Meanings(t, ctx)
             S == {d \in Nat : \A k \in 1..L : k <= d => NodeIsRead(f, toks, t, text, mean, k)}
  <1>1. L \in Nat /\ L \in 1..L
    BY DEF IsTree
  <1>2. toks = text[L] /\ m = mean[L] /\ IsList(toks)
    BY <1>1, TextsAreLists DEF Text, Meaning
  <1>3. N \in Nat
    BY <1>2 DEF IsList
  <1>4. Parses(f, toks, ctx)
    BY <1>3, ParserParses
  <1> HIDE DEF toks, f, m
  <1>5. ASSUME NEW d \in S PROVE d + 1 \in S
    <2>1. ASSUME NEW k \in 1..L, k <= d + 1 PROVE NodeIsRead(f, toks, t, text, mean, k)
      <3>1. \A j \in 1..(k - 1) : NodeIsRead(f, toks, t, Texts(t), Meanings(t, ctx), j)
        BY <1>1, <2>1
      <3> QED
        BY <1>3, <1>4, <3>1, NodesAreRead
    <2> QED
      BY <2>1
  <1>6. 0 \in S
    OBVIOUS
  <1>7. \A d \in Nat : d \in S
    <2> HIDE DEF S
    <2>1. S \in SUBSET Nat
      BY DEF S
    <2> QED
      BY <1>5, <1>6, <2>1, FromZero
  <1>8. NodeIsRead(f, toks, t, text, mean, L)
    BY <1>1, <1>7
  <1> HIDE DEF text, mean, L
  <1> DEFINE s == Strength(t[L])
  <1>9. Occurs(toks, toks, 1, N + 1)
    <2>1. \A j \in 1..N : 1 + j - 1 = j
      BY <1>3
    <2> QED
      BY <1>2, <1>3, <2>1 DEF Occurs
  <1>10. Reads(f, toks, s, 1, N + 1, m)
    BY <1>2, <1>8, <1>9 DEF NodeIsRead
  <1>11. s \in 1..5
    BY StrengthKinds
  <1> HIDE DEF s
  <1>12. Reads(f, toks, 1, 1, N + 1, m)
    <2>1. 1 \in 1..(Len(toks) + 1) /\ 1 \in 1..5 /\ 1 <= s
      BY <1>3, <1>11
    <2> QED
      BY <1>4, <1>10, <1>11, <2>1, ReadsAsOperand
  <1>13. Peek(toks, N + 1) = "EOF"
    BY <1>3 DEF Peek
  <1>14. f[<<"or", 1>>] = Answer(m, N + 1)
    <2>1. "EOF" \notin Signs \cup {"&&", "||"}
      BY DEF Signs, Joins, Comparisons
    <2>2. ReadsChain(f, toks, "or", "||", 1, N + 1, m)
      BY <1>12, ReadsCases
    <2> QED
      BY <1>13, <2>1, <2>2 DEF ReadsChain
  <1>15. Eval(toks, ctx) = Answer(m, N + 1)
    <2> DEFINE e == f[<<"or", 1>>]
    <2>1. Eval(toks, ctx) = IF e.ok /\ e.next > Len(toks) THEN e ELSE Fail
      BY DEF Eval, f
    <2> HIDE DEF e
    <2>2. e = Answer(m, N + 1)
      BY <1>14 DEF e
    <2>3. CASE m.def
      <3>1. e.ok /\ e.next = N + 1
        BY <2>2, <2>3, AnswerFacts
      <3> QED
        BY <1>3, <2>1, <2>2, <3>1
    <2>4. CASE ~m.def
      BY <2>1, <2>2, <2>4, AnswerFacts
    <2> QED
      BY <2>3, <2>4
  <1>16. EvalBool(toks, ctx) <=> m.def /\ IsTruthy(m.val)
    BY <1>15, AnswerFacts DEF EvalBool
  <1> QED
    BY <1>16 DEF toks, m

\* EvalBool of a call without arguments, such as success(), is the truth of what the
\* function returns (eval.go:427-434).
LEMMA CallIsFunction ==
  ASSUME NEW name, NEW ctx
  PROVE  EvalBool(Call(name), ctx)
           <=> name \in KnownFunctions /\ IsTruthy(CallFunction(name, ctx))
  <1> DEFINE n == <<"call", name>>
             t == <<n>>
             m == CallMeaning(name, ctx)
  <1>1. n[1] = "call" /\ n[2] = name
    OBVIOUS
  <1> HIDE DEF n
  <1>2. Len(t) = 1 /\ t[1] = n
    OBVIOUS
  <1> HIDE DEF t
  <1>3. IsTree(t)
    BY <1>1, <1>2 DEF IsTree, IsNode
  <1>4. 1 \in 1..Len(t)
    BY <1>2
  <1>5. Text(t) = Call(name)
    <2>1. Texts(t)[1] = NodeText(t, Texts(t), 1)
      BY <1>3, <1>4, TextsUnfold
    <2>2. NodeText(t, Texts(t), 1) = Call(name)
      BY <1>1, <1>2, TextKinds
    <2> QED
      BY <1>2, <2>1, <2>2 DEF Text
  <1>6. Meaning(t, ctx) = m
    <2>1. Meanings(t, ctx)[1] = NodeMeaning(t, Meanings(t, ctx), 1, ctx)
      BY <1>3, <1>4, MeaningsUnfold
    <2>2. NodeMeaning(t, Meanings(t, ctx), 1, ctx) = m
      BY <1>1, <1>2, MeaningKinds
    <2> QED
      BY <1>2, <2>1, <2>2 DEF Meaning
  <1>7. EvalBool(Call(name), ctx) <=> m.def /\ IsTruthy(m.val)
    BY <1>3, <1>5, <1>6, EvalIsMeaning
  <1> QED
    BY <1>7, MeaningForms DEF CallMeaning

\* The step at hand has no "if", or one that is the text of a tree.
HasTree == i \in DOMAIN plan /\ step.cond # <<>> => step.tree # NoTree

(***************************************************************************)
(* ConditionMeansTree, for trees of any size and any context: a step whose *)
(* "if" is the text of an expression tree runs iff the value of the tree   *)
(* is true at this point of the job, with the parentheses that the         *)
(* strengths of the operators ask for and no others (executor.go:287-303,  *)
(* eval.go:30-54, 226-374).  Which texts are no expressions is left to     *)
(* TLC.                                                                    *)
(***************************************************************************)
THEOREM ConditionsMeanTrees == Spec => [](HasTree => ConditionMeansTree)
  <1>1. TInv /\ HasTree => ConditionMeansTree
    <2> SUFFICES ASSUME TInv, HasTree, i \in DOMAIN plan, step.cond # <<>>
                 PROVE  ShouldRun <=> /\ step.tree # NoTree
                                      /\ LET m == Meaning(step.tree, BuildEvalContext)
                                         IN  m.def /\ IsTruthy(m.val)
      BY DEF ConditionMeansTree
    <2> DEFINE t == step.tree
               ctx == BuildEvalContext
    <2>1. t # NoTree
      BY DEF HasTree
    <2>2. IsTree(t) /\ step.cond = Text(t)
      BY <2>1, MeaningAssumption DEF TInv, step
    <2> HIDE DEF t, ctx
    <2>3. EvalBool(Text(t), ctx) <=> Meaning(t, ctx).def /\ IsTruthy(Meaning(t, ctx).val)
      BY <2>2, EvalIsMeaning
    <2>4. ShouldRun <=> EvalBool(step.cond, ctx)
      BY DEF ShouldRun, ctx
    <2> QED
      BY <2>1, <2>2, <2>3, <2>4 DEF t, ctx
  <1> QED
    BY <1>1, InitTInv, NextTInv, PTL DEF Spec

-------------------------------------------------------------------------------
(***************************************************************************)
(* What ShouldRun says of the step at hand, for the conditions that are a  *)
(* status function or none (executor.go:287-303, eval.go:427-434).         *)
(***************************************************************************)
LEMMA ShouldRunMeans ==
  ASSUME TInv
  PROVE  /\ step.cond \in {<<>>, Call("success")} => (ShouldRun <=> jobStatus = "pending")
         /\ step.cond = Call("failure")   => (ShouldRun <=> jobStatus = "failure")
         /\ step.cond = Call("always")    => ShouldRun
         /\ step.cond = Call("cancelled") => ~ShouldRun
  <1> DEFINE ctx == BuildEvalContext
  <1>1. jobStatus \in {"pending", "failure"}
    BY DEF TInv, Data
  <1>2. ctx.jobStatus = jobStatus /\ ~ctx.cancelled
    BY DEF BuildEvalContext
  <1>3. \A name : Call(name) # <<>>
    BY DEF Call
  <1>4. \A name \in KnownFunctions : step.cond = Call(name) =>
          (ShouldRun <=> IsTruthy(CallFunction(name, ctx)))
    BY <1>3, CallIsFunction DEF ShouldRun
  <1> HIDE DEF ctx
  <1>5. IsTruthy(CallFunction("always", ctx))
    BY DEF CallFunction, IsTruthy, Bool
  <1>6. IsTruthy(CallFunction("success", ctx)) <=> jobStatus = "pending"
    BY <1>1, <1>2 DEF CallFunction, IsTruthy, Bool
  <1>7. IsTruthy(CallFunction("failure", ctx)) <=> jobStatus = "failure"
    BY <1>1, <1>2 DEF CallFunction, IsTruthy, Bool
  <1>8. ~IsTruthy(CallFunction("cancelled", ctx))
    BY <1>2 DEF CallFunction, IsTruthy, Bool
  <1>9. step.cond = <<>> => (ShouldRun <=> jobStatus = "pending")
    BY <1>1 DEF ShouldRun
  <1> QED
    BY <1>4, <1>5, <1>6, <1>7, <1>8, <1>9 DEF KnownFunctions

\* What StepsFollowStatus says of step k.
FollowsStatus(k) ==
  LET unless == \A m \in 1..(k - 1) : ~Fatal(m)
  IN  /\ plan[k].cond \in {<<>>, Call("success")} => (Ran(k) <=> unless)
      /\ plan[k].cond = Call("failure")   => (Ran(k) <=> ~unless)
      /\ plan[k].cond = Call("always")    => Ran(k)
      /\ plan[k].cond = Call("cancelled") => ~Ran(k)

(***************************************************************************)
(* A step that is under way was let in by the status the job still has.    *)
(***************************************************************************)
LetIn ==
  pc \in {"exec", "record"} =>
    /\ step.cond \in {<<>>, Call("success")} => jobStatus = "pending"
    /\ step.cond = Call("failure") => jobStatus = "failure"
    /\ step.cond # Call("cancelled")

\* The inductive invariant of conditions.
FollowInv == StepsFollowStatus /\ LetIn

(***************************************************************************)
(* The step the loop moves past follows the status, whether it was skipped *)
(* or run, and the steps before it go on to.                               *)
(***************************************************************************)
LEMMA StepFollows ==
  ASSUME TInv, StepsInv, StepsFollowStatus, i \in DOMAIN plan, plan' = plan, i' = i + 1,
         NEW oc \in {"skipped", "success", "failure"}, outcome' = [outcome EXCEPT ![i] = oc],
         /\ step.cond \in {<<>>, Call("success")} => (oc # "skipped" <=> jobStatus = "pending")
         /\ step.cond = Call("failure") => (oc # "skipped" <=> jobStatus = "failure")
         /\ step.cond = Call("always") => oc # "skipped"
         /\ step.cond = Call("cancelled") => oc = "skipped"
  PROVE  StepsFollowStatus'
  <1>1. Len(plan) \in Nat /\ DOMAIN plan = 1..Len(plan)
    BY PlanIsSeq DEF TInv
  <1>2. DOMAIN outcome = DOMAIN plan /\ jobStatus \in {"pending", "failure"}
    BY DEF TInv, Data
  <1>3. \A k \in 1..(i - 1) : outcome'[k] = outcome[k]
    BY <1>1, <1>2
  <1>4. \A k \in 1..(i - 1) : (Fatal(k)' <=> Fatal(k)) /\ (Ran(k)' <=> Ran(k))
    BY <1>3 DEF Fatal, Ran
  <1>5. jobStatus = "pending" <=> \A m \in 1..(i - 1) : ~Fatal(m)
    <2>1. \A m \in DOMAIN plan : Fatal(m) => m \in 1..(i - 1)
      BY <1>1 DEF StepsInv, Recorded, Fatal
    <2>2. \A m \in 1..(i - 1) : m \in DOMAIN plan
      BY <1>1
    <2> QED
      BY <1>2, <2>1, <2>2 DEF StepsInv, StatusIsSteps
  <1>6. outcome'[i] = oc
    BY <1>2
  <1> SUFFICES ASSUME NEW k \in 1..i PROVE FollowsStatus(k)'
    BY <1>1 DEF StepsFollowStatus, FollowsStatus
  <1>7. CASE k = i
    <2>1. (\A m \in 1..(i - 1) : ~Fatal(m)') <=> jobStatus = "pending"
      BY <1>4, <1>5
    <2>2. Ran(k)' <=> oc # "skipped"
      BY <1>6, <1>7 DEF Ran
    <2>3. (\A m \in 1..(k - 1) : ~Fatal(m)') <=> jobStatus = "pending"
      BY <1>7, <2>1
    <2> QED
      BY <1>2, <1>7, <2>2, <2>3 DEF FollowsStatus, step
  <1>8. CASE k # i
    <2>1. k \in 1..(i - 1) /\ \A m \in 1..(k - 1) : m \in 1..(i - 1)
      BY <1>1, <1>8
    <2>2. FollowsStatus(k)
      BY <2>1 DEF StepsFollowStatus, FollowsStatus
    <2> QED
      BY <1>4, <2>1, <2>2 DEF FollowsStatus
  <1> QED
    BY <1>7, <1>8

\* Every step of the executor keeps it.
LEMMA NextFollowInv == TInv /\ StepsInv /\ FollowInv /\ [Next]_vars => FollowInv'
  <1> SUFFICES ASSUME TInv, StepsInv, FollowInv, [Next]_vars PROVE FollowInv'
    OBVIOUS
  <1>1. jobStatus \in {"pending", "failure"}
    BY DEF TInv, Data
  <1>2. ASSUME UNCHANGED <<plan, i, outcome>> PROVE StepsFollowStatus'
    BY <1>2 DEF FollowInv, StepsFollowStatus, Fatal, Ran
  <1>3. CASE Cancel \/ JobTimeout \/ UNCHANGED vars
    <2>1. UNCHANGED <<plan, pc, i, outcome, jobStatus>>
      BY <1>3 DEF Cancel, JobTimeout, vars, stepVars
    <2> QED
      BY <1>2, <2>1 DEF FollowInv, LetIn, step
  <1>4. CASE JobIfFalse \/ SetupFails \/ CreateContainer \/ StartContainer \/ StartFails \/ Remove
             \/ Finish
    <2>1. UNCHANGED <<plan, i, outcome>> /\ pc' \notin {"exec", "record"}
      BY <1>4 DEF JobIfFalse, SetupFails, CreateContainer, StartContainer, StartFails, Remove,
                  Finish, stepVars
    <2> QED
      BY <1>2, <2>1 DEF FollowInv, LetIn
  <1>5. CASE SkipStep
    <2>1. /\ pc = "step" /\ i \in DOMAIN plan /\ i' = i + 1 /\ ~ShouldRun
          /\ outcome' = [outcome EXCEPT ![i] = "skipped"] /\ UNCHANGED <<plan, pc>>
      BY <1>5 DEF SkipStep
    <2>2. /\ step.cond \in {<<>>, Call("success")} => jobStatus # "pending"
          /\ step.cond = Call("failure") => jobStatus # "failure"
          /\ step.cond # Call("always")
      BY <2>1, ShouldRunMeans
    <2>3. StepsFollowStatus'
      BY <2>1, <2>2, StepFollows DEF FollowInv
    <2> QED
      BY <2>1, <2>3 DEF FollowInv, LetIn
  <1>6. CASE BeginStep
    <2>1. /\ UNCHANGED <<plan, i, outcome, jobStatus>> /\ ShouldRun
      BY <1>6 DEF BeginStep
    <2>2. LetIn'
      BY <2>1, ShouldRunMeans DEF LetIn, step
    <2> QED
      BY <1>2, <2>1, <2>2 DEF FollowInv
  <1>7. ASSUME NEW ok \in BOOLEAN, NEW effect \in Effects, Command(ok, effect) PROVE FollowInv'
    <2>1. UNCHANGED <<plan, i, outcome, jobStatus>> /\ pc = "exec"
      BY <1>7 DEF Command
    <2> QED
      BY <1>2, <2>1 DEF FollowInv, LetIn, step
  <1>8. CASE RecordStep
    <2>1. /\ pc = "record" /\ pc' = "step" /\ i' = i + 1 /\ UNCHANGED plan
          /\ outcome' = [outcome EXCEPT ![i] = IF failed THEN "failure" ELSE "success"]
      BY <1>8 DEF RecordStep
    <2>2. i \in DOMAIN plan
      BY <2>1 DEF TInv, Data
    <2>3. PICK oc \in {"success", "failure"} : outcome' = [outcome EXCEPT ![i] = oc]
      BY <2>1
    <2>4. /\ step.cond \in {<<>>, Call("success")} => jobStatus = "pending"
          /\ step.cond = Call("failure") => jobStatus = "failure"
          /\ step.cond # Call("cancelled")
      BY <2>1 DEF FollowInv, LetIn
    <2>5. StepsFollowStatus'
      BY <2>1, <2>2, <2>3, <2>4, StepFollows DEF FollowInv
    <2> QED
      BY <2>1, <2>5 DEF FollowInv, LetIn
  <1> QED
    BY <1>3, <1>4, <1>5, <1>6, <1>7, <1>8 DEF Next

(***************************************************************************)
(* Which steps run around a failure, for any job: the evaluator, told what *)
(* the status functions are, lets in exactly the steps whose condition the *)
(* steps before them fulfil (executor.go:287-303, eval.go:427-434).        *)
(***************************************************************************)
THEOREM StepsRunByStatus == Spec => []StepsFollowStatus
  <1>1. Init => FollowInv
    BY DEF Init, FollowInv, StepsFollowStatus, LetIn
  <1>2. FollowInv => StepsFollowStatus
    BY DEF FollowInv
  <1> QED
    BY <1>1, <1>2, InitTInv, NextTInv, InitStepsInv, NextStepsInv, NextFollowInv, PTL DEF Spec

-------------------------------------------------------------------------------
(***************************************************************************)
(* As long as nobody tampers with the file: what lies behind the offset    *)
(* was written by the step under way, nothing does between two steps, and  *)
(* what was ever written is in the environment or behind the offset.       *)
(***************************************************************************)
DeltaInv ==
  ~tampered =>
    /\ ~missing
    /\ offset <= Len(file)
    /\ pc \notin {"exec", "record"} => offset = Len(file)
    /\ Delta \subseteq {i}
    /\ wrote \subseteq liveEnv \cup Delta
    /\ \A k \in DOMAIN plan : outputs[k] \subseteq {k}

(***************************************************************************)
(* An entry appended to the file is behind the offset (stepenv.go:34-69).  *)
(***************************************************************************)
LEMMA AppendToDelta ==
  ASSUME TInv, ~missing, ~missing', offset <= Len(file), file' = Append(file, i),
         i \in DOMAIN plan, offset' = offset
  PROVE  Delta' = Delta \cup {i} /\ offset <= Len(file')
  <1>1. file \in Seq(DOMAIN plan) /\ offset \in Nat
    BY DEF TInv, Data
  <1>2. /\ Len(file') = Len(file) + 1 /\ DOMAIN file' = 1..(Len(file) + 1)
        /\ DOMAIN file = 1..Len(file) /\ Len(file) \in Nat
        /\ \A n \in 1..Len(file) : file'[n] = file[n]
        /\ file'[Len(file) + 1] = i
    BY <1>1
  <1>3. Delta = {file[n] : n \in {m \in DOMAIN file : m > offset}}
    BY DEF Delta
  <1>4. Delta' = {file'[n] : n \in {m \in DOMAIN file' : m > offset}}
    BY DEF Delta
  <1>5. ASSUME NEW x \in Delta' PROVE x \in Delta \cup {i}
    <2>1. PICK n \in DOMAIN file' : n > offset /\ x = file'[n]
      BY <1>4, <1>5
    <2> QED
      BY <1>2, <1>3, <2>1
  <1>6. ASSUME NEW x \in Delta PROVE x \in Delta'
    <2>1. PICK n \in DOMAIN file : n > offset /\ x = file[n]
      BY <1>3, <1>6
    <2>2. n \in DOMAIN file' /\ file'[n] = x
      BY <1>2, <2>1
    <2> QED
      BY <1>4, <2>1, <2>2
  <1>7. i \in Delta'
    <2>1. Len(file) + 1 \in DOMAIN file' /\ Len(file) + 1 > offset
      BY <1>1, <1>2
    <2> QED
      BY <1>2, <1>4, <2>1
  <1> QED
    BY <1>1, <1>2, <1>5, <1>6, <1>7

\* An offset at the end of the file leaves nothing to read.
LEMMA NothingBehindEnd ==
  ASSUME TInv, offset = Len(file)
  PROVE  Delta = {}
  <1>1. file \in Seq(DOMAIN plan)
    BY DEF TInv, Data
  <1> QED
    BY <1>1 DEF Delta

\* Every step of the executor keeps it.
LEMMA NextDeltaInv == TInv /\ DeltaInv /\ [Next]_vars => DeltaInv'
  <1> SUFFICES ASSUME TInv, TInv', DeltaInv, [Next]_vars, ~tampered' PROVE DeltaInv'
    BY NextTInv DEF DeltaInv
  <1>1. ASSUME UNCHANGED <<plan, fileVars>>,
               \/ pc' = pc /\ i' = i
               \/ pc \notin {"exec", "record"}
        PROVE  DeltaInv'
    <2>1. ~tampered /\ UNCHANGED <<file, offset, missing, liveEnv, outputs, wrote>>
      BY <1>1 DEF fileVars
    <2>2. Delta' = Delta
      BY <2>1 DEF Delta
    <2>3. CASE pc' = pc /\ i' = i
      BY <1>1, <2>1, <2>2, <2>3 DEF DeltaInv
    <2>4. CASE pc \notin {"exec", "record"}
      <3>1. Delta = {}
        BY <2>1, <2>4, NothingBehindEnd DEF DeltaInv
      <3> QED
        BY <1>1, <2>1, <2>2, <2>4, <3>1 DEF DeltaInv
    <2> QED
      BY <1>1, <2>3, <2>4
  <1>2. CASE Cancel \/ JobTimeout \/ UNCHANGED vars
    <2>1. UNCHANGED <<plan, fileVars, pc, i>>
      BY <1>2 DEF Cancel, JobTimeout, vars, stepVars, fileVars
    <2> QED
      BY <1>1, <2>1
  <1>3. CASE JobIfFalse \/ SetupFails \/ CreateContainer \/ StartContainer \/ StartFails \/ Remove
             \/ SkipStep \/ BeginStep
    <2>1. UNCHANGED <<plan, fileVars>> /\ pc \notin {"exec", "record"}
      BY <1>3 DEF JobIfFalse, SetupFails, CreateContainer, StartContainer, StartFails, Remove,
                  SkipStep, BeginStep
    <2> QED
      BY <1>1, <2>1
  <1>4. ASSUME NEW ok \in BOOLEAN, NEW effect \in Effects, Command(ok, effect) PROVE DeltaInv'
    <2>1. ~tampered /\ effect \in {"none", "append", "artifact"}
      BY <1>4 DEF Command, WriteFile, Effects
    <2>2. /\ UNCHANGED <<plan, i, offset, liveEnv, outputs>> /\ pc = "exec"
          /\ pc' \in {"record", "exec"}
      BY <1>4 DEF Command
    <2>3. ~missing /\ ~missing'
      BY <1>4, <2>1 DEF Command, WriteFile, DeltaInv
    <2>4. i \in DOMAIN plan
      BY <2>2 DEF TInv, Data
    <2>5. CASE effect = "append"
      <3>1. file' = Append(file, i) /\ wrote' = wrote \cup {i}
        BY <1>4, <2>5 DEF Command, WriteFile
      <3>2. Delta' = Delta \cup {i} /\ offset <= Len(file')
        BY <2>1, <2>2, <2>3, <2>4, <3>1, AppendToDelta DEF DeltaInv
      <3> QED
        BY <2>1, <2>2, <2>3, <3>1, <3>2 DEF DeltaInv
    <2>6. CASE effect # "append"
      <3>1. file' = file /\ wrote' = wrote
        BY <1>4, <2>1, <2>6 DEF Command, WriteFile
      <3>2. Delta' = Delta
        BY <2>2, <2>3, <3>1 DEF Delta
      <3> QED
        BY <2>1, <2>2, <2>3, <3>1, <3>2 DEF DeltaInv
    <2> QED
      BY <2>5, <2>6
  <1>5. CASE RecordStep
    <2>1. /\ liveEnv' = liveEnv \cup Delta /\ outputs' = [outputs EXCEPT ![i] = Delta]
          /\ offset' = NewOffset /\ UNCHANGED <<plan, file, missing, wrote, tampered>>
          /\ pc = "record"
      BY <1>5 DEF RecordStep
    <2>2. /\ file \in Seq(DOMAIN plan) /\ offset \in Nat
          /\ outputs \in [DOMAIN plan -> SUBSET DOMAIN plan] /\ i \in DOMAIN plan
      BY <2>1 DEF TInv, Data
    <2>3. ~missing /\ offset <= Len(file)
      BY <2>1 DEF DeltaInv
    <2>4. offset' = Len(file')
      BY <2>1, <2>2, <2>3 DEF NewOffset
    <2>5. Delta' = {}
      BY <2>1, <2>2, <2>4 DEF Delta
    <2> QED
      BY <2>1, <2>2, <2>3, <2>4, <2>5 DEF DeltaInv
  <1>6. CASE Finish
    <2>1. /\ UNCHANGED <<plan, i, file, offset, missing, liveEnv, outputs, wrote, tampered>>
          /\ pc = "step" /\ pc' = "cleanup"
      BY <1>6 DEF Finish, stepVars
    <2>2. Delta' = Delta
      BY <2>1 DEF Delta
    <2> QED
      BY <2>1, <2>2 DEF DeltaInv
  <1> QED
    BY <1>2, <1>3, <1>4, <1>5, <1>6 DEF Next

(***************************************************************************)
(* For any job: as long as no step overwrites or removes a magic file, a   *)
(* step starts with all that earlier steps wrote, and has its own entries  *)
(* as its outputs (executor.go:317-332, stepenv.go:34-69).                 *)
(***************************************************************************)
THEOREM WritesReachLaterSteps == Spec => []DeltasReachLaterSteps
  <1>1. Init => DeltaInv
    <2> SUFFICES ASSUME Init PROVE DeltaInv
      OBVIOUS
    <2>1. /\ file = <<>> /\ offset = 0 /\ missing = FALSE /\ wrote = {}
          /\ outputs = [k \in DOMAIN plan |-> {}]
      BY DEF Init
    <2>2. offset = Len(file) /\ offset <= Len(file)
      BY <2>1
    <2>3. Delta = {}
      BY <2>1 DEF Delta
    <2> QED
      BY <2>1, <2>2, <2>3 DEF DeltaInv
  <1>2. DeltaInv => DeltasReachLaterSteps
    BY DEF DeltaInv, DeltasReachLaterSteps
  <1> QED
    BY <1>1, <1>2, InitTInv, NextTInv, NextDeltaInv, PTL DEF Spec
===============================================================================
