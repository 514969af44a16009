----------------------------- MODULE JobExecutor -----------------------------
(***************************************************************************)
(* RunJob of internal/runner/executor.go: one job of a workflow in one     *)
(* Podman container.  Setup, the step loop with its conditions and         *)
(* continue-on-error, composite actions, the magic files (stepenv.go) that *)
(* carry environment and outputs from step to step, and the removal of the *)
(* container.                                                              *)
(*                                                                         *)
(* Every Podman call uses the connection context made from the run's       *)
(* context: once that is done (canceled, timed out, shutdown) they fail.   *)
(* _env, _output and _path are one file here: ReadDelta treats them alike  *)
(* and fails as a whole.  An entry is the number of the step that wrote it.*)
(***************************************************************************)
EXTENDS Expr

CONSTANTS
  Plans    \* the jobs tried: sequences of steps

(***************************************************************************)
(* A step has a kind, its "if" as tokens (empty without one), continue-on- *)
(* error, and its commands: one for "run" and "docker", any number for     *)
(* "composite", each with its own continue-on-error.  A "checkout" and an  *)
(* empty step have no command.  "unsupported" stands for every action that *)
(* cannot be executed.                                                     *)
(***************************************************************************)
Kinds == {"run", "docker", "composite", "checkout", "unsupported"}

IsStep(s) ==
  /\ s.kind \in Kinds /\ s.coe \in BOOLEAN
  /\ \A k \in DOMAIN s.cond : DOMAIN s.cond[k] = {"typ", "val"}
  /\ s.cmds \in Seq([coe : BOOLEAN])

ASSUME ExecutorAssumption ==
  \A p \in Plans :
    /\ Len(p) \in Nat /\ DOMAIN p = 1..Len(p)
    /\ \A k \in DOMAIN p : IsStep(p[k])

VARIABLES
  plan,       \* job.Steps
  pc,
  connDone,   \* the connection's context is done
  ctxDone,    \* RunJob's own context is done: with the connection's, or by its timeout
  container,  \* the container in Podman
  i,          \* the step
  cmd,        \* its next command
  failed,     \* the step's outcome so far is a failure
  outcome,    \* execCtx.StepResults: outcome by step
  jobStatus,  \* execCtx.JobStatus
  file,       \* the magic file, its entries
  offset,     \* entries ReadDelta has consumed
  missing,    \* a magic file was removed
  liveEnv,    \* entries in execCtx.LiveEnv
  outputs,    \* entries in the outputs of each step
  wrote,      \* history: steps that wrote an entry
  tampered,   \* history: a step overwrote or removed a magic file
  made,       \* steps that left a file in /artifacts
  artifacts,  \* steps whose file has a row in run_artifacts
  strays,     \* docker steps whose own container was left behind
  result      \* what RunJob returns

vars == <<plan, pc, connDone, ctxDone, container, i, cmd, failed, outcome, jobStatus,
          file, offset, missing, liveEnv, outputs, wrote, tampered, made, artifacts,
          strays, result>>
\* What steps leave behind.
fileVars == <<file, offset, missing, liveEnv, outputs, wrote, tampered, made, artifacts, strays>>
stepVars == <<i, cmd, failed, outcome, jobStatus>>

Init ==
  /\ plan \in Plans
  /\ pc = "setup"
  /\ connDone = FALSE /\ ctxDone = FALSE
  /\ container = "none"
  /\ i = 1 /\ cmd = 1 /\ failed = FALSE
  /\ outcome = [k \in DOMAIN plan |-> "none"]
  /\ jobStatus = "pending"
  /\ file = <<>> /\ offset = 0 /\ missing = FALSE
  /\ liveEnv = {} /\ outputs = [k \in DOMAIN plan |-> {}]
  /\ wrote = {} /\ tampered = FALSE
  /\ made = {} /\ artifacts = {} /\ strays = {}
  /\ result = "none"

-------------------------------------------------------------------------------
(* The container. *)

\* The run is canceled, times out, or the daemon stops.
Cancel ==
  /\ ~connDone
  /\ pc # "returned"
  /\ connDone' = TRUE /\ ctxDone' = TRUE
  /\ UNCHANGED <<plan, pc, container, stepVars, fileVars, result>>

\* The job's timeout-minutes (360 without one) pass.  The connection lives on.
JobTimeout ==
  /\ ~ctxDone
  /\ pc \notin {"setup", "returned"}
  /\ ctxDone' = TRUE
  /\ UNCHANGED <<plan, pc, connDone, container, stepVars, fileVars, result>>

\* The job's "if" is false: success, and nothing was done.
JobIfFalse ==
  /\ pc = "setup"
  /\ pc' = "returned"
  /\ result' = "success"
  /\ UNCHANGED <<plan, connDone, ctxDone, container, stepVars, fileVars>>

\* The "if" does not evaluate; no runner dir; the image is not pulled; or the
\* container is not created.  A request that is cut off may have created it.
SetupFails ==
  /\ pc = "setup"
  /\ pc' = "returned"
  /\ result' = "error"
  /\ container' \in IF connDone THEN {"none", "created"} ELSE {"none"}
  /\ UNCHANGED <<plan, connDone, ctxDone, stepVars, fileVars>>

\* From here on the deferred Remove runs on every way out.
CreateContainer ==
  /\ pc = "setup"
  /\ ~connDone
  /\ container' = "created"
  /\ pc' = "start"
  /\ UNCHANGED <<plan, connDone, ctxDone, stepVars, fileVars, result>>

StartContainer ==
  /\ pc = "start"
  /\ ~connDone
  /\ container' = "running"
  /\ pc' = "step"
  /\ UNCHANGED <<plan, connDone, ctxDone, stepVars, fileVars, result>>

\* Mutant: Remove is deferred only after Start has succeeded.
MutStartFails ==
  /\ pc = "start"
  /\ pc' = "returned"
  /\ result' = "error"
  /\ UNCHANGED <<plan, connDone, ctxDone, container, stepVars, fileVars>>

StartFails ==
  /\ pc = "start"
  /\ pc' = "cleanup"
  /\ result' = "error"
  /\ UNCHANGED <<plan, connDone, ctxDone, container, stepVars, fileVars>>

\* container.Remove: stop and forced removal, over the run's connection.
Remove ==
  /\ pc = "cleanup"
  /\ container' = IF connDone THEN container ELSE "removed"
  /\ pc' = "returned"
  /\ UNCHANGED <<plan, connDone, ctxDone, stepVars, fileVars, result>>

-------------------------------------------------------------------------------
(* The files a step can leave something in. *)

\* What a command does to the magic files (>>, >, rm), or a file in /artifacts.
Effects == {"none", "append", "overwrite", "remove", "artifact"}

WriteFile(effect) ==
  /\ file' = CASE effect = "append"    -> Append(file, i)
               [] effect = "overwrite" -> <<i>>
               [] effect = "remove"    -> <<>>
               [] OTHER                -> file
  /\ missing' = ((missing \/ effect = "remove") /\ effect \notin {"append", "overwrite"})
  /\ wrote' = IF effect \in {"append", "overwrite"} THEN wrote \cup {i} ELSE wrote
  /\ tampered' = (tampered \/ effect \in {"overwrite", "remove"})
  /\ made' = IF effect = "artifact" THEN made \cup {i} ELSE made

\* The entries behind the offset; none when a file cannot be opened.
Delta == IF missing THEN {} ELSE {file[k] : k \in {n \in DOMAIN file : n > offset}}

\* Mutant: the offsets are not advanced.
MutNewOffset == offset

\* The offset after ReadDelta: unchanged on an error, and behind the end of a
\* file that has become shorter.
NewOffset == IF missing \/ offset > Len(file) THEN offset ELSE Len(file)

-------------------------------------------------------------------------------
(* The step loop. *)

step == plan[i]

\* A step without an ID gets this one; here it also names the variable and the
\* output a step sets, whose value is "set".
StepID(k) == "__step_" \o ToString(k - 1)
Entries(S) == [name \in {StepID(k) : k \in S} |-> Str("set")]

\* stepToMap: the conclusion never differs from the outcome.
StepMap(k) ==
  Map([outcome |-> Str(outcome[k]), conclusion |-> Str(outcome[k]),
       outputs |-> Map(Entries(outputs[k]))])

JobStatusString == IF jobStatus = "pending" THEN "success" ELSE jobStatus

\* BuildEvalContext; Cancelled is never set.
BuildEvalContext ==
  [vars |-> [env    |-> Entries(liveEnv),
             job    |-> [status |-> Str(JobStatusString)],
             steps  |-> [id \in {StepID(k) : k \in 1..(i - 1)} |->
                           StepMap(CHOOSE k \in 1..(i - 1) : StepID(k) = id)],
             github |-> [event_name |-> Str("push")],
             runner |-> [os |-> Str("Linux")]],
   jobStatus |-> jobStatus, cancelled |-> FALSE]

\* Mutant: a step without "if" runs after a failure, too.
MutShouldRun == step.cond = <<>> \/ EvalBool(step.cond, BuildEvalContext)

\* Without an "if" an implicit success(); an "if" that is an error is false.
ShouldRun ==
  IF step.cond = <<>> THEN jobStatus \in {"success", "pending"}
  ELSE EvalBool(step.cond, BuildEvalContext)

SkipStep ==
  /\ pc = "step" /\ i \in DOMAIN plan
  /\ ~ShouldRun
  /\ outcome' = [outcome EXCEPT ![i] = "skipped"]
  /\ i' = i + 1
  /\ UNCHANGED <<plan, pc, connDone, ctxDone, container, cmd, failed, jobStatus, fileVars, result>>

\* JavaScript and Dockerfile actions are refused; so is an action that is not
\* found or not cloned, which takes the network and RunJob's context unless the
\* cache has it.  exec.CommandContext starts no podman once that context is done.
CannotExecute == step.kind = "unsupported" \/ (step.kind = "docker" /\ ctxDone)
MayNotResolve == step.kind = "composite" /\ ctxDone

\* RunStep: a script, an action, or nothing to do.
BeginStep ==
  /\ pc = "step" /\ i \in DOMAIN plan
  /\ ShouldRun
  /\ cmd' = 1
  /\ failed' \in {CannotExecute} \cup {b \in {TRUE} : MayNotResolve}
  /\ pc' = IF failed' \/ step.cmds = <<>> THEN "record" ELSE "exec"
  /\ UNCHANGED <<plan, connDone, ctxDone, container, i, outcome, jobStatus, fileVars, result>>

\* The first command to fail without continue-on-error ends the step.
StopsStep(ok) == ~ok /\ ~step.cmds[cmd].coe

\* Mutant: the loop runs one past the last command.
MutLastCommand == cmd > Len(step.cmds)

LastCommand == cmd = Len(step.cmds)

\* A docker:// action runs in a container of its own, with the workspace only.
SeesFiles == step.kind # "docker"

\* container.Exec ignores its context and uses the connection's; podman run of a
\* docker:// action is killed with RunJob's.
Reaches == IF step.kind = "docker" THEN ~ctxDone ELSE ~connDone

\* A podman run that is killed takes the container it may have started along only
\* when the container ends by itself.
ActionContainer(ok) ==
  \/ UNCHANGED strays
  \/ step.kind = "docker" /\ ctxDone /\ ~ok /\ strays' = strays \cup {i}

\* container.Exec, or podman run.  Cut off it is an error, although the command
\* may have run.
Command(ok, effect) ==
  /\ pc = "exec"
  /\ ok => Reaches
  /\ effect # "none" => SeesFiles
  /\ WriteFile(effect)
  /\ ActionContainer(ok)
  /\ failed' = StopsStep(ok)
  /\ IF StopsStep(ok) \/ LastCommand
     THEN pc' = "record" /\ UNCHANGED cmd
     ELSE cmd' = cmd + 1 /\ UNCHANGED pc
  /\ UNCHANGED <<plan, connDone, ctxDone, container, i, outcome, jobStatus, offset, liveEnv, outputs,
                 artifacts, result>>

\* Mutant: continue-on-error is ignored.
MutStatusAfter == IF failed THEN "failure" ELSE jobStatus

StatusAfter == IF failed /\ ~step.coe THEN "failure" ELSE jobStatus

\* After the step, whatever its outcome: ReadDelta, the step's result, the status.
RecordStep ==
  /\ pc = "record"
  /\ liveEnv' = liveEnv \cup Delta
  /\ outputs' = [outputs EXCEPT ![i] = Delta]
  /\ offset' = NewOffset
  /\ outcome' = [outcome EXCEPT ![i] = IF failed THEN "failure" ELSE "success"]
  /\ jobStatus' = StatusAfter
  /\ i' = i + 1
  /\ pc' = "step"
  /\ UNCHANGED <<plan, connDone, ctxDone, container, cmd, failed, file, missing, wrote, tampered,
                 made, artifacts, strays, result>>

\* Pending means success.  What lies in /artifacts gets its rows, whatever the
\* status: the files that are found (a list of paths may name others), can be read,
\* and whose row the store takes.  Every error there is passed over.
Finish ==
  /\ pc = "step" /\ i > Len(plan)
  /\ result' = IF jobStatus = "pending" THEN "success" ELSE jobStatus
  /\ artifacts' \in SUBSET made
  /\ pc' = "cleanup"
  /\ UNCHANGED <<plan, connDone, ctxDone, container, stepVars, file, offset, missing, liveEnv,
                 outputs, wrote, tampered, made, strays>>

Next ==
  \/ Cancel \/ JobTimeout \/ JobIfFalse \/ SetupFails
  \/ CreateContainer \/ StartContainer \/ StartFails \/ Remove
  \/ SkipStep \/ BeginStep \/ RecordStep \/ Finish
  \/ \E ok \in BOOLEAN, effect \in Effects : Command(ok, effect)

Spec == Init /\ [][Next]_vars

-------------------------------------------------------------------------------
(***************************************************************************)
(* Types.  The offset may exceed the length of the file.                   *)
(***************************************************************************)
TypeOK ==
  /\ \A k \in DOMAIN plan : IsStep(plan[k])
  /\ pc \in {"setup", "start", "step", "exec", "record", "cleanup", "returned"}
  /\ ctxDone \in BOOLEAN /\ connDone \in (IF ctxDone THEN BOOLEAN ELSE {FALSE})
  /\ container \in {"none", "created", "running", "removed"}
  /\ i \in 1..(Len(plan) + 1)
  /\ pc \in {"exec", "record"} => i \in DOMAIN plan
  /\ pc = "exec" => cmd \in DOMAIN step.cmds
  /\ failed \in BOOLEAN
  /\ outcome \in [DOMAIN plan -> {"none", "skipped", "success", "failure"}]
  /\ jobStatus \in {"pending", "failure"}
  /\ file \in Seq(DOMAIN plan)
  /\ offset \in Nat
  /\ missing \in BOOLEAN
  /\ liveEnv \subseteq DOMAIN plan
  /\ outputs \in [DOMAIN plan -> SUBSET DOMAIN plan]
  /\ wrote \subseteq DOMAIN plan
  /\ tampered \in BOOLEAN
  /\ artifacts \subseteq made /\ made \subseteq DOMAIN plan
  /\ strays \subseteq DOMAIN plan
  /\ result \in {"none", "success", "failure", "error"}

\* A failure that counts: continue-on-error does not absorb it.
Fatal(k) == outcome[k] = "failure" /\ ~plan[k].coe

(***************************************************************************)
(* A job that got through its steps, one at least, failed iff one failed   *)
(* without continue-on-error, and every step has a result, also after a    *)
(* failure, a cancellation or a timeout (executor.go:278-349).             *)
(***************************************************************************)
ResultIsSteps ==
  i > 1 /\ i > Len(plan) /\ result # "none" =>
    /\ \A k \in DOMAIN plan : outcome[k] # "none"
    /\ result = IF \E k \in DOMAIN plan : Fatal(k) THEN "failure" ELSE "success"

(***************************************************************************)
(* Which steps run around a failure, commands of composite actions         *)
(* included: a plain step runs iff none before it failed for good, a       *)
(* failure() step iff one did, an always() step in any case; a step behind *)
(* cancelled() never runs, not even in a canceled run (executor.go:287-303,*)
(* eval.go:427-434).                                                       *)
(***************************************************************************)
Ran(k) == outcome[k] \in {"success", "failure"}

Sign(s) == [typ |-> s, val |-> s]
Call(name) == <<[typ |-> "ident", val |-> name], Sign("("), Sign(")")>>

StepsFollowStatus ==
  \A k \in 1..(i - 1) :
    LET unless == \A m \in 1..(k - 1) : ~Fatal(m)
    IN  /\ plan[k].cond \in {<<>>, Call("success")} => (Ran(k) <=> unless)
        /\ plan[k].cond = Call("failure")   => (Ran(k) <=> ~unless)
        /\ plan[k].cond = Call("always")    => Ran(k)
        /\ plan[k].cond = Call("cancelled") => ~Ran(k)

(***************************************************************************)
(* As long as no step overwrites or removes a magic file, a step starts    *)
(* with what all earlier steps wrote to it, those of failed steps          *)
(* included, and the outputs of a step are its own (executor.go:317-332,   *)
(* stepenv.go:34-69).                                                      *)
(***************************************************************************)
DeltasReachLaterSteps ==
  ~tampered =>
    /\ pc = "exec" => wrote \ {i} \subseteq liveEnv
    /\ \A k \in DOMAIN plan : outputs[k] \subseteq {k}

(***************************************************************************)
(* Unless the run's context ended, RunJob leaves its container behind on   *)
(* none of its paths (executor.go:256-274); unless its own ended, by the   *)
(* timeout at the latest, no docker action does either (action.go:423).    *)
(***************************************************************************)
ContainerRemoved ==
  /\ pc = "returned" /\ ~connDone => container \in {"none", "removed"}
  /\ strays # {} => ctxDone
===============================================================================
