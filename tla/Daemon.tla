-------------------------------- MODULE Daemon --------------------------------
(***************************************************************************)
(* internal/daemon/daemon.go with the parts of store and runner it shares: *)
(* the pipeline that turns offered jobs into runs, the runJob goroutine of *)
(* each run, cancellation over HTTP, workflow timeouts, graceful shutdown, *)
(* crashes, and recovery of the runs table at the next start.              *)
(*                                                                         *)
(* A step of runJob is one action: the store and the GitHub API are called *)
(* between steps of the other goroutines.  A store call made with a run's  *)
(* context has no effect once that context is done (database/sql checks it *)
(* first), and with a live one it can fail (a locked database, a full      *)
(* disk).  runJob and recovery ignore every store error and go on.         *)
(***************************************************************************)
EXTENDS QueueOps, FiniteSets

CONSTANTS
  Jobs,            \* jobs a watch or TriggerRun can offer
  Runs,            \* run IDs
  WatchOf,         \* [Jobs -> watch name]
  Refs,            \* [Jobs -> Seq(Runs)]: one run per workflow of the job
  ManualRuns,      \* runs of jobs offered by TriggerRun (SHA "manual")
  CancelledRuns,   \* runs some client asks to cancel
  TimedRuns,       \* runs whose workflow has TimeoutMinutes > 0
  FailingRuns,     \* runs for which the store can fail with a live context
  MaxConcurrency,  \* cap(d.sem)
  ChanCap,         \* cap(d.jobs)
  QueueCap,        \* d.queue's capacity
  ListLimit,       \* what ListRuns makes of limit 0
  MaxBoots         \* bound: how often the process is started

ASSUME DaemonAssumption ==
  /\ IsFiniteSet(Runs)
  /\ Refs \in [Jobs -> Seq(Runs)]
  \* generateID: no two workflow refs get the same run ID
  /\ \A j \in Jobs : Distinct(Refs[j])
  /\ \A j, k \in Jobs : j # k => Elems(Refs[j]) \cap Elems(Refs[k]) = {}
  /\ ManualRuns \subseteq Runs
  /\ CancelledRuns \subseteq Runs
  /\ TimedRuns \subseteq Runs
  /\ FailingRuns \subseteq Runs
  /\ MaxConcurrency \in Nat \ {0}
  /\ ChanCap \in Nat \ {0}
  /\ QueueCap \in Nat \ {0}
  /\ ListLimit \in Nat
  /\ MaxBoots \in Nat

VARIABLES
  \* On disk, or held by GitHub: survives the process.
  row,          \* the runs table: status by run ID, "none" without a row
  created,      \* run IDs in the order of started_at
  gh,           \* the commit status last posted for the run
  \* The process.
  mode,         \* "down", "recovering", "up", or after wg.Wait "exited"
  stopping,     \* the context of Daemon.Run is cancelled
  boots,        \* starts so far
  stale,        \* rows recoverStaleRuns still has to visit
  jobsChan,     \* d.jobs
  queue,        \* d.queue
  forwarding,   \* forwardJobs is running
  dispatch,     \* "loop", "asleep" in Dequeue, or "drain" once Dequeue has failed
  toLaunch,     \* workflow refs of the dequeued job not yet launched
  offered,      \* jobs offered so far
  evicted,      \* jobs Enqueue removed from a full queue
  sem,          \* tokens in d.sem
  pc,           \* where the runJob goroutine of a run is
  result,       \* what runner.Run returned for the run
  inFlight,     \* keys of d.inFlight
  done,         \* runs whose own context is cancelled or timed out
  cancelPc,     \* progress of a CancelRun request per run
  \* History.
  unwritten,    \* runs whose row this process should have finished and did not:
                \* the final update, the recovery or its listing had no effect
  storeFailed   \* runs whose row lacks a write that failed with a live context

dbVars     == <<row, created, gh, storeFailed>>
pipeVars   == <<jobsChan, queue, forwarding, dispatch, toLaunch, offered, evicted>>
runVars    == <<sem, pc, result, inFlight, done, unwritten>>
sysVars    == <<mode, stopping, boots, stale>>
vars == <<dbVars, sysVars, pipeVars, runVars, cancelPc>>

Unfinished == {"queued", "running"}
Results    == {"success", "failure", "error"}

PCs == {"idle", "start", "create", "reportQueued", "markRunning", "reportRunning",
        "execute",
        "finish", "reportFinal", "unregister", "release", "gone"}

\* The goroutine exists and holds its semaphore token.
Live(r) == pc[r] \notin {"idle", "gone"}

\* runCtx is a child of the daemon's context.
CtxDone(r) == r \in done \/ stopping

Init ==
  /\ row = [r \in Runs |-> "none"]
  /\ created = <<>>
  /\ gh = [r \in Runs |-> "none"]
  /\ mode = "down"
  /\ stopping = FALSE
  /\ boots = 0
  /\ stale = {}
  /\ jobsChan = <<>>
  /\ queue = <<>>
  /\ forwarding = FALSE
  /\ dispatch = "drain"
  /\ toLaunch = <<>>
  /\ offered = {}
  /\ evicted = {}
  /\ sem = 0
  /\ pc = [r \in Runs |-> "idle"]
  /\ result = [r \in Runs |-> "none"]
  /\ inFlight = {}
  /\ done = {}
  /\ cancelPc = [r \in Runs |-> "idle"]
  /\ unwritten = {}
  /\ storeFailed = {}
-------------------------------------------------------------------------------
(* The runs table. *)

\* UPDATE runs SET status ... WHERE id: overwrites, and misses an absent row.
UpdateRunStatus(r, s) == IF row[r] = "none" THEN row ELSE [row EXCEPT ![r] = s]

\* A statement made with the run's context can be without effect.
MayFail(r) == CtxDone(r) \/ r \in FailingRuns

\* Mutant: the write uses context.Background().
MutUpdateWithRunCtx(r, s) == {row, UpdateRunStatus(r, s)}

\* The tables that the same statement with the run's own context can leave.
UpdateWithRunCtx(r, s) ==
  (IF MayFail(r) THEN {row} ELSE {}) \cup (IF CtxDone(r) THEN {} ELSE {UpdateRunStatus(r, s)})

\* ORDER BY started_at DESC LIMIT: the newest rows, all of them below the limit.
ListRuns ==
  {created[i] : i \in {k \in DOMAIN created : k > Len(created) - ListLimit}}

-------------------------------------------------------------------------------
(* The process: start, recovery, shutdown, crash. *)

\* The dispatch loop is in Dequeue, with an empty queue and a live context.
DequeueFindsNothing ==
  mode = "up" /\ dispatch = "loop" /\ toLaunch = <<>> /\ queue = <<>> /\ ~stopping

\* Mutant: recovery overlooks the queued rows.
MutBootRunningOnly ==
  /\ mode \in {"down", "exited"}
  /\ boots < MaxBoots
  /\ mode' = "recovering"
  /\ boots' = boots + 1
  /\ stale' = {r \in ListRuns : row[r] = "running"}
  /\ UNCHANGED <<dbVars, stopping, pipeVars, runVars, cancelPc>>

\* Mutant: recovery does not look at the status of a row.
MutBootAllRows ==
  /\ mode \in {"down", "exited"}
  /\ boots < MaxBoots
  /\ mode' = "recovering"
  /\ boots' = boots + 1
  /\ stale' = ListRuns
  /\ UNCHANGED <<dbVars, stopping, pipeVars, runVars, cancelPc>>

\* New opens the store, Run lists the runs before anything else is started.  When
\* the listing fails, recoverStaleRuns returns and the daemon goes on without it.
Boot ==
  /\ mode \in {"down", "exited"}
  /\ boots < MaxBoots
  /\ mode' = "recovering"
  /\ boots' = boots + 1
  /\ \/ stale' = {r \in ListRuns : row[r] \in Unfinished} /\ UNCHANGED unwritten
     \/ stale' = {} /\ unwritten' = {r \in Runs : row[r] \in Unfinished}
  /\ UNCHANGED <<dbVars, stopping, pipeVars, sem, pc, result, inFlight, done, cancelPc>>

\* One iteration of recoverStaleRuns, under the daemon's context.
RecoverStaleRun(r) ==
  /\ mode = "recovering"
  /\ r \in stale
  /\ stale' = stale \ {r}
  /\ \/ ~stopping /\ row' = UpdateRunStatus(r, "error") /\ UNCHANGED unwritten
     \/ (stopping \/ r \in FailingRuns) /\ UNCHANGED row /\ unwritten' = unwritten \cup {r}
  /\ UNCHANGED <<created, gh, storeFailed, mode, stopping, boots,
                 pipeVars, sem, pc, result, inFlight, done, cancelPc>>

\* Run starts the log server, the poller and forwardJobs, and enters its loop.
StartLoops ==
  /\ mode = "recovering"
  /\ stale = {}
  /\ mode' = "up"
  /\ forwarding' = TRUE
  /\ dispatch' = "loop"
  /\ UNCHANGED <<dbVars, stopping, boots, stale, jobsChan, queue, toLaunch,
                 offered, evicted, runVars, cancelPc>>

\* SIGINT or SIGTERM cancels the context that Daemon.Run was given, and Dequeue's
\* AfterFunc broadcasts.  That wakes a Dequeue that waits; one that has looked at
\* the context and does not wait yet can miss it (JobQueue has the steps).
Shutdown ==
  /\ mode \in {"recovering", "up"}
  /\ ~stopping
  /\ stopping' = TRUE
  /\ \/ dispatch' = IF dispatch = "asleep" THEN "loop" ELSE dispatch
     \/ DequeueFindsNothing /\ dispatch' = "asleep"
  /\ UNCHANGED <<dbVars, mode, boots, stale, jobsChan, queue, forwarding, toLaunch,
                 offered, evicted, runVars, cancelPc>>

\* What the end of the process takes with it: everything not on disk.
ProcessGone ==
  /\ stopping' = FALSE /\ stale' = {}
  /\ jobsChan' = <<>> /\ queue' = <<>> /\ toLaunch' = <<>>
  /\ forwarding' = FALSE /\ dispatch' = "drain"
  /\ pc' = [r \in Runs |-> IF pc[r] = "idle" THEN "idle" ELSE "gone"]
  /\ sem' = 0 /\ inFlight' = {} /\ done' = {} /\ unwritten' = {}
  /\ result' = [r \in Runs |-> "none"]
  /\ cancelPc' = [r \in Runs |-> "idle"]
  /\ UNCHANGED <<dbVars, boots, offered, evicted>>

\* Mutant: the exit also waits for an empty queue.
MutDrained ==
  /\ mode = "up"
  /\ dispatch = "drain"
  /\ queue = <<>>
  /\ \A r \in Runs : ~Live(r)
  /\ mode' = "exited"
  /\ ProcessGone

\* wg.Wait returns: every runJob has ended, the store is closed.
Drained ==
  /\ mode = "up"
  /\ dispatch = "drain"
  /\ \A r \in Runs : ~Live(r)
  /\ mode' = "exited"
  /\ ProcessGone

\* The process dies: SIGKILL, a panic, a power cut.
Crash ==
  /\ mode \in {"recovering", "up"}
  /\ mode' = "down"
  /\ ProcessGone

-------------------------------------------------------------------------------
(* From an offered job to a goroutine. *)

\* A watch of the poller or TriggerRun: a send that does not block.  Without
\* room the poller drops the job and TriggerRun returns an error.
Offer(j) ==
  /\ mode = "up"
  /\ j \notin offered
  /\ offered' = offered \cup {j}
  /\ jobsChan' = IF Len(jobsChan) < ChanCap THEN Append(jobsChan, j) ELSE jobsChan
  /\ UNCHANGED <<dbVars, sysVars, queue, forwarding, dispatch,
                 toLaunch, evicted, runVars, cancelPc>>

\* forwardJobs: from the channel into the queue; the signal of an append wakes
\* Dequeue.
Forward ==
  /\ forwarding
  /\ jobsChan # <<>>
  /\ jobsChan' = Tail(jobsChan)
  /\ queue' = Enqueued(queue, Head(jobsChan), WatchOf, QueueCap)
  /\ evicted' = evicted \cup (Elems(queue) \ Elems(queue'))
  /\ dispatch' = IF dispatch = "asleep" /\ EnqueueSignals(queue, QueueCap)
                 THEN "loop" ELSE dispatch
  /\ UNCHANGED <<dbVars, sysVars, forwarding, toLaunch, offered, runVars, cancelPc>>

ForwardStop ==
  /\ forwarding /\ stopping
  /\ forwarding' = FALSE
  /\ UNCHANGED <<dbVars, sysVars, jobsChan, queue, dispatch,
                 toLaunch, offered, evicted, runVars, cancelPc>>

\* The dispatch loop asks for the next job; Dequeue checks the context last.
Dequeue ==
  /\ mode = "up" /\ dispatch = "loop"
  /\ toLaunch = <<>>
  /\ ~stopping /\ queue # <<>>
  /\ queue' = Tail(queue)
  /\ toLaunch' = Refs[Head(queue)]
  /\ UNCHANGED <<dbVars, sysVars, jobsChan, forwarding, dispatch,
                 offered, evicted, runVars, cancelPc>>

\* cond.Wait.
DequeueWaits ==
  /\ DequeueFindsNothing
  /\ dispatch' = "asleep"
  /\ UNCHANGED <<dbVars, sysVars, jobsChan, queue, forwarding,
                 toLaunch, offered, evicted, runVars, cancelPc>>

\* Dequeue fails: the loop is left and the queue closed.
DequeueCancelled ==
  /\ mode = "up" /\ dispatch = "loop"
  /\ toLaunch = <<>>
  /\ stopping
  /\ dispatch' = "drain"
  /\ UNCHANGED <<dbVars, sysVars, jobsChan, queue, forwarding,
                 toLaunch, offered, evicted, runVars, cancelPc>>

\* d.sem <- struct{}{}; d.wg.Add(1); go d.runJob(...).  The send does not
\* look at the context, so a shutdown still launches the job's other refs.
Launch ==
  /\ mode = "up" /\ dispatch = "loop"
  /\ toLaunch # <<>>
  /\ sem < MaxConcurrency
  /\ sem' = sem + 1
  /\ pc' = [pc EXCEPT ![Head(toLaunch)] = "start"]
  /\ toLaunch' = Tail(toLaunch)
  /\ UNCHANGED <<dbVars, sysVars, jobsChan, queue, forwarding,
                 dispatch, offered, evicted, result, inFlight, done, unwritten, cancelPc>>

-------------------------------------------------------------------------------
(* runJob, one action per step. *)

Step(r, from, to) ==
  /\ mode = "up"
  /\ pc[r] = from
  /\ pc' = [pc EXCEPT ![r] = to]

\* The run context is made and its cancel function stored under the run ID.
Register(r) ==
  /\ Step(r, "start", "create")
  /\ inFlight' = inFlight \cup {r}
  /\ UNCHANGED <<dbVars, sysVars, pipeVars, sem, result, done, unwritten, cancelPc>>

\* A write of runJob had no effect: remembered if its context was live.
Failed(r) == storeFailed' = IF CtxDone(r) THEN storeFailed ELSE storeFailed \cup {r}

\* d.store.CreateRun(runCtx, run), status queued.  Without the row the run goes on.
CreateRun(r) ==
  /\ Step(r, "create", "reportQueued")
  /\ \/ /\ ~CtxDone(r)
        /\ row' = [row EXCEPT ![r] = "queued"]
        /\ created' = Append(created, r)
        /\ UNCHANGED storeFailed
     \/ MayFail(r) /\ UNCHANGED <<row, created>> /\ Failed(r)
  /\ UNCHANGED <<gh, sysVars, pipeVars, sem, result, inFlight,
                 done, unwritten, cancelPc>>

\* Mutant: the report is posted whatever happened to the run's context.
MutReport(r, state) ==
  \/ UNCHANGED gh
  \/ r \notin ManualRuns /\ gh' = [gh EXCEPT ![r] = state]

\* reporter.Report(runCtx, ...): posts unless the context is done, and may give
\* up on API errors.  GitHub refuses the SHA "manual" of a triggered run.
Report(r, state) ==
  \/ UNCHANGED gh
  \/ ~CtxDone(r) /\ r \notin ManualRuns /\ gh' = [gh EXCEPT ![r] = state]

ReportQueued(r) ==
  /\ Step(r, "reportQueued", "markRunning")
  /\ Report(r, "pending")
  /\ UNCHANGED <<row, created, storeFailed, sysVars, pipeVars, sem, result,
                 inFlight, done, unwritten, cancelPc>>

\* d.store.UpdateRunStatus(runCtx, runID, running).
MarkRunning(r) ==
  /\ Step(r, "markRunning", "reportRunning")
  /\ row' \in UpdateWithRunCtx(r, "running")
  /\ UNCHANGED <<created, gh, storeFailed, sysVars, pipeVars, sem, result,
                 inFlight, done, unwritten, cancelPc>>

ReportRunning(r) ==
  /\ Step(r, "reportRunning", "execute")
  /\ Report(r, "pending")
  /\ UNCHANGED <<row, created, storeFailed, sysVars, pipeVars, sem, result,
                 inFlight, done, unwritten, cancelPc>>

\* The runner is wired to the run, the log file created, and runner.Run called:
\* exit code 0, another exit code, or an error (module Runner looks inside).
Execute(r, res) ==
  /\ Step(r, "execute", "finish")
  /\ result' = [result EXCEPT ![r] = res]
  /\ UNCHANGED <<dbVars, sysVars, pipeVars, sem, inFlight, done, unwritten, cancelPc>>

\* The final UpdateRunStatus, still with runCtx; its error is ignored.
Finish(r) ==
  /\ Step(r, "finish", "reportFinal")
  /\ row' \in UpdateWithRunCtx(r, result[r])
  /\ \/ row'[r] = result[r] /\ UNCHANGED <<unwritten, storeFailed>>
     \/ row'[r] # result[r] /\ unwritten' = unwritten \cup {r} /\ Failed(r)
  /\ UNCHANGED <<created, gh, sysVars, pipeVars, sem, result,
                 inFlight, done, cancelPc>>

ReportFinal(r) ==
  /\ Step(r, "reportFinal", "unregister")
  /\ Report(r, result[r])
  /\ UNCHANGED <<row, created, storeFailed, sysVars, pipeVars, sem, result,
                 inFlight, done, unwritten, cancelPc>>

\* The deferred cancel() and d.inFlight.Delete(runID).
Unregister(r) ==
  /\ Step(r, "unregister", "release")
  /\ done' = done \cup {r}
  /\ inFlight' = inFlight \ {r}
  /\ UNCHANGED <<dbVars, sysVars, pipeVars, sem, result, unwritten, cancelPc>>

\* Mutant: the token is given back twice.
MutReleaseTwice(r) ==
  /\ Step(r, "release", "gone")
  /\ sem' = sem - 2
  /\ result' = [result EXCEPT ![r] = "none"]
  /\ UNCHANGED <<dbVars, sysVars, pipeVars, inFlight, done, unwritten, cancelPc>>

\* Mutant: a run whose context is done keeps its token.
MutReleaseLeaks(r) ==
  /\ Step(r, "release", "gone")
  /\ sem' = IF r \in unwritten THEN sem ELSE sem - 1
  /\ result' = [result EXCEPT ![r] = "none"]
  /\ UNCHANGED <<dbVars, sysVars, pipeVars, inFlight, done, unwritten, cancelPc>>

\* The deferred <-d.sem and d.wg.Done(); the goroutine's locals go with it.
Release(r) ==
  /\ Step(r, "release", "gone")
  /\ sem' = sem - 1
  /\ result' = [result EXCEPT ![r] = "none"]
  /\ UNCHANGED <<dbVars, sysVars, pipeVars, inFlight, done, unwritten, cancelPc>>

\* context.WithTimeout of a workflow with TimeoutMinutes expires.
Timeout(r) ==
  /\ mode = "up"
  /\ r \in TimedRuns \cap inFlight
  /\ r \notin done
  /\ done' = done \cup {r}
  /\ UNCHANGED <<dbVars, sysVars, pipeVars, sem, pc, result, inFlight, unwritten, cancelPc>>

-------------------------------------------------------------------------------
(* CancelRun, in a goroutine of the HTTP server. *)

CancelStep(r, from, to) ==
  /\ mode = "up"
  /\ cancelPc[r] = from
  /\ cancelPc' = [cancelPc EXCEPT ![r] = to]

\* d.inFlight.Load(runID); an unknown ID is an error and changes nothing.
CancelLoad(r) ==
  /\ CancelStep(r, "idle", "loaded")
  /\ r \in inFlight \cap CancelledRuns
  /\ UNCHANGED <<dbVars, sysVars, pipeVars, runVars>>

\* cancel().
CancelFire(r) ==
  /\ CancelStep(r, "loaded", "fired")
  /\ done' = done \cup {r}
  /\ UNCHANGED <<dbVars, sysVars, pipeVars, sem, pc, result, inFlight, unwritten>>

\* UpdateRunStatus(ctx, runID, canceled) with the request's context: nothing is
\* written when the client has gone or the store fails.
CancelWrite(r) ==
  /\ CancelStep(r, "fired", "idle")
  /\ row' \in {row, UpdateRunStatus(r, "canceled")}
  /\ UNCHANGED <<created, gh, storeFailed, sysVars, pipeVars, runVars>>

-------------------------------------------------------------------------------
RunStep(r) ==
  \/ Register(r) \/ CreateRun(r) \/ ReportQueued(r) \/ MarkRunning(r) \/ ReportRunning(r)
  \/ (\E res \in Results : Execute(r, res))
  \/ Finish(r) \/ ReportFinal(r) \/ Unregister(r) \/ Release(r)

CancelRun(r) == CancelLoad(r) \/ CancelFire(r) \/ CancelWrite(r)

DispatchStep ==
  Dequeue \/ DequeueWaits \/ DequeueCancelled \/ Launch \/ Drained

Next ==
  \/ Boot \/ StartLoops \/ Shutdown \/ Crash \/ Forward \/ ForwardStop \/ DispatchStep
  \/ \E j \in Jobs : Offer(j)
  \/ \E r \in Runs : RecoverStaleRun(r) \/ RunStep(r) \/ Timeout(r) \/ CancelRun(r)

(***************************************************************************)
(* Goroutines that can run are run: the start-up sequence, forwardJobs,    *)
(* the dispatch loop and every runJob.  For runJob this assumes that       *)
(* runner.Run returns.  A Dequeue that waits is woken by a signal or a     *)
(* broadcast and by nothing else.  Nobody has to offer a job, cancel or    *)
(* stop the daemon, and a stopped process need not be started again.       *)
(***************************************************************************)
Fairness ==
  /\ WF_vars(StartLoops) /\ WF_vars(Forward) /\ WF_vars(DispatchStep)
  /\ \A r \in Runs : WF_vars(RecoverStaleRun(r)) /\ WF_vars(RunStep(r))

Spec == Init /\ [][Next]_vars /\ Fairness

-------------------------------------------------------------------------------
(***************************************************************************)
(* Types and bounds: in particular the channel, the queue and the          *)
(* semaphore never exceed what daemon.New gave them, and a channel, queue  *)
(* or goroutine exists only in a running process.                          *)
(***************************************************************************)
TypeOK ==
  /\ row \in [Runs -> Unfinished \cup Results \cup {"none", "canceled"}]
  /\ created \in Seq(Runs)
  /\ gh \in [Runs -> Results \cup {"none", "pending"}]
  /\ mode \in {"down", "recovering", "up", "exited"}
  /\ stopping \in BOOLEAN
  /\ boots \in 0..MaxBoots
  /\ stale \subseteq Runs
  /\ jobsChan \in Seq(Jobs) /\ Len(jobsChan) <= ChanCap
  /\ queue \in Seq(Jobs) /\ Len(queue) <= QueueCap
  /\ forwarding \in BOOLEAN
  /\ dispatch \in {"loop", "asleep", "drain"}
  /\ toLaunch \in Seq(Runs)
  /\ offered \subseteq Jobs
  /\ evicted \subseteq Jobs
  /\ sem \in 0..MaxConcurrency
  /\ pc \in [Runs -> PCs]
  /\ result \in [Runs -> Results \cup {"none"}]
  /\ inFlight \subseteq Runs
  /\ done \subseteq Runs
  /\ cancelPc \in [Runs -> {"idle", "loaded", "fired"}]
  /\ unwritten \subseteq Runs
  /\ storeFailed \subseteq Runs

(***************************************************************************)
(* The semaphore (daemon.go:264, 293) counts exactly the runJob goroutines *)
(* that exist: no token is lost on an early error, a cancellation or a     *)
(* shutdown, and no run executes without one.                              *)
(***************************************************************************)
SlotsAccounted == sem = Cardinality({r \in Runs : Live(r)})

(***************************************************************************)
(* A canceled run stays canceled: whatever runJob, a second request or a   *)
(* restart does later, the status CancelRun wrote is never overwritten.    *)
(* It rests on CancelRun cancelling the run's context before it writes     *)
(* (daemon.go:485-487) and on runJob using that context (daemon.go:406).   *)
(***************************************************************************)
CancelKept == \A r \in Runs : row[r] = "canceled" => row'[r] = "canceled"

CancelIsFinal == [][CancelKept]_vars

(***************************************************************************)
(* A result that was posted to GitHub (daemon.go:407) is the one in the    *)
(* runs table, through crashes, recovery and shutdown, unless the run was  *)
(* canceled.  The exception is a store that failed while the context was   *)
(* live, an error runJob ignores (daemon.go:321, 406): the table then has  *)
(* no verdict, or recovery's error, but never another run result.          *)
(***************************************************************************)
ReportedResultIsRecorded ==
  \A r \in Runs : gh[r] \in Results =>
    \/ row[r] \in {gh[r], "canceled"}
    \/ r \in storeFailed /\ row[r] \in {"none", "error"} \cup Unfinished

(***************************************************************************)
(* Once recoverStaleRuns is through (daemon.go:139-151), a run that the    *)
(* table shows as queued or running is being worked on by a goroutine of   *)
(* this process, or it is one whose end this process could not write: its  *)
(* context was done or the store failed at its final update (406), at its  *)
(* recovery (148), or at the listing of the runs (141).  The rows beyond   *)
(* the limit of that listing, and only they, nobody ever looks at again.   *)
(***************************************************************************)
StaleHasOwner ==
  mode = "up" =>
    \A r \in Runs : row[r] \in Unfinished =>
      Live(r) \/ r \in unwritten \/ r \notin ListRuns

\* The daemon implements the life of a run's status that RunLifecycle promises.
Lifecycle == INSTANCE RunLifecycle WITH status <- row

ImplementsRunLifecycle == Lifecycle!Spec

(***************************************************************************)
(* A job that TriggerRun or the poller got into the channel has all its    *)
(* workflows launched, unless the queue was full and evicted it or the     *)
(* daemon stops: slots are always released again and the dispatch loop     *)
(* never blocks for good (daemon.go:259-269, 277-289).                     *)
(***************************************************************************)
Started(j) == \A i \in DOMAIN Refs[j] : pc[Refs[j][i]] # "idle"

AcceptedJobStarts ==
  \A j \in Jobs :
    j \in Elems(jobsChan)
      ~> (Started(j) \/ j \in evicted \/ stopping \/ mode # "up")

(***************************************************************************)
(* A cancelled daemon ends (daemon.go:271-274): every run ends, the        *)
(* dispatch loop, blocked on the semaphore or not, is left, and wg.Wait    *)
(* returns.  The one thing that can be left is a Dequeue that slept        *)
(* through the broadcast (queue.go:53), with every run ended all the same. *)
(***************************************************************************)
ShutdownCompletes ==
  stopping ~> (~stopping \/ (dispatch = "asleep" /\ \A r \in Runs : ~Live(r)))

(***************************************************************************)
(* deploy/ghenkins.service:15: "Allow up to 10 minutes for in-progress CI  *)
(* runs to finish on shutdown."  After a graceful exit no run is left      *)
(* unfinished in the table.                                                *)
(***************************************************************************)
GracefulExitFinishesRuns ==
  mode = "exited" => \A r \in Runs : row[r] \notin Unfinished
===============================================================================
