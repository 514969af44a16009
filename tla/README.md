# A TLA+ verification of ghenkins

ghenkins is a small CI daemon. It polls GitHub branches and pull requests, runs
GitHub-Actions workflows in Podman containers, records runs in SQLite and posts
commit statuses. This directory holds TLA+ models of it, TLC runs over small
instances, and TLAPS proofs of their safety properties for every instance. All line
numbers refer to files under `src/internal/` unless said otherwise.

## 1. The system

| Component | State it keeps | Operations | Hard part |
|---|---|---|---|
| poller (`poller/poller.go`) | one goroutine per watch: local backoff; `seen_commits` in the database | fetch head, look up, mark seen, send to a channel without blocking | mark and send are two steps; two watches share a key; rate limits; watches read once |
| job queue (`queue/queue.go`) | a bounded slice, a mutex, a condition variable | `Enqueue`, `Dequeue`, `Close` | lost wake-ups; cancellation by an `AfterFunc` goroutine |
| daemon (`daemon/daemon.go`) | channel, queue, semaphore, `inFlight` map, wait group | `Run`, `forwardJobs`, `runJob`, `TriggerRun`, `CancelRun`, `recoverStaleRuns` | concurrent runs, cancel against finish, timeouts, shutdown, crash |
| runner (`runner/runner.go`, `workflow.go`) | one shared `PodmanRunner`: `CurrentRunID`, `JobCallback` | checkout, order the jobs, run them level by level | shared fields; skip and error paths; crashes |
| job executor (`runner/executor.go`, `container.go`, `stepenv.go`, `action.go`) | `ExecutionContext`, a container, offsets into the magic files | setup, steps, actions, removal | conditions around failures; clean-up on every path; a connection that dies with the run |
| store (`store/store.go`) | SQLite: runs, run_jobs, run_artifacts, seen_commits, projects, users, sessions | one statement per call, behind a mutex | no transition is enforced; a call with a done context does nothing |
| reporter (`reporter/reporter.go`) | none | `Report` with three retries | fails silently for the daemon |
| evaluator (`runner/eval.go`, `context.go`) | none | parse and evaluate an `if` in one pass | precedence, errors inside operands, loose comparison |
| log server: logs (`logserver/server.go`, `retention.go`) | log files | stream a log while it grows, remove old logs | reader against writer and retention; a status that never comes |
| log server: API (`logserver/server.go`, `auth/`) | users, sessions, projects, workflows, triggers | setup, login, middleware, create and delete | several store calls per request, requests interleave |
| repository cache (`runner/clone.go`) | bare clones, worktrees | clone or fetch, add and remove a worktree | interrupted and concurrent clones; stale refs |
| migrations (`store/migrations.go`, `store/schema/`) | `schema_migrations`, the tables themselves | apply each file, record it | a stop between two statements or before the record |
| configuration, secrets, CLI, UI | little or none | parsing, lookup, formatting | - |

A commit travels: poller -> channel `d.jobs` -> `forwardJobs` -> queue -> dispatch loop
-> semaphore -> one `runJob` goroutine per workflow -> `PodmanRunner.Run` -> `RunJob`
per job -> container. Manual triggers enter at the channel, cancellations at the
`inFlight` map, both from HTTP goroutines. Every run's context is a child of the
daemon's, and nearly everything a run does uses it, which decides most of what
happens on cancellation, timeout and shutdown.

`PROJECT.json` lists the hazards by line, with the properties that cover each, or the
reason why none does.

## 2. Modules

| Module | Models | Notes |
|---|---|---|
| `QueueOps` | the replacement policy of `Enqueue` | operators, shared by the next two |
| `JobQueue` | `queue.go` at the level of mutex, notify list and `AfterFunc` goroutine | `Lock`, `DecideToWait`, `Wait` are separate because the broadcast does not take the mutex |
| `RunLifecycle` | abstract: how the status of a run may change | refined by `Daemon` with `status <- row` |
| `Daemon` | `daemon.go` with the runs table and the reporter | one action per step of `runJob`; `Boot`, `RecoverStaleRun`, `StartLoops`, `Shutdown`, `Drained`, `Crash` for the process |
| `WorkflowOrder` | `BuildExecutionOrder` | a recursive function of waves |
| `RepoCache` | `clone.go`: one bare clone and what git does to it | operators and variables, extended by `Runner` |
| `Runner` | `PodmanRunner.Run` as concurrent goroutines call it, with the checkout in steps | `misfiled` records what is filed under another run's ID |
| `Poller` | `poller.go`, the watch provider, the watches a seed leaves | `lost` and `emitted` are history variables |
| `Expr` | `eval.go` and `Lookup` of `context.go`: a parser over tokens that evaluates as it goes | a recursive function over grammar rules and positions |
| `JobExecutor` | `RunJob`, the container, `ReadDelta`, composite and docker actions | one file stands for the three magic files: `ReadDelta` treats them alike and fails as a whole |
| `ConditionMeaning` | abstract: expression trees (lists of nodes), their text and their value | the reference `Expr` is compared with at every step of a job |
| `Database` | what the tables share: foreign keys, restarts | extended by the next four |
| `Schema` | `applyMigrations` and the nine SQL files, statement by statement | a database of any older release is opened |
| `Accounts` | middleware, setup, login, logout, users, sessions | one action per store call of a request |
| `Projects` | seeding, creation and deletion of projects, workflows, triggers | a creation is a job that holds the store's mutex |
| `LogStream` | the log of a run: writer, stream, retention | files are line counts; an unlinked file stays readable |
| `Server` | the four together | `part` says which one a behaviour exercises |
| `MC*` | instances for TLC | only constants |
| `*Proofs` | theorems | section 5 |

The operators whose names begin with `Mut` are plausible bugs: for each property of
a passing run there is one which, put in place of the definition that follows it,
makes TLC find the property violated. `PROJECT.json` pairs them.

What the state means:

- `Daemon`: `row` is the runs table, `created` its order by `started_at`, `gh` the
  last commit status of the run. `pc[r]` says where the run's goroutine is; `idle`
  means not launched yet, `gone` ended. `done` holds runs whose own context is
  cancelled or timed out, `stopping` is the daemon's context. A crash or an exit keeps
  `row`, `created` and `gh` and clears the rest. Two variables are history: `unwritten`
  has the runs this process should have finished in the table and did not,
  `storeFailed` those whose row lacks a write that failed with a live context.
- A store call made with a context that is done has no effect, and one for a run of
  `FailingRuns` may have none with a live context either (a busy database, a full disk).
  The code ignores both (`daemon/daemon.go:148, 321, 338, 406`) and goes on: a run without
  a row is executed, and a result is reported that the table does not have. Recovery is
  given up when its listing fails (`:141-143`), which `Boot` may do for any runs.
- `dispatch` is `asleep` while the loop waits in `Dequeue` (`DequeueWaits`), and is woken
  by `Forward` and by `Shutdown`. If `Shutdown` comes when `Dequeue` has looked at the
  context and does not wait yet (`DequeueFindsNothing`), its broadcast may find nobody,
  which is finding 1 seen from the daemon.
- `Report` posts or gives up; its retries are inside the step. A manual run has the
  SHA `manual`, which GitHub refuses.
- `Runner`: `want` is what a run is to check out, a commit for a push and a branch for
  a trigger; `worktree` its directory. A cancelled run is one whose next step errors,
  or whose git is killed during a clone (`CloneKilled`). The callback writes with
  `context.Background()`, so job rows are written in any case. A crash keeps the
  table, the clone as far as it got and the worktrees: `git worktree prune` at the
  start (`daemon/daemon.go:114-123`) only forgets worktrees whose directory is gone.
- `RepoCache`: commits of a branch are numbered. `bareDir` is what `os.Stat` finds, also
  a directory that a killed clone left without a repository or without a remote.
- `JobExecutor`: `connDone` is the end of the run's context, from which the Podman
  connection is derived; `ctxDone` is the end of `RunJob`'s own context, which its
  timeout ends too. Commands in the container depend on the first only, and may do anything to the magic
  files. `strays` has the docker actions whose own container may be left: their `podman run`
  was killed by the end of the context (`ActionContainer`). A composite action is a sequence
  of commands; nesting deeper than one level is left out.
- `Poller`: `projects` decides whether a start seeds (`seedWatchesFromConfig` looks at the
  projects, not at the triggers), and `Legacy` are the watches a start takes when the
  database does not answer.
- `Expr`: values are tagged (nil, bool, number, text, map); a token is a type and a
  value. What `strings.ToLower`, `ParseFloat` and `Compare` say about the words that
  occur is given by constants.
- `Schema`: a table is its changed columns, the table its foreign key names, and its
  rows. `db.Exec` of a file commits every statement by itself.
- `Database`: whether foreign keys are enforced is open (`fk` is either), because `Open`
  asks for it in the syntax of another driver (`store/store.go:214`).
- `Accounts`: `entitled` and `empty` are history, what held when a request arrived or
  while it ran. User IDs and tokens are unique by construction, as `crypto/rand` makes
  them. A wrong password or an error of the store is `Refuse`; only `HandleLogout` ignores
  one and answers all the same.
- `Projects`: `mu` is the mutex of `SQLiteStore`; `disturbed` is history.
- `LogStream`: path 0 is no file; file 2 is the one `runJob` creates when it appends
  its error after retention removed file 1. A sweep counts what it passed over (`passed`:
  files it could not look at, expired ones it could not remove) and the files it could not
  remove for space (`stuck`).
- External, modelled from their use: `sync.Cond`, context cancellation, the end of a
  process, pushes to GitHub, git, SQLite, commands in a container.

## 3. Runs

Times are for two workers.

| Run | Expected | Distinct states | Shows |
|---|---|---|---|
| `queue` | pass | 25,618 | no lost wake-up, loss only by policy, every job leaves |
| `queue_cancel` | violation | - | finding 1 |
| `daemon_concurrent` | pass (about 2 min) | 1.7 million | slots, cancellation, and with a store that fails: reports, recovery, refinement of `RunLifecycle` |
| `daemon_pipeline` | pass (about 2 min) | 155,308 | accepted jobs start, a shutdown completes |
| `daemon_shutdown` | violation | - | finding 2 |
| `runner_serial` | pass (about 1.5 min) | 1.9 million | execution order, skipping, results, job rows, checkouts, workspaces, also across a crash |
| `runner_concurrent` | violation | - | finding 3 |
| `runner_trigger` | violation | - | finding 5 |
| `poller` | pass (about 2 min) | 376,392 | no duplicate job, no unexplained loss, heads are detected |
| `poller_reload` | violation | - | finding 4 |
| `executor` | pass (about 40 s) | 2.0 million | results, conditions and their expressions, magic files, container removal |
| `server` | pass (about 2.5 min) | 1.3 million | migrations, accounts, projects, log stream, retention |

Bounds and why they are enough:

- `queue`: two consumers and capacity two with four jobs of two watches give append,
  replacement, drop, several sleepers, and signals in any order. (The daemon has one
  consumer; the queue promises more.)
- `daemon_concurrent`: a push and a manual trigger of one project, two slots, two starts:
  all pairs of steps of two runs, a cancellation of the first at every point, a shutdown or
  crash at every point, recovery cut off by a crash. Every store call of the first run may
  fail, and so may the listing at a start, which is one row long where the code's is 10000,
  so that a row beyond it occurs. `daemon_pipeline`: three
  jobs, one with two workflows and one of a project without any, through capacities of one
  force a full channel, eviction and waiting for a slot; one of the runs can time out. `daemon_shutdown`: one run.
- `runner_serial`: all 1024 graphs over three jobs (each may need any of the three,
  one of them an unknown job too), two runs in sequence so that stale shared fields
  would show, one crash. The checkout does not depend on the graph, so a repository
  with two branches of two commits goes with one graph (`RepoGraphs`), and nobody
  pushes during the job loop. Two runs are enough for a first that clones, or leaves a
  broken clone, and a second that fetches in it.
- `poller`: two watches share a branch with two commits, a third is on a pull request;
  channel capacity one; one store error, one restart; backoff values 5, 8 (the cap).
  `Deletable` lets the seeded project lose its trigger or be deleted with it: a restart
  seeds again in the second case only.
- `executor`: all jobs of one to three steps out of seven, which include
  continue-on-error, `always()`, `failure()`, a composite of two commands, a docker
  action and an unsupported one, and one job with every status function. For each of
  some 700 expression trees of up to three operators, and nine malformed texts, a job
  evaluates it after a step that may fail and set variables and outputs.
- `server`: `part` picks what a behaviour exercises: the parts share no table and no
  file, so their steps commute and a product would add states and no case. Migrations:
  all ten states of a database that the releases left, two rows per table, two stops.
  Accounts: three requests, two at once, on an empty installation or on one with an
  admin and a user; one expired session at a time. Projects: configurations of up to two
  projects, one of them with a name twice, three creations, requests on one project
  (`Edited`), one restart. Logs: one run that is written and streamed and one from the
  past (`Past`), one line each and one of error, a limit of one line; one crash and one
  sweep per process in the behaviours with a stream (`StopsOnce`, `OneSweep`), any number
  of sweeps while time passes, up to `MaxClock`, in those about retention.

Deadlock checking is off everywhere: in each model the system may stop (the
jobs run out, the process exits, `MaxBoots` is reached).

Fairness:

- `JobQueue`: weak fairness of each consumer and each `AfterFunc` goroutine: the Go
  scheduler runs what can run. The mutex is free infinitely often and no loop can
  keep it, so weak fairness suffices. Producers, cancellation and `Close` are not fair.
- `Daemon`: weak fairness of start-up, `forwardJobs`, the dispatch loop and every
  `runJob`. For `runJob` this assumes that `runner.Run` returns. The dispatch loop is not
  taken to return from a `Dequeue` that slept through the cancel (finding 1): then
  `ShutdownCompletes` only says that every run ends.
- `Poller`: weak fairness of `Fetch` and of each goroutine's steps: GitHub does not
  refuse for ever.
- `LogStream` (`LogFairness`): weak fairness of `runJob`, of the second half of
  `CancelRun` and of the stream: the runner ends, the store answers, goroutines run on.
  Clients, timeouts, retention and crashes are not fair. `StreamEnds` makes an exception
  for a run whose final status was lost (the cause of finding 2): its stream polls until
  the client leaves.

The safety-only models `Runner` and `JobExecutor` state no fairness.

## 4. Findings

1. `queue_cancel`. `AfterFunc` broadcasts without the mutex (`queue/queue.go:52-54`).
   If it does so after `ctx.Err()` was read and before `Wait` has queued the caller,
   `Dequeue` sleeps on a cancelled context, contrary to its comment (`:49-50`), and
   the daemon does not leave its dispatch loop.
2. `daemon_shutdown`. The unit file grants "up to 10 minutes for in-progress CI runs to
   finish on shutdown" (`src/deploy/ghenkins.service:15`). SIGTERM cancels the runs at
   once, and their final update, made with the cancelled context
   (`daemon/daemon.go:406`), is lost: the table shows them queued or running until
   the next start declares them errors.
3. `runner_concurrent`. `CurrentRunID` and `JobCallback` belong to the one runner
   (`daemon/daemon.go:347-350`, `runner/runner.go:119`); with `max_concurrency` of two,
   the default, a run files job rows, SHA and artifacts under another run's ID.
4. `poller_reload`. "Configure poller to load watches from DB each cycle"
   (`daemon/daemon.go:209`), but `Run` asks once (`poller/poller.go:72`). A new trigger
   is not polled before a restart, and a deleted one goes on being polled.
5. `runner_trigger`. A bare clone has no fetch refspec, so `git fetch --all`
   (`runner/clone.go:18`) moves no ref and brings the commits of the default branch only.
   A triggered run checks out the commit its branch had at the time of the clone, although
   the comment says "Resolve "manual" to the actual branch HEAD SHA" (`runner/runner.go:167`).

Seen while modelling, without a run:

- A timed-out workflow's row stays `running` until the next start (the same line 406;
  `StaleHasOwner` has `unwritten` for it, `StreamEnds` has `StatusLost`).
- No error of the store stops a run: GitHub may show a result of which the table knows
  nothing, a row may go from queued to success, and a recovery whose listing fails leaves
  everything as it was (`ReportedResultIsRecorded`, `RunLifecycle` and `StaleHasOwner` say
  what remains true).
- `recoverStaleRuns` asks for limit 0 ("0 = all runs", `daemon/daemon.go:140`), which
  `ListRuns` turns into the newest 10000 (`store/store.go:283`): an older unfinished row
  is never recovered, which is the last exception in `StaleHasOwner`.
- `Remove` is deferred with `context.Background()` (`runner/executor.go:269`) but uses the
  connection made from the run's context (`runner/container.go:179-185`): after a
  cancellation, timeout or shutdown the stop and the removal fail, and a started container
  is still running when `RunJob` has returned (`ContainerRemoved` has `connDone`).
- A step runs past its job's timeout, whose context does not reach `container.Exec`.
- A sweep that cannot remove a file goes on to newer ones (`stuck` in `SweepKeepsNewest`).
- A job that needs a skipped job is run (`JobRunsAfterNeeds` says exactly what holds); a
  pull request is identified by its oldest commit (`fetchSHA`).
- For the cause of finding 5, pushes to branches other than the default fail at
  `git worktree add` once the clone is older than they are.
- The directory a killed clone leaves passes for a clone for good (`CommitIsFetched` has
  `cutClone`).
- Migrations 007 and 009 cannot be repeated: a database left inside one of them never
  opens again (`FailsExactlyAfterCut`). If foreign keys are enforced, the DROPs of 009
  delete workflows, triggers, run_jobs and artifacts (`Cascaded` in `SchemaIsCurrent`).
- Without foreign keys a deleted project leaves its workflows and triggers, which come
  back with the name; a name twice in `projects` and `watches` stops the seed, and
  what is missing is never seeded again (`ProjectsAreWhole` has `seedCut`).
- Two setups at once may both succeed, and the last admin may delete itself, after which
  setup is open again (`SetupOnlyWhenEmpty` allows both). A changed password leaves
  the sessions of the user valid.
- A store error in the loop of `handleRunLog` ends the stream like a finished run; a run
  that ends between a failed open and the status check is streamed as an empty log
  (`FinishedLogIsWhole` excludes both).
- The handlers for watches (`logserver/server.go:522-591`) are not routed.

## 5. Proofs

Every safety property a passing run checks is also a theorem, for every value of the
constants that satisfies the named assumptions; `ConditionMeansTree` for the texts of
expressions, while which texts are none stays with TLC (see the end of this section).

| Theorem | Module | States |
|---|---|---|
| `EnqueuedFacts`, `EnqueuedLoses` | `QueueOpsProofs` | `Enqueue` respects the capacity and duplicates nothing; which job it drops, and when |
| `QueueTypeCorrect`, `NoWakeupIsLost`, `LossIsReplacement` | `JobQueueProofs` | `[]TypeOK`, `[]NoLostWakeup`, `LossOnlyWhenFull` |
| `TypeCorrect`, `SlotsCorrect` | `DaemonProofs` | `[]TypeOK`, `[]SlotsAccounted` |
| `CancellationIsFinal`, `ReportsAreRecorded`, `TableImplementsLifecycle` | `DaemonProofs` | `CancelIsFinal`, `[]ReportedResultIsRecorded`, refinement of `RunLifecycle` |
| `RecoveryLeavesNoOrphan` | `DaemonProofs` | `[]StaleHasOwner` |
| `TypeCorrect`, `NoCommitTwice`, `SeenCommitsAccounted` | `PollerProofs` | `[]TypeOK`, `[]EmittedAtMostOnce`, `[]SeenIsAccounted` |
| `CycleDetection` | `WorkflowOrderProofs` | `HasCycle` is true exactly of graphs with a circle; the lemmas before it say what the waves are |
| `TypeCorrect`, `OrderIsRight`, `NeedsComeFirst`, `WorkspacesGo`, `TriggeredRunsAgree` | `RunnerProofs` | `[]TypeOK`, `[]OrderIsEarliest`, `[]JobRunsAfterNeeds`, `[]WorktreesRemoved`, and that triggered runs of a branch agree on a commit, for any number of concurrent runs |
| `CheckoutFindsCommit`, `FiledUnderOwnID`, `ResultAgreesWithRows`, `RowsAreSettled` | `RunnerProofs` | with `MaxConcurrency = 1`: `[]CommitIsFetched`, `[]RecordedUnderOwnID`, `[]ResultMatchesJobs`, `[]RunEndSettlesJobs` |
| `TypeCorrect`, `NoContainerBehind`, `ResultOfSteps`, `StepsRunByStatus`, `WritesReachLaterSteps` | `JobExecutorProofs` | `[]TypeOK`, `[]ContainerRemoved`, `[]ResultIsSteps`, `[]StepsFollowStatus`, `[]DeltasReachLaterSteps` |
| `ParserParses`, `ConditionsMeanTrees` | `JobExecutorProofs` | the recursive descent ends for any tokens; `[](HasTree => ConditionMeansTree)`, for trees of any size and any context |
| `RevocationHolds`, `SetupIsOnce` | `ServerProofs` | `[]RevokedStaysRevoked`, `[]SetupOnlyWhenEmpty` |
| `ProjectsStayWhole` | `ServerProofs` | `[]ProjectsAreWhole` |
| `FinishedStreamIsWhole`, `RetentionKeepsNewest` | `ServerProofs` | `[]FinishedLogIsWhole`, `[]SweepKeepsNewest` |
| `SchemaStaysCurrent`, `FailsOnlyAfterCut` | `ServerProofs` | `[]SchemaIsCurrent`, `[]FailsExactlyAfterCut` |

Assumptions, each in the module that declares the constants:

- `QueueAssumption`: positive capacity, finitely many consumers.
- `DaemonAssumption`: finitely many runs, run IDs unique among workflow refs, positive
  capacities.
- `PollerAssumption`: positive channel capacity and initial backoff, a cap not below it.
- `RunnerAssumption`: finitely many runs and jobs, at least one slot. Needs may name
  anything: unknown needs and circles are part of `OrderIsEarliest`.
- `ExecutorAssumption`: a plan is a finite list of steps, of any length, with any tokens
  as conditions.
- `MeaningAssumption`: a step that carries a tree has the text of the tree as its condition,
  and the tree is one: nodes name earlier nodes as operands.
- `AccountsAssumption`: the users an earlier life left are not numbered like the requests,
  that is, IDs are unique.
- `ProjectsAssumption`: the workflows of a project are `Flow` and `Hello`.
- `LogStreamAssumption`: finitely many runs, limits are natural numbers.

`MaxConcurrency = 1` is a hypothesis of four theorems because with two slots TLC refutes
each of the four: three for the cause of finding 3, `CommitIsFetched` because the second run
finds the directory of a clone in progress and takes it for a clone. It is a value the
configuration allows, and `runner_serial` uses it.

The arguments:

- `NoLostWakeup` needs `MutexInv` (the mutex is held exactly by the consumer inside the
  loop, and one about to wait saw an empty queue). Then a consumer falls asleep only on
  an empty queue, and each append either wakes a sleeper or finds none.
- `LossOnlyWhenFull` follows from `EnqueuedLoses` and from `QueuedWereOffered`: a job that
  is offered is not in the queue yet, so the job that vanishes is another one.
- `SlotsAccounted` needs `PipelineInv`: a run still to be launched is idle and in only
  one place, so `Launch` starts a goroutine that did not exist. It in turn shows that
  there is a token to give back, which `TypeOK` needs: the three are one induction.
- `RunInv` ties a goroutine to its row: while its context is live the row is what the
  goroutine wrote last, or an earlier state if the store failed (`storeFailed`); a
  canceled row belongs to a run whose context is done, because `CancelRun` cancels before
  it writes. Finality of cancellation, agreement with GitHub and the refinement follow.
- `OwnerInv` says that recovery has still to visit every unfinished row, unless the row is
  in `unwritten` or beyond the limit of `ListRuns`; a row beyond it stays there, because new
  rows go to the front (`NewRunListed`).
- `Poller`: `OnceInv` says that a commit sent is marked (`SentIsSeen`), that a watch which
  found a commit unmarked has not sent it (`HeldIsUnsent`), and that a watch sends only
  what is marked (`SendIsMarked`). Two watches may both find a commit unmarked, which is
  why the second part is about the watch and not about the mark. `SeenIsAccounted` is
  inductive once `Accounts(w, n)` names its witness: no step makes a watch
  unaccountable for a commit.
- `WorkflowOrder`: the library's induction theorems cannot be instantiated by the provers,
  but a set of numbers that holds 0 and all successors is `Nat` (`SetInduction`, from
  `WFMin`). With it the recursive functions `Degrees` and `Waves` are unfolded, the
  degree of a job is shown to be the number of its needs still open, every round that
  finds a job of degree zero makes progress, and a set left over is a circle.
- `Runner`: `LoopInv` says that the waves before the current one are settled. `TreeInv`
  follows a worktree from the checkout to its deferred removal. `RefInv` says that at most
  one run clones, and that a resolved commit is the ref of the clone, which no fetch
  moves; `TriggeredRunsAgree` is its consequence for triggered runs. `FetchInv` bounds the clone by GitHub and the wanted commit by the clone.
  `SoloInv` says that the shared fields are those of the one live run, and that its rows
  follow its loop.
- `JobExecutor`: `StepsInv` ties the status of the job to the outcomes of its steps.
  `FollowInv` adds what each condition evaluated to. `DeltaInv` says that what was written
  is in the environment or behind the offset, and nothing but the step under way is.
- The evaluator is a recursive function over rules and positions, about which nothing is
  known until some function is shown to satisfy its equation. `RuleSame` shows that a rule
  asks for rules at later positions or, at its own, for rules of a lower `Rank`, so the
  entries of the function can be filled in by `Depth` (`ParserParses`).
  `Reads(f, toks, s, p, q, m)` then says without any text that the tokens from `p` to before
  `q` are an operand of strength `s` that means `m`: the rule for that strength answers `m`
  if the next token does not go on with the operand, and before "&&" or "||" it answers `m`
  joined to what follows, which is what a chain needs. One lemma per operator combines such
  operands; that a chain may be joined from the left or from the right is associativity,
  errors included (`ThenJoins`). By induction over the nodes of a tree, the text of
  each is read as its meaning wherever it stands (`NodesAreRead`), so `EvalBool` of the text
  is the truth of the tree (`EvalIsMeaning`); `name()` is the tree of one node, which
  is what `StepsRunByStatus` uses.
- `Accounts`: an ID can be revoked but not granted again. `Old` and `Spent` are the IDs and
  tokens that no request can insert any more; `RequestInv` says that a request holds only
  such IDs, so that what is valid later was valid at its arrival. `SetupInv` keeps that
  a setup past its count saw an empty table.
- `Projects`: `JobInv` says how far a creation has come and that it has the mutex while it
  inserts workflows, `NoDangling` that foreign keys leave nothing behind, `SeedInv` that a
  seed nobody stopped has created everything up to its position.
- `LogStream`: a final status other than canceled means that `runJob` has written its last
  line (`FinalMeansWritten`), a cancellation stays (`CanceledStays`), there is one file
  unless retention removed one (`OneFile`). So a stream that sees a final status and reads
  to the end has everything (`StreamInv`).
- Retention: `SpaceInv` is the budget of the sweep: what is on the disk is at most what is
  still to be seen, plus the total, plus what was passed over or written meanwhile; and the
  total is that of the files still to be considered and of those stuck. The total is a sum
  over a set; the lemmas on `SumOf` show for any finite set of runs that the
  library's `MapThenSumSet` is such a sum and what one change of a file does to it. `FoundInv`
  (a file is remembered once and has not shrunk) and `FreedInv` (files go for space
  after the scan, oldest first) complete it.
- Migrations: `SchemaInv` says that the recorded files are `1..m` and where the process is.
  `Healthy` is a database that no stop left inside 007 or 009: it has the tables of release
  `m` and those of the next that were already created (`IsOld`), or it is `stmt - 1`
  statements into 009 (`IsMidway`: tables, columns, and the old table whose rows each table
  has). `MidwayStep` goes through the sixteen statements: none fails, each leads to the
  next, and a drop takes rows only from tables outside `Safe`. `Stuck` is a database such a
  stop left: the first statement of the file fails on it for ever. `Releases` computes
  `DatabaseAt` by unfolding its two recursive functions. Nothing is assumed of `Rows`.

Proving also corrected the model. `ResultIsSteps` had claimed that a job that returned was
through its steps as soon as `i > Len(plan)`; for a job without steps whose container does
not start that is false, so it now speaks about jobs that have passed a step. The
parser of `Expr` takes a pair of rule and position, and its body is the operator
`ParseRule`, because the prover does not support functions of several arguments; the files
of `Schema` are run by `ExecFile`, a recursive function, instead of a fold; and a tree of
`ConditionMeaning` is the list of its nodes, so that its text and its meaning are recursive
functions over node numbers instead of RECURSIVE operators.

Only model-checked:

- liveness under fairness, out of the prover's reach: `EveryJobLeaves`,
  `CancelWakesSleepers`, `AcceptedJobStarts`, `ShutdownCompletes`, `HeadIsDetected`,
  `StreamEnds`;
- the part of `ConditionMeansTree` about steps with an "if" and no tree: that the nine
  malformed texts of `MCJobExecutor` skip the step. A theorem would need a definition of the
  texts that are no expressions, and the parser accepts more than the texts of trees (spare
  parentheses, arguments, indices).

## 6. Not modelled, and the plan

Partly modelled: the evaluator without `tokenize`, `Interpolate` and the functions over
text; composite actions nested deeper than one level and their inner conditions; the
reporter's retries, inside one step; handlers that only read or update descriptive
columns, the content of workflow files, artifact downloads.

Left out for good: the web page, the command line, secrets (a lookup), the event payload
(one JSON document), YAML and JSON formats, the contents of environment variables and
bind mounts, password hashes, log wording.
