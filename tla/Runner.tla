-------------------------------- MODULE Runner --------------------------------
(***************************************************************************)
(* PodmanRunner.Run of internal/runner/runner.go as runJob goroutines call *)
(* it: the run ID and the job callback are fields of one runner object,    *)
(* set by each goroutine before its call; the jobs of the workflow run     *)
(* level by level and every change of a job's status goes through the      *)
(* callback into the run_jobs table.  The checkout goes through the        *)
(* repository cache (RepoCache), which outlives the process.               *)
(*                                                                         *)
(* A read or write of a shared field is atomic with the step it is in;     *)
(* goroutines interleave between steps.                                    *)
(***************************************************************************)
EXTENDS WorkflowOrder, RepoCache

CONSTANTS
  Runs,            \* run IDs, one goroutine each
  NoRun,           \* CurrentRunID before the first run
  JobIDs,          \* job IDs of the workflow
  Graphs,          \* the workflows tried: maps from JobIDs to their needs
  RepoGraphs,      \* bound: the ones whose project has a repository
  NoBranch,        \* branch of a triggered run of a project without repository
  MaxConcurrency,  \* goroutines the daemon's semaphore admits
  MaxCrashes       \* bound: crashes of the process

ASSUME RunnerAssumption ==
  /\ IsFiniteSet(Runs) /\ NoRun \notin Runs
  /\ IsFiniteSet(JobIDs)
  /\ \A g \in Graphs : DOMAIN g = JobIDs
  /\ RepoGraphs \subseteq Graphs
  /\ NoBranch \notin Branches
  /\ MaxConcurrency \in Nat \ {0}
  /\ MaxCrashes \in Nat

VARIABLES
  needs,        \* the workflow file
  pc,           \* where each goroutine is
  currentRun,   \* r.CurrentRunID
  callbackRun,  \* the run ID captured by r.JobCallback
  level,        \* index of the wave being run
  left,         \* jobs of that wave not yet taken
  job,          \* the job being run
  failedJobs,   \* failedJobs of the loop
  settled,      \* jobs finished or skipped
  result,       \* what Run returned
  jobRow,       \* run_jobs: [run ID -> [job ID -> status]]
  misfiled,     \* <<r, id>>: something run r did is filed under another ID
  want,         \* what the run is to check out; commit 0 is "manual"
  worktree,     \* its workspace on disk
  cutClone,     \* history: git was killed during a clone
  crashes,      \* crashes so far
  crashed       \* history: runs a crash ended

repo   == <<upstream, cache, cutClone>>
crash  == <<crashes, crashed>>
shared == <<needs, currentRun, callbackRun, crash>>
loop   == <<level, left, job, failedJobs, settled>>
vars   == <<shared, pc, loop, result, jobRow, misfiled, want, worktree, repo>>

PCs == {"idle", "wire", "connect", "clone", "cloning", "fetch", "resolve", "worktree",
        "order", "pick", "run", "returned", "gone"}
NoJob == "none"

Live(r) == pc[r] \notin {"idle", "gone"}

Init ==
  /\ needs \in Graphs
  /\ pc = [r \in Runs |-> "idle"]
  /\ currentRun = NoRun /\ callbackRun = NoRun
  /\ level = [r \in Runs |-> 0]
  /\ left = [r \in Runs |-> {}]
  /\ job = [r \in Runs |-> NoJob]
  /\ failedJobs = [r \in Runs |-> {}]
  /\ settled = [r \in Runs |-> {}]
  /\ result = [r \in Runs |-> "none"]
  /\ jobRow = [r \in Runs |-> [id \in JobIDs |-> "none"]]
  /\ misfiled = {}
  /\ want = [r \in Runs |-> [branch |-> NoBranch, commit |-> 0, manual |-> FALSE]]
  /\ worktree = [r \in Runs |-> "none"]
  /\ cutClone = FALSE /\ crashes = 0 /\ crashed = {}
  /\ CacheInit

-------------------------------------------------------------------------------
Goto(r, from, to) == pc[r] = from /\ pc' = [pc EXCEPT ![r] = to]

\* What run r does is filed under the given IDs.
File(r, ids) == misfiled' = misfiled \cup {<<r, id>> : id \in ids \ {r}}

\* r.JobCallback(id, status, ...): an upsert under the captured run ID.
Callback(r, id, status) ==
  /\ jobRow' = [jobRow EXCEPT ![callbackRun][id] = status]
  /\ File(r, {callbackRun})

\* Run returns: the deferred functions remove the worktree or the temporary
\* directory.
Returns(r, res) ==
  /\ pc' = [pc EXCEPT ![r] = "returned"]
  /\ result' = [result EXCEPT ![r] = res]
  /\ worktree' = [worktree EXCEPT ![r] = "none"]

\* A push run names a commit that is on GitHub; a triggered one a branch, or
\* nothing when its project has no repository.
Requests ==
  [branch : Branches, commit : {upstream[b] : b \in Branches}, manual : {FALSE}]
    \cup [branch : Branches \cup {NoBranch}, commit : {0}, manual : {TRUE}]

\* Mutant: the goroutine does not wait for a semaphore slot.
MutLaunch(r) ==
  /\ Goto(r, "idle", "wire")
  /\ want' = [want EXCEPT ![r] = [branch |-> NoBranch, commit |-> 0, manual |-> TRUE]]
  /\ UNCHANGED <<shared, loop, result, jobRow, misfiled, worktree, repo>>

\* The daemon's semaphore admits the goroutine.
Launch(r) ==
  /\ Cardinality({x \in Runs : Live(x)}) < MaxConcurrency
  /\ Goto(r, "idle", "wire")
  /\ \E req \in Requests :
       /\ ~req.manual => req.commit = upstream[req.branch]
       /\ req.branch = NoBranch \/ needs \in RepoGraphs
       /\ want' = [want EXCEPT ![r] = req]
  /\ UNCHANGED <<shared, loop, result, jobRow, misfiled, worktree, repo>>

\* Mutant: CurrentRunID is set only while it is empty.
MutWire(r) ==
  /\ Goto(r, "wire", "connect")
  /\ currentRun' = IF currentRun = NoRun THEN r ELSE currentRun
  /\ callbackRun' = r
  /\ UNCHANGED <<needs, crash, loop, result, jobRow, misfiled, want, worktree, repo>>

\* runJob sets pr.CurrentRunID and pr.JobCallback.
Wire(r) ==
  /\ Goto(r, "wire", "connect")
  /\ currentRun' = r
  /\ callbackRun' = r
  /\ UNCHANGED <<needs, crash, loop, result, jobRow, misfiled, want, worktree, repo>>

\* The socket answers; without a repository a temporary directory is all it
\* needs, else os.Stat decides between clone and fetch.
Connect(r) ==
  /\ pc[r] = "connect"
  /\ IF want[r].branch = NoBranch
     THEN /\ pc' = [pc EXCEPT ![r] = "order"]
          /\ worktree' = [worktree EXCEPT ![r] = "temp"]
     ELSE /\ pc' = [pc EXCEPT ![r] = IF BareExists THEN "fetch" ELSE "clone"]
          /\ UNCHANGED worktree
  /\ UNCHANGED <<shared, loop, result, jobRow, misfiled, want, repo>>

\* git clone --bare starts, and refuses a directory that has appeared meanwhile.
BeginClone(r) ==
  /\ Goto(r, "clone", "cloning")
  /\ CloneBegins
  /\ UNCHANGED <<shared, loop, result, jobRow, misfiled, want, worktree, upstream, cutClone>>

EndClone(r) ==
  /\ Goto(r, "cloning", "resolve")
  /\ CloneEnds
  /\ UNCHANGED <<shared, loop, result, jobRow, misfiled, want, worktree, upstream, cutClone>>

CloneError(r) ==
  /\ pc[r] = "cloning"
  /\ CloneFails
  /\ Returns(r, "error")
  /\ UNCHANGED <<shared, loop, jobRow, misfiled, want, upstream, cutClone>>

\* The run's context ends during the clone: exec.CommandContext kills git.
CloneKilled(r) ==
  /\ pc[r] = "cloning"
  /\ cutClone' = TRUE
  /\ Returns(r, "error")
  /\ UNCHANGED <<shared, loop, jobRow, misfiled, want, upstream, cache>>

Fetch(r) ==
  /\ Goto(r, "fetch", "resolve")
  /\ Fetches
  /\ UNCHANGED <<shared, loop, result, jobRow, misfiled, want, worktree, upstream, cutClone>>

\* A triggered run resolves its branch and records the commit with
\* UpdateRunSHA(ctx, r.CurrentRunID, sha).
Resolve(r) ==
  /\ Goto(r, "resolve", "worktree")
  /\ want[r].manual => Resolves(want[r].branch)
  /\ want' = IF want[r].manual THEN [want EXCEPT ![r].commit = refs[want[r].branch]]
             ELSE want
  /\ File(r, IF want[r].manual THEN {currentRun} ELSE {})
  /\ UNCHANGED <<shared, loop, result, jobRow, worktree, repo>>

\* git worktree add --detach
AddWorktree(r) ==
  /\ Goto(r, "worktree", "order")
  /\ HasCommit(want[r].branch, want[r].commit)
  /\ worktree' = [worktree EXCEPT ![r] = "checkout"]
  /\ UNCHANGED <<shared, loop, result, jobRow, misfiled, want, repo>>

\* Run returns an error before its first job: no socket, a failed git command
\* (addWorktree then removes its directory), unreadable workflow, unresolved secret.
SetupFails(r) ==
  /\ pc[r] \in {"connect", "clone", "fetch", "resolve", "worktree", "order"}
  /\ Returns(r, "error")
  /\ UNCHANGED <<shared, loop, jobRow, misfiled, want, repo>>

\* info.RunID = r.CurrentRunID names the artifacts; BuildExecutionOrder.
Order(r) ==
  /\ pc[r] = "order"
  /\ File(r, {currentRun})
  /\ IF OrderFails(needs) THEN Returns(r, "error")
     ELSE Goto(r, "order", "pick") /\ UNCHANGED <<result, worktree>>
  /\ UNCHANGED <<shared, loop, jobRow, want, repo>>

\* The next wave.
NextLevel(r) ==
  /\ pc[r] = "pick" /\ left[r] = {}
  /\ level[r] < Len(Waves(needs))
  /\ level' = [level EXCEPT ![r] = @ + 1]
  /\ left' = [left EXCEPT ![r] = Waves(needs)[level[r] + 1]]
  /\ UNCHANGED <<shared, pc, job, failedJobs, settled, result, jobRow, misfiled, want,
                 worktree, repo>>

Take(r, id) ==
  /\ pc[r] = "pick" /\ id \in left[r]
  /\ left' = [left EXCEPT ![r] = @ \ {id}]

\* Mutant: only a failure of every dependency skips the job.
MutDepFailed(r, id) == needs[id] # {} /\ needs[id] \subseteq failedJobs[r]

\* "Skip this job if any required dependency failed."
DepFailed(r, id) == needs[id] \cap failedJobs[r] # {}

SkipJob(r, id) ==
  /\ Take(r, id)
  /\ DepFailed(r, id)
  /\ Callback(r, id, "skipped")
  /\ settled' = [settled EXCEPT ![r] = @ \cup {id}]
  /\ UNCHANGED <<shared, pc, level, job, failedJobs, result, want, worktree, repo>>

StartJob(r, id) ==
  /\ Take(r, id)
  /\ ~DepFailed(r, id)
  /\ Callback(r, id, "running")
  /\ pc' = [pc EXCEPT ![r] = "run"]
  /\ job' = [job EXCEPT ![r] = id]
  /\ UNCHANGED <<shared, level, failedJobs, settled, result, want, worktree, repo>>

\* Mutant: a failed job is not remembered.
MutJobEnds(r, status) ==
  /\ Goto(r, "run", "pick")
  /\ Callback(r, job[r], status)
  /\ settled' = [settled EXCEPT ![r] = @ \cup {job[r]}]
  /\ job' = [job EXCEPT ![r] = NoJob]
  /\ UNCHANGED <<shared, level, left, failedJobs, result, want, worktree, repo>>

\* RunJob returns a result; a failed job turns the exit code to 1.
JobEnds(r, status) ==
  /\ Goto(r, "run", "pick")
  /\ Callback(r, job[r], status)
  /\ failedJobs' = IF status = "failure" THEN [failedJobs EXCEPT ![r] = @ \cup {job[r]}]
                   ELSE failedJobs
  /\ settled' = [settled EXCEPT ![r] = @ \cup {job[r]}]
  /\ job' = [job EXCEPT ![r] = NoJob]
  /\ UNCHANGED <<shared, level, left, result, want, worktree, repo>>

\* Mutant: the error path returns without calling back.
MutJobErrors(r) ==
  /\ pc[r] = "run"
  /\ Returns(r, "error")
  /\ job' = [job EXCEPT ![r] = NoJob]
  /\ UNCHANGED <<shared, level, left, failedJobs, settled, jobRow, misfiled, want, repo>>

\* Mutant: the worktree is removed at the end of Run and not by a defer.
MutJobErrorsKeepsTree(r) ==
  /\ Goto(r, "run", "returned")
  /\ Callback(r, job[r], "failure")
  /\ result' = [result EXCEPT ![r] = "error"]
  /\ job' = [job EXCEPT ![r] = NoJob]
  /\ UNCHANGED <<shared, level, left, failedJobs, settled, want, worktree, repo>>

\* RunJob returns an error: the job is a failure and Run gives up.
JobErrors(r) ==
  /\ pc[r] = "run"
  /\ Callback(r, job[r], "failure")
  /\ Returns(r, "error")
  /\ job' = [job EXCEPT ![r] = NoJob]
  /\ UNCHANGED <<shared, level, left, failedJobs, settled, want, repo>>

\* All waves are done: exitCode is 1 iff some job failed.
Return(r) ==
  /\ pc[r] = "pick" /\ left[r] = {} /\ level[r] = Len(Waves(needs))
  /\ Returns(r, IF failedJobs[r] = {} THEN "success" ELSE "failure")
  /\ UNCHANGED <<shared, loop, jobRow, misfiled, want, repo>>

\* runJob has recorded the result and gives its slot back.
Leave(r) ==
  /\ Goto(r, "returned", "gone")
  /\ UNCHANGED <<shared, loop, result, jobRow, misfiled, want, worktree, repo>>

\* The process dies and a new one starts.  The table, the clone as far as it
\* got and the worktrees stay.
Crash ==
  /\ crashes < MaxCrashes
  /\ \E r \in Runs : Live(r)
  /\ crashes' = crashes + 1
  /\ crashed' = crashed \cup {r \in Runs : Live(r)}
  /\ cutClone' = (cutClone \/ \E r \in Runs : pc[r] = "cloning")
  /\ pc' = [r \in Runs |-> IF Live(r) THEN "gone" ELSE pc[r]]
  /\ job' = [r \in Runs |-> NoJob]
  /\ currentRun' = NoRun /\ callbackRun' = NoRun
  /\ UNCHANGED <<needs, level, left, failedJobs, settled, result, jobRow, misfiled, want,
                 worktree, upstream, cache>>

\* Bound: nobody pushes during the job loop, which does not look at the repository.
PushToGitHub(b) ==
  /\ needs \in RepoGraphs
  /\ \A r \in Runs : pc[r] \notin {"order", "pick", "run", "returned"}
  /\ Push(b)
  /\ UNCHANGED <<shared, pc, loop, result, jobRow, misfiled, want, worktree, cutClone>>

Next ==
  \/ \E r \in Runs :
       \/ Launch(r) \/ Wire(r) \/ Connect(r) \/ SetupFails(r)
       \/ BeginClone(r) \/ EndClone(r) \/ CloneError(r) \/ CloneKilled(r)
       \/ Fetch(r) \/ Resolve(r) \/ AddWorktree(r)
       \/ Order(r) \/ NextLevel(r) \/ Return(r) \/ JobErrors(r) \/ Leave(r)
       \/ \E id \in JobIDs : SkipJob(r, id) \/ StartJob(r, id)
       \/ \E status \in {"success", "failure"} : JobEnds(r, status)
  \/ \E b \in Branches : PushToGitHub(b)
  \/ Crash

Spec == Init /\ [][Next]_vars

-------------------------------------------------------------------------------
(***************************************************************************)
(* Types, and the semaphore's bound on concurrent calls of Run.            *)
(***************************************************************************)
JobStatuses == {"none", "running", "success", "failure", "skipped"}

TypeOK ==
  /\ needs \in Graphs
  /\ pc \in [Runs -> PCs]
  /\ Cardinality({r \in Runs : Live(r)}) <= MaxConcurrency
  /\ currentRun \in Runs \cup {NoRun}
  /\ callbackRun \in Runs \cup {NoRun}
  /\ level \in [Runs -> Nat]
  /\ left \in [Runs -> SUBSET JobIDs]
  /\ job \in [Runs -> JobIDs \cup {NoJob}]
  /\ failedJobs \in [Runs -> SUBSET JobIDs]
  /\ settled \in [Runs -> SUBSET JobIDs]
  /\ result \in [Runs -> {"none", "success", "failure", "error"}]
  /\ jobRow \in [Runs -> [JobIDs -> JobStatuses]]
  /\ misfiled \subseteq Runs \X Runs
  /\ want \in [Runs -> [branch : Branches \cup {NoBranch}, commit : 0..MaxPushes,
                         manual : BOOLEAN]]
  /\ worktree \in [Runs -> {"none", "temp", "checkout"}]
  /\ cutClone \in BOOLEAN /\ crashes \in 0..MaxCrashes /\ crashed \subseteq Runs
  /\ CacheTypeOK

(***************************************************************************)
(* BuildExecutionOrder against a definition of its task: it fails exactly  *)
(* when a need is unknown or some jobs need each other in a circle, and    *)
(* otherwise puts every job one wave after the last of its needs, that is, *)
(* as early as the needs allow (workflow.go:162-164).                      *)
(***************************************************************************)
Circular(g) == \E S \in SUBSET DOMAIN g : S # {} /\ \A id \in S : g[id] \cap S # {}

WaveOf(g, id) == CHOOSE n \in DOMAIN Waves(g) : id \in Waves(g)[n]

OrderIsEarliest ==
  (\A r \in Runs : pc[r] = "idle") =>
    /\ OrderFails(needs) <=> NeedsUnknown(needs) \/ Circular(needs)
    /\ ~OrderFails(needs) =>
         \A id \in JobIDs :
           /\ \A k, n \in DOMAIN Waves(needs) :
                id \in Waves(needs)[k] \cap Waves(needs)[n] => k = n
           /\ \A d \in needs[id] : WaveOf(needs, d) < WaveOf(needs, id)
           /\ WaveOf(needs, id) > 1 =>
                \E d \in needs[id] : WaveOf(needs, d) = WaveOf(needs, id) - 1

(***************************************************************************)
(* A job runs only when each of its needs has been settled in the same run *)
(* and none of them failed (runner.go:282-297).  A skipped need does not   *)
(* hold a job back: only failed jobs enter failedJobs.                     *)
(***************************************************************************)
JobRunsAfterNeeds ==
  \A r \in Runs : pc[r] = "run" =>
    /\ needs[job[r]] \subseteq settled[r]
    /\ needs[job[r]] \cap failedJobs[r] = {}

(***************************************************************************)
(* What Run returns agrees with the run_jobs rows (one run at a time): all *)
(* jobs succeeded, or some failed and every skipped job needed a failed    *)
(* one; in both cases every job has a final row (runner.go:274-320).       *)
(***************************************************************************)
HasRow(r, status) == {id \in JobIDs : jobRow[r][id] = status}

ResultMatchesJobs ==
  \A r \in Runs :
    /\ result[r] = "success" => HasRow(r, "success") = JobIDs
    /\ result[r] = "failure" =>
         /\ HasRow(r, "failure") # {}
         /\ HasRow(r, "success") \cup HasRow(r, "failure") \cup HasRow(r, "skipped") = JobIDs
         /\ \A id \in HasRow(r, "skipped") : needs[id] \cap HasRow(r, "failure") # {}

(***************************************************************************)
(* Whenever Run has returned, with an error too, no job row of the run is  *)
(* left "running" (runner.go:304-312; one run at a time).  A crash leaves  *)
(* one at most, that of the job it cut off; recovery repairs the runs      *)
(* table only (daemon.go:139-153), so nothing settles that row later.      *)
(***************************************************************************)
RunEndSettlesJobs ==
  \A r \in Runs : ~Live(r) =>
    Cardinality(HasRow(r, "running")) <= IF r \in crashed THEN 1 ELSE 0

(***************************************************************************)
(* Whatever way Run takes out, with an error too, the workspace of the run *)
(* is gone; only a crash leaves it (runner.go:147-184, clone.go:46-60).    *)
(***************************************************************************)
WorktreesRemoved ==
  \A r \in Runs : worktree[r] # "none" => Live(r) \/ r \in crashed

(***************************************************************************)
(* After a clone or a fetch that succeeded, the commit of a push to the    *)
(* default branch is in the clone, so the checkout cannot miss it, however *)
(* old the clone is; unless an earlier clone was cut off, after which the  *)
(* directory passes for a clone for good (clone.go:16-25).                 *)
(***************************************************************************)
CommitIsFetched ==
  \A r \in Runs :
    pc[r] = "worktree" /\ want[r].branch = Default /\ ~cutClone
      => HasCommit(Default, want[r].commit)

(***************************************************************************)
(* runner.go:167: "Resolve "manual" to the actual branch HEAD SHA".  With  *)
(* one run at a time, a triggered run is about to check out the newest     *)
(* commit of its branch that its own clone or fetch has just brought.      *)
(***************************************************************************)
TriggeredRunIsCurrent ==
  \A r \in Runs :
    pc[r] = "worktree" /\ want[r].manual => want[r].commit = objects[want[r].branch]

(***************************************************************************)
(* runner.go:119, PodmanRunner.CurrentRunID: "DB run ID; set by daemon     *)
(* before each Run() call".  Whatever a run does - the SHA it resolves,    *)
(* its artifacts, its job rows - is filed under its own ID.                *)
(***************************************************************************)
RecordedUnderOwnID == misfiled = {}
===============================================================================
