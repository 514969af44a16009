----------------------------- MODULE DaemonProofs -----------------------------
(***************************************************************************)
(* Theorems about Daemon, for every set of jobs and runs, every assignment *)
(* of runs to jobs and every bound.                                        *)
(***************************************************************************)
EXTENDS Daemon, QueueOpsProofs, FiniteSetTheorems

(***************************************************************************)
(* The pipeline holds a job in one place at a time, and a run that is      *)
(* still to be launched has no goroutine: a job not yet offered, in the    *)
(* channel or in the queue has only idle runs, none of them is among the   *)
(* refs being launched, and those are idle too.                            *)
(***************************************************************************)
Waiting == (Jobs \ offered) \cup Elems(jobsChan) \cup Elems(queue)

\* The inductive invariant of the pipeline.
PipelineInv ==
  /\ Distinct(jobsChan) /\ Distinct(queue) /\ Distinct(toLaunch)
  /\ Elems(jobsChan) \cap Elems(queue) = {}
  /\ Elems(jobsChan) \cup Elems(queue) \subseteq offered
  /\ \A j \in Waiting : \A r \in Elems(Refs[j]) : pc[r] = "idle" /\ r \notin Elems(toLaunch)
  /\ \A r \in Elems(toLaunch) : pc[r] = "idle"

\* The runs that hold a slot of the semaphore.
LiveRuns == {r \in Runs : Live(r)}

-------------------------------------------------------------------------------
\* An empty sequence (a fresh channel, queue or list of refs) holds nothing.
LEMMA NoneQueued ==
  ASSUME NEW S
  PROVE  /\ <<>> \in Seq(S) /\ Len(<<>>) = 0
         /\ Elems(<<>>) = {} /\ Distinct(<<>>)
<1>1. <<>> \in Seq(S) /\ Len(<<>>) = 0
  OBVIOUS
<1>2. DOMAIN <<>> = {}
  OBVIOUS
<1>3. Elems(<<>>) = {} /\ Distinct(<<>>)
  BY <1>2 DEF Elems, Distinct
<1> QED  BY <1>1, <1>3

\* A live goroutine accounts for a token, so there is one to give back.
LEMMA LiveHasToken ==
  ASSUME TypeOK, SlotsAccounted, NEW r \in Runs, Live(r)
  PROVE  sem >= 1
<1>1. IsFiniteSet(LiveRuns) /\ r \in LiveRuns
  BY DaemonAssumption, FS_Subset DEF LiveRuns
<1>2. Cardinality(LiveRuns) \in Nat /\ Cardinality(LiveRuns) # 0
  BY <1>1, FS_CardinalityType, FS_EmptySet
<1>3. sem = Cardinality(LiveRuns)
  BY DEF SlotsAccounted, LiveRuns
<1> QED  BY <1>2, <1>3

\* A machine on which the daemon never ran satisfies the type invariant.
LEMMA TypeInit == Init => TypeOK
<1> SUFFICES ASSUME Init PROVE TypeOK
  OBVIOUS
<1>1. /\ created \in Seq(Runs) /\ toLaunch \in Seq(Runs)
      /\ jobsChan \in Seq(Jobs) /\ Len(jobsChan) = 0
      /\ queue \in Seq(Jobs) /\ Len(queue) = 0
  BY NoneQueued DEF Init
<1>2. 0 \in 0..MaxBoots /\ 0 \in 0..MaxConcurrency /\ 0 <= ChanCap /\ 0 <= QueueCap
  BY DaemonAssumption
<1> QED  BY <1>1, <1>2 DEF Init, TypeOK, PCs, Unfinished, Results

\* Every step keeps the types and the bounds of the channel, the queue and the
\* semaphore; the count of tokens is needed for the release (daemon.go:293).
LEMMA TypeNext ==
  ASSUME TypeOK, SlotsAccounted, [Next]_vars
  PROVE  TypeOK'
<1> USE DEF TypeOK, Unfinished, Results, PCs, vars, dbVars, sysVars, pipeVars, runVars
<1>1. CASE Boot
  <2>1. ListRuns \subseteq Runs
    BY DEF ListRuns
  <2> QED  BY <1>1, <2>1, DaemonAssumption DEF Boot
<1>2. CASE StartLoops \/ Shutdown \/ ForwardStop \/ DequeueWaits \/ DequeueCancelled
  BY <1>2 DEF StartLoops, Shutdown, ForwardStop, DequeueWaits, DequeueCancelled
<1>3. CASE Crash \/ Drained
  <2>1. ProcessGone /\ mode' \in {"down", "exited"}
    BY <1>3 DEF Crash, Drained
  <2>2. /\ toLaunch' \in Seq(Runs)
        /\ jobsChan' \in Seq(Jobs) /\ Len(jobsChan') = 0
        /\ queue' \in Seq(Jobs) /\ Len(queue') = 0
    BY <2>1, NoneQueued DEF ProcessGone
  <2>3. 0 \in 0..MaxConcurrency /\ 0 <= ChanCap /\ 0 <= QueueCap
    BY DaemonAssumption
  <2>4. pc' \in [Runs -> PCs]
    BY <2>1 DEF ProcessGone
  <2> QED  BY <2>1, <2>2, <2>3, <2>4 DEF ProcessGone
<1>4. ASSUME NEW j \in Jobs, Offer(j)  PROVE TypeOK'
  <2>1. jobsChan' \in Seq(Jobs) /\ Len(jobsChan') <= ChanCap
    BY <1>4, AppendElems, DaemonAssumption DEF Offer
  <2> QED  BY <1>4, <2>1 DEF Offer
<1>5. CASE Forward
  <2>1. /\ Head(jobsChan) \in Jobs
        /\ jobsChan' \in Seq(Jobs) /\ Len(jobsChan') <= ChanCap
    BY <1>5, TailElems, DaemonAssumption DEF Forward
  <2>2. queue' \in Seq(Jobs) /\ Len(queue') <= QueueCap
    BY <1>5, <2>1, EnqueuedFacts, DaemonAssumption DEF Forward
  <2>3. Elems(queue) \subseteq Jobs
    BY DEF Elems
  <2> QED  BY <1>5, <2>1, <2>2, <2>3 DEF Forward
<1>6. CASE Dequeue
  <2>1. /\ Head(queue) \in Jobs
        /\ queue' \in Seq(Jobs) /\ Len(queue') <= QueueCap
    BY <1>6, TailElems, DaemonAssumption DEF Dequeue
  <2> QED  BY <1>6, <2>1, DaemonAssumption DEF Dequeue
<1>7. CASE Launch
  <2>1. toLaunch' \in Seq(Runs)
    BY <1>7, TailElems DEF Launch
  <2> QED  BY <1>7, <2>1, DaemonAssumption DEF Launch
<1>8. ASSUME NEW r \in Runs, RecoverStaleRun(r)  PROVE TypeOK'
  BY <1>8 DEF RecoverStaleRun, UpdateRunStatus
<1>9. ASSUME NEW r \in Runs, CreateRun(r)  PROVE TypeOK'
  <2>1. created' \in Seq(Runs)
    BY <1>9, Append(created, r) \in Seq(Runs) DEF CreateRun
  <2> QED  BY <1>9, <2>1 DEF CreateRun, Failed, Step
<1>10. ASSUME NEW r \in Runs, Register(r) \/ ReportQueued(r) \/ ReportRunning(r)  PROVE TypeOK'
  BY <1>10 DEF Register, ReportQueued, ReportRunning, Report, Step
<1>11. ASSUME NEW r \in Runs, MarkRunning(r)  PROVE TypeOK'
  BY <1>11 DEF MarkRunning, UpdateWithRunCtx, UpdateRunStatus, Step
<1>12. ASSUME NEW r \in Runs, NEW res \in Results, Execute(r, res)  PROVE TypeOK'
  BY <1>12 DEF Execute, Step
<1>13. ASSUME NEW r \in Runs, Finish(r)  PROVE TypeOK'
  BY <1>13 DEF Finish, Failed, UpdateWithRunCtx, UpdateRunStatus, Step
<1>14. ASSUME NEW r \in Runs, ReportFinal(r) \/ Unregister(r)  PROVE TypeOK'
  <2>1. CASE ReportFinal(r)
    BY <2>1 DEF ReportFinal, Report, Step
  <2>2. CASE Unregister(r)
    BY <2>2 DEF Unregister, Step
  <2> QED  BY <1>14, <2>1, <2>2
<1>15. ASSUME NEW r \in Runs, Release(r)  PROVE TypeOK'
  <2>1. sem >= 1
    BY <1>15, LiveHasToken DEF Release, Step, Live
  <2> QED  BY <1>15, <2>1, DaemonAssumption DEF Release, Step
<1>16. ASSUME NEW r \in Runs, Timeout(r)  PROVE TypeOK'
  BY <1>16 DEF Timeout
<1>17. ASSUME NEW r \in Runs, CancelRun(r)  PROVE TypeOK'
  BY <1>17 DEF CancelRun, CancelLoad, CancelFire, CancelWrite, CancelStep, UpdateRunStatus
<1>18. CASE UNCHANGED vars
  BY <1>18
<1> QED
  BY <1>1, <1>2, <1>3, <1>4, <1>5, <1>6, <1>7, <1>8, <1>9, <1>10, <1>11, <1>12,
     <1>13, <1>14, <1>15, <1>16, <1>17, <1>18 DEF Next, DispatchStep, RunStep

-------------------------------------------------------------------------------
\* Everything in the pipeline is a job or a run of a job.
LEMMA PipelineTypes ==
  ASSUME TypeOK
  PROVE  /\ Waiting \subseteq Jobs
         /\ \A j \in Jobs : \A r \in Elems(Refs[j]) : r \in Runs
         /\ \A r \in Elems(toLaunch) : r \in Runs
<1>1. Waiting \subseteq Jobs
  BY DEF TypeOK, Elems, Waiting
<1>2. \A j \in Jobs : \A r \in Elems(Refs[j]) : r \in Runs
  BY DaemonAssumption DEF Elems
<1>3. \A r \in Elems(toLaunch) : r \in Runs
  BY DEF TypeOK, Elems
<1> QED  BY <1>1, <1>2, <1>3

(***************************************************************************)
(* Nothing but idle runs can be launched, so a step that leaves the        *)
(* waiting jobs alone and disturbs no idle run keeps PipelineInv.          *)
(***************************************************************************)
LEMMA PipelineKept ==
  ASSUME TypeOK, PipelineInv, UNCHANGED <<jobsChan, queue, toLaunch, offered>>,
         \A r \in Runs : pc[r] = "idle" => pc'[r] = "idle"
  PROVE  PipelineInv'
<1>1. Waiting' = Waiting /\ Elems(toLaunch)' = Elems(toLaunch)
  BY DEF Waiting
<1> QED  BY <1>1, PipelineTypes DEF PipelineInv

\* A step that starts and ends no goroutine keeps the count of tokens.
LEMMA SlotsKept ==
  ASSUME SlotsAccounted, sem' = sem, \A r \in Runs : Live(r)' <=> Live(r)
  PROVE  SlotsAccounted'
<1>1. LiveRuns' = LiveRuns
  BY DEF LiveRuns
<1> QED  BY <1>1 DEF SlotsAccounted, LiveRuns

\* Before the first start there is no goroutine, no token and nothing in the pipeline.
LEMMA CoreInit == Init => SlotsAccounted /\ PipelineInv
<1> SUFFICES ASSUME Init PROVE SlotsAccounted /\ PipelineInv
  OBVIOUS
<1>1. {r \in Runs : Live(r)} = {}
  BY DEF Init, Live
<1>2. SlotsAccounted
  BY <1>1, FS_EmptySet DEF SlotsAccounted, Init
<1>3. /\ Elems(jobsChan) = {} /\ Elems(queue) = {} /\ Elems(toLaunch) = {}
      /\ Distinct(jobsChan) /\ Distinct(queue) /\ Distinct(toLaunch)
  BY NoneQueued DEF Init
<1>4. \A j \in Jobs : \A r \in Elems(Refs[j]) : r \in Runs
  BY DaemonAssumption DEF Elems
<1>5. PipelineInv
  BY <1>3, <1>4 DEF PipelineInv, Waiting, Init
<1> QED  BY <1>2, <1>5

\* A goroutine's step between two places inside runJob.
LEMMA InnerStep ==
  ASSUME TypeOK, SlotsAccounted, PipelineInv, NEW r \in Runs,
         NEW from \in PCs \ {"idle", "gone"}, NEW to \in PCs \ {"idle", "gone"},
         Step(r, from, to), UNCHANGED <<sem, pipeVars>>
  PROVE  SlotsAccounted' /\ PipelineInv'
<1>1. \A s \in Runs : pc'[s] = IF s = r THEN to ELSE pc[s]
  BY DEF Step, TypeOK
<1>2. pc[r] = from
  BY DEF Step
<1>3. \A s \in Runs : Live(s)' <=> Live(s)
  BY <1>1, <1>2 DEF Live
<1>4. \A s \in Runs : pc[s] = "idle" => pc'[s] = "idle"
  BY <1>1, <1>2
<1>5. UNCHANGED <<jobsChan, queue, toLaunch, offered>> /\ sem' = sem
  BY DEF pipeVars
<1> QED  BY <1>3, <1>4, <1>5, PipelineKept, SlotsKept

\* Every step of the daemon keeps the count of tokens and the exclusiveness of
\* the pipeline: a run is queued, about to be launched, or launched (daemon.go:259-269).
LEMMA CoreNext ==
  ASSUME TypeOK, SlotsAccounted, PipelineInv, [Next]_vars
  PROVE  SlotsAccounted' /\ PipelineInv'
<1>1. CASE UNCHANGED <<pc, sem, jobsChan, queue, toLaunch, offered>>
  <2>1. \A r \in Runs : (Live(r)' <=> Live(r)) /\ (pc[r] = "idle" => pc'[r] = "idle")
    BY <1>1 DEF Live
  <2> QED  BY <1>1, <2>1, SlotsKept, PipelineKept
<1>2. CASE ProcessGone
  <2>1. \A r \in Runs : pc'[r] \in {"idle", "gone"} /\ (pc[r] = "idle" => pc'[r] = "idle")
    BY <1>2 DEF ProcessGone
  <2>2. LiveRuns' = {} /\ sem' = 0
    BY <1>2, <2>1 DEF LiveRuns, Live, ProcessGone
  <2>3. SlotsAccounted'
    BY <2>2, FS_EmptySet DEF SlotsAccounted, LiveRuns
  <2>4. /\ Elems(jobsChan') = {} /\ Elems(queue') = {} /\ Elems(toLaunch') = {}
        /\ Distinct(jobsChan') /\ Distinct(queue') /\ Distinct(toLaunch')
    BY <1>2, NoneQueued DEF ProcessGone
  <2>5. Waiting' \subseteq Waiting
    BY <1>2, <2>4 DEF Waiting, ProcessGone
  <2>6. PipelineInv'
    BY <1>2, <2>1, <2>4, <2>5, PipelineTypes DEF PipelineInv
  <2> QED  BY <2>3, <2>6
<1>3. ASSUME NEW j \in Jobs, Offer(j)
      PROVE  SlotsAccounted' /\ PipelineInv'
  <2>1. UNCHANGED <<pc, sem, queue, toLaunch>> /\ offered' = offered \cup {j} /\ j \notin offered
    BY <1>3 DEF Offer, pipeVars, runVars
  <2>2. SlotsAccounted'
    BY <2>1, SlotsKept DEF Live
  <2>3. j \notin Elems(jobsChan) /\ j \notin Elems(queue)
    BY <2>1 DEF PipelineInv
  <2>4. Elems(jobsChan') \subseteq Elems(jobsChan) \cup {j} /\ Distinct(jobsChan')
    BY <1>3, <2>3, AppendElems DEF Offer, PipelineInv, TypeOK
  <2>5. Waiting' \subseteq Waiting
    BY <2>1, <2>4 DEF Waiting
  <2>6. PipelineInv'
    BY <2>1, <2>3, <2>4, <2>5 DEF PipelineInv
  <2> QED  BY <2>2, <2>6
<1>4. CASE Forward
  <2> DEFINE h == Head(jobsChan)
  <2>1. UNCHANGED <<pc, sem, toLaunch, offered>>
    BY <1>4 DEF Forward, pipeVars, runVars
  <2>2. SlotsAccounted'
    BY <2>1, SlotsKept DEF Live
  <2>3. /\ h \in Jobs /\ h \in Elems(jobsChan) /\ h \notin Elems(jobsChan')
        /\ Elems(jobsChan') \subseteq Elems(jobsChan) /\ Distinct(jobsChan')
    BY <1>4, TailElems DEF Forward, TypeOK, PipelineInv
  <2>4. h \notin Elems(queue)
    BY <2>3 DEF PipelineInv
  <2>5. Elems(queue') \subseteq Elems(queue) \cup {h} /\ Distinct(queue')
    BY <1>4, <2>3, <2>4, EnqueuedFacts, DaemonAssumption DEF Forward, TypeOK, PipelineInv
  <2>6. Waiting' \subseteq Waiting
    BY <2>1, <2>3, <2>5 DEF Waiting
  <2>7. PipelineInv'
    <3> HIDE DEF h
    <3> QED  BY <2>1, <2>3, <2>4, <2>5, <2>6 DEF PipelineInv
  <2> QED  BY <2>2, <2>7
<1>5. CASE Dequeue
  <2> DEFINE h == Head(queue)
  <2>1. UNCHANGED <<pc, sem, jobsChan, offered>> /\ toLaunch' = Refs[h]
    BY <1>5 DEF Dequeue, pipeVars, runVars
  <2>2. SlotsAccounted'
    BY <2>1, SlotsKept DEF Live
  <2>3. /\ h \in Jobs /\ h \in Elems(queue) /\ h \notin Elems(queue')
        /\ Elems(queue') \subseteq Elems(queue) /\ Distinct(queue')
    BY <1>5, TailElems DEF Dequeue, TypeOK, PipelineInv
  <2>4. h \in Waiting /\ Waiting' \subseteq Waiting /\ Waiting \subseteq Jobs
    BY <2>1, <2>3, PipelineTypes DEF Waiting
  <2>5. h \notin Waiting'
    BY <2>1, <2>3 DEF Waiting, PipelineInv
  <2> HIDE DEF h
  <2>6. \A k \in Waiting' : Elems(Refs[k]) \cap Elems(Refs[h]) = {}
    BY <2>3, <2>4, <2>5, DaemonAssumption
  <2>7. Distinct(Refs[h])
    BY <2>3, DaemonAssumption
  <2>8. PipelineInv'
    BY <2>1, <2>3, <2>4, <2>6, <2>7 DEF PipelineInv
  <2> QED  BY <2>2, <2>8
<1>6. CASE Launch
  <2> DEFINE h == Head(toLaunch)
  <2>1. UNCHANGED <<queue, jobsChan, offered>> /\ pc' = [pc EXCEPT ![h] = "start"] /\ sem' = sem + 1
    BY <1>6 DEF Launch
  <2>2. /\ h \in Runs /\ h \in Elems(toLaunch) /\ h \notin Elems(toLaunch')
        /\ Elems(toLaunch') \subseteq Elems(toLaunch) /\ Distinct(toLaunch')
    BY <1>6, TailElems DEF Launch, TypeOK, PipelineInv
  <2> HIDE DEF h
  <2>3. pc[h] = "idle"
    BY <2>2 DEF PipelineInv
  <2>4. LiveRuns' = LiveRuns \cup {h} /\ h \notin LiveRuns /\ IsFiniteSet(LiveRuns)
    <3>1. \A s \in Runs : pc'[s] = IF s = h THEN "start" ELSE pc[s]
      BY <2>1 DEF TypeOK
    <3>2. IsFiniteSet(LiveRuns)
      BY DaemonAssumption, FS_Subset DEF LiveRuns
    <3> QED  BY <2>2, <2>3, <3>1, <3>2 DEF LiveRuns, Live
  <2>5. SlotsAccounted'
    BY <2>1, <2>4, FS_AddElement DEF SlotsAccounted, LiveRuns
  <2>6. Waiting' = Waiting
    BY <2>1 DEF Waiting
  <2>7. \A j \in Waiting : \A r \in Elems(Refs[j]) : r # h /\ r \in Runs
    BY <2>2, PipelineTypes DEF PipelineInv
  <2>8. \A r \in Elems(toLaunch) : r \in Runs
    BY PipelineTypes
  <2>9. PipelineInv'
    BY <2>1, <2>2, <2>6, <2>7, <2>8 DEF PipelineInv, TypeOK
  <2> QED  BY <2>5, <2>9
<1>7. ASSUME NEW r \in Runs, Release(r)
      PROVE  SlotsAccounted' /\ PipelineInv'
  <2>1. \A s \in Runs : pc'[s] = IF s = r THEN "gone" ELSE pc[s]
    BY <1>7 DEF Release, Step, TypeOK
  <2>2. pc[r] = "release" /\ sem' = sem - 1 /\ UNCHANGED pipeVars
    BY <1>7 DEF Release, Step
  <2>3. LiveRuns' = LiveRuns \ {r} /\ r \in LiveRuns /\ IsFiniteSet(LiveRuns)
    <3>1. IsFiniteSet(LiveRuns)
      BY DaemonAssumption, FS_Subset DEF LiveRuns
    <3> QED  BY <2>1, <2>2, <3>1 DEF LiveRuns, Live
  <2>4. SlotsAccounted'
    BY <2>2, <2>3, FS_RemoveElement DEF SlotsAccounted, LiveRuns
  <2>5. PipelineInv'
    BY <2>1, <2>2, PipelineKept DEF pipeVars
  <2> QED  BY <2>4, <2>5
<1>8. ASSUME NEW r \in Runs, RunStep(r)
      PROVE  SlotsAccounted' /\ PipelineInv'
  <2>1. CASE Register(r)
    BY <2>1, InnerStep DEF Register, PCs
  <2>2. CASE CreateRun(r)
    BY <2>2, InnerStep DEF CreateRun, PCs
  <2>3. CASE ReportQueued(r)
    BY <2>3, InnerStep DEF ReportQueued, PCs
  <2>4. CASE MarkRunning(r)
    BY <2>4, InnerStep DEF MarkRunning, PCs
  <2>5. CASE ReportRunning(r)
    BY <2>5, InnerStep DEF ReportRunning, PCs
  <2>6. ASSUME NEW res \in Results, Execute(r, res)
        PROVE  SlotsAccounted' /\ PipelineInv'
    BY <2>6, InnerStep DEF Execute, PCs
  <2>7. CASE Finish(r)
    BY <2>7, InnerStep DEF Finish, PCs
  <2>8. CASE ReportFinal(r)
    BY <2>8, InnerStep DEF ReportFinal, PCs
  <2>9. CASE Unregister(r)
    BY <2>9, InnerStep DEF Unregister, PCs
  <2> QED  BY <1>7, <1>8, <2>1, <2>2, <2>3, <2>4, <2>5, <2>6, <2>7, <2>8, <2>9 DEF RunStep
<1>9. CASE \/ Boot \/ StartLoops \/ Shutdown \/ ForwardStop \/ DequeueWaits \/ DequeueCancelled
           \/ UNCHANGED vars
  BY <1>1, <1>9 DEF Boot, StartLoops, Shutdown, ForwardStop, DequeueWaits, DequeueCancelled, vars, pipeVars, runVars
<1>10. ASSUME NEW r \in Runs, RecoverStaleRun(r) \/ Timeout(r) \/ CancelRun(r)
       PROVE  SlotsAccounted' /\ PipelineInv'
  BY <1>1, <1>10 DEF RecoverStaleRun, Timeout, CancelRun, CancelLoad, CancelFire, CancelWrite,
                     pipeVars, runVars
<1>11. CASE Crash \/ Drained
  BY <1>2, <1>11 DEF Crash, Drained
<1> QED
  BY <1>3, <1>4, <1>5, <1>6, <1>8, <1>9, <1>10, <1>11 DEF Next, DispatchStep

-------------------------------------------------------------------------------
(***************************************************************************)
(* The channel, the queue and the semaphore stay within the capacities     *)
(* daemon.New gave them, and every variable within its type.               *)
(***************************************************************************)
THEOREM TypeCorrect == Spec => []TypeOK
<1>1. Init => TypeOK /\ SlotsAccounted /\ PipelineInv
  BY TypeInit, CoreInit
<1>2. TypeOK /\ SlotsAccounted /\ PipelineInv /\ [Next]_vars
        => (TypeOK /\ SlotsAccounted /\ PipelineInv)'
  BY TypeNext, CoreNext
<1> QED  BY <1>1, <1>2, PTL DEF Spec

(***************************************************************************)
(* The tokens in d.sem are the runJob goroutines: none is leaked by an     *)
(* error, a cancellation, a timeout or a shutdown (daemon.go:264, 293).    *)
(***************************************************************************)
THEOREM SlotsCorrect == Spec => []SlotsAccounted
<1>1. Init => TypeOK /\ SlotsAccounted /\ PipelineInv
  BY TypeInit, CoreInit
<1>2. TypeOK /\ SlotsAccounted /\ PipelineInv /\ [Next]_vars
        => (TypeOK /\ SlotsAccounted /\ PipelineInv)'
  BY TypeNext, CoreNext
<1> QED  BY <1>1, <1>2, PTL DEF Spec

-------------------------------------------------------------------------------
(***************************************************************************)
(* Theorems about the status of a run in Daemon: a cancellation is final,  *)
(* a reported result is the recorded one, and the runs table implements    *)
(* RunLifecycle.  They rest on one inductive invariant, RunInv, about what *)
(* a goroutine may assume of its row.                                      *)
(***************************************************************************)

\* A run that has not passed CreateRun in any process has no row.
FreshHasNoRow(r) == pc[r] \in {"idle", "start", "create"} => row[r] = "none"

\* While its context is live, the goroutine's row is what it wrote last, or the
\* store failed at its creation or at its final update.
RowIsOwn(r) ==
  ~CtxDone(r) =>
    /\ pc[r] \in {"reportQueued", "markRunning"} =>
         row[r] = "queued" \/ (r \in storeFailed /\ row[r] = "none")
    /\ pc[r] \in {"reportRunning", "execute", "finish"} =>
         row[r] \in Unfinished \/ (r \in storeFailed /\ row[r] = "none")
    /\ pc[r] \in {"reportFinal", "unregister"} =>
         row[r] = result[r] \/ (r \in storeFailed /\ row[r] \in {"none"} \cup Unfinished)

\* A canceled row is out of the reach of its goroutine: CancelRun cancels the
\* context before it writes.
CancelCutsOff(r) ==
  /\ cancelPc[r] = "fired" => r \in done
  /\ row[r] = "canceled" /\ Live(r) => CtxDone(r)

\* A goroutine past runner.Run has its result.
HasResult(r) ==
  pc[r] \in {"finish", "reportFinal", "unregister", "release"} => result[r] \in Results

\* Only a process that is up has goroutines; recovery visits unfinished rows.
ProcessInv ==
  /\ mode # "up" => \A r \in Runs : ~Live(r) /\ cancelPc[r] = "idle"
  /\ mode = "recovering" => \A r \in stale : row[r] \in Unfinished

\* The result of a run is posted by the last thing its goroutine does.
PostedLast(r) == gh[r] \in Results => pc[r] \in {"unregister", "release", "gone"}

\* The inductive invariant of the runs table.
RunInv ==
  /\ \A r \in Runs : /\ FreshHasNoRow(r) /\ RowIsOwn(r) /\ CancelCutsOff(r)
                      /\ HasResult(r) /\ PostedLast(r)
  /\ ProcessInv

-------------------------------------------------------------------------------
\* The empty runs table satisfies the invariant.
LEMMA RunInit == Init => RunInv
BY DEF Init, RunInv, FreshHasNoRow, RowIsOwn, CancelCutsOff, HasResult, PostedLast, ProcessInv,
       Results, Live, CtxDone

\* Every step keeps the tie between a run's goroutine, its row and its context
\* (daemon.go:303-411, 479-489).
LEMMA RunNext ==
  ASSUME TypeOK, PipelineInv, RunInv, [Next]_vars
  PROVE  RunInv'
<1> USE DEF RunInv, FreshHasNoRow, RowIsOwn, CancelCutsOff, HasResult, PostedLast, ProcessInv,
            Live, CtxDone, Unfinished, vars, dbVars, sysVars, runVars
<1>1. CASE UNCHANGED <<row, gh, storeFailed, pc, result, done, stopping, cancelPc, mode, stale>>
  BY <1>1
<1>2. CASE Boot
  BY <1>2 DEF Boot
<1>3. CASE StartLoops \/ Shutdown
  BY <1>3 DEF StartLoops, Shutdown
<1>4. CASE Crash \/ Drained
  BY <1>4 DEF Crash, Drained, ProcessGone
<1>5. CASE Launch
  <2>1. Head(toLaunch) \in Runs /\ pc[Head(toLaunch)] = "idle"
    BY <1>5, TailElems DEF Launch, TypeOK, PipelineInv
  <2> QED  BY <1>5, <2>1 DEF Launch, TypeOK
<1>6. ASSUME NEW r \in Runs, RecoverStaleRun(r)  PROVE RunInv'
  BY <1>6 DEF RecoverStaleRun, UpdateRunStatus, TypeOK
<1>7. ASSUME NEW r \in Runs, Register(r) \/ ReportQueued(r) \/ ReportRunning(r)  PROVE RunInv'
  <2>1. CASE Register(r)
    BY <2>1 DEF Register, Step, TypeOK
  <2>2. CASE ReportQueued(r)
    BY <2>2 DEF ReportQueued, Report, Results, Step, TypeOK
  <2>3. CASE ReportRunning(r)
    BY <2>3 DEF ReportRunning, Report, Results, Step, TypeOK
  <2> QED  BY <1>7, <2>1, <2>2, <2>3
<1>8. ASSUME NEW r \in Runs, CreateRun(r)  PROVE RunInv'
  BY <1>8 DEF CreateRun, Failed, Step, TypeOK
<1>9. ASSUME NEW r \in Runs, MarkRunning(r)  PROVE RunInv'
  BY <1>9 DEF MarkRunning, UpdateWithRunCtx, UpdateRunStatus, Step, TypeOK
<1>10. ASSUME NEW r \in Runs, NEW res \in Results, Execute(r, res)  PROVE RunInv'
  BY <1>10 DEF Execute, Step, TypeOK
<1>11. ASSUME NEW r \in Runs, Finish(r)  PROVE RunInv'
  BY <1>11 DEF Finish, Failed, UpdateWithRunCtx, UpdateRunStatus, Step, TypeOK, Results
<1>12. ASSUME NEW r \in Runs, ReportFinal(r) \/ Unregister(r)  PROVE RunInv'
  <2>1. CASE ReportFinal(r)
    BY <2>1 DEF ReportFinal, Report, Step, TypeOK
  <2>2. CASE Unregister(r)
    BY <2>2 DEF Unregister, Step, TypeOK
  <2> QED  BY <1>12, <2>1, <2>2
<1>13. ASSUME NEW r \in Runs, Release(r)  PROVE RunInv'
  BY <1>13 DEF Release, Step, TypeOK
<1>14. ASSUME NEW r \in Runs, Timeout(r)  PROVE RunInv'
  BY <1>14 DEF Timeout, TypeOK
<1>15. ASSUME NEW r \in Runs, CancelRun(r)  PROVE RunInv'
  BY <1>15 DEF CancelRun, CancelLoad, CancelFire, CancelWrite, CancelStep, UpdateRunStatus, TypeOK
<1>16. CASE \/ Forward \/ ForwardStop \/ Dequeue \/ DequeueWaits \/ DequeueCancelled
            \/ (\E j \in Jobs : Offer(j)) \/ UNCHANGED vars
  BY <1>1, <1>16 DEF Forward, ForwardStop, Dequeue, DequeueWaits, DequeueCancelled, Offer
<1> QED
  BY <1>2, <1>3, <1>4, <1>5, <1>6, <1>7, <1>8, <1>9, <1>10, <1>11, <1>12, <1>13, <1>14, <1>15,
     <1>16 DEF Next, DispatchStep, RunStep

-------------------------------------------------------------------------------
(***************************************************************************)
(* One step changes at most one status, and only along RunLifecycle.       *)
(***************************************************************************)
LEMMA StatusStep ==
  ASSUME TypeOK, RunInv, [Next]_vars
  PROVE  [Lifecycle!Next]_row
<1> USE DEF Lifecycle!Next, Lifecycle!Move, Lifecycle!Unfinished, Lifecycle!Results
<1>1. ASSUME NEW r \in Runs, CreateRun(r)  PROVE [Lifecycle!Next]_row
  BY <1>1 DEF CreateRun, Step, RunInv, FreshHasNoRow
<1>2. ASSUME NEW r \in Runs, MarkRunning(r)  PROVE [Lifecycle!Next]_row
  BY <1>2 DEF MarkRunning, UpdateWithRunCtx, UpdateRunStatus, Step, RunInv, RowIsOwn, Unfinished
<1>3. ASSUME NEW r \in Runs, Finish(r)  PROVE [Lifecycle!Next]_row
  BY <1>3 DEF Finish, UpdateWithRunCtx, UpdateRunStatus, Step, RunInv, RowIsOwn, HasResult, Results, Unfinished
<1>4. ASSUME NEW r \in Runs, RecoverStaleRun(r)  PROVE [Lifecycle!Next]_row
  BY <1>4 DEF RecoverStaleRun, UpdateRunStatus, RunInv, ProcessInv, Unfinished
<1>5. ASSUME NEW r \in Runs, CancelWrite(r)  PROVE [Lifecycle!Next]_row
  <2>1. CASE row[r] = "canceled"
    BY <1>5, <2>1 DEF CancelWrite, UpdateRunStatus, TypeOK
  <2>2. CASE row[r] # "canceled"
    BY <1>5, <2>2 DEF CancelWrite, UpdateRunStatus, TypeOK, Unfinished, Results
  <2> QED  BY <2>1, <2>2
<1>6. CASE row' = row
  BY <1>6
<1>7. CASE \/ Boot \/ StartLoops \/ Shutdown \/ Crash \/ Forward \/ ForwardStop \/ DispatchStep
           \/ (\E j \in Jobs : Offer(j)) \/ UNCHANGED vars
  BY <1>6, <1>7 DEF Boot, StartLoops, Shutdown, Crash, Forward, ForwardStop, DispatchStep, Offer,
       Dequeue, DequeueWaits, DequeueCancelled, Launch, Drained, ProcessGone, vars, dbVars
<1>8. ASSUME NEW r \in Runs,
             \/ Register(r) \/ ReportQueued(r) \/ ReportRunning(r) \/ ReportFinal(r)
             \/ Unregister(r) \/ Release(r) \/ Timeout(r) \/ CancelLoad(r) \/ CancelFire(r)
             \/ \E res \in Results : Execute(r, res)
      PROVE  [Lifecycle!Next]_row
  BY <1>6, <1>8 DEF Register, ReportQueued, ReportRunning, ReportFinal, Unregister, Release,
       Timeout, CancelLoad, CancelFire, Execute, dbVars
<1> QED
  BY <1>1, <1>2, <1>3, <1>4, <1>5, <1>7, <1>8 DEF Next, RunStep, CancelRun

(***************************************************************************)
(* No later step takes a cancellation back.                                *)
(***************************************************************************)
LEMMA CancelStepKept ==
  ASSUME TypeOK, [Lifecycle!Next]_row
  PROVE  CancelKept
<1>1. CASE row' = row
  BY <1>1 DEF CancelKept
<1>2. ASSUME NEW r \in Runs, NEW to, row[r] # "canceled" \/ to = "canceled",
             row' = [row EXCEPT ![r] = to]
      PROVE  CancelKept
  BY <1>2 DEF CancelKept, TypeOK
<1>3. CASE Lifecycle!Next
  BY <1>2, <1>3 DEF Lifecycle!Next, Lifecycle!Move, Lifecycle!Unfinished, Lifecycle!Results
<1> QED  BY <1>1, <1>3

(***************************************************************************)
(* A result is posted by ReportFinal, which posts what was written or      *)
(* should have been; after it only recovery and CancelRun write the row.   *)
(***************************************************************************)
LEMMA ReportedNext ==
  ASSUME TypeOK, RunInv, ReportedResultIsRecorded, [Next]_vars
  PROVE  ReportedResultIsRecorded'
<1> USE DEF ReportedResultIsRecorded, Unfinished, Results
<1>1. ASSUME UNCHANGED <<row, gh, storeFailed>>  PROVE ReportedResultIsRecorded'
  BY <1>1
<1>2. ASSUME NEW r \in Runs, ReportQueued(r) \/ ReportRunning(r)
      PROVE  ReportedResultIsRecorded'
  BY <1>2 DEF ReportQueued, ReportRunning, Report, TypeOK
<1>3. ASSUME NEW r \in Runs, ReportFinal(r)
      PROVE  ReportedResultIsRecorded'
  <2>1. /\ UNCHANGED <<row, storeFailed>>
        /\ gh' = gh \/ (~CtxDone(r) /\ gh' = [gh EXCEPT ![r] = result[r]])
    BY <1>3 DEF ReportFinal, Report
  <2>2. ~CtxDone(r) => \/ row[r] = result[r]
                       \/ r \in storeFailed /\ row[r] \in {"none"} \cup Unfinished
    BY <1>3 DEF ReportFinal, Step, RunInv, RowIsOwn
  <2> QED  BY <1>1, <2>1, <2>2 DEF TypeOK
<1>4. ASSUME NEW r \in Runs, CreateRun(r) \/ MarkRunning(r) \/ Finish(r)
      PROVE  ReportedResultIsRecorded'
  <2>1. gh' = gh /\ gh[r] \notin Results
    BY <1>4 DEF CreateRun, MarkRunning, Finish, Step, RunInv, PostedLast
  <2>2. \A s \in Runs : s # r => row'[s] = row[s]
    BY <1>4 DEF CreateRun, MarkRunning, Finish, UpdateWithRunCtx, UpdateRunStatus, TypeOK
  <2>3. storeFailed \subseteq storeFailed'
    BY <1>4 DEF CreateRun, MarkRunning, Finish, Failed
  <2> QED  BY <2>1, <2>2, <2>3
<1>5. ASSUME NEW r \in Runs, RecoverStaleRun(r) \/ CancelWrite(r)
      PROVE  ReportedResultIsRecorded'
  BY <1>5 DEF RecoverStaleRun, CancelWrite, CancelStep, UpdateRunStatus, TypeOK, RunInv, ProcessInv
<1>6. CASE \/ Boot \/ StartLoops \/ Shutdown \/ Crash \/ Forward \/ ForwardStop \/ DispatchStep
           \/ (\E j \in Jobs : Offer(j)) \/ UNCHANGED vars
  BY <1>1, <1>6 DEF Boot, StartLoops, Shutdown, Crash, Forward, ForwardStop, DispatchStep, Offer,
       Dequeue, DequeueWaits, DequeueCancelled, Launch, Drained, ProcessGone, vars, dbVars
<1>7. ASSUME NEW r \in Runs,
             \/ Register(r) \/ Unregister(r) \/ Release(r) \/ Timeout(r)
             \/ CancelLoad(r) \/ CancelFire(r)
             \/ \E res \in Results : Execute(r, res)
      PROVE  ReportedResultIsRecorded'
  BY <1>1, <1>7 DEF Register, Unregister, Release, Timeout, CancelLoad, CancelFire, Execute, dbVars
<1> QED
  BY <1>2, <1>3, <1>4, <1>5, <1>6, <1>7 DEF Next, RunStep, CancelRun

-------------------------------------------------------------------------------
\* The inductive invariant of the whole daemon.
DaemonInv == TypeOK /\ SlotsAccounted /\ PipelineInv /\ RunInv

\* The inductive invariant of the daemon, from which the theorems below follow.
LEMMA DaemonInvariant == Spec => []DaemonInv
<1>1. Init => DaemonInv
  BY TypeInit, CoreInit, RunInit DEF DaemonInv
<1>2. DaemonInv /\ [Next]_vars => DaemonInv'
  BY TypeNext, CoreNext, RunNext DEF DaemonInv
<1> QED  BY <1>1, <1>2, PTL DEF Spec

(***************************************************************************)
(* A canceled run stays canceled, whatever its goroutine, a second request *)
(* or a restart does later (daemon.go:406, 485-487, 139-151).              *)
(***************************************************************************)
THEOREM CancellationIsFinal == Spec => CancelIsFinal
<1>1. DaemonInv /\ [Next]_vars => [CancelKept]_vars
  BY StatusStep, CancelStepKept DEF DaemonInv
<1> QED  BY <1>1, DaemonInvariant, PTL DEF Spec, CancelIsFinal

(***************************************************************************)
(* A result shown on GitHub is the one in the runs table, or the run was   *)
(* canceled, through crashes, restarts and shutdowns (daemon.go:406-411);  *)
(* where the store failed, the table shows no other result.                *)
(***************************************************************************)
THEOREM ReportsAreRecorded == Spec => []ReportedResultIsRecorded
<1>1. Init => ReportedResultIsRecorded
  BY DEF Init, ReportedResultIsRecorded, Results
<1>2. DaemonInv /\ ReportedResultIsRecorded /\ [Next]_vars => ReportedResultIsRecorded'
  BY ReportedNext DEF DaemonInv
<1> QED  BY <1>1, <1>2, DaemonInvariant, PTL DEF Spec

(***************************************************************************)
(* The runs table follows the life of a status that RunLifecycle promises: *)
(* initial states map to initial states, and every step of the daemon is a *)
(* step of RunLifecycle or leaves the table alone.                         *)
(***************************************************************************)
THEOREM TableImplementsLifecycle == Spec => ImplementsRunLifecycle
<1>1. Init => Lifecycle!Init
  BY DEF Init, Lifecycle!Init
<1>2. DaemonInv /\ [Next]_vars => [Lifecycle!Next]_row
  BY StatusStep DEF DaemonInv
<1> QED  BY <1>1, <1>2, DaemonInvariant, PTL DEF Spec, ImplementsRunLifecycle, Lifecycle!Spec

-------------------------------------------------------------------------------
(***************************************************************************)
(* Recovery after a crash or a cut-off shutdown: which rows may still be   *)
(* unfinished in a process that has started.                               *)
(***************************************************************************)

\* A goroutine past its final update has finished its row or was cut short.
FinishedOrCut ==
  \A r \in Runs : pc[r] \in {"reportFinal", "unregister", "release"}
                    => row[r] \notin Unfinished \/ r \in unwritten

\* What recovery has not visited yet, could not write or does not see is all that
\* is unfinished.
RecoveryIsComplete ==
  mode = "recovering" =>
    \A r \in Runs : row[r] \in Unfinished => r \in stale \cup unwritten \/ r \notin ListRuns

\* The inductive invariant of recovery.
OwnerInv == FinishedOrCut /\ RecoveryIsComplete /\ StaleHasOwner

-------------------------------------------------------------------------------
\* The empty runs table has no unfinished run.
LEMMA OwnerInit == Init => OwnerInv
BY DEF Init, OwnerInv, FinishedOrCut, RecoveryIsComplete, StaleHasOwner, Unfinished

\* A run beyond the limit of the listing stays there when another one starts.
LEMMA NewRunListed ==
  ASSUME TypeOK, NEW r \in Runs, created' = Append(created, r),
         NEW s \in ListRuns', s # r
  PROVE  s \in ListRuns
<1>1. /\ created \in Seq(Runs) /\ Len(created) \in Nat /\ ListLimit \in Nat
      /\ DOMAIN created = 1..Len(created)
  BY DaemonAssumption DEF TypeOK
<1>2. /\ Len(created') = Len(created) + 1 /\ DOMAIN created' = 1..(Len(created) + 1)
      /\ \A i \in 1..Len(created) : created'[i] = created[i]
      /\ created'[Len(created) + 1] = r
  BY <1>1
<1>3. PICK i \in DOMAIN created' : i > Len(created') - ListLimit /\ s = created'[i]
  BY DEF ListRuns
<1>4. i \in 1..Len(created) /\ s = created[i] /\ i > Len(created) - ListLimit
  BY <1>1, <1>2, <1>3
<1> QED  BY <1>1, <1>4 DEF ListRuns

\* Every step keeps an owner for each unfinished row: a goroutine, the list of
\* rows to recover, or the next start (daemon.go:139-151, 406).
LEMMA OwnerNext ==
  ASSUME TypeOK, RunInv, OwnerInv, [Next]_vars
  PROVE  OwnerInv'
<1> USE DEF OwnerInv, FinishedOrCut, RecoveryIsComplete, StaleHasOwner,
            Live, vars, dbVars, sysVars, runVars
<1>a. created' = created => ListRuns' = ListRuns
  BY DEF ListRuns
<1>1. CASE UNCHANGED <<row, created, pc, unwritten, stopping, mode, stale>>
  BY <1>1, <1>a
<1>2. CASE Boot
  BY <1>2, <1>a DEF Boot
<1>3. CASE StartLoops \/ Shutdown
  BY <1>3, <1>a DEF StartLoops, Shutdown
<1>4. CASE Crash \/ Drained
  BY <1>4, <1>a DEF Crash, Drained, ProcessGone
<1>5. CASE Launch
  BY <1>5, <1>a DEF Launch, TypeOK
<1>6. ASSUME NEW r \in Runs, RecoverStaleRun(r)  PROVE OwnerInv'
  BY <1>6, <1>a DEF RecoverStaleRun, UpdateRunStatus, TypeOK, Unfinished, RunInv, ProcessInv
<1>7. ASSUME NEW r \in Runs, \/ Register(r) \/ ReportQueued(r) \/ ReportRunning(r)
                             \/ ReportFinal(r) \/ Unregister(r)
      PROVE OwnerInv'
  BY <1>7, <1>a DEF Register, ReportQueued, ReportRunning, ReportFinal, Unregister, Step, TypeOK
<1>8. ASSUME NEW r \in Runs, CreateRun(r)  PROVE OwnerInv'
  <2>1. CASE UNCHANGED <<row, created>>
    BY <1>8, <1>a, <2>1 DEF CreateRun, Failed, Step, TypeOK
  <2>2. CASE row' = [row EXCEPT ![r] = "queued"] /\ created' = Append(created, r)
    <3>1. \A s \in Runs : s # r /\ s \notin ListRuns => s \notin ListRuns'
      BY <2>2, NewRunListed
    <3>2. mode = "up" /\ mode' = mode /\ stopping' = stopping /\ unwritten' = unwritten
      BY <1>8 DEF CreateRun, Step
    <3>3. \A s \in Runs : pc'[s] = IF s = r THEN "reportQueued" ELSE pc[s]
      BY <1>8 DEF CreateRun, Step, TypeOK
    <3>4. \A s \in Runs : row'[s] = IF s = r THEN "queued" ELSE row[s]
      BY <2>2 DEF TypeOK
    <3>5. FinishedOrCut'
      BY <3>2, <3>3, <3>4
    <3>6. StaleHasOwner' /\ RecoveryIsComplete'
      BY <3>1, <3>2, <3>3, <3>4
    <3> QED  BY <3>5, <3>6
  <2> QED  BY <1>8, <2>1, <2>2 DEF CreateRun
<1>9. ASSUME NEW r \in Runs, MarkRunning(r)  PROVE OwnerInv'
  BY <1>9, <1>a DEF MarkRunning, UpdateWithRunCtx, UpdateRunStatus, Step, TypeOK
<1>10. ASSUME NEW r \in Runs, NEW res \in Results, Execute(r, res)  PROVE OwnerInv'
  BY <1>10, <1>a DEF Execute, Step, TypeOK
<1>11. ASSUME NEW r \in Runs, Finish(r)  PROVE OwnerInv'
  BY <1>11, <1>a DEF Finish, UpdateWithRunCtx, UpdateRunStatus, Step, TypeOK, RunInv, HasResult,
               Results, Unfinished
<1>12. ASSUME NEW r \in Runs, Release(r)  PROVE OwnerInv'
  BY <1>12, <1>a DEF Release, Step, TypeOK
<1>13. ASSUME NEW r \in Runs, CancelWrite(r)  PROVE OwnerInv'
  BY <1>13, <1>a DEF CancelWrite, CancelStep, UpdateRunStatus, TypeOK, Unfinished
<1>14. ASSUME NEW r \in Runs, Timeout(r) \/ CancelLoad(r) \/ CancelFire(r)  PROVE OwnerInv'
  BY <1>1, <1>14 DEF Timeout, CancelLoad, CancelFire
<1>15. CASE \/ Forward \/ ForwardStop \/ Dequeue \/ DequeueWaits \/ DequeueCancelled
            \/ (\E j \in Jobs : Offer(j)) \/ UNCHANGED vars
  BY <1>1, <1>15 DEF Forward, ForwardStop, Dequeue, DequeueWaits, DequeueCancelled, Offer
<1> QED
  BY <1>2, <1>3, <1>4, <1>5, <1>6, <1>7, <1>8, <1>9, <1>10, <1>11, <1>12, <1>13, <1>14, <1>15
     DEF Next, DispatchStep, RunStep, CancelRun

-------------------------------------------------------------------------------
(***************************************************************************)
(* recoverStaleRuns (daemon.go:139-151) leaves no orphan among the runs    *)
(* that ListRuns returns (store.go:282-303): a row that a running daemon   *)
(* shows as queued or running belongs to one of its goroutines, to a run   *)
(* whose end this process could not write, or is beyond the limit.         *)
(***************************************************************************)
THEOREM RecoveryLeavesNoOrphan == Spec => []StaleHasOwner
<1>1. Init => OwnerInv
  BY OwnerInit
<1>2. DaemonInv /\ OwnerInv /\ [Next]_vars => OwnerInv'
  BY OwnerNext DEF DaemonInv
<1>3. OwnerInv => StaleHasOwner
  BY DEF OwnerInv
<1> QED  BY <1>1, <1>2, <1>3, DaemonInvariant, PTL DEF Spec
===============================================================================
