----------------------------- MODULE RunnerProofs -----------------------------
(***************************************************************************)
(* Theorems about Runner, for any workflows, runs and branches.  Those     *)
(* about what is filed under a run ID hold for one run at a time, which is *)
(* what the fields of the shared runner object are made for.               *)
(***************************************************************************)
EXTENDS Runner, WorkflowOrderProofs

\* Past Wire the fields of the runner object name some run.
Wired == \A r \in Runs : pc[r] \notin {"idle", "wire", "gone"} =>
           currentRun \in Runs /\ callbackRun \in Runs

\* The checkout steps are those of a run with a repository.
HasRepo == \A r \in Runs : pc[r] \in {"clone", "cloning", "fetch", "resolve", "worktree"} =>
             want[r].branch \in Branches

\* The job loop runs only over a workflow whose order was built, and one of its jobs.
Ordered == \A r \in Runs :
             /\ pc[r] \in {"pick", "run"} => ~OrderFails(needs)
             /\ pc[r] = "run" => job[r] \in JobIDs

\* TypeOK with what it needs to be inductive.
TInv == TypeOK /\ Wired /\ HasRepo /\ Ordered

\* The runs that hold a slot of the semaphore.
LiveRuns == {r \in Runs : Live(r)}

\* Nothing runs at the start.
LEMMA InitTInv == Init => TInv
  <1> SUFFICES ASSUME Init PROVE TInv
    OBVIOUS
  <1> USE DEF Init
  <1>1. Cardinality({r \in Runs : Live(r)}) <= MaxConcurrency
    <2>1. {r \in Runs : Live(r)} = {}
      BY DEF Live
    <2>2. Cardinality({}) <= MaxConcurrency
      <3> HIDE DEF Init
      <3> QED
        BY FS_EmptySet, RunnerAssumption
    <2> QED
      BY <2>1, <2>2
  <1>2. CacheTypeOK
    BY CacheAssumption DEF CacheInit, CacheTypeOK, NoCommits, Partial
  <1>3. want \in [Runs -> [branch : Branches \cup {NoBranch}, commit : 0..MaxPushes,
                           manual : BOOLEAN]]
    BY CacheAssumption
  <1>4. /\ pc \in [Runs -> PCs]
        /\ level \in [Runs -> Nat]
        /\ left \in [Runs -> SUBSET JobIDs]
        /\ job \in [Runs -> JobIDs \cup {NoJob}]
        /\ failedJobs \in [Runs -> SUBSET JobIDs]
        /\ settled \in [Runs -> SUBSET JobIDs]
    BY DEF PCs
  <1>5. /\ result \in [Runs -> {"none", "success", "failure", "error"}]
        /\ misfiled \subseteq Runs \X Runs
        /\ worktree \in [Runs -> {"none", "temp", "checkout"}]
    OBVIOUS
  <1>6. jobRow \in [Runs -> [JobIDs -> JobStatuses]]
    BY DEF JobStatuses
  <1>7. cutClone \in BOOLEAN
    BY Zenon
  <1>8. crashes \in 0..MaxCrashes /\ crashed \subseteq Runs
    <2>1. crashes = 0 /\ crashed = {}
      OBVIOUS
    <2> HIDE DEF Init
    <2> QED
      BY <2>1, RunnerAssumption
  <1>9. TypeOK
    BY <1>1, <1>2, <1>3, <1>4, <1>5, <1>6, <1>7, <1>8 DEF TypeOK
  <1> QED
    BY <1>9 DEF TInv, Wired, HasRepo, Ordered

(***************************************************************************)
(* Only Launch makes a run live, and it waits for a free slot of the       *)
(* semaphore (daemon.go:262-293).                                          *)
(***************************************************************************)
LEMMA SlotsBounded ==
  ASSUME TypeOK, [Next]_vars
  PROVE  Cardinality(LiveRuns') <= MaxConcurrency
  <1>1. IsFiniteSet(LiveRuns)
    BY RunnerAssumption, FS_Subset DEF LiveRuns
  <1>2. ASSUME NEW r \in Runs, Launch(r) PROVE Cardinality(LiveRuns') <= MaxConcurrency
    <2>1. LiveRuns' = LiveRuns \cup {r}
      BY <1>2 DEF Launch, Goto, TypeOK, LiveRuns, Live
    <2>2. Cardinality(LiveRuns) < MaxConcurrency
      BY <1>2 DEF Launch, LiveRuns
    <2>3. Cardinality(LiveRuns) \in Nat
      BY <1>1, FS_CardinalityType
    <2>4. Cardinality(LiveRuns \cup {r})
            = IF r \in LiveRuns THEN Cardinality(LiveRuns) ELSE Cardinality(LiveRuns) + 1
      BY <1>1, FS_AddElement
    <2> QED
      BY <2>1, <2>2, <2>3, <2>4, RunnerAssumption
  <1>3. ASSUME ~\E r \in Runs : Launch(r) PROVE Cardinality(LiveRuns') <= MaxConcurrency
    <2>1. LiveRuns' \subseteq LiveRuns
      <3> USE DEF TypeOK, LiveRuns, Live
      <3>1. ASSUME NEW r \in Runs,
                   \/ Wire(r) \/ Connect(r) \/ SetupFails(r)
                   \/ BeginClone(r) \/ EndClone(r) \/ CloneError(r) \/ CloneKilled(r)
                   \/ Fetch(r) \/ Resolve(r) \/ AddWorktree(r)
            PROVE  LiveRuns' \subseteq LiveRuns
        BY <3>1 DEF Wire, Connect, SetupFails, BeginClone, EndClone, CloneError, CloneKilled,
                    Fetch, Resolve, AddWorktree, Goto, Returns
      <3>2. ASSUME NEW r \in Runs,
                   \/ Order(r) \/ NextLevel(r) \/ Return(r) \/ JobErrors(r) \/ Leave(r)
                   \/ \E id \in JobIDs : SkipJob(r, id) \/ StartJob(r, id)
                   \/ \E status \in {"success", "failure"} : JobEnds(r, status)
            PROVE  LiveRuns' \subseteq LiveRuns
        BY <3>2 DEF Order, NextLevel, Return, JobErrors, Leave, SkipJob, StartJob, JobEnds,
                    Take, Goto, Returns
      <3>3. CASE \E b \in Branches : PushToGitHub(b)
        BY <3>3 DEF PushToGitHub
      <3>4. CASE Crash
        BY <3>4 DEF Crash
      <3>5. CASE UNCHANGED vars
        BY <3>5 DEF vars
      <3> QED
        BY <1>3, <3>1, <3>2, <3>3, <3>4, <3>5 DEF Next
    <2>2. Cardinality(LiveRuns') <= Cardinality(LiveRuns)
      BY <1>1, <2>1, FS_Subset
    <2>3. Cardinality(LiveRuns) \in Nat /\ Cardinality(LiveRuns') \in Nat
      BY <1>1, <2>1, FS_Subset, FS_CardinalityType
    <2> QED
      BY <2>2, <2>3, RunnerAssumption DEF TypeOK, LiveRuns
  <1> QED
    BY <1>2, <1>3

(***************************************************************************)
(* A wave that NextLevel takes is a set of jobs of the workflow.           *)
(***************************************************************************)
LEMMA NeedsIsWorkflow ==
  ASSUME TInv, NEW r \in Runs, pc[r] \in {"pick", "run"}
  PROVE  IsWorkflow(needs) /\ DOMAIN needs = JobIDs
  BY RunnerAssumption DEF TInv, TypeOK, Ordered, OrderFails, IsWorkflow

(***************************************************************************)
(* Whatever is filed is filed under the ID of some run.                    *)
(***************************************************************************)
LEMMA FileTypes ==
  ASSUME TypeOK, NEW r \in Runs, NEW ids \in SUBSET Runs, File(r, ids)
  PROVE  misfiled' \subseteq Runs \X Runs
  <1>1. misfiled \subseteq Runs \X Runs
    BY DEF TypeOK
  <1>2. {<<r, id>> : id \in ids \ {r}} \subseteq Runs \X Runs
    OBVIOUS
  <1> QED
    BY <1>1, <1>2 DEF File

\* JobCallback keeps the types of what it writes (daemon.go:346-366).
LEMMA CallbackTypes ==
  ASSUME TypeOK, NEW r \in Runs, NEW id, NEW status \in JobStatuses,
         callbackRun \in Runs, Callback(r, id, status)
  PROVE  /\ misfiled' \subseteq Runs \X Runs
         /\ jobRow' \in [Runs -> [JobIDs -> JobStatuses]]
  <1>1. misfiled' \subseteq Runs \X Runs
    BY FileTypes DEF Callback
  <1>2. jobRow \in [Runs -> [JobIDs -> JobStatuses]]
    BY DEF TypeOK
  <1>3. [jobRow[callbackRun] EXCEPT ![id] = status] \in [JobIDs -> JobStatuses]
    BY <1>2
  <1>4. jobRow' = [jobRow EXCEPT ![callbackRun] = [jobRow[callbackRun] EXCEPT ![id] = status]]
    BY DEF Callback
  <1> QED
    BY <1>1, <1>2, <1>3, <1>4

\* Every step of the runner keeps the types.
LEMMA NextTInv == TInv /\ [Next]_vars => TInv'
  <1> SUFFICES ASSUME TInv, [Next]_vars PROVE TInv'
    OBVIOUS
  <1>1. TypeOK /\ Wired /\ HasRepo /\ Ordered
    BY DEF TInv
  <1>2. Cardinality({r \in Runs : Live(r)})' <= MaxConcurrency
    BY <1>1, SlotsBounded DEF LiveRuns
  <1> USE DEF TInv, Wired, HasRepo, Ordered
  <1>3. ASSUME NEW r \in Runs, Launch(r) PROVE TInv'
    <2>1. PICK req \in Requests : want' = [want EXCEPT ![r] = req]
      BY <1>3 DEF Launch
    <2>2. req \in [branch : Branches \cup {NoBranch}, commit : 0..MaxPushes, manual : BOOLEAN]
      <3>1. \A b \in Branches : upstream[b] \in 0..MaxPushes
        BY <1>1, CacheAssumption DEF TypeOK, CacheTypeOK
      <3>2. 0 \in 0..MaxPushes
        BY CacheAssumption
      <3> QED
        BY <3>1, <3>2 DEF Requests
    <2>3. want' \in [Runs -> [branch : Branches \cup {NoBranch}, commit : 0..MaxPushes,
                              manual : BOOLEAN]]
      BY <1>1, <2>1, <2>2 DEF TypeOK
    <2> QED
      BY <1>1, <1>2, <1>3, <2>1, <2>3
         DEF Launch, Goto, TypeOK, PCs, CacheTypeOK, shared, loop, crash, repo, cache
  <1>4. ASSUME NEW r \in Runs, Wire(r) PROVE TInv'
    BY <1>1, <1>2, <1>4 DEF Wire, Goto, TypeOK, PCs, CacheTypeOK, shared, loop, crash, repo, cache
  <1>5. ASSUME NEW r \in Runs, Connect(r) PROVE TInv'
    BY <1>1, <1>2, <1>5
       DEF Connect, TypeOK, PCs, CacheTypeOK, shared, loop, crash, repo, cache
  <1>6. ASSUME NEW r \in Runs, SetupFails(r) PROVE TInv'
    BY <1>1, <1>2, <1>6
       DEF SetupFails, Returns, TypeOK, PCs, CacheTypeOK, shared, loop, crash, repo, cache
  <1>7. ASSUME NEW r \in Runs, BeginClone(r) \/ EndClone(r) \/ Fetch(r) PROVE TInv'
    <2>1. CacheTypeOK'
      <3>1. CASE BeginClone(r)
        BY <1>1, <3>1 DEF BeginClone, CloneBegins, TypeOK, CacheTypeOK, Partial
      <3>2. upstream \in [Branches -> 0..MaxPushes]
        BY <1>1 DEF TypeOK, CacheTypeOK
      <3>3. CASE EndClone(r)
        BY <1>1, <3>2, <3>3 DEF EndClone, CloneEnds, TypeOK, CacheTypeOK, Partial
      <3>4. CASE Fetch(r)
        BY <1>1, <3>2, <3>4, CacheAssumption DEF Fetch, Fetches, TypeOK, CacheTypeOK
      <3> QED
        BY <1>7, <3>1, <3>3, <3>4
    <2> QED
      BY <1>1, <1>2, <1>7, <2>1
         DEF BeginClone, EndClone, Fetch, Goto, TypeOK, PCs, shared, loop, crash
  <1>8. ASSUME NEW r \in Runs, CloneError(r) \/ CloneKilled(r) PROVE TInv'
    <2>1. CacheTypeOK'
      BY <1>1, <1>8
         DEF CloneError, CloneKilled, CloneFails, TypeOK, CacheTypeOK, Partial, cache
    <2>2. cutClone' \in BOOLEAN
      BY <1>1, <1>8, Zenon DEF CloneError, CloneKilled, TypeOK
    <2> QED
      BY <1>1, <1>2, <1>8, <2>1, <2>2
         DEF CloneError, CloneKilled, Returns, TypeOK, PCs, shared, loop, crash
  <1>9. ASSUME NEW r \in Runs, Resolve(r) PROVE TInv'
    <2>1. currentRun \in Runs /\ want[r].branch \in Branches
      BY <1>1, <1>9 DEF Resolve, Goto
    <2>2. misfiled' \subseteq Runs \X Runs
      BY <1>1, <1>9, <2>1, FileTypes DEF Resolve
    <2>3. /\ want' \in [Runs -> [branch : Branches \cup {NoBranch}, commit : 0..MaxPushes,
                                 manual : BOOLEAN]]
          /\ \A x \in Runs : want'[x].branch = want[x].branch
      BY <1>1, <1>9, <2>1 DEF Resolve, TypeOK, CacheTypeOK
    <2> QED
      BY <1>1, <1>2, <1>9, <2>2, <2>3
         DEF Resolve, Goto, TypeOK, PCs, CacheTypeOK, shared, loop, crash, repo, cache
  <1>10. ASSUME NEW r \in Runs, AddWorktree(r) PROVE TInv'
    BY <1>1, <1>2, <1>10
       DEF AddWorktree, Goto, TypeOK, PCs, CacheTypeOK, shared, loop, crash, repo, cache
  <1>11. ASSUME NEW r \in Runs, Order(r) PROVE TInv'
    <2>1. misfiled' \subseteq Runs \X Runs
      <3>1. currentRun \in Runs
        BY <1>1, <1>11 DEF Order
      <3> QED
        BY <1>1, <1>11, <3>1, FileTypes DEF Order
    <2>2. CASE OrderFails(needs)
      <3>1. /\ pc' = [pc EXCEPT ![r] = "returned"] /\ pc' \in [Runs -> PCs]
            /\ result' \in [Runs -> {"none", "success", "failure", "error"}]
            /\ worktree' \in [Runs -> {"none", "temp", "checkout"}]
        BY <1>1, <1>11, <2>2 DEF Order, Returns, TypeOK, PCs
      <3>2. UNCHANGED <<shared, loop, jobRow, want, repo>>
        BY <1>11 DEF Order
      <3>3. TypeOK'
        BY <1>1, <1>2, <2>1, <3>1, <3>2
           DEF TypeOK, CacheTypeOK, shared, loop, crash, repo, cache
      <3>4. currentRun \in Runs /\ callbackRun \in Runs
        BY <1>1, <1>11 DEF Order
      <3> QED
        BY <1>1, <3>1, <3>2, <3>3, <3>4 DEF TypeOK, shared, loop
    <2>3. CASE ~OrderFails(needs)
      BY <1>1, <1>2, <1>11, <2>1, <2>3
         DEF Order, Goto, TypeOK, PCs, CacheTypeOK, shared, loop, crash, repo, cache
    <2> QED
      BY <2>2, <2>3
  <1>12. ASSUME NEW r \in Runs, NextLevel(r) PROVE TInv'
    <2>1. IsWorkflow(needs) /\ DOMAIN needs = JobIDs
      BY <1>12, NeedsIsWorkflow DEF NextLevel
    <2>2. level[r] \in Nat
      BY <1>1 DEF TypeOK
    <2>3. level[r] + 1 \in 1..Len(Waves(needs))
      BY <1>12, <2>1, <2>2, WaveCount DEF NextLevel
    <2>4. Waves(needs)[level[r] + 1] \subseteq JobIDs
      BY <2>1, <2>3, WaveAt
    <2>5. left' \in [Runs -> SUBSET JobIDs] /\ level' \in [Runs -> Nat]
      BY <1>1, <1>12, <2>4 DEF NextLevel, TypeOK
    <2> QED
      BY <1>1, <1>2, <1>12, <2>5
         DEF NextLevel, TypeOK, CacheTypeOK, shared, crash, repo, cache
  <1>13. ASSUME NEW r \in Runs, NEW id \in JobIDs, SkipJob(r, id) \/ StartJob(r, id) PROVE TInv'
    <2>1. /\ misfiled' \subseteq Runs \X Runs
          /\ jobRow' \in [Runs -> [JobIDs -> JobStatuses]]
      <3>1. callbackRun \in Runs
        BY <1>1, <1>13 DEF SkipJob, StartJob, Take
      <3>2. PICK status \in JobStatuses : Callback(r, id, status)
        BY <1>13 DEF SkipJob, StartJob, JobStatuses
      <3> QED
        BY <1>1, <3>1, <3>2, CallbackTypes
    <2>2. /\ left' \in [Runs -> SUBSET JobIDs] /\ job' \in [Runs -> JobIDs \cup {NoJob}]
          /\ settled' \in [Runs -> SUBSET JobIDs] /\ pc' \in [Runs -> PCs]
          /\ \A x \in Runs : \/ pc'[x] = pc[x] /\ job'[x] = job[x]
                             \/ x = r /\ pc[x] = "pick" /\ pc'[x] = "run" /\ job'[x] = id
      <3>1. CASE SkipJob(r, id)
        BY <1>1, <3>1 DEF SkipJob, Take, TypeOK
      <3>2. CASE StartJob(r, id)
        BY <1>1, <3>2 DEF StartJob, Take, TypeOK, PCs
      <3> QED
        BY <1>13, <3>1, <3>2
    <2> QED
      BY <1>1, <1>2, <1>13, <2>1, <2>2
         DEF SkipJob, StartJob, TypeOK, CacheTypeOK, shared, crash, repo, cache
  <1>14. ASSUME NEW r \in Runs, NEW status \in {"success", "failure"}, JobEnds(r, status)
         PROVE  TInv'
    <2>1. /\ misfiled' \subseteq Runs \X Runs
          /\ jobRow' \in [Runs -> [JobIDs -> JobStatuses]]
      <3>1. callbackRun \in Runs
        BY <1>1, <1>14 DEF JobEnds, Goto
      <3> QED
        BY <1>1, <1>14, <3>1, CallbackTypes DEF JobEnds, JobStatuses
    <2>2. /\ failedJobs' \in [Runs -> SUBSET JobIDs] /\ settled' \in [Runs -> SUBSET JobIDs]
          /\ job' \in [Runs -> JobIDs \cup {NoJob}] /\ pc' \in [Runs -> PCs]
      BY <1>1, <1>14 DEF JobEnds, Goto, TypeOK, PCs
    <2> QED
      BY <1>1, <1>2, <1>14, <2>1, <2>2
         DEF JobEnds, Goto, TypeOK, CacheTypeOK, shared, crash, repo, cache
  <1>15. ASSUME NEW r \in Runs, JobErrors(r) PROVE TInv'
    <2>1. /\ misfiled' \subseteq Runs \X Runs
          /\ jobRow' \in [Runs -> [JobIDs -> JobStatuses]]
      <3>1. callbackRun \in Runs
        BY <1>1, <1>15 DEF JobErrors
      <3> QED
        BY <1>1, <1>15, <3>1, CallbackTypes DEF JobErrors, JobStatuses
    <2> QED
      BY <1>1, <1>2, <1>15, <2>1
         DEF JobErrors, Returns, TypeOK, PCs, CacheTypeOK, shared, crash, repo, cache
  <1>16. ASSUME NEW r \in Runs, Return(r) \/ Leave(r) PROVE TInv'
    BY <1>1, <1>2, <1>16
       DEF Return, Returns, Leave, Goto, TypeOK, PCs, CacheTypeOK, shared, loop, crash, repo, cache
  <1>17. CASE Crash
    <2>1. cutClone' \in BOOLEAN
      BY <1>17, Zenon DEF Crash
    <2>2. crashes' \in 0..MaxCrashes
      BY <1>1, <1>17, RunnerAssumption DEF Crash, TypeOK
    <2>3. pc' \in [Runs -> PCs] /\ \A r \in Runs : pc'[r] \in {"idle", "gone"}
      BY <1>1, <1>17 DEF Crash, TypeOK, PCs, Live
    <2> QED
      BY <1>1, <1>2, <1>17, <2>1, <2>2, <2>3
         DEF Crash, TypeOK, CacheTypeOK, cache
  <1>18. ASSUME NEW b \in Branches, PushToGitHub(b) PROVE TInv'
    <2>1. upstream' \in [Branches -> 1..MaxPushes]
      BY <1>1, <1>18, CacheAssumption DEF PushToGitHub, Push, TypeOK, CacheTypeOK
    <2> QED
      BY <1>1, <1>2, <1>18, <2>1
         DEF PushToGitHub, Push, TypeOK, CacheTypeOK, shared, loop, crash, cache
  <1>19. CASE UNCHANGED vars
    BY <1>1, <1>2, <1>19 DEF vars, TypeOK, CacheTypeOK, shared, loop, crash, repo, cache
  <1> QED
    BY <1>3, <1>4, <1>5, <1>6, <1>7, <1>8, <1>9, <1>10, <1>11, <1>12, <1>13, <1>14, <1>15,
       <1>16, <1>17, <1>18, <1>19 DEF Next

(***************************************************************************)
(* Types, and the semaphore's bound on concurrent calls of Run, for any    *)
(* workflows, runs and bounds.                                             *)
(***************************************************************************)
THEOREM TypeCorrect == Spec => []TypeOK
  <1>1. TInv => TypeOK
    BY DEF TInv
  <1> QED
    BY <1>1, InitTInv, NextTInv, PTL DEF Spec

-------------------------------------------------------------------------------
(***************************************************************************)
(* WaveOf(g, id) is the one wave that holds the job.                       *)
(***************************************************************************)
LEMMA WaveOfIs ==
  ASSUME NEW g, IsWorkflow(g), NEW n \in 1..Len(Waves(g)), NEW id \in Waves(g)[n]
  PROVE  WaveOf(g, id) = n
  <1>1. DOMAIN Waves(g) = 1..Len(Waves(g))
    BY WavesType
  <1>2. ASSUME NEW k \in 1..Len(Waves(g)), id \in Waves(g)[k] PROVE k = n
    <2>1. ~(k < n) /\ ~(n < k)
      BY <1>2, WavesDisjoint
    <2> QED
      BY <2>1, WaveCount
  <1> QED
    BY <1>1, <1>2 DEF WaveOf

(***************************************************************************)
(* BuildExecutionOrder fails for exactly the workflows without an order,   *)
(* and puts each job of the others as early as its needs allow, for every  *)
(* workflow of finitely many jobs (workflow.go:162-215).                   *)
(***************************************************************************)
LEMMA OrderCorrect == TypeOK => OrderIsEarliest
  <1> SUFFICES ASSUME TypeOK PROVE OrderIsEarliest
    OBVIOUS
  <1>1. DOMAIN needs = JobIDs /\ IsFiniteSet(DOMAIN needs)
    BY RunnerAssumption DEF TypeOK
  <1>2. CASE NeedsUnknown(needs)
    BY <1>2 DEF OrderIsEarliest, OrderFails
  <1>3. CASE ~NeedsUnknown(needs)
    <2>1. IsWorkflow(needs)
      BY <1>1, <1>3 DEF IsWorkflow
    <2>2. HasCycle(needs) <=> Circular(needs)
      BY <2>1, CycleDetection DEF Circular, IsCircle
    <2>3. ASSUME ~OrderFails(needs), NEW id \in JobIDs
          PROVE  /\ \A k, n \in DOMAIN Waves(needs) :
                      id \in Waves(needs)[k] \cap Waves(needs)[n] => k = n
                 /\ \A d \in needs[id] : WaveOf(needs, d) < WaveOf(needs, id)
                 /\ WaveOf(needs, id) > 1 =>
                      \E d \in needs[id] : WaveOf(needs, d) = WaveOf(needs, id) - 1
      <3>1. DOMAIN Waves(needs) = 1..Len(Waves(needs)) /\ Len(Waves(needs)) \in Nat
        BY <2>1, WavesType, WaveCount
      <3>2. PICK n \in 1..Len(Waves(needs)) : id \in Waves(needs)[n]
        <4>1. Taken(needs, Len(Waves(needs))) = DOMAIN needs
          BY <2>1, <2>3, AllAreTaken DEF OrderFails
        <4> QED
          BY <1>1, <4>1 DEF Taken
      <3>3. WaveOf(needs, id) = n
        BY <2>1, <3>2, WaveOfIs
      <3>4. ASSUME NEW k \in 1..Len(Waves(needs)), id \in Waves(needs)[k] PROVE k = n
        BY <2>1, <3>3, <3>4, WaveOfIs
      <3>5. ASSUME NEW d \in needs[id] PROVE WaveOf(needs, d) < n
        <4>1. PICK k \in 1..(n - 1) : d \in Waves(needs)[k]
          BY <2>1, <3>2, NeedsAreEarlier
        <4>2. k \in 1..Len(Waves(needs)) /\ k < n
          BY <3>1
        <4>3. WaveOf(needs, d) = k
          BY <2>1, <4>1, <4>2, WaveOfIs
        <4> QED
          BY <4>2, <4>3
      <3>6. ASSUME n > 1 PROVE \E d \in needs[id] : WaveOf(needs, d) = n - 1
        <4>1. n \in 2..Len(Waves(needs)) /\ n - 1 \in 1..Len(Waves(needs))
          BY <3>1, <3>6
        <4>2. PICK d \in needs[id] : d \in Waves(needs)[n - 1]
          BY <2>1, <3>2, <4>1, SomeNeedIsJustBefore
        <4>3. WaveOf(needs, d) = n - 1
          BY <2>1, <4>1, <4>2, WaveOfIs
        <4> QED
          BY <4>3
      <3> QED
        BY <3>1, <3>3, <3>4, <3>5, <3>6
    <2> QED
      BY <1>3, <2>2, <2>3 DEF OrderIsEarliest, OrderFails
  <1> QED
    BY <1>2, <1>3

(***************************************************************************)
(* The order every run follows is right, whatever the workflow file says.  *)
(***************************************************************************)
THEOREM OrderIsRight == Spec => []OrderIsEarliest
  BY OrderCorrect, TypeCorrect, PTL

-------------------------------------------------------------------------------
(***************************************************************************)
(* The job loop (runner.go:274-320).  Before it a run has taken nothing;   *)
(* inside it the jobs settled and those of the current wave that are not   *)
(* are together the waves taken so far.                                    *)
(***************************************************************************)
BeforeLoop == {"idle", "wire", "connect", "clone", "cloning", "fetch", "resolve", "worktree",
               "order"}

\* The run has not begun with its jobs.
Untouched(r) == level[r] = 0 /\ left[r] = {} /\ failedJobs[r] = {} /\ settled[r] = {}

\* The job the loop is at, if it is at one.
Running(r) == IF pc[r] = "run" THEN {job[r]} ELSE {}

\* The run has settled the waves before the current one, and of that one all but the
\* jobs left and the job it runs, whose needs did not fail.
InLoop(r) ==
  /\ level[r] \in 0..Len(Waves(needs))
  /\ left[r] \cup Running(r) \subseteq InWave(needs, level[r])
  /\ settled[r] \cup left[r] \cup Running(r) = Taken(needs, level[r])
  /\ left[r] \cap Running(r) = {}
  /\ settled[r] \cap (left[r] \cup Running(r)) = {}
  /\ failedJobs[r] \subseteq settled[r]
  /\ \A id \in Running(r) : needs[id] \cap failedJobs[r] = {}

\* The inductive invariant of the job loop.
LoopInv ==
  \A r \in Runs : /\ pc[r] \in BeforeLoop => Untouched(r)
                  /\ pc[r] \in {"pick", "run"} => InLoop(r)

(***************************************************************************)
(* A step that leaves the loop's variables alone.                          *)
(***************************************************************************)
LEMMA OutsideLoop ==
  ASSUME LoopInv, UNCHANGED <<needs, loop>>,
         \A x \in Runs : \/ pc'[x] = pc[x]
                         \/ pc[x] \in BeforeLoop /\ pc'[x] \in BeforeLoop
                         \/ pc'[x] \in {"returned", "gone"}
  PROVE  LoopInv'
  <1> SUFFICES ASSUME NEW x \in Runs
               PROVE  /\ pc'[x] \in BeforeLoop => Untouched(x)'
                      /\ pc'[x] \in {"pick", "run"} => InLoop(x)'
    BY DEF LoopInv
  <1>1. BeforeLoop \cap {"pick", "run", "returned", "gone"} = {}
    BY DEF BeforeLoop
  <1>2. CASE pc'[x] = pc[x]
    BY <1>2 DEF LoopInv, Untouched, InLoop, Running, loop
  <1>3. CASE pc[x] \in BeforeLoop /\ pc'[x] \in BeforeLoop
    BY <1>1, <1>3 DEF LoopInv, Untouched, loop
  <1>4. CASE pc'[x] \in {"returned", "gone"}
    BY <1>1, <1>4
  <1> QED
    BY <1>2, <1>3, <1>4

(***************************************************************************)
(* BuildExecutionOrder has succeeded: the loop starts with nothing taken.  *)
(***************************************************************************)
LEMMA LoopStarts ==
  ASSUME TInv, LoopInv, NEW r \in Runs, Order(r)
  PROVE  LoopInv'
  <1>1. pc \in [Runs -> PCs] /\ UNCHANGED <<needs, loop>> /\ pc[r] = "order"
    BY DEF TInv, TypeOK, Order, shared
  <1>2. CASE OrderFails(needs)
    BY <1>1, <1>2, OutsideLoop DEF Order, Returns
  <1>3. CASE ~OrderFails(needs)
    <2>1. pc' = [pc EXCEPT ![r] = "pick"]
      BY <1>3 DEF Order, Goto
    <2>2. Untouched(r)
      BY <1>1 DEF LoopInv, BeforeLoop
    <2>3. IsWorkflow(needs)
      BY <1>3, RunnerAssumption DEF TInv, TypeOK, OrderFails, IsWorkflow
    <2>4. 0 \in 0..Len(Waves(needs)) /\ Taken(needs, 0) = {}
      BY <2>3, WaveCount DEF Taken
    <2>5. InLoop(r)'
      BY <1>1, <2>1, <2>2, <2>4 DEF InLoop, Untouched, Running, loop
    <2>6. ASSUME NEW x \in Runs \ {r}
          PROVE  /\ pc'[x] \in BeforeLoop => Untouched(x)'
                 /\ pc'[x] \in {"pick", "run"} => InLoop(x)'
      BY <1>1, <2>1 DEF LoopInv, Untouched, InLoop, Running, loop
    <2>7. pc'[r] \notin BeforeLoop
      BY <1>1, <2>1 DEF BeforeLoop
    <2> QED
      BY <2>5, <2>6, <2>7 DEF LoopInv
  <1> QED
    BY <1>2, <1>3

(***************************************************************************)
(* A step inside the loop of run r leaves the other runs alone.            *)
(***************************************************************************)
LEMMA InsideLoop ==
  ASSUME LoopInv, needs' = needs, NEW r \in Runs, pc'[r] \in {"pick", "run"}, InLoop(r)',
         \A x \in Runs \ {r} : /\ pc'[x] = pc[x] /\ level'[x] = level[x] /\ left'[x] = left[x]
                               /\ job'[x] = job[x] /\ settled'[x] = settled[x]
                               /\ failedJobs'[x] = failedJobs[x]
  PROVE  LoopInv'
  <1> SUFFICES ASSUME NEW x \in Runs
               PROVE  /\ pc'[x] \in BeforeLoop => Untouched(x)'
                      /\ pc'[x] \in {"pick", "run"} => InLoop(x)'
    BY DEF LoopInv
  <1>1. CASE x = r
    BY <1>1 DEF BeforeLoop
  <1>2. CASE x # r
    BY <1>2 DEF LoopInv, Untouched, InLoop, Running
  <1> QED
    BY <1>1, <1>2

\* Every step of the runner keeps it.
LEMMA NextLoopInv == TInv /\ LoopInv /\ [Next]_vars => LoopInv'
  <1> SUFFICES ASSUME TInv, LoopInv, [Next]_vars PROVE LoopInv'
    OBVIOUS
  <1>1. TypeOK
    BY DEF TInv
  <1>2. ASSUME NEW r \in Runs,
               \/ Launch(r) \/ Wire(r) \/ Connect(r) \/ SetupFails(r)
               \/ BeginClone(r) \/ EndClone(r) \/ CloneError(r) \/ CloneKilled(r)
               \/ Fetch(r) \/ Resolve(r) \/ AddWorktree(r)
        PROVE  LoopInv'
    <2>1. UNCHANGED <<needs, loop>>
      BY <1>2 DEF Launch, Wire, Connect, SetupFails, BeginClone, EndClone, CloneError,
                  CloneKilled, Fetch, Resolve, AddWorktree, shared
    <2>2. \A x \in Runs : \/ pc'[x] = pc[x]
                          \/ pc[x] \in BeforeLoop /\ pc'[x] \in BeforeLoop
                          \/ pc'[x] \in {"returned", "gone"}
      BY <1>1, <1>2 DEF Launch, Wire, Connect, SetupFails, BeginClone, EndClone, CloneError,
                  CloneKilled, Fetch, Resolve, AddWorktree, Goto, Returns, TypeOK, BeforeLoop
    <2> QED
      BY <2>1, <2>2, OutsideLoop
  <1>3. ASSUME NEW r \in Runs, Order(r) PROVE LoopInv'
    BY <1>3, LoopStarts
  <1>4. ASSUME NEW r \in Runs, NextLevel(r) PROVE LoopInv'
    <2>1. InLoop(r) /\ IsWorkflow(needs) /\ pc[r] = "pick"
      BY <1>4, NeedsIsWorkflow DEF NextLevel, LoopInv
    <2>2. level[r] \in Nat /\ level[r] < Len(Waves(needs))
          /\ level[r] + 1 \in 0..Len(Waves(needs))
      BY <1>1, <1>4, <2>1, WaveCount DEF NextLevel, TypeOK
    <2>3. /\ Taken(needs, level[r] + 1) = Taken(needs, level[r]) \cup Waves(needs)[level[r] + 1]
          /\ Taken(needs, level[r]) \cap Waves(needs)[level[r] + 1] = {}
          /\ Waves(needs)[level[r] + 1] = InWave(needs, level[r] + 1)
      BY <2>1, <2>2, TakenStep
    <2>4. /\ needs' = needs /\ pc' = pc /\ job' = job /\ settled' = settled
          /\ failedJobs' = failedJobs
          /\ level'[r] = level[r] + 1 /\ left'[r] = Waves(needs)[level[r] + 1] /\ left[r] = {}
      BY <1>1, <1>4 DEF NextLevel, shared, TypeOK
    <2>5. InLoop(r)'
      BY <2>1, <2>2, <2>3, <2>4 DEF InLoop, Running
    <2>6. \A x \in Runs \ {r} : level'[x] = level[x] /\ left'[x] = left[x]
      BY <1>1, <1>4 DEF NextLevel, TypeOK
    <2> QED
      BY <2>1, <2>4, <2>5, <2>6, InsideLoop
  <1>5. ASSUME NEW r \in Runs, NEW id \in JobIDs, SkipJob(r, id) PROVE LoopInv'
    <2>1. InLoop(r) /\ pc[r] = "pick" /\ id \in left[r]
      BY <1>5 DEF SkipJob, Take, LoopInv
    <2>2. /\ needs' = needs /\ pc' = pc /\ job' = job /\ level' = level
          /\ failedJobs' = failedJobs
          /\ left'[r] = left[r] \ {id} /\ settled'[r] = settled[r] \cup {id}
          /\ \A x \in Runs \ {r} : left'[x] = left[x] /\ settled'[x] = settled[x]
      BY <1>1, <1>5 DEF SkipJob, Take, shared, TypeOK
    <2>3. InLoop(r)'
      BY <2>1, <2>2 DEF InLoop, Running
    <2> QED
      BY <2>1, <2>2, <2>3, InsideLoop
  <1>6. ASSUME NEW r \in Runs, NEW id \in JobIDs, StartJob(r, id) PROVE LoopInv'
    <2>1. InLoop(r) /\ pc[r] = "pick" /\ id \in left[r] /\ needs[id] \cap failedJobs[r] = {}
      BY <1>6 DEF StartJob, Take, LoopInv, DepFailed
    <2>2. /\ needs' = needs /\ level' = level /\ settled' = settled /\ failedJobs' = failedJobs
          /\ pc'[r] = "run" /\ job'[r] = id /\ left'[r] = left[r] \ {id}
          /\ \A x \in Runs \ {r} : pc'[x] = pc[x] /\ job'[x] = job[x] /\ left'[x] = left[x]
      BY <1>1, <1>6 DEF StartJob, Take, shared, TypeOK
    <2>3. InLoop(r)'
      BY <2>1, <2>2 DEF InLoop, Running
    <2> QED
      BY <2>2, <2>3, InsideLoop
  <1>7. ASSUME NEW r \in Runs, NEW status \in {"success", "failure"}, JobEnds(r, status)
        PROVE  LoopInv'
    <2>1. InLoop(r) /\ pc[r] = "run"
      BY <1>7 DEF JobEnds, Goto, LoopInv
    <2>2. /\ needs' = needs /\ level' = level /\ left' = left
          /\ pc'[r] = "pick" /\ settled'[r] = settled[r] \cup {job[r]}
          /\ failedJobs'[r] \subseteq failedJobs[r] \cup {job[r]}
          /\ \A x \in Runs \ {r} : /\ pc'[x] = pc[x] /\ job'[x] = job[x]
                                   /\ settled'[x] = settled[x]
                                   /\ failedJobs'[x] = failedJobs[x]
      BY <1>1, <1>7 DEF JobEnds, Goto, shared, TypeOK
    <2>3. InLoop(r)'
      BY <2>1, <2>2 DEF InLoop, Running
    <2> QED
      BY <2>2, <2>3, InsideLoop
  <1>8. ASSUME NEW r \in Runs, JobErrors(r) PROVE LoopInv'
    <2>1. /\ UNCHANGED <<needs, level, left, failedJobs, settled>>
          /\ pc' = [pc EXCEPT ![r] = "returned"] /\ job' = [job EXCEPT ![r] = NoJob]
      BY <1>8 DEF JobErrors, Returns, shared
    <2> SUFFICES ASSUME NEW x \in Runs
                 PROVE  /\ pc'[x] \in BeforeLoop => Untouched(x)'
                        /\ pc'[x] \in {"pick", "run"} => InLoop(x)'
      BY DEF LoopInv
    <2>2. CASE x = r
      BY <1>1, <2>1, <2>2 DEF BeforeLoop, TypeOK
    <2>3. CASE x # r
      BY <1>1, <2>1, <2>3 DEF LoopInv, Untouched, InLoop, Running, TypeOK
    <2> QED
      BY <2>2, <2>3
  <1>9. ASSUME NEW r \in Runs, Return(r) \/ Leave(r) PROVE LoopInv'
    BY <1>1, <1>9, OutsideLoop DEF Return, Leave, Returns, Goto, TypeOK, shared
  <1>10. CASE Crash
    <2>1. UNCHANGED <<needs, level, left, failedJobs, settled>>
      BY <1>10 DEF Crash
    <2>2. \A x \in Runs : pc'[x] = "gone" \/ (pc[x] = "idle" /\ pc'[x] = "idle")
      BY <1>1, <1>10 DEF Crash, Live, TypeOK
    <2> QED
      BY <2>1, <2>2 DEF LoopInv, Untouched, BeforeLoop
  <1>11. ASSUME NEW b \in Branches, PushToGitHub(b) PROVE LoopInv'
    BY <1>11, OutsideLoop DEF PushToGitHub, shared
  <1>12. CASE UNCHANGED vars
    BY <1>12, OutsideLoop DEF vars, shared
  <1> QED
    BY <1>2, <1>3, <1>4, <1>5, <1>6, <1>7, <1>8, <1>9, <1>10, <1>11, <1>12 DEF Next

\* No run is in its loop at the start.
LEMMA InitLoopInv == Init => LoopInv
  BY DEF Init, LoopInv, Untouched, BeforeLoop

(***************************************************************************)
(* A job starts only after each of its needs was settled in the same run   *)
(* and none of them failed, for every workflow and any number of           *)
(* concurrent runs (runner.go:282-297).                                    *)
(***************************************************************************)
THEOREM NeedsComeFirst == Spec => []JobRunsAfterNeeds
  <1>1. TInv /\ LoopInv => JobRunsAfterNeeds
    <2> SUFFICES ASSUME TInv, LoopInv, NEW r \in Runs, pc[r] = "run"
                 PROVE  /\ needs[job[r]] \subseteq settled[r]
                        /\ needs[job[r]] \cap failedJobs[r] = {}
      BY DEF JobRunsAfterNeeds
    <2>1. InLoop(r) /\ Running(r) = {job[r]}
      BY DEF LoopInv, Running
    <2>2. IsWorkflow(needs)
      BY NeedsIsWorkflow
    <2>3. level[r] \in 0..Len(Waves(needs)) /\ job[r] \in InWave(needs, level[r])
      BY <2>1 DEF InLoop
    <2>4. /\ needs[job[r]] \subseteq Taken(needs, level[r])
          /\ needs[job[r]] \cap InWave(needs, level[r]) = {}
      BY <2>2, <2>3, NeedsAreTaken
    <2> QED
      BY <2>1, <2>4 DEF InLoop
  <1> QED
    BY <1>1, InitTInv, NextTInv, InitLoopInv, NextLoopInv, PTL DEF Spec

-------------------------------------------------------------------------------
(***************************************************************************)
(* A workspace on disk belongs to a run that is between its setup and its  *)
(* return, or was cut off by a crash.                                      *)
(***************************************************************************)
TreeInv ==
  \A r \in Runs : worktree[r] # "none" =>
    /\ pc[r] \notin {"idle", "returned"}
    /\ pc[r] = "gone" => r \in crashed

\* Every step of the runner keeps it.
LEMMA NextTreeInv == TInv /\ TreeInv /\ [Next]_vars => TreeInv'
  <1> SUFFICES ASSUME TInv, TreeInv, [Next]_vars PROVE TreeInv'
    OBVIOUS
  <1>1. /\ pc \in [Runs -> PCs] /\ worktree \in [Runs -> {"none", "temp", "checkout"}]
    BY DEF TInv, TypeOK
  <1> USE DEF TreeInv
  <1>2. ASSUME NEW r \in Runs,
               \/ Launch(r) \/ Wire(r) \/ Connect(r)
               \/ BeginClone(r) \/ EndClone(r) \/ Fetch(r) \/ Resolve(r) \/ AddWorktree(r)
        PROVE  TreeInv'
    BY <1>1, <1>2 DEF Launch, Wire, Connect, BeginClone, EndClone, Fetch, Resolve, AddWorktree,
                      Goto, shared, crash
  <1>3. ASSUME NEW r \in Runs,
               \/ SetupFails(r) \/ CloneError(r) \/ CloneKilled(r) \/ JobErrors(r) \/ Return(r)
        PROVE  TreeInv'
    BY <1>1, <1>3 DEF SetupFails, CloneError, CloneKilled, JobErrors, Return, Returns,
                      shared, crash
  <1>4. ASSUME NEW r \in Runs, Order(r) PROVE TreeInv'
    BY <1>1, <1>4 DEF Order, Returns, Goto, shared, crash
  <1>5. ASSUME NEW r \in Runs,
               \/ NextLevel(r) \/ Leave(r)
               \/ \E id \in JobIDs : SkipJob(r, id) \/ StartJob(r, id)
               \/ \E status \in {"success", "failure"} : JobEnds(r, status)
        PROVE  TreeInv'
    BY <1>1, <1>5 DEF NextLevel, Leave, SkipJob, StartJob, JobEnds, Take, Goto, shared, crash
  <1>6. CASE Crash
    BY <1>1, <1>6 DEF Crash, Live
  <1>7. ASSUME NEW b \in Branches, PushToGitHub(b) PROVE TreeInv'
    BY <1>7 DEF PushToGitHub, shared, crash
  <1>8. CASE UNCHANGED vars
    BY <1>8 DEF vars, shared, crash
  <1> QED
    BY <1>2, <1>3, <1>4, <1>5, <1>6, <1>7, <1>8 DEF Next

(***************************************************************************)
(* Whatever way Run takes out, the workspace is removed; only a crash      *)
(* leaves it (runner.go:147-184, clone.go:46-60).  Any concurrency.        *)
(***************************************************************************)
THEOREM WorkspacesGo == Spec => []WorktreesRemoved
  <1>1. Init => TreeInv
    BY DEF Init, TreeInv
  <1>2. TreeInv => WorktreesRemoved
    BY DEF TreeInv, WorktreesRemoved, Live
  <1> QED
    BY <1>1, <1>2, InitTInv, NextTInv, NextTreeInv, PTL DEF Spec

-------------------------------------------------------------------------------
(***************************************************************************)
(* refs/heads of the clone is written once.  While somebody clones, and    *)
(* while there is no directory, there is no ref; git refuses a directory   *)
(* that exists, so nobody else clones; and a fetch moves no ref.  So what  *)
(* a triggered run resolved is what the ref still says.                    *)
(***************************************************************************)
OneCloner == \A r, x \in Runs : pc[r] = "cloning" /\ pc[x] = "cloning" => r = x

\* A clone under way, or none at all, has no refs.
NoRefsYet ==
  /\ bareDir = "none" => refs = NoCommits
  /\ \A r \in Runs : pc[r] = "cloning" => refs = NoCommits /\ bareDir # "none"

\* What a triggered run resolved is what the ref of its branch says.
ResolvedIsRef ==
  \A r \in Runs : want[r].manual /\ want[r].commit # 0 =>
    want[r].branch \in Branches /\ want[r].commit = refs[want[r].branch]

\* The inductive invariant of the refs.
RefInv == OneCloner /\ NoRefsYet /\ ResolvedIsRef

\* A step that changes neither the clone nor what the runs want keeps it.
LEMMA RefFrame ==
  ASSUME RefInv, UNCHANGED <<want, bareDir, refs>>,
         \A x \in Runs : pc'[x] = "cloning" => pc[x] = "cloning"
  PROVE  RefInv'
  BY DEF RefInv, OneCloner, NoRefsYet, ResolvedIsRef

\* Every step of the runner keeps it.
LEMMA NextRefInv == TInv /\ RefInv /\ [Next]_vars => RefInv'
  <1> SUFFICES ASSUME TInv, RefInv, [Next]_vars PROVE RefInv'
    OBVIOUS
  <1>1. /\ pc \in [Runs -> PCs] /\ CacheTypeOK
        /\ want \in [Runs -> [branch : Branches \cup {NoBranch}, commit : 0..MaxPushes,
                              manual : BOOLEAN]]
    BY DEF TInv, TypeOK
  <1>2. ASSUME NEW r \in Runs, Launch(r) PROVE RefInv'
    <2>1. PICK req \in Requests : want' = [want EXCEPT ![r] = req]
      BY <1>2 DEF Launch
    <2>2. req.manual => req.commit = 0
      BY <2>1 DEF Requests
    <2>3. UNCHANGED <<bareDir, refs>> /\ \A x \in Runs : pc'[x] = "cloning" => pc[x] = "cloning"
      BY <1>1, <1>2 DEF Launch, Goto, repo, cache
    <2> QED
      BY <1>1, <2>1, <2>2, <2>3 DEF RefInv, OneCloner, NoRefsYet, ResolvedIsRef
  <1>3. ASSUME NEW r \in Runs,
               \/ Wire(r) \/ Connect(r) \/ SetupFails(r) \/ CloneKilled(r) \/ Fetch(r)
               \/ AddWorktree(r)
        PROVE  RefInv'
    <2>1. /\ UNCHANGED <<want, bareDir, refs>>
          /\ \A x \in Runs : pc'[x] = "cloning" => pc[x] = "cloning"
      BY <1>1, <1>3 DEF Wire, Connect, SetupFails, CloneKilled, Fetch, Fetches, AddWorktree,
                        Goto, Returns, repo, cache
    <2> QED
      BY <2>1, RefFrame
  <1>4. ASSUME NEW r \in Runs, BeginClone(r) PROVE RefInv'
    BY <1>1, <1>4 DEF BeginClone, CloneBegins, Goto, BareExists, Partial,
                      RefInv, OneCloner, NoRefsYet, ResolvedIsRef
  <1>5. ASSUME NEW r \in Runs, EndClone(r) PROVE RefInv'
    <2>1. /\ pc[r] = "cloning" /\ pc' = [pc EXCEPT ![r] = "resolve"] /\ want' = want
          /\ bareDir' = "linked"
      BY <1>5 DEF EndClone, CloneEnds, Goto
    <2>2. \A x \in Runs : want[x].manual => want[x].commit = 0
      BY <2>1 DEF RefInv, NoRefsYet, ResolvedIsRef, NoCommits
    <2>3. \A x \in Runs : pc'[x] # "cloning"
      BY <1>1, <2>1 DEF RefInv, OneCloner
    <2> QED
      BY <2>1, <2>2, <2>3 DEF RefInv, OneCloner, NoRefsYet, ResolvedIsRef
  <1>6. ASSUME NEW r \in Runs, CloneError(r) PROVE RefInv'
    BY <1>1, <1>6 DEF CloneError, CloneFails, Returns,
                      RefInv, OneCloner, NoRefsYet, ResolvedIsRef
  <1>7. ASSUME NEW r \in Runs, Resolve(r) PROVE RefInv'
    <2>1. want[r].branch \in Branches
      BY <1>7 DEF TInv, HasRepo, Resolve, Goto
    <2>2. UNCHANGED <<bareDir, refs>> /\ \A x \in Runs : pc'[x] = "cloning" => pc[x] = "cloning"
      BY <1>1, <1>7 DEF Resolve, Goto, repo, cache
    <2>3. CASE want[r].manual
      <3>1. want' = [want EXCEPT ![r].commit = refs[want[r].branch]]
        BY <1>7, <2>3 DEF Resolve
      <3> QED
        BY <1>1, <2>1, <2>2, <3>1 DEF RefInv, OneCloner, NoRefsYet, ResolvedIsRef
    <2>4. CASE ~want[r].manual
      <3>1. want' = want
        BY <1>7, <2>4 DEF Resolve
      <3> QED
        BY <2>2, <3>1, RefFrame
    <2> QED
      BY <2>3, <2>4
  <1>8. ASSUME NEW r \in Runs,
               \/ Order(r) \/ NextLevel(r) \/ Return(r) \/ JobErrors(r) \/ Leave(r)
               \/ \E id \in JobIDs : SkipJob(r, id) \/ StartJob(r, id)
               \/ \E status \in {"success", "failure"} : JobEnds(r, status)
        PROVE  RefInv'
    <2>1. /\ UNCHANGED <<want, bareDir, refs>>
          /\ \A x \in Runs : pc'[x] = "cloning" => pc[x] = "cloning"
      BY <1>1, <1>8 DEF Order, NextLevel, Return, JobErrors, Leave, SkipJob, StartJob, JobEnds,
                        Take, Goto, Returns, repo, cache
    <2> QED
      BY <2>1, RefFrame
  <1>9. CASE Crash
    <2>1. /\ UNCHANGED <<want, bareDir, refs>>
          /\ \A x \in Runs : pc'[x] = "cloning" => pc[x] = "cloning"
      BY <1>1, <1>9 DEF Crash, cache
    <2> QED
      BY <2>1, RefFrame
  <1>10. ASSUME NEW b \in Branches, PushToGitHub(b) PROVE RefInv'
    BY <1>10, RefFrame DEF PushToGitHub, Push, cache
  <1>11. CASE UNCHANGED vars
    BY <1>11, RefFrame DEF vars, repo, cache
  <1> QED
    BY <1>2, <1>3, <1>4, <1>5, <1>6, <1>7, <1>8, <1>9, <1>10, <1>11 DEF Next

\* Two triggered runs of one branch that resolved it resolved it alike.
TriggeredRunsRepeat ==
  \A r, x \in Runs :
    /\ want[r].manual /\ want[x].manual
    /\ want[r].branch = want[x].branch
    /\ want[r].commit # 0 /\ want[x].commit # 0
    => want[r].commit = want[x].commit

(***************************************************************************)
(* What the stale ref amounts to, however many runs, fetches and pushes    *)
(* there are: rev-parse reads refs/heads of the bare clone and the fetch   *)
(* moves no ref there (runner.go:162-173, clone.go:17-23), so every        *)
(* triggered run of a branch checks out the commit the first one did.      *)
(***************************************************************************)
THEOREM TriggeredRunsAgree == Spec => []TriggeredRunsRepeat
  <1>1. Init => RefInv
    BY DEF Init, CacheInit, NoCommits, RefInv, OneCloner, NoRefsYet, ResolvedIsRef
  <1>2. RefInv => TriggeredRunsRepeat
    BY DEF RefInv, ResolvedIsRef, TriggeredRunsRepeat
  <1> QED
    BY <1>1, <1>2, InitTInv, NextTInv, NextRefInv, PTL DEF Spec

-------------------------------------------------------------------------------
\* What a run is to check out is on GitHub, and what the clone has came from there.
NotAhead ==
  /\ \A b \in Branches : refs[b] <= objects[b] /\ objects[b] <= upstream[b]
  /\ \A r \in Runs : ~want[r].manual /\ want[r].branch \in Branches =>
       want[r].commit <= upstream[want[r].branch]

\* A directory that is no whole clone is being cloned into, or was cut off.
PartialIsCloned ==
  /\ bareDir \in {"void", "init"} /\ ~cutClone => \E r \in Runs : pc[r] = "cloning"
  /\ \A r \in Runs : pc[r] = "fetch" /\ ~cutClone => bareDir = "linked"

\* What a run past clone or fetch is to check out is in the clone.
Fetched ==
  \A r \in Runs :
    /\ pc[r] \in {"resolve", "worktree"} /\ want[r].branch = Default /\ ~want[r].manual
         /\ ~cutClone => want[r].commit <= objects[Default]
    /\ pc[r] = "worktree" /\ want[r].manual => want[r].commit <= objects[want[r].branch]

\* The inductive invariant of the fetched objects.
FetchInv == NotAhead /\ PartialIsCloned /\ Fetched

\* One run at a time.
Solo == \A r, x \in Runs : Live(r) /\ Live(x) => r = x

(***************************************************************************)
(* A semaphore with one slot admits one run.                               *)
(***************************************************************************)
LEMMA OneSlot ==
  ASSUME MaxConcurrency = 1, TypeOK
  PROVE  Solo
  <1> SUFFICES ASSUME NEW r \in Runs, NEW x \in Runs, Live(r), Live(x), r # x
               PROVE  FALSE
    BY DEF Solo
  <1>1. IsFiniteSet(LiveRuns) /\ Cardinality(LiveRuns) <= 1
    BY RunnerAssumption, FS_Subset DEF TypeOK, LiveRuns
  <1>2. {r} \cup {x} \subseteq LiveRuns
    BY DEF LiveRuns
  <1>3. IsFiniteSet({r}) /\ Cardinality({r}) = 1
    BY FS_Singleton
  <1>4. Cardinality({r} \cup {x}) = 2
    BY <1>3, FS_AddElement
  <1>5. Cardinality({r} \cup {x}) <= Cardinality(LiveRuns)
    BY <1>1, <1>2, FS_Subset
  <1>6. Cardinality(LiveRuns) \in Nat
    BY <1>1, FS_CardinalityType
  <1> QED
    BY <1>1, <1>4, <1>5, <1>6

\* A step that fetches nothing and moves no run towards its checkout keeps it.
LEMMA FetchFrame ==
  ASSUME FetchInv, UNCHANGED <<want, bareDir, objects, refs, upstream, cutClone>>,
         \A x \in Runs : /\ pc'[x] \in {"fetch", "resolve", "worktree"} => pc'[x] = pc[x]
                         /\ pc[x] = "cloning" => pc'[x] = "cloning"
  PROVE  FetchInv'
  BY DEF FetchInv, NotAhead, PartialIsCloned, Fetched

\* With one run at a time every step keeps it.
LEMMA NextFetchInv == Solo /\ TInv /\ FetchInv /\ [Next]_vars => FetchInv'
  <1> SUFFICES ASSUME Solo, TInv, FetchInv, [Next]_vars PROVE FetchInv'
    OBVIOUS
  <1>1. /\ pc \in [Runs -> PCs] /\ CacheTypeOK
        /\ want \in [Runs -> [branch : Branches \cup {NoBranch}, commit : 0..MaxPushes,
                              manual : BOOLEAN]]
    BY DEF TInv, TypeOK
  <1> USE DEF FetchInv
  <1>2. ASSUME NEW r \in Runs, Launch(r) PROVE FetchInv'
    <2>1. PICK req \in Requests : /\ ~req.manual => req.commit = upstream[req.branch]
                                  /\ want' = [want EXCEPT ![r] = req]
      BY <1>2 DEF Launch
    <2>2. /\ UNCHANGED <<bareDir, objects, refs, upstream, cutClone>>
          /\ pc' = [pc EXCEPT ![r] = "wire"] /\ pc[r] = "idle"
      BY <1>2 DEF Launch, Goto, repo, cache
    <2>3. NotAhead'
      BY <1>1, <2>1, <2>2 DEF NotAhead, CacheTypeOK
    <2> QED
      BY <1>1, <2>1, <2>2, <2>3 DEF PartialIsCloned, Fetched
  <1>3. ASSUME NEW r \in Runs, Wire(r) \/ SetupFails(r) \/ AddWorktree(r) PROVE FetchInv'
    <2>1. /\ UNCHANGED <<want, bareDir, objects, refs, upstream, cutClone>>
          /\ \A x \in Runs : /\ pc'[x] \in {"fetch", "resolve", "worktree"} => pc'[x] = pc[x]
                             /\ pc[x] = "cloning" => pc'[x] = "cloning"
      BY <1>1, <1>3 DEF Wire, SetupFails, AddWorktree, Goto, Returns, repo, cache
    <2> QED
      BY <2>1, FetchFrame
  <1>4. ASSUME NEW r \in Runs, Connect(r) PROVE FetchInv'
    <2>1. /\ UNCHANGED <<want, bareDir, objects, refs, upstream, cutClone>> /\ pc[r] = "connect"
          /\ \A x \in Runs \ {r} : pc'[x] = pc[x]
          /\ pc'[r] \in {"order", "clone", "fetch"}
          /\ pc'[r] = "fetch" => BareExists
      BY <1>1, <1>4 DEF Connect, repo, cache
    \* Nobody else is there to be cloning into the directory.
    <2>2. \A x \in Runs : pc[x] # "cloning"
      BY <2>1 DEF Solo, Live
    <2>3. pc'[r] = "fetch" /\ ~cutClone => bareDir = "linked"
      BY <1>1, <2>1, <2>2 DEF PartialIsCloned, BareExists, CacheTypeOK, Partial
    <2> QED
      BY <2>1, <2>2, <2>3 DEF NotAhead, PartialIsCloned, Fetched
  <1>5. ASSUME NEW r \in Runs, BeginClone(r) PROVE FetchInv'
    BY <1>1, <1>5 DEF BeginClone, CloneBegins, Goto, BareExists, Partial,
                      NotAhead, PartialIsCloned, Fetched, Solo, Live
  <1>6. ASSUME NEW r \in Runs, EndClone(r) PROVE FetchInv'
    <2>1. /\ UNCHANGED <<want, upstream, cutClone>> /\ bareDir' = "linked"
          /\ objects' = upstream /\ refs' = upstream
          /\ pc[r] = "cloning" /\ pc' = [pc EXCEPT ![r] = "resolve"]
      BY <1>6 DEF EndClone, CloneEnds, Goto
    <2>2. NotAhead'
      BY <1>1, <2>1 DEF NotAhead, CacheTypeOK
    <2>3. PartialIsCloned'
      BY <2>1 DEF PartialIsCloned
    <2>4. \A x \in Runs : x # r => pc'[x] \notin {"resolve", "worktree"}
      BY <1>1, <2>1 DEF Solo, Live
    <2>5. Fetched'
      BY <1>1, <2>1, <2>2, <2>4, CacheAssumption DEF Fetched, NotAhead
    <2> QED
      BY <2>2, <2>3, <2>5
  <1>7. ASSUME NEW r \in Runs, CloneError(r) PROVE FetchInv'
    <2>1. /\ UNCHANGED <<want, objects, refs, upstream, cutClone>> /\ bareDir' = "none"
          /\ pc[r] = "cloning" /\ pc' = [pc EXCEPT ![r] = "returned"]
      BY <1>7 DEF CloneError, CloneFails, Returns
    <2>2. \A x \in Runs : pc'[x] # "fetch"
      BY <1>1, <2>1 DEF Solo, Live
    <2> QED
      BY <1>1, <2>1, <2>2 DEF NotAhead, PartialIsCloned, Fetched
  <1>8. ASSUME NEW r \in Runs, CloneKilled(r) PROVE FetchInv'
    <2>1. /\ UNCHANGED <<want, objects, refs, upstream, bareDir>> /\ cutClone'
          /\ pc' = [pc EXCEPT ![r] = "returned"]
      BY <1>8 DEF CloneKilled, Returns, cache
    <2> QED
      BY <1>1, <2>1 DEF NotAhead, PartialIsCloned, Fetched
  <1>9. ASSUME NEW r \in Runs, Fetch(r) PROVE FetchInv'
    <2>1. /\ UNCHANGED <<want, refs, upstream, bareDir, cutClone>>
          /\ pc[r] = "fetch" /\ pc' = [pc EXCEPT ![r] = "resolve"]
          /\ objects' = IF bareDir = "linked" THEN [objects EXCEPT ![Default] = upstream[Default]]
                        ELSE objects
      BY <1>9 DEF Fetch, Fetches, Goto
    <2>2. NotAhead'
      BY <1>1, <2>1, CacheAssumption DEF NotAhead, CacheTypeOK
    <2>3. PartialIsCloned'
      BY <1>1, <2>1 DEF PartialIsCloned
    <2>4. ~cutClone => objects'[Default] = upstream[Default]
      BY <1>1, <2>1, CacheAssumption DEF PartialIsCloned, CacheTypeOK
    <2>5. \A x \in Runs : x # r => pc'[x] \notin {"resolve", "worktree"}
      BY <1>1, <2>1 DEF Solo, Live
    <2>6. Fetched'
      BY <1>1, <2>1, <2>2, <2>4, <2>5, CacheAssumption DEF Fetched, NotAhead
    <2> QED
      BY <2>2, <2>3, <2>6
  <1>10. ASSUME NEW r \in Runs, Resolve(r) PROVE FetchInv'
    <2>1. /\ UNCHANGED <<objects, refs, upstream, bareDir, cutClone>>
          /\ pc[r] = "resolve" /\ pc' = [pc EXCEPT ![r] = "worktree"]
      BY <1>10 DEF Resolve, Goto, repo, cache
    <2>2. want[r].branch \in Branches
      BY <2>1 DEF TInv, HasRepo
    <2>3. /\ \A x \in Runs \ {r} : want'[x] = want[x]
          /\ want'[r].branch = want[r].branch /\ (want'[r].manual <=> want[r].manual)
          /\ want[r].manual => want'[r].commit = refs[want[r].branch]
          /\ ~want[r].manual => want'[r].commit = want[r].commit
      BY <1>1, <1>10 DEF Resolve
    <2> QED
      BY <1>1, <2>1, <2>2, <2>3 DEF NotAhead, PartialIsCloned, Fetched
  <1>11. ASSUME NEW r \in Runs,
                \/ Order(r) \/ NextLevel(r) \/ Return(r) \/ JobErrors(r) \/ Leave(r)
                \/ \E id \in JobIDs : SkipJob(r, id) \/ StartJob(r, id)
                \/ \E status \in {"success", "failure"} : JobEnds(r, status)
         PROVE  FetchInv'
    <2>1. /\ UNCHANGED <<want, bareDir, objects, refs, upstream, cutClone>>
          /\ \A x \in Runs : /\ pc'[x] \in {"fetch", "resolve", "worktree"} => pc'[x] = pc[x]
                             /\ pc[x] = "cloning" => pc'[x] = "cloning"
      BY <1>1, <1>11 DEF Order, NextLevel, Return, JobErrors, Leave, SkipJob, StartJob, JobEnds,
                         Take, Goto, Returns, repo, cache
    <2> QED
      BY <2>1, FetchFrame
  <1>12. CASE Crash
    <2>1. /\ UNCHANGED <<want, bareDir, objects, refs, upstream>>
          /\ \A x \in Runs : pc'[x] \in {"idle", "gone"}
          /\ cutClone' <=> (cutClone \/ \E x \in Runs : pc[x] = "cloning")
      BY <1>1, <1>12 DEF Crash, Live, cache
    <2> QED
      BY <2>1 DEF NotAhead, PartialIsCloned, Fetched
  <1>13. ASSUME NEW b \in Branches, PushToGitHub(b) PROVE FetchInv'
    <2>1. /\ UNCHANGED <<want, pc, bareDir, objects, refs, cutClone>>
          /\ upstream' = [upstream EXCEPT ![b] = @ + 1]
      BY <1>13 DEF PushToGitHub, Push, cache
    <2>2. \A c \in Branches : upstream[c] <= upstream'[c] /\ upstream'[c] \in Nat
      BY <1>1, <2>1 DEF CacheTypeOK
    <2>3. NotAhead'
      BY <1>1, <2>1, <2>2 DEF NotAhead, CacheTypeOK
    <2> QED
      BY <2>1, <2>3 DEF PartialIsCloned, Fetched
  <1>14. CASE UNCHANGED vars
    BY <1>14, FetchFrame DEF vars, repo, cache
  <1> QED
    BY <1>2, <1>3, <1>4, <1>5, <1>6, <1>7, <1>8, <1>9, <1>10, <1>11, <1>12, <1>13, <1>14 DEF Next

(***************************************************************************)
(* One run at a time: the commit of a push to the default branch, and what *)
(* a triggered run of it resolved, is in the clone when the checkout needs *)
(* it, however old the clone is, unless a clone was cut off before         *)
(* (clone.go:16-25).                                                       *)
(***************************************************************************)
THEOREM CheckoutFindsCommit ==
  ASSUME MaxConcurrency = 1
  PROVE  Spec => []CommitIsFetched
  <1>1. Init => FetchInv
    <2> SUFFICES ASSUME Init PROVE FetchInv
      OBVIOUS
    <2>1. NotAhead
      BY RunnerAssumption DEF Init, CacheInit, NoCommits, NotAhead
    <2>2. PartialIsCloned /\ Fetched
      BY DEF Init, CacheInit, PartialIsCloned, Fetched
    <2> QED
      BY <2>1, <2>2 DEF FetchInv
  <1>2. TInv => Solo
    BY OneSlot DEF TInv
  <1>3. FetchInv => CommitIsFetched
    BY DEF FetchInv, Fetched, CommitIsFetched, HasCommit
  <1> QED
    BY <1>1, <1>2, <1>3, InitTInv, NextTInv, NextFetchInv, PTL DEF Spec

-------------------------------------------------------------------------------
(***************************************************************************)
(* One run at a time: the fields of the runner object are those of the run *)
(* that uses them, so that all it does is filed under its ID, and the rows *)
(* of a run follow its loop.                                               *)
(***************************************************************************)
OwnFields ==
  \A r \in Runs : pc[r] \notin {"idle", "wire", "gone"} => currentRun = r /\ callbackRun = r

\* Before the loop a run has no job rows and no result.
RowsBefore(r) == result[r] = "none" /\ \A id \in JobIDs : jobRow[r][id] = "none"

\* In the loop the rows are those of the settled jobs and of the one that runs.
RowsInLoop(r) ==
  /\ result[r] = "none"
  /\ \A id \in JobIDs :
       /\ id \in settled[r] => jobRow[r][id] \in {"success", "failure", "skipped"}
       /\ id \notin settled[r] => jobRow[r][id] = IF id \in Running(r) THEN "running" ELSE "none"
       /\ id \in failedJobs[r] <=> jobRow[r][id] = "failure"
       /\ jobRow[r][id] = "skipped" => needs[id] \cap failedJobs[r] # {}

\* After it the result is what the rows say.
RowsAfter(r) ==
  /\ r \notin crashed => \A id \in JobIDs : jobRow[r][id] # "running"
  /\ \A id, jd \in JobIDs : jobRow[r][id] = "running" /\ jobRow[r][jd] = "running" => id = jd
  /\ result[r] = "success" => \A id \in JobIDs : jobRow[r][id] = "success"
  /\ result[r] = "failure" =>
       /\ \E id \in JobIDs : jobRow[r][id] = "failure"
       /\ \A id \in JobIDs : jobRow[r][id] \in {"success", "failure", "skipped"}
       /\ \A id \in JobIDs : jobRow[r][id] = "skipped" =>
            \E d \in needs[id] \cap JobIDs : jobRow[r][d] = "failure"

\* The rows of a run, by where it is.
Rows(r) ==
  /\ pc[r] \in BeforeLoop => RowsBefore(r)
  /\ pc[r] \in {"pick", "run"} => RowsInLoop(r)
  /\ pc[r] \in {"returned", "gone"} => RowsAfter(r)

\* The inductive invariant of one run at a time.
SoloInv == OwnFields /\ RecordedUnderOwnID /\ \A r \in Runs : Rows(r)

(***************************************************************************)
(* The rows of a run no step touches; and of one that moves on before its  *)
(* first job, with or without an error.                                    *)
(***************************************************************************)
LEMMA RowsFrame ==
  ASSUME NEW x \in Runs, Rows(x), needs' = needs, pc'[x] = pc[x], jobRow'[x] = jobRow[x],
         result'[x] = result[x], settled'[x] = settled[x], failedJobs'[x] = failedJobs[x],
         job'[x] = job[x], crashed' = crashed
  PROVE  Rows(x)'
  BY DEF Rows, RowsBefore, RowsInLoop, RowsAfter, Running

\* A run that moves on before its first job, with or without an error.
LEMMA RowsSetup ==
  ASSUME NEW x \in Runs, Rows(x), pc[x] \in BeforeLoop, jobRow'[x] = jobRow[x],
         \/ pc'[x] \in BeforeLoop /\ result'[x] = result[x]
         \/ pc'[x] = "returned" /\ result'[x] = "error"
  PROVE  Rows(x)'
  <1>1. RowsBefore(x)
    BY DEF Rows
  <1>2. CASE pc'[x] \in BeforeLoop /\ result'[x] = result[x]
    BY <1>1, <1>2 DEF Rows, RowsBefore, BeforeLoop
  <1>3. CASE pc'[x] = "returned" /\ result'[x] = "error"
    BY <1>1, <1>3 DEF Rows, RowsBefore, RowsAfter, BeforeLoop
  <1> QED
    BY <1>2, <1>3

(***************************************************************************)
(* A callback of run r writes the row of its own job only, and files it    *)
(* under its own ID.                                                       *)
(***************************************************************************)
LEMMA OwnCallback ==
  ASSUME TypeOK, OwnFields, RecordedUnderOwnID, NEW r \in Runs, NEW id \in JobIDs,
         NEW status, pc[r] \notin {"idle", "wire", "gone"}, Callback(r, id, status)
  PROVE  /\ RecordedUnderOwnID'
         /\ \A x \in Runs \ {r} : jobRow'[x] = jobRow[x]
         /\ jobRow'[r][id] = status
         /\ \A jd \in JobIDs \ {id} : jobRow'[r][jd] = jobRow[r][jd]
  <1>1. callbackRun = r
    BY DEF OwnFields
  <1>2. misfiled' = {}
    BY <1>1 DEF Callback, File, RecordedUnderOwnID
  <1>3. jobRow \in [Runs -> [JobIDs -> JobStatuses]]
    BY DEF TypeOK
  <1>4. jobRow' = [jobRow EXCEPT ![r] = [jobRow[r] EXCEPT ![id] = status]]
    BY <1>1 DEF Callback
  <1> QED
    BY <1>2, <1>3, <1>4 DEF RecordedUnderOwnID

\* With one run at a time every step keeps it.
LEMMA NextSoloInv == Solo /\ TInv /\ LoopInv /\ SoloInv /\ [Next]_vars => SoloInv'
  <1> SUFFICES ASSUME Solo, TInv, LoopInv, SoloInv, [Next]_vars PROVE SoloInv'
    OBVIOUS
  <1>1. TypeOK /\ OwnFields /\ RecordedUnderOwnID /\ \A x \in Runs : Rows(x)
    BY DEF TInv, SoloInv
  \* Only one run is past Wire, so one that gets there finds no other.
  <1>2. /\ pc \in [Runs -> PCs]
         /\ result \in [Runs -> {"none", "success", "failure", "error"}]
    BY <1>1 DEF TypeOK
  <1>3. ASSUME NEW r \in Runs, Launch(r) PROVE SoloInv'
    <2>1. /\ UNCHANGED <<shared, loop, result, jobRow, misfiled>>
          /\ pc[r] = "idle" /\ pc' = [pc EXCEPT ![r] = "wire"]
      BY <1>3 DEF Launch, Goto
    <2>2. OwnFields' /\ RecordedUnderOwnID'
      BY <1>1, <1>2, <2>1 DEF OwnFields, RecordedUnderOwnID, shared
    <2>3. Rows(r)'
      BY <1>1, <1>2, <2>1, RowsSetup DEF BeforeLoop
    <2>4. ASSUME NEW x \in Runs \ {r} PROVE Rows(x)'
      BY <1>1, <1>2, <2>1, RowsFrame DEF shared, loop, crash
    <2> QED
      BY <2>2, <2>3, <2>4 DEF SoloInv
  <1>4. ASSUME NEW r \in Runs, Wire(r) PROVE SoloInv'
    <2>1. /\ UNCHANGED <<needs, crash, loop, result, jobRow, misfiled>>
          /\ pc[r] = "wire" /\ pc' = [pc EXCEPT ![r] = "connect"]
          /\ currentRun' = r /\ callbackRun' = r
      BY <1>4 DEF Wire, Goto
    <2>2. \A x \in Runs \ {r} : pc[x] \in {"idle", "gone"}
      BY <2>1 DEF Solo, Live
    <2>3. OwnFields' /\ RecordedUnderOwnID'
      BY <1>1, <1>2, <2>1, <2>2 DEF OwnFields, RecordedUnderOwnID
    <2>4. Rows(r)'
      BY <1>1, <1>2, <2>1, RowsSetup DEF BeforeLoop
    <2>5. ASSUME NEW x \in Runs \ {r} PROVE Rows(x)'
      BY <1>1, <1>2, <2>1, RowsFrame DEF loop, crash
    <2> QED
      BY <2>3, <2>4, <2>5 DEF SoloInv
  <1>5. ASSUME NEW r \in Runs,
               \/ Connect(r) \/ SetupFails(r) \/ BeginClone(r) \/ EndClone(r) \/ CloneError(r)
               \/ CloneKilled(r) \/ Fetch(r) \/ AddWorktree(r)
        PROVE  SoloInv'
    <2>1. /\ UNCHANGED <<shared, loop, jobRow, misfiled>>
          /\ pc[r] \in BeforeLoop \ {"idle", "wire"}
          /\ \A x \in Runs \ {r} : pc'[x] = pc[x] /\ result'[x] = result[x]
          /\ \/ pc'[r] \in BeforeLoop \ {"idle", "wire"} /\ result'[r] = result[r]
             \/ pc'[r] = "returned" /\ result'[r] = "error"
      BY <1>2, <1>5 DEF Connect, SetupFails, BeginClone, EndClone, CloneError, CloneKilled,
                         Fetch, AddWorktree, Goto, Returns, BeforeLoop
    <2>2. OwnFields' /\ RecordedUnderOwnID'
      BY <1>1, <1>2, <2>1 DEF OwnFields, RecordedUnderOwnID, shared, BeforeLoop
    <2>3. Rows(r)'
      BY <1>1, <2>1, RowsSetup
    <2>4. ASSUME NEW x \in Runs \ {r} PROVE Rows(x)'
      BY <1>1, <2>1, RowsFrame DEF shared, loop, crash
    <2> QED
      BY <2>2, <2>3, <2>4 DEF SoloInv
  <1>6. ASSUME NEW r \in Runs, Resolve(r) PROVE SoloInv'
    <2>1. /\ UNCHANGED <<shared, loop, result, jobRow>>
          /\ pc[r] = "resolve" /\ pc' = [pc EXCEPT ![r] = "worktree"]
      BY <1>6 DEF Resolve, Goto
    <2>2. misfiled' = {}
      BY <1>1, <1>6, <2>1 DEF Resolve, File, OwnFields, RecordedUnderOwnID
    <2>3. OwnFields' /\ RecordedUnderOwnID'
      BY <1>1, <1>2, <2>1, <2>2 DEF OwnFields, RecordedUnderOwnID, shared
    <2>4. Rows(r)'
      BY <1>1, <1>2, <2>1, RowsSetup DEF BeforeLoop
    <2>5. ASSUME NEW x \in Runs \ {r} PROVE Rows(x)'
      BY <1>1, <1>2, <2>1, RowsFrame DEF shared, loop, crash
    <2> QED
      BY <2>3, <2>4, <2>5 DEF SoloInv
  <1>7. ASSUME NEW r \in Runs, Order(r) PROVE SoloInv'
    <2>1. UNCHANGED <<shared, loop, jobRow>> /\ pc[r] = "order"
      BY <1>7 DEF Order
    <2>2. misfiled' = {}
      BY <1>1, <1>7, <2>1 DEF Order, File, OwnFields, RecordedUnderOwnID
    <2>3. /\ \A x \in Runs \ {r} : pc'[x] = pc[x] /\ result'[x] = result[x]
          /\ \/ pc'[r] = "returned" /\ result'[r] = "error"
             \/ pc'[r] = "pick" /\ result'[r] = result[r]
      BY <1>2, <1>7 DEF Order, Goto, Returns
    <2>4. OwnFields' /\ RecordedUnderOwnID'
      BY <1>1, <1>2, <2>1, <2>2, <2>3 DEF OwnFields, RecordedUnderOwnID, shared
    <2>5. Rows(r)'
      <3>1. CASE pc'[r] = "returned" /\ result'[r] = "error"
        BY <1>1, <2>1, <3>1, RowsSetup DEF BeforeLoop
      <3>2. CASE pc'[r] = "pick" /\ result'[r] = result[r]
        <4>1. RowsBefore(r) /\ Untouched(r)
          BY <1>1, <2>1 DEF Rows, LoopInv, BeforeLoop
        <4> QED
          BY <2>1, <3>2, <4>1
             DEF Rows, RowsBefore, RowsInLoop, Untouched, Running, BeforeLoop, loop
      <3> QED
        BY <2>3, <3>1, <3>2
    <2>6. ASSUME NEW x \in Runs \ {r} PROVE Rows(x)'
      BY <1>1, <2>1, <2>3, RowsFrame DEF shared, loop, crash
    <2> QED
      BY <2>4, <2>5, <2>6 DEF SoloInv
  <1>8. ASSUME NEW r \in Runs, NextLevel(r) PROVE SoloInv'
    <2>1. UNCHANGED <<shared, pc, job, failedJobs, settled, result, jobRow, misfiled>>
      BY <1>8 DEF NextLevel
    <2>2. \A x \in Runs : Rows(x)'
      BY <1>1, <2>1, RowsFrame DEF shared, crash
    <2> QED
      BY <1>1, <2>1, <2>2 DEF SoloInv, OwnFields, RecordedUnderOwnID, shared
  <1>9. ASSUME NEW r \in Runs, NEW id \in JobIDs, SkipJob(r, id) PROVE SoloInv'
    <2>1. /\ UNCHANGED <<shared, pc, job, failedJobs, result>> /\ pc[r] = "pick"
          /\ id \in left[r] /\ needs[id] \cap failedJobs[r] # {}
          /\ settled'[r] = settled[r] \cup {id}
          /\ \A x \in Runs \ {r} : settled'[x] = settled[x]
      BY <1>1, <1>9 DEF SkipJob, Take, DepFailed, TypeOK
    <2>2. /\ RecordedUnderOwnID'
          /\ \A x \in Runs \ {r} : jobRow'[x] = jobRow[x]
          /\ jobRow'[r][id] = "skipped"
          /\ \A jd \in JobIDs \ {id} : jobRow'[r][jd] = jobRow[r][jd]
      BY <1>1, <1>9, <2>1, OwnCallback DEF SkipJob
    <2>3. RowsInLoop(r) /\ InLoop(r)
      BY <1>1, <2>1 DEF Rows, LoopInv
    <2>4. id \notin settled[r] /\ id \notin failedJobs[r]
      BY <2>1, <2>3 DEF InLoop
    <2>5. RowsInLoop(r)'
      BY <2>1, <2>2, <2>3, <2>4 DEF RowsInLoop, Running, shared
    <2>6. Rows(r)'
      BY <2>1, <2>5 DEF Rows, BeforeLoop
    <2>7. ASSUME NEW x \in Runs \ {r} PROVE Rows(x)'
      BY <1>1, <2>1, <2>2, RowsFrame DEF shared, crash
    <2>8. OwnFields'
      BY <1>1, <2>1 DEF OwnFields, shared
    <2> QED
      BY <2>2, <2>6, <2>7, <2>8 DEF SoloInv
  <1>10. ASSUME NEW r \in Runs, NEW id \in JobIDs, StartJob(r, id) PROVE SoloInv'
    <2>1. /\ UNCHANGED <<shared, failedJobs, settled, result>> /\ pc[r] = "pick"
          /\ id \in left[r] /\ pc'[r] = "run" /\ job'[r] = id
          /\ \A x \in Runs \ {r} : pc'[x] = pc[x] /\ job'[x] = job[x]
      BY <1>1, <1>10 DEF StartJob, Take, TypeOK
    <2>2. /\ RecordedUnderOwnID'
          /\ \A x \in Runs \ {r} : jobRow'[x] = jobRow[x]
          /\ jobRow'[r][id] = "running"
          /\ \A jd \in JobIDs \ {id} : jobRow'[r][jd] = jobRow[r][jd]
      BY <1>1, <1>10, <2>1, OwnCallback DEF StartJob
    <2>3. RowsInLoop(r) /\ InLoop(r)
      BY <1>1, <2>1 DEF Rows, LoopInv
    <2>4. id \notin settled[r] /\ id \notin failedJobs[r]
      BY <2>1, <2>3 DEF InLoop
    <2>5. RowsInLoop(r)'
      BY <2>1, <2>2, <2>3, <2>4 DEF RowsInLoop, Running, shared
    <2>6. Rows(r)'
      BY <2>1, <2>5 DEF Rows, BeforeLoop
    <2>7. ASSUME NEW x \in Runs \ {r} PROVE Rows(x)'
      BY <1>1, <2>1, <2>2, RowsFrame DEF shared, crash
    <2>8. OwnFields'
      BY <1>1, <2>1 DEF OwnFields, shared
    <2> QED
      BY <2>2, <2>6, <2>7, <2>8 DEF SoloInv
  <1>11. ASSUME NEW r \in Runs, NEW status \in {"success", "failure"}, JobEnds(r, status)
        PROVE  SoloInv'
    <2>1. /\ UNCHANGED <<shared, result>> /\ pc[r] = "run" /\ pc'[r] = "pick"
          /\ settled'[r] = settled[r] \cup {job[r]}
          /\ failedJobs'[r] = IF status = "failure" THEN failedJobs[r] \cup {job[r]}
                              ELSE failedJobs[r]
          /\ \A x \in Runs \ {r} : /\ pc'[x] = pc[x] /\ job'[x] = job[x]
                                   /\ settled'[x] = settled[x]
                                   /\ failedJobs'[x] = failedJobs[x]
      BY <1>1, <1>11 DEF JobEnds, Goto, TypeOK
    <2>2. job[r] \in JobIDs
      BY <2>1 DEF TInv, Ordered
    <2>3. /\ RecordedUnderOwnID'
          /\ \A x \in Runs \ {r} : jobRow'[x] = jobRow[x]
          /\ jobRow'[r][job[r]] = status
          /\ \A jd \in JobIDs \ {job[r]} : jobRow'[r][jd] = jobRow[r][jd]
      BY <1>1, <1>11, <2>1, <2>2, OwnCallback DEF JobEnds
    <2>4. RowsInLoop(r) /\ InLoop(r) /\ Running(r) = {job[r]}
      BY <1>1, <2>1 DEF Rows, LoopInv, Running
    <2>5. job[r] \notin settled[r] /\ job[r] \notin failedJobs[r] /\ Running(r)' = {}
      BY <2>1, <2>4 DEF InLoop, Running
    <2>6. RowsInLoop(r)'
      <3>1. \A jd \in JobIDs : jd \in failedJobs'[r] <=> jobRow'[r][jd] = "failure"
        BY <2>1, <2>2, <2>3, <2>4, <2>5 DEF RowsInLoop
      <3>2. failedJobs[r] \subseteq failedJobs'[r]
        BY <2>1
      <3>3. \A jd \in JobIDs : jobRow'[r][jd] = "skipped" => needs[jd] \cap failedJobs'[r] # {}
        BY <2>2, <2>3, <2>4, <3>2 DEF RowsInLoop
      <3>4. \A jd \in JobIDs :
              /\ jd \in settled'[r] => jobRow'[r][jd] \in {"success", "failure", "skipped"}
              /\ jd \notin settled'[r] => jobRow'[r][jd] = "none"
        BY <2>1, <2>2, <2>3, <2>4 DEF RowsInLoop
      <3> QED
        BY <2>1, <2>4, <2>5, <3>1, <3>3, <3>4 DEF RowsInLoop, shared
    <2>7. Rows(r)'
      BY <2>1, <2>6 DEF Rows, BeforeLoop
    <2>8. ASSUME NEW x \in Runs \ {r} PROVE Rows(x)'
      BY <1>1, <2>1, <2>3, RowsFrame DEF shared, crash
    <2>9. OwnFields'
      BY <1>1, <2>1 DEF OwnFields, shared
    <2> QED
      BY <2>3, <2>7, <2>8, <2>9 DEF SoloInv
  <1>12. ASSUME NEW r \in Runs, JobErrors(r) PROVE SoloInv'
    <2>1. /\ UNCHANGED <<shared, failedJobs, settled>> /\ pc[r] = "run" /\ pc'[r] = "returned"
          /\ result'[r] = "error"
          /\ \A x \in Runs \ {r} : /\ pc'[x] = pc[x] /\ job'[x] = job[x]
                                   /\ result'[x] = result[x]
      BY <1>1, <1>12 DEF JobErrors, Returns, TypeOK
    <2>2. job[r] \in JobIDs
      BY <2>1 DEF TInv, Ordered
    <2>3. /\ RecordedUnderOwnID'
          /\ \A x \in Runs \ {r} : jobRow'[x] = jobRow[x]
          /\ jobRow'[r][job[r]] = "failure"
          /\ \A jd \in JobIDs \ {job[r]} : jobRow'[r][jd] = jobRow[r][jd]
      BY <1>1, <1>12, <2>1, <2>2, OwnCallback DEF JobErrors
    <2>4. RowsInLoop(r) /\ Running(r) = {job[r]}
      BY <1>1, <2>1 DEF Rows, Running
    <2>5. \A jd \in JobIDs : jobRow'[r][jd] # "running"
      BY <2>2, <2>3, <2>4 DEF RowsInLoop
    <2>6. Rows(r)'
      BY <2>1, <2>5 DEF Rows, RowsAfter, BeforeLoop
    <2>7. ASSUME NEW x \in Runs \ {r} PROVE Rows(x)'
      BY <1>1, <2>1, <2>3, RowsFrame DEF shared, crash
    <2>8. OwnFields'
      BY <1>1, <2>1 DEF OwnFields, shared
    <2> QED
      BY <2>3, <2>6, <2>7, <2>8 DEF SoloInv
  <1>13. ASSUME NEW r \in Runs, Return(r) PROVE SoloInv'
    <2>1. /\ UNCHANGED <<shared, loop, jobRow, misfiled>> /\ pc[r] = "pick"
          /\ left[r] = {} /\ level[r] = Len(Waves(needs)) /\ pc'[r] = "returned"
          /\ result'[r] = IF failedJobs[r] = {} THEN "success" ELSE "failure"
          /\ \A x \in Runs \ {r} : pc'[x] = pc[x] /\ result'[x] = result[x]
      BY <1>2, <1>13 DEF Return, Returns
    <2>2. RowsInLoop(r) /\ InLoop(r) /\ Running(r) = {}
      BY <1>1, <2>1 DEF Rows, LoopInv, Running
    <2>3. IsWorkflow(needs) /\ DOMAIN needs = JobIDs /\ ~HasCycle(needs)
      BY <2>1, NeedsIsWorkflow DEF TInv, Ordered, OrderFails
    <2>4. settled[r] = JobIDs
      BY <2>1, <2>2, <2>3, AllAreTaken DEF InLoop
    <2>5. failedJobs[r] \subseteq JobIDs
      BY <1>1 DEF TypeOK
    <2>6. RowsAfter(r)'
      <3>1. \A id \in JobIDs : jobRow'[r][id] \in {"success", "failure", "skipped"}
        BY <2>1, <2>2, <2>4 DEF RowsInLoop
      <3>2. \A id \in JobIDs : id \in failedJobs[r] <=> jobRow'[r][id] = "failure"
        BY <2>1, <2>2 DEF RowsInLoop
      <3>3. \A id \in JobIDs : jobRow'[r][id] = "skipped" => needs[id] \cap failedJobs[r] # {}
        BY <2>1, <2>2 DEF RowsInLoop
      <3>4. CASE failedJobs[r] = {}
        BY <2>1, <3>1, <3>2, <3>3, <3>4 DEF RowsAfter
      <3>5. CASE failedJobs[r] # {}
        <4>1. \E id \in JobIDs : jobRow'[r][id] = "failure"
          BY <2>5, <3>2, <3>5
        <4>2. \A id \in JobIDs : jobRow'[r][id] = "skipped" =>
                \E d \in needs[id] \cap JobIDs : jobRow'[r][d] = "failure"
          BY <2>5, <3>2, <3>3
        <4> QED
          BY <2>1, <3>1, <3>5, <4>1, <4>2 DEF RowsAfter, shared
      <3> QED
        BY <3>4, <3>5
    <2>7. Rows(r)'
      BY <2>1, <2>6 DEF Rows, BeforeLoop
    <2>8. ASSUME NEW x \in Runs \ {r} PROVE Rows(x)'
      BY <1>1, <2>1, RowsFrame DEF shared, loop, crash
    <2>9. OwnFields' /\ RecordedUnderOwnID'
      BY <1>1, <2>1 DEF OwnFields, RecordedUnderOwnID, shared
    <2> QED
      BY <2>7, <2>8, <2>9 DEF SoloInv
  <1>14. ASSUME NEW r \in Runs, Leave(r) PROVE SoloInv'
    <2>1. /\ UNCHANGED <<shared, loop, result, jobRow, misfiled>>
          /\ pc[r] = "returned" /\ pc' = [pc EXCEPT ![r] = "gone"]
      BY <1>14 DEF Leave, Goto
    <2>2. Rows(r)'
      BY <1>1, <1>2, <2>1 DEF Rows, RowsAfter, BeforeLoop, shared, crash
    <2>3. ASSUME NEW x \in Runs \ {r} PROVE Rows(x)'
      BY <1>1, <1>2, <2>1, RowsFrame DEF shared, loop, crash
    <2>4. OwnFields' /\ RecordedUnderOwnID'
      BY <1>1, <1>2, <2>1 DEF OwnFields, RecordedUnderOwnID, shared
    <2> QED
      BY <2>2, <2>3, <2>4 DEF SoloInv
  <1>15. CASE Crash
    <2>1. /\ UNCHANGED <<needs, result, jobRow, misfiled>>
          /\ crashed' = crashed \cup {x \in Runs : Live(x)}
          /\ \A x \in Runs : pc'[x] = IF Live(x) THEN "gone" ELSE pc[x]
      BY <1>15 DEF Crash
    <2>2. OwnFields' /\ RecordedUnderOwnID'
      BY <1>1, <1>2, <2>1 DEF OwnFields, RecordedUnderOwnID, Live
    <2>3. ASSUME NEW x \in Runs PROVE Rows(x)'
      <3>1. CASE pc[x] = "idle"
        BY <1>1, <2>1, <3>1 DEF Rows, RowsBefore, BeforeLoop, Live
      <3>2. CASE pc[x] \in BeforeLoop /\ pc[x] # "idle"
        <4>1. RowsBefore(x) /\ pc'[x] = "gone"
          BY <1>1, <2>1, <3>2 DEF Rows, BeforeLoop, Live
        <4> QED
          BY <2>1, <4>1 DEF Rows, RowsBefore, RowsAfter, BeforeLoop
      <3>3. CASE pc[x] \in {"pick", "run"}
        <4>1. RowsInLoop(x) /\ pc'[x] = "gone" /\ x \in crashed'
          BY <1>1, <2>1, <3>3 DEF Rows, Live
        <4>2. \A id \in JobIDs : jobRow[x][id] = "running" => id = job[x]
          BY <4>1 DEF RowsInLoop, Running
        <4> QED
          BY <2>1, <4>1, <4>2 DEF Rows, RowsInLoop, RowsAfter, BeforeLoop
      <3>4. CASE pc[x] \in {"returned", "gone"}
        <4>1. RowsAfter(x) /\ pc'[x] = "gone"
          BY <1>1, <2>1, <3>4 DEF Rows, Live
        <4> QED
          BY <2>1, <4>1 DEF Rows, RowsAfter, BeforeLoop
      <3> QED
        BY <1>2, <3>1, <3>2, <3>3, <3>4 DEF PCs, BeforeLoop
    <2> QED
      BY <2>2, <2>3 DEF SoloInv
  <1>16. ASSUME NEW b \in Branches, PushToGitHub(b) PROVE SoloInv'
    <2>1. UNCHANGED <<shared, pc, loop, result, jobRow, misfiled>>
      BY <1>16 DEF PushToGitHub
    <2>2. \A x \in Runs : Rows(x)'
      BY <1>1, <2>1, RowsFrame DEF shared, loop, crash
    <2> QED
      BY <1>1, <2>1, <2>2 DEF SoloInv, OwnFields, RecordedUnderOwnID, shared
  <1>17. CASE UNCHANGED vars
    <2>1. UNCHANGED <<shared, pc, loop, result, jobRow, misfiled>>
      BY <1>17 DEF vars
    <2>2. \A x \in Runs : Rows(x)'
      BY <1>1, <2>1, RowsFrame DEF shared, loop, crash
    <2> QED
      BY <1>1, <2>1, <2>2 DEF SoloInv, OwnFields, RecordedUnderOwnID, shared
  <1> QED
    BY <1>3, <1>4, <1>5, <1>6, <1>7, <1>8, <1>9, <1>10, <1>11, <1>12, <1>13, <1>14, <1>15,
       <1>16, <1>17 DEF Next

\* Nothing is filed at the start.
LEMMA InitSoloInv == Init => SoloInv
  BY DEF Init, SoloInv, OwnFields, RecordedUnderOwnID, Rows, RowsBefore, BeforeLoop

(***************************************************************************)
(* One run at a time: what a run does - the commit it resolves, its        *)
(* artifacts, its job rows - is filed under its own ID (runner.go:119,     *)
(* daemon.go:346-366).  With more slots the goroutines overwrite each      *)
(* other's fields, and the run of TLC shows rows filed under another run.  *)
(***************************************************************************)
THEOREM FiledUnderOwnID ==
  ASSUME MaxConcurrency = 1
  PROVE  Spec => []RecordedUnderOwnID
  <1>1. TInv => Solo
    BY OneSlot DEF TInv
  <1>2. SoloInv => RecordedUnderOwnID
    BY DEF SoloInv
  <1> QED
    BY <1>1, <1>2, InitTInv, NextTInv, InitLoopInv, NextLoopInv, InitSoloInv, NextSoloInv, PTL
       DEF Spec

(***************************************************************************)
(* One run at a time: what Run returns is what the job rows say, for any   *)
(* workflow (runner.go:274-320).                                           *)
(***************************************************************************)
THEOREM ResultAgreesWithRows ==
  ASSUME MaxConcurrency = 1
  PROVE  Spec => []ResultMatchesJobs
  <1>1. TInv => Solo
    BY OneSlot DEF TInv
  <1>2. TInv /\ SoloInv => ResultMatchesJobs
    <2> SUFFICES ASSUME TInv, SoloInv, NEW r \in Runs, result[r] \in {"success", "failure"}
                 PROVE  /\ result[r] = "success" => HasRow(r, "success") = JobIDs
                        /\ result[r] = "failure" =>
                             /\ HasRow(r, "failure") # {}
                             /\ HasRow(r, "success") \cup HasRow(r, "failure")
                                  \cup HasRow(r, "skipped") = JobIDs
                             /\ \A id \in HasRow(r, "skipped") :
                                  needs[id] \cap HasRow(r, "failure") # {}
      BY DEF ResultMatchesJobs
    <2>1. RowsAfter(r)
      BY DEF SoloInv, Rows, RowsBefore, RowsInLoop, BeforeLoop, TInv, TypeOK, PCs
    <2> QED
      BY <2>1 DEF RowsAfter, HasRow
  <1> QED
    BY <1>1, <1>2, InitTInv, NextTInv, InitLoopInv, NextLoopInv, InitSoloInv, NextSoloInv, PTL
       DEF Spec

(***************************************************************************)
(* One run at a time: a run that is over has no job row "running", but for *)
(* the one job a crash cut off (runner.go:304-312).                        *)
(***************************************************************************)
THEOREM RowsAreSettled ==
  ASSUME MaxConcurrency = 1
  PROVE  Spec => []RunEndSettlesJobs
  <1>1. TInv => Solo
    BY OneSlot DEF TInv
  <1>2. SoloInv => RunEndSettlesJobs
    <2> SUFFICES ASSUME SoloInv, NEW r \in Runs, ~Live(r)
                 PROVE  Cardinality(HasRow(r, "running")) <= IF r \in crashed THEN 1 ELSE 0
      BY DEF RunEndSettlesJobs
    <2>1. /\ r \notin crashed => HasRow(r, "running") = {}
          /\ \A id, jd \in HasRow(r, "running") : id = jd
      BY DEF SoloInv, Rows, RowsBefore, RowsAfter, BeforeLoop, Live, HasRow
    <2>2. CASE HasRow(r, "running") = {}
      BY <2>2, FS_EmptySet
    <2>3. CASE HasRow(r, "running") # {}
      <3>1. PICK id : HasRow(r, "running") = {id}
        BY <2>1, <2>3
      <3>2. Cardinality({id}) = 1
        BY FS_Singleton
      <3> QED
        BY <2>1, <3>1, <3>2
    <2> QED
      BY <2>2, <2>3
  <1> QED
    BY <1>1, <1>2, InitTInv, NextTInv, InitLoopInv, NextLoopInv, InitSoloInv, NextSoloInv, PTL
       DEF Spec
===============================================================================
