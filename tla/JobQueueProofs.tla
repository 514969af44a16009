---------------------------- MODULE JobQueueProofs ----------------------------
(***************************************************************************)
(* Theorems about JobQueue, for any number of consumers, any jobs and any  *)
(* capacity.                                                               *)
(***************************************************************************)
EXTENDS JobQueue, QueueOpsProofs, FiniteSetTheorems

(***************************************************************************)
(* The mutex is held exactly by the consumer that is inside the loop of    *)
(* Dequeue, and one that has decided to wait found the queue empty.        *)
(***************************************************************************)
MutexInv ==
  \A c \in Consumers :
    /\ pc[c] \in {"test", "wait"} <=> mu = c
    /\ pc[c] = "wait" => jobs = <<>>

\* The inductive invariant.
IInv == TypeOK /\ MutexInv /\ NoLostWakeup

-------------------------------------------------------------------------------
\* The queue New returns is empty.
LEMMA NoJobs ==
  ASSUME NEW S
  PROVE  <<>> \in Seq(S) /\ Len(<<>>) = 0
OBVIOUS

\* A new queue satisfies the invariant.
LEMMA InitInv == Init => IInv
<1> SUFFICES ASSUME Init PROVE IInv
  OBVIOUS
<1>1. jobs \in Seq(Jobs) /\ Len(jobs) = 0 /\ 0 <= Cap
  BY NoJobs, QueueAssumption DEF Init
<1>2. TypeOK
  BY <1>1 DEF Init, TypeOK, PCs
<1>3. MutexInv
  BY QueueAssumption DEF Init, MutexInv
<1>4. NoLostWakeup
  BY DEF Init, NoLostWakeup, Asleep
<1> QED  BY <1>2, <1>3, <1>4 DEF IInv

\* A broadcast leaves everyone awake and takes nobody out of the critical section.
LEMMA BroadcastFacts ==
  ASSUME TypeOK, pc' = Broadcasted
  PROVE  /\ pc' \in [Consumers -> PCs]
         /\ Asleep' = {}
         /\ \A c \in Consumers : /\ pc'[c] \in {"test", "wait"} <=> pc[c] \in {"test", "wait"}
                                 /\ pc'[c] = "wait" <=> pc[c] = "wait"
BY DEF TypeOK, Broadcasted, Asleep, PCs

\* A signal wakes one sleeper or finds none.
LEMMA SignalFacts ==
  ASSUME TypeOK, Signalled(pc')
  PROVE  \/ pc' = pc /\ Asleep = {}
         \/ \E c \in Consumers : pc[c] = "asleep" /\ pc' = [pc EXCEPT ![c] = "woken"]
BY DEF Signalled, Asleep

\* Every step keeps the types and the capacity (queue.go:31-46).
LEMMA TypeNext ==
  ASSUME TypeOK, [Next]_vars
  PROVE  TypeOK'
<1> USE DEF TypeOK, PCs, vars
<1>1. ASSUME NEW j \in Jobs, Enqueue(j)  PROVE TypeOK'
  <2>1. jobs' \in Seq(Jobs) /\ Len(jobs') <= Cap
    BY <1>1, EnqueuedFacts, QueueAssumption DEF Enqueue
  <2>2. pc' \in [Consumers -> PCs]
    <3>1. CASE EnqueueSignals(jobs, Cap)
      BY <1>1, <3>1, SignalFacts DEF Enqueue
    <3>2. CASE ~EnqueueSignals(jobs, Cap)
      BY <1>1, <3>2 DEF Enqueue
    <3> QED  BY <3>1, <3>2
  <2> QED  BY <1>1, <2>1, <2>2 DEF Enqueue
<1>2. ASSUME NEW c \in Consumers, DequeueCall(c) \/ Lock(c) \/ DequeueFail(c)  PROVE TypeOK'
  BY <1>2 DEF DequeueCall, Lock, DequeueFail, Return
<1>3. ASSUME NEW c \in Consumers, DecideToWait(c) \/ Wait(c)  PROVE TypeOK'
  BY <1>3 DEF DecideToWait, Wait
<1>4. ASSUME NEW c \in Consumers, DequeueJob(c)  PROVE TypeOK'
  <2>1. Head(jobs) \in Jobs /\ jobs' \in Seq(Jobs) /\ Len(jobs') <= Cap
    BY <1>4, TailElems, QueueAssumption DEF DequeueJob
  <2> QED  BY <1>4, <2>1 DEF DequeueJob, Return
<1>5. ASSUME NEW c \in Consumers, AfterFunc(c)  PROVE TypeOK'
  BY <1>5, BroadcastFacts DEF AfterFunc
<1>6. CASE Cancel
  BY <1>6 DEF Cancel
<1>7. CASE Close
  BY <1>7, BroadcastFacts DEF Close
<1>8. CASE UNCHANGED vars
  BY <1>8
<1> QED
  BY <1>1, <1>2, <1>3, <1>4, <1>5, <1>6, <1>7, <1>8 DEF Next, DequeueStep

\* Every step keeps the mutex with the one caller that is inside (queue.go:57-58).
LEMMA MutexNext ==
  ASSUME TypeOK, MutexInv, [Next]_vars
  PROVE  MutexInv'
<1> USE QueueAssumption DEF MutexInv, vars
<1>1. ASSUME NEW j \in Jobs, Enqueue(j)  PROVE MutexInv'
  <2>1. \A c \in Consumers : pc[c] \notin {"test", "wait"}
    BY <1>1 DEF Enqueue
  <2>2. CASE EnqueueSignals(jobs, Cap)
    <3>1. \A c \in Consumers : pc'[c] \notin {"test", "wait"}
      BY <1>1, <2>1, <2>2, SignalFacts DEF Enqueue, TypeOK
    <3> QED  BY <1>1, <3>1 DEF Enqueue
  <2>3. CASE ~EnqueueSignals(jobs, Cap)
    BY <1>1, <2>1, <2>3 DEF Enqueue
  <2> QED  BY <2>2, <2>3
<1>2. ASSUME NEW c \in Consumers, DequeueCall(c)  PROVE MutexInv'
  BY <1>2 DEF DequeueCall, TypeOK
<1>3. ASSUME NEW c \in Consumers, Lock(c)  PROVE MutexInv'
  BY <1>3 DEF Lock, TypeOK
<1>4. ASSUME NEW c \in Consumers, DequeueFail(c) \/ DequeueJob(c)  PROVE MutexInv'
  <2>1. /\ mu = c /\ mu' = NoOne
        /\ \A d \in Consumers : pc'[d] = pc[d] \/ (d = c /\ pc'[d] \in {"done", "idle"})
    BY <1>4 DEF DequeueFail, DequeueJob, Return, TypeOK
  <2>2. \A d \in Consumers : pc'[d] \notin {"test", "wait"}
    BY <1>4, <2>1 DEF DequeueFail, DequeueJob, Return, TypeOK
  <2> QED  BY <2>1, <2>2
<1>5. ASSUME NEW c \in Consumers, DecideToWait(c)  PROVE MutexInv'
  BY <1>5 DEF DecideToWait, TypeOK
<1>6. ASSUME NEW c \in Consumers, Wait(c)  PROVE MutexInv'
  BY <1>6 DEF Wait, TypeOK
<1>7. ASSUME NEW c \in Consumers, AfterFunc(c)  PROVE MutexInv'
  BY <1>7, BroadcastFacts DEF AfterFunc
<1>8. CASE Close
  BY <1>8, BroadcastFacts DEF Close
<1>9. CASE Cancel \/ UNCHANGED vars
  BY <1>9 DEF Cancel
<1> QED
  BY <1>1, <1>2, <1>3, <1>4, <1>5, <1>6, <1>7, <1>8, <1>9 DEF Next, DequeueStep

-------------------------------------------------------------------------------
\* The callers on their way are finitely many and can be counted.
LEMMA OnTheWayFinite == IsFiniteSet(OnTheWay) /\ Cardinality(OnTheWay) \in Nat
<1>1. IsFiniteSet(OnTheWay)
  BY QueueAssumption, FS_Subset DEF OnTheWay
<1> QED  BY <1>1, FS_CardinalityType

\* Every step keeps enough callers awake for the queued jobs: Enqueue signals
\* per append, a caller sleeps only on an empty queue (queue.go:31-35, 60-65).
LEMMA WakeupNext ==
  ASSUME TypeOK, MutexInv, NoLostWakeup, TypeOK', [Next]_vars
  PROVE  NoLostWakeup'
<1> DEFINE n == Cardinality(OnTheWay)
<1>1. n \in Nat /\ IsFiniteSet(OnTheWay) /\ Len(jobs) \in Nat
  BY OnTheWayFinite DEF TypeOK
<1>2. ASSUME jobs' = <<>>  PROVE NoLostWakeup'
  <2>1. Cardinality(OnTheWay') \in Nat
    <3>1. IsFiniteSet(OnTheWay')
      BY QueueAssumption, FS_Subset DEF OnTheWay
    <3> QED  BY <3>1, FS_CardinalityType
  <2>2. Len(jobs') = 0
    BY <1>2
  <2> QED  BY <2>1, <2>2 DEF NoLostWakeup
<1>3. ASSUME OnTheWay' = OnTheWay, Asleep' = Asleep, ctxDone' = ctxDone, Len(jobs') <= Len(jobs),
             Len(jobs') \in Nat
      PROVE  NoLostWakeup'
  BY <1>1, <1>3 DEF NoLostWakeup
<1>4. ASSUME NEW j \in Jobs, Enqueue(j)  PROVE NoLostWakeup'
  <2>1. CASE Len(jobs) < Cap
    <3>1. jobs' = Append(jobs, j) /\ Len(jobs') = Len(jobs) + 1
      BY <1>4, <2>1, AppendElems DEF Enqueue, Enqueued, TypeOK
    <3>2. CASE pc' = pc /\ Asleep = {}
      BY <3>2 DEF NoLostWakeup, Asleep
    <3>3. ASSUME NEW c \in Consumers, pc[c] = "asleep", pc' = [pc EXCEPT ![c] = "woken"]
          PROVE  NoLostWakeup'
      <4>1. OnTheWay' = OnTheWay \cup {c} /\ c \notin OnTheWay
        BY <3>3 DEF OnTheWay, TypeOK
      <4>2. Cardinality(OnTheWay') = n + 1
        BY <1>1, <4>1, FS_AddElement
      <4>3. ~ctxDone => Len(jobs) <= n
        BY <3>3 DEF NoLostWakeup, Asleep
      <4> QED  BY <1>1, <1>4, <3>1, <4>2, <4>3 DEF NoLostWakeup, Enqueue
    <3> QED  BY <1>4, <2>1, <3>2, <3>3, SignalFacts DEF Enqueue, EnqueueSignals
  <2>2. CASE ~(Len(jobs) < Cap)
    <3>1. Len(jobs') <= Cap /\ Len(jobs') \in Nat
      BY DEF TypeOK
    <3>2. UNCHANGED <<pc, ctxDone>> /\ Len(jobs') <= Len(jobs)
      BY <1>1, <1>4, <2>2, <3>1, QueueAssumption DEF Enqueue, EnqueueSignals
    <3> QED  BY <1>3, <3>1, <3>2 DEF OnTheWay, Asleep
  <2> QED  BY <2>1, <2>2
<1>5. ASSUME NEW c \in Consumers, DequeueCall(c)  PROVE NoLostWakeup'
  <2>1. OnTheWay' = OnTheWay \cup {c} /\ c \notin OnTheWay /\ Asleep' = Asleep
    BY <1>5 DEF DequeueCall, OnTheWay, Asleep, TypeOK
  <2>2. Cardinality(OnTheWay') = n + 1
    BY <1>1, <2>1, FS_AddElement
  <2> QED  BY <1>1, <1>5, <2>1, <2>2 DEF NoLostWakeup, DequeueCall
<1>6. ASSUME NEW c \in Consumers, Lock(c)  PROVE NoLostWakeup'
  <2>1. OnTheWay' = OnTheWay /\ Asleep' = Asleep
    BY <1>6 DEF Lock, OnTheWay, Asleep, TypeOK
  <2> QED  BY <1>1, <1>6, <1>3, <2>1 DEF Lock
<1>7. ASSUME NEW c \in Consumers, DequeueFail(c)  PROVE NoLostWakeup'
  <2>1. CASE ctxDone
    BY <1>7, <2>1 DEF DequeueFail, NoLostWakeup
  <2>2. CASE jobs = <<>>
    BY <1>7, <1>2, <2>2 DEF DequeueFail
  <2> QED  BY <1>7, <2>1, <2>2 DEF DequeueFail
<1>8. ASSUME NEW c \in Consumers, DecideToWait(c) \/ Wait(c)  PROVE NoLostWakeup'
  BY <1>2, <1>8 DEF DecideToWait, Wait, MutexInv
<1>9. ASSUME NEW c \in Consumers, DequeueJob(c)  PROVE NoLostWakeup'
  <2>1. OnTheWay' = OnTheWay \ {c} /\ c \in OnTheWay /\ Asleep' = Asleep
    BY <1>9 DEF DequeueJob, Return, OnTheWay, Asleep, TypeOK
  <2>2. Cardinality(OnTheWay') = n - 1
    BY <1>1, <2>1, FS_RemoveElement
  <2>3. Len(jobs') = Len(jobs) - 1
    BY <1>9, TailElems DEF DequeueJob, TypeOK
  <2> QED  BY <1>1, <1>9, <2>1, <2>2, <2>3 DEF NoLostWakeup, DequeueJob
<1>10. ASSUME pc' = Broadcasted  PROVE NoLostWakeup'
  BY <1>10, BroadcastFacts DEF NoLostWakeup
<1>11. CASE Cancel
  BY <1>11 DEF Cancel, NoLostWakeup
<1>12. CASE UNCHANGED vars
  BY <1>12 DEF vars, NoLostWakeup, OnTheWay, Asleep
<1> QED
  BY <1>4, <1>5, <1>6, <1>7, <1>8, <1>9, <1>10, <1>11, <1>12 DEF Next, DequeueStep, AfterFunc, Close

-------------------------------------------------------------------------------
\* The inductive invariant of the queue.
LEMMA QueueInvariant == Spec => []IInv
<1>1. IInv /\ [Next]_vars => IInv'
  BY TypeNext, MutexNext, WakeupNext DEF IInv
<1> QED  BY InitInv, <1>1, PTL DEF Spec

(***************************************************************************)
(* Every variable keeps its type, and the queue never outgrows its         *)
(* capacity (queue.go:31-46).                                              *)
(***************************************************************************)
THEOREM QueueTypeCorrect == Spec => []TypeOK
<1>1. IInv => TypeOK
  BY DEF IInv
<1> QED  BY <1>1, QueueInvariant, PTL

(***************************************************************************)
(* No wake-up is lost between Enqueue and Dequeue, for any number of       *)
(* callers: queue.go:31-35 signals once per appended job and cond.Wait     *)
(* joins the notify list before it releases the mutex.                     *)
(***************************************************************************)
THEOREM NoWakeupIsLost == Spec => []NoLostWakeup
<1>1. IInv => NoLostWakeup
  BY DEF IInv
<1> QED  BY <1>1, QueueInvariant, PTL

-------------------------------------------------------------------------------
(***************************************************************************)
(* Every queued job was offered, so the job Enqueue brings is a new one.   *)
(***************************************************************************)
QueuedWereOffered == Elems(jobs) \subseteq offered

\* Every step of the queue keeps it: only Enqueue adds to the queue, and it offers.
LEMMA OfferedNext ==
  ASSUME TypeOK, QueuedWereOffered, [Next]_vars
  PROVE  QueuedWereOffered'
<1> USE DEF QueuedWereOffered
<1>1. ASSUME NEW j \in Jobs, Enqueue(j)  PROVE QueuedWereOffered'
  <2>1. Elems(jobs') \subseteq Elems(jobs) \cup {j}
    BY <1>1, EnqueuedFacts, QueueAssumption DEF Enqueue, TypeOK
  <2> QED  BY <1>1, <2>1 DEF Enqueue
<1>2. ASSUME NEW c \in Consumers, DequeueJob(c)  PROVE QueuedWereOffered'
  <2>1. Elems(jobs') \subseteq Elems(jobs)
    BY <1>2, TailElems DEF DequeueJob, TypeOK
  <2> QED  BY <1>2, <2>1 DEF DequeueJob
<1>3. CASE UNCHANGED <<jobs, offered>>
  BY <1>3
<1> QED
  BY <1>1, <1>2, <1>3 DEF Next, DequeueStep, DequeueCall, Lock, DequeueFail, DecideToWait,
     Wait, AfterFunc, Cancel, Close, vars

\* A step that lets a queued job go delivers it, or is the Enqueue of a job
\* that takes its place in a full queue (queue.go:31-46, 72-74).
LEMMA StepLoses ==
  ASSUME TypeOK, QueuedWereOffered, Next
  PROVE  LossStep
<1>1. ASSUME NEW j \in Jobs, Enqueue(j)  PROVE LossStep
  <2>1. j \notin Elems(jobs) /\ jobs' = Enqueued(jobs, j, WatchOf, Cap)
    BY <1>1 DEF Enqueue, QueuedWereOffered
  <2> SUFFICES ASSUME NEW x \in Elems(jobs), x \notin Elems(jobs')
               PROVE  /\ Len(jobs) = Cap
                      /\ j \in Elems(jobs') \ Elems(jobs)
                      /\ \/ WatchOf[j] = WatchOf[x]
                         \/ x = Head(jobs) /\ SameWatch(jobs, j, WatchOf) = {}
    BY DEF LossStep
  <2> QED  BY <2>1, EnqueuedLoses, QueueAssumption DEF TypeOK
<1>2. ASSUME NEW c \in Consumers, DequeueJob(c)  PROVE LossStep
  <2>1. jobs \in Seq(Jobs) /\ jobs # <<>> /\ jobs' = Tail(jobs) /\ Head(jobs) \in delivered'
    BY <1>2 DEF DequeueJob, TypeOK
  <2>2. \A i \in DOMAIN jobs : i = 1 \/ (i - 1 \in DOMAIN jobs' /\ jobs'[i - 1] = jobs[i])
    BY <2>1
  <2>3. ASSUME NEW i \in DOMAIN jobs  PROVE jobs[i] \in Elems(jobs') \cup delivered'
    <3>1. CASE i = 1
      BY <2>1, <3>1
    <3>2. CASE i # 1
      BY <2>2, <3>2 DEF Elems
    <3> QED  BY <3>1, <3>2
  <2> QED  BY <2>3 DEF LossStep, Elems
<1>3. CASE UNCHANGED jobs
  BY <1>3 DEF LossStep
<1> QED
  BY <1>1, <1>2, <1>3 DEF Next, DequeueStep, DequeueCall, Lock, DequeueFail, DecideToWait,
     Wait, AfterFunc, Cancel, Close

(***************************************************************************)
(* The policy of Enqueue's comment (queue.go:24-26), for any capacity and  *)
(* any callers: no job leaves the queue undelivered but for a newer one in *)
(* a full queue, of its watch or, if it was the oldest, of a watch that    *)
(* had none queued.                                                        *)
(***************************************************************************)
THEOREM LossIsReplacement == Spec => LossOnlyWhenFull
<1>1. Init => QueuedWereOffered
  BY DEF Init, QueuedWereOffered, Elems
<1>2. TypeOK /\ QueuedWereOffered /\ [Next]_vars => QueuedWereOffered'
  BY OfferedNext
<1>3. TypeOK /\ QueuedWereOffered /\ [Next]_vars => [LossStep]_vars
  BY StepLoses
<1> QED  BY <1>1, <1>2, <1>3, QueueTypeCorrect, PTL DEF Spec, LossOnlyWhenFull
===============================================================================
