------------------------------- MODULE JobQueue -------------------------------
(***************************************************************************)
(* internal/queue/queue.go: the bounded job queue between forwardJobs and  *)
(* the dispatch loop, at the granularity of its mutex, its condition       *)
(* variable and the context.AfterFunc goroutine that wakes Dequeue when    *)
(* the context is cancelled.                                               *)
(*                                                                         *)
(* A critical section is one action, except in Dequeue: ctx.Err() is read  *)
(* and only later does cond.Wait join the notify list.  The AfterFunc      *)
(* goroutine calls Broadcast without the mutex, so it can run in between.  *)
(***************************************************************************)
EXTENDS QueueOps, FiniteSets

CONSTANTS
  Consumers,   \* callers of Dequeue (the daemon has one: its dispatch loop)
  Jobs,        \* the jobs ever passed to Enqueue
  WatchOf,     \* [Jobs -> watch name]
  Cap,         \* q.cap
  NoOne        \* the mutex is free

ASSUME QueueAssumption ==
  /\ Cap \in Nat \ {0}
  /\ IsFiniteSet(Consumers)
  /\ NoOne \notin Consumers

VARIABLES
  jobs,        \* q.jobs
  closed,      \* q.closed
  mu,          \* the holder of q.mu across several steps, or NoOne
  pc,          \* where each consumer is in Dequeue
  ctxDone,     \* the context passed to Dequeue is cancelled
  afterFunc,   \* consumers whose AfterFunc is registered and not started
  broadcasts,  \* consumers whose AfterFunc goroutine is started, not run
  offered,     \* jobs passed to Enqueue so far
  delivered    \* jobs returned by Dequeue so far

vars == <<jobs, closed, mu, pc, ctxDone, afterFunc, broadcasts, offered, delivered>>

(***************************************************************************)
(* A consumer is between calls ("idle"), waiting for the mutex at the top  *)
(* of Dequeue ("lock"), holds it at the loop test ("test"), has read       *)
(* ctx.Err() = nil and is about to call Wait ("wait"), is on the notify    *)
(* list ("asleep"), was notified and re-acquires the mutex ("woken"), or   *)
(* got an error and left its loop ("done").                                *)
(***************************************************************************)
PCs == {"idle", "lock", "test", "wait", "asleep", "woken", "done"}

Asleep == {c \in Consumers : pc[c] = "asleep"}

TypeOK ==
  /\ jobs \in Seq(Jobs)
  /\ Len(jobs) <= Cap
  /\ closed \in BOOLEAN
  /\ mu \in Consumers \cup {NoOne}
  /\ pc \in [Consumers -> PCs]
  /\ ctxDone \in BOOLEAN
  /\ afterFunc \subseteq Consumers
  /\ broadcasts \subseteq Consumers
  /\ offered \subseteq Jobs
  /\ delivered \subseteq Jobs

Init ==
  /\ jobs = <<>>
  /\ closed = FALSE
  /\ mu = NoOne
  /\ pc = [c \in Consumers |-> "idle"]
  /\ ctxDone = FALSE
  /\ afterFunc = {}
  /\ broadcasts = {}
  /\ offered = {}
  /\ delivered = {}

-------------------------------------------------------------------------------
\* cond.Signal: one sleeper, if there is any, is notified.
Signalled(p) ==
  IF Asleep = {} THEN p = pc
  ELSE \E c \in Asleep : p = [pc EXCEPT ![c] = "woken"]

\* cond.Broadcast: every sleeper is notified.
Broadcasted == [c \in Consumers |-> IF pc[c] = "asleep" THEN "woken" ELSE pc[c]]

\* Enqueue holds the mutex from its first to its last line.
Enqueue(j) ==
  /\ mu = NoOne
  /\ j \notin offered
  /\ jobs' = Enqueued(jobs, j, WatchOf, Cap)
  /\ IF EnqueueSignals(jobs, Cap) THEN Signalled(pc') ELSE UNCHANGED pc
  /\ offered' = offered \cup {j}
  /\ UNCHANGED <<closed, mu, ctxDone, afterFunc, broadcasts, delivered>>

\* Dequeue is called: context.AfterFunc on a context that is already done
\* starts the goroutine at once, otherwise it is registered.
DequeueCall(c) ==
  /\ pc[c] = "idle"
  /\ pc' = [pc EXCEPT ![c] = "lock"]
  /\ IF ctxDone
     THEN broadcasts' = broadcasts \cup {c} /\ UNCHANGED afterFunc
     ELSE afterFunc' = afterFunc \cup {c} /\ UNCHANGED broadcasts
  /\ UNCHANGED <<jobs, closed, mu, ctxDone, offered, delivered>>

\* q.mu.Lock() at the top of Dequeue, and the re-acquisition inside Wait.
Lock(c) ==
  /\ pc[c] \in {"lock", "woken"}
  /\ mu = NoOne
  /\ mu' = c
  /\ pc' = [pc EXCEPT ![c] = "test"]
  /\ UNCHANGED <<jobs, closed, ctxDone, afterFunc, broadcasts, offered, delivered>>

\* The deferred Unlock and stop(): a registered AfterFunc is withdrawn, one
\* that has started still runs.
Return(c, to) ==
  /\ mu' = NoOne
  /\ afterFunc' = afterFunc \ {c}
  /\ pc' = [pc EXCEPT ![c] = to]

\* An error is returned: the context is done (checked in the loop and after
\* it), or the queue is closed and empty.
DequeueFail(c) ==
  /\ pc[c] = "test"
  /\ ctxDone \/ (closed /\ jobs = <<>>)
  /\ Return(c, "done")
  /\ UNCHANGED <<jobs, closed, ctxDone, broadcasts, offered, delivered>>

\* Mutant: the loop waits without looking at the context.
MutDecideToWait(c) ==
  /\ pc[c] = "test"
  /\ jobs = <<>> /\ ~closed
  /\ pc' = [pc EXCEPT ![c] = "wait"]
  /\ UNCHANGED <<jobs, closed, mu, ctxDone, afterFunc, broadcasts, offered, delivered>>

\* The loop body with a live context: about to wait, still holding q.mu.
DecideToWait(c) ==
  /\ pc[c] = "test"
  /\ jobs = <<>> /\ ~closed /\ ~ctxDone
  /\ pc' = [pc EXCEPT ![c] = "wait"]
  /\ UNCHANGED <<jobs, closed, mu, ctxDone, afterFunc, broadcasts, offered, delivered>>

\* cond.Wait joins the notify list and releases the mutex.
Wait(c) ==
  /\ pc[c] = "wait"
  /\ pc' = [pc EXCEPT ![c] = "asleep"]
  /\ mu' = NoOne
  /\ UNCHANGED <<jobs, closed, ctxDone, afterFunc, broadcasts, offered, delivered>>

\* A job is available and the context is live: pop the head.
DequeueJob(c) ==
  /\ pc[c] = "test"
  /\ jobs # <<>> /\ ~ctxDone
  /\ jobs' = Tail(jobs)
  /\ delivered' = delivered \cup {Head(jobs)}
  /\ Return(c, "idle")
  /\ UNCHANGED <<closed, ctxDone, broadcasts, offered>>

\* The context is cancelled: every registered AfterFunc gets its goroutine.
Cancel ==
  /\ ~ctxDone
  /\ ctxDone' = TRUE
  /\ broadcasts' = broadcasts \cup afterFunc
  /\ afterFunc' = {}
  /\ UNCHANGED <<jobs, closed, mu, pc, offered, delivered>>

\* The AfterFunc goroutine: Broadcast, without taking q.mu.
AfterFunc(c) ==
  /\ c \in broadcasts
  /\ broadcasts' = broadcasts \ {c}
  /\ pc' = Broadcasted
  /\ UNCHANGED <<jobs, closed, mu, ctxDone, afterFunc, offered, delivered>>

\* Close, which the daemon calls once its own Dequeue has failed.
Close ==
  /\ mu = NoOne
  /\ ~closed
  /\ \E c \in Consumers : pc[c] = "done"
  /\ closed' = TRUE
  /\ pc' = Broadcasted
  /\ UNCHANGED <<jobs, mu, ctxDone, afterFunc, broadcasts, offered, delivered>>

DequeueStep(c) ==
  \/ DequeueCall(c) \/ Lock(c) \/ DequeueFail(c)
  \/ DecideToWait(c) \/ Wait(c) \/ DequeueJob(c)

Next ==
  \/ \E j \in Jobs : Enqueue(j)
  \/ \E c \in Consumers : DequeueStep(c) \/ AfterFunc(c)
  \/ Cancel
  \/ Close

(***************************************************************************)
(* A goroutine that can run is run.  Nothing obliges a producer to call    *)
(* Enqueue, the context to be cancelled or the queue to be closed.         *)
(***************************************************************************)
Fairness == \A c \in Consumers : WF_vars(DequeueStep(c)) /\ WF_vars(AfterFunc(c))

Spec == Init /\ [][Next]_vars /\ Fairness

-------------------------------------------------------------------------------
(***************************************************************************)
(* No wake-up is lost between Enqueue and Dequeue: while some caller of    *)
(* Dequeue sleeps and the context is live, the queue holds no more jobs    *)
(* than there are callers already on their way to take one.  It rests on   *)
(* Enqueue signalling once per appended job, and on a sleeper joining the  *)
(* notify list before it releases the mutex (queue.go:31-35, 60-65).       *)
(***************************************************************************)
OnTheWay == {c \in Consumers : pc[c] \in {"lock", "test", "woken"}}

NoLostWakeup ==
  ~ctxDone /\ Asleep # {} => Len(jobs) <= Cardinality(OnTheWay)

(***************************************************************************)
(* Enqueue's policy (queue.go:24-26): a job leaves the queue undelivered   *)
(* only if the queue was full, and then because one newer job took its     *)
(* place: a job of the same watch, or, when no queued job had the          *)
(* newcomer's watch, as the oldest job.                                    *)
(***************************************************************************)
LossStep ==
  \A j \in Elems(jobs) : j \in Elems(jobs') \cup delivered'
    \/ /\ Len(jobs) = Cap
       /\ \E k \in Elems(jobs') \ Elems(jobs) :
            \/ WatchOf[k] = WatchOf[j]
            \/ j = Head(jobs) /\ SameWatch(jobs, k, WatchOf) = {}

LossOnlyWhenFull == [][LossStep]_vars

(***************************************************************************)
(* While the context is live every queued job leaves the queue again: it   *)
(* is delivered or, in a full queue, superseded.  No consumer sleeps       *)
(* through it.                                                             *)
(***************************************************************************)
EveryJobLeaves ==
  \A j \in Jobs : j \in Elems(jobs) ~> (j \notin Elems(jobs) \/ ctxDone)

(***************************************************************************)
(* A caller that already sleeps when an AfterFunc goroutine is about to    *)
(* broadcast leaves Dequeue with an error (queue.go:52-54, 61-63).         *)
(***************************************************************************)
CancelWakesSleepers ==
  \A c \in Consumers : (pc[c] = "asleep" /\ broadcasts # {}) ~> pc[c] = "done"

(***************************************************************************)
(* queue.go:49-50: "Dequeue blocks until a job is available or ctx is      *)
(* done.  Returns ctx.Err() if the context is cancelled."  Once the        *)
(* context is cancelled, no call of Dequeue blocks for ever.               *)
(***************************************************************************)
DequeueEndsOnCancel ==
  \A c \in Consumers :
    (ctxDone /\ pc[c] # "idle") ~> pc[c] \in {"idle", "done"}
===============================================================================
