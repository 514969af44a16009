------------------------------- MODULE QueueOps -------------------------------
(***************************************************************************)
(* The replacement policy of internal/queue: what Enqueue does to the      *)
(* slice of waiting jobs.  A queue is a sequence of jobs, oldest first;    *)
(* watchOf maps a job to its WatchName.  Shared by JobQueue (the queue at  *)
(* the granularity of its mutex and condition variable) and by Daemon (the *)
(* queue as one stage of the dispatch pipeline).                           *)
(***************************************************************************)
EXTENDS Naturals, Sequences, FiniteSetsExt

\* The jobs in a queue, and that none is in it twice.
Elems(q)    == {q[i] : i \in DOMAIN q}
Distinct(q) == \A i, k \in DOMAIN q : q[i] = q[k] => i = k

\* The positions of the queued jobs that share j's WatchName.
SameWatch(q, j, watchOf) == {i \in DOMAIN q : watchOf[q[i]] = watchOf[j]}

\* Mutant: the capacity test lets the queue grow one past its capacity.
MutEnqueuedOffByOne(q, j, watchOf, cap) ==
  IF Len(q) <= cap THEN Append(q, j) ELSE Append(Tail(q), j)

\* Mutant: jobs of one watch are coalesced although there is room.
MutEnqueuedCoalesces(q, j, watchOf, cap) ==
  IF SameWatch(q, j, watchOf) # {}
  THEN [q EXCEPT ![Min(SameWatch(q, j, watchOf))] = j]
  ELSE IF Len(q) < cap THEN Append(q, j) ELSE Append(Tail(q), j)

(***************************************************************************)
(* The queue after Enqueue(j).  Room: append.  Full: the first job of the  *)
(* same watch is overwritten in place; without one the oldest is dropped.  *)
(***************************************************************************)
Enqueued(q, j, watchOf, cap) ==
  IF Len(q) < cap
  THEN Append(q, j)
  ELSE IF SameWatch(q, j, watchOf) # {}
       THEN [q EXCEPT ![Min(SameWatch(q, j, watchOf))] = j]
       ELSE Append(Tail(q), j)

\* Mutant: signal only when the queue was empty.
MutSignalsWhenEmpty(q, cap) == Len(q) = 0

\* Mutant: Enqueue forgets to signal.
MutNeverSignals(q, cap) == FALSE

\* Only the append into a queue with room signals the condition variable.
EnqueueSignals(q, cap) == Len(q) < cap
===============================================================================
