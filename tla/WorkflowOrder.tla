----------------------------- MODULE WorkflowOrder -----------------------------
(***************************************************************************)
(* BuildExecutionOrder of internal/runner/workflow.go: Kahn's algorithm    *)
(* over the "needs" of a workflow's jobs.  needs maps a job ID to the set  *)
(* of IDs NeedsIDs returns (a duplicate is counted and discounted twice,   *)
(* so a set loses nothing).  An order is a sequence of waves; the order of *)
(* the jobs inside a wave is Go's map iteration order, so a wave is a set. *)
(***************************************************************************)
EXTENDS Naturals, Sequences, FiniteSets

\* "job needs unknown job"
NeedsUnknown(needs) == \E id \in DOMAIN needs : ~(needs[id] \subseteq DOMAIN needs)

InitialDegree(needs) == [id \in DOMAIN needs |-> Cardinality(needs[id])]

Wave(deg) == {id \in DOMAIN deg : deg[id] = 0}

\* Mutant: a job becomes ready as soon as one of its needs is done.
MutAfterWave(needs, deg) ==
  [id \in DOMAIN deg \ Wave(deg) |->
     IF needs[id] \cap Wave(deg) = {} THEN deg[id] ELSE 0]

\* The wave leaves inDegree; every edge out of it is subtracted.
AfterWave(needs, deg) ==
  [id \in DOMAIN deg \ Wave(deg) |-> deg[id] - Cardinality(needs[id] \cap Wave(deg))]

\* inDegree after n rounds of the loop; |jobs| rounds are always enough.
Degrees(needs) ==
  LET degree[n \in 0..Cardinality(DOMAIN needs)] ==
        IF n = 0 THEN InitialDegree(needs) ELSE AfterWave(needs, degree[n - 1])
  IN  degree

\* The waves collected until one is empty.
Waves(needs) ==
  LET degree == Degrees(needs)
      rounds == {n \in 1..Cardinality(DOMAIN needs) :
                   \A k \in 1..n : Wave(degree[k - 1]) # {}}
  IN  [n \in rounds |-> Wave(degree[n - 1])]

\* "cycle detected": processed != len(jobs)
HasCycle(needs) == UNION {Waves(needs)[n] : n \in DOMAIN Waves(needs)} # DOMAIN needs

OrderFails(needs) == NeedsUnknown(needs) \/ HasCycle(needs)
===============================================================================
