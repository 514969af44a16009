----------------------------- MODULE RunLifecycle -----------------------------
(***************************************************************************)
(* What a reader of the runs table may rely on: the life of a run's        *)
(* status.  A run is created queued, may be marked running, and an         *)
(* unfinished run ends in success, failure or error (a restart declares it *)
(* an error); a result stays, but for any recorded run that becomes        *)
(* canceled; a canceled run never changes again.  Nothing else happens to  *)
(* a status.  A queued run may end without ever having been seen running,  *)
(* as the error of that update is ignored (daemon.go:338).                 *)
(*                                                                         *)
(* The store does not enforce any of this: UpdateRunStatus overwrites      *)
(* whatever is there.  Daemon is shown to implement it.                    *)
(***************************************************************************)
CONSTANT Runs
VARIABLE status

Unfinished == {"queued", "running"}
Results    == {"success", "failure", "error"}
Statuses   == Unfinished \cup Results \cup {"canceled"}

Init == status = [r \in Runs |-> "none"]

Move(r, from, to) ==
  /\ status[r] \in from
  /\ status' = [status EXCEPT ![r] = to]

Next ==
  \E r \in Runs :
    \/ Move(r, {"none"}, "queued")
    \/ Move(r, {"queued"}, "running")
    \/ \E res \in Results : Move(r, Unfinished, res)
    \/ Move(r, Unfinished \cup Results, "canceled")

Spec == Init /\ [][Next]_status
===============================================================================
