------------------------------ MODULE MCJobQueue ------------------------------
(***************************************************************************)
(* JobQueue for TLC: four jobs of two watches through a queue of capacity  *)
(* two, so that append, replacement and drop all happen.                   *)
(***************************************************************************)
EXTENDS JobQueue

CONSTANTS a1, a2, a3, b1

MCJobs == {a1, a2, a3, b1}
MCWatchOf == [j \in MCJobs |-> IF j = b1 THEN "b" ELSE "a"]
===============================================================================
