------------------------------- MODULE Database --------------------------------
(***************************************************************************)
(* What the tables of internal/store share: SQLite's foreign keys and the  *)
(* restarts of the process.                                                *)
(*                                                                         *)
(* Open asks for foreign keys with the DSN parameter _foreign_keys=on.     *)
(* The driver, modernc.org/sqlite, is external; whether it honours a       *)
(* parameter of another driver's syntax is not settled by the repository,  *)
(* so fk is either.                                                        *)
(***************************************************************************)
EXTENDS Naturals

CONSTANT MaxRestarts  \* bound: times the process stops and is started again

ASSUME DatabaseAssumption == MaxRestarts \in Nat

VARIABLES
  fk,       \* foreign keys are enforced
  restarts  \* times the process stopped

DatabaseInit ==
  /\ fk \in BOOLEAN
  /\ restarts = 0

\* The process ends: killed, failed or shut down.
Stops ==
  /\ restarts < MaxRestarts
  /\ restarts' = restarts + 1
  /\ UNCHANGED fk

================================================================================
