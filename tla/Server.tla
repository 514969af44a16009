-------------------------------- MODULE Server ---------------------------------
(***************************************************************************)
(* The database and the log server put together: opening the database,     *)
(* accounts, projects, and the logs of runs.                               *)
(*                                                                         *)
(* The parts share the process and the switch for foreign keys but no      *)
(* table and no file, so a step of one neither enables nor disables a step *)
(* of another, and a behaviour exercises one part: `part' is a bound.  The *)
(* logs are exercised twice, streamed while time stands still and swept    *)
(* while it passes.                                                        *)
(***************************************************************************)
EXTENDS Schema, Accounts, Projects, LogStream

VARIABLE part

serverVars == <<part, fk, restarts, schemaVars, accountVars, projectVars, logVars>>

Init ==
  /\ part \in {"schema", "accounts", "projects", "stream", "retention"}
  /\ DatabaseInit
  /\ SchemaInit /\ (part # "schema" => applied = {})
  /\ AccountsInit /\ (part # "accounts" => users = << >>)
  /\ ProjectsInit /\ (part # "projects" => config = << >>)
  /\ LogInit /\ (part \in {"stream", "retention"} => fk)

SchemaStep ==
  /\ part = "schema" /\ SchemaNext
  /\ UNCHANGED <<part, accountVars, projectVars, logVars>>

AccountsStep ==
  /\ part = "accounts" /\ AccountsNext
  /\ UNCHANGED <<part, schemaVars, projectVars, logVars>>

\* Bound: the daemon stops once, while a database is opened up to MaxRestarts times.
StopsOnce == restarts' <= 1

ProjectsStep ==
  /\ part = "projects" /\ ProjectsNext /\ StopsOnce
  /\ UNCHANGED <<part, schemaVars, accountVars, logVars>>

\* Bound: one sweep per process.
OneSweep == sweep.pc = "swept" => sweep'.pc # "idle"

StreamStep ==
  /\ part = "stream"
  /\ Writing \/ Reading \/ (Sweeping /\ OneSweep) \/ (CrashLogs /\ StopsOnce)
  /\ UNCHANGED <<part, schemaVars, accountVars, projectVars>>

RetentionStep ==
  /\ part = "retention" /\ (Writing \/ Sweeping \/ Tick)
  /\ UNCHANGED <<part, schemaVars, accountVars, projectVars>>

Next == SchemaStep \/ AccountsStep \/ ProjectsStep \/ StreamStep \/ RetentionStep

Spec == Init /\ [][Next]_serverVars /\ LogFairness

================================================================================
