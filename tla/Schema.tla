-------------------------------- MODULE Schema --------------------------------
(***************************************************************************)
(* internal/store/migrations.go and the files of internal/store/schema:    *)
(* what opening the database does to the tables an older release left.     *)
(*                                                                         *)
(* db.Exec runs the statements of a file one by one, each committed by     *)
(* itself, and the file is recorded after the last.  A table has the       *)
(* columns that some migration changes, the table its foreign key names    *)
(* and its rows.  Row x of a table with a foreign key refers to row x of   *)
(* the other table.  Indexes are left out.                                 *)
(***************************************************************************)
EXTENDS Database, FiniteSets, Sequences

CONSTANT
  Rows  \* rows a table has when a release is upgraded

VARIABLES
  db,       \* the tables
  before,   \* history: the tables as the older release left them
  applied,  \* schema_migrations: numbers of the recorded files
  phase,    \* of the process: "down", "check", "exec", "record", "open", "failed"
  file,     \* file the loop is at
  stmt,     \* statement of it
  cut       \* history: files a stop left begun and unrecorded

schemaVars == <<db, before, applied, phase, file, stmt, cut>>

Create(t, cols, ref, quiet) ==
  [kind |-> "create", table |-> t, cols |-> cols, ref |-> ref, quiet |-> quiet]
AddColumn(t, c) == [kind |-> "add", table |-> t, column |-> c]
Rename(t, u) == [kind |-> "rename", table |-> t, to |-> u]
Insert(u, cols, t) == [kind |-> "insert", table |-> t, to |-> u, cols |-> cols]
Drop(t) == [kind |-> "drop", table |-> t]

InitFile ==
  << Create("runs", {"watch_name"}, "", TRUE),
     Create("seen_commits", {}, "", TRUE) >>
UsersFile == << Create("users", {}, "", TRUE) >>
SessionsFile == << Create("sessions", {}, "users", TRUE) >>
WatchesFile == << Create("watches", {"repo"}, "", TRUE) >>
WorkflowsFile == << Create("workflows", {"watch_name"}, "watches", TRUE) >>
RunJobsFile == << Create("run_jobs", {}, "runs", TRUE) >>
TimeoutFile == << AddColumn("workflows", "timeout_minutes") >>
ArtifactsFile == << Create("run_artifacts", {}, "runs", TRUE) >>
ProjectsFile ==
  << Rename("watches", "projects"),
     AddColumn("projects", "description"),
     Create("workflows_new", {"project_name", "timeout_minutes"}, "projects", FALSE),
     Insert("workflows_new", {"watch_name", "timeout_minutes"}, "workflows"),
     Drop("workflows"),
     Rename("workflows_new", "workflows"),
     Create("runs_new", {"project_name"}, "", FALSE),
     Insert("runs_new", {"watch_name"}, "runs"),
     Drop("runs"),
     Rename("runs_new", "runs"),
     Create("project_triggers", {}, "projects", TRUE),
     Insert("project_triggers", {"repo"}, "projects"),
     Create("projects_new", {"description"}, "", FALSE),
     Insert("projects_new", {"description"}, "projects"),
     Drop("projects"),
     Rename("projects_new", "projects") >>

\* fs.Glob and sort.Strings
Files ==
  << InitFile, UsersFile, SessionsFile, WatchesFile, WorkflowsFile, RunJobsFile,
     TimeoutFile, ArtifactsFile, ProjectsFile >>

\* Files whose statements cannot be run twice.
Unrepeatable == {7, 9}

MutFails(s, d) ==
  \/ s.kind = "create" /\ s.table \in DOMAIN d
  \/ s.kind # "create" /\ s.table \notin DOMAIN d
  \/ s.kind = "add" /\ s.column \in d[s.table].cols

\* SQLite refuses statement s on the tables d.
Fails(s, d) ==
  IF s.kind = "create" THEN ~s.quiet /\ s.table \in DOMAIN d
  ELSE \/ s.table \notin DOMAIN d
       \/ s.kind = "add" /\ s.column \in d[s.table].cols
       \/ s.kind = "rename" /\ s.to \in DOMAIN d
       \/ /\ s.kind = "insert"
          /\ \/ s.to \notin DOMAIN d
             \/ ~(s.cols \subseteq d[s.table].cols)
             \/ d[s.table].rows \cap d[s.to].rows # {}

Without(d, t) == [u \in DOMAIN d \ {t} |-> d[u]]

\* The tables after statement s.  A rename follows into the foreign keys of
\* other tables; with foreign keys enforced a drop deletes the rows first.
Exec(s, d) ==
  CASE s.kind = "create" ->
         IF s.table \in DOMAIN d THEN d
         ELSE [t \in DOMAIN d \cup {s.table} |->
                 IF t = s.table THEN [cols |-> s.cols, ref |-> s.ref, rows |-> {}]
                                ELSE d[t]]
    [] s.kind = "add" -> [d EXCEPT ![s.table].cols = @ \cup {s.column}]
    [] s.kind = "rename" ->
         LET named == [t \in (DOMAIN d \ {s.table}) \cup {s.to} |->
                         IF t = s.to THEN d[s.table] ELSE d[t]]
         IN  [t \in DOMAIN named |->
                [named[t] EXCEPT !.ref = IF @ = s.table THEN s.to ELSE @]]
    [] s.kind = "insert" -> [d EXCEPT ![s.to].rows = @ \cup d[s.table].rows]
    [] s.kind = "drop" ->
         [t \in DOMAIN Without(d, s.table) |->
            IF fk /\ d[t].ref = s.table
            THEN [d[t] EXCEPT !.rows = @ \ d[s.table].rows]
            ELSE d[t]]

\* The tables after the statements of a file.
ExecFile(statements, d) ==
  LET after[k \in 0 .. Len(statements)] ==
        IF k = 0 THEN d ELSE Exec(statements[k], after[k - 1])
  IN  after[Len(statements)]

\* The tables the first n files make, with the rows of a database in use.
DatabaseAt(n) ==
  LET tables[f \in 0 .. n] == IF f = 0 THEN << >> ELSE ExecFile(Files[f], tables[f - 1])
  IN  [t \in DOMAIN tables[n] |-> [tables[n][t] EXCEPT !.rows = Rows]]

SchemaInit ==
  /\ \E n \in 0 .. Len(Files):
       /\ before = DatabaseAt(n)
       /\ applied = 1 .. n
  /\ db = before
  /\ phase = "down"
  /\ file = 1
  /\ stmt = 1
  /\ cut = {}

\* Open: schema_migrations is there after this.
Boot ==
  /\ phase = "down"
  /\ phase' = "check"
  /\ file' = 1
  /\ UNCHANGED <<db, before, applied, stmt, cut, fk, restarts>>

MutCheckFile ==
  /\ phase = "check"
  /\ IF file > Len(Files)
     THEN phase' = "open" /\ UNCHANGED <<file, stmt, applied>>
     ELSE IF file \in applied
          THEN file' = file + 1 /\ UNCHANGED <<phase, stmt, applied>>
          ELSE /\ phase' = "exec" /\ stmt' = 1 /\ UNCHANGED file
               /\ applied' = applied \cup {file}
  /\ UNCHANGED <<db, before, cut, fk, restarts>>

\* The head of the loop: the file's row of schema_migrations is looked up.
CheckFile ==
  /\ phase = "check"
  /\ IF file > Len(Files)
     THEN phase' = "open" /\ UNCHANGED <<file, stmt>>
     ELSE IF file \in applied
          THEN file' = file + 1 /\ UNCHANGED <<phase, stmt>>
          ELSE phase' = "exec" /\ stmt' = 1 /\ UNCHANGED file
  /\ UNCHANGED <<db, before, applied, cut, fk, restarts>>

\* db.Exec reaches the next statement of the file.
ExecStatement ==
  /\ phase = "exec"
  /\ LET s == Files[file][stmt]
     IN  IF Fails(s, db)
         THEN phase' = "failed" /\ UNCHANGED <<db, stmt>>
         ELSE /\ db' = Exec(s, db)
              /\ stmt' = stmt + 1
              /\ phase' = IF stmt = Len(Files[file]) THEN "record" ELSE "exec"
  /\ UNCHANGED <<before, applied, file, cut, fk, restarts>>

\* The INSERT of the file's name.
RecordFile ==
  /\ phase = "record"
  /\ applied' = applied \cup {file}
  /\ file' = file + 1
  /\ phase' = "check"
  /\ UNCHANGED <<db, before, stmt, cut, fk, restarts>>

Begun == phase \in {"exec", "record"} /\ stmt > 1

\* The process stops where it is, by a crash or because SQLite reported an
\* error of the disk, and will be started again.
StopSchema ==
  /\ phase # "down"
  /\ Stops
  /\ phase' = "down"
  /\ cut' = IF Begun THEN cut \cup {file} ELSE cut
  /\ UNCHANGED <<db, before, applied, file, stmt>>

SchemaNext == Boot \/ CheckFile \/ ExecStatement \/ RecordFile \/ StopSchema

--------------------------------------------------------------------------------
\* The columns the queries of store.go name.
Current ==
  [projects |-> {"description"}, workflows |-> {"project_name", "timeout_minutes"},
   runs |-> {"project_name"}, project_triggers |-> {}, run_jobs |-> {},
   run_artifacts |-> {}, users |-> {}, sessions |-> {}, seen_commits |-> {}]

\* The table whose rows t has to keep.
Source(t) == IF t \in {"projects", "project_triggers"} /\ t \notin DOMAIN before
             THEN "watches" ELSE t

\* Rows that hang on a table file 009 drops, which foreign keys delete.
Cascaded == {"workflows", "project_triggers", "run_jobs", "run_artifacts"}

\* A database that opens, from whichever release and after whichever stops,
\* has the tables store.go queries and every row it had: watches are projects
\* and have their trigger.  With foreign keys enforced the rows that hang on
\* the tables 009_projects_triggers.sql drops are lost, the others are not.
SchemaIsCurrent ==
  phase = "open" =>
    /\ DOMAIN db = DOMAIN Current
    /\ \A t \in DOMAIN Current:
         /\ db[t].cols = Current[t]
         /\ Source(t) \in DOMAIN before /\ ~(fk /\ t \in Cascaded)
              => db[t].rows = before[Source(t)].rows

\* applyMigrations fails only on a database that an earlier start left inside
\* 007 or 009, and such a database never opens again; a stop inside any other
\* file, or between a file and its record, is repaired by the next start.
FailsExactlyAfterCut ==
  /\ phase = "failed" => cut \cap Unrepeatable # {}
  /\ phase = "open" => cut \cap Unrepeatable = {}

================================================================================
