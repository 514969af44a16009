------------------------------- MODULE Projects --------------------------------
(***************************************************************************)
(* The tables projects, workflows and project_triggers: the handlers of    *)
(* internal/logserver/server.go that edit them, and the daemon's seeding   *)
(* of an empty database from the configuration before it serves.           *)
(*                                                                         *)
(* A creation is a job: several statements, each committed by itself, under *)
(* the store's mutex, and for a project without workflows a second call    *)
(* that adds the hello-world workflow after the mutex was free.  The other *)
(* edits are one statement each.  Descriptions, paths and the like are     *)
(* left out, and with them the handlers that only update them.             *)
(***************************************************************************)
EXTENDS Database, Sequences, FiniteSets, SequencesExt

CONSTANTS
  ProjectNames,
  Edited,    \* bound: the projects requests create and edit
  Flow,      \* a workflow name of a request's body or of the configuration
  Hello,     \* the name of the hello-world workflow
  Bodies,    \* workflow names of the bodies requests send
  Configs,   \* what cfg.EffectiveProjects() may be: sequences of names
  MaxJobs    \* bound: creations

ASSUME ProjectsAssumption ==
  /\ Hello # Flow /\ Edited \subseteq ProjectNames
  /\ Configs \subseteq Seq(ProjectNames)
  /\ Bodies \subseteq Seq({Flow, Hello})
  /\ MaxJobs \in Nat

VARIABLES
  config,    \* cfg.EffectiveProjects()
  projects,  \* names in the table
  flows,     \* workflows: [project, name, by], by the job that inserted it or 0
  triggers,  \* project_triggers: [project, by]
  jobs,      \* the creations so far
  mu,        \* the job that holds the store's mutex, 0 for none
  daemon,    \* "down", "seeding", "serving"
  next,      \* seeding: index of the next project
  seedCut    \* history: a seed was stopped by a crash or an error

tableVars == <<projects, flows, triggers>>
projectVars == <<config, tableVars, jobs, mu, daemon, next, seedCut>>

Job == 1 .. Len(jobs)

ProjectsInit ==
  /\ config \in Configs
  /\ projects = {} /\ flows = {} /\ triggers = {}
  /\ jobs = << >>
  /\ mu = 0
  /\ daemon = "down"
  /\ next = 1
  /\ seedCut = FALSE

\* UNIQUE(project_name, name)
Taken(p, name) == \E f \in flows: f.project = p /\ f.name = name

\* REFERENCES projects(name)
Refers(p) == fk => p \in projects

\* `disturbed' is history: a later request deleted something of it.
NewJob(p, seeding, names) ==
  Append(jobs, [project |-> p, seed |-> seeding, todo |-> names, names |-> ToSet(names),
                hello |-> ~seeding /\ names = << >>, pc |-> "project", disturbed |-> FALSE])

\* seedWatchesFromConfig: ListProjects
BootProjects ==
  /\ daemon = "down"
  /\ daemon' = IF projects = {} THEN "seeding" ELSE "serving"
  /\ next' = 1
  /\ UNCHANGED <<config, tableVars, jobs, mu, seedCut, fk, restarts>>

Active == {j \in Job: jobs[j].pc \notin {"created", "refused"}}

\* The next project of the configuration, with a workflow and a trigger.
SeedNext ==
  /\ daemon = "seeding" /\ Active = {}
  /\ IF next > Len(config)
     THEN daemon' = "serving" /\ UNCHANGED <<jobs, next>>
     ELSE /\ Len(jobs) < MaxJobs
          /\ jobs' = NewJob(config[next], TRUE, <<Flow>>)
          /\ next' = next + 1
          /\ UNCHANGED daemon
  /\ UNCHANGED <<config, tableVars, mu, seedCut, fk, restarts>>

\* handleCreateProject
CreateProject ==
  /\ daemon = "serving" /\ Len(jobs) < MaxJobs
  /\ \E p \in Edited, names \in Bodies: jobs' = NewJob(p, FALSE, names)
  /\ UNCHANGED <<config, tableVars, mu, daemon, next, seedCut, fk, restarts>>

\* Job j is at pc and may use the store.
Ready(j, pc) == jobs[j].pc = pc /\ mu \in {0, j}

\* Job r ended in an error, and no more is remembered of it.
Failed(r) == [r EXCEPT !.pc = "refused", !.todo = << >>, !.names = {}, !.disturbed = FALSE]

\* Job j ends in an error: what it inserted stays.  The first error ends a seed.
Refused(j) ==
  /\ j \in Active /\ mu \in {0, j}
  /\ jobs' = [jobs EXCEPT ![j] = Failed(@)]
  /\ mu' = 0
  /\ seedCut' = (seedCut \/ jobs[j].seed)
  /\ daemon' = IF jobs[j].seed THEN "serving" ELSE daemon
  /\ UNCHANGED <<config, tableVars, next, fk, restarts>>

\* INSERT INTO projects
InsertProject(j) ==
  /\ Ready(j, "project")
  /\ jobs[j].project \notin projects
  /\ projects' = projects \cup {jobs[j].project}
  /\ mu' = j
  /\ jobs' = [jobs EXCEPT ![j].pc = "flows"]
  /\ UNCHANGED <<config, flows, triggers, daemon, next, seedCut, fk, restarts>>

MutInsertWorkflow(j) ==
  LET p == jobs[j].project
      name == Head(jobs[j].todo)
  IN  /\ Ready(j, "flows") /\ jobs[j].todo # << >>
      /\ Refers(p)
      /\ flows' = IF Taken(p, name) THEN flows
                  ELSE flows \cup {[project |-> p, name |-> name, by |-> j]}
      /\ jobs' = [jobs EXCEPT ![j].todo = Tail(@)]
      /\ UNCHANGED <<config, projects, triggers, mu, daemon, next, seedCut, fk, restarts>>

\* insertWorkflow, in the loop over the body's workflows
InsertWorkflow(j) ==
  LET p == jobs[j].project
      name == Head(jobs[j].todo)
  IN  /\ Ready(j, "flows") /\ jobs[j].todo # << >>
      /\ Refers(p) /\ ~Taken(p, name)
      /\ flows' = flows \cup {[project |-> p, name |-> name, by |-> j]}
      /\ jobs' = [jobs EXCEPT ![j].todo = Tail(@)]
      /\ UNCHANGED <<config, projects, triggers, mu, daemon, next, seedCut, fk, restarts>>

\* insertTrigger for a configured project, and CreateProject returns.
Created(j) ==
  /\ Ready(j, "flows") /\ jobs[j].todo = << >>
  /\ triggers' = IF jobs[j].seed
                 THEN triggers \cup {[project |-> jobs[j].project, by |-> j]}
                 ELSE triggers
  /\ mu' = 0
  /\ jobs' = [jobs EXCEPT ![j].pc = IF jobs[j].hello THEN "hello" ELSE "created"]
  /\ UNCHANGED <<config, projects, flows, daemon, next, seedCut, fk, restarts>>

\* handleCreateProject: the hello-world file and its CreateWorkflow
CreateHello(j) ==
  LET p == jobs[j].project
  IN  /\ Ready(j, "hello")
      /\ Refers(p) /\ ~Taken(p, Hello)
      /\ flows' = flows \cup {[project |-> p, name |-> Hello, by |-> j]}
      /\ jobs' = [jobs EXCEPT ![j].pc = "created", ![j].names = {Hello}]
      /\ UNCHANGED <<config, projects, triggers, mu, daemon, next, seedCut, fk, restarts>>

Disturb(Hit(_)) ==
  jobs' = [j \in Job |-> [jobs[j] EXCEPT
                           !.disturbed = @ \/ (Hit(j) /\ jobs[j].pc # "refused")]]

EditVars == <<config, mu, daemon, next, seedCut, fk, restarts>>

\* DELETE FROM projects: with foreign keys the rows that refer to it follow.
DeleteProject(p) ==
  /\ daemon = "serving" /\ mu = 0 /\ p \in projects
  /\ projects' = projects \ {p}
  /\ flows' = IF fk THEN {f \in flows: f.project # p} ELSE flows
  /\ triggers' = IF fk THEN {t \in triggers: t.project # p} ELSE triggers
  /\ Disturb(LAMBDA j: jobs[j].project = p)
  /\ UNCHANGED EditVars

CreateWorkflow(p) ==
  /\ daemon = "serving" /\ mu = 0
  /\ Refers(p) /\ ~Taken(p, Flow)
  /\ flows' = flows \cup {[project |-> p, name |-> Flow, by |-> 0]}
  /\ UNCHANGED <<projects, triggers, jobs, EditVars>>

DeleteWorkflow(p, name) ==
  /\ daemon = "serving" /\ mu = 0 /\ Taken(p, name)
  /\ flows' = {f \in flows: ~(f.project = p /\ f.name = name)}
  /\ Disturb(LAMBDA j: jobs[j].project = p)
  /\ UNCHANGED <<projects, triggers, EditVars>>

CreateTrigger(p) ==
  /\ daemon = "serving" /\ mu = 0 /\ Refers(p)
  /\ triggers' = triggers \cup {[project |-> p, by |-> 0]}
  /\ UNCHANGED <<projects, flows, jobs, EditVars>>

DeleteTrigger(t) ==
  /\ daemon = "serving" /\ mu = 0
  /\ triggers' = triggers \ {t}
  /\ Disturb(LAMBDA j: t.by = j)
  /\ UNCHANGED <<projects, flows, EditVars>>

\* The process dies; creations under way end where they are.
CrashProjects ==
  /\ daemon # "down"
  /\ Stops
  /\ daemon' = "down"
  /\ mu' = 0
  /\ jobs' = [j \in Job |-> IF j \in Active
                            THEN Failed(jobs[j]) ELSE jobs[j]]
  /\ seedCut' = (seedCut \/ daemon = "seeding")
  /\ UNCHANGED <<config, tableVars, next>>

ProjectsNext ==
  \/ BootProjects \/ SeedNext \/ CreateProject \/ CrashProjects
  \/ \E j \in Job: \/ Refused(j) \/ InsertProject(j) \/ InsertWorkflow(j)
                   \/ Created(j) \/ CreateHello(j)
  \/ \E p \in Edited: \/ DeleteProject(p) \/ CreateWorkflow(p) \/ CreateTrigger(p)
                      \/ DeleteWorkflow(p, Flow) \/ DeleteWorkflow(p, Hello)
  \/ \E t \in triggers: t.project \in Edited /\ DeleteTrigger(t)

--------------------------------------------------------------------------------
\* What CreateProject reported as created is all there until somebody deletes
\* some of it or the name comes back (`disturbed`).  Of a creation under way, or
\* of one that failed, there may be a part.
CreatedIsWhole ==
  \A j \in Job: jobs[j].pc = "created" /\ ~jobs[j].disturbed =>
    /\ jobs[j].project \in projects
    /\ \A name \in jobs[j].names: [project |-> jobs[j].project, name |-> name, by |-> j] \in flows
    /\ jobs[j].seed => [project |-> jobs[j].project, by |-> j] \in triggers

\* A daemon that serves has seeded every configured project at some start,
\* unless a seed was cut short, or the table was not empty at the first start.
SeedIsWhole ==
  daemon = "serving" /\ ~seedCut =>
    \A p \in ToSet(config): \E j \in Job: jobs[j].seed /\ jobs[j].project = p
                                          /\ jobs[j].pc = "created"

\* A creation that reports success is whole, whatever runs beside it and
\* whichever starts and crashes went before, the seed loses no configured
\* project without an error or a crash, and with foreign keys enforced no
\* workflow or trigger outlives its project to come back with its name.
ProjectsAreWhole ==
  /\ CreatedIsWhole
  /\ SeedIsWhole
  /\ fk => \A row \in flows \cup triggers: row.project \in projects

================================================================================
