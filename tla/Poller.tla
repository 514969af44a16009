-------------------------------- MODULE Poller --------------------------------
(***************************************************************************)
(* internal/poller/poller.go: one goroutine per watch that fetches the     *)
(* head commit of a branch or a pull request, looks it up in seen_commits, *)
(* marks it and emits a job into the daemon's channel.                     *)
(*                                                                         *)
(* A commit is its number on its ref: head[k] counts the commits pushed to *)
(* ref k so far.  seen_commits is keyed by repo, SHA and ref, not by       *)
(* watch, so two projects that watch one ref share their entries.          *)
(***************************************************************************)
EXTENDS Naturals, FiniteSets

CONSTANTS
  Watches,         \* one per push or pull_request trigger of a project
  Refs,            \* (repo, branch) and (repo, PR) pairs
  RefOf,           \* [Watches -> Refs]
  PRs,             \* the refs that are pull requests
  Projects,
  ProjectOf,       \* [Watches -> Projects]
  AtStart,         \* watches of the config file, which seed an empty database
  Legacy,          \* those of its deprecated section "watches"
  Deletable,       \* bound: watches whose trigger may be deleted
  ChanCap,         \* cap(d.jobs)
  InitialBackoff,  \* p.initialBackoff, 5 s
  MaxBackoff,      \* 5 minutes
  MaxHead,         \* [Refs -> Nat], bound: commits of each ref
  MaxErrors,       \* bound: store errors
  MaxRestarts      \* bound: restarts of the daemon

ASSUME PollerAssumption ==
  /\ RefOf \in [Watches -> Refs]
  /\ PRs \subseteq Refs
  /\ ProjectOf \in [Watches -> Projects]
  /\ AtStart \subseteq Watches /\ Legacy \subseteq AtStart
  /\ Deletable \subseteq Watches
  /\ ChanCap \in Nat \ {0}
  /\ InitialBackoff \in Nat \ {0}
  /\ MaxBackoff \in Nat /\ InitialBackoff <= MaxBackoff
  /\ MaxHead \in [Refs -> Nat \ {0}]
  /\ MaxErrors \in Nat /\ MaxRestarts \in Nat

VARIABLES
  head,        \* GitHub: commits on each ref
  projects,    \* database: projects
  configured,  \* database: triggers of all projects
  seen,        \* database: seen_commits, a set of <<ref, commit>>
  polled,      \* watches with a goroutine: what Run got from the provider
  pc,          \* where each goroutine is
  sha,         \* the fetched commit
  backoff,     \* the local backoff, 0 = none
  inChan,      \* the number of jobs in the channel
  emitted,     \* history: jobs ever sent, with the number of sends
  lost,        \* history: <<watch, commit>> marked seen but never sent: the
               \* channel was full, or the process ended in between
  errors,      \* store errors so far
  restarts

vars == <<head, projects, configured, seen, polled, pc, sha, backoff, inChan, emitted,
          lost, errors, restarts>>

\* 0 stands for no commit.
Commits == UNION {0..MaxHead[k] : k \in Refs}

Init ==
  /\ head = [k \in Refs |-> 1]
  /\ projects = {ProjectOf[w] : w \in AtStart}
  /\ configured = AtStart
  /\ seen = {}
  /\ polled = AtStart
  /\ pc = [w \in Watches |-> "wait"]
  /\ sha = [w \in Watches |-> 0]
  /\ backoff = [w \in Watches |-> 0]
  /\ inChan = 0
  /\ emitted = [w \in Watches |-> [n \in Commits |-> 0]]
  /\ lost = {}
  /\ errors = 0
  /\ restarts = 0

-------------------------------------------------------------------------------
(* The world around the poller. *)

Push(k) ==
  /\ head[k] < MaxHead[k]
  /\ head' = [head EXCEPT ![k] = @ + 1]
  /\ UNCHANGED <<projects, configured, seen, polled, pc, sha, backoff, inChan, emitted,
                 lost, errors, restarts>>

\* A trigger is added over HTTP, or a project that has it.
AddTrigger(w) ==
  /\ w \notin configured
  /\ configured' = configured \cup {w}
  /\ projects' = projects \cup {ProjectOf[w]}
  /\ UNCHANGED <<head, seen, polled, pc, sha, backoff, inChan, emitted, lost, errors, restarts>>

\* It is deleted; its project may be left without any.  Its goroutine goes on.
DeleteTrigger(w) ==
  /\ w \in configured \cap Deletable
  /\ configured' = configured \ {w}
  /\ UNCHANGED <<head, projects, seen, polled, pc, sha, backoff, inChan, emitted, lost, errors,
                 restarts>>

WatchesOf(p) == {w \in Watches : ProjectOf[w] = p}

\* A project is deleted with its triggers.
DeleteProject(p) ==
  /\ p \in projects /\ WatchesOf(p) \subseteq Deletable
  /\ projects' = projects \ {p}
  /\ configured' = configured \ WatchesOf(p)
  /\ UNCHANGED <<head, seen, polled, pc, sha, backoff, inChan, emitted, lost, errors, restarts>>

\* forwardJobs takes a job out of the channel.
Forward ==
  /\ inChan > 0
  /\ inChan' = inChan - 1
  /\ UNCHANGED <<head, projects, configured, seen, polled, pc, sha, backoff, emitted, lost, errors,
                 restarts>>

\* An empty table of projects gets those of the config file; an error ends that
\* before all of them, or all triggers of one, are in.
seedWatchesFromConfig ==
  IF projects # {} THEN UNCHANGED <<projects, configured>>
  ELSE /\ configured' \in SUBSET AtStart
       /\ projects' \in SUBSET {ProjectOf[w] : w \in AtStart}
       /\ \A w \in configured' : ProjectOf[w] \in projects'

\* The daemon stops or crashes and is started again: Run asks the watch
\* provider once and starts one goroutine per watch; if the database does not
\* answer, it takes the deprecated watches.
Restart ==
  /\ restarts < MaxRestarts
  /\ restarts' = restarts + 1
  /\ seedWatchesFromConfig
  /\ polled' \in {configured', Legacy}
  /\ lost' = lost \cup {<<w, sha[w]>> : w \in {x \in Watches : pc[x] = "send"}}
  /\ pc' = [w \in Watches |-> "wait"]
  /\ sha' = [w \in Watches |-> 0]
  /\ backoff' = [w \in Watches |-> 0]
  /\ inChan' = 0
  /\ UNCHANGED <<head, seen, emitted, errors>>

-------------------------------------------------------------------------------
(* runWatch.  The timer (interval, or backoff if set) can fire at any time. *)

\* Mutant: the doubled backoff is not capped.
MutNextBackoff(b) == IF b = 0 THEN InitialBackoff ELSE 2 * b

nextBackoff(b) ==
  IF b = 0 THEN InitialBackoff
  ELSE IF 2 * b > MaxBackoff THEN MaxBackoff ELSE 2 * b

\* The head of a branch; the first page, of size one, of a PR's commits, which
\* GitHub lists oldest first.
fetchSHA(w) == IF RefOf[w] \in PRs THEN 1 ELSE head[RefOf[w]]

Fetch(w) ==
  /\ w \in polled /\ pc[w] = "wait"
  /\ pc' = [pc EXCEPT ![w] = "check"]
  /\ sha' = [sha EXCEPT ![w] = fetchSHA(w)]
  /\ backoff' = [backoff EXCEPT ![w] = 0]
  /\ UNCHANGED <<head, projects, configured, seen, polled, inChan, emitted, lost, errors,
                 restarts>>

FetchRateLimited(w) ==
  /\ w \in polled /\ pc[w] = "wait"
  /\ backoff' = [backoff EXCEPT ![w] = nextBackoff(@)]
  /\ UNCHANGED <<head, projects, configured, seen, polled, pc, sha, inChan, emitted, lost, errors,
                 restarts>>

FetchError(w) ==
  /\ w \in polled /\ pc[w] = "wait"
  /\ backoff' = [backoff EXCEPT ![w] = 0]
  /\ UNCHANGED <<head, projects, configured, seen, polled, pc, sha, inChan, emitted, lost, errors,
                 restarts>>

\* The loop body ends: back to the timer.
NextTick(w) ==
  /\ pc' = [pc EXCEPT ![w] = "wait"]
  /\ sha' = [sha EXCEPT ![w] = 0]

SeenKey(w) == <<RefOf[w], sha[w]>>

\* Mutant: the lookup ignores the SHA.
MutIsSeen(w) == \E n \in Commits : <<RefOf[w], n>> \in seen

IsSeen(w) == SeenKey(w) \in seen

Check(w) ==
  /\ pc[w] = "check"
  /\ IF IsSeen(w) THEN NextTick(w)
     ELSE pc' = [pc EXCEPT ![w] = "mark"] /\ UNCHANGED sha
  /\ UNCHANGED <<head, projects, configured, seen, polled, backoff, inChan, emitted,
                 lost, errors, restarts>>

\* Mutant: the commit is not written to seen_commits.
MutMarkSeen(w) ==
  /\ pc[w] = "mark"
  /\ pc' = [pc EXCEPT ![w] = "send"]
  /\ UNCHANGED <<head, projects, configured, seen, polled, sha, backoff, inChan, emitted,
                 lost, errors, restarts>>

\* INSERT OR IGNORE: another watch of the ref may have marked it meanwhile.
MarkSeen(w) ==
  /\ pc[w] = "mark"
  /\ seen' = seen \cup {SeenKey(w)}
  /\ pc' = [pc EXCEPT ![w] = "send"]
  /\ UNCHANGED <<head, projects, configured, polled, sha, backoff, inChan, emitted, lost, errors, restarts>>

\* Mutant: the commit is marked although the loop gives up.
MutStoreError(w) ==
  /\ pc[w] \in {"check", "mark"}
  /\ errors < MaxErrors
  /\ errors' = errors + 1
  /\ NextTick(w)
  /\ seen' = seen \cup {SeenKey(w)}
  /\ UNCHANGED <<head, projects, configured, polled, backoff, inChan, emitted, lost, restarts>>

\* IsSeen or MarkSeen returns an error: try again at the next tick.
StoreError(w) ==
  /\ pc[w] \in {"check", "mark"}
  /\ errors < MaxErrors
  /\ errors' = errors + 1
  /\ NextTick(w)
  /\ UNCHANGED <<head, projects, configured, seen, polled, backoff, inChan, emitted,
                 lost, restarts>>

\* The send that does not block.
Send(w) ==
  /\ pc[w] = "send"
  /\ NextTick(w)
  /\ IF inChan < ChanCap
     THEN /\ inChan' = inChan + 1
          /\ emitted' = [emitted EXCEPT ![w][sha[w]] = @ + 1]
          /\ UNCHANGED lost
     ELSE /\ lost' = lost \cup {<<w, sha[w]>>}
          /\ UNCHANGED <<inChan, emitted>>
  /\ UNCHANGED <<head, projects, configured, seen, polled, backoff, errors, restarts>>

WatchStep(w) == Check(w) \/ MarkSeen(w) \/ Send(w)

Next ==
  \/ \E k \in Refs : Push(k)
  \/ Forward \/ Restart
  \/ \E p \in Projects : DeleteProject(p)
  \/ \E w \in Watches :
       \/ AddTrigger(w) \/ DeleteTrigger(w) \/ WatchStep(w)
       \/ Fetch(w) \/ FetchRateLimited(w) \/ FetchError(w) \/ StoreError(w)

(***************************************************************************)
(* A goroutine is scheduled, and GitHub, asked again and again, does not   *)
(* refuse for ever.  Nobody has to push, or to restart the daemon.         *)
(***************************************************************************)
Fairness == \A w \in Watches : WF_vars(Fetch(w)) /\ WF_vars(WatchStep(w))

Spec == Init /\ [][Next]_vars /\ Fairness

-------------------------------------------------------------------------------
(***************************************************************************)
(* Types; the channel's capacity; the backoff never exceeds its cap.       *)
(***************************************************************************)
TypeOK ==
  /\ head \in [Refs -> Commits]
  /\ projects \subseteq Projects
  /\ configured \subseteq Watches /\ \A w \in configured : ProjectOf[w] \in projects
  /\ seen \subseteq Refs \X Commits
  /\ polled \subseteq Watches
  /\ pc \in [Watches -> {"wait", "check", "mark", "send"}]
  /\ sha \in [Watches -> Commits]
  /\ backoff \in [Watches -> 0..MaxBackoff]
  /\ inChan \in 0..ChanCap
  /\ emitted \in [Watches -> [Commits -> Nat]]
  /\ lost \subseteq Watches \X Commits
  /\ errors \in 0..MaxErrors
  /\ restarts \in 0..MaxRestarts

(***************************************************************************)
(* A watch emits a commit at most once, whatever errors and restarts       *)
(* happen: the commit is marked before it is sent (poller.go:145, 172) and *)
(* the mark outlives the process.                                          *)
(***************************************************************************)
EmittedAtMostOnce == \A w \in Watches, n \in Commits : emitted[w][n] <= 1

(***************************************************************************)
(* Every commit in seen_commits is accounted for by a watch of its ref: it *)
(* was emitted, is about to be, was dropped because the channel was full,  *)
(* or fell to a process that ended between the mark and the send.          *)
(***************************************************************************)
SeenIsAccounted ==
  \A k \in Refs, n \in Commits : <<k, n>> \in seen =>
    \E w \in Watches :
      /\ RefOf[w] = k
      /\ \/ emitted[w][n] > 0
         \/ pc[w] = "send" /\ sha[w] = n
         \/ <<w, n>> \in lost

(***************************************************************************)
(* A branch that some goroutine watches does not stay at an unseen head:   *)
(* rate limits, errors and restarts only delay it (poller.go:112-178),     *)
(* unless a restart finds no trigger for it.                               *)
(***************************************************************************)
HeadIsDetected ==
  \A k \in Refs \ PRs, n \in Commits \ {0} :
    (head[k] = n /\ \E w \in polled : RefOf[w] = k)
      ~> (<<k, n>> \in seen \/ head[k] # n \/ \A w \in polled : RefOf[w] # k)

(***************************************************************************)
(* daemon.go:209: "Configure poller to load watches from DB each cycle."   *)
(* A trigger in the database is eventually polled.                         *)
(***************************************************************************)
ConfiguredWatchIsPolled ==
  \A w \in Watches : w \in configured ~> w \in polled
===============================================================================
