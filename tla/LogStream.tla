------------------------------- MODULE LogStream -------------------------------
(***************************************************************************)
(* The log of a run: runJob of internal/daemon/daemon.go writes it,        *)
(* handleRunLog of internal/logserver/server.go streams it while it grows, *)
(* and ApplyRetention of internal/logserver/retention.go removes it.       *)
(*                                                                         *)
(* A log file is the number of its lines, each of size one.  A file that   *)
(* is removed stays readable to those who have it open; what runJob        *)
(* appends after that goes to a second file, so a run has the files 1 and  *)
(* 2, and path[w] is the one its name leads to.                            *)
(***************************************************************************)
EXTENDS Database, FiniteSets, FiniteSetsExt

CONSTANTS
  Runs,      \* runs with a log
  Past,      \* those that ended before the process started
  NoRun,     \* no run
  MaxLines,  \* bound: lines the runner writes
  MaxBytes,  \* s.maxBytes
  MaxAge,    \* s.maxAge
  MaxClock   \* bound: the clock

ASSUME LogStreamAssumption ==
  /\ IsFiniteSet(Runs) /\ Past \subseteq Runs /\ NoRun \notin Runs
  /\ {MaxLines, MaxBytes, MaxAge, MaxClock} \subseteq Nat

VARIABLES
  clock,    \* the time
  status,   \* runs.status, "none" without a row
  writer,   \* where runJob is, "idle" before and "gone" after it
  ctxDone,  \* runCtx is done
  cancel,   \* CancelRun is between its two halves
  path,     \* the file at the path of the run's log, 0 for none
  lines,    \* [run -> [file -> lines in it]]
  mtime,    \* time of the last write to the run's log
  lost,     \* history: runs whose log retention removed
  reader,   \* handleRunLog
  sweep     \* ApplyRetention

runVars == <<status, writer, ctxDone, cancel>>
fileVars == <<path, lines, mtime, lost>>
logVars == <<clock, runVars, fileVars, reader, sweep>>

NoReader == [pc |-> "idle", run |-> NoRun, file |-> 0, read |-> 0]
\* freed, grown, passed and stuck are history: the files removed for space, the
\* lines written meanwhile, and the sizes of the files it passed over and of those
\* it could not remove for space.
NoSweep == [pc |-> "idle", todo |-> {}, found |-> {}, total |-> 0, freed |-> {},
            grown |-> 0, passed |-> 0, stuck |-> 0]

\* The past runs passed and left a log of one line each, last written at time 0.
LogInit ==
  /\ clock = 0
  /\ status = [w \in Runs |-> IF w \in Past THEN "success" ELSE "none"]
  /\ writer = [w \in Runs |-> IF w \in Past THEN "gone" ELSE "idle"]
  /\ ctxDone = [w \in Runs |-> FALSE]
  /\ cancel = [w \in Runs |-> FALSE]
  /\ path = [w \in Runs |-> IF w \in Past THEN 1 ELSE 0]
  /\ lines = [w \in Runs |-> <<IF w \in Past THEN 1 ELSE 0, 0>>]
  /\ mtime = [w \in Runs |-> 0]
  /\ lost = {}
  /\ reader = NoReader
  /\ sweep = NoSweep

Tick ==
  /\ clock < MaxClock
  /\ clock' = clock + 1
  /\ UNCHANGED <<runVars, fileVars, reader, sweep, fk, restarts>>

MutIsTerminal(s) == s \in {"success", "failure", "error"}
IsTerminal(s) == s \in {"success", "failure", "error", "canceled"}

--------------------------------------------------------------------------------
(* runJob and CancelRun *)

\* UpdateRunStatus(runCtx, ...): an error, and with runCtx done it is one, is
\* dropped.
SetStatus(w, s) == status' = IF ctxDone[w] THEN status ELSE [status EXCEPT ![w] = s]

At(w, here, next) == writer[w] = here /\ writer' = [writer EXCEPT ![w] = next]

\* inFlight.Store and CreateRun
StartRun(w) ==
  /\ At(w, "idle", "queued")
  /\ SetStatus(w, "queued")
  /\ UNCHANGED <<clock, ctxDone, cancel, fileVars, reader, sweep, fk, restarts>>

MarkRunning(w) ==
  /\ At(w, "queued", "create")
  /\ SetStatus(w, "running")
  /\ UNCHANGED <<clock, ctxDone, cancel, fileVars, reader, sweep, fk, restarts>>

\* os.Create; without a file the run goes on with io.Discard.
CreateLog(w) ==
  /\ \/ /\ At(w, "create", "write")
        /\ path' = [path EXCEPT ![w] = 1]
        /\ mtime' = [mtime EXCEPT ![w] = clock]
     \/ At(w, "create", "discard") /\ UNCHANGED <<path, mtime>>
  /\ UNCHANGED <<clock, status, ctxDone, cancel, lines, lost, reader, sweep, fk, restarts>>

Grows == sweep' = IF sweep.pc = "idle" THEN sweep ELSE [sweep EXCEPT !.grown = @ + 1]

\* The runner writes a line to the file it has open.
WriteLine(w) ==
  /\ writer[w] = "write" /\ lines[w][1] < MaxLines
  /\ lines' = [lines EXCEPT ![w][1] = @ + 1]
  /\ mtime' = IF path[w] = 1 THEN [mtime EXCEPT ![w] = clock] ELSE mtime
  /\ Grows
  /\ UNCHANGED <<clock, runVars, path, lost, reader, fk, restarts>>

\* d.runner.Run returns an exit code or an error, and the file is closed.
RunnerReturns(w) ==
  /\ writer[w] \in {"write", "discard"}
  /\ \E next \in {"success", "failure", "append"}:
       writer' = [writer EXCEPT ![w] = next]
  /\ UNCHANGED <<clock, status, ctxDone, cancel, fileVars, reader, sweep, fk, restarts>>

\* The error is appended to the log, which is created if it is not there.
AppendError(w) ==
  LET f == IF path[w] # 0 THEN path[w] ELSE IF w \in lost THEN 2 ELSE 1
  IN  /\ At(w, "append", "error")
      /\ path' = [path EXCEPT ![w] = f]
      /\ lines' = [lines EXCEPT ![w][f] = @ + 1]
      /\ mtime' = [mtime EXCEPT ![w] = clock]
      /\ Grows
      /\ UNCHANGED <<clock, status, ctxDone, cancel, lost, reader, fk, restarts>>

\* The final UpdateRunStatus
Finish(w) ==
  /\ writer[w] \in {"success", "failure", "error"}
  /\ SetStatus(w, writer[w])
  /\ writer' = [writer EXCEPT ![w] = "leave"]
  /\ UNCHANGED <<clock, ctxDone, cancel, fileVars, reader, sweep, fk, restarts>>

\* The deferred inFlight.Delete
Leave(w) ==
  /\ At(w, "leave", "gone")
  /\ UNCHANGED <<clock, status, ctxDone, cancel, fileVars, reader, sweep, fk, restarts>>

InFlight(w) == writer[w] \notin {"idle", "gone"}

\* The workflow's timeout
TimeOut(w) ==
  /\ InFlight(w) /\ ~ctxDone[w]
  /\ ctxDone' = [ctxDone EXCEPT ![w] = TRUE]
  /\ UNCHANGED <<clock, status, writer, cancel, fileVars, reader, sweep, fk, restarts>>

\* CancelRun: inFlight.Load and cancel()
CancelRun(w) ==
  /\ InFlight(w) /\ ~cancel[w] /\ status[w] # "canceled"
  /\ ctxDone' = [ctxDone EXCEPT ![w] = TRUE]
  /\ cancel' = [cancel EXCEPT ![w] = TRUE]
  /\ UNCHANGED <<clock, status, writer, fileVars, reader, sweep, fk, restarts>>

\* CancelRun: UpdateRunStatus with the request's context, its error ignored
RecordCanceled(w) ==
  /\ cancel[w]
  /\ cancel' = [cancel EXCEPT ![w] = FALSE]
  /\ \/ status' = [status EXCEPT ![w] = "canceled"]
     \/ UNCHANGED status
  /\ UNCHANGED <<clock, writer, ctxDone, fileVars, reader, sweep, fk, restarts>>

RunJob(w) ==
  \/ MarkRunning(w) \/ CreateLog(w) \/ WriteLine(w) \/ RunnerReturns(w)
  \/ AppendError(w) \/ Finish(w) \/ Leave(w)

--------------------------------------------------------------------------------
(* handleRunLog *)

Streaming == {"copy", "open", "drain", "status", "final", "last", "wait"}

\* A request for the log of a run that has a row, and its first GetRun.
GetLog(w) ==
  /\ reader.pc \notin Streaming /\ status[w] # "none"
  /\ reader' = [pc |-> IF IsTerminal(status[w]) THEN "copy" ELSE "open",
                run |-> w, file |-> 0, read |-> 0]
  /\ UNCHANGED <<clock, runVars, fileVars, sweep, fk, restarts>>

Read(file) == IF file = 0 THEN 0 ELSE lines[reader.run][file]

\* The run is over: os.Open and io.Copy.
CopyLog ==
  /\ reader.pc = "copy"
  /\ LET f == path[reader.run]
     IN  reader' = [reader EXCEPT !.pc = "finished", !.file = f, !.read = Read(f)]
  /\ UNCHANGED <<clock, runVars, fileVars, sweep, fk, restarts>>

\* The head of the loop: os.Open until it works.
OpenLog ==
  /\ reader.pc = "open"
  /\ reader' = [reader EXCEPT !.pc = "drain",
                              !.file = IF @ = 0 THEN path[reader.run] ELSE @]
  /\ UNCHANGED <<clock, runVars, fileVars, sweep, fk, restarts>>

Drain ==
  /\ reader.pc = "drain"
  /\ reader' = [reader EXCEPT !.pc = "status", !.read = Read(reader.file)]
  /\ UNCHANGED <<clock, runVars, fileVars, sweep, fk, restarts>>

\* GetRun in the loop; its error ends the stream the way a finished run does.
CheckStatus ==
  /\ reader.pc = "status"
  /\ \/ reader' = [reader EXCEPT !.pc = IF IsTerminal(status[reader.run])
                                       THEN "final" ELSE "wait"]
     \/ reader' = [reader EXCEPT !.pc = "last"]
  /\ UNCHANGED <<clock, runVars, fileVars, sweep, fk, restarts>>

MutFinalDrain ==
  /\ reader.pc \in {"final", "last"}
  /\ reader' = [reader EXCEPT !.pc = IF @ = "final" THEN "finished" ELSE "cut"]
  /\ UNCHANGED <<clock, runVars, fileVars, sweep, fk, restarts>>

\* What was written between the drain and the status is read here.
FinalDrain ==
  /\ reader.pc \in {"final", "last"}
  /\ reader' = [reader EXCEPT !.pc = IF @ = "final" THEN "finished" ELSE "cut",
                              !.read = Read(reader.file)]
  /\ UNCHANGED <<clock, runVars, fileVars, sweep, fk, restarts>>

\* 500 ms pass.
Wait ==
  /\ reader.pc = "wait"
  /\ reader' = [reader EXCEPT !.pc = "open"]
  /\ UNCHANGED <<clock, runVars, fileVars, sweep, fk, restarts>>

\* r.Context().Done(): the client left.
Disconnect ==
  /\ reader.pc = "wait"
  /\ reader' = NoReader
  /\ UNCHANGED <<clock, runVars, fileVars, sweep, fk, restarts>>

Stream == CopyLog \/ OpenLog \/ Drain \/ CheckStatus \/ FinalDrain \/ Wait

--------------------------------------------------------------------------------
(* ApplyRetention, every hour *)

\* os.ReadDir
ReadDir ==
  /\ sweep.pc = "idle"
  /\ sweep' = [NoSweep EXCEPT !.pc = "scan", !.todo = {w \in Runs: path[w] # 0}]
  /\ UNCHANGED <<clock, runVars, fileVars, reader, fk, restarts>>

\* os.Remove of the path
Unlink(w) ==
  /\ path' = [path EXCEPT ![w] = 0]
  /\ lost' = lost \cup {w}
  /\ UNCHANGED <<lines, mtime>>

Size(w) == IF path[w] = 0 THEN 0 ELSE lines[w][path[w]]

Expired(w) == clock > mtime[w] + MaxAge

\* An old file is removed, another is remembered as it is now; a file is passed
\* over when entry.Info fails for it, or the removal of an old one.
StatFile(w) ==
  /\ sweep.pc = "scan" /\ w \in sweep.todo
  /\ \/ /\ Expired(w) /\ Unlink(w)
        /\ sweep' = [sweep EXCEPT !.todo = @ \ {w}]
     \/ /\ ~Expired(w) /\ UNCHANGED fileVars
        /\ sweep' = [sweep EXCEPT !.todo = @ \ {w}, !.total = @ + Size(w),
                        !.found = @ \cup {[run |-> w, size |-> Size(w), mtime |-> mtime[w]]}]
     \/ /\ UNCHANGED fileVars
        /\ sweep' = [sweep EXCEPT !.todo = @ \ {w}, !.passed = @ + Size(w)]
  /\ UNCHANGED <<clock, runVars, reader, fk, restarts>>

MutOldest(files) == {f \in files: \A g \in files: f.mtime >= g.mtime}

\* The files sort.Slice may put first.
Oldest(files) == {f \in files: \A g \in files: f.mtime <= g.mtime}

\* The oldest file goes while the total is over the limit.  If os.Remove fails,
\* the total stays and the next one's turn comes.
FreeSpace ==
  /\ sweep.pc = "scan" /\ sweep.todo = {}
  /\ sweep.total > MaxBytes /\ sweep.found # {}
  /\ \E f \in Oldest(sweep.found):
       \/ /\ Unlink(f.run)
          /\ sweep' = [sweep EXCEPT !.total = @ - f.size, !.found = @ \ {f},
                                    !.freed = @ \cup {f}]
       \/ /\ UNCHANGED fileVars
          /\ sweep' = [sweep EXCEPT !.found = @ \ {f}, !.stuck = @ + f.size]
  /\ UNCHANGED <<clock, runVars, reader, fk, restarts>>

Swept ==
  /\ sweep.pc = "scan" /\ sweep.todo = {}
  /\ sweep.total <= MaxBytes \/ sweep.found = {}
  /\ sweep' = [sweep EXCEPT !.pc = "swept"]
  /\ UNCHANGED <<clock, runVars, fileVars, reader, fk, restarts>>

\* The sweep returns to runRetention.
Rest ==
  /\ sweep.pc = "swept"
  /\ sweep' = NoSweep
  /\ UNCHANGED <<clock, runVars, fileVars, reader, fk, restarts>>

--------------------------------------------------------------------------------
\* The process dies, and recoverStaleRuns runs before anything else.
CrashLogs ==
  /\ Stops
  /\ writer' = [w \in Runs |-> IF InFlight(w) THEN "gone" ELSE writer[w]]
  /\ status' = [w \in Runs |-> IF status[w] \in {"queued", "running"}
                               THEN "error" ELSE status[w]]
  /\ ctxDone' = [w \in Runs |-> FALSE]
  /\ cancel' = [w \in Runs |-> FALSE]
  /\ reader' = NoReader
  /\ sweep' = NoSweep
  /\ UNCHANGED <<clock, fileVars>>

Writing ==
  \E w \in Runs: StartRun(w) \/ RunJob(w) \/ TimeOut(w) \/ CancelRun(w) \/ RecordCanceled(w)
Reading == Stream \/ Disconnect \/ \E w \in Runs: GetLog(w)
Sweeping == ReadDir \/ FreeSpace \/ Swept \/ Rest \/ \E w \in Runs: StatFile(w)

\* runJob and handleRunLog run on: the runner ends, the store answers, and the
\* scheduler lets every goroutine go on.
LogFairness ==
  /\ \A w \in Runs \ Past: WF_logVars(RunJob(w)) /\ WF_logVars(RecordCanceled(w))
  /\ WF_logVars(Stream)

--------------------------------------------------------------------------------
\* A stream that ends because the run is over has delivered every line of the
\* log, the error runJob appends last included, whatever was written while it
\* polled - if it found the file, retention did not remove it and nobody
\* canceled the run, which may write on after its status is final.
FinishedLogIsWhole ==
  LET w == reader.run
  IN  reader.pc = "finished" /\ reader.file # 0 /\ w \notin lost /\ status[w] # "canceled"
        => reader.read = lines[w][1] + lines[w][2]

\* The final status of the run was lost: its context ended before runJob wrote
\* it, by a timeout or by a cancel whose own write failed.
StatusLost(w) == writer[w] = "gone" /\ ~cancel[w] /\ status[w] \in {"queued", "running"}

\* handleRunLog ends, unless the status of its run stays running for good
\* because runJob's last write was lost.
StreamEnds ==
  reader.pc \in Streaming ~>
    \/ reader.pc \notin Streaming
    \/ StatusLost(reader.run)

\* Files ApplyRetention passed over and what was written while it ran aside, it
\* leaves no more than the limit, or, when it got to the last file, no more than
\* those it could not remove (retention.go:51-54, 62, 75-84).  It removes a file
\* for space before those written later, and none when the others fit.
SweepKeepsNewest ==
  sweep.pc = "swept" =>
    /\ MapThenSumSet(Size, Runs) <=
         sweep.passed + sweep.grown + (IF sweep.found = {} THEN sweep.stuck ELSE MaxBytes)
    /\ \A f \in sweep.freed, g \in sweep.found: f.mtime <= g.mtime
    /\ sweep.freed # {} =>
         \E f \in sweep.freed: sweep.total + f.size > MaxBytes

================================================================================
