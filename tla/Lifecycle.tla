------------------------------ MODULE Lifecycle ------------------------------
(***************************************************************************)
(* The life of the runner as the agent sees it and as GARM is told:        *)
(* keepRunnerAlive creates, starts and restarts the runner command, one    *)
(* run of it (runnerCmd.executeCommand) reads the runner's output and      *)
(* calls SetRunnerStarted, SetJobStarted and SetJobFinished, the state     *)
(* database keeps what happened across crashes, and loop() reports to GARM *)
(* after every connect.                                                    *)
(*                                                                         *)
(* A Set... method holds s.mux from its write to its message and is one    *)
(* step; keepRunnerAlive and loop() read s.runnerAlive under s.mux and the *)
(* database later, which is two steps (and sending a third).  The channel  *)
(* handshake behind `link` is module Connection, processes and pipes are   *)
(* module RunnerCmd.                                                       *)
(***************************************************************************)
EXTENDS Naturals, Sequences

CONSTANTS
  MaxRetries,      \* the 5 of "retryCount > 5"
  SetupMayFail,    \* setupCommand can fail: Windows job objects; never on nix
  SpawnWorks,      \* FALSE: every exec of the runner fails
  MaxFails,        \* bound: failed creations, set-ups and (SpawnWorks) spawns
  MaxCrashes,      \* bound: crashes of the agent
  MaxBreaks,       \* bound: losses of the connection
  MaxWriteFaults   \* bound: writes of the state database that fail

ASSUME LifecycleAssumption ==
  /\ MaxRetries \in Nat /\ MaxFails \in Nat
  /\ MaxCrashes \in Nat /\ MaxBreaks \in Nat /\ MaxWriteFaults \in Nat
  /\ SetupMayFail \in BOOLEAN /\ SpawnWorks \in BOOLEAN

Lines == {"listening", "job"}
RunnerStatus == {"offline", "idle", "active", "terminated", "failed"}

VARIABLES
  jobStarted, jobFinished,  \* state.State, on disk
  garm,             \* the last status GARM received, "none" before the first
  alive,            \* s.runnerAlive
  cmdSet,           \* s.runnerCmd # nil
  kpc, kSeen, retryCount,   \* keepRunnerAlive: pc, the `alive` it read, retries
  run,              \* the run of runnerCmd between Start and the end of its defer
  sawJob,           \* executeCommand's local jobStarted
  proc, pipe,       \* the runner process, and its output not yet scanned
  link,             \* "down", "up", or "broken": lost, but loop() has not noticed
  lpc, lAlive, lStatus,     \* loop(): pc, the snapshot, the computed status
  fails, crashes, breaks, writeFaults  \* the environment's budgets

dbVars     == <<jobStarted, jobFinished, writeFaults>>
keeperVars == <<kpc, kSeen, retryCount, cmdSet>>
runVars    == <<run, sawJob>>
procVars   == <<proc, pipe>>
loopVars   == <<lpc, lAlive, lStatus>>
linkVars   == <<link, breaks>>
vars == <<dbVars, garm, alive, keeperVars, runVars, procVars, loopVars, linkVars,
          fails, crashes>>

LifecycleTypeOK ==
  /\ jobStarted \in BOOLEAN /\ jobFinished \in BOOLEAN
  /\ garm \in RunnerStatus \union {"none"}
  /\ alive \in BOOLEAN /\ cmdSet \in BOOLEAN
  /\ kpc \in {"create", "start", "failed", "watch", "ended", "sleep", "gone"}
  /\ kSeen \in {"unread", "alive", "dead"}
  /\ retryCount \in 0 .. MaxRetries + 1
  /\ run \in {"none", "spawn", "wait", "drain", "finish"}
  /\ sawJob \in BOOLEAN
  /\ proc \in {"off", "boot", "idle", "busy"}
  /\ pipe \in Seq(Lines)
  /\ link \in {"down", "up", "broken"}
  /\ lpc \in {"off", "snapshot", "status", "send", "online"}
  /\ lAlive \in BOOLEAN /\ lStatus \in RunnerStatus
  /\ fails \in 0 .. MaxFails /\ crashes \in 0 .. MaxCrashes
  /\ breaks \in 0 .. MaxBreaks /\ writeFaults \in 0 .. MaxWriteFaults

Init ==
  /\ jobStarted = FALSE /\ jobFinished = FALSE
  /\ garm = "none" /\ alive = FALSE /\ cmdSet = FALSE
  /\ kpc = "create" /\ kSeen = "unread" /\ retryCount = 0
  /\ run = "none" /\ sawJob = FALSE
  /\ proc = "off" /\ pipe = <<>>
  /\ link = "down" /\ lpc = "off" /\ lAlive = FALSE /\ lStatus = "offline"
  /\ fails = 0 /\ crashes = 0 /\ breaks = 0 /\ writeFaults = 0

-----------------------------------------------------------------------------
(* Helpers *)

\* determineRunnerState.  The mutant drops the "came back online" case.
DetermineTrusting(up) ==
  IF jobFinished THEN "terminated"
  ELSE IF jobStarted /\ up THEN "active"
  ELSE IF up THEN "idle" ELSE "offline"

DetermineRunnerState(up) ==
  IF jobFinished \/ (jobStarted /\ ~up) THEN "terminated"
  ELSE IF jobStarted THEN "active"
  ELSE IF up THEN "idle" ELSE "offline"

\* sendRunnerStatusMessage: an error is logged and the message is lost.
Send(status) ==
  garm' = IF cmdSet /\ link = "up" THEN status ELSE garm

\* One db.Update of state.Manager; a failed one is logged and changes nothing.
RecordStarted ==
  \/ jobStarted' = TRUE /\ UNCHANGED <<jobFinished, writeFaults>>
  \/ /\ writeFaults < MaxWriteFaults
     /\ writeFaults' = writeFaults + 1
     /\ UNCHANGED <<jobStarted, jobFinished>>

RecordFinished ==
  \/ jobFinished' = TRUE /\ UNCHANGED <<jobStarted, writeFaults>>
  \/ /\ writeFaults < MaxWriteFaults
     /\ writeFaults' = writeFaults + 1
     /\ UNCHANGED <<jobStarted, jobFinished>>

Fail == fails < MaxFails /\ fails' = fails + 1

-----------------------------------------------------------------------------
(* keepRunnerAlive *)

\* The check at retryStart, and the mutant that allows one more attempt.
RetriesExhaustedLate == retryCount > MaxRetries + 1
RetriesExhausted == retryCount > MaxRetries

\* isRunnerAlive(), the argument of every determineRunnerState call below.
KeeperReadAlive ==
  /\ kpc \in {"create", "start", "failed", "ended"}
  /\ kSeen = "unread"
  /\ kpc = "start" => ~RetriesExhausted
  /\ kSeen' = IF alive THEN "alive" ELSE "dead"
  /\ UNCHANGED <<dbVars, garm, alive, kpc, retryCount, cmdSet, runVars, procVars,
                 loopVars, linkVars, fails, crashes>>

\* The state the keeper goes by, and the reading is used up.
KeeperState == DetermineRunnerState(kSeen = "alive")
Read(pc) == kpc = pc /\ kSeen # "unread" /\ kSeen' = "unread"

\* retryCreate: return, or NewRunnerCommand, which fails until the runner's
\* configuration is readable (5 s sleep and again).
KeeperCreate ==
  /\ Read("create")
  /\ \/ KeeperState = "terminated" /\ kpc' = "gone" /\ UNCHANGED <<cmdSet, fails>>
     \/ KeeperState # "terminated" /\ Fail /\ UNCHANGED <<kpc, cmdSet>>
     \/ /\ KeeperState # "terminated"
        /\ cmdSet' = TRUE
        /\ kpc' = "start"
        /\ UNCHANGED fails
  /\ UNCHANGED <<dbVars, garm, alive, retryCount, runVars, procVars, loopVars,
                 linkVars, crashes>>

KeeperGiveUp ==
  /\ kpc = "start" /\ RetriesExhausted
  /\ kpc' = "gone"
  /\ UNCHANGED <<dbVars, garm, alive, kSeen, retryCount, cmdSet, runVars, procVars,
                 loopVars, linkVars, fails, crashes>>

\* retryStart: return, or runnerCommand.Start(), which fails when
\* setupCommand does and otherwise leaves the rest to executeCommand.
\* The mutant starts without looking at the state again.
KeeperStartBlind ==
  /\ Read("start")
  /\ run' = "spawn" /\ retryCount' = 0 /\ kpc' = "watch"
  /\ UNCHANGED <<dbVars, garm, alive, cmdSet, sawJob, procVars, loopVars, linkVars,
                 crashes, fails>>

KeeperStart ==
  /\ Read("start")
  /\ \/ /\ KeeperState = "terminated"
        /\ kpc' = "gone"
        /\ UNCHANGED <<run, retryCount, fails>>
     \/ /\ KeeperState # "terminated" /\ SetupMayFail /\ Fail
        /\ retryCount' = retryCount + 1
        /\ kpc' = "failed"
        /\ UNCHANGED run
     \/ /\ KeeperState # "terminated"
        /\ run' = "spawn"
        /\ retryCount' = 0
        /\ kpc' = "watch"
        /\ UNCHANGED fails
  /\ UNCHANGED <<dbVars, garm, alive, cmdSet, sawJob, procVars, loopVars, linkVars,
                 crashes>>

\* Start() failed: GARM is told, once per attempt and only over a live link.
KeeperFailed ==
  /\ Read("failed")
  /\ IF KeeperState = "offline" THEN Send("failed") ELSE UNCHANGED garm
  /\ kpc' = "sleep"
  /\ UNCHANGED <<dbVars, alive, retryCount, cmdSet, runVars, procVars, loopVars,
                 linkVars, fails, crashes>>

\* The 5 s sleep before a retry.  Assumption: it outlasts what is left of the
\* previous run's deferred function, whose turn at s.mux comes first.
KeeperSleep ==
  /\ kpc = "sleep" /\ run = "none"
  /\ kpc' = "start"
  /\ UNCHANGED <<dbVars, garm, alive, kSeen, retryCount, cmdSet, runVars, procVars,
                 loopVars, linkVars, fails, crashes>>

\* <-runnerCommand.Wait(): executeCommand's Stop() closed r.done, before the
\* scanners are drained and before SetRunnerStarted(false).
KeeperWatchAsleep ==
  /\ kpc = "watch"
  /\ kpc' = "ended"
  /\ UNCHANGED <<dbVars, garm, alive, kSeen, retryCount, cmdSet, runVars, procVars,
                 loopVars, linkVars, fails, crashes>>

KeeperWatch ==
  /\ kpc = "watch" /\ run \in {"drain", "finish", "none"}
  /\ kpc' = "ended"
  /\ UNCHANGED <<dbVars, garm, alive, kSeen, retryCount, cmdSet, runVars, procVars,
                 loopVars, linkVars, fails, crashes>>

KeeperEndedQuit ==
  /\ Read("ended")
  /\ kpc' = "gone"
  /\ UNCHANGED <<dbVars, garm, alive, retryCount, cmdSet, runVars, procVars, loopVars,
                 linkVars, fails, crashes>>

KeeperEnded ==
  /\ Read("ended")
  /\ kpc' = IF KeeperState = "terminated" THEN "gone" ELSE "sleep"
  /\ UNCHANGED <<dbVars, garm, alive, retryCount, cmdSet, runVars, procVars, loopVars,
                 linkVars, fails, crashes>>

Keeper == \/ KeeperReadAlive \/ KeeperCreate \/ KeeperGiveUp \/ KeeperStart
          \/ KeeperFailed \/ KeeperSleep \/ KeeperWatch \/ KeeperEnded

-----------------------------------------------------------------------------
(* One run: executeCommand and its scanners, calling back into the service *)

\* executor.startCommand(); after an error the deferred function runs at once.
RunSpawn ==
  /\ run = "spawn"
  /\ \/ /\ SpawnWorks
        /\ run' = "wait" /\ proc' = "boot"
        /\ UNCHANGED fails
     \/ /\ run' = "drain" /\ UNCHANGED proc
        /\ IF SpawnWorks THEN Fail ELSE UNCHANGED fails
  /\ UNCHANGED <<dbVars, garm, alive, keeperVars, sawJob, pipe, loopVars,
                 linkVars, crashes>>

\* executor.wait() returns: cmd.Wait() has closed the pipes, so only what a
\* scanner had already read into its buffer is still delivered.
RunReaped ==
  /\ run = "wait" /\ proc = "off"
  /\ run' = "drain"
  /\ \E n \in 0 .. Len(pipe) : pipe' = SubSeq(pipe, 1, n)
  /\ UNCHANGED <<dbVars, garm, alive, keeperVars, sawJob, proc, loopVars,
                 linkVars, fails, crashes>>

\* "Listening for Jobs": SetRunnerStarted(true).
RunListening ==
  /\ run \in {"wait", "drain"} /\ pipe # <<>> /\ Head(pipe) = "listening"
  /\ pipe' = Tail(pipe)
  /\ alive' = TRUE
  /\ Send(DetermineRunnerState(TRUE))
  /\ UNCHANGED <<dbVars, keeperVars, runVars, proc, loopVars, linkVars,
                 fails, crashes>>

\* "Running job": SetJobStarted(), which tells GARM even if nothing was
\* recorded, and then executeCommand's own flag.
RunJobLine ==
  /\ run \in {"wait", "drain"} /\ pipe # <<>> /\ Head(pipe) = "job"
  /\ pipe' = Tail(pipe)
  /\ RecordStarted
  /\ Send("active")
  /\ sawJob' = TRUE
  /\ UNCHANGED <<alive, keeperVars, run, proc, loopVars, linkVars, fails,
                 crashes>>

\* The deferred function once the scanners are done: SetRunnerStarted(false).
RunOffline ==
  /\ run = "drain" /\ pipe = <<>>
  /\ alive' = FALSE
  /\ Send(DetermineRunnerState(FALSE))
  /\ run' = "finish"
  /\ UNCHANGED <<dbVars, keeperVars, sawJob, procVars, loopVars, linkVars, fails,
                 crashes>>

\* SetJobFinished(), if a job was seen.  The mutant reports the
\* end of every run.
RunFinishAlways ==
  /\ run = "finish"
  /\ IF sawJob THEN RecordFinished ELSE UNCHANGED dbVars
  /\ Send("terminated")
  /\ run' = "none" /\ sawJob' = FALSE
  /\ UNCHANGED <<alive, keeperVars, procVars, loopVars, linkVars, fails, crashes>>

RunFinish ==
  /\ run = "finish"
  /\ IF sawJob THEN RecordFinished /\ Send("terminated")
               ELSE UNCHANGED <<dbVars, garm>>
  /\ run' = "none" /\ sawJob' = FALSE
  /\ UNCHANGED <<alive, keeperVars, procVars, loopVars, linkVars, fails, crashes>>

Run == \/ RunSpawn \/ RunReaped \/ RunListening \/ RunJobLine \/ RunOffline
       \/ RunFinish

-----------------------------------------------------------------------------
(* The runner process: boots, listens, runs at most one job, and may exit at *)
(* any time.                                                                 *)

ProcListen ==
  /\ proc = "boot"
  /\ proc' = "idle" /\ pipe' = Append(pipe, "listening")
  /\ UNCHANGED <<dbVars, garm, alive, keeperVars, runVars, loopVars, linkVars,
                 fails, crashes>>

ProcJob ==
  /\ proc = "idle"
  /\ proc' = "busy" /\ pipe' = Append(pipe, "job")
  /\ UNCHANGED <<dbVars, garm, alive, keeperVars, runVars, loopVars, linkVars, fails,
                 crashes>>

ProcExit ==
  /\ proc # "off"
  /\ proc' = "off"
  /\ UNCHANGED <<dbVars, garm, alive, keeperVars, runVars, pipe, loopVars,
                 linkVars, fails, crashes>>

-----------------------------------------------------------------------------
(* loop() and the connection *)

\* keepAliveLoop stores a started client in s.cli: writes are delivered from
\* here on, whether or not loop() has been woken.
Connect ==
  /\ link = "down"
  /\ link' = "up"
  /\ UNCHANGED <<dbVars, garm, alive, keeperVars, runVars, procVars, loopVars, breaks,
                 fails, crashes>>

Break ==
  /\ link = "up" /\ breaks < MaxBreaks
  /\ link' = "broken"
  /\ breaks' = breaks + 1
  /\ UNCHANGED <<dbVars, garm, alive, keeperVars, runVars, procVars, loopVars, fails,
                 crashes>>

LoopWake ==
  /\ lpc = "off" /\ link # "down"
  /\ lpc' = "snapshot"
  /\ UNCHANGED <<dbVars, garm, alive, keeperVars, runVars, procVars, lAlive, lStatus,
                 linkVars, fails, crashes>>

\* snapshot(); nothing is reported while there is no runner command.  The
\* mutant never reports.
LoopSnapshotMute ==
  /\ lpc = "snapshot"
  /\ lAlive' = alive
  /\ lpc' = "online"
  /\ UNCHANGED <<dbVars, garm, alive, keeperVars, runVars, procVars, lStatus, linkVars,
                 fails, crashes>>

LoopSnapshot ==
  /\ lpc = "snapshot"
  /\ lAlive' = alive
  /\ lpc' = IF cmdSet THEN "status" ELSE "online"
  /\ UNCHANGED <<dbVars, garm, alive, keeperVars, runVars, procVars, lStatus, linkVars,
                 fails, crashes>>

\* sendRunnerStatus after the heartbeat: the database is read now.
LoopStatus ==
  /\ lpc = "status"
  /\ lStatus' = DetermineRunnerState(lAlive)
  /\ lpc' = "send"
  /\ UNCHANGED <<dbVars, garm, alive, keeperVars, runVars, procVars, lAlive, linkVars,
                 fails, crashes>>

LoopSend ==
  /\ lpc = "send"
  /\ Send(lStatus)
  /\ lpc' = "online"
  /\ UNCHANGED <<dbVars, alive, keeperVars, runVars, procVars, lAlive, lStatus,
                 linkVars, fails, crashes>>

\* cli.Done(): the loss is noticed and keepAliveLoop may connect again.  The
\* heartbeat tick carries no status.
LoopDown ==
  /\ lpc = "online" /\ link = "broken"
  /\ lpc' = "off" /\ link' = "down"
  /\ UNCHANGED <<dbVars, garm, alive, keeperVars, runVars, procVars, lAlive, lStatus,
                 breaks, fails, crashes>>

Loop == LoopWake \/ LoopSnapshot \/ LoopStatus \/ LoopSend \/ LoopDown

-----------------------------------------------------------------------------

\* The agent dies and is started again.  Assumption: its service manager ends
\* the runner with it (systemd kills the unit's control group).
Crash ==
  /\ crashes < MaxCrashes
  /\ crashes' = crashes + 1
  /\ alive' = FALSE /\ cmdSet' = FALSE
  /\ kpc' = "create" /\ kSeen' = "unread" /\ retryCount' = 0
  /\ run' = "none" /\ sawJob' = FALSE
  /\ proc' = "off" /\ pipe' = <<>>
  /\ link' = "down" /\ lpc' = "off" /\ lAlive' = FALSE /\ lStatus' = "offline"
  /\ UNCHANGED <<dbVars, garm, breaks, fails>>

Next == \/ Keeper \/ Run \/ Loop
        \/ ProcListen \/ ProcJob \/ ProcExit
        \/ Connect \/ Break \/ Crash

Spec == Init /\ [][Next]_vars

\* Every goroutine that can run does, and a dial eventually succeeds.  Nothing
\* is assumed of the runner, and links and agents may fail within the bounds.
Fairness == WF_vars(Keeper) /\ WF_vars(Run) /\ WF_vars(Loop) /\ WF_vars(Connect)

FairSpec == Spec /\ Fairness

-----------------------------------------------------------------------------
(* Properties *)

\* A runner process only ever runs while keepRunnerAlive waits for its end, so
\* two runs never overlap (service.go:613-626).
KeeperWatchesProcess == proc # "off" => kpc = "watch" /\ run = "wait"

\* GARM, which removes a terminated runner, is told so only about a runner
\* whose job is on record or would be but for a failed write.
NoFalseTermination ==
  garm = "terminated" => jobStarted \/ jobFinished \/ writeFaults > 0

\* RunnerFailed is sent only for a runner that is down and has no job on record
\* (service.go:594-604).
FailedOnlyUntouched ==
  [][garm' = "failed" /\ garm # "failed" =>
       proc = "off" /\ ~jobStarted /\ ~jobFinished]_vars

\* How far GARM knows the runner to have come with its one job.
Progress(status) == CASE status = "terminated" -> 2 [] status = "active" -> 1
                      [] OTHER -> 0

\* GARM's view of the job goes back (from terminated, or from active to idle,
\* offline or failed) only through the report that loop() put together earlier
\* and sends late (service.go:724-735), or after a write to the database failed.
DemotedOnlyByLoop ==
  [][Progress(garm') < Progress(garm) => lpc = "send" \/ writeFaults > 0]_vars

\* Why it holds, as an inductive invariant.  A run occupies the keeper until
\* its process is gone, `alive` and unread output belong to a run, the keeper
\* goes by a true reading of `alive` when it starts one, and so the record is
\* still empty when the process is spawned.
RunInv ==
  /\ proc # "off" => run = "wait"
  /\ run \in {"spawn", "wait"} => kpc = "watch"
  /\ kpc \in {"create", "start", "failed"} => run = "none"
  /\ alive => run \in {"wait", "drain"}
  /\ kSeen = "alive" => kpc = "ended"
  /\ kSeen # "unread" => kpc \in {"create", "start", "failed", "ended"}
  /\ kpc = "start" /\ kSeen # "unread" => ~RetriesExhausted
  /\ run # "none" => ~jobFinished
  /\ run = "spawn" => ~jobStarted

\* Output belongs to a run and comes in the runner's order; the line about the
\* job is the last, so with a job on record there is nothing left to read.
PipeInv ==
  /\ run \notin {"wait", "drain"} => pipe = <<>>
  /\ \A k \in DOMAIN pipe : pipe[k] = "listening" => k = 1
  /\ \A k \in DOMAIN pipe : pipe[k] = "job" => k = Len(pipe)
  /\ proc = "boot" => pipe = <<>>
  /\ proc = "idle" => \A k \in DOMAIN pipe : pipe[k] # "job"
  /\ jobStarted => pipe = <<>> /\ proc \notin {"boot", "idle"}

\* What loop() is about to send, or sent, and what executeCommand remembers is
\* backed by the record or by a write that failed.
ReportInv ==
  /\ lStatus # "failed"
  /\ \A status \in {garm, lStatus} : status \in {"active", "terminated"} =>
       jobStarted \/ jobFinished \/ writeFaults > 0
  /\ sawJob => jobStarted \/ writeFaults > 0

LifecycleInv == LifecycleTypeOK /\ RunInv /\ PipeInv /\ ReportInv

\* The record outlives crashes and decides every launch.
J == INSTANCE OneJob WITH
       record  <- IF jobFinished THEN "over"
                  ELSE IF jobStarted THEN "started" ELSE "fresh",
       running <- proc # "off"
ImplementsOneJob == J!Spec

\* A runner that stopped with no job on record is launched again, or the keeper
\* gave up after too many failed starts.
IdleRunnerRestarted ==
  proc = "off" /\ ~jobStarted /\ ~jobFinished
    ~> proc # "off" \/ jobStarted \/ jobFinished \/ RetriesExhausted

\* With a job on record and the runner gone, keepRunnerAlive retires.
RunnerRetired == jobStarted /\ proc = "off" ~> kpc = "gone"

\* When the end of the job is on record, the next connect tells GARM
\* (config.go:52), as long as the agent itself is not restarted.
ReconnectReports == jobFinished /\ cmdSet /\ lpc = "off" ~> garm = "terminated" \/ ~cmdSet

\* What comments and documents of the repository say that the code does not do;
\* each is checked by a run of its own, which finds a counterexample.

\* The agent "needs to let GARM know that it can no longer be used" when it was
\* restarted after a job (config.go:51-52).
RestartReports == kpc = "gone" /\ ~cmdSet ~> garm = "terminated"

\* A runner is Terminated when "the job was either finished, or canceled", never
\* while it is running its job (service.go:382-385).
TerminatedWhenOver ==
  [][garm' = "terminated" /\ garm # "terminated" => proc = "off"]_vars

\* "The runner did not run a job as far as we know, but it's failing to start.
\* Send a failed message to GARM" (service.go:596).
FailureReported == <>(garm = "failed")
=============================================================================
