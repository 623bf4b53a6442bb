------------------------------ MODULE RunnerCmd ------------------------------
(***************************************************************************)
(* One run of the runner command (service/runner/runner.go, exec_nix.go,   *)
(* exec_windows.go): keepRunnerAlive, runnerCmd.loop and executeCommand    *)
(* may each call Stop(), which holds r.mux while it cleans up: it signals  *)
(* the process group on nix and closes the job object on Windows, which    *)
(* kills the processes in it.  executeCommand spawns and reaps the runner, *)
(* the leader of its group; two scanners read its pipes and call the       *)
(* service back; and the daemon exits.                                     *)
(*                                                                         *)
(* Whether keepRunnerAlive starts another run is module Lifecycle, and so  *)
(* is what the service does in its callbacks.                              *)
(***************************************************************************)
EXTENDS Naturals, Sequences

CONSTANTS ChildMayRun,  \* the leader (a wrapper script) may start a child process
          LongLines     \* the runner may print lines of more than 64 KiB

ASSUME RunnerCmdAssumption == ChildMayRun \in BOOLEAN /\ LongLines \in BOOLEAN

Threads == {"keeper", "loop", "exec"}
Streams == {"stdout", "stderr"}
Lines   == {"listening", "job"}

VARIABLES
  pc,            \* program counter of each thread
  running, rdone, mux,  \* r.running, whether r.done is closed, holder of r.mux
  cleanup,       \* what the holder of r.mux is doing in executor.cleanup()
  published,     \* cmd.Process is set
  exited,        \* executor.exited is closed
  jobHandle,     \* the executor's job object: "none", "open" or "closed"
  leader, child, \* the processes of the group
  inJob,         \* those that are in the job object
  said,          \* the last line the runner printed
  pipe, buf,     \* per stream: written and unread; in the scanner's buffer
  readEnd,       \* cmd.Wait or a failed cmd.Start closed the read ends
  scanner,       \* per stream: "off", "reading" or "ended"
  alive, jobStarted, jobFinished,  \* the service's view, from the callbacks
  ctxDone, sdone, \* a signal cancelled the context; Service.done is closed
  platform,      \* "nix" or "windows"
  host,          \* the agent process: "up" or "exited"
  missed, stray  \* history: cleanup saw no process; a signal missed its target

stopVars   == <<running, rdone, mux, cleanup>>
execVars   == <<published, exited, jobHandle>>
procVars   == <<leader, child, inJob, said>>
scanVars   == <<pipe, buf, readEnd, scanner>>
viewVars   == <<alive, jobStarted, jobFinished>>
hostVars   == <<ctxDone, sdone, platform, host>>
historyVars == <<missed, stray>>
vars == <<pc, stopVars, execVars, procVars, scanVars, viewVars, hostVars, historyVars>>

RunnerCmdTypeOK ==
  /\ pc \in [Threads -> {"off", "start", "watch", "spawn", "forked", "assign", "wait",
                         "reaped", "stop", "cleanup", "linger", "drain", "finish", "exited"}]
  /\ running \in BOOLEAN /\ rdone \in BOOLEAN
  /\ mux \in Threads \union {"free"}
  /\ cleanup \in {"none", "look", "term", "grace", "kill"}
  /\ published \in BOOLEAN /\ exited \in BOOLEAN
  /\ jobHandle \in {"none", "open", "closed"} /\ inJob \in SUBSET {"leader", "child"}
  /\ leader \in {"none", "running", "zombie", "reaped"}
  /\ child \in {"none", "running", "dead"}
  /\ said \in Lines \union {"nothing"}
  /\ pipe \in [Streams -> Seq(Lines)] /\ buf \in [Streams -> Seq(Lines)]
  /\ readEnd \in {"open", "closed"}
  /\ scanner \in [Streams -> {"off", "reading", "ended"}]
  /\ alive \in BOOLEAN /\ jobStarted \in BOOLEAN /\ jobFinished \in BOOLEAN
  /\ ctxDone \in BOOLEAN /\ sdone \in BOOLEAN
  /\ platform \in {"nix", "windows"} /\ host \in {"up", "exited"}
  /\ missed \in BOOLEAN /\ stray \in BOOLEAN

Init ==
  /\ pc = [t \in Threads |-> IF t = "keeper" THEN "start" ELSE "off"]
  /\ running = FALSE /\ rdone = TRUE /\ mux = "free" /\ cleanup = "none"
  /\ published = FALSE /\ exited = FALSE
  /\ jobHandle = "none" /\ inJob = {}
  /\ leader = "none" /\ child = "none" /\ said = "nothing"
  /\ pipe = [s \in Streams |-> <<>>] /\ buf = [s \in Streams |-> <<>>]
  /\ readEnd = "open" /\ scanner = [s \in Streams |-> "off"]
  /\ alive = FALSE /\ jobStarted = FALSE /\ jobFinished = FALSE
  /\ ctxDone = FALSE /\ sdone = FALSE /\ platform \in {"nix", "windows"} /\ host = "up"
  /\ missed = FALSE /\ stray = FALSE

Quitting == ctxDone \/ sdone

\* startCommand() has not returned.
Starting == pc["exec"] \in {"spawn", "forked", "assign"}

\* A thread of the agent moves from one place to another while the agent runs.
Goto(t, from, to) == host = "up" /\ pc[t] = from /\ pc' = [pc EXCEPT ![t] = to]

-----------------------------------------------------------------------------
(* keepRunnerAlive *)

\* runnerCommand.Start(): a fresh r.done and executor, with a job object on
\* Windows, and two goroutines.
KeeperStart ==
  /\ host = "up" /\ pc["keeper"] = "start" /\ mux = "free"
  /\ pc' = [keeper |-> "watch", loop |-> "watch", exec |-> "spawn"]
  /\ running' = TRUE /\ rdone' = FALSE
  /\ jobHandle' = IF platform = "windows" THEN "open" ELSE "none"
  /\ UNCHANGED <<mux, cleanup, published, exited, procVars, scanVars, viewVars, hostVars,
                 historyVars>>

\* The select of the keeper; the deferred function calls Stop().
KeeperWatch ==
  /\ Quitting \/ rdone
  /\ Goto("keeper", "watch", "stop")
  /\ UNCHANGED <<stopVars, execVars, procVars, scanVars, viewVars, hostVars,
                 historyVars>>

\* Wait() of a stopped command is closed: the 2 s are not used up.
KeeperLinger ==
  /\ rdone
  /\ Goto("keeper", "linger", "exited")
  /\ UNCHANGED <<stopVars, execVars, procVars, scanVars, viewVars, hostVars,
                 historyVars>>

\* runnerCmd.loop waits for the context or for r.done.
LoopWatch ==
  /\ ctxDone \/ rdone
  /\ Goto("loop", "watch", "stop")
  /\ UNCHANGED <<stopVars, execVars, procVars, scanVars, viewVars, hostVars,
                 historyVars>>

-----------------------------------------------------------------------------
(* Stop() and executor.cleanup() *)

\* Where each thread continues after Stop().
AfterStop == [keeper |-> "linger", loop |-> "exited", exec |-> "drain"]

\* Nothing to do for the second caller, who may have waited for the first.
StopIdle(t) ==
  /\ mux = "free" /\ ~running
  /\ Goto(t, "stop", AfterStop[t])
  /\ UNCHANGED <<stopVars, execVars, procVars, scanVars, viewVars, hostVars,
                 historyVars>>

\* The mutant releases r.mux before it cleans up.
StopBeginUnlocked(t) ==
  /\ mux = "free" /\ running
  /\ Goto(t, "stop", AfterStop[t])
  /\ running' = FALSE /\ rdone' = TRUE /\ cleanup' = "look"
  /\ UNCHANGED <<mux, execVars, procVars, scanVars, viewVars, hostVars, historyVars>>

StopBegin(t) ==
  /\ mux = "free" /\ running
  /\ Goto(t, "stop", "cleanup")
  /\ running' = FALSE /\ rdone' = TRUE /\ mux' = t /\ cleanup' = "look"
  /\ UNCHANGED <<execVars, procVars, scanVars, viewVars, hostVars, historyVars>>

\* cleanup() returns and so does Stop(), which releases r.mux.
CleanupEnds(t) ==
  /\ cleanup' = "none" /\ mux' = "free"
  /\ pc' = [pc EXCEPT ![t] = AfterStop[t]]
  /\ UNCHANGED <<running, rdone>>

CleanupGoes(step) == cleanup' = step /\ UNCHANGED <<running, rdone, mux, pc>>

\* The mutant signals without a look at executor.exited.
CleanupLookBlind(t) ==
  /\ host = "up" /\ mux = t /\ cleanup = "look" /\ platform = "nix"
  /\ missed' = ~published
  /\ IF published THEN CleanupGoes("term") ELSE CleanupEnds(t)
  /\ UNCHANGED <<execVars, procVars, scanVars, viewVars, hostVars, stray>>

\* On nix: cmd.Process is read without a lock while startCommand may be setting it.
CleanupLook(t) ==
  /\ host = "up" /\ mux = t /\ cleanup = "look" /\ platform = "nix"
  /\ missed' = ~published
  /\ IF published /\ ~exited THEN CleanupGoes("term") ELSE CleanupEnds(t)
  /\ UNCHANGED <<execVars, procVars, scanVars, viewVars, hostVars, stray>>

\* A signal goes astray when the leader was reaped and nobody else is left in
\* its group: its process ID is free to be used again.
Signal == stray' = (stray \/ (leader = "reaped" /\ child # "running"))

\* SIGTERM: the processes may exit then, as they may at any time.
CleanupTerm(t) ==
  /\ host = "up" /\ mux = t /\ cleanup = "term"
  /\ Signal
  /\ CleanupGoes("grace")
  /\ UNCHANGED <<execVars, procVars, scanVars, viewVars, hostVars, missed>>

\* The mutant waits for the exit without the 2 s timer.
CleanupGracePatient(t) ==
  /\ host = "up" /\ mux = t /\ cleanup = "grace"
  /\ exited /\ CleanupEnds(t)
  /\ UNCHANGED <<execVars, procVars, scanVars, viewVars, hostVars, historyVars>>

\* The exit or 2 s, which the select may prefer although exited is closed by then.
CleanupGrace(t) ==
  /\ host = "up" /\ mux = t /\ cleanup = "grace"
  /\ (exited /\ CleanupEnds(t)) \/ CleanupGoes("kill")
  /\ UNCHANGED <<execVars, procVars, scanVars, viewVars, hostVars, historyVars>>

CleanupKill(t) ==
  /\ host = "up" /\ mux = t /\ cleanup = "kill"
  /\ Signal
  /\ leader' = IF leader = "running" THEN "zombie" ELSE leader
  /\ child' = IF child = "running" THEN "dead" ELSE child
  /\ CleanupEnds(t)
  /\ UNCHANGED <<inJob, said, execVars, scanVars, viewVars, hostVars, missed>>

\* The last handle of the job object is closed, which kills the processes in it.
CloseJob ==
  /\ jobHandle' = "closed"
  /\ leader' = IF leader = "running" /\ "leader" \in inJob THEN "zombie" ELSE leader
  /\ child' = IF child = "running" /\ "child" \in inJob THEN "dead" ELSE child
  /\ UNCHANGED <<inJob, said>>

\* On Windows, where startCommand may not have put the leader in the job yet and
\* will then fail to.
CleanupClose(t) ==
  /\ host = "up" /\ mux = t /\ cleanup = "look" /\ platform = "windows"
  /\ missed' = Starting
  /\ CloseJob
  /\ CleanupEnds(t)
  /\ UNCHANGED <<published, exited, scanVars, viewVars, hostVars, stray>>

Stop(t) == \/ StopIdle(t) \/ StopBegin(t)
           \/ CleanupLook(t) \/ CleanupTerm(t) \/ CleanupGrace(t) \/ CleanupKill(t)
           \/ CleanupClose(t)

-----------------------------------------------------------------------------
(* executeCommand *)

\* The pipes, the two scanner goroutines and the fork of startCommand.
ExecSpawn ==
  /\ Goto("exec", "spawn", "forked")
  /\ leader' = "running"
  /\ scanner' = [s \in Streams |-> "reading"]
  /\ UNCHANGED <<child, inJob, said, pipe, buf, readEnd, stopVars, execVars, viewVars,
                 hostVars, historyVars>>

\* A pipe cannot be made and no scanner is started, or cmd.Start fails and closes
\* both ends of the pipes, and on Windows startCommand closes the job.
ExecSpawnFails ==
  /\ Goto("exec", "spawn", "stop")
  /\ readEnd' = "closed"
  /\ \/ scanner' = [s \in Streams |-> "ended"] /\ UNCHANGED jobHandle
     \/ /\ scanner' = [s \in Streams |-> "reading"]
        /\ jobHandle' = IF platform = "windows" THEN "closed" ELSE jobHandle
  /\ UNCHANGED <<pipe, buf, procVars, stopVars, published, exited, viewVars, hostVars,
                 historyVars>>

\* os.StartProcess returns and cmd.Process is set.
ExecPublish ==
  /\ Goto("exec", "forked", IF platform = "windows" THEN "assign" ELSE "wait")
  /\ published' = TRUE
  /\ UNCHANGED <<exited, jobHandle, procVars, scanVars, stopVars, viewVars, hostVars,
                 historyVars>>

\* AssignProcessToJobObject, of a process that is running.  What it forks from
\* now on is in the job too; a child that it has forked already is not.
ExecAssign ==
  /\ Goto("exec", "assign", "wait")
  /\ leader = "running" /\ jobHandle = "open"
  /\ inJob' = inJob \union {"leader"}
  /\ UNCHANGED <<leader, child, said, scanVars, stopVars, execVars, viewVars, hostVars,
                 historyVars>>

\* OpenProcess or the assignment fails, as it must once Stop() has closed the job.
\* The process is killed and nobody waits for it.  The mutant forgets to kill it.
ExecAssignFailsMild ==
  /\ Goto("exec", "assign", "stop")
  /\ jobHandle' = "closed"
  /\ UNCHANGED <<published, exited, procVars, scanVars, stopVars, viewVars,
                 hostVars, historyVars>>

ExecAssignFails ==
  /\ Goto("exec", "assign", "stop")
  /\ leader' = IF leader = "running" THEN "zombie" ELSE leader
  /\ jobHandle' = "closed"
  /\ UNCHANGED <<published, exited, child, inJob, said, scanVars, stopVars, viewVars,
                 hostVars, historyVars>>

\* cmd.Wait: the kernel reaps the leader ...
ExecReap ==
  /\ Goto("exec", "wait", "reaped")
  /\ leader = "zombie"
  /\ leader' = "reaped"
  /\ UNCHANGED <<child, inJob, said, scanVars, stopVars, execVars, viewVars, hostVars,
                 historyVars>>

\* ... and then cmd.Wait closes the read ends, whatever is still in the pipes,
\* and wait() closes executor.exited.
ExecReaped ==
  /\ Goto("exec", "reaped", "stop")
  /\ readEnd' = "closed"
  /\ pipe' = [s \in Streams |-> <<>>]
  /\ exited' = TRUE
  /\ UNCHANGED <<published, jobHandle, buf, scanner, procVars, stopVars, viewVars, hostVars,
                 historyVars>>

\* scannerWg.Wait() and SetRunnerStarted(false); the mutant does not wait.
ExecOfflineEager ==
  /\ Goto("exec", "drain", "finish")
  /\ alive' = FALSE
  /\ UNCHANGED <<jobStarted, jobFinished, procVars, scanVars, stopVars, execVars,
                 hostVars, historyVars>>

ExecOffline ==
  /\ Goto("exec", "drain", "finish")
  /\ \A s \in Streams : scanner[s] = "ended"
  /\ alive' = FALSE
  /\ UNCHANGED <<jobStarted, jobFinished, procVars, scanVars, stopVars, execVars,
                 hostVars, historyVars>>

ExecFinish ==
  /\ Goto("exec", "finish", "exited")
  /\ jobFinished' = jobStarted
  /\ UNCHANGED <<alive, jobStarted, procVars, scanVars, stopVars, execVars, hostVars,
                 historyVars>>

Exec == \/ ExecSpawn \/ ExecSpawnFails \/ ExecPublish \/ ExecAssign \/ ExecAssignFails
        \/ ExecReap \/ ExecReaped \/ ExecOffline \/ ExecFinish

-----------------------------------------------------------------------------
(* The scanners *)

Writers == leader = "running" \/ child = "running" \/ pc["exec"] \in {"spawn", "forked"}

\* A read takes everything that is in the pipe.
ScanFill(s) ==
  /\ host = "up" /\ scanner[s] = "reading" /\ readEnd = "open"
  /\ buf[s] = <<>> /\ pipe[s] # <<>>
  /\ buf' = [buf EXCEPT ![s] = pipe[s]] /\ pipe' = [pipe EXCEPT ![s] = <<>>]
  /\ UNCHANGED <<readEnd, scanner, pc, stopVars, execVars, procVars, viewVars, hostVars,
                 historyVars>>

\* One line: SetJobStarted and the local flag, or SetRunnerStarted(true).
ScanLine(s) ==
  /\ host = "up" /\ scanner[s] = "reading" /\ buf[s] # <<>>
  /\ buf' = [buf EXCEPT ![s] = Tail(@)]
  /\ \/ Head(buf[s]) = "job" /\ jobStarted' = TRUE /\ UNCHANGED alive
     \/ Head(buf[s]) = "listening" /\ alive' = TRUE /\ UNCHANGED jobStarted
  /\ UNCHANGED <<jobFinished, pipe, readEnd, scanner, pc, stopVars, execVars, procVars,
                 hostVars, historyVars>>

\* The end of the file, or a closed read end; the mutant knows only the first.
ScanEndAtEOF(s) ==
  /\ host = "up" /\ scanner[s] = "reading" /\ buf[s] = <<>>
  /\ pipe[s] = <<>> /\ ~Writers
  /\ scanner' = [scanner EXCEPT ![s] = "ended"]
  /\ UNCHANGED <<pipe, buf, readEnd, pc, stopVars, execVars, procVars, viewVars, hostVars,
                 historyVars>>

ScanEnd(s) ==
  /\ host = "up" /\ scanner[s] = "reading" /\ buf[s] = <<>>
  /\ readEnd = "closed" \/ (pipe[s] = <<>> /\ ~Writers)
  /\ scanner' = [scanner EXCEPT ![s] = "ended"]
  /\ UNCHANGED <<pipe, buf, readEnd, pc, stopVars, execVars, procVars, viewVars, hostVars,
                 historyVars>>

\* bufio.ErrTooLong: the scanner gives up and leaves the rest of its pipe unread.
ScanTooLong(s) ==
  /\ LongLines /\ host = "up" /\ scanner[s] = "reading" /\ buf[s] = <<>>
  /\ readEnd = "open" /\ Writers
  /\ scanner' = [scanner EXCEPT ![s] = "ended"]
  /\ UNCHANGED <<pipe, buf, readEnd, pc, stopVars, execVars, procVars, viewVars, hostVars,
                 historyVars>>

Scan(s) == ScanFill(s) \/ ScanLine(s) \/ ScanEnd(s)

-----------------------------------------------------------------------------
(* The process group and the host *)

\* The runner prints its two lines in this order, each to either stream.
ProcPrint(s) ==
  /\ leader = "running" \/ child = "running"
  /\ readEnd = "open" /\ said # "job"
  /\ said' = IF said = "nothing" THEN "listening" ELSE "job"
  /\ pipe' = [pipe EXCEPT ![s] = Append(@, said')]
  /\ UNCHANGED <<buf, readEnd, scanner, leader, child, inJob, pc, stopVars, execVars, viewVars,
                 hostVars, historyVars>>

ProcFork ==
  /\ ChildMayRun /\ leader = "running" /\ child = "none"
  /\ child' = "running"
  /\ inJob' = IF "leader" \in inJob THEN inJob \union {"child"} ELSE inJob
  /\ UNCHANGED <<leader, said, pc, stopVars, execVars, scanVars, viewVars, hostVars,
                 historyVars>>

LeaderExit ==
  /\ leader = "running"
  /\ leader' = "zombie"
  /\ UNCHANGED <<child, inJob, said, pc, stopVars, execVars, scanVars, viewVars, hostVars,
                 historyVars>>

ChildExit ==
  /\ child = "running"
  /\ child' = "dead"
  /\ UNCHANGED <<leader, inJob, said, pc, stopVars, execVars, scanVars, viewVars, hostVars,
                 historyVars>>

\* A termination signal, after which Service.loop closes done as well.
Cancel ==
  /\ ~ctxDone
  /\ ctxDone' = TRUE
  /\ UNCHANGED <<sdone, platform, host, pc, stopVars, execVars, procVars, scanVars, viewVars,
                 historyVars>>

ServiceStop ==
  /\ ctxDone /\ ~sdone
  /\ sdone' = TRUE
  /\ UNCHANGED <<ctxDone, platform, host, pc, stopVars, execVars, procVars, scanVars,
                 viewVars, historyVars>>

\* runService on nix and Execute on Windows: <-Done(), Wait() for the keeper,
\* return.  The goroutines that Wait() does not count end with the process.
HostExit ==
  /\ host = "up" /\ sdone /\ pc["keeper"] = "exited"
  /\ host' = "exited"
  /\ UNCHANGED <<ctxDone, sdone, platform, pc, stopVars, execVars, procVars, scanVars,
                 viewVars, historyVars>>

\* runService on Windows outside the service manager does not wait; the system
\* closes the job of the process that ends.
HostLeaves ==
  /\ host = "up" /\ sdone /\ platform = "windows"
  /\ host' = "exited"
  /\ IF jobHandle = "open" THEN CloseJob /\ missed' = Starting
                           ELSE UNCHANGED <<jobHandle, procVars, missed>>
  /\ UNCHANGED <<ctxDone, sdone, platform, pc, stopVars, published, exited, scanVars,
                 viewVars, stray>>

Next ==
  \/ KeeperStart \/ KeeperWatch \/ KeeperLinger \/ LoopWatch
  \/ \E t \in Threads : Stop(t)
  \/ Exec
  \/ \E s \in Streams : Scan(s) \/ ScanTooLong(s) \/ ProcPrint(s)
  \/ ProcFork \/ LeaderExit \/ ChildExit
  \/ Cancel \/ ServiceStop \/ HostExit \/ HostLeaves

Spec == Init /\ [][Next]_vars

\* Every goroutine runs, timers fire and the service closes done after a signal.
\* The processes owe nothing.
Fairness ==
  /\ WF_vars(KeeperStart \/ KeeperWatch \/ KeeperLinger) /\ WF_vars(LoopWatch)
  /\ \A t \in Threads : WF_vars(Stop(t))
  /\ WF_vars(Exec)
  /\ \A s \in Streams : WF_vars(Scan(s))
  /\ WF_vars(ServiceStop) /\ WF_vars(HostExit)

FairSpec == Spec /\ Fairness

-----------------------------------------------------------------------------
(* Properties *)

\* The callbacks of one run, in the order GARM relies on: nothing after
\* "offline", and "finished" exactly for a reported job (runner.go:175-197).
R == INSTANCE RunSession WITH
       stage <- IF pc["exec"] = "exited" THEN "over"
                ELSE IF pc["exec"] = "finish" THEN "offline" ELSE "running",
       up <- alive, job <- jobStarted, finished <- jobFinished
ImplementsRunSession == R!Spec

\* What a scanner has read of the runner's output reaches the service before it is
\* told that the runner is offline, although cmd.Wait closes the pipes under the
\* scanners (runner.go:179-185).
LinesBeforeOffline ==
  pc["exec"] \in {"finish", "exited"} => \A s \in Streams : buf[s] = <<>>

\* When the agent has exited, a runner that was started when Stop() looked is dead
\* and, on Windows, so is every child in its job: keepRunnerAlive waits at r.mux for
\* a cleanup that another thread began, and the end of the process closes the job.
TornDown ==
  host = "exited" /\ ~missed =>
    leader # "running" /\ ("child" \in inJob => child # "running")

\* While nobody has asked the agent to stop, no signal goes to a process ID that is
\* free, whichever of the three threads calls Stop(), and however the run ends: the
\* other two call it only after executeCommand's own clean-up has begun, which looks
\* after wait() has returned (exec_nix.go:77-85, runner.go:145-166).
StrayOnlyInShutdown == stray => Quitting

\* Why they hold, as an inductive invariant.  One cleanup is under way exactly
\* while r.mux is held, it signals a process it can see, and once it is over the
\* leader is dead and is not started again, or its start is still to fail.
StopInv ==
  /\ mux = "free" <=> cleanup = "none"
  /\ \A t \in Threads : pc[t] = "cleanup" <=> mux = t
  /\ mux # "free" => ~running
  /\ cleanup \in {"term", "grace", "kill"} => platform = "nix" /\ published /\ ~missed
  /\ cleanup \in {"term", "grace", "kill"} => mux # "exec"
  /\ pc["keeper"] = "start" => pc["exec"] = "off" /\ pc["loop"] = "off"
  /\ pc["keeper"] = "start" => leader = "none" /\ mux = "free"
  /\ pc["keeper"] \in {"linger", "exited"} => ~running /\ mux = "free"
  /\ pc["keeper"] # "start" /\ ~running /\ mux = "free" =>
       missed \/ (~Starting /\ leader # "running")
  /\ host = "exited" => missed \/ (~Starting /\ leader # "running")

\* Who begins a clean-up before the agent is asked to stop: executeCommand alone.
QuitInv ==
  /\ running <=> ~rdone
  /\ pc["keeper"] = "stop" \/ pc["loop"] = "stop" => Quitting \/ ~running
  /\ mux \in {"keeper", "loop"} => Quitting
  /\ stray => Quitting

\* Who is in the job: the leader from its assignment on, and nobody who lives once
\* the job is closed.
JobInv ==
  /\ platform = "nix" => inJob = {} /\ jobHandle = "none"
  /\ "child" \in inJob => "leader" \in inJob /\ child # "none"
  /\ "leader" \in inJob => ~Starting /\ leader # "none" /\ jobHandle # "none"
  /\ platform = "windows" /\ pc["exec"] = "wait" => "leader" \in inJob
  /\ platform = "windows" /\ pc["exec"] # "off" => jobHandle # "none"
  /\ "leader" \in inJob /\ jobHandle = "closed" => leader # "running"
  /\ "child" \in inJob /\ jobHandle = "closed" => child # "running"
  /\ platform = "windows" /\ pc["keeper"] # "start" /\ ~running /\ mux = "free"
       => jobHandle = "closed"
  /\ jobHandle = "closed" => missed \/ (~Starting /\ leader # "running")
  /\ platform = "windows" /\ host = "exited" => jobHandle # "open"

ExecInv ==
  /\ published => pc["exec"] \notin {"off", "spawn", "forked"}
  /\ published => leader # "none"
  /\ leader # "none" => published \/ pc["exec"] = "forked"
  /\ pc["exec"] = "spawn" => leader = "none"
  /\ pc["exec"] = "forked" => leader # "none"
  /\ pc["exec"] = "assign" => platform = "windows"
  /\ pc["exec"] \in {"assign", "wait", "reaped"} => published
  /\ pc["exec"] = "reaped" => leader = "reaped"
  /\ exited => leader = "reaped"
  /\ leader = "reaped" => exited \/ pc["exec"] = "reaped"
  /\ platform = "nix" /\ published => exited \/ pc["exec"] \in {"wait", "reaped"}
  /\ leader = "running" /\ published => pc["exec"] \in {"assign", "wait"}
  /\ pc["exec"] \in {"finish", "exited"} => \A s \in Streams : scanner[s] = "ended"
  /\ pc["exec"] \in {"off", "spawn"} => \A s \in Streams : scanner[s] = "off"
  /\ \A s \in Streams : scanner[s] # "reading" => buf[s] = <<>>
  /\ pc["exec"] \in {"drain", "finish", "exited"} => ~running
  /\ pc["exec"] = "exited" => jobFinished = jobStarted
  /\ pc["exec"] # "exited" => ~jobFinished
  /\ pc["exec"] = "finish" => ~alive

RunnerCmdInv == RunnerCmdTypeOK /\ StopInv /\ QuitInv /\ JobInv /\ ExecInv

\* The daemon exits within the time limits of Stop(), whatever the runner does.
ShutdownBounded == ctxDone ~> host = "exited"

\* A run whose leader has exited is reported and over, even if a child keeps
\* the pipes open, unless the agent exits first.  (A leader that Windows could not
\* put in the job is killed without cmd.Wait, and its child may hold up the report.)
RunCompletes ==
  leader = "zombie" /\ pc["exec"] = "wait" ~> pc["exec"] = "exited" \/ host = "exited"

\* What comments say that the code does not do, each checked by its own run.

\* "if the process wrote "Listening for Jobs" just before exiting [...] the idle
\* signal reaches GARM before offline" (runner.go:180-183); so would the job.
OutputDrained == pc["exec"] = "exited" /\ said = "job" => jobStarted

\* "the runner's process group is torn down before we exit; otherwise the runner
\* is orphaned on shutdown" (daemon_nix.go:20-21).
NoOrphan == platform = "nix" /\ host = "exited" => leader # "running"

\* "cleanup terminates all processes in the process group" (exec_nix.go:65).
GroupTornDown ==
  platform = "nix" /\ host = "exited" /\ ~missed => child # "running"
=============================================================================
