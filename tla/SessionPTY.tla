------------------------------ MODULE SessionPTY ------------------------------
(***************************************************************************)
(* The PTY of one shell session, on Linux (service/pty_linux.go) and on    *)
(* Windows (service/pty_windows.go): how the shell is started, and how     *)
(* Close(), which session.Stop() calls once, ends it and the read that the *)
(* session's output goroutine is blocked in.  On Linux a goroutine of      *)
(* Close() reaps the shell; on Windows a monitor waits for its exit and    *)
(* calls Close() as well.                                                  *)
(***************************************************************************)
EXTENDS Naturals

Threads == {"starter", "session", "helper"}  \* helper: the waiter or the monitor

VARIABLES
  platform,  \* "linux" or "windows"
  pc,        \* NewSessionPTY(), the session's Close(), and the helper
  reading,   \* the output goroutine is in Read(), which has not failed yet
  shell,     \* the process: a zombie until somebody waits for it
  file,      \* the PTY, which ends reads and writes when it is closed
  job,       \* the job object: "none", "open" or "closed"
  jobCloses, \* how often its handle was closed
  assigned,  \* the shell is in the job, and so are the children it starts
  child,     \* a process that the shell started and that has the terminal open
  once,      \* sessionPTY.once: "free", "held" or "over"
  stray      \* a signal was sent to a process ID that is free

vars == <<platform, pc, reading, shell, file, job, jobCloses, assigned, child, once, stray>>
jobVars == <<job, jobCloses, assigned, child, once>>

PtyTypeOK ==
  /\ platform \in {"linux", "windows"}
  /\ pc \in [Threads -> {"off", "start", "spawned", "ready", "failed", "idle", "close",
                         "term", "grace", "kill", "drain", "wait", "reaped", "conpty",
                         "sent", "returned"}]
  /\ reading \in BOOLEAN
  /\ shell \in {"none", "running", "zombie", "reaped"}
  /\ file \in {"none", "open", "closed"}
  /\ job \in {"none", "open", "closed"} /\ jobCloses \in Nat
  /\ assigned \in BOOLEAN
  /\ child \in {"none", "member", "outside", "dead"}
  /\ once \in {"free", "held", "over"}
  /\ stray \in BOOLEAN

Init ==
  /\ platform \in {"linux", "windows"}
  /\ pc = [starter |-> "start", session |-> "idle", helper |-> "off"]
  /\ reading = FALSE /\ shell = "none" /\ file = "none"
  /\ job = "none" /\ jobCloses = 0 /\ assigned = FALSE /\ child = "none"
  /\ once = "free" /\ stray = FALSE

Goto(t, from, to) == pc[t] = from /\ pc' = [pc EXCEPT ![t] = to]

Killed(process) == IF process = "running" THEN "zombie" ELSE process

-----------------------------------------------------------------------------
(* NewSessionPTY *)

\* pty.Start, or the job object and ConPty.Spawn.
Spawn ==
  /\ Goto("starter", "start", "spawned")
  /\ shell' = "running" /\ file' = "open"
  /\ job' = IF platform = "windows" THEN "open" ELSE "none"
  /\ UNCHANGED <<platform, reading, jobCloses, assigned, child, once, stray>>

\* The deferred function closes the job if there is one, the caller the PTY.
SpawnFails ==
  /\ Goto("starter", "start", "failed")
  /\ file' = "closed"
  /\ \/ UNCHANGED <<job, jobCloses>>
     \/ platform = "windows" /\ job' = "closed" /\ jobCloses' = 1
  /\ UNCHANGED <<platform, reading, shell, assigned, child, once, stray>>

\* On Windows the shell is put into the job, and the monitor is started.
StartReady ==
  /\ pc["starter"] = "spawned"
  /\ assigned' = (platform = "windows")
  /\ reading' = TRUE
  /\ pc' = [pc EXCEPT !["starter"] = "ready",
                      !["helper"] = IF platform = "windows" THEN "wait" ELSE "off"]
  /\ UNCHANGED <<platform, shell, file, job, jobCloses, child, once, stray>>

\* The process cannot be found or assigned: it is killed.  The mutant leaves that
\* to the job, in which it is not.
AssignFailsKillNot ==
  /\ platform = "windows"
  /\ Goto("starter", "spawned", "failed")
  /\ file' = "closed" /\ job' = "closed" /\ jobCloses' = jobCloses + 1
  /\ UNCHANGED <<platform, reading, shell, assigned, child, once, stray>>

AssignFails ==
  /\ platform = "windows"
  /\ Goto("starter", "spawned", "failed")
  /\ shell' = Killed(shell)
  /\ file' = "closed" /\ job' = "closed" /\ jobCloses' = jobCloses + 1
  /\ UNCHANGED <<platform, reading, assigned, child, once, stray>>

-----------------------------------------------------------------------------
(* Read(), by the session's output goroutine *)

\* On Linux the master's read fails when no process has the terminal open any more;
\* a pseudo-console stays until it is closed.
HungUp == platform = "linux" /\ shell # "running" /\ child # "outside"

ReadFails ==
  /\ reading
  /\ file = "closed" \/ HungUp
  /\ reading' = FALSE
  /\ UNCHANGED <<platform, pc, shell, file, jobVars, stray>>

-----------------------------------------------------------------------------
(* Close() on Linux *)

\* A signal to a process ID that was reaped.
Signal == stray' = (stray \/ shell = "reaped")

\* The PTY first, then the shell; the mutant starts the waiting goroutine already.
LinuxCloseWaiting ==
  /\ platform = "linux" /\ pc["starter"] = "ready" /\ pc["session"] = "idle"
  /\ pc' = [pc EXCEPT !["session"] = "term", !["helper"] = "wait"]
  /\ file' = "closed"
  /\ UNCHANGED <<platform, reading, shell, jobVars, stray>>

LinuxClose ==
  /\ platform = "linux" /\ pc["starter"] = "ready"
  /\ Goto("session", "idle", "term")
  /\ file' = "closed"
  /\ UNCHANGED <<platform, reading, shell, jobVars, stray>>

\* SIGTERM, which the shell may ignore, and then the goroutine that waits for it.
Terminate ==
  /\ pc["session"] = "term"
  /\ Signal
  /\ pc' = [pc EXCEPT !["session"] = "grace", !["helper"] = "wait"]
  /\ UNCHANGED <<platform, reading, shell, file, jobVars>>

\* cmd.Wait reaps the shell, and then its result is put into the channel.
WaiterReaps ==
  /\ platform = "linux" /\ shell = "zombie"
  /\ Goto("helper", "wait", "reaped")
  /\ shell' = "reaped"
  /\ UNCHANGED <<platform, reading, file, jobVars, stray>>

WaiterSends ==
  /\ platform = "linux"
  /\ Goto("helper", "reaped", "sent")
  /\ UNCHANGED <<platform, reading, shell, file, jobVars, stray>>

GraceOver ==
  /\ pc["helper"] = "sent"
  /\ Goto("session", "grace", "returned")
  /\ UNCHANGED <<platform, reading, shell, file, jobVars, stray>>

\* 100 ms, which the select may prefer even if the result is there; the mutant's
\* timer does not fire.
GraceTimeoutNever ==
  /\ pc["helper"] = "sent"
  /\ Goto("session", "grace", "kill")
  /\ UNCHANGED <<platform, reading, shell, file, jobVars, stray>>

GraceTimeout ==
  /\ Goto("session", "grace", "kill")
  /\ UNCHANGED <<platform, reading, shell, file, jobVars, stray>>

ForceKill ==
  /\ Goto("session", "kill", "drain")
  /\ Signal
  /\ shell' = Killed(shell)
  /\ UNCHANGED <<platform, reading, file, jobVars>>

Drained ==
  /\ pc["helper"] = "sent"
  /\ Goto("session", "drain", "returned")
  /\ UNCHANGED <<platform, reading, shell, file, jobVars, stray>>

-----------------------------------------------------------------------------
(* Close() on Windows *)

WinClose ==
  /\ platform = "windows" /\ pc["starter"] = "ready"
  /\ Goto("session", "idle", "close")
  /\ UNCHANGED <<platform, reading, shell, file, jobVars, stray>>

\* monitorProcess: cmd.Wait, then Close(), which the mutant leaves to the session.
MonitorReapsOnly ==
  /\ platform = "windows" /\ shell = "zombie"
  /\ Goto("helper", "wait", "returned")
  /\ shell' = "reaped"
  /\ UNCHANGED <<platform, reading, file, jobVars, stray>>

MonitorCloses ==
  /\ platform = "windows" /\ shell = "zombie"
  /\ Goto("helper", "wait", "close")
  /\ shell' = "reaped"
  /\ UNCHANGED <<platform, reading, file, jobVars, stray>>

\* The job's handle is closed inside once, which the mutant lacks, and that kills
\* everything in the job.
CloseJobAgain(t) ==
  /\ Goto(t, "close", "conpty")
  /\ once' = "held" /\ job' = "closed" /\ jobCloses' = jobCloses + 1
  /\ shell' = Killed(shell)
  /\ child' = IF child = "member" THEN "dead" ELSE child
  /\ UNCHANGED <<platform, reading, file, assigned, stray>>

CloseJob(t) ==
  /\ once = "free"
  /\ Goto(t, "close", "conpty")
  /\ once' = "held" /\ job' = "closed" /\ jobCloses' = jobCloses + 1
  /\ shell' = Killed(shell)
  /\ child' = IF child = "member" THEN "dead" ELSE child
  /\ UNCHANGED <<platform, reading, file, assigned, stray>>

CloseConPty(t) ==
  /\ Goto(t, "conpty", "returned")
  /\ file' = "closed" /\ once' = "over"
  /\ UNCHANGED <<platform, reading, shell, job, jobCloses, assigned, child, stray>>

\* The second caller waits for the first.
CloseAgain(t) ==
  /\ once = "over"
  /\ Goto(t, "close", "returned")
  /\ UNCHANGED <<platform, reading, shell, file, jobVars, stray>>

-----------------------------------------------------------------------------
(* The processes *)

ShellExit ==
  /\ shell = "running"
  /\ shell' = "zombie"
  /\ UNCHANGED <<platform, reading, pc, file, jobVars, stray>>

\* A child of a process in the job is in the job.  On Linux there is none, and a
\* job in the background outlives its shell.
ShellForks ==
  /\ shell = "running" /\ child = "none"
  /\ child' = IF assigned THEN "member" ELSE "outside"
  /\ UNCHANGED <<platform, reading, pc, shell, file, job, jobCloses, assigned, once, stray>>

ChildExit ==
  /\ child \in {"member", "outside"}
  /\ child' = "dead"
  /\ UNCHANGED <<platform, reading, pc, shell, file, job, jobCloses, assigned, once, stray>>

Closing == \/ LinuxClose \/ WinClose
Helping == \/ WaiterReaps \/ WaiterSends \/ MonitorCloses
           \/ CloseJob("helper") \/ CloseConPty("helper") \/ CloseAgain("helper")
Closer  == \/ Terminate \/ GraceOver \/ GraceTimeout \/ ForceKill \/ Drained
           \/ CloseJob("session") \/ CloseConPty("session") \/ CloseAgain("session")

Next == \/ Spawn \/ SpawnFails \/ StartReady \/ AssignFails
        \/ ReadFails \/ Closing \/ Closer \/ Helping
        \/ ShellExit \/ ShellForks \/ ChildExit

Spec == Init /\ [][Next]_vars

\* The goroutines run, the timer fires and SIGKILL kills.  The shell and its child owe
\* nothing, and the session need not call Close().
FairSpec == Spec /\ WF_vars(ReadFails) /\ WF_vars(Closer) /\ WF_vars(Helping)

-----------------------------------------------------------------------------
(* Properties *)

\* What session.Stop() and NewShellSession() rely on (shell.go:24-38, 84-88): a PTY
\* that could not be made leaves no shell, and Close() returns when it is dead.
P == INSTANCE Pty WITH
       master <- IF pc["starter"] = "failed" THEN "failed"
                 ELSE IF pc["starter"] # "ready" THEN "none"
                 ELSE IF pc["session"] = "idle" THEN "open"
                 ELSE IF pc["session"] = "returned" THEN "closed" ELSE "closing",
       shell <- IF shell = "none" THEN "none"
                ELSE IF shell = "running" THEN "alive" ELSE "dead"
ImplementsPty == P!Spec

\* Why: who may reap the shell, and what is closed when.
PtyInv ==
  /\ PtyTypeOK
  /\ pc["starter"] \in {"start", "spawned", "ready", "failed"}
  /\ pc["session"] \in {"idle", "term", "grace", "kill", "drain", "close", "conpty",
                        "returned"}
  /\ pc["helper"] \in {"off", "wait", "reaped", "sent", "close", "conpty", "returned"}
  /\ pc["starter"] # "ready" => pc["session"] = "idle" /\ pc["helper"] = "off" /\ ~reading
  /\ pc["starter"] = "start" <=> file = "none"
  /\ pc["starter"] = "start" => shell = "none" /\ job = "none"
  /\ pc["starter"] \in {"spawned", "ready"} => shell # "none"
  /\ pc["starter"] = "failed" => shell # "running"
  /\ pc["starter"] # "ready" => once = "free"
  /\ pc["starter"] = "spawned" => jobCloses = 0
  /\ jobCloses = IF job = "closed" THEN 1 ELSE 0
  /\ platform = "linux" =>
       /\ pc["session"] \notin {"close", "conpty"}
       /\ pc["helper"] \notin {"close", "conpty", "returned"}
       /\ pc["session"] \in {"idle", "term"} <=> pc["helper"] = "off"
       /\ pc["helper"] \in {"off", "wait"} <=> shell # "reaped"
       /\ pc["session"] = "drain" => shell # "running"
       /\ pc["session"] = "returned" => pc["helper"] = "sent"
       /\ job = "none" /\ once = "free"
  /\ platform = "windows" =>
       /\ pc["session"] \notin {"term", "grace", "kill", "drain"}
       /\ pc["helper"] \notin {"reaped", "sent"}
       /\ pc["starter"] = "ready" => pc["helper"] # "off"
       /\ once = "held" <=> (pc["session"] = "conpty" \/ pc["helper"] = "conpty")
       /\ pc["session"] = "conpty" => pc["helper"] # "conpty"
       /\ pc["session"] = "returned" \/ pc["helper"] = "returned" => once = "over"
       /\ once # "free" => job = "closed" /\ shell # "running"
       /\ pc["starter"] = "ready" /\ once = "free" => job = "open"
       /\ pc["starter"] = "spawned" => job = "open"
       /\ pc["helper"] \in {"close", "conpty", "returned"} => shell = "reaped"

\* A handle that is closed twice may be somebody else's (pty_windows.go:135-163).
JobClosedOnce == jobCloses <= 1

\* SIGTERM finds the shell, dead or alive: nobody reaps it before Close() does.  Only
\* the SIGKILL after 100 ms can meet a process ID that was just given free.
TermOnTarget == [][stray' # stray => pc["session"] = "kill"]_vars

\* Close() returns, whatever the shell does with SIGTERM.
CloseReturns == pc["session"] \notin {"idle", "returned"} ~> pc["session"] = "returned"

\* When the shell exits the session hears of it, as its read fails: on Windows because
\* the monitor closes the pseudo-console (pty_windows.go:110-118), whatever the shell
\* leaves behind.  On Linux, where nobody waits for the shell before Close(), only if
\* it leaves no process behind that has the terminal open (pty_linux.go:46-51).
ExitNoticed ==
  reading /\ shell # "running" /\ (platform = "linux" => child # "outside") ~> ~reading
=============================================================================
