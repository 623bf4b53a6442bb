# A verification project for garm-agent

garm-agent runs beside a CI runner (GitHub or Gitea).  It keeps a websocket to
GARM, starts the runner, watches its output, records in a database that a job
ran, reports the runner's status, and serves remote shell sessions.  This
directory holds TLA+ models of it, TLC configurations that check them on small
instances, and TLAPS proofs of what matters most.  Line numbers are those of
the files under `src/`.

## The system

| part | state | operations | talks to |
|---|---|---|---|
| connection management (`service/service.go`) | `connecting`, `connected`, `cli`, `running`, `done` | `keepAliveLoop`, `loop`, `connectionUp/Down`, `Stop`, `Wait` | the websocket library; the host (`runService`, `Execute`) |
| runner lifecycle and reports (`service/service.go`) | `runnerAlive`, `runnerCmd`, `retryCount` | `keepRunnerAlive`, `SetRunnerStarted`, `SetJobStarted`, `SetJobFinished`, `determineRunnerState` | runner command (calls and callbacks), state database, connection |
| runner command (`service/runner`) | `running`, `done`, `executor.exited`, the process group or job object, two pipes | `Start`, `Stop`, `loop`, `executeCommand`, `cleanup` | calls back the service; signals the process group or closes the job |
| state database (`state/state.go`) | job started / finished, time stamps | `SetJobStarted`, `SetJobFinished`, `GetState` | disk |
| shell sessions (`service/shell.go`, `service/service.go`) | `sessions`, PTYs | create, data, resize, close | the websocket's reader goroutine, `s.mux` |
| PTYs (`service/pty_*.go`) | master, child process | read, write, resize, close | the operating system |
| configuration, command line, Windows service registration | none at run time | | |

The mutexes that are held together are taken in one order: `s.mux` (runner,
running, sessions), then a session's own mutex, then `cliMux` (the client
pointer).  `connMux` guards the two handshake channels and is held alone.  A `Set...` callback holds `s.mux` while it writes the
database and sends; `loop` sends without it.

What makes the code hard: three long-lived goroutines that hand a client to each
other through re-armed channels; a status that is read under one lock and sent
without it; a process that is spawned, reaped, signalled and read by four
goroutines; a record that decides after a crash whether a runner may be started;
and a shutdown that must get through all of it.  The correctness of each part:

| part | what must hold |
|---|---|
| connection | no channel is closed twice; one websocket, the one in `s.cli` and the one `loop` watches; a lost connection is re-established; a signal ends the daemon |
| lifecycle | a runner with a job on record is never started again; an idle runner that stopped is; GARM is told of the end, and of no end that did not happen |
| runner command | one clean-up at a time; the process is dead when the daemon exits; callbacks come in order and the run completes |
| state database | the record survives crashes and is never taken back |
| shell sessions | at most `MaxShellSessions`; ready, data, exit in order; a session that ends is forgotten; no session blocks the stop of the service |
| PTYs | no shell without a session; `Close()` returns with the shell dead; a terminal that nobody has open any more is noticed; no handle is closed twice |

## Modules

| module | what it is |
|---|---|
| `Uplink` | abstract: one websocket owned in turn by a dialer and a watcher |
| `Connection` | `keepAliveLoop`, `loop`, the two channels, `s.cli`, `Stop`, the main goroutine |
| `ConnectionProofs` | its invariants and `Connection` implements `Uplink` |
| `OneJob` | abstract: the record of the job decides every launch |
| `Lifecycle` | `keepRunnerAlive`, the runs, the callbacks, the database, `loop`'s reports, crashes |
| `LifecycleProofs` | its invariants and `Lifecycle` implements `OneJob` |
| `RunSession` | abstract: what one run of the runner tells the service |
| `RunnerCmd` | one run, on nix or on Windows: `Start`, `Stop`, `loop`, `executeCommand`, scanners, `cleanup`, the processes |
| `RunnerCmdProofs` | its invariant, the tear-down, and `RunnerCmd` implements `RunSession` |
| `ShellStream` | abstract: what GARM is sent about each request for a shell |
| `ShellService` | the session table, the message handlers, the goroutines and `Stop()` of a session |
| `ShellServiceProofs` | its invariant, the limit, and `ShellService` implements `ShellStream` and, for every session, `Pty` |
| `Pty` | abstract: a PTY comes with a shell or not at all, and is closed with the shell dead |
| `SessionPTY` | `NewSessionPTY`, `Read` and `Close` on Linux and on Windows |
| `SessionPTYProofs` | its invariant, and `SessionPTY` implements `Pty` |
| `MC...` | instances for TLC |

The detailed modules meet at narrow interfaces.  `Lifecycle` sees of a
connection only `link` (down, up, broken but not noticed yet) and of a run the
callbacks that `RunSession` allows; `RunnerCmd` sees of the service the three
callbacks and the shutdown; the shutdown branches of `keepRunnerAlive` are in
`RunnerCmd`, its restarts in `Lifecycle`.  `ShellService` and `SessionPTY` meet
at `Pty`, which both implement: a closed PTY ends reads and writes, and
`Close()` returns with the shell dead.  `SessionPTY` shows how a PTY keeps that,
`ShellService` that every session uses its PTY in this way and no other.  It sees a connection that takes a message
or loses it, and `Service.Stop()` as one step that needs `s.mux`.

Definitions whose name extends that of another (`LoopDownNoWake`, `StopBeginUnlocked`)
are faulty variants of it: each property is checked to fail on one of them.

### Connection

A channel is a number and is closed when it is in `closedCh`; `make(chan)` takes
the next number.  A captured channel (`connectedCh`, `connectingCh` in the code,
`kConnected`, `lConnecting` here) can therefore differ from the field, which is
the hazard of the hand-shake.  A client is a number, 0 is nil, and `live` and
`ended` are those with an open websocket and with a closed `Done()`.  The actions
`Keeper...` follow `keepAliveLoop` select by select, those named `Loop...` follow
`loop`, and `Stop()` has two steps, because it takes `cliMux` after it closed
`done`.  The host is `runService` or `Execute`, chosen in `Init`.  `NewReader`,
`Start` and `Stop` of the client belong to a library and are modelled from how
the service uses them: the first two may fail, a
client ends when the server, the network or the cancelled context ends it, and
stopping a client that was not started does nothing.

Sending reports is left out: a write to the websocket changes no state of this
module.  The early return on an unparsable URL (service.go:672-674) cannot be
reached, because `config.Validate` and `NewService` have parsed it.

### Lifecycle

A `Set...` callback holds `s.mux` from its assignment to its message, and every
reader of `s.runnerAlive` takes the lock, so a callback is one step.  The others
are not atomic and are split: `kSeen` and `lAlive` are the values of
`s.runnerAlive` that `keepRunnerAlive` and `loop` read before they read the
database; `loop` sends in a third step.  `RunSpawn` stands for the goroutine that
`Start()` leaves behind, so that `Start()` succeeds before the process exists.
`pipe` holds output not scanned yet; `RunReaped` may drop any suffix of it, which is what
`cmd.Wait` does (see `RunnerCmd`).  A write of the database may fail, is logged
and forgotten.

Assumptions.  A crash of the agent takes the runner with it (systemd kills the
control group of the unit).  Reads of the database succeed.  The 5 s that
`keepRunnerAlive` sleeps before it starts the next run outlast the deferred
function of the previous one (`KeeperSleep`): it only has to drain two pipes and
send two messages.  Without this the keeper could start a run while the last one
has not reported its end, which no lock prevents.

### RunnerCmd

One thread each for `keepRunnerAlive` (`keeper`), `runnerCmd.loop` (`loop`) and
`executeCommand` (`exec`), and two scanners.  `Stop()` holds `r.mux` through the
whole of `cleanup()`, whose steps are separate.  `startCommand` is split between the
fork and the assignment to `cmd.Process`, and `wait()` between the reaping and
the closing of the pipes and of `exited`.  A timer may fire at any time, and a
`select` whose timer has fired may take that branch although `exited` is closed too.  The processes are a
leader and at most one child, which may ignore SIGTERM, exit at any time, and
print "listening" then "job" to either stream.  A line that is too long
(`ScanTooLong`) ends its scanner, and the rest of that stream is not read.

The platform is chosen in `Init`.  On nix `cleanup()` looks at `cmd.Process` and
`exited`, sends SIGTERM, waits 2 s and sends SIGKILL.  On Windows it closes the
job object, which kills `inJob`.  `startCommand` assigns the leader to the job
after it has started it: a child that it forks before that is outside, and a
failed assignment (always, if `Stop()` has closed the job meanwhile) kills the
leader without waiting for it.  `HostExit` is the exit after `Wait()`,
`HostLeaves` that of the interactive Windows agent, which does not wait; with the
agent goes its handle of the job.

The history variables: `missed` says that a clean-up looked before `startCommand`
had got far enough for it (no `cmd.Process` on nix, no return on Windows), `stray` that
a signal was sent to a process ID that was free.

### ShellService

A session is the number of the request that created it.  A handler of
`service.go` holds `s.mux` from its look-up to its return, which for input is a write that the shell
may never take and for a close all of `session.Stop()`: `s.mux` is held exactly
while `pc["reader"]` is not "off" for some session (`MuxFree`).  The websocket's reader calls the handlers one at
a time.  `session.Stop()` has three callers (a handler, the output goroutine,
the session's loop) and four steps, because it closes the PTY, waits for the
process, closes `done` and sends "exit" under the session's mutex.  The goroutine that
deletes the entry (`Reap`) waits for the session's `done`, the context or
`s.done`.  A termination signal cancels the context on nix; the service manager
of Windows calls `Stop()` only (`host`).

The PTY is "hungup" from the moment nobody is at its other end, when reads and
writes fail: on Linux no process has the terminal open any more, on Windows the
monitor has closed the pseudo-console.  A dead shell alone is not enough, because on
Linux a process that it left in the background keeps the terminal open.

`said` folds what was sent about a request into the state that `ShellStream`
talks about.  `handlePTYOutput` sends without a lock, hence `late`: one message
may follow the exit.  It is output, or the ready message itself if the session was
stopped before it was announced ("unopened").  A refused request is answered by two ready messages
with an error, counted as one refusal; that such an answer bears the ID of the
session that is in use is not told apart here, nor is the order between the messages of two sessions that
share an ID one after the other.

`hasShell` is not a variable: a service without it sends an error from every handler but
`handleCreateShell`, so its behaviours are those in which the others are not called.  `handleShellResize` changes
nothing that is modelled.

### SessionPTY

Threads are `NewSessionPTY` (`starter`), the session's one call of `Close()` and
a helper: on Linux the goroutine in `Close()` that waits for the shell, on Windows
`monitorProcess`, which waits for it from the start and calls `Close()` too, so that `once`
matters.  `Read` returns an error when the PTY is closed and on Linux when no
process has the terminal open any more (`HungUp`); a pseudo-console stays open until
somebody closes it.  The shell may leave one process behind (`ShellForks`), which
exits when it likes (`ChildExit`) or never.  On Linux nobody waits for the
shell before `Close()`, so that such a process keeps the session and its slot although
the shell has exited.  The
grace of 100 ms may end although the shell is reaped.  On Windows a start that fails
closes the job in a deferred function.

## Runs

| run | shows | bounds |
|---|---|---|
| `connection` | all properties of `Connection`, for the host that only waits (`runService`) and for the one that calls `Stop()` at any time (`Execute`) | 3 lost connections, 2 failed attempts: four hand-overs, each channel field re-armed repeatedly, failed attempts before, between and after them |
| `lifecycle` | types, the inductive invariant, the safety properties, and the keeper's and the reports' liveness | 1 crash, 2 lost connections, 3 failures, 1 failed write, one retry allowed: exhausted retries, a crash at every point, a failed write of either flag, a report at every point of a run |
| `runnercmd` | everything on one run with a child process and long lines, on nix and on Windows | no bound but two lines of output, one for each callback |
| `shell` | the invariant of the sessions, the limit, the order of the messages, whose entry a reaper deletes, how each PTY is used | two requests with one ID or two, limits 1 and 2: a request at the limit, an ID in use, an ID used again while its first session still stops, all three callers of one `Stop()` |
| `shell_live` | sessions that are closed, cancelled or left by every process end, entries go, the service can stop | two requests with one ID, a limit of 1: the case in which the second session waits for the first one's slot |
| `pty` | everything on one PTY, on both platforms | none: the state is finite |

`MaxRetries` is 5 in the code and 1 in the runs: the counter is compared and
incremented only.  One run of the command is enough for `RunnerCmd` because `Start()`
makes a new `done` and executor, and the previous run is over (see the assumption above).
Two sessions are enough for `ShellService` because a session shares with the
others only the table and `s.mux`; what is safe for any number of them is proved.  The
liveness run keeps to one ID and one limit because two IDs make the graph that the
liveness check searches too large.

The properties that are not obvious from their comments:

- `ImplementsUplink`: the channels, locks and pointers amount to strict
  alternation.  In particular the watcher never gives back a live link and the
  dialer never replaces one.
- `Reconnects` and `ShutdownCompletes`: no wake-up is lost and nobody
  waits for ever, under `Fairness`.
- `ImplementsOneJob`: over all crashes, retries and failed writes, no process
  is launched while a job is on record.  A failed write leaves no record, and
  then it may be: `service.go:587-588` cannot hold without the disk.
- `KeeperWatchesProcess`: two runs of the runner never overlap.
- `FailedOnlyUntouched`, `NoFalseTermination`: no terminal status without ground,
  although the status is computed from reads at different times.
- `DemotedOnlyByLoop`: what GARM knows of the job (nothing, active, terminated)
  goes back only in the one window the code leaves open, a report that `loop`
  computed before and sends after a newer one, or after a failed write.  No
  callback demotes: the line "job started" is never read twice or late.
- `NoLostWakeup`: `keepAliveLoop` and `loop` are never both at a channel that only
  the other one closes.  Each reads its channel under `connMux` and waits on it after.
- `LinesBeforeOffline`: whatever a scanner has read from a pipe reaches the service
  before the deferred function of `executeCommand` says offline.  The lines that
  are lost (`runnercmd_output`) were not read.
- `TornDown`: with three goroutines that may call `Stop()` the daemon still
  exits only after the clean-up: whoever comes second waits at `r.mux`.  On
  Windows it covers the children in the job, and the agent that does not wait.
- `StrayOnlyInShutdown`: while nobody has asked the agent to stop, no clean-up
  signals a process ID that is free, whichever of the three threads calls `Stop()`: the keeper and
  `loop` call it only after `done` or in a shutdown.  In a shutdown it can happen (see below).
- `RunCompletes`: a child that holds the pipes open does not keep the agent from
  reporting the end, because `cmd.Wait` closes the read ends.  A leader that could
  not be put in its job is killed without `cmd.Wait`, and is not covered.
- `ProcessLimit`: the limit counts entries of the table, the property live shells.
  It holds because an entry goes only after its shell.  When the service stops,
  the entries go at once.
- `ImplementsShellStream`: three goroutines of a session send, two without a
  lock, and yet there is one exit and after it at most one message, which is output or,
  if the exit came first, the ready message.
- `OwnEntryOnly`: the reaper deletes by ID, after the ID may have been asked for
  again; still an entry goes only when its own session is over or the service stops.
- `ImplementsPtys`: seen from each session, its PTY behaves as `Pty` says.  Three
  goroutines may stop a session and only one closes its PTY, before `done`.
- `SessionEnds`, `StopGoesThrough`: a shell that does not read its input blocks the handler that
  writes to it and with it `s.mux`; on nix the context still ends that
  session, the write fails, and `Service.Stop()` gets its lock.  `SessionEnds` takes
  the exit of the shell for the end of its session on Windows only; on Linux it takes the last process
  that leaves the terminal.
  `SlotFreed` needs the assumption that `s.mux` is released again and again.
- `CloseReturns`, `ExitNoticed`: `Close()` returns whatever the shell does with
  SIGTERM.  A session's read ends after the shell and, on Linux, the processes it
  left behind have exited, on Windows after the shell, because the monitor closes the
  pseudo-console.
- `JobClosedOnce`: the session and the monitor may close at the same time.

### Fairness

Weak fairness of each goroutine's steps: the Go scheduler runs what can run,
timers fire, dials and writes to the websocket return (the library sets deadlines).  The host's
first step is fair only while quitting, the environment (lost connections,
crashes, signals, the runner's output and exit) is not fair at all, except that
in `Lifecycle` a dial succeeds eventually, for a server that is reachable.
`ReaderCtx`, the end of a client by the cancelled context, shares the budget of
`Drop`: after a signal, a `select` that is ready to quit may take its other ready
branch and reconnect, and weak fairness would let it do so for ever; Go chooses
at random among the ready branches, so it happens finitely often.

In `ShellService`, `Reap` and `ServiceStop` are strongly fair, because they wait
for `s.mux`, which others take and release: a Go mutex hands itself to a waiter of more than 1 ms.  A shell
does not owe the agent to read its input, except on Windows, where conhost reads it,
and a process that it leaves behind does not owe it to exit: `Hangup` is fair on Windows only, where it
is the monitor's step.
In `SessionPTY` the goroutines run, the timer fires and a process that is killed dies.

Deadlock is not checked: every module ends in states where nothing is left to do
(the daemon has exited, the runner is retired, the sessions are closed).

## Disagreements between code and comments

Each has a run with one property, which TLC finds violated.

| run | the code | what says otherwise |
|---|---|---|
| `lifecycle_restart` | after a restart with a job on record no runner command exists and nothing is ever reported | config.go:51-52 |
| `lifecycle_stale_alive` | `loop` reads `runnerAlive` before and the record after the job's start, and reports a busy runner as terminated | service.go:382-385 |
| `lifecycle_spawn` | on nix `Start()` never fails, a runner that cannot be executed is retried for ever and never reported as failed | service.go:596 |
| `runnercmd_output` | `cmd.Wait` closes the pipes under the scanners and the last lines are lost | runner.go:180-183 |
| `runnercmd_orphan` | a `Stop()` between the fork and the assignment of `cmd.Process` cleans nothing up | daemon_nix.go:20-21 |
| `runnercmd_group` | `cleanup` returns when the leader is reaped, and the rest of its group lives on | exec_nix.go:65 |

Two more have no run of their own:

- exec_nix.go:104-105 says, before the SIGKILL, "exited is not closed, so its PID
  cannot have been reused".  `cmd.Wait` reaps the leader before `wait()` closes
  `exited`, and the `select` of line 96 may take the timer's branch although `exited` is closed as well, so in a
  shutdown the ID can be free when the SIGTERM or the SIGKILL is sent.  `RunnerCmd` has these steps:
  they set `stray`, which `StrayOnlyInShutdown` confines to a shutdown.
- README.md:29 of the repository calls the remote shell opt-in and service.go:46
  logs "shell disabled", but `handleCreateShell` is the one shell handler that does not look
  at `hasShell`.  `CreateShell` has no such guard either.  This shows in a single
  call, and no order of events matters to it.

## Proofs

The theorems hold for every value of the constants: any number of lost
connections, failures, retries, crashes, failed writes, requests for shells, IDs and limits.
Each proof module shows that an invariant holds initially and is kept by each
action, and derives the rest from it.

- `ConnectionInvariant`.  The safety properties are not inductive: that
  `connecting` is closed at most once depends on what both goroutines hold.  `ChannelInv` says that
  exactly one of the two fields is closed, that a captured channel is still the
  field's, and that a goroutine is past its `select` only while the other one
  waits; `ClientInv` ties the client pointer to whose turn it is.
  `ConnectionTyped`, `NeverDoubleClose`, `OneWebsocket`, `WatchesTheCurrentClient`,
  `NeverBothAsleep` and `RefinesUplink` follow.
- `LifecycleInvariant`.  `RunInv` links the keeper, the run and the process: the keeper starts a
  run only after it has read `runnerAlive` false with no run left, so that the
  record is empty when the process is spawned.  `ReportInv` adds what GARM has been
  told and what is on its way there: active or terminated has the record or a
  failed write behind it.  `PipeInv` speaks of the output not scanned yet: the job
  line comes last, and once the job is on record there is none left to read.  `LifecycleTyped`, `KeeperAlwaysWatches`, `NeverFalselyTerminated`,
  `FailedIsUntouched`, `DemotionsAreLate` and `RunsAtMostOneRecordedJob` follow.
- `RunnerCmdInvariant`.  `StopInv` links `r.mux`, the clean-up and the threads;
  `JobInv` says who is in the job and that nobody in a closed job lives;
  `ExecInv` links the thread that spawns and reaps to the leader, to
  `cmd.Process` and to the scanners.  The three need each other: a clean-up knows
  that the leader is dead because `exited` is closed only after the reaping, or
  because a leader that was not in the job yet when it closed will be killed by the failing assignment.
  `QuitInv` says that a stray signal and a
  `Stop()` before the end of the run belong to a shutdown.
  `AlwaysTornDown`, `NoStrayInService`, `DeliversWhatWasRead` and `RefinesRunSession` follow.
- `ShellInvariant`.  `TableInv` says that an entry and its reaper come and go
  together, which is why a reaper that deletes by ID never deletes another
  session's entry.  `SessionInv` speaks of one session: that it has not been made
  (`NoSession`), where its callers of `Stop()` are (`Places`), what is closed already
  (`Closing`), and what GARM was told against where the output goroutine is
  (`Spoken`).  `ShellsLimited` follows by an injection of the live shells into the
  occupied entries, `RefinesShellStream` from `Spoken`, `EntriesAreOwn` from
  `TableInv`.  `RefinesPtys` and `EachRefinesPty` show, for all sessions at once and
  for each, that a step moves at most one PTY, and moves it as `Pty` does
  (`PtyStep`): `Closing` says that a caller of `Stop()` that is about to close the PTY is
  the one that found the session running.
- `PtyInvariant` says per platform who may reap the shell and what is closed
  when.  `JobNeverClosedTwice`, `SigtermOnTarget` and `RefinesPty` follow.

The proofs rest on the named assumptions about the constants
(`ConnectionAssumption`, `LifecycleAssumption`, `RunnerCmdAssumption`,
`ShellServiceAssumption`), which give their types, and for `ShellService` that a limit is positive, as `config.Validate` makes it.

Every invariant and every action property that a run checks has a theorem, and so has each
refinement.  What stays with TLC is liveness (`Reconnects`,
`ShutdownCompletes`, `IdleRunnerRestarted`, `RunnerRetired`, `ReconnectReports`,
`ShutdownBounded`, `RunCompletes`, `SessionEnds`, `SlotFreed`, `StopGoesThrough`,
`CloseReturns`, `ExitNoticed`): fairness and ENABLED are out of the prover's reach.

## Not modelled

- The time stamps of the database and `GetJobDuration`, which only a test calls; a
  read of the database that fails, which takes a corrupt record.
- The compositions of `RunnerCmd` with `Lifecycle` and of `Connection` with
  `ShellService`.  The modules are joined by the assumptions above instead.  One
  of them is not kept by the code in every case: a handler that is stuck in a write to a PTY
  holds `s.mux`, the `Set...` callbacks wait for it, and the 5 s
  that `Lifecycle` takes to be enough for them are not.
- Signals and terminations that themselves fail (the second `syscall.Kill` of each
  pair in exec_nix.go, `TerminateProcess` in pty_windows.go): a killed process dies.
- Two slips on Windows that no property is about: a failed start closes the
  job's handle in `startCommand` and again in `cleanup` (exec_windows.go), and the
  process handle that `Spawn` returns is never closed (pty_windows.go).
- The configuration, the command line and `validateCmdParams`: sequential
  functions without state.  Agent ID conversions, regular expressions, JSON
  fields and message encodings are data.
- Formatting and logging, the version and registration commands, ConPTY's system
  calls, and the websocket and messaging libraries, which are not in the
  repository.

Next would come a composition of several runs of `RunnerCmd` with the service's callbacks under
`s.mux`, which replaces the 5 s assumption, with `Lifecycle` as what it implements, and
the order of the mutexes as a module of its own: `s.mux`, a session's mutex,
`cliMux`, with the handlers, the callbacks and the sessions' goroutines that lock them.
