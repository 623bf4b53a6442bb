----------------------------- MODULE Connection -----------------------------
(***************************************************************************)
(* The websocket connection of the agent (service/service.go): the two     *)
(* goroutines keepAliveLoop and loop, the connecting/connected channels    *)
(* through which they hand the client to each other, the client pointer    *)
(* s.cli, Stop(), and the daemon's main goroutine that waits for them.     *)
(*                                                                         *)
(* A Go channel is a natural number; it is closed when it is a member of   *)
(* closedCh.  make(chan) takes the next number, so a goroutine that holds  *)
(* an old channel in a local variable is told apart from one that reads    *)
(* the field again.  A client (garmWs.Reader, a library type) is a number  *)
(* too: 0 is the nil pointer.                                              *)
(***************************************************************************)
EXTENDS Naturals, FiniteSets

CONSTANTS
  MaxDrops,       \* bound: how often a client ends by itself (Drop, ReaderCtx)
  MaxFails        \* bound: how often creating or starting a client fails

ASSUME ConnectionAssumption ==
  /\ MaxDrops \in Nat
  /\ MaxFails \in Nat

NoClient == 0

VARIABLES
  connecting, connected,  \* the channel fields of Service, under connMux
  closedCh, nextCh,       \* the closed channels, the next one make() returns
  panicked,               \* a closed channel was closed again
  cli, nextCli,           \* s.cli under cliMux, and the next client
  live, ended,            \* clients with an open websocket; with Done() closed
  kpc, kConnected,        \* keepAliveLoop: program counter, local `connected`
  lpc, lConnecting, lCli, \* loop: program counter, `connectingCh`, `cli`
  running, doneClosed,    \* s.running and whether s.done is closed
  muxHolder,              \* who is inside Stop() with s.mux held
  hpc,                    \* the daemon's main goroutine (or SCM handler)
  ctxDone,                \* a termination signal cancelled the context
  drops, fails            \* the environment's budgets

chanVars   == <<connecting, connected, closedCh, nextCh>>
clientVars == <<cli, nextCli, live, ended>>
keeperVars == <<kpc, kConnected>>
loopVars   == <<lpc, lConnecting, lCli>>
stopVars   == <<running, doneClosed, muxHolder>>
envVars    == <<ctxDone, drops, fails>>
vars == <<chanVars, panicked, clientVars, keeperVars, loopVars, stopVars, hpc,
          envVars>>

KeeperPCs == {"capture", "select", "create", "start", "up", "sleep", "exited"}
LoopPCs   == {"capture", "wait", "getcli", "online", "down", "stop", "stopcli",
              "exited"}
HostPCs   == {"runService", "Execute", "stop", "stopcli", "waiting", "closed"}

ConnectionTypeOK ==
  /\ connecting \in Nat /\ connected \in Nat /\ nextCh \in Nat
  /\ closedCh \subseteq Nat
  /\ panicked \in BOOLEAN
  /\ cli \in Nat /\ nextCli \in Nat \ {0}
  /\ live \subseteq Nat /\ ended \subseteq Nat
  /\ kpc \in KeeperPCs /\ kConnected \in Nat
  /\ lpc \in LoopPCs /\ lConnecting \in Nat /\ lCli \in Nat
  /\ running \in BOOLEAN /\ doneClosed \in BOOLEAN
  /\ muxHolder \in {"none", "loop", "host"}
  /\ hpc \in HostPCs
  /\ ctxDone \in BOOLEAN
  /\ drops \in 0 .. MaxDrops /\ fails \in 0 .. MaxFails

\* NewService followed by Start(): `connected` is the package's closed channel
\* (0), `connecting` is open (1), done is open and the goroutines are spawned,
\* by runService (nix) or by Execute (Windows service manager).
Init ==
  /\ connecting = 1 /\ connected = 0 /\ closedCh = {0} /\ nextCh = 2
  /\ panicked = FALSE
  /\ cli = NoClient /\ nextCli = 1 /\ live = {} /\ ended = {}
  /\ kpc = "capture" /\ kConnected = 0
  /\ lpc = "capture" /\ lConnecting = 0 /\ lCli = NoClient
  /\ running = TRUE /\ doneClosed = FALSE /\ muxHolder = "none"
  /\ hpc \in {"runService", "Execute"}
  /\ ctxDone = FALSE /\ drops = 0 /\ fails = 0

Quitting == doneClosed \/ ctxDone

Close(ch) ==
  /\ closedCh' = closedCh \union {ch}
  /\ panicked' = (panicked \/ ch \in closedCh)

-----------------------------------------------------------------------------
(* keepAliveLoop *)

\* The loop head: the field is read once, under connMux, into a local.
KeeperCapture ==
  /\ kpc = "capture"
  /\ kConnected' = connected
  /\ kpc' = "select"
  /\ UNCHANGED <<chanVars, panicked, clientVars, loopVars, stopVars, hpc, envVars>>

\* The select: Go may take either branch when both are ready.
KeeperSelect ==
  /\ kpc = "select"
  /\ \/ Quitting /\ kpc' = "exited"
     \/ kConnected \in closedCh /\ kpc' = "create"
  /\ UNCHANGED <<kConnected, chanVars, panicked, clientVars, loopVars, stopVars,
                 hpc, envVars>>

FailAttemptStuck ==
  /\ fails < MaxFails
  /\ fails' = fails + 1
  /\ kpc' = "failed"

FailAttempt ==
  /\ fails < MaxFails
  /\ fails' = fails + 1
  /\ kpc' = "sleep"

\* NewReader returns an error, or the new client is stored in s.cli.
KeeperCreate ==
  /\ kpc = "create"
  /\ \/ FailAttempt /\ UNCHANGED <<cli, nextCli>>
     \/ /\ cli' = nextCli
        /\ nextCli' = nextCli + 1
        /\ kpc' = "start"
        /\ UNCHANGED fails
  /\ UNCHANGED <<kConnected, chanVars, panicked, live, ended, loopVars, stopVars,
                 hpc, ctxDone, drops>>

\* cli.Start(): the websocket is dialled; the client is already in s.cli.
KeeperStart ==
  /\ kpc = "start"
  /\ \/ FailAttempt /\ UNCHANGED live
     \/ /\ live' = live \union {cli}
        /\ kpc' = "up"
        /\ UNCHANGED fails
  /\ UNCHANGED <<kConnected, chanVars, panicked, cli, nextCli, ended, loopVars,
                 stopVars, hpc, ctxDone, drops>>

\* connectionUp re-arms connected and closes connecting.  The mutant
\* forgets to re-arm.
KeeperUpNoRearm ==
  /\ kpc = "up"
  /\ UNCHANGED <<connected, connecting, nextCh>>
  /\ Close(connecting)
  /\ kpc' = "capture"
  /\ UNCHANGED <<kConnected, clientVars, loopVars, stopVars, hpc, envVars>>

KeeperUp ==
  /\ kpc = "up"
  /\ connected' = nextCh
  /\ nextCh' = nextCh + 1
  /\ Close(connecting)
  /\ kpc' = "capture"
  /\ UNCHANGED <<connecting, kConnected, clientVars, loopVars, stopVars, hpc,
                 envVars>>

\* sleepWithCancel(5s) at retryConnecting; it is reached after a failure only.
KeeperSleep ==
  /\ kpc = "sleep"
  /\ kpc' \in {"capture"} \union (IF Quitting THEN {"exited"} ELSE {})
  /\ UNCHANGED <<kConnected, chanVars, panicked, clientVars, loopVars, stopVars,
                 hpc, envVars>>

Keeper == \/ KeeperCapture \/ KeeperSelect \/ KeeperCreate \/ KeeperStart
          \/ KeeperUp \/ KeeperSleep

-----------------------------------------------------------------------------
(* loop *)

LoopCapture ==
  /\ lpc = "capture"
  /\ lConnecting' = connecting
  /\ lpc' = "wait"
  /\ UNCHANGED <<lCli, chanVars, panicked, clientVars, keeperVars, stopVars, hpc,
                 envVars>>

LoopWait ==
  /\ lpc = "wait"
  /\ \/ Quitting /\ lpc' = "stop"
     \/ lConnecting \in closedCh /\ lpc' = "getcli"
  /\ UNCHANGED <<lConnecting, lCli, chanVars, panicked, clientVars, keeperVars,
                 stopVars, hpc, envVars>>

\* The mutant keeps watching the client of the previous connection.
LoopGetClientStale ==
  /\ lpc = "getcli"
  /\ lCli' = IF lCli = NoClient THEN cli ELSE lCli
  /\ lpc' = IF cli = NoClient THEN "down" ELSE "online"
  /\ UNCHANGED <<lConnecting, chanVars, panicked, clientVars, keeperVars,
                 stopVars, hpc, envVars>>

\* getClient; a nil client asks for a reconnect.  The initial heartbeat and
\* status that follow change nothing here (module Lifecycle has them).
LoopGetClient ==
  /\ lpc = "getcli"
  /\ lCli' = cli
  /\ lpc' = IF cli = NoClient THEN "down" ELSE "online"
  /\ UNCHANGED <<lConnecting, chanVars, panicked, clientVars, keeperVars,
                 stopVars, hpc, envVars>>

\* The inner select; the heartbeat tick writes to s.cli and changes nothing.
\* The mutants give up a client that may still be connected, and ignore done.
LoopOnlineImpatient ==
  /\ lpc = "online"
  /\ \/ Quitting /\ lpc' = "stop"
     \/ lpc' = "down"
  /\ UNCHANGED <<lConnecting, lCli, chanVars, panicked, clientVars, keeperVars,
                 stopVars, hpc, envVars>>

LoopOnlineDeaf ==
  /\ lpc = "online"
  /\ lCli \in ended /\ lpc' = "down"
  /\ UNCHANGED <<lConnecting, lCli, chanVars, panicked, clientVars, keeperVars,
                 stopVars, hpc, envVars>>

LoopOnline ==
  /\ lpc = "online"
  /\ \/ Quitting /\ lpc' = "stop"
     \/ lCli \in ended /\ lpc' = "down"
  /\ UNCHANGED <<lConnecting, lCli, chanVars, panicked, clientVars, keeperVars,
                 stopVars, hpc, envVars>>

\* connectionDown re-arms connecting and closes connected.
LoopDownNoWake ==
  /\ lpc = "down"
  /\ connecting' = nextCh
  /\ nextCh' = nextCh + 1
  /\ lpc' = "capture"
  /\ UNCHANGED <<closedCh, panicked, connected, lConnecting, lCli, clientVars,
                 keeperVars, stopVars, hpc, envVars>>

LoopDown ==
  /\ lpc = "down"
  /\ connecting' = nextCh
  /\ nextCh' = nextCh + 1
  /\ Close(connected)
  /\ lpc' = "capture"
  /\ UNCHANGED <<connected, lConnecting, lCli, clientVars, keeperVars, stopVars,
                 hpc, envVars>>

-----------------------------------------------------------------------------
(* Stop(), called by loop's deferred function and by the Windows handler *)

\* Stop up to its cliMux section: nothing if not running, else close(done).
StopBegin(a, pc, next) ==
  /\ muxHolder = "none"
  /\ IF running
       THEN /\ running' = FALSE
            /\ doneClosed' = TRUE
            /\ panicked' = (panicked \/ doneClosed)
            /\ muxHolder' = a
            /\ pc = "stopcli"
       ELSE /\ pc = next
            /\ UNCHANGED <<running, doneClosed, panicked, muxHolder>>

\* The cliMux section: cli.Stop() ends a live client, and does nothing to one
\* that was not started.
StopClient(a) ==
  /\ muxHolder = a
  /\ live' = live \ {cli}
  /\ ended' = ended \union (live \intersect {cli})
  /\ muxHolder' = "none"
  /\ UNCHANGED <<running, doneClosed, panicked, cli, nextCli>>

LoopStop ==
  /\ \/ lpc = "stop" /\ StopBegin("loop", lpc', "exited") /\ UNCHANGED clientVars
     \/ lpc = "stopcli" /\ StopClient("loop") /\ lpc' = "exited"
  /\ UNCHANGED <<lConnecting, lCli, chanVars, keeperVars, hpc, envVars>>

Loop == \/ LoopCapture \/ LoopWait \/ LoopGetClient \/ LoopOnline \/ LoopDown
        \/ LoopStop

-----------------------------------------------------------------------------
(* The daemon: runService on nix, Execute under the Windows SCM *)

HostServe ==
  /\ \/ hpc = "runService" /\ doneClosed /\ hpc' = "waiting"
     \/ hpc = "Execute" /\ hpc' = "stop"
  /\ UNCHANGED <<chanVars, panicked, clientVars, keeperVars, loopVars, stopVars,
                 envVars>>

HostStop ==
  /\ \/ hpc = "stop" /\ StopBegin("host", hpc', "waiting") /\ UNCHANGED clientVars
     \/ hpc = "stopcli" /\ StopClient("host") /\ hpc' = "waiting"
  /\ UNCHANGED <<chanVars, keeperVars, loopVars, envVars>>

\* Wait() then Close(): the wait group counts the two goroutines (and the one
\* of module RunnerCmd).
HostWait ==
  /\ hpc = "waiting"
  /\ kpc = "exited" /\ lpc = "exited"
  /\ hpc' = "closed"
  /\ UNCHANGED <<chanVars, panicked, clientVars, keeperVars, loopVars, stopVars,
                 envVars>>

-----------------------------------------------------------------------------
(* The environment *)

Cancel ==
  /\ ~ctxDone
  /\ ctxDone' = TRUE
  /\ UNCHANGED <<chanVars, panicked, clientVars, keeperVars, loopVars, stopVars,
                 hpc, drops, fails>>

End(c) ==
  /\ live' = live \ {c}
  /\ ended' = ended \union {c}
  /\ UNCHANGED <<chanVars, panicked, cli, nextCli, keeperVars, loopVars, stopVars,
                 hpc, ctxDone, fails>>

\* The server closes the websocket, or the network does.
Drop(c) ==
  /\ c \in live /\ drops < MaxDrops
  /\ drops' = drops + 1
  /\ End(c)

\* The client was given s.ctx and ends itself when it is cancelled.  It shares
\* the budget of Drop: a select that is ready to quit may still take its other
\* branch and reconnect, and Go's random choice does so finitely often only.
ReaderCtx(c) ==
  /\ c \in live /\ ctxDone /\ drops < MaxDrops
  /\ drops' = drops + 1
  /\ End(c)

Next == \/ Keeper \/ Loop
        \/ HostServe \/ HostStop \/ HostWait
        \/ Cancel
        \/ \E c \in live : Drop(c) \/ ReaderCtx(c)

Spec == Init /\ [][Next]_vars

\* The Go scheduler runs every goroutine that can run; a sleep ends and a dial
\* returns.  The environment is not fair: it need not drop, cancel or stop.
Fairness ==
  /\ WF_vars(Keeper)
  /\ WF_vars(Loop)
  /\ WF_vars(HostServe /\ Quitting) /\ WF_vars(HostStop) /\ WF_vars(HostWait)

FairSpec == Spec /\ Fairness

-----------------------------------------------------------------------------
(* Properties *)

\* Neither goroutine closes a handshake channel or s.done twice, which would
\* panic the agent (service.go:630-648, 358).
NoDoubleClose == ~panicked

\* A reconnect never leaves an earlier websocket open: the only live client is
\* the one in s.cli, which every writer and Stop() use.
OnlyCurrentClientLive == live \subseteq {cli}

\* While loop() sends heartbeats to s.cli it watches the Done() of that same
\* client, so the loss of the one in use is always noticed.
LoopWatchesCurrentClient == lpc = "online" => lCli = cli /\ cli \in live \union ended

\* No wake-up is lost: keepAliveLoop and loop() never both block on a captured
\* channel that is open, each waiting for the other to close it
\* (service.go:661-668, 708-718).
NoLostWakeup ==
  ~ /\ kpc = "select" /\ kConnected \notin closedCh
    /\ lpc = "wait" /\ lConnecting \notin closedCh

\* The inductive invariant: the two fields are never both open or both closed,
\* a captured channel is still the field's, and a goroutine is past its select
\* only while the other one waits for it.
ChannelInv ==
  /\ connecting < nextCh /\ connected < nextCh
  /\ \A ch \in closedCh : ch < nextCh
  /\ connected \in closedCh <=> connecting \notin closedCh
  /\ kpc = "select" => kConnected = connected
  /\ kpc \in {"create", "start", "up", "sleep"} => connected \in closedCh
  /\ lpc = "wait" => lConnecting = connecting
  /\ lpc \in {"getcli", "online", "down"} => connecting \in closedCh
  /\ running <=> ~doneClosed

ClientInv ==
  /\ cli < nextCli
  /\ \A c \in live \union ended : 0 < c /\ c < nextCli
  /\ live \intersect ended = {}
  /\ kpc = "start" => cli # NoClient /\ cli \notin live \union ended
  /\ kpc = "up" => cli \in live \union ended
  /\ connecting \in closedCh => cli \in live \union ended
  /\ connected \in closedCh /\ kpc # "up" => cli \notin live
  /\ lpc \in {"online", "down"} => lCli = cli
  /\ lpc = "down" => cli \in ended

ConnectionInv ==
  ConnectionTypeOK /\ ChannelInv /\ ClientInv /\ NoDoubleClose
    /\ OnlyCurrentClientLive

\* The lock-free shape of the handshake: one specification of one websocket
\* owned in turn by the two goroutines.
U == INSTANCE Uplink WITH
       owner <- IF connected \in closedCh THEN "dialer" ELSE "watcher",
       link  <- IF cli \in live THEN "live"
                ELSE IF cli \in ended THEN "ended" ELSE "none"
ImplementsUplink == U!Spec

\* A dropped connection is re-established unless the agent is stopping
\* (TestServiceReconnect): loop's report reaches the dialer and is not lost.
Reconnects == lCli \in ended /\ lpc = "online" ~> cli \in live \/ Quitting

\* "The goroutines all return on ctx cancellation or Stop(), so Wait does not
\* block indefinitely" (service.go:98-102).
ShutdownCompletes == Quitting ~> hpc = "closed"
=============================================================================
