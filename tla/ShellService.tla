----------------------------- MODULE ShellService -----------------------------
(***************************************************************************)
(* The remote shells of the service (service/service.go, service/shell.go):*)
(* the table s.sessions under s.mux, the handlers that the websocket's     *)
(* reader calls one at a time, and the three goroutines of a session: its  *)
(* loop, its output and the reaper of its table entry.                     *)
(*                                                                         *)
(* The PTY is only what module Pty promises; refusals, resizes and writes  *)
(* for a session that is not in the table change nothing else than what    *)
(* GARM is sent.                                                           *)
(***************************************************************************)
EXTENDS Naturals, FiniteSets

CONSTANTS
  Ids,         \* session IDs, drawn by GARM
  Limits,      \* possible values of cfg.MaxShellSessions
  MaxCreates,  \* bound: requests for a shell
  Histories    \* which IDs the requests may carry, in their order

ASSUME ShellServiceAssumption ==
  /\ IsFiniteSet(Ids)
  /\ Limits \subseteq Nat \ {0}   \* Validate() makes it 5 if it is not positive
  /\ MaxCreates \in Nat
  /\ Histories \subseteq [1..MaxCreates -> Ids]

Shells  == 1..MaxCreates             \* the sessions, in the order of the requests
None    == 0                         \* no session
Callers == {"reader", "out", "loop"} \* who calls session.Stop()

VARIABLES
  host,        \* "nix", or "scm": the Windows service manager
  limit,       \* cfg.MaxShellSessions
  made,        \* requests so far
  sessions,    \* s.sessions
  sid,         \* the ID that each request carries
  running, done, smux,  \* session.running, whether session.done is closed, session.mux
  pty, shell,  \* the PTY, "hungup" when nobody is at its other end; and the shell
  pc,          \* per caller and session: where it is
  reap,        \* the goroutine that deletes the session's entry
  said,        \* what GARM was sent about each request
  stop         \* the agent: "no" stop yet, "asked" by the host, or s.done is "closed"

configVars == <<host, limit>>
tableVars  == <<made, sessions, sid, reap>>
mutexVars  == <<running, done, smux>>
ptyVars    == <<pty, shell>>
vars == <<configVars, tableVars, mutexVars, ptyVars, pc, said, stop>>

ShellTypeOK ==
  /\ host \in {"nix", "scm"} /\ limit \in Limits
  /\ made \in 0..MaxCreates
  /\ sessions \in [Ids -> 0..MaxCreates]
  /\ sid \in [Shells -> Ids]
  /\ running \in [Shells -> BOOLEAN] /\ done \in [Shells -> BOOLEAN]
  /\ smux \in [Shells -> Callers \union {"free"}]
  /\ pty \in [Shells -> {"none", "open", "hungup", "closed"}]
  /\ shell \in [Shells -> {"none", "alive", "dead"}]
  /\ pc \in [Callers -> [Shells -> {"off", "ready", "read", "data", "watch", "write",
                                    "stop", "kill", "exit"}]]
  /\ reap \in [Shells -> {"off", "watch"}]
  /\ said \in [Shells -> {"silent", "refused", "open", "exited", "unopened", "late",
                          "garbled"}]
  /\ stop \in {"no", "asked", "closed"}

Init ==
  /\ host \in {"nix", "scm"} /\ limit \in Limits
  /\ made = 0
  /\ sessions = [id \in Ids |-> None]
  /\ sid \in Histories
  /\ running = [i \in Shells |-> FALSE] /\ done = [i \in Shells |-> TRUE]
  /\ smux = [i \in Shells |-> "free"]
  /\ pty = [i \in Shells |-> "none"] /\ shell = [i \in Shells |-> "none"]
  /\ pc = [c \in Callers |-> [i \in Shells |-> "off"]]
  /\ reap = [i \in Shells |-> "off"]
  /\ said = [i \in Shells |-> "silent"]
  /\ stop = "no"

Occupied == {id \in Ids : sessions[id] # None}
MuxFree  == \A i \in Shells : pc["reader"][i] = "off"  \* s.mux is not held

\* A termination signal cancels the context; the service manager does not.
CtxDone  == host = "nix" /\ stop # "no"
Quitting == CtxDone \/ stop = "closed"

Goto(c, i, from, to) == pc[c][i] = from /\ pc' = [pc EXCEPT ![c][i] = to]

\* Another message about request i; any order but these garbles what GARM sees.
Say(i, kind) ==
  said' = [said EXCEPT ![i] =
    IF @ = "silent" /\ kind = "ready" THEN "open"
    ELSE IF @ = "open" /\ kind = "data" THEN "open"
    ELSE IF @ = "open" /\ kind = "exit" THEN "exited"
    ELSE IF @ = "exited" /\ kind = "data" THEN "late"
    ELSE IF @ = "silent" /\ kind = "exit" THEN "unopened"
    ELSE IF @ = "unopened" /\ kind = "ready" THEN "late" ELSE "garbled"]

\* A message is written while the connection is up, and else it is lost.
TrySay(i, kind) == Say(i, kind) \/ UNCHANGED said

-----------------------------------------------------------------------------
(* The handlers *)

\* handleCreateShell under s.mux: the PTY and the shell, the session's two
\* goroutines, its entry and the reaper.  It does not look at hasShell.
Create(i) ==
  /\ pty' = [pty EXCEPT ![i] = "open"] /\ shell' = [shell EXCEPT ![i] = "alive"]
  /\ running' = [running EXCEPT ![i] = TRUE] /\ done' = [done EXCEPT ![i] = FALSE]
  /\ pc' = [pc EXCEPT !["out"][i] = "ready", !["loop"][i] = "watch"]
  /\ sessions' = [sessions EXCEPT ![sid[i]] = i]
  /\ reap' = [reap EXCEPT ![i] = "watch"]
  /\ UNCHANGED <<configVars, sid, smux, said, stop>>

\* The mutant forgets to look for a session with the same ID.
CreateOverwriting(i) ==
  /\ made' = i /\ i = made + 1 /\ MuxFree
  /\ Cardinality(Occupied) < limit
  /\ Create(i)

CreateShell(i) ==
  /\ made' = i /\ i = made + 1 /\ MuxFree
  /\ Cardinality(Occupied) < limit /\ sessions[sid[i]] = None
  /\ Create(i)

\* The limit is reached, the ID is in use, or no PTY can be had.  The failing
\* branch and the deferred function both send a ready message with an error.
RefuseShell(i) ==
  /\ made' = i /\ i = made + 1 /\ MuxFree
  /\ said' = [said EXCEPT ![i] = "refused"] \/ UNCHANGED said
  /\ UNCHANGED <<configVars, sessions, sid, reap, mutexVars, ptyVars, pc, stop>>

\* handleShellData and handleClientShellClosed look the session up and keep
\* s.mux through Write() or Stop().  Without s.hasShell they only send an error: those
\* are the behaviours in which they are not called.
Handle(i, step) ==
  /\ MuxFree
  /\ sessions[sid[i]] = i
  /\ Goto("reader", i, "off", step)
  /\ UNCHANGED <<configVars, tableVars, mutexVars, ptyVars, said, stop>>

HandleData(i)   == Handle(i, "write")
HandleClosed(i) == Handle(i, "stop")

\* The PTY takes the input, when the shell reads or there is room left.
WriteTaken(i) ==
  /\ pty[i] = "open"
  /\ Goto("reader", i, "write", "off")
  /\ UNCHANGED <<configVars, tableVars, mutexVars, ptyVars, said, stop>>

WriteFails(i) ==
  /\ pty[i] \in {"hungup", "closed"}
  /\ Goto("reader", i, "write", "stop")
  /\ UNCHANGED <<configVars, tableVars, mutexVars, ptyVars, said, stop>>

-----------------------------------------------------------------------------
(* The goroutines of a session *)

\* handlePTYOutput: the ready message ...
OutReady(i) ==
  /\ \/ Goto("out", i, "ready", "read") /\ Say(i, "ready")
     \/ Goto("out", i, "ready", "stop") /\ UNCHANGED said
  /\ UNCHANGED <<configVars, tableVars, mutexVars, ptyVars, stop>>

\* ... a read that returns output, of the shell or of a process that it left
\* behind, or fails ...
OutRead(i) ==
  /\ pty[i] = "open"
  /\ Goto("out", i, "read", "data")
  /\ UNCHANGED <<configVars, tableVars, mutexVars, ptyVars, said, stop>>

\* The mutant's read fails only when the session has closed the PTY.
OutReadFailsClosed(i) ==
  /\ pty[i] = "closed"
  /\ Goto("out", i, "read", "stop")
  /\ UNCHANGED <<configVars, tableVars, mutexVars, ptyVars, said, stop>>

OutReadFails(i) ==
  /\ pty[i] \in {"hungup", "closed"}
  /\ Goto("out", i, "read", "stop")
  /\ UNCHANGED <<configVars, tableVars, mutexVars, ptyVars, said, stop>>

\* ... and its message, without any lock.
OutData(i) ==
  /\ \/ Goto("out", i, "data", "read") /\ Say(i, "data")
     \/ Goto("out", i, "data", "stop") /\ UNCHANGED said
  /\ UNCHANGED <<configVars, tableVars, mutexVars, ptyVars, stop>>

\* session.loop; the mutant does not watch the context.
LoopWatchDone(i) ==
  /\ done[i]
  /\ Goto("loop", i, "watch", "stop")
  /\ UNCHANGED <<configVars, tableVars, mutexVars, ptyVars, said, stop>>

LoopWatch(i) ==
  /\ done[i] \/ CtxDone
  /\ Goto("loop", i, "watch", "stop")
  /\ UNCHANGED <<configVars, tableVars, mutexVars, ptyVars, said, stop>>

\* The goroutine that waits for the end of the session or of the service and
\* deletes the entry by its ID.
ReapAtQuit(i) ==
  /\ reap[i] = "watch" /\ Quitting /\ MuxFree
  /\ reap' = [reap EXCEPT ![i] = "off"]
  /\ sessions' = [sessions EXCEPT ![sid[i]] = None]
  /\ UNCHANGED <<configVars, made, sid, mutexVars, ptyVars, pc, said, stop>>

Reap(i) ==
  /\ reap[i] = "watch" /\ (Quitting \/ done[i]) /\ MuxFree
  /\ reap' = [reap EXCEPT ![i] = "off"]
  /\ sessions' = [sessions EXCEPT ![sid[i]] = None]
  /\ UNCHANGED <<configVars, made, sid, mutexVars, ptyVars, pc, said, stop>>

-----------------------------------------------------------------------------
(* session.Stop(), under session.mux *)

\* The second caller, who may have waited; the mutant sends an exit of its own.
StopIdleExit(c, i) ==
  /\ smux[i] = "free" /\ ~running[i]
  /\ Goto(c, i, "stop", "off")
  /\ Say(i, "exit")
  /\ UNCHANGED <<configVars, tableVars, mutexVars, ptyVars, stop>>

StopIdle(c, i) ==
  /\ smux[i] = "free" /\ ~running[i]
  /\ Goto(c, i, "stop", "off")
  /\ UNCHANGED <<configVars, tableVars, mutexVars, ptyVars, said, stop>>

\* shell.Close() begins with the PTY, which ends reads and writes ...
StopBeginEager(c, i) ==
  /\ smux[i] = "free" /\ running[i]
  /\ Goto(c, i, "stop", "kill")
  /\ running' = [running EXCEPT ![i] = FALSE] /\ smux' = [smux EXCEPT ![i] = c]
  /\ pty' = [pty EXCEPT ![i] = "closed"] /\ done' = [done EXCEPT ![i] = TRUE]
  /\ UNCHANGED <<shell, configVars, tableVars, said, stop>>

StopBegin(c, i) ==
  /\ smux[i] = "free" /\ running[i]
  /\ Goto(c, i, "stop", "kill")
  /\ running' = [running EXCEPT ![i] = FALSE] /\ smux' = [smux EXCEPT ![i] = c]
  /\ pty' = [pty EXCEPT ![i] = "closed"]
  /\ UNCHANGED <<done, shell, configVars, tableVars, said, stop>>

\* ... and returns when the process is gone; then done is closed.  The mutant
\* above closes it first.
StopKill(c, i) ==
  /\ Goto(c, i, "kill", "exit")
  /\ shell' = [shell EXCEPT ![i] = "dead"]
  /\ done' = [done EXCEPT ![i] = TRUE]
  /\ UNCHANGED <<pty, running, smux, configVars, tableVars, said, stop>>

StopExit(c, i) ==
  /\ Goto(c, i, "exit", "off")
  /\ TrySay(i, "exit")
  /\ smux' = [smux EXCEPT ![i] = "free"]
  /\ UNCHANGED <<running, done, configVars, tableVars, ptyVars, stop>>

Stop(c, i) == \/ StopIdle(c, i) \/ StopBegin(c, i)
              \/ StopKill(c, i) \/ StopExit(c, i)

-----------------------------------------------------------------------------
(* The shell and the host *)

ShellExit(i) ==
  /\ shell[i] = "alive"
  /\ shell' = [shell EXCEPT ![i] = "dead"]
  /\ UNCHANGED <<pty, configVars, tableVars, mutexVars, pc, said, stop>>

\* Reads and writes fail from now on: on Linux the last process that had the
\* terminal open is gone, on Windows the monitor has closed the pseudo-console.
Hangup(i) ==
  /\ pty[i] = "open" /\ shell[i] = "dead"
  /\ pty' = [pty EXCEPT ![i] = "hungup"]
  /\ UNCHANGED <<shell, configVars, tableVars, mutexVars, pc, said, stop>>

\* A termination signal, or a request of the service manager.
Ask ==
  /\ stop = "no"
  /\ stop' = "asked"
  /\ UNCHANGED <<configVars, tableVars, mutexVars, ptyVars, pc, said>>

\* Service.Stop(), called by Execute or at the end of Service.loop.
ServiceStop ==
  /\ stop = "asked" /\ MuxFree
  /\ stop' = "closed"
  /\ UNCHANGED <<configVars, tableVars, mutexVars, ptyVars, pc, said>>

Reader(i)  == \/ WriteFails(i) \/ Stop("reader", i)
Out(i)     == \/ OutReady(i) \/ OutRead(i) \/ OutReadFails(i) \/ OutData(i)
              \/ Stop("out", i)
Loop(i)    == LoopWatch(i) \/ Stop("loop", i)

Next ==
  \/ \E i \in Shells :
       \/ CreateShell(i) \/ RefuseShell(i) \/ HandleData(i) \/ HandleClosed(i)
       \/ WriteTaken(i) \/ Reader(i) \/ Out(i) \/ Loop(i) \/ Reap(i)
       \/ ShellExit(i) \/ Hangup(i)
  \/ Ask \/ ServiceStop

Spec == Init /\ [][Next]_vars

\* Every goroutine runs, and a mutex is handed to whoever waits for it (Go's
\* starvation mode).  GARM and the shells owe nothing: a shell need not read its
\* input, nor the processes that it leaves behind ever exit.  On Windows conhost
\* reads the input, and the monitor closes the pseudo-console after the shell.
Fairness ==
  /\ \A i \in Shells :
       /\ WF_vars(Reader(i))
       /\ WF_vars(host = "scm" /\ WriteTaken(i)) /\ WF_vars(host = "scm" /\ Hangup(i))
       /\ WF_vars(Out(i)) /\ WF_vars(Loop(i)) /\ SF_vars(Reap(i))
  /\ SF_vars(ServiceStop)

FairSpec == Spec /\ Fairness

-----------------------------------------------------------------------------
(* Properties *)

\* "MaxShellSessions is the maximum number of concurrent remote shell sessions"
\* (config.go:56-57): so many shells, stopping ones included, until the service
\* stops.  An entry is deleted only once its shell is gone.
Alive == {i \in Shells : shell[i] = "alive"}
ProcessLimit == ~Quitting => Cardinality(Alive) <= limit

\* An entry of the table goes only when the session that made it is over, or with
\* the service: the reaper, which deletes by ID, never takes the entry of a session
\* that has used the ID again (service.go:201-210).
OwnEntryOnly ==
  [][\A id \in Ids : sessions[id] # None /\ sessions'[id] # sessions[id] =>
       Quitting \/ done[sessions[id]]]_vars

\* A session uses its PTY as module Pty has it: Close() is called at most once,
\* although three callers may want it, and done is closed when it has returned and
\* the shell is dead (shell.go:72-101).
P(i) == INSTANCE Pty WITH
          master <- IF pty[i] = "hungup" THEN "open"
                    ELSE IF pty[i] # "closed" THEN pty[i]
                    ELSE IF done[i] THEN "closed" ELSE "closing",
          shell <- shell[i]
ImplementsPtys ==
  /\ \A i \in Shells : P(i)!Init
  /\ [][\A i \in Shells : [P(i)!Next]_(P(i)!pvars)]_vars

\* GARM is sent about each request what ShellStream allows, although three
\* goroutines send without a common lock: after the exit one output message, or the
\* ready message if it is the first that is sent (shell.go:93, 119).
S == INSTANCE ShellStream WITH Requests <- Shells, stage <- said
ImplementsShellStream == S!Spec

\* Why: the entry of a session and its reaper come and go together, a session that
\* runs has its goroutines, and one caller at a time closes what is still open.
TableInv ==
  /\ \A i \in Shells : reap[i] = "watch" <=> sessions[sid[i]] = i
  /\ \A id \in Ids : sessions[id] # None => sid[sessions[id]] = id
  /\ Cardinality(Occupied) <= limit
  /\ \A i, j \in Shells : pc["reader"][i] # "off" /\ pc["reader"][j] # "off" => i = j

\* A request that has got no session.
NoSession(i) ==
  /\ i > made => pty[i] = "none" /\ said[i] = "silent"
  /\ pty[i] = "none" <=> shell[i] = "none"
  /\ pty[i] = "none" => /\ ~running[i] /\ done[i] /\ smux[i] = "free" /\ reap[i] = "off"
                        /\ \A c \in Callers : pc[c][i] = "off"
                        /\ said[i] \in {"silent", "refused"}

\* Where each caller can be.
Places(i) ==
  /\ \A c \in Callers : smux[i] = c <=> pc[c][i] \in {"kill", "exit"}
  /\ pc["reader"][i] \in {"off", "write", "stop", "kill", "exit"}
  /\ pc["out"][i] \in {"off", "ready", "read", "data", "stop", "kill", "exit"}
  /\ pc["loop"][i] \in {"off", "watch", "stop", "kill", "exit"}

\* From running to done.
Closing(i) ==
  /\ running[i] => /\ smux[i] = "free" /\ pty[i] \in {"open", "hungup"} /\ ~done[i]
                   /\ pc["out"][i] # "off" /\ pc["loop"][i] # "off"
  /\ ~running[i] => pty[i] \in {"none", "closed"}
  /\ done[i] => shell[i] # "alive"
  /\ \A c \in Callers : pc[c][i] = "kill" => ~done[i]
  /\ \A c \in Callers : pc[c][i] = "exit" => done[i]
  /\ ~running[i] /\ smux[i] = "free" => done[i]
  /\ ~Quitting /\ ~done[i] => reap[i] = "watch"

\* What GARM was sent, against where the output goroutine is.
Spoken(i) ==
  /\ pty[i] # "none" => said[i] \notin {"refused", "garbled"}
  /\ said[i] \in {"exited", "unopened", "late"} => ~running[i] /\ smux[i] = "free"
  /\ said[i] = "late" => pc["out"][i] \notin {"ready", "data"}
  /\ pc["out"][i] = "ready" => said[i] \in {"silent", "unopened"}
  /\ pc["out"][i] \in {"read", "data"} => said[i] \notin {"silent", "unopened"}

SessionInv(i) == NoSession(i) /\ Places(i) /\ Closing(i) /\ Spoken(i)

ShellInv == ShellTypeOK /\ TableInv /\ \A i \in Shells : SessionInv(i)

\* A session that GARM closes, that is there at a termination signal, or whose
\* terminal is left by the last process ends, shell and all, even while a write holds
\* s.mux.  That the shell itself has exited is enough on Windows only: a process that
\* it leaves behind keeps its session open on Linux (shell.go:125, pty_linux.go:46-51).
SessionEnds ==
  \A i \in Shells :
    \/ pty[i] = "hungup"
    \/ pty[i] = "open" /\ (CtxDone \/ pc["reader"][i] = "stop")
    \/ pty[i] = "open" /\ host = "scm" /\ shell[i] = "dead"
      ~> done[i] /\ shell[i] = "dead"

\* Unless a shell keeps the reader waiting for ever, an ended session's entry goes.
SlotFreed ==
  []<>MuxFree => \A i \in Shells : done[i] /\ reap[i] = "watch" ~> reap[i] = "off"

\* The service gets to stop although a handler may hold s.mux and wait for a shell
\* that does not read: the context ends that session without s.mux.
StopGoesThrough == stop = "asked" ~> stop = "closed"
=============================================================================
