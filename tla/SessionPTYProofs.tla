---------------------------- MODULE SessionPTYProofs ----------------------------
(***************************************************************************)
(* Theorems about the PTY of a session on both platforms: the inductive    *)
(* invariant PtyInv, that the job's handle is closed once, that SIGTERM    *)
(* meets its target, and that SessionPTY implements Pty.                   *)
(***************************************************************************)
EXTENDS SessionPTY, TLAPS

\* Every step keeps the types.
LEMMA TypeStep == PtyTypeOK /\ [Next]_vars => PtyTypeOK'
<1> SUFFICES ASSUME PtyTypeOK, [Next]_vars
             PROVE  PtyTypeOK'
  OBVIOUS
<1> USE DEF PtyTypeOK, Threads, jobVars
<1>1. CASE Spawn
  BY <1>1 DEF Spawn, Goto
<1>2. CASE SpawnFails
  BY <1>2 DEF SpawnFails, Goto
<1>3. CASE StartReady
  BY <1>3 DEF StartReady
<1>4. CASE AssignFails
  BY <1>4 DEF AssignFails, Goto, Killed
<1>5. CASE ReadFails
  BY <1>5 DEF ReadFails, HungUp
<1>6. CASE LinuxClose
  BY <1>6 DEF LinuxClose, Goto
<1>7. CASE WinClose
  BY <1>7 DEF WinClose, Goto
<1>8. CASE Terminate
  BY <1>8 DEF Terminate, Signal
<1>9. CASE GraceOver
  BY <1>9 DEF GraceOver, Goto
<1>10. CASE GraceTimeout
  BY <1>10 DEF GraceTimeout, Goto
<1>11. CASE ForceKill
  BY <1>11 DEF ForceKill, Goto, Signal, Killed
<1>12. CASE Drained
  BY <1>12 DEF Drained, Goto
<1>13. CASE WaiterReaps
  BY <1>13 DEF WaiterReaps, Goto
<1>14. CASE WaiterSends
  BY <1>14 DEF WaiterSends, Goto
<1>15. CASE MonitorCloses
  BY <1>15 DEF MonitorCloses, Goto
<1>16. CASE ShellExit
  BY <1>16 DEF ShellExit
<1>17. CASE ShellForks
  BY <1>17 DEF ShellForks
<1>22. CASE ChildExit
  BY <1>22 DEF ChildExit
<1>18. ASSUME NEW t \in Threads, CloseJob(t)
      PROVE  PtyTypeOK'
  BY <1>18 DEF CloseJob, Goto, Killed
<1>19. ASSUME NEW t \in Threads, CloseConPty(t)
      PROVE  PtyTypeOK'
  BY <1>19 DEF CloseConPty, Goto
<1>20. ASSUME NEW t \in Threads, CloseAgain(t)
      PROVE  PtyTypeOK'
  BY <1>20 DEF CloseAgain, Goto
<1>21. CASE UNCHANGED vars
  BY <1>21 DEF vars
<1> QED
  BY <1>1, <1>2, <1>3, <1>4, <1>5, <1>6, <1>7, <1>8, <1>9, <1>10, <1>11, <1>12, <1>13, <1>14,
     <1>15, <1>16, <1>17, <1>18, <1>19, <1>20, <1>21, <1>22
  DEF Next, Closing, Helping, Closer, Threads

\* Who may reap the shell and what is closed, step by step.
LEMMA PtyStep == PtyInv /\ [Next]_vars => PtyInv'
<1> SUFFICES ASSUME PtyInv, [Next]_vars
             PROVE  PtyInv'
  OBVIOUS
<1>t. PtyTypeOK'
  BY TypeStep DEF PtyInv
<1> USE <1>t DEF PtyInv, PtyTypeOK, Threads, jobVars
<1>1. CASE Spawn
  BY <1>1 DEF Spawn, Goto
<1>2. CASE SpawnFails
  BY <1>2 DEF SpawnFails, Goto
<1>3. CASE StartReady
  BY <1>3 DEF StartReady
<1>4. CASE AssignFails
  BY <1>4 DEF AssignFails, Goto, Killed
<1>5. CASE ReadFails
  BY <1>5 DEF ReadFails, HungUp
<1>6. CASE LinuxClose
  BY <1>6 DEF LinuxClose, Goto
<1>7. CASE WinClose
  BY <1>7 DEF WinClose, Goto
<1>8. CASE Terminate
  BY <1>8 DEF Terminate, Signal
<1>9. CASE GraceOver
  BY <1>9 DEF GraceOver, Goto
<1>10. CASE GraceTimeout
  BY <1>10 DEF GraceTimeout, Goto
<1>11. CASE ForceKill
  BY <1>11 DEF ForceKill, Goto, Signal, Killed
<1>12. CASE Drained
  BY <1>12 DEF Drained, Goto
<1>13. CASE WaiterReaps
  BY <1>13 DEF WaiterReaps, Goto
<1>14. CASE WaiterSends
  BY <1>14 DEF WaiterSends, Goto
<1>15. CASE MonitorCloses
  BY <1>15 DEF MonitorCloses, Goto
<1>16. CASE ShellExit
  BY <1>16 DEF ShellExit
<1>17. CASE ShellForks
  BY <1>17 DEF ShellForks
<1>22. CASE ChildExit
  BY <1>22 DEF ChildExit
<1>18. ASSUME NEW t \in Threads, CloseJob(t)
      PROVE  PtyInv'
  BY <1>18 DEF CloseJob, Goto, Killed
<1>19. ASSUME NEW t \in Threads, CloseConPty(t)
      PROVE  PtyInv'
  BY <1>19 DEF CloseConPty, Goto
<1>20. ASSUME NEW t \in Threads, CloseAgain(t)
      PROVE  PtyInv'
  BY <1>20 DEF CloseAgain, Goto
<1>21. CASE UNCHANGED vars
  BY <1>21 DEF vars
<1> QED
  BY <1>1, <1>2, <1>3, <1>4, <1>5, <1>6, <1>7, <1>8, <1>9, <1>10, <1>11, <1>12, <1>13, <1>14,
     <1>15, <1>16, <1>17, <1>18, <1>19, <1>20, <1>21, <1>22
  DEF Next, Closing, Helping, Closer, Threads

\* The invariant of Close() on both platforms.
THEOREM PtyInvariant == Spec => []PtyInv
<1>1. Init => PtyInv
  <2> SUFFICES ASSUME Init
               PROVE  PtyInv
    OBVIOUS
  <2>1. pc \in [Threads -> {"start", "idle", "off"}]
    BY DEF Init, Threads
  <2>2. PtyTypeOK
    BY <2>1 DEF Init, PtyTypeOK
  <2> QED
    BY <2>2 DEF Init, PtyInv
<1>2. PtyInv /\ [Next]_vars => PtyInv'
  BY PtyStep
<1> QED
  BY <1>1, <1>2, PTL DEF Spec

\* The job's handle is not closed twice, although the monitor and the session may
\* both call Close() (pty_windows.go:120-163).
THEOREM JobNeverClosedTwice == Spec => []JobClosedOnce
<1>1. PtyInv => JobClosedOnce
  BY DEF PtyInv, JobClosedOnce
<1> QED
  BY <1>1, PtyInvariant, PTL

\* SIGTERM meets the shell: only a SIGKILL can be late (pty_linux.go:79-102).
THEOREM SigtermOnTarget == Spec => TermOnTarget
<1>1. PtyInv /\ [Next]_vars => [stray' # stray => pc["session"] = "kill"]_vars
  <2> SUFFICES ASSUME PtyInv, [Next]_vars, stray' # stray
               PROVE  pc["session"] = "kill"
    OBVIOUS
  <2>1. CASE Terminate
    BY <2>1 DEF Terminate, Signal, PtyInv, PtyTypeOK
  <2>2. CASE ForceKill
    BY <2>2 DEF ForceKill, Goto
  <2> QED
    BY <2>1, <2>2
    DEF Next, vars, Closing, Helping, Closer, Spawn, SpawnFails, StartReady, AssignFails,
        ReadFails, LinuxClose, WinClose, GraceOver, GraceTimeout, Drained, WaiterReaps,
        WaiterSends, MonitorCloses, ShellExit, ShellForks, ChildExit, CloseJob,
        CloseConPty, CloseAgain
<1> QED
  BY <1>1, PtyInvariant, PTL DEF Spec, TermOnTarget

\* Each step is one of Pty, or none.
LEMMA PtyRefinementStep == PtyInv /\ PtyInv' /\ [Next]_vars => [P!Next]_(P!pvars)
<1> SUFFICES ASSUME PtyInv, PtyInv', [Next]_vars
             PROVE  [P!Next]_(P!pvars)
  OBVIOUS
<1> USE DEF PtyInv, PtyTypeOK, Threads, P!Next, P!Spawn, P!Open, P!Fail, P!Exit, P!Close,
            P!Closed, P!pvars
<1>1. CASE Spawn
  BY <1>1 DEF Spawn, Goto
<1>2. CASE SpawnFails
  BY <1>2 DEF SpawnFails, Goto
<1>3. CASE StartReady
  BY <1>3 DEF StartReady
<1>4. CASE AssignFails
  BY <1>4 DEF AssignFails, Goto, Killed
<1>5. CASE ReadFails
  BY <1>5 DEF ReadFails, HungUp
<1>6. CASE LinuxClose
  BY <1>6 DEF LinuxClose, Goto
<1>7. CASE WinClose
  BY <1>7 DEF WinClose, Goto
<1>8. CASE Terminate
  BY <1>8 DEF Terminate, Signal
<1>9. CASE GraceOver
  BY <1>9 DEF GraceOver, Goto
<1>10. CASE GraceTimeout
  BY <1>10 DEF GraceTimeout, Goto
<1>11. CASE ForceKill
  BY <1>11 DEF ForceKill, Goto, Signal, Killed
<1>12. CASE Drained
  BY <1>12 DEF Drained, Goto
<1>13. CASE WaiterReaps
  BY <1>13 DEF WaiterReaps, Goto
<1>14. CASE WaiterSends
  BY <1>14 DEF WaiterSends, Goto
<1>15. CASE MonitorCloses
  BY <1>15 DEF MonitorCloses, Goto
<1>16. CASE ShellExit
  BY <1>16 DEF ShellExit
<1>17. CASE ShellForks
  BY <1>17 DEF ShellForks
<1>22. CASE ChildExit
  BY <1>22 DEF ChildExit
<1>18. ASSUME NEW t \in Threads, CloseJob(t)
      PROVE  [P!Next]_(P!pvars)
  BY <1>18 DEF CloseJob, Goto, Killed
<1>19. ASSUME NEW t \in Threads, CloseConPty(t)
      PROVE  [P!Next]_(P!pvars)
  BY <1>19 DEF CloseConPty, Goto
<1>20. ASSUME NEW t \in Threads, CloseAgain(t)
      PROVE  [P!Next]_(P!pvars)
  BY <1>20 DEF CloseAgain, Goto
<1>21. CASE UNCHANGED vars
  BY <1>21 DEF vars
<1> QED
  BY <1>1, <1>2, <1>3, <1>4, <1>5, <1>6, <1>7, <1>8, <1>9, <1>10, <1>11, <1>12, <1>13, <1>14,
     <1>15, <1>16, <1>17, <1>18, <1>19, <1>20, <1>21, <1>22
  DEF Next, Closing, Helping, Closer, Threads

\* A PTY comes with a shell or not at all, and Close() returns when the shell is dead.
THEOREM RefinesPty == Spec => ImplementsPty
<1>1. Init => P!Init
  BY DEF Init, P!Init
<1>2. PtyInv /\ PtyInv' /\ [Next]_vars => [P!Next]_(P!pvars)
  BY PtyRefinementStep
<1> QED
  BY <1>1, <1>2, PtyInvariant, PTL DEF Spec, ImplementsPty, P!Spec
================================================================================
