--------------------------- MODULE RunnerCmdProofs ---------------------------
(***************************************************************************)
(* Theorems about one run of the runner command, for a runner with and     *)
(* without child processes: the inductive invariant RunnerCmdInv (types,   *)
(* StopInv, QuitInv, JobInv, ExecInv), the tear-down that it implies, that *)
(* signals go astray in a shutdown only, and that the callbacks of a run   *)
(* implement RunSession.                                                   *)
(***************************************************************************)
EXTENDS RunnerCmd, TLAPS

\* Every step keeps the types.
LEMMA TypeStep == RunnerCmdTypeOK /\ [Next]_vars => RunnerCmdTypeOK'
<1> SUFFICES ASSUME RunnerCmdTypeOK, [Next]_vars
             PROVE  RunnerCmdTypeOK'
  OBVIOUS
<1> USE DEF RunnerCmdTypeOK, Threads, Streams, Lines, AfterStop, stopVars, execVars,
            procVars, scanVars, viewVars, hostVars, historyVars
<1>1. CASE KeeperStart
  <2>1. pc' = [keeper |-> "watch", loop |-> "watch", exec |-> "spawn"]
    BY <1>1 DEF KeeperStart
  <2>2. pc' \in [Threads -> {"watch", "spawn"}]
    BY <2>1
  <2>3. running' \in BOOLEAN /\ rdone' \in BOOLEAN
    BY <1>1 DEF KeeperStart
  <2>4. jobHandle' \in {"none", "open"}
    BY <1>1 DEF KeeperStart
  <2>5. UNCHANGED <<mux, cleanup, published, exited, procVars, scanVars, viewVars,
                    hostVars, historyVars>>
    BY <1>1 DEF KeeperStart
  <2> QED
    BY <2>2, <2>3, <2>4, <2>5
<1>2. CASE KeeperWatch
  BY <1>2 DEF KeeperWatch, Goto
<1>3. CASE KeeperLinger
  BY <1>3 DEF KeeperLinger, Goto
<1>4. CASE LoopWatch
  BY <1>4 DEF LoopWatch, Goto
<1>5. CASE ExecSpawn
  BY <1>5 DEF ExecSpawn, Goto
<1>6. CASE ExecSpawnFails
  BY <1>6 DEF ExecSpawnFails, Goto
<1>7. CASE ExecPublish
  BY <1>7 DEF ExecPublish, Goto
<1>8. CASE ExecReap
  BY <1>8 DEF ExecReap, Goto
<1>9. CASE ExecReaped
  BY <1>9 DEF ExecReaped, Goto
<1>10. CASE ExecOffline
  <2>1. pc' = [pc EXCEPT !["exec"] = "finish"]
    BY <1>10 DEF ExecOffline, Goto
  <2>2. alive' \in BOOLEAN
    BY <1>10 DEF ExecOffline
  <2>3. UNCHANGED <<jobStarted, jobFinished, procVars, scanVars, stopVars, execVars,
                    hostVars, historyVars>>
    BY <1>10 DEF ExecOffline
  <2> QED
    BY <2>1, <2>2, <2>3
<1>11. CASE ExecFinish
  BY <1>11 DEF ExecFinish, Goto
<1>12. CASE ProcFork
  BY <1>12 DEF ProcFork
<1>13. CASE LeaderExit
  BY <1>13 DEF LeaderExit
<1>14. CASE ChildExit
  BY <1>14 DEF ChildExit
<1>15. CASE Cancel
  BY <1>15 DEF Cancel
<1>16. CASE ServiceStop
  BY <1>16 DEF ServiceStop
<1>17. CASE HostExit
  BY <1>17 DEF HostExit
<1>18. ASSUME NEW t \in Threads, StopIdle(t)
       PROVE  RunnerCmdTypeOK'
  BY <1>18 DEF StopIdle, Goto
<1>19. ASSUME NEW t \in Threads, StopBegin(t)
       PROVE  RunnerCmdTypeOK'
  <2>1. pc' = [pc EXCEPT ![t] = "cleanup"]
    BY <1>19 DEF StopBegin, Goto
  <2>2. running' \in BOOLEAN /\ rdone' \in BOOLEAN
    BY <1>19 DEF StopBegin
  <2>3. mux' = t /\ cleanup' = "look"
        /\ UNCHANGED <<execVars, procVars, scanVars, viewVars, hostVars, historyVars>>
    BY <1>19 DEF StopBegin
  <2> QED
    BY <2>1, <2>2, <2>3
<1>20. ASSUME NEW t \in Threads, CleanupLook(t)
       PROVE  RunnerCmdTypeOK'
  BY <1>20 DEF CleanupLook, CleanupGoes, CleanupEnds
<1>21. ASSUME NEW t \in Threads, CleanupTerm(t)
       PROVE  RunnerCmdTypeOK'
  BY <1>21 DEF CleanupTerm, Signal, CleanupGoes
<1>22. ASSUME NEW t \in Threads, CleanupGrace(t)
       PROVE  RunnerCmdTypeOK'
  BY <1>22 DEF CleanupGrace, CleanupGoes, CleanupEnds
<1>23. ASSUME NEW t \in Threads, CleanupKill(t)
       PROVE  RunnerCmdTypeOK'
  BY <1>23 DEF CleanupKill, Signal, CleanupEnds
<1>24. ASSUME NEW s \in Streams, ScanFill(s)
       PROVE  RunnerCmdTypeOK'
  BY <1>24 DEF ScanFill
<1>25. ASSUME NEW s \in Streams, ScanLine(s)
       PROVE  RunnerCmdTypeOK'
  <2>1. buf' \in [Streams -> Seq(Lines)]
    BY <1>25 DEF ScanLine
  <2>2. alive' \in BOOLEAN /\ jobStarted' \in BOOLEAN
    BY <1>25 DEF ScanLine
  <2>3. UNCHANGED <<jobFinished, pipe, readEnd, scanner, pc, stopVars, execVars,
                    procVars, hostVars, historyVars>>
    BY <1>25 DEF ScanLine
  <2> QED
    BY <2>1, <2>2, <2>3
<1>26. ASSUME NEW s \in Streams, ScanEnd(s)
       PROVE  RunnerCmdTypeOK'
  BY <1>26 DEF ScanEnd
<1>27. ASSUME NEW s \in Streams, ProcPrint(s)
       PROVE  RunnerCmdTypeOK'
  BY <1>27 DEF ProcPrint
<1>28. CASE UNCHANGED vars
  BY <1>28 DEF vars
<1>29. CASE ExecAssign
  BY <1>29 DEF ExecAssign, Goto
<1>30. CASE ExecAssignFails
  BY <1>30 DEF ExecAssignFails, Goto
<1>31. CASE HostLeaves
  <2>1. /\ jobHandle' \in {"none", "open", "closed"} /\ UNCHANGED <<inJob, said>>
        /\ leader' \in {leader, "zombie"} /\ child' \in {child, "dead"}
    BY <1>31 DEF HostLeaves, CloseJob
  <2>2. missed' \in BOOLEAN
    <3>1. Starting \in BOOLEAN
      BY DEF Starting
    <3>2. missed' = Starting \/ missed' = missed
      BY <1>31 DEF HostLeaves
    <3> QED
      BY <3>1, <3>2
  <2>3. /\ UNCHANGED <<ctxDone, sdone, platform, pc, stopVars, published, exited, scanVars,
                       viewVars, stray>>
        /\ host' = "exited"
    BY <1>31 DEF HostLeaves
  <2> QED
    BY <2>1, <2>2, <2>3
<1>32. ASSUME NEW t \in Threads, CleanupClose(t)
       PROVE  RunnerCmdTypeOK'
  <2>1. /\ jobHandle' = "closed" /\ UNCHANGED <<inJob, said>>
        /\ leader' \in {leader, "zombie"} /\ child' \in {child, "dead"}
    BY <1>32 DEF CleanupClose, CloseJob
  <2>2. missed' \in BOOLEAN
    BY <1>32 DEF CleanupClose, Starting
  <2>3. /\ UNCHANGED <<running, rdone, published, exited, scanVars, viewVars, hostVars,
                       stray>>
        /\ mux' = "free" /\ cleanup' = "none" /\ pc' = [pc EXCEPT ![t] = AfterStop[t]]
    BY <1>32 DEF CleanupClose, CleanupEnds
  <2> QED
    BY <2>1, <2>2, <2>3
<1>33. ASSUME NEW s \in Streams, ScanTooLong(s)
       PROVE  RunnerCmdTypeOK'
  BY <1>33 DEF ScanTooLong
<1> QED
  BY <1>1, <1>2, <1>3, <1>4, <1>5, <1>6, <1>7, <1>8, <1>9, <1>10, <1>11, <1>12, <1>13,
     <1>14, <1>15, <1>16, <1>17, <1>18, <1>19, <1>20, <1>21, <1>22, <1>23, <1>24,
     <1>25, <1>26, <1>27, <1>28, <1>29, <1>30, <1>31, <1>32, <1>33
  DEF Next, Stop, Exec, Scan

\* One cleanup at a time, and what it leaves behind: a thread changes r.running only
\* under r.mux, and the leader is spawned once, before it is published.
LEMMA StopStep ==
  RunnerCmdTypeOK /\ StopInv /\ JobInv /\ ExecInv /\ [Next]_vars => StopInv'
<1> SUFFICES ASSUME RunnerCmdTypeOK, StopInv, JobInv, ExecInv, [Next]_vars
             PROVE  StopInv'
  OBVIOUS
<1> USE DEF RunnerCmdTypeOK, StopInv, JobInv, ExecInv, Starting, Threads, AfterStop,
            stopVars, execVars, procVars, scanVars, viewVars, hostVars, historyVars
<1>1. CASE KeeperStart
  BY <1>1 DEF KeeperStart
<1>2. CASE KeeperWatch
  BY <1>2 DEF KeeperWatch, Goto
<1>3. CASE KeeperLinger
  BY <1>3 DEF KeeperLinger, Goto
<1>4. CASE LoopWatch
  BY <1>4 DEF LoopWatch, Goto
<1>5. CASE ExecSpawn
  BY <1>5 DEF ExecSpawn, Goto
<1>6. CASE ExecSpawnFails
  BY <1>6 DEF ExecSpawnFails, Goto
<1>7. CASE ExecPublish
  BY <1>7 DEF ExecPublish, Goto
<1>8. CASE ExecReap
  BY <1>8 DEF ExecReap, Goto
<1>9. CASE ExecReaped
  BY <1>9 DEF ExecReaped, Goto
<1>10. CASE ExecOffline
  BY <1>10 DEF ExecOffline, Goto
<1>11. CASE ExecFinish
  BY <1>11 DEF ExecFinish, Goto
<1>12. CASE ProcFork
  BY <1>12 DEF ProcFork
<1>13. CASE LeaderExit
  BY <1>13 DEF LeaderExit
<1>14. CASE ChildExit
  BY <1>14 DEF ChildExit
<1>15. CASE Cancel
  BY <1>15 DEF Cancel
<1>16. CASE ServiceStop
  BY <1>16 DEF ServiceStop
<1>17. CASE HostExit
  BY <1>17 DEF HostExit
<1>18. ASSUME NEW t \in Threads, StopIdle(t)
       PROVE  StopInv'
  BY <1>18 DEF StopIdle, Goto
<1>19. ASSUME NEW t \in Threads, StopBegin(t)
       PROVE  StopInv'
  BY <1>19 DEF StopBegin, Goto
<1>20. ASSUME NEW t \in Threads, CleanupLook(t)
       PROVE  StopInv'
  <2>1. CASE published /\ ~exited
    BY <1>20, <2>1 DEF CleanupLook, CleanupGoes
  <2>2. CASE ~(published /\ ~exited)
    <3>1. cleanup' = "none" /\ mux' = "free" /\ pc' = [pc EXCEPT ![t] = AfterStop[t]]
      BY <1>20, <2>2 DEF CleanupLook, CleanupEnds
    <3>2. /\ mux = t /\ ~running'
          /\ UNCHANGED <<execVars, procVars, hostVars>>
      BY <1>20, <2>2 DEF CleanupLook, CleanupEnds
    <3>3. missed' \/ (~Starting /\ leader # "running")
      <4>1. platform = "nix" /\ missed' = ~published
        BY <1>20 DEF CleanupLook
      <4>2. published => exited /\ ~Starting
        BY <2>2, <4>1
      <4> QED
        BY <4>1, <4>2
    <3> QED
      BY <3>1, <3>2, <3>3
  <2> QED
    BY <2>1, <2>2
<1>21. ASSUME NEW t \in Threads, CleanupTerm(t)
       PROVE  StopInv'
  BY <1>21 DEF CleanupTerm, Signal, CleanupGoes
<1>22. ASSUME NEW t \in Threads, CleanupGrace(t)
       PROVE  StopInv'
  BY <1>22 DEF CleanupGrace, CleanupGoes, CleanupEnds
<1>23. ASSUME NEW t \in Threads, CleanupKill(t)
       PROVE  StopInv'
  BY <1>23 DEF CleanupKill, Signal, CleanupEnds
<1>24. ASSUME NEW s \in Streams, ScanFill(s)
       PROVE  StopInv'
  BY <1>24 DEF ScanFill
<1>25. ASSUME NEW s \in Streams, ScanLine(s)
       PROVE  StopInv'
  BY <1>25 DEF ScanLine
<1>26. ASSUME NEW s \in Streams, ScanEnd(s)
       PROVE  StopInv'
  BY <1>26 DEF ScanEnd
<1>27. ASSUME NEW s \in Streams, ProcPrint(s)
       PROVE  StopInv'
  BY <1>27 DEF ProcPrint
<1>28. CASE UNCHANGED vars
  BY <1>28 DEF vars
<1>29. CASE ExecAssign
  BY <1>29 DEF ExecAssign, Goto
<1>30. CASE ExecAssignFails
  BY <1>30 DEF ExecAssignFails, Goto
<1>31. CASE HostLeaves
  <2>1. /\ UNCHANGED <<pc, stopVars, published, platform>> /\ host' = "exited"
        /\ leader = "none" => leader' = "none"
    BY <1>31 DEF HostLeaves, CloseJob
  <2>2. platform = "windows" /\ host = "up" /\ UNCHANGED Starting
    BY <1>31 DEF HostLeaves
  <2>3. missed' \/ (~Starting /\ leader' # "running")
    <3>1. CASE jobHandle = "open"
      <4>1. missed' = Starting
        BY <1>31, <3>1 DEF HostLeaves
      <4>2. leader' = IF leader = "running" /\ "leader" \in inJob THEN "zombie" ELSE leader
        BY <1>31, <3>1 DEF HostLeaves, CloseJob
      <4>3. ~Starting /\ leader = "running" => "leader" \in inJob
        BY <2>2
      <4> QED
        BY <4>1, <4>2, <4>3
    <3>2. CASE jobHandle # "open"
      <4>1. UNCHANGED <<leader, missed>>
        BY <1>31, <3>2 DEF HostLeaves
      <4>2. CASE jobHandle = "closed"
        BY <4>1, <4>2
      <4>3. CASE jobHandle = "none"
        BY <2>2, <4>1, <4>3
      <4> QED
        BY <3>2, <4>2, <4>3
    <3> QED
      BY <3>1, <3>2
  <2> QED
    BY <2>1, <2>2, <2>3
<1>32. ASSUME NEW t \in Threads, CleanupClose(t)
       PROVE  StopInv'
  <2>1. /\ mux = t /\ cleanup' = "none" /\ mux' = "free" /\ ~running'
        /\ pc' = [pc EXCEPT ![t] = AfterStop[t]] /\ host = "up" /\ UNCHANGED hostVars
    BY <1>32 DEF CleanupClose, CleanupEnds
  <2>2. missed' = Starting
    BY <1>32 DEF CleanupClose
  <2>3. leader' = IF leader = "running" /\ "leader" \in inJob THEN "zombie" ELSE leader
    BY <1>32 DEF CleanupClose, CloseJob
  <2>4. ~Starting /\ leader = "running" => "leader" \in inJob
    <3>1. platform = "windows"
      BY <1>32 DEF CleanupClose
    <3> QED
      BY <3>1
  <2>5. Starting' = Starting
    <3>1. pc["exec"] # "cleanup" => pc'["exec"] = pc["exec"]
      BY <2>1
    <3>2. pc["exec"] = "cleanup" => pc'["exec"] = "drain"
      BY <2>1
    <3> QED
      BY <3>1, <3>2
  <2>6. missed' \/ (~Starting' /\ leader' # "running")
    BY <2>2, <2>3, <2>4, <2>5
  <2>7. pc["keeper"] # "start" /\ (\A u \in Threads : pc'[u] # "cleanup")
    BY <2>1
  <2> QED
    BY <2>1, <2>6, <2>7
<1>33. ASSUME NEW s \in Streams, ScanTooLong(s)
       PROVE  StopInv'
  BY <1>33 DEF ScanTooLong
<1> QED
  BY <1>1, <1>2, <1>3, <1>4, <1>5, <1>6, <1>7, <1>8, <1>9, <1>10, <1>11, <1>12, <1>13,
     <1>14, <1>15, <1>16, <1>17, <1>18, <1>19, <1>20, <1>21, <1>22, <1>23, <1>24,
     <1>25, <1>26, <1>27, <1>28, <1>29, <1>30, <1>31, <1>32, <1>33
  DEF Next, Stop, Exec, Scan

\* What the threads have to see before they call Stop().
LEMMA QuitStep ==
  RunnerCmdTypeOK /\ StopInv /\ QuitInv /\ [Next]_vars => QuitInv'
<1> SUFFICES ASSUME RunnerCmdTypeOK, StopInv, QuitInv, [Next]_vars
             PROVE  QuitInv'
  OBVIOUS
<1> USE DEF RunnerCmdTypeOK, StopInv, QuitInv, Quitting, Threads, AfterStop, stopVars,
            hostVars, historyVars
<1>1. CASE KeeperStart
  BY <1>1 DEF KeeperStart
<1>2. CASE KeeperWatch
  BY <1>2 DEF KeeperWatch, Goto
<1>3. CASE KeeperLinger
  BY <1>3 DEF KeeperLinger, Goto
<1>4. CASE LoopWatch
  BY <1>4 DEF LoopWatch, Goto
<1>5. CASE Exec
  BY <1>5 DEF Exec, ExecSpawn, ExecSpawnFails, ExecPublish, ExecAssign, ExecAssignFails,
     ExecReap, ExecReaped, ExecOffline, ExecFinish, Goto
<1>6. ASSUME NEW t \in Threads, StopIdle(t)
      PROVE  QuitInv'
  BY <1>6 DEF StopIdle, Goto
<1>7. ASSUME NEW t \in Threads, StopBegin(t)
      PROVE  QuitInv'
  BY <1>7 DEF StopBegin, Goto
<1>8. ASSUME NEW t \in Threads, CleanupLook(t)
      PROVE  QuitInv'
  BY <1>8 DEF CleanupLook, CleanupGoes, CleanupEnds
<1>9. ASSUME NEW t \in Threads, CleanupTerm(t)
      PROVE  QuitInv'
  BY <1>9 DEF CleanupTerm, Signal, CleanupGoes
<1>10. ASSUME NEW t \in Threads, CleanupGrace(t)
       PROVE  QuitInv'
  BY <1>10 DEF CleanupGrace, CleanupGoes, CleanupEnds
<1>11. ASSUME NEW t \in Threads, CleanupKill(t)
       PROVE  QuitInv'
  BY <1>11 DEF CleanupKill, Signal, CleanupEnds
<1>12. ASSUME NEW t \in Threads, CleanupClose(t)
       PROVE  QuitInv'
  BY <1>12 DEF CleanupClose, CleanupEnds
<1>13. ASSUME NEW s \in Streams, Scan(s) \/ ScanTooLong(s) \/ ProcPrint(s)
       PROVE  QuitInv'
  BY <1>13 DEF Scan, ScanFill, ScanLine, ScanEnd, ScanTooLong, ProcPrint
<1>14. CASE ProcFork \/ LeaderExit \/ ChildExit
  BY <1>14 DEF ProcFork, LeaderExit, ChildExit
<1>15. CASE Cancel \/ ServiceStop \/ HostExit
  BY <1>15 DEF Cancel, ServiceStop, HostExit
<1>16. CASE HostLeaves
  BY <1>16 DEF HostLeaves
<1>17. CASE UNCHANGED vars
  BY <1>17 DEF vars
<1> QED
  BY <1>1, <1>2, <1>3, <1>4, <1>5, <1>6, <1>7, <1>8, <1>9, <1>10, <1>11, <1>12, <1>13,
     <1>14, <1>15, <1>16, <1>17 DEF Next, Stop

\* Who is in the job, and that a closed job is empty of the living.
LEMMA JobStep ==
  RunnerCmdTypeOK /\ StopInv /\ JobInv /\ ExecInv /\ [Next]_vars => JobInv'
<1> SUFFICES ASSUME RunnerCmdTypeOK, StopInv, JobInv, ExecInv, [Next]_vars
             PROVE  JobInv'
  OBVIOUS
<1> USE DEF RunnerCmdTypeOK, StopInv, JobInv, ExecInv, Starting, Threads, Streams,
            AfterStop, stopVars, execVars, procVars, scanVars, viewVars, hostVars, historyVars
<1>1. CASE KeeperStart
  BY <1>1 DEF KeeperStart
<1>2. CASE KeeperWatch
  BY <1>2 DEF KeeperWatch, Goto
<1>3. CASE KeeperLinger
  BY <1>3 DEF KeeperLinger, Goto
<1>4. CASE LoopWatch
  BY <1>4 DEF LoopWatch, Goto
<1>5. CASE ExecSpawn
  BY <1>5 DEF ExecSpawn, Goto
<1>6. CASE ExecSpawnFails
  BY <1>6 DEF ExecSpawnFails, Goto
<1>7. CASE ExecPublish
  BY <1>7 DEF ExecPublish, Goto
<1>8. CASE ExecReap
  BY <1>8 DEF ExecReap, Goto
<1>9. CASE ExecReaped
  BY <1>9 DEF ExecReaped, Goto
<1>10. CASE ExecOffline
  BY <1>10 DEF ExecOffline, Goto
<1>11. CASE ExecFinish
  BY <1>11 DEF ExecFinish, Goto
<1>12. CASE ProcFork
  BY <1>12 DEF ProcFork
<1>13. CASE LeaderExit
  BY <1>13 DEF LeaderExit
<1>14. CASE ChildExit
  BY <1>14 DEF ChildExit
<1>15. CASE Cancel
  BY <1>15 DEF Cancel
<1>16. CASE ServiceStop
  BY <1>16 DEF ServiceStop
<1>17. CASE HostExit
  BY <1>17 DEF HostExit
<1>18. ASSUME NEW t \in Threads, StopIdle(t)
       PROVE  JobInv'
  BY <1>18 DEF StopIdle, Goto
<1>19. ASSUME NEW t \in Threads, StopBegin(t)
       PROVE  JobInv'
  BY <1>19 DEF StopBegin, Goto
<1>20. ASSUME NEW t \in Threads, CleanupLook(t)
       PROVE  JobInv'
  BY <1>20 DEF CleanupLook, CleanupGoes, CleanupEnds
<1>21. ASSUME NEW t \in Threads, CleanupTerm(t)
       PROVE  JobInv'
  BY <1>21 DEF CleanupTerm, Signal, CleanupGoes
<1>22. ASSUME NEW t \in Threads, CleanupGrace(t)
       PROVE  JobInv'
  BY <1>22 DEF CleanupGrace, CleanupGoes, CleanupEnds
<1>23. ASSUME NEW t \in Threads, CleanupKill(t)
       PROVE  JobInv'
  BY <1>23 DEF CleanupKill, Signal, CleanupEnds
<1>24. ASSUME NEW s \in Streams, ScanFill(s)
       PROVE  JobInv'
  BY <1>24 DEF ScanFill
<1>25. ASSUME NEW s \in Streams, ScanLine(s)
       PROVE  JobInv'
  BY <1>25 DEF ScanLine
<1>26. ASSUME NEW s \in Streams, ScanEnd(s)
       PROVE  JobInv'
  BY <1>26 DEF ScanEnd
<1>27. ASSUME NEW s \in Streams, ProcPrint(s)
       PROVE  JobInv'
  BY <1>27 DEF ProcPrint
<1>28. CASE UNCHANGED vars
  BY <1>28 DEF vars
<1>29. CASE ExecAssign
  BY <1>29 DEF ExecAssign, Goto
<1>30. CASE ExecAssignFails
  BY <1>30 DEF ExecAssignFails, Goto
<1>31. CASE HostLeaves
  BY <1>31 DEF HostLeaves, CloseJob
<1>32. ASSUME NEW t \in Threads, CleanupClose(t)
       PROVE  JobInv'
  <2>1. /\ mux = t /\ mux' = "free" /\ ~running' /\ platform = "windows" /\ host = "up"
        /\ pc' = [pc EXCEPT ![t] = AfterStop[t]] /\ UNCHANGED <<published, hostVars>>
    BY <1>32 DEF CleanupClose, CleanupEnds
  <2>2. missed' = Starting
    BY <1>32 DEF CleanupClose
  <2>3. /\ jobHandle' = "closed" /\ UNCHANGED inJob
        /\ leader' = IF leader = "running" /\ "leader" \in inJob THEN "zombie" ELSE leader
        /\ child' = IF child = "running" /\ "child" \in inJob THEN "dead" ELSE child
    BY <1>32 DEF CleanupClose, CloseJob
  <2>4. ~Starting /\ leader = "running" => "leader" \in inJob
    BY <2>1
  <2>5. pc["exec"] # "cleanup" => pc'["exec"] = pc["exec"]
    BY <2>1
  <2>6. pc["exec"] = "cleanup" => pc'["exec"] = "drain"
    BY <2>1
  <2>7. Starting' = Starting
    BY <2>5, <2>6
  <2>8. missed' \/ (~Starting' /\ leader' # "running")
    BY <2>2, <2>3, <2>4, <2>7
  <2> QED
    BY <2>1, <2>3, <2>5, <2>6, <2>8
<1>33. ASSUME NEW s \in Streams, ScanTooLong(s)
       PROVE  JobInv'
  BY <1>33 DEF ScanTooLong
<1> QED
  BY <1>1, <1>2, <1>3, <1>4, <1>5, <1>6, <1>7, <1>8, <1>9, <1>10, <1>11, <1>12, <1>13,
     <1>14, <1>15, <1>16, <1>17, <1>18, <1>19, <1>20, <1>21, <1>22, <1>23, <1>24,
     <1>25, <1>26, <1>27, <1>28, <1>29, <1>30, <1>31, <1>32, <1>33
  DEF Next, Stop, Exec, Scan

\* What executeCommand has done so far; the callbacks of the scanners come before
\* scannerWg.Wait() returns.
LEMMA ExecStep ==
  RunnerCmdTypeOK /\ StopInv /\ JobInv /\ ExecInv /\ [Next]_vars => ExecInv'
<1> SUFFICES ASSUME RunnerCmdTypeOK, StopInv, JobInv, ExecInv, [Next]_vars
             PROVE  ExecInv'
  OBVIOUS
<1> USE DEF RunnerCmdTypeOK, StopInv, JobInv, ExecInv, Starting, Threads, Streams,
            AfterStop, stopVars, execVars, procVars, scanVars, viewVars, hostVars, historyVars
<1>1. CASE KeeperStart
  BY <1>1 DEF KeeperStart
<1>2. CASE KeeperWatch
  BY <1>2 DEF KeeperWatch, Goto
<1>3. CASE KeeperLinger
  BY <1>3 DEF KeeperLinger, Goto
<1>4. CASE LoopWatch
  BY <1>4 DEF LoopWatch, Goto
<1>5. CASE ExecSpawn
  BY <1>5 DEF ExecSpawn, Goto
<1>6. CASE ExecSpawnFails
  BY <1>6 DEF ExecSpawnFails, Goto
<1>7. CASE ExecPublish
  BY <1>7 DEF ExecPublish, Goto
<1>8. CASE ExecReap
  BY <1>8 DEF ExecReap, Goto
<1>9. CASE ExecReaped
  BY <1>9 DEF ExecReaped, Goto
<1>10. CASE ExecOffline
  BY <1>10 DEF ExecOffline, Goto
<1>11. CASE ExecFinish
  BY <1>11 DEF ExecFinish, Goto
<1>12. CASE ProcFork
  BY <1>12 DEF ProcFork
<1>13. CASE LeaderExit
  BY <1>13 DEF LeaderExit
<1>14. CASE ChildExit
  BY <1>14 DEF ChildExit
<1>15. CASE Cancel
  BY <1>15 DEF Cancel
<1>16. CASE ServiceStop
  BY <1>16 DEF ServiceStop
<1>17. CASE HostExit
  BY <1>17 DEF HostExit
<1>18. ASSUME NEW t \in Threads, StopIdle(t)
       PROVE  ExecInv'
  BY <1>18 DEF StopIdle, Goto
<1>19. ASSUME NEW t \in Threads, StopBegin(t)
       PROVE  ExecInv'
  BY <1>19 DEF StopBegin, Goto
<1>20. ASSUME NEW t \in Threads, CleanupLook(t)
       PROVE  ExecInv'
  BY <1>20 DEF CleanupLook, CleanupGoes, CleanupEnds
<1>21. ASSUME NEW t \in Threads, CleanupTerm(t)
       PROVE  ExecInv'
  BY <1>21 DEF CleanupTerm, Signal, CleanupGoes
<1>22. ASSUME NEW t \in Threads, CleanupGrace(t)
       PROVE  ExecInv'
  BY <1>22 DEF CleanupGrace, CleanupGoes, CleanupEnds
<1>23. ASSUME NEW t \in Threads, CleanupKill(t)
       PROVE  ExecInv'
  BY <1>23 DEF CleanupKill, Signal, CleanupEnds
<1>24. ASSUME NEW s \in Streams, ScanFill(s)
       PROVE  ExecInv'
  BY <1>24 DEF ScanFill
<1>25. ASSUME NEW s \in Streams, ScanLine(s)
       PROVE  ExecInv'
  <2>1. scanner[s] = "reading" /\ buf' = [buf EXCEPT ![s] = Tail(@)]
    BY <1>25 DEF ScanLine
  <2>2. \A u \in Streams : scanner'[u] # "reading" => buf'[u] = <<>>
    BY <1>25, <2>1 DEF ScanLine
  <2>3. pc["exec"] \notin {"finish", "exited"} /\ UNCHANGED <<pc, jobFinished>>
    BY <1>25 DEF ScanLine
  <2>4. UNCHANGED <<scanner, readEnd, stopVars, execVars, procVars, hostVars, historyVars>>
    BY <1>25 DEF ScanLine
  <2> QED
    BY <2>2, <2>3, <2>4
<1>26. ASSUME NEW s \in Streams, ScanEnd(s)
       PROVE  ExecInv'
  BY <1>26 DEF ScanEnd
<1>27. ASSUME NEW s \in Streams, ProcPrint(s)
       PROVE  ExecInv'
  BY <1>27 DEF ProcPrint
<1>28. CASE UNCHANGED vars
  BY <1>28 DEF vars
<1>29. CASE ExecAssign
  BY <1>29 DEF ExecAssign, Goto
<1>30. CASE ExecAssignFails
  BY <1>30 DEF ExecAssignFails, Goto
<1>31. CASE HostLeaves
  BY <1>31 DEF HostLeaves, CloseJob
<1>32. ASSUME NEW t \in Threads, CleanupClose(t)
       PROVE  ExecInv'
  BY <1>32 DEF CleanupClose, CloseJob, CleanupEnds
<1>33. ASSUME NEW s \in Streams, ScanTooLong(s)
       PROVE  ExecInv'
  BY <1>33 DEF ScanTooLong
<1> QED
  BY <1>1, <1>2, <1>3, <1>4, <1>5, <1>6, <1>7, <1>8, <1>9, <1>10, <1>11, <1>12, <1>13,
     <1>14, <1>15, <1>16, <1>17, <1>18, <1>19, <1>20, <1>21, <1>22, <1>23, <1>24,
     <1>25, <1>26, <1>27, <1>28, <1>29, <1>30, <1>31, <1>32, <1>33
  DEF Next, Stop, Exec, Scan

\* Initially nothing runs and nothing was reported.
LEMMA RunnerCmdInit == Init => RunnerCmdInv
<1> SUFFICES ASSUME Init
             PROVE  RunnerCmdInv
  OBVIOUS
<1> USE DEF Init, Threads, Streams, Lines
<1>1. /\ pc \in [Threads -> {"off", "start"}] /\ mux = "free"
      /\ pc["keeper"] = "start" /\ pc["loop"] = "off" /\ pc["exec"] = "off"
      /\ \A t \in Threads : pc[t] # "cleanup"
  OBVIOUS
<1>2. pipe \in [Streams -> Seq(Lines)] /\ buf \in [Streams -> Seq(Lines)]
  OBVIOUS
<1>3. scanner \in [Streams -> {"off", "reading", "ended"}]
  OBVIOUS
<1>4. /\ running = FALSE /\ rdone = TRUE /\ published = FALSE /\ exited = FALSE
      /\ alive = FALSE /\ jobStarted = FALSE /\ jobFinished = FALSE
      /\ ctxDone = FALSE /\ sdone = FALSE /\ missed = FALSE /\ stray = FALSE
  OBVIOUS
<1>5. /\ cleanup = "none" /\ leader = "none" /\ child = "none" /\ said = "nothing"
      /\ readEnd = "open" /\ host = "up" /\ jobHandle = "none" /\ inJob = {}
      /\ platform \in {"nix", "windows"}
  OBVIOUS
<1>6. RunnerCmdTypeOK
  BY <1>1, <1>2, <1>3, <1>4, <1>5 DEF RunnerCmdTypeOK
<1>7. StopInv
  BY <1>1, <1>4, <1>5 DEF StopInv
<1>8. ExecInv
  BY <1>1, <1>4, <1>5 DEF ExecInv
<1>9. JobInv
  BY <1>1, <1>4, <1>5 DEF JobInv
<1>10. QuitInv
  BY <1>1, <1>4 DEF QuitInv
<1> QED
  BY <1>6, <1>7, <1>8, <1>9, <1>10 DEF RunnerCmdInv

\* The parts of the invariant support one another.
LEMMA RunnerCmdStep == RunnerCmdInv /\ [Next]_vars => RunnerCmdInv'
  BY TypeStep, StopStep, QuitStep, JobStep, ExecStep DEF RunnerCmdInv

\* RunnerCmdInv holds in every reachable state: what Stop() and executeCommand
\* rely on in each other (runner.go:145-166, 168-280).
THEOREM RunnerCmdInvariant == Spec => []RunnerCmdInv
<1> QED
  BY RunnerCmdInit, RunnerCmdStep, PTL DEF Spec

\* The agent exits only with the leader of the process group dead, and on Windows
\* the processes of its job, unless Stop() looked while startCommand was still under
\* way (exec_nix.go:66-115, exec_windows.go:69-115).
THEOREM AlwaysTornDown == Spec => []TornDown
<1>1. RunnerCmdInv => TornDown
  BY DEF RunnerCmdInv, RunnerCmdTypeOK, StopInv, JobInv, TornDown
<1> QED
  BY <1>1, RunnerCmdInvariant, PTL

\* scannerWg.Wait() returns when both scanners have ended, and a scanner ends with
\* an empty buffer.
THEOREM DeliversWhatWasRead == Spec => []LinesBeforeOffline
<1>1. RunnerCmdInv => LinesBeforeOffline
  BY DEF RunnerCmdInv, ExecInv, LinesBeforeOffline
<1> QED
  BY <1>1, RunnerCmdInvariant, PTL

\* A signal that goes to a free process ID is one of keepRunnerAlive's or loop's own
\* clean-up, and they begin one only when the agent is to stop (exec_nix.go:77-85,
\* runner.go:145-166).
THEOREM NoStrayInService == Spec => []StrayOnlyInShutdown
<1>1. RunnerCmdInv => StrayOnlyInShutdown
  BY DEF RunnerCmdInv, QuitInv, StrayOnlyInShutdown
<1> QED
  BY <1>1, RunnerCmdInvariant, PTL

\* Every step is a step of the abstract run or none: the reports come while
\* the abstract run is running, because executeCommand waits for the scanners.
LEMMA RunSessionStep == RunnerCmdInv /\ [Next]_vars => [R!Next]_(R!svars)
<1> SUFFICES ASSUME RunnerCmdInv, [Next]_vars
             PROVE  [R!Next]_(R!svars)
  OBVIOUS
<1> USE DEF RunnerCmdInv, RunnerCmdTypeOK, StopInv, ExecInv, Threads, Streams, AfterStop,
            stopVars, execVars, procVars, scanVars, viewVars, hostVars, historyVars,
            R!svars
<1>1. CASE KeeperStart
  BY <1>1 DEF KeeperStart
<1>2. CASE KeeperWatch
  BY <1>2 DEF KeeperWatch, Goto
<1>3. CASE KeeperLinger
  BY <1>3 DEF KeeperLinger, Goto
<1>4. CASE LoopWatch
  BY <1>4 DEF LoopWatch, Goto
<1>5. CASE ExecSpawn
  BY <1>5 DEF ExecSpawn, Goto
<1>6. CASE ExecSpawnFails
  BY <1>6 DEF ExecSpawnFails, Goto
<1>7. CASE ExecPublish
  BY <1>7 DEF ExecPublish, Goto
<1>8. CASE ExecReap
  BY <1>8 DEF ExecReap, Goto
<1>9. CASE ExecReaped
  BY <1>9 DEF ExecReaped, Goto
<1>10. CASE ExecOffline
  BY <1>10 DEF ExecOffline, Goto, R!Next, R!ReportOffline
<1>11. CASE ExecFinish
  BY <1>11 DEF ExecFinish, Goto, R!Next, R!End
<1>12. CASE ProcFork
  BY <1>12 DEF ProcFork
<1>13. CASE LeaderExit
  BY <1>13 DEF LeaderExit
<1>14. CASE ChildExit
  BY <1>14 DEF ChildExit
<1>15. CASE Cancel
  BY <1>15 DEF Cancel
<1>16. CASE ServiceStop
  BY <1>16 DEF ServiceStop
<1>17. CASE HostExit
  BY <1>17 DEF HostExit
<1>18. ASSUME NEW t \in Threads, StopIdle(t)
       PROVE  [R!Next]_(R!svars)
  BY <1>18 DEF StopIdle, Goto
<1>19. ASSUME NEW t \in Threads, StopBegin(t)
       PROVE  [R!Next]_(R!svars)
  BY <1>19 DEF StopBegin, Goto
<1>20. ASSUME NEW t \in Threads, CleanupLook(t)
       PROVE  [R!Next]_(R!svars)
  BY <1>20 DEF CleanupLook, CleanupGoes, CleanupEnds
<1>21. ASSUME NEW t \in Threads, CleanupTerm(t)
       PROVE  [R!Next]_(R!svars)
  BY <1>21 DEF CleanupTerm, Signal, CleanupGoes
<1>22. ASSUME NEW t \in Threads, CleanupGrace(t)
       PROVE  [R!Next]_(R!svars)
  BY <1>22 DEF CleanupGrace, CleanupGoes, CleanupEnds
<1>23. ASSUME NEW t \in Threads, CleanupKill(t)
       PROVE  [R!Next]_(R!svars)
  BY <1>23 DEF CleanupKill, Signal, CleanupEnds
<1>24. ASSUME NEW s \in Streams, ScanFill(s)
       PROVE  [R!Next]_(R!svars)
  BY <1>24 DEF ScanFill
<1>25. ASSUME NEW s \in Streams, ScanLine(s)
       PROVE  [R!Next]_(R!svars)
  <2>1. pc["exec"] \notin {"finish", "exited"} /\ UNCHANGED <<pc, jobFinished>>
    BY <1>25 DEF ScanLine
  <2>2. \/ jobStarted' = TRUE /\ UNCHANGED alive
        \/ alive' = TRUE /\ UNCHANGED jobStarted
    BY <1>25 DEF ScanLine
  <2> QED
    BY <2>1, <2>2 DEF R!Next, R!ReportIdle, R!ReportJob
<1>26. ASSUME NEW s \in Streams, ScanEnd(s)
       PROVE  [R!Next]_(R!svars)
  BY <1>26 DEF ScanEnd
<1>27. ASSUME NEW s \in Streams, ProcPrint(s)
       PROVE  [R!Next]_(R!svars)
  BY <1>27 DEF ProcPrint
<1>28. CASE UNCHANGED vars
  BY <1>28 DEF vars
<1>29. CASE ExecAssign
  BY <1>29 DEF ExecAssign, Goto
<1>30. CASE ExecAssignFails
  BY <1>30 DEF ExecAssignFails, Goto
<1>31. CASE HostLeaves
  BY <1>31 DEF HostLeaves, CloseJob
<1>32. ASSUME NEW t \in Threads, CleanupClose(t)
       PROVE  [R!Next]_(R!svars)
  BY <1>32 DEF CleanupClose, CloseJob, CleanupEnds
<1>33. ASSUME NEW s \in Streams, ScanTooLong(s)
       PROVE  [R!Next]_(R!svars)
  BY <1>33 DEF ScanTooLong
<1> QED
  BY <1>1, <1>2, <1>3, <1>4, <1>5, <1>6, <1>7, <1>8, <1>9, <1>10, <1>11, <1>12,
     <1>13, <1>14, <1>15, <1>16, <1>17, <1>18, <1>19, <1>20, <1>21, <1>22, <1>23,
     <1>24, <1>25, <1>26, <1>27, <1>28, <1>29, <1>30, <1>31, <1>32, <1>33
  DEF Next, Stop, Exec, Scan

\* The service hears of a run what RunSession allows: nothing after "offline", and
\* "job finished" exactly for a job that was reported (runner.go:175-197).
THEOREM RefinesRunSession == Spec => ImplementsRunSession
<1>1. Init => R!Init
  BY DEF Init, R!Init, Threads
<1> QED
  BY <1>1, RunSessionStep, RunnerCmdInvariant, PTL DEF Spec, ImplementsRunSession, R!Spec
=============================================================================
