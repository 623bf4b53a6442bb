--------------------------- MODULE LifecycleProofs ---------------------------
(***************************************************************************)
(* Theorems about Lifecycle for every bound on crashes, failures and       *)
(* retries: the inductive invariant LifecycleInv (types, RunInv, PipeInv,  *)
(* ReportInv), the safety properties that follow from it, and that the     *)
(* agent implements OneJob.                                                *)
(***************************************************************************)
EXTENDS Lifecycle, SequenceTheorems, TLAPS

\* Every step keeps the types; the retry counter needs RunInv, because the start
\* that increments it relies on the check made before the state was read.
LEMMA TypeStep == LifecycleTypeOK /\ RunInv /\ [Next]_vars => LifecycleTypeOK'
<1> SUFFICES ASSUME LifecycleTypeOK, RunInv, [Next]_vars
             PROVE  LifecycleTypeOK'
  OBVIOUS
<1> USE LifecycleAssumption
    DEF LifecycleTypeOK, dbVars, keeperVars, runVars, procVars, loopVars, linkVars,
        Lines, RunnerStatus, Send, DetermineRunnerState, Fail
<1>1. CASE KeeperReadAlive
  BY <1>1 DEF KeeperReadAlive
<1>2. CASE KeeperCreate
  <2>1. cmdSet' \in BOOLEAN
    BY <1>2 DEF KeeperCreate
  <2>2. fails' \in 0 .. MaxFails
    BY <1>2 DEF KeeperCreate
  <2>3. kpc' \in {"create", "start", "gone"} /\ kSeen' = "unread"
    BY <1>2 DEF KeeperCreate, Read
  <2>4. UNCHANGED <<dbVars, garm, alive, retryCount, runVars, procVars, loopVars,
                    linkVars, crashes>>
    BY <1>2 DEF KeeperCreate
  <2> QED
    BY <2>1, <2>2, <2>3, <2>4
<1>3. CASE KeeperGiveUp
  BY <1>3 DEF KeeperGiveUp
<1>4. CASE KeeperStart
  <2>1. retryCount' \in 0 .. MaxRetries + 1
    <3>1. retryCount \in 0 .. MaxRetries
      BY <1>4 DEF KeeperStart, Read, RunInv, RetriesExhausted
    <3> QED
      BY <1>4, <3>1 DEF KeeperStart
  <2>2. fails' \in 0 .. MaxFails
    BY <1>4 DEF KeeperStart
  <2>3. kpc' \in {"gone", "failed", "watch"} /\ kSeen' = "unread"
        /\ run' \in {run, "spawn"}
    BY <1>4 DEF KeeperStart, Read
  <2>4. UNCHANGED <<dbVars, garm, alive, cmdSet, sawJob, procVars, loopVars, linkVars,
                    crashes>>
    BY <1>4 DEF KeeperStart
  <2> QED
    BY <2>1, <2>2, <2>3, <2>4
<1>5. CASE KeeperFailed
  BY <1>5 DEF KeeperFailed, Read
<1>6. CASE KeeperSleep
  BY <1>6 DEF KeeperSleep
<1>7. CASE KeeperWatch
  BY <1>7 DEF KeeperWatch
<1>8. CASE KeeperEnded
  BY <1>8 DEF KeeperEnded, Read
<1>9. CASE RunSpawn
  BY <1>9 DEF RunSpawn
<1>10. CASE RunReaped
  BY <1>10 DEF RunReaped
<1>11. CASE RunListening
  BY <1>11 DEF RunListening
<1>12. CASE RunJobLine
  <2>1. jobStarted' \in BOOLEAN
    BY <1>12 DEF RunJobLine, RecordStarted
  <2>2. writeFaults' \in 0 .. MaxWriteFaults
    BY <1>12 DEF RunJobLine, RecordStarted
  <2>3. sawJob' = TRUE /\ UNCHANGED jobFinished
    BY <1>12 DEF RunJobLine, RecordStarted
  <2>4. pipe' \in Seq(Lines)
    BY <1>12 DEF RunJobLine
  <2>5. garm' \in RunnerStatus \union {"none"}
    BY <1>12 DEF RunJobLine
  <2>6. UNCHANGED <<alive, keeperVars, run, proc, loopVars, linkVars, fails, crashes>>
    BY <1>12 DEF RunJobLine
  <2> QED
    BY <2>1, <2>2, <2>3, <2>4, <2>5, <2>6
<1>13. CASE RunOffline
  <2>1. alive' \in BOOLEAN /\ run' = "finish"
    BY <1>13 DEF RunOffline
  <2>2. garm' \in RunnerStatus \union {"none"}
    BY <1>13 DEF RunOffline
  <2>3. UNCHANGED <<dbVars, keeperVars, sawJob, procVars, loopVars, linkVars, fails,
                    crashes>>
    BY <1>13 DEF RunOffline
  <2> QED
    BY <2>1, <2>2, <2>3
<1>14. CASE RunFinish
  <2>1. jobFinished' \in BOOLEAN
    BY <1>14 DEF RunFinish, RecordFinished
  <2>2. writeFaults' \in 0 .. MaxWriteFaults
    BY <1>14 DEF RunFinish, RecordFinished
  <2>3. sawJob' \in BOOLEAN /\ UNCHANGED jobStarted
    BY <1>14 DEF RunFinish, RecordFinished
  <2>4. garm' \in RunnerStatus \union {"none"}
    BY <1>14 DEF RunFinish
  <2>5. run' = "none"
        /\ UNCHANGED <<alive, keeperVars, procVars, loopVars, linkVars, fails, crashes>>
    BY <1>14 DEF RunFinish
  <2> QED
    BY <2>1, <2>2, <2>3, <2>4, <2>5
<1>15. CASE ProcListen
  BY <1>15 DEF ProcListen
<1>16. CASE ProcJob
  BY <1>16 DEF ProcJob
<1>17. CASE ProcExit
  BY <1>17 DEF ProcExit
<1>18. CASE Connect
  BY <1>18 DEF Connect
<1>19. CASE Break
  BY <1>19 DEF Break
<1>20. CASE LoopWake
  BY <1>20 DEF LoopWake
<1>21. CASE LoopSnapshot
  BY <1>21 DEF LoopSnapshot
<1>22. CASE LoopStatus
  BY <1>22 DEF LoopStatus
<1>23. CASE LoopSend
  BY <1>23 DEF LoopSend
<1>24. CASE LoopDown
  BY <1>24 DEF LoopDown
<1>25. CASE Crash
  <2>1. alive' = FALSE /\ cmdSet' = FALSE /\ sawJob' = FALSE /\ lAlive' = FALSE
    BY <1>25 DEF Crash
  <2>2. crashes' \in 0 .. MaxCrashes /\ retryCount' \in 0 .. MaxRetries + 1
    BY <1>25 DEF Crash
  <2>3. /\ kpc' = "create" /\ kSeen' = "unread" /\ run' = "none" /\ proc' = "off"
        /\ link' = "down" /\ lpc' = "off" /\ lStatus' = "offline"
    BY <1>25 DEF Crash
  <2>4. pipe' \in Seq(Lines)
    BY <1>25 DEF Crash
  <2>5. UNCHANGED <<dbVars, garm, breaks, fails>>
    BY <1>25 DEF Crash
  <2> QED
    BY <2>1, <2>2, <2>3, <2>4, <2>5
<1>26. CASE UNCHANGED vars
  BY <1>26 DEF vars
<1> QED
  BY <1>1, <1>2, <1>3, <1>4, <1>5, <1>6, <1>7, <1>8, <1>9, <1>10, <1>11, <1>12,
     <1>13, <1>14, <1>15, <1>16, <1>17, <1>18, <1>19, <1>20, <1>21, <1>22, <1>23,
     <1>24, <1>25, <1>26 DEF Next, Keeper, Run, Loop

\* Every step keeps the hold of a run on the keeper and on the record.
LEMMA RunStep == LifecycleTypeOK /\ RunInv /\ [Next]_vars => RunInv'
<1> SUFFICES ASSUME LifecycleTypeOK, RunInv, [Next]_vars
             PROVE  RunInv'
  OBVIOUS
<1> USE DEF LifecycleTypeOK, RunInv, RetriesExhausted, dbVars, keeperVars, runVars,
            procVars, loopVars, linkVars
<1>1. CASE KeeperReadAlive
  BY <1>1 DEF KeeperReadAlive
<1>2. CASE KeeperCreate
  BY <1>2 DEF KeeperCreate, Read
<1>3. CASE KeeperGiveUp
  BY <1>3 DEF KeeperGiveUp
<1>4. CASE KeeperStart
  BY <1>4 DEF KeeperStart, Read, KeeperState, DetermineRunnerState
<1>5. CASE KeeperFailed
  BY <1>5 DEF KeeperFailed, Read
<1>6. CASE KeeperSleep
  BY <1>6 DEF KeeperSleep
<1>7. CASE KeeperWatch
  BY <1>7 DEF KeeperWatch
<1>8. CASE KeeperEnded
  BY <1>8 DEF KeeperEnded, Read
<1>9. CASE RunSpawn
  BY <1>9 DEF RunSpawn
<1>10. CASE RunReaped
  BY <1>10 DEF RunReaped
<1>11. CASE RunListening
  BY <1>11 DEF RunListening
<1>12. CASE RunJobLine
  BY <1>12 DEF RunJobLine, RecordStarted
<1>13. CASE RunOffline
  BY <1>13 DEF RunOffline
<1>14. CASE RunFinish
  BY <1>14 DEF RunFinish, RecordFinished
<1>15. CASE ProcListen
  BY <1>15 DEF ProcListen
<1>16. CASE ProcJob
  BY <1>16 DEF ProcJob
<1>17. CASE ProcExit
  BY <1>17 DEF ProcExit
<1>18. CASE Connect
  BY <1>18 DEF Connect
<1>19. CASE Break
  BY <1>19 DEF Break
<1>20. CASE LoopWake
  BY <1>20 DEF LoopWake
<1>21. CASE LoopSnapshot
  BY <1>21 DEF LoopSnapshot
<1>22. CASE LoopStatus
  BY <1>22 DEF LoopStatus
<1>23. CASE LoopSend
  BY <1>23 DEF LoopSend
<1>24. CASE LoopDown
  BY <1>24 DEF LoopDown
<1>25. CASE Crash
  BY <1>25 DEF Crash
<1>26. CASE UNCHANGED vars
  BY <1>26 DEF vars
<1> QED
  BY <1>1, <1>2, <1>3, <1>4, <1>5, <1>6, <1>7, <1>8, <1>9, <1>10, <1>11, <1>12, <1>13, <1>14, <1>15, <1>16, <1>17, <1>18, <1>19, <1>20, <1>21, <1>22, <1>23, <1>24, <1>25, <1>26 DEF Next, Keeper, Run, Loop

\* Every step keeps the output in the order in which the runner writes it.
LEMMA PipeStep == LifecycleTypeOK /\ RunInv /\ PipeInv /\ [Next]_vars => PipeInv'
<1> SUFFICES ASSUME LifecycleTypeOK, RunInv, PipeInv, [Next]_vars
             PROVE  PipeInv'
  OBVIOUS
<1> USE DEF LifecycleTypeOK, RunInv, PipeInv, Lines, dbVars, keeperVars, runVars,
            procVars, loopVars, linkVars
<1>1. CASE Keeper
  <2>1. CASE KeeperStart
    BY <2>1 DEF KeeperStart, Read
  <2>2. CASE UNCHANGED <<run, pipe, proc, jobStarted>>
    BY <2>2
  <2> QED
    BY <1>1, <2>1, <2>2 DEF Keeper, KeeperReadAlive, KeeperCreate, KeeperGiveUp,
       KeeperFailed, KeeperSleep, KeeperWatch, KeeperEnded
<1>2. CASE RunSpawn
  BY <1>2 DEF RunSpawn
<1>3. CASE RunReaped
  <2>1. PICK n \in 0 .. Len(pipe) : pipe' = SubSeq(pipe, 1, n)
    BY <1>3 DEF RunReaped
  <2>2. \A i \in 1 .. n : pipe[i] \in Lines
    OBVIOUS
  <2>3. Len(pipe') = n /\ \A k \in 1 .. n : pipe'[k] = pipe[k]
    BY <2>1, <2>2, SubSeqProperties
  <2>4. pipe' \in Seq(Lines)
    BY <2>1, <2>2, SubSeqProperties
  <2>5. pipe = <<>> => pipe' = <<>>
    BY <2>3, <2>4
  <2> QED
    BY <1>3, <2>3, <2>4, <2>5 DEF RunReaped
<1>4. CASE RunListening
  <2>1. ~jobStarted
    BY <1>4 DEF RunListening
  <2>2. pipe' \in Seq(Lines) /\ Len(pipe') = Len(pipe) - 1
        /\ \A k \in 1 .. Len(pipe') : pipe'[k] = pipe[k + 1]
    BY <1>4, HeadTailProperties DEF RunListening
  <2> QED
    BY <1>4, <2>1, <2>2 DEF RunListening
<1>5. CASE RunJobLine
  <2>1. Len(pipe) = 1 /\ proc \notin {"boot", "idle"}
    <3>1. 1 \in DOMAIN pipe /\ pipe[1] = "job" /\ pipe # <<>>
      BY <1>5 DEF RunJobLine
    <3> QED
      BY <3>1
  <2>2. pipe' = <<>>
    BY <1>5, <2>1 DEF RunJobLine
  <2> QED
    BY <1>5, <2>1, <2>2 DEF RunJobLine
<1>6. CASE RunOffline \/ RunFinish
  BY <1>6 DEF RunOffline, RunFinish, RecordFinished
<1>7. CASE ProcListen
  BY <1>7 DEF ProcListen
<1>8. CASE ProcJob
  <2>1. pipe' \in Seq(Lines) /\ Len(pipe') = Len(pipe) + 1
        /\ pipe'[Len(pipe')] = "job" /\ \A k \in 1 .. Len(pipe) : pipe'[k] = pipe[k]
    BY <1>8, AppendProperties DEF ProcJob
  <2>2. proc = "idle" /\ proc' = "busy" /\ UNCHANGED <<run, jobStarted>>
    BY <1>8 DEF ProcJob
  <2> QED
    BY <2>1, <2>2
<1>9. CASE ProcExit
  BY <1>9 DEF ProcExit
<1>10. CASE Loop \/ Connect \/ Break
  BY <1>10 DEF Loop, LoopWake, LoopSnapshot, LoopStatus, LoopSend, LoopDown, Connect,
     Break
<1>11. CASE Crash
  BY <1>11 DEF Crash
<1>12. CASE UNCHANGED vars
  BY <1>12 DEF vars
<1> QED
  BY <1>1, <1>2, <1>3, <1>4, <1>5, <1>6, <1>7, <1>8, <1>9, <1>10, <1>11, <1>12
     DEF Next, Run

\* Every step keeps each report, sent or about to be sent, backed by the record.
LEMMA ReportStep == LifecycleTypeOK /\ RunInv /\ ReportInv /\ [Next]_vars => ReportInv'
<1> SUFFICES ASSUME LifecycleTypeOK, RunInv, ReportInv, [Next]_vars
             PROVE  ReportInv'
  OBVIOUS
<1> USE LifecycleAssumption
    DEF LifecycleTypeOK, RunInv, ReportInv, dbVars, keeperVars, runVars, procVars,
        loopVars, linkVars
<1>1. CASE KeeperReadAlive
  BY <1>1 DEF KeeperReadAlive
<1>2. CASE KeeperCreate
  BY <1>2 DEF KeeperCreate
<1>3. CASE KeeperGiveUp
  BY <1>3 DEF KeeperGiveUp
<1>4. CASE KeeperStart
  BY <1>4 DEF KeeperStart
<1>5. CASE KeeperFailed
  BY <1>5 DEF KeeperFailed, Send
<1>6. CASE KeeperSleep
  BY <1>6 DEF KeeperSleep
<1>7. CASE KeeperWatch
  BY <1>7 DEF KeeperWatch
<1>8. CASE KeeperEnded
  BY <1>8 DEF KeeperEnded
<1>9. CASE RunSpawn
  BY <1>9 DEF RunSpawn
<1>10. CASE RunReaped
  BY <1>10 DEF RunReaped
<1>11. CASE RunListening
  BY <1>11 DEF RunListening, Send, DetermineRunnerState
<1>12. CASE RunJobLine
  BY <1>12 DEF RunJobLine, RecordStarted, Send
<1>13. CASE RunOffline
  BY <1>13 DEF RunOffline, Send, DetermineRunnerState
<1>14. CASE RunFinish
  BY <1>14 DEF RunFinish, RecordFinished, Send
<1>15. CASE ProcListen
  BY <1>15 DEF ProcListen
<1>16. CASE ProcJob
  BY <1>16 DEF ProcJob
<1>17. CASE ProcExit
  BY <1>17 DEF ProcExit
<1>18. CASE Connect
  BY <1>18 DEF Connect
<1>19. CASE Break
  BY <1>19 DEF Break
<1>20. CASE LoopWake
  BY <1>20 DEF LoopWake
<1>21. CASE LoopSnapshot
  BY <1>21 DEF LoopSnapshot
<1>22. CASE LoopStatus
  BY <1>22 DEF LoopStatus, DetermineRunnerState
<1>23. CASE LoopSend
  BY <1>23 DEF LoopSend, Send, DetermineRunnerState
<1>24. CASE LoopDown
  BY <1>24 DEF LoopDown
<1>25. CASE Crash
  BY <1>25 DEF Crash
<1>26. CASE UNCHANGED vars
  BY <1>26 DEF vars
<1> QED
  BY <1>1, <1>2, <1>3, <1>4, <1>5, <1>6, <1>7, <1>8, <1>9, <1>10, <1>11, <1>12, <1>13, <1>14, <1>15, <1>16, <1>17, <1>18, <1>19, <1>20, <1>21, <1>22, <1>23, <1>24, <1>25, <1>26 DEF Next, Keeper, Run, Loop

\* The four parts together are inductive.
LEMMA LifecycleStep == LifecycleInv /\ [Next]_vars => LifecycleInv'
  BY TypeStep, RunStep, PipeStep, ReportStep DEF LifecycleInv

\* A fresh agent with an empty record satisfies the invariant.
LEMMA LifecycleInit == Init => LifecycleInv
<1> SUFFICES ASSUME Init
             PROVE  LifecycleInv
  OBVIOUS
<1> USE LifecycleAssumption DEF Init
<1>1. LifecycleTypeOK
  <2>1. /\ fails \in 0 .. MaxFails /\ crashes \in 0 .. MaxCrashes
        /\ breaks \in 0 .. MaxBreaks /\ writeFaults \in 0 .. MaxWriteFaults
        /\ retryCount \in 0 .. MaxRetries + 1
    OBVIOUS
  <2>2. /\ jobStarted \in BOOLEAN /\ jobFinished \in BOOLEAN /\ alive \in BOOLEAN
        /\ cmdSet \in BOOLEAN /\ sawJob \in BOOLEAN /\ lAlive \in BOOLEAN
    OBVIOUS
  <2> QED
    BY <2>1, <2>2 DEF LifecycleTypeOK, Lines, RunnerStatus
<1>2. RunInv
  BY DEF RunInv
<1>3. PipeInv
  BY DEF PipeInv
<1>4. ReportInv
  BY DEF ReportInv
<1> QED
  BY <1>1, <1>2, <1>3, <1>4 DEF LifecycleInv

\* The types, the run's hold on the keeper, and the backing of every report, hold
\* in every reachable state.
THEOREM LifecycleInvariant == Spec => []LifecycleInv
  BY LifecycleInit, LifecycleStep, PTL DEF Spec

\* The variables keep their types, and the counters their bounds.
THEOREM LifecycleTyped == Spec => []LifecycleTypeOK
<1>1. LifecycleInv => LifecycleTypeOK
  BY DEF LifecycleInv
<1> QED
  BY <1>1, LifecycleInvariant, PTL

\* A runner process runs only while keepRunnerAlive waits for its end.
THEOREM KeeperAlwaysWatches == Spec => []KeeperWatchesProcess
<1>1. LifecycleInv => KeeperWatchesProcess
  BY DEF LifecycleInv, RunInv, KeeperWatchesProcess
<1> QED
  BY <1>1, LifecycleInvariant, PTL

\* GARM is told "terminated" only with a job on record, or a failed write.
THEOREM NeverFalselyTerminated == Spec => []NoFalseTermination
<1>1. LifecycleInv => NoFalseTermination
  BY DEF LifecycleInv, ReportInv, NoFalseTermination
<1> QED
  BY <1>1, LifecycleInvariant, PTL

\* RunnerFailed reaches GARM only about an untouched runner that is down: the
\* run is over while the keeper is at "failed", and "offline" excludes a job.
THEOREM FailedIsUntouched == Spec => FailedOnlyUntouched
<1>1. ASSUME LifecycleInv, [Next]_vars, garm' = "failed", garm # "failed"
      PROVE  proc = "off" /\ ~jobStarted /\ ~jobFinished
  <2> USE <1>1 DEF LifecycleInv
  <2>1. KeeperFailed
    <3>1. ~Send("active") /\ ~Send("terminated") /\ ~Send(lStatus)
          /\ \A u \in BOOLEAN : ~Send(DetermineRunnerState(u))
      BY DEF Send, DetermineRunnerState, ReportInv
    <3>2. ~UNCHANGED garm
      OBVIOUS
    <3> QED
      BY <3>1, <3>2 DEF Next, Keeper, KeeperReadAlive, KeeperCreate, KeeperGiveUp,
         KeeperStart, KeeperSleep, KeeperWatch, KeeperEnded, Run, RunSpawn, RunReaped,
         RunListening, RunJobLine, RunOffline, RunFinish, ProcListen, ProcJob, ProcExit,
         Loop, LoopWake, LoopSnapshot, LoopStatus, LoopSend, LoopDown, Connect, Break,
         Crash, vars
  <2> QED
    BY <2>1 DEF KeeperFailed, Read, RunInv, KeeperState, DetermineRunnerState
<1> QED
  BY <1>1, LifecycleInvariant, PTL DEF Spec, FailedOnlyUntouched

\* GARM's view of the job goes back only through a late report of loop(), or after
\* a failed write.  SetRunnerStarted and SetJobStarted answer to a line that comes
\* before the job is on record (PipeInv), keepRunnerAlive reports a failure of an
\* untouched runner only, and SetRunnerStarted(false) of a run with a job says
\* "terminated".
THEOREM DemotionsAreLate == Spec => DemotedOnlyByLoop
<1>1. ASSUME LifecycleInv, [Next]_vars, Progress(garm') < Progress(garm)
      PROVE  lpc = "send" \/ writeFaults > 0
  <2> SUFFICES ASSUME writeFaults = 0
               PROVE  lpc = "send"
    BY <1>1, LifecycleAssumption DEF LifecycleInv, LifecycleTypeOK
  <2>1. garm' # garm /\ garm \in {"active", "terminated"} /\ garm' # "terminated"
    BY <1>1 DEF Progress, LifecycleInv, LifecycleTypeOK, RunnerStatus
  <2>2. jobStarted \/ jobFinished
    BY <1>1, <2>1 DEF LifecycleInv, ReportInv
  <2> USE DEF LifecycleInv, RunInv, PipeInv
  <2>3. ~KeeperFailed
    BY <1>1, <2>1, <2>2 DEF KeeperFailed, KeeperState, DetermineRunnerState
  <2>4. ~RunListening
    BY <1>1, <2>2 DEF RunListening
  <2>5. ~RunJobLine
    BY <1>1, <2>2 DEF RunJobLine
  <2>6. ~RunOffline
    BY <1>1, <2>1, <2>2 DEF RunOffline, Send, DetermineRunnerState
  <2>7. ~RunFinish
    BY <1>1, <2>1 DEF RunFinish, Send
  <2> QED
    BY <1>1, <2>1, <2>3, <2>4, <2>5, <2>6, <2>7 DEF Next, Keeper, KeeperReadAlive,
       KeeperCreate, KeeperGiveUp, KeeperStart, KeeperSleep, KeeperWatch, KeeperEnded,
       Run, RunSpawn, RunReaped, ProcListen, ProcJob, ProcExit, Loop, LoopWake,
       LoopSnapshot, LoopStatus, LoopSend, LoopDown, Connect, Break, Crash, vars
<1> QED
  BY <1>1, LifecycleInvariant, PTL DEF Spec, DemotedOnlyByLoop

\* Every step of the agent and of its runner is a step of OneJob or stutters.
LEMMA OneJobStep == LifecycleInv /\ [Next]_vars => [J!Next]_(J!jvars)
<1> SUFFICES ASSUME LifecycleInv, [Next]_vars
             PROVE  [J!Next]_(J!jvars)
  OBVIOUS
<1> USE DEF LifecycleInv, LifecycleTypeOK, RunInv, J!jvars
<1>1. CASE UNCHANGED <<jobStarted, jobFinished, proc>>
  BY <1>1
<1>2. CASE RunSpawn
  BY <1>2 DEF RunSpawn, dbVars, J!Next, J!Launch
<1>3. CASE RunJobLine
  BY <1>3 DEF RunJobLine, RecordStarted, J!Next, J!RecordStart
<1>4. CASE RunFinish
  BY <1>4 DEF RunFinish, RecordFinished, dbVars, procVars, J!Next, J!RecordFinish
<1>5. CASE ProcExit
  BY <1>5 DEF ProcExit, dbVars, J!Next, J!Exit
<1>6. CASE Crash
  BY <1>6 DEF Crash, dbVars, J!Next, J!Exit
<1>7. CASE ProcListen \/ ProcJob
  BY <1>7 DEF ProcListen, ProcJob, dbVars
<1>8. CASE Keeper
  BY <1>1, <1>8 DEF Keeper, KeeperReadAlive, KeeperCreate, KeeperGiveUp, KeeperStart,
     KeeperFailed, KeeperSleep, KeeperWatch, KeeperEnded, dbVars, procVars
<1>9. CASE RunReaped \/ RunListening \/ RunOffline
  BY <1>1, <1>9 DEF RunReaped, RunListening, RunOffline, dbVars, procVars
<1>10. CASE Loop \/ Connect \/ Break
  BY <1>1, <1>10 DEF Loop, LoopWake, LoopSnapshot, LoopStatus, LoopSend, LoopDown,
     Connect, Break, dbVars, procVars
<1>11. CASE UNCHANGED vars
  BY <1>1, <1>11 DEF vars, dbVars, procVars
<1> QED
  BY <1>2, <1>3, <1>4, <1>5, <1>6, <1>7, <1>8, <1>9, <1>10, <1>11 DEF Next, Run

\* A runner with a job on record is never launched again, across any number of
\* crashes and failed writes: the record that decides is the one on disk.
THEOREM RunsAtMostOneRecordedJob == Spec => ImplementsOneJob
<1>1. Init => J!Init
  BY DEF Init, J!Init
<1> QED
  BY <1>1, OneJobStep, LifecycleInvariant, PTL DEF Spec, ImplementsOneJob, J!Spec
=============================================================================
