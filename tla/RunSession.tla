----------------------------- MODULE RunSession -----------------------------
(***************************************************************************)
(* What one run of the runner command tells the service: any number of     *)
(* "idle" and "job started" reports while it is running, then exactly one  *)
(* "offline", then "job finished" if and only if a job was reported.       *)
(***************************************************************************)
VARIABLES stage,    \* "running", "offline" or "over"
          up,       \* the last SetRunnerStarted
          job,      \* whether SetJobStarted was called
          finished  \* whether SetJobFinished was called

svars == <<stage, up, job, finished>>

Init == stage = "running" /\ up = FALSE /\ job = FALSE /\ finished = FALSE

ReportIdle == stage = "running" /\ up' = TRUE /\ UNCHANGED <<stage, job, finished>>

ReportJob == stage = "running" /\ job' = TRUE /\ UNCHANGED <<stage, up, finished>>

ReportOffline ==
  stage = "running" /\ stage' = "offline" /\ up' = FALSE /\ UNCHANGED <<job, finished>>

End == stage = "offline" /\ stage' = "over" /\ finished' = job /\ UNCHANGED <<up, job>>

Next == ReportIdle \/ ReportJob \/ ReportOffline \/ End

Spec == Init /\ [][Next]_svars
=============================================================================
