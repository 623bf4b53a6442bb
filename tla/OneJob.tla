------------------------------- MODULE OneJob -------------------------------
(***************************************************************************)
(* What the agent promises about the runner it supervises: a runner that   *)
(* has a job on record is never launched again, what is on record stays on *)
(* record, and a job is never recorded as finished while the runner runs.  *)
(* Agents, connections and crashes are below this level.                   *)
(***************************************************************************)
VARIABLES record,   \* the durable record: "fresh", "started" or "over"
          running   \* whether the runner process exists

jvars == <<record, running>>

Init == record = "fresh" /\ running = FALSE

\* The runner process is launched, only while no job is on record.
Launch == ~running /\ record = "fresh" /\ running' = TRUE /\ UNCHANGED record

Exit == running /\ running' = FALSE /\ UNCHANGED record

\* The output of the runner, perhaps read after its exit, shows a job.
RecordStart == record = "fresh" /\ record' = "started" /\ UNCHANGED running

RecordFinish == ~running /\ record # "over" /\ record' = "over" /\ UNCHANGED running

Next == Launch \/ Exit \/ RecordStart \/ RecordFinish

Spec == Init /\ [][Next]_jvars
=============================================================================
