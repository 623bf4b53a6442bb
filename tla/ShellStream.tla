----------------------------- MODULE ShellStream -----------------------------
(***************************************************************************)
(* What GARM is sent about each of its requests for a shell: refusals, or  *)
(* a ready message, output, and one exit.  One message that was on its way *)
(* when the session was stopped may follow the exit: output, or the ready  *)
(* message itself if the session was stopped before it was sent.           *)
(***************************************************************************)
CONSTANT Requests

VARIABLE stage  \* per request, what was sent

Move(r, from, to) == stage[r] \in from /\ stage' = [stage EXCEPT ![r] = to]

Init == stage = [r \in Requests |-> "silent"]

Refuse(r) == Move(r, {"silent"}, "refused")

Ready(r) == Move(r, {"silent"}, "open")

Data(r) == stage[r] = "open" /\ UNCHANGED stage

Exit(r) == Move(r, {"open"}, "exited")

\* The exit overtakes the ready message, or that could not be sent.
ExitUnopened(r) == Move(r, {"silent"}, "unopened")

LateData(r) == Move(r, {"exited"}, "late")

LateReady(r) == Move(r, {"unopened"}, "late")

Next ==
  \E r \in Requests : \/ Refuse(r) \/ Ready(r) \/ Data(r) \/ Exit(r) \/ LateData(r)
                      \/ ExitUnopened(r) \/ LateReady(r)

Spec == Init /\ [][Next]_stage
=============================================================================
