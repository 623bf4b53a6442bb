--------------------------------- MODULE Pty ---------------------------------
(***************************************************************************)
(* What a session relies on: a PTY comes with a shell or not at all, and   *)
(* when Close() returns the shell is dead.                                 *)
(***************************************************************************)
VARIABLES master, shell

pvars == <<master, shell>>

Init == master = "none" /\ shell = "none"

Spawn == master = "none" /\ shell = "none" /\ shell' = "alive" /\ UNCHANGED master

\* The shell may have been spawned before, or in the same step.
Open == master = "none" /\ master' = "open"
          /\ shell' = IF shell = "none" THEN "alive" ELSE shell

\* A shell that was spawned is killed.
Fail == master = "none" /\ master' = "failed" /\ shell' # "alive"

Exit == shell = "alive" /\ shell' = "dead" /\ UNCHANGED master

Close == master = "open" /\ master' = "closing" /\ UNCHANGED shell

Closed == master = "closing" /\ master' = "closed" /\ shell' = "dead"

Next == Spawn \/ Open \/ Fail \/ Exit \/ Close \/ Closed

Spec == Init /\ [][Next]_pvars
=============================================================================
