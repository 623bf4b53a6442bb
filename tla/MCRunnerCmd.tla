---------------------------- MODULE MCRunnerCmd ----------------------------
(* Instances of RunnerCmd for TLC; the parameters are set in the .cfg files. *)
EXTENDS RunnerCmd
=============================================================================
