---------------------------- MODULE MCLifecycle ----------------------------
(* Instances of Lifecycle for TLC; every bound is set in the .cfg files. *)
EXTENDS Lifecycle
=============================================================================
