---------------------------- MODULE MCSessionPTY ----------------------------
(* The instance of SessionPTY for TLC, which has no parameters. *)
EXTENDS SessionPTY
=============================================================================
