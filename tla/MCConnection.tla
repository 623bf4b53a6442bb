---------------------------- MODULE MCConnection ----------------------------
(***************************************************************************)
(* Instance of Connection for TLC: three drops and two failed attempts     *)
(* make up to four hand-overs, some of them after failed dials.            *)
(***************************************************************************)
EXTENDS Connection

ThreeDrops == 3
TwoFails == 2
=============================================================================
