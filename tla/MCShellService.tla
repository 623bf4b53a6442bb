--------------------------- MODULE MCShellService ---------------------------
(* Instances of ShellService for TLC. *)
EXTENDS ShellService

CONSTANTS a, b

\* Two requests with one ID, and two with any, up to a renaming of the IDs.
SameID    == {<<a, a>>}
SameOrNot == {<<a, a>>, <<a, b>>}
=============================================================================
