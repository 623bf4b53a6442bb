------------------------------- MODULE Uplink -------------------------------
(***************************************************************************)
(* What the agent's connection management promises, without goroutines,    *)
(* channels or locks: one websocket at a time, owned in turn by a dialer   *)
(* (keepAliveLoop), which may replace the client, and by a watcher (loop), *)
(* which gives the link back only after the client has ended.              *)
(***************************************************************************)
VARIABLES owner,  \* whose turn it is: "dialer" or "watcher"
          link    \* the client in use: "none" (not started), "live", "ended"

uvars == <<owner, link>>

UplinkTypeOK ==
  /\ owner \in {"dialer", "watcher"}
  /\ link \in {"none", "live", "ended"}

Init == owner = "dialer" /\ link = "none"

\* A client that was never started or has ended is replaced by a fresh one.
Replace == owner = "dialer" /\ link # "live" /\ link' = "none" /\ UNCHANGED owner

\* Only the dialer, and only from a fresh client, opens a websocket.
Establish == owner = "dialer" /\ link = "none" /\ link' = "live" /\ UNCHANGED owner

\* The dialer announces the connection; it may already have been lost again.
HandOver == owner = "dialer" /\ link # "none" /\ owner' = "watcher" /\ UNCHANGED link

Lose == link = "live" /\ link' = "ended" /\ UNCHANGED owner

\* The watcher asks for a reconnect, never while the client is live.
HandBack == owner = "watcher" /\ link = "ended" /\ owner' = "dialer" /\ UNCHANGED link

Next == Replace \/ Establish \/ HandOver \/ Lose \/ HandBack

Spec == Init /\ [][Next]_uvars
=============================================================================
