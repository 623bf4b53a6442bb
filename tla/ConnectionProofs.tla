-------------------------- MODULE ConnectionProofs --------------------------
(***************************************************************************)
(* Theorems about Connection for every budget of drops and failures and    *)
(* both hosts: the inductive invariant, what follows from it, and that the *)
(* goroutines implement Uplink.                                            *)
(***************************************************************************)
EXTENDS Connection, TLAPS

\* Every behaviour starts in the invariant: the shared closed channel is 0 and
\* `connecting` is open.
LEMMA ConnectionInit == Init => ConnectionInv
<1> SUFFICES ASSUME Init
             PROVE  ConnectionInv
  OBVIOUS
<1> USE ConnectionAssumption DEF Init, NoClient
<1>1. ConnectionTypeOK
  <2>1. (connecting \in Nat /\ connected \in Nat /\ nextCh \in Nat
           /\ closedCh \subseteq Nat)
    BY DEF KeeperPCs, LoopPCs, HostPCs
  <2>2. (cli \in Nat /\ nextCli \in Nat \ {0} /\ live \subseteq Nat /\ ended \subseteq Nat)
    BY DEF KeeperPCs, LoopPCs, HostPCs
  <2>3. (kpc \in KeeperPCs /\ lpc \in LoopPCs /\ hpc \in HostPCs
           /\ kConnected \in Nat /\ lConnecting \in Nat /\ lCli \in Nat)
    BY DEF KeeperPCs, LoopPCs, HostPCs
  <2>4. (panicked \in BOOLEAN /\ running \in BOOLEAN /\ doneClosed \in BOOLEAN)
    BY DEF KeeperPCs, LoopPCs, HostPCs
  <2>5. (ctxDone \in BOOLEAN /\ muxHolder \in {"none", "loop", "host"})
    BY DEF KeeperPCs, LoopPCs, HostPCs
  <2>6. (drops \in 0 .. MaxDrops /\ fails \in 0 .. MaxFails)
    BY DEF KeeperPCs, LoopPCs, HostPCs
  <2> QED
    BY <2>1, <2>2, <2>3, <2>4, <2>5, <2>6 DEF ConnectionTypeOK
<1>2. ChannelInv
  BY DEF ChannelInv
<1>3. ClientInv
  BY DEF ClientInv
<1>4. NoDoubleClose /\ OnlyCurrentClientLive
  BY DEF NoDoubleClose, OnlyCurrentClientLive
<1> QED
  BY <1>1, <1>2, <1>3, <1>4 DEF ConnectionInv

\* Every step of a goroutine, of the host or of the environment preserves it.
LEMMA ConnectionStep == ConnectionInv /\ [Next]_vars => ConnectionInv'
<1> SUFFICES ASSUME ConnectionInv, [Next]_vars
             PROVE  ConnectionInv'
  OBVIOUS
<1> USE ConnectionAssumption
    DEF ConnectionInv, ConnectionTypeOK, ChannelInv, ClientInv, NoDoubleClose,
        OnlyCurrentClientLive, KeeperPCs, LoopPCs, HostPCs, NoClient,
        chanVars, clientVars, keeperVars, loopVars, stopVars, envVars
<1>1. CASE KeeperCapture
  BY <1>1 DEF KeeperCapture
<1>2. CASE KeeperSelect
  BY <1>2 DEF KeeperSelect
<1>3. CASE KeeperCreate
  BY <1>3 DEF KeeperCreate, FailAttempt
<1>4. CASE KeeperStart
  <2>1. (connecting \in Nat /\ connected \in Nat /\ nextCh \in Nat
           /\ closedCh \subseteq Nat)'
    BY <1>4 DEF KeeperStart, FailAttempt
  <2>2. (cli \in Nat /\ nextCli \in Nat \ {0} /\ live \subseteq Nat /\ ended \subseteq Nat)'
    BY <1>4 DEF KeeperStart, FailAttempt
  <2>3. (kpc \in KeeperPCs /\ lpc \in LoopPCs /\ hpc \in HostPCs
           /\ kConnected \in Nat /\ lConnecting \in Nat /\ lCli \in Nat)'
    BY <1>4 DEF KeeperStart, FailAttempt
  <2>4. (panicked \in BOOLEAN /\ running \in BOOLEAN /\ doneClosed \in BOOLEAN)'
    BY <1>4 DEF KeeperStart, FailAttempt
  <2>5. (ctxDone \in BOOLEAN /\ muxHolder \in {"none", "loop", "host"})'
    BY <1>4 DEF KeeperStart, FailAttempt
  <2>6. (drops \in 0 .. MaxDrops /\ fails \in 0 .. MaxFails)'
    BY <1>4 DEF KeeperStart, FailAttempt
  <2>7. ChannelInv'
    BY <1>4 DEF KeeperStart, FailAttempt
  <2>8. ClientInv'
    <3>1. CASE FailAttempt /\ UNCHANGED live
      BY <1>4, <3>1 DEF KeeperStart, FailAttempt
    <3>2. CASE live' = live \union {cli} /\ kpc' = "up"
      <4>1. (cli < nextCli /\ \A c \in live \union ended : 0 < c /\ c < nextCli)'
        BY <1>4, <3>2 DEF KeeperStart
      <4>2. (live \intersect ended = {})'
        BY <1>4, <3>2 DEF KeeperStart
      <4>3. ((kpc = "start" => cli # NoClient /\ cli \notin live \union ended)
             /\ (kpc = "up" => cli \in live \union ended)
             /\ (connecting \in closedCh => cli \in live \union ended))'
        BY <1>4, <3>2 DEF KeeperStart
      <4>4. ((connected \in closedCh /\ kpc # "up" => cli \notin live)
             /\ (lpc \in {"online", "down"} => lCli = cli)
             /\ (lpc = "down" => cli \in ended))'
        BY <1>4, <3>2 DEF KeeperStart
      <4> QED
        BY <4>1, <4>2, <4>3, <4>4
    <3> QED
      BY <1>4, <3>1, <3>2 DEF KeeperStart
  <2>9. NoDoubleClose'
    BY <1>4 DEF KeeperStart, FailAttempt
  <2>10. OnlyCurrentClientLive'
    BY <1>4 DEF KeeperStart, FailAttempt
  <2> QED
    BY <2>1, <2>2, <2>3, <2>4, <2>5, <2>6, <2>7, <2>8, <2>9, <2>10
<1>5. CASE KeeperUp
  BY <1>5 DEF KeeperUp, Close
<1>6. CASE KeeperSleep
  BY <1>6 DEF KeeperSleep
<1>7. CASE LoopCapture
  BY <1>7 DEF LoopCapture
<1>8. CASE LoopWait
  BY <1>8 DEF LoopWait
<1>9. CASE LoopGetClient
  BY <1>9 DEF LoopGetClient
<1>10. CASE LoopOnline
  BY <1>10 DEF LoopOnline
<1>11. CASE LoopDown
  BY <1>11 DEF LoopDown, Close
<1>12. CASE LoopStop
  <2>1. /\ live' \subseteq live /\ ended' \subseteq live \union ended
        /\ live' \union ended' = live \union ended
        /\ live' \intersect ended' = {} /\ ended \subseteq ended'
    BY <1>12 DEF LoopStop, StopBegin, StopClient
  <2>2. UNCHANGED <<chanVars, cli, nextCli, keeperVars, lConnecting, lCli, envVars>>
    BY <1>12 DEF LoopStop, StopBegin, StopClient
  <2>3. /\ lpc' \in {"exited", "stopcli"} /\ UNCHANGED hpc
        /\ muxHolder' \in {"none", "loop", "host"}
    BY <1>12 DEF LoopStop, StopBegin, StopClient
  <2>4. /\ running' \in BOOLEAN /\ doneClosed' \in BOOLEAN
        /\ running' <=> ~doneClosed'
    <3>1. CASE running' = FALSE /\ doneClosed' = TRUE
      BY <3>1
    <3>2. CASE UNCHANGED <<running, doneClosed>>
      BY <3>2
    <3> QED
      BY <1>12, <3>1, <3>2 DEF LoopStop, StopBegin, StopClient
  <2>5. panicked' \in BOOLEAN /\ ~panicked'
    BY <1>12 DEF LoopStop, StopBegin, StopClient
  <2>6. ConnectionTypeOK'
    BY <2>1, <2>2, <2>3, <2>4, <2>5
  <2>7. ChannelInv'
    BY <2>1, <2>2, <2>3, <2>4, <2>5
  <2>8. ClientInv'
    <3>1. (cli < nextCli /\ \A c \in live \union ended : 0 < c /\ c < nextCli)'
      BY <2>1, <2>2
    <3>2. (live \intersect ended = {})'
      BY <2>1
    <3> QED
      BY <2>1, <2>2, <2>3, <3>1, <3>2
  <2>9. NoDoubleClose'
    BY <2>1, <2>2, <2>3, <2>4, <2>5
  <2>10. OnlyCurrentClientLive'
    BY <2>1, <2>2, <2>3, <2>4, <2>5
  <2> QED
    BY <2>6, <2>7, <2>8, <2>9, <2>10
<1>13. CASE HostServe
  <2>1. hpc' \in HostPCs /\ UNCHANGED <<chanVars, panicked, clientVars, keeperVars, loopVars, stopVars,
                                        envVars>>
    BY <1>13 DEF HostServe
  <2>2. ConnectionTypeOK'
    BY <2>1
  <2>3. ChannelInv'
    BY <2>1
  <2>4. ClientInv'
    BY <2>1
  <2>5. NoDoubleClose'
    BY <2>1
  <2>6. OnlyCurrentClientLive'
    BY <2>1
  <2> QED
    BY <2>2, <2>3, <2>4, <2>5, <2>6
<1>14. CASE HostStop
  <2>1. /\ live' \subseteq live /\ ended' \subseteq live \union ended
        /\ live' \union ended' = live \union ended
        /\ live' \intersect ended' = {} /\ ended \subseteq ended'
    BY <1>14 DEF HostStop, StopBegin, StopClient
  <2>2. UNCHANGED <<chanVars, cli, nextCli, keeperVars, lConnecting, lCli, envVars>>
    BY <1>14 DEF HostStop, StopBegin, StopClient
  <2>3. /\ hpc' \in {"waiting", "stopcli"} /\ UNCHANGED lpc
        /\ muxHolder' \in {"none", "loop", "host"}
    BY <1>14 DEF HostStop, StopBegin, StopClient
  <2>4. /\ running' \in BOOLEAN /\ doneClosed' \in BOOLEAN
        /\ running' <=> ~doneClosed'
    <3>1. CASE running' = FALSE /\ doneClosed' = TRUE
      BY <3>1
    <3>2. CASE UNCHANGED <<running, doneClosed>>
      BY <3>2
    <3> QED
      BY <1>14, <3>1, <3>2 DEF HostStop, StopBegin, StopClient
  <2>5. panicked' \in BOOLEAN /\ ~panicked'
    BY <1>14 DEF HostStop, StopBegin, StopClient
  <2>6. ConnectionTypeOK'
    BY <2>1, <2>2, <2>3, <2>4, <2>5
  <2>7. ChannelInv'
    BY <2>1, <2>2, <2>3, <2>4, <2>5
  <2>8. ClientInv'
    <3>1. (cli < nextCli /\ \A c \in live \union ended : 0 < c /\ c < nextCli)'
      BY <2>1, <2>2
    <3>2. (live \intersect ended = {})'
      BY <2>1
    <3> QED
      BY <2>1, <2>2, <2>3, <3>1, <3>2
  <2>9. NoDoubleClose'
    BY <2>1, <2>2, <2>3, <2>4, <2>5
  <2>10. OnlyCurrentClientLive'
    BY <2>1, <2>2, <2>3, <2>4, <2>5
  <2> QED
    BY <2>6, <2>7, <2>8, <2>9, <2>10
<1>15. ASSUME NEW c \in live, Drop(c) \/ ReaderCtx(c)
       PROVE  ConnectionInv'
  <2>1. /\ live' = live \ {c} /\ ended' = ended \union {c}
        /\ UNCHANGED <<cli, nextCli>>
    BY <1>15 DEF Drop, ReaderCtx, End
  <2>2. UNCHANGED <<chanVars, panicked, keeperVars, loopVars, stopVars, hpc, ctxDone,
                    fails>>
    BY <1>15 DEF Drop, ReaderCtx, End
  <2>3. drops' \in 0 .. MaxDrops
    BY <1>15 DEF Drop, ReaderCtx
  <2>4. ConnectionTypeOK'
    BY <2>1, <2>2, <2>3
  <2>5. ChannelInv'
    BY <2>2
  <2>6. ClientInv'
    <3>1. (cli < nextCli)' /\ (live \intersect ended = {})'
      BY <2>1
    <3>2. \A d \in live' \union ended' : 0 < d /\ d < nextCli'
      BY <2>1
    <3>3. live' \union ended' = live \union ended
      BY <2>1
    <3> QED
      BY <2>1, <2>2, <3>1, <3>2, <3>3
  <2>7. NoDoubleClose'
    BY <2>2
  <2>8. OnlyCurrentClientLive'
    BY <2>1
  <2> QED
    BY <2>4, <2>5, <2>6, <2>7, <2>8
<1>16. CASE HostWait
  <2>1. hpc' \in HostPCs /\ UNCHANGED <<chanVars, panicked, clientVars, keeperVars, loopVars, stopVars,
                                        envVars>>
    BY <1>16 DEF HostWait
  <2>2. ConnectionTypeOK'
    BY <2>1
  <2>3. ChannelInv'
    BY <2>1
  <2>4. ClientInv'
    BY <2>1
  <2>5. NoDoubleClose'
    BY <2>1
  <2>6. OnlyCurrentClientLive'
    BY <2>1
  <2> QED
    BY <2>2, <2>3, <2>4, <2>5, <2>6
<1>17. CASE Cancel
  <2>1. ctxDone' \in BOOLEAN /\ UNCHANGED <<chanVars, panicked, clientVars, keeperVars, loopVars, stopVars, hpc,
                                             drops, fails>>
    BY <1>17 DEF Cancel
  <2>2. ConnectionTypeOK'
    BY <2>1
  <2>3. ChannelInv'
    BY <2>1
  <2>4. ClientInv'
    BY <2>1
  <2>5. NoDoubleClose'
    BY <2>1
  <2>6. OnlyCurrentClientLive'
    BY <2>1
  <2> QED
    BY <2>2, <2>3, <2>4, <2>5, <2>6
<1>18. CASE UNCHANGED vars
  BY <1>18 DEF vars
<1> QED
  BY <1>1, <1>2, <1>3, <1>4, <1>5, <1>6, <1>7, <1>8, <1>9, <1>10, <1>11, <1>12,
     <1>13, <1>14, <1>15, <1>16, <1>17, <1>18 DEF Next, Keeper, Loop

\* The handshake between keepAliveLoop and loop keeps its invariant for ever.
THEOREM ConnectionInvariant == Spec => []ConnectionInv
  BY ConnectionInit, ConnectionStep, PTL DEF Spec

\* The variables keep their types, and the counters their bounds.
THEOREM ConnectionTyped == Spec => []ConnectionTypeOK
<1>1. ConnectionInv => ConnectionTypeOK
  BY DEF ConnectionInv
<1> QED
  BY <1>1, ConnectionInvariant, PTL

\* No handshake channel, and not s.done, is ever closed twice.
THEOREM NeverDoubleClose == Spec => []NoDoubleClose
<1>1. ConnectionInv => NoDoubleClose
  BY DEF ConnectionInv
<1> QED
  BY <1>1, ConnectionInvariant, PTL

\* At most one websocket is open, and it is the one s.cli points to.
THEOREM OneWebsocket == Spec => []OnlyCurrentClientLive
<1>1. ConnectionInv => OnlyCurrentClientLive
  BY DEF ConnectionInv
<1> QED
  BY <1>1, ConnectionInvariant, PTL

\* loop() watches the client it writes to.
THEOREM WatchesTheCurrentClient == Spec => []LoopWatchesCurrentClient
<1>1. ConnectionInv => LoopWatchesCurrentClient
  BY DEF ConnectionInv, ChannelInv, ClientInv, LoopWatchesCurrentClient
<1> QED
  BY <1>1, ConnectionInvariant, PTL

\* keepAliveLoop and loop() never both sleep: a captured channel is still the
\* field's, and one of the two fields is a closed channel.
THEOREM NeverBothAsleep == Spec => []NoLostWakeup
<1>1. ConnectionInv => NoLostWakeup
  BY DEF ConnectionInv, ChannelInv, NoLostWakeup
<1> QED
  BY <1>1, ConnectionInvariant, PTL

\* Every step of the goroutines is a step of Uplink or leaves it unchanged.
LEMMA UplinkStep == ConnectionInv /\ [Next]_vars => [U!Next]_(U!uvars)
<1> SUFFICES ASSUME ConnectionInv, [Next]_vars
             PROVE  [U!Next]_(U!uvars)
  OBVIOUS
<1> USE ConnectionAssumption
    DEF ConnectionInv, ConnectionTypeOK, ChannelInv, ClientInv, NoDoubleClose,
        OnlyCurrentClientLive, NoClient, chanVars, clientVars, U!uvars
<1>1. CASE UNCHANGED <<connected, closedCh, cli, live, ended>>
  BY <1>1
<1>2. CASE KeeperCreate
  BY <1>2 DEF KeeperCreate, U!Next, U!Replace
<1>3. CASE KeeperStart
  BY <1>3 DEF KeeperStart, U!Next, U!Establish
<1>4. CASE KeeperUp
  BY <1>4 DEF KeeperUp, Close, U!Next, U!HandOver
<1>5. CASE LoopDown
  BY <1>5 DEF LoopDown, Close, U!Next, U!HandBack
<1>6. CASE LoopStop
  BY <1>6 DEF LoopStop, StopBegin, StopClient, U!Next, U!Lose
<1>7. CASE HostStop
  BY <1>7 DEF HostStop, StopBegin, StopClient, U!Next, U!Lose
<1>8. ASSUME NEW c \in live, Drop(c) \/ ReaderCtx(c)
      PROVE  [U!Next]_(U!uvars)
  BY <1>8 DEF Drop, ReaderCtx, End, U!Next, U!Lose
<1>9. CASE KeeperCapture \/ KeeperSelect \/ KeeperSleep \/ LoopCapture
             \/ LoopWait \/ LoopGetClient \/ LoopOnline
  BY <1>1, <1>9 DEF KeeperCapture, KeeperSelect, KeeperSleep, LoopCapture,
     LoopWait, LoopGetClient, LoopOnline
<1>10. CASE HostServe \/ HostWait \/ Cancel
  BY <1>1, <1>10 DEF HostServe, HostWait, Cancel
<1>11. CASE UNCHANGED vars
  BY <1>1, <1>11 DEF vars
<1> QED
  BY <1>2, <1>3, <1>4, <1>5, <1>6, <1>7, <1>8, <1>9, <1>10, <1>11
  DEF Next, Keeper, Loop

\* The channel handshake implements one websocket owned in turn by the dialer
\* and the watcher.
THEOREM RefinesUplink == Spec => ImplementsUplink
<1>1. Init => U!Init
  BY DEF Init, U!Init, NoClient
<1> QED
  BY <1>1, UplinkStep, ConnectionInvariant, PTL DEF Spec, ImplementsUplink, U!Spec
=============================================================================
