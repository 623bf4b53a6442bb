-------------------------- MODULE ShellServiceProofs --------------------------
(***************************************************************************)
(* Theorems about the shell sessions, for every number of requests, every  *)
(* choice of their IDs and every limit: the inductive invariant ShellInv   *)
(* (types, the table, each session), the limit on the number of shells     *)
(* that it implies, and that what GARM is sent implements ShellStream.     *)
(***************************************************************************)
EXTENDS ShellService, FiniteSetTheorems, TLAPS

Pcs == {"off", "ready", "read", "data", "watch", "write", "stop", "kill", "exit"}

\* A step of one caller in one session moves nobody else.
LEMMA GotoFacts ==
  ASSUME pc \in [Callers -> [Shells -> Pcs]], NEW c \in Callers, NEW i \in Shells,
         NEW from \in Pcs, NEW to \in Pcs, Goto(c, i, from, to)
  PROVE  /\ pc[c][i] = from
         /\ pc' \in [Callers -> [Shells -> Pcs]]
         /\ pc'[c][i] = to
         /\ \A d \in Callers, j \in Shells : (d # c \/ j # i) => pc'[d][j] = pc[d][j]
  BY DEF Goto

\* Neither does a message about one request say anything about another.
LEMMA SayFacts ==
  ASSUME ShellTypeOK, NEW i \in Shells, NEW kind, Say(i, kind)
  PROVE  /\ \A j \in Shells : j # i => said'[j] = said[j]
         /\ said' \in [Shells -> {"silent", "refused", "open", "exited", "unopened",
                                 "late", "garbled"}]
  BY DEF Say, ShellTypeOK

\* Every step keeps the types.
LEMMA TypeStep == ShellTypeOK /\ [Next]_vars => ShellTypeOK'
<1> SUFFICES ASSUME ShellTypeOK, [Next]_vars
             PROVE  ShellTypeOK'
  OBVIOUS
<1> USE DEF ShellTypeOK, configVars, tableVars, mutexVars, ptyVars, Callers
<1>1. ASSUME NEW i \in Shells, CreateShell(i)
      PROVE  ShellTypeOK'
  <2> USE DEF CreateShell, Create, Shells
  <2>1. made' \in 0..MaxCreates /\ i \in 0..MaxCreates
    BY <1>1, ShellServiceAssumption
  <2>2. sessions' \in [Ids -> 0..MaxCreates]
    BY <1>1, <2>1
  <2>3. /\ running' \in [Shells -> BOOLEAN] /\ done' \in [Shells -> BOOLEAN]
        /\ pty' \in [Shells -> {"none", "open", "hungup", "closed"}]
        /\ shell' \in [Shells -> {"none", "alive", "dead"}]
        /\ reap' \in [Shells -> {"off", "watch"}]
    BY <1>1
  <2>4. pc' \in [Callers -> [Shells -> Pcs]]
    BY <1>1 DEF Pcs
  <2> QED
    BY <1>1, <2>1, <2>2, <2>3, <2>4 DEF Pcs
<1>2. ASSUME NEW i \in Shells, RefuseShell(i)
      PROVE  ShellTypeOK'
  <2>1. made' \in 0..MaxCreates
    BY <1>2, ShellServiceAssumption DEF RefuseShell, Shells
  <2> QED
    BY <1>2, <2>1 DEF RefuseShell
<1>3. ASSUME NEW i \in Shells, HandleData(i)
      PROVE  ShellTypeOK'
  BY <1>3 DEF HandleData, Handle, Goto
<1>4. ASSUME NEW i \in Shells, HandleClosed(i)
      PROVE  ShellTypeOK'
  BY <1>4 DEF HandleClosed, Handle, Goto
<1>5. ASSUME NEW i \in Shells, WriteTaken(i)
      PROVE  ShellTypeOK'
  BY <1>5 DEF WriteTaken, Goto
<1>6. ASSUME NEW i \in Shells, WriteFails(i)
      PROVE  ShellTypeOK'
  BY <1>6 DEF WriteFails, Goto
<1>7. ASSUME NEW i \in Shells, OutReady(i)
      PROVE  ShellTypeOK'
  BY <1>7, SayFacts DEF OutReady, Goto
<1>8. ASSUME NEW i \in Shells, OutRead(i)
      PROVE  ShellTypeOK'
  BY <1>8 DEF OutRead, Goto
<1>9. ASSUME NEW i \in Shells, OutReadFails(i)
      PROVE  ShellTypeOK'
  BY <1>9 DEF OutReadFails, Goto
<1>10. ASSUME NEW i \in Shells, OutData(i)
      PROVE  ShellTypeOK'
  BY <1>10, SayFacts DEF OutData, Goto
<1>11. ASSUME NEW i \in Shells, LoopWatch(i)
      PROVE  ShellTypeOK'
  BY <1>11 DEF LoopWatch, Goto
<1>12. ASSUME NEW i \in Shells, Reap(i)
      PROVE  ShellTypeOK'
  BY <1>12, ShellServiceAssumption DEF Reap, None
<1>13. ASSUME NEW i \in Shells, ShellExit(i)
      PROVE  ShellTypeOK'
  BY <1>13 DEF ShellExit
<1>21. ASSUME NEW i \in Shells, Hangup(i)
       PROVE  ShellTypeOK'
  BY <1>21 DEF Hangup
<1>14. ASSUME NEW i \in Shells, NEW c \in Callers, StopIdle(c, i)
      PROVE  ShellTypeOK'
  BY <1>14 DEF StopIdle, Goto
<1>15. ASSUME NEW i \in Shells, NEW c \in Callers, StopBegin(c, i)
      PROVE  ShellTypeOK'
  BY <1>15 DEF StopBegin, Goto
<1>16. ASSUME NEW i \in Shells, NEW c \in Callers, StopKill(c, i)
      PROVE  ShellTypeOK'
  BY <1>16 DEF StopKill, Goto
<1>17. ASSUME NEW i \in Shells, NEW c \in Callers, StopExit(c, i)
      PROVE  ShellTypeOK'
  BY <1>17, SayFacts DEF StopExit, TrySay, Goto
<1>18. CASE Ask
  BY <1>18 DEF Ask
<1>19. CASE ServiceStop
  BY <1>19 DEF ServiceStop
<1>20. CASE UNCHANGED vars
  BY <1>20 DEF vars
<1> QED
  BY <1>1, <1>2, <1>3, <1>4, <1>5, <1>6, <1>7, <1>8, <1>9, <1>10, <1>11, <1>12, <1>13,
     <1>14, <1>15, <1>16, <1>17, <1>18, <1>19, <1>20, <1>21
  DEF Next, Reader, Out, Loop, Stop

\* A step that leaves a session alone keeps what is known of it.
LEMMA Frame ==
  ASSUME NEW i \in Shells, SessionInv(i), Quitting => Quitting',
         i > made' => i > made,
         pty'[i] = pty[i], shell'[i] = shell[i], said'[i] = said[i], reap'[i] = reap[i],
         running'[i] = running[i], done'[i] = done[i], smux'[i] = smux[i],
         \A c \in Callers : pc'[c][i] = pc[c][i]
  PROVE  SessionInv(i)'
  <1>1. /\ pc'["reader"][i] = pc["reader"][i]
        /\ pc'["out"][i] = pc["out"][i] /\ pc'["loop"][i] = pc["loop"][i]
    BY DEF Callers
  <1>2. NoSession(i)'
    BY DEF SessionInv, NoSession
  <1>3. Places(i)'
    BY <1>1 DEF SessionInv, Places
  <1>4. Closing(i)'
    BY <1>1 DEF SessionInv, Closing
  <1>5. Spoken(i)'
    BY <1>1 DEF SessionInv, Spoken
  <1> QED
    BY <1>2, <1>3, <1>4, <1>5 DEF SessionInv

\* The agent does not take back that it stops.
LEMMA QuitStep == ShellTypeOK /\ [Next]_vars => (Quitting => Quitting') /\ limit' = limit
                                               /\ sid' = sid
  BY DEF ShellTypeOK, Next, vars, configVars, tableVars, mutexVars, ptyVars, Quitting,
     CtxDone,
         CreateShell, Create, RefuseShell, HandleData, HandleClosed, Handle, WriteTaken,
         WriteFails, Reader, Out, Loop, OutReady, OutRead, OutReadFails, OutData,
         LoopWatch,
         Reap, Stop, StopIdle, StopBegin, StopKill, StopExit, ShellExit, Hangup, Ask,
         ServiceStop

\* The table changes when a session is created and when its entry is reaped.
LEMMA TableStep ==
  ShellTypeOK /\ TableInv /\ ShellTypeOK' /\ [Next]_vars => TableInv'
<1> SUFFICES ASSUME ShellTypeOK, TableInv, ShellTypeOK', [Next]_vars
             PROVE  TableInv'
  OBVIOUS
<1>f. IsFiniteSet(Occupied) /\ IsFiniteSet(Occupied') /\ Cardinality(Occupied) \in Nat
      /\ limit \in Nat /\ Cardinality(Occupied') \in Nat
  BY ShellServiceAssumption, FS_Subset, FS_CardinalityType DEF Occupied, ShellTypeOK
<1>q. limit' = limit /\ sid' = sid
  BY QuitStep
<1>u. ASSUME UNCHANGED <<sessions, reap>>,
             \A i \in Shells : pc'["reader"][i] # "off" => pc["reader"][i] # "off"
      PROVE  TableInv'
  BY <1>u, <1>q DEF TableInv, Occupied
<1>1. ASSUME NEW i \in Shells, CreateShell(i)
      PROVE  TableInv'
  <2> USE DEF CreateShell, Create
  <2>1. i \in Nat /\ i # None /\ sid[i] \in Ids /\ i > made
    BY <1>1, ShellServiceAssumption DEF Shells, None, ShellTypeOK
  <2>2. /\ sessions' = [sessions EXCEPT ![sid[i]] = i] /\ sessions[sid[i]] = None
        /\ reap' = [reap EXCEPT ![i] = "watch"]
        /\ Cardinality(Occupied) < limit
    BY <1>1
  <2>3. \A j \in Shells : reap'[j] = "watch" <=> sessions'[sid'[j]] = j
    <3>1. TAKE j \in Shells
    <3>2. CASE j = i
      BY <2>1, <2>2, <3>2, <1>q DEF ShellTypeOK
    <3>3. CASE j # i
      <4>1. reap[j] = "watch" <=> sessions[sid[j]] = j
        BY DEF TableInv
      <4>2. j # None
        BY ShellServiceAssumption DEF Shells, None
      <4> QED
        BY <2>1, <2>2, <3>3, <4>1, <4>2, <1>q DEF ShellTypeOK
    <3> QED
      BY <3>2, <3>3
  <2>4. \A id \in Ids : sessions'[id] # None => sid'[sessions'[id]] = id
    BY <2>1, <2>2, <1>q DEF TableInv, ShellTypeOK
  <2>5. Occupied' = Occupied \union {sid[i]}
    BY <2>1, <2>2 DEF Occupied, ShellTypeOK
  <2>6. Cardinality(Occupied') <= limit'
    BY <2>2, <2>5, <1>f, <1>q, FS_AddElement
  <2>7. \A j \in Shells : pc'["reader"][j] = pc["reader"][j]
    BY <1>1 DEF ShellTypeOK, Callers
  <2> QED
    BY <2>3, <2>4, <2>6, <2>7 DEF TableInv
<1>2. ASSUME NEW i \in Shells, RefuseShell(i)
      PROVE  TableInv'
  BY <1>2, <1>u DEF RefuseShell
<1>3. ASSUME NEW i \in Shells, HandleData(i)
      PROVE  TableInv'
  <2>1. \A j \in Shells : pc["reader"][j] = "off"
    BY <1>3 DEF HandleData, Handle, MuxFree
  <2>2. \A j \in Shells : j # i => pc'["reader"][j] = "off"
    BY <1>3, <2>1 DEF HandleData, Handle, Goto, ShellTypeOK, Callers
  <2>3. UNCHANGED <<sessions, reap>>
    BY <1>3 DEF HandleData, Handle, tableVars
  <2> QED
    BY <2>2, <2>3, <1>q DEF TableInv, Occupied
<1>4. ASSUME NEW i \in Shells, HandleClosed(i)
      PROVE  TableInv'
  <2>1. \A j \in Shells : pc["reader"][j] = "off"
    BY <1>4 DEF HandleClosed, Handle, MuxFree
  <2>2. \A j \in Shells : j # i => pc'["reader"][j] = "off"
    BY <1>4, <2>1 DEF HandleClosed, Handle, Goto, ShellTypeOK, Callers
  <2>3. UNCHANGED <<sessions, reap>>
    BY <1>4 DEF HandleClosed, Handle, tableVars
  <2> QED
    BY <2>2, <2>3, <1>q DEF TableInv, Occupied
<1>5. ASSUME NEW i \in Shells, WriteTaken(i)
      PROVE  TableInv'
  BY <1>5, <1>u DEF WriteTaken, Goto, ShellTypeOK, Callers, tableVars
<1>6. ASSUME NEW i \in Shells, WriteFails(i)
      PROVE  TableInv'
  BY <1>6, <1>u DEF WriteFails, Goto, ShellTypeOK, Callers, tableVars
<1>7. ASSUME NEW i \in Shells, OutReady(i)
      PROVE  TableInv'
  BY <1>7, <1>u DEF OutReady, Goto, ShellTypeOK, Callers, tableVars
<1>8. ASSUME NEW i \in Shells, OutRead(i)
      PROVE  TableInv'
  BY <1>8, <1>u DEF OutRead, Goto, ShellTypeOK, Callers, tableVars
<1>9. ASSUME NEW i \in Shells, OutReadFails(i)
      PROVE  TableInv'
  BY <1>9, <1>u DEF OutReadFails, Goto, ShellTypeOK, Callers, tableVars
<1>10. ASSUME NEW i \in Shells, OutData(i)
      PROVE  TableInv'
  BY <1>10, <1>u DEF OutData, Goto, ShellTypeOK, Callers, tableVars
<1>11. ASSUME NEW i \in Shells, LoopWatch(i)
      PROVE  TableInv'
  BY <1>11, <1>u DEF LoopWatch, Goto, ShellTypeOK, Callers, tableVars
<1>12. ASSUME NEW i \in Shells, Reap(i)
      PROVE  TableInv'
  <2>1. /\ sessions' = [sessions EXCEPT ![sid[i]] = None]
        /\ reap' = [reap EXCEPT ![i] = "off"] /\ reap[i] = "watch"
        /\ UNCHANGED pc
    BY <1>12 DEF Reap
  <2>2. \A j \in Shells : j # None /\ sid[j] \in Ids
    BY ShellServiceAssumption DEF Shells, None, ShellTypeOK
  <2>3. \A j \in Shells : reap'[j] = "watch" <=> sessions'[sid'[j]] = j
    BY <2>1, <2>2, <1>q DEF TableInv, ShellTypeOK
  <2>4. \A id \in Ids : sessions'[id] # None => sid'[sessions'[id]] = id
    BY <2>1, <2>2, <1>q DEF TableInv, ShellTypeOK
  <2>5. Occupied' \subseteq Occupied
    BY <2>1 DEF Occupied, ShellTypeOK
  <2>6. Cardinality(Occupied') <= limit'
    BY <2>5, <1>f, <1>q, FS_Subset DEF TableInv
  <2> QED
    BY <2>1, <2>3, <2>4, <2>6 DEF TableInv
<1>13. ASSUME NEW i \in Shells, ShellExit(i)
      PROVE  TableInv'
  BY <1>13, <1>u DEF ShellExit, tableVars
<1>21. ASSUME NEW i \in Shells, Hangup(i)
       PROVE  TableInv'
  BY <1>21, <1>u DEF Hangup, tableVars
<1>14. ASSUME NEW i \in Shells, NEW c \in Callers, StopIdle(c, i)
      PROVE  TableInv'
  BY <1>14, <1>u DEF StopIdle, Goto, ShellTypeOK, Callers, tableVars
<1>15. ASSUME NEW i \in Shells, NEW c \in Callers, StopBegin(c, i)
      PROVE  TableInv'
  BY <1>15, <1>u DEF StopBegin, Goto, ShellTypeOK, Callers, tableVars
<1>16. ASSUME NEW i \in Shells, NEW c \in Callers, StopKill(c, i)
      PROVE  TableInv'
  BY <1>16, <1>u DEF StopKill, Goto, ShellTypeOK, Callers, tableVars
<1>17. ASSUME NEW i \in Shells, NEW c \in Callers, StopExit(c, i)
      PROVE  TableInv'
  BY <1>17, <1>u DEF StopExit, Goto, ShellTypeOK, Callers, tableVars
<1>18. CASE Ask
  BY <1>18, <1>u DEF Ask, tableVars
<1>19. CASE ServiceStop
  BY <1>19, <1>u DEF ServiceStop, tableVars
<1>20. CASE UNCHANGED vars
  BY <1>20, <1>u DEF vars, tableVars
<1> QED
  BY <1>1, <1>2, <1>3, <1>4, <1>5, <1>6, <1>7, <1>8, <1>9, <1>10, <1>11, <1>12, <1>13,
     <1>14, <1>15, <1>16, <1>17, <1>18, <1>19, <1>20, <1>21
  DEF Next, Reader, Out, Loop, Stop, Callers

\* A session changes by the steps of its own actors only.
LEMMA SessionStep ==
  ShellInv /\ ShellTypeOK' /\ [Next]_vars => \A j \in Shells : SessionInv(j)'
<1> SUFFICES ASSUME ShellTypeOK, TableInv, \A j \in Shells : SessionInv(j),
                    ShellTypeOK', [Next]_vars
             PROVE  \A j \in Shells : SessionInv(j)'
  BY DEF ShellInv
<1>q. (Quitting => Quitting') /\ limit' = limit /\ sid' = sid
  BY QuitStep
<1>1. ASSUME NEW i \in Shells, CreateShell(i)
      PROVE  \A j \in Shells : SessionInv(j)'
  <2>1. ASSUME NEW j \in Shells, j # i
        PROVE  SessionInv(j)'
    <3>1. \A d \in Callers : pc'[d][j] = pc[d][j]
      BY <1>1, <2>1 DEF CreateShell, Create, ShellTypeOK
    <3>2. j > made' => j > made
      BY <1>1, ShellServiceAssumption DEF CreateShell, ShellTypeOK, Shells
    <3>3. /\ pty'[j] = pty[j] /\ shell'[j] = shell[j] /\ said'[j] = said[j]
          /\ reap'[j] = reap[j] /\ running'[j] = running[j] /\ done'[j] = done[j]
          /\ smux'[j] = smux[j]
      BY <1>1, <2>1 DEF CreateShell, Create, ShellTypeOK
    <3> QED
      BY <3>1, <3>2, <3>3, <1>q, Frame
  <2>a. i > made /\ made' = i /\ i \in Nat /\ made \in Nat
    BY <1>1, ShellServiceAssumption DEF CreateShell, Shells, ShellTypeOK
  <2>b. pty[i] = "none" /\ said[i] = "silent" /\ smux[i] = "free"
        /\ \A d \in Callers : pc[d][i] = "off"
    BY <2>a DEF SessionInv, NoSession
  <2>c. /\ pc'["out"][i] = "ready" /\ pc'["loop"][i] = "watch" /\ pc'["reader"][i] = "off"
        /\ smux'[i] = "free" /\ said'[i] = "silent"
    BY <1>1, <2>b DEF CreateShell, Create, ShellTypeOK, Callers, mutexVars
  <2>d. /\ pty'[i] = "open" /\ shell'[i] = "alive" /\ running'[i] = TRUE
        /\ done'[i] = FALSE /\ reap'[i] = "watch"
    BY <1>1 DEF CreateShell, Create, ShellTypeOK
  <2>2. NoSession(i)'
    BY <2>a, <2>c, <2>d DEF NoSession
  <2>3. Places(i)'
    BY <2>c DEF Places, Callers
  <2>4. Closing(i)'
    BY <2>c, <2>d DEF Closing, Callers
  <2>5. Spoken(i)'
    BY <2>c, <2>d DEF Spoken
  <2> QED
    BY <2>1, <2>2, <2>3, <2>4, <2>5 DEF SessionInv
<1>2. ASSUME NEW i \in Shells, RefuseShell(i)
      PROVE  \A j \in Shells : SessionInv(j)'
  <2>1. ASSUME NEW j \in Shells, j # i
        PROVE  SessionInv(j)'
    BY <1>2, <2>1, <1>q, Frame, ShellServiceAssumption DEF RefuseShell, Shells,
       ShellTypeOK, Callers, tableVars, mutexVars, ptyVars
  <2>2. NoSession(i)'
    BY <1>2, <1>q, ShellServiceAssumption DEF RefuseShell, Shells, SessionInv,
       NoSession, ShellTypeOK, Callers, mutexVars, ptyVars
  <2>3. Places(i)'
    BY <1>2, <1>q, ShellServiceAssumption DEF RefuseShell, Shells, SessionInv, Places,
       ShellTypeOK, Callers, mutexVars, ptyVars
  <2>4. Closing(i)'
    BY <1>2, <1>q, ShellServiceAssumption DEF RefuseShell, Shells, SessionInv,
       Closing, ShellTypeOK, Callers, mutexVars, ptyVars
  <2>5. Spoken(i)'
    BY <1>2, <1>q, ShellServiceAssumption DEF RefuseShell, Shells, SessionInv,
       NoSession, Places, Closing, Spoken, ShellTypeOK, Callers, mutexVars, ptyVars
  <2> QED
    BY <2>1, <2>2, <2>3, <2>4, <2>5 DEF SessionInv
<1>3. ASSUME NEW i \in Shells, HandleData(i)
      PROVE  \A j \in Shells : SessionInv(j)'
  <2>1. ASSUME NEW j \in Shells, j # i
        PROVE  SessionInv(j)'
    BY <1>3, <2>1, <1>q, Frame DEF HandleData, Handle, Goto, ShellTypeOK, Callers,
       tableVars, mutexVars, ptyVars
  <2>a. pty[i] # "none"
    BY <1>3 DEF HandleData, Handle, TableInv, SessionInv, NoSession
  <2>2. NoSession(i)'
    BY <1>3, <2>a DEF HandleData, Handle, SessionInv, NoSession, tableVars, ptyVars
  <2>3. Places(i)'
    BY <1>3, <1>q DEF HandleData, Handle, Goto, SessionInv, Places, ShellTypeOK,
       Callers, tableVars, mutexVars, ptyVars
  <2>4. Closing(i)'
    BY <1>3, <1>q DEF HandleData, Handle, Goto, SessionInv, Closing, ShellTypeOK,
       Callers, tableVars, mutexVars, ptyVars
  <2>5. Spoken(i)'
    BY <1>3, <1>q DEF HandleData, Handle, Goto, SessionInv, Spoken, ShellTypeOK,
       Callers, tableVars, mutexVars, ptyVars
  <2> QED
    BY <2>1, <2>2, <2>3, <2>4, <2>5 DEF SessionInv
<1>4. ASSUME NEW i \in Shells, HandleClosed(i)
      PROVE  \A j \in Shells : SessionInv(j)'
  <2>1. ASSUME NEW j \in Shells, j # i
        PROVE  SessionInv(j)'
    BY <1>4, <2>1, <1>q, Frame DEF HandleClosed, Handle, Goto, ShellTypeOK, Callers,
       tableVars, mutexVars, ptyVars
  <2>a. pty[i] # "none"
    BY <1>4 DEF HandleClosed, Handle, TableInv, SessionInv, NoSession
  <2>2. NoSession(i)'
    BY <1>4, <2>a DEF HandleClosed, Handle, SessionInv, NoSession, tableVars, ptyVars
  <2>3. Places(i)'
    BY <1>4, <1>q DEF HandleClosed, Handle, Goto, SessionInv, Places, ShellTypeOK,
       Callers, tableVars, mutexVars, ptyVars
  <2>4. Closing(i)'
    BY <1>4, <1>q DEF HandleClosed, Handle, Goto, SessionInv, Closing, ShellTypeOK,
       Callers, tableVars, mutexVars, ptyVars
  <2>5. Spoken(i)'
    BY <1>4, <1>q DEF HandleClosed, Handle, Goto, SessionInv, Spoken, ShellTypeOK,
       Callers, tableVars, mutexVars, ptyVars
  <2> QED
    BY <2>1, <2>2, <2>3, <2>4, <2>5 DEF SessionInv
<1>5. ASSUME NEW i \in Shells, WriteTaken(i)
      PROVE  \A j \in Shells : SessionInv(j)'
  <2>1. ASSUME NEW j \in Shells, j # i
        PROVE  SessionInv(j)'
    BY <1>5, <2>1, <1>q, Frame DEF WriteTaken, Goto, ShellTypeOK, Callers, tableVars,
       mutexVars, ptyVars
  <2>2. NoSession(i)'
    BY <1>5, <1>q DEF WriteTaken, Goto, SessionInv, NoSession, ShellTypeOK, Callers,
       tableVars, mutexVars, ptyVars
  <2>3. Places(i)'
    BY <1>5, <1>q DEF WriteTaken, Goto, SessionInv, Places, ShellTypeOK, Callers,
       tableVars, mutexVars, ptyVars
  <2>4. Closing(i)'
    BY <1>5, <1>q DEF WriteTaken, Goto, SessionInv, Closing, ShellTypeOK, Callers,
       tableVars, mutexVars, ptyVars
  <2>5. Spoken(i)'
    BY <1>5, <1>q DEF WriteTaken, Goto, SessionInv, Spoken, ShellTypeOK, Callers,
       tableVars, mutexVars, ptyVars
  <2> QED
    BY <2>1, <2>2, <2>3, <2>4, <2>5 DEF SessionInv
<1>6. ASSUME NEW i \in Shells, WriteFails(i)
      PROVE  \A j \in Shells : SessionInv(j)'
  <2>1. ASSUME NEW j \in Shells, j # i
        PROVE  SessionInv(j)'
    BY <1>6, <2>1, <1>q, Frame DEF WriteFails, Goto, ShellTypeOK, Callers, tableVars,
       mutexVars, ptyVars
  <2>2. NoSession(i)'
    BY <1>6, <1>q DEF WriteFails, Goto, SessionInv, NoSession, ShellTypeOK, Callers,
       tableVars, mutexVars, ptyVars
  <2>3. Places(i)'
    BY <1>6, <1>q DEF WriteFails, Goto, SessionInv, Places, ShellTypeOK, Callers,
       tableVars, mutexVars, ptyVars
  <2>4. Closing(i)'
    BY <1>6, <1>q DEF WriteFails, Goto, SessionInv, Closing, ShellTypeOK, Callers,
       tableVars, mutexVars, ptyVars
  <2>5. Spoken(i)'
    BY <1>6, <1>q DEF WriteFails, Goto, SessionInv, Spoken, ShellTypeOK, Callers,
       tableVars, mutexVars, ptyVars
  <2> QED
    BY <2>1, <2>2, <2>3, <2>4, <2>5 DEF SessionInv
<1>7. ASSUME NEW i \in Shells, OutReady(i)
      PROVE  \A j \in Shells : SessionInv(j)'
  <2>1. ASSUME NEW j \in Shells, j # i
        PROVE  SessionInv(j)'
    BY <1>7, <2>1, <1>q, Frame, SayFacts DEF OutReady, Goto, Say, ShellTypeOK,
       Callers, tableVars, mutexVars, ptyVars
  <2>2. NoSession(i)'
    BY <1>7, <1>q, SayFacts DEF OutReady, Goto, Say, SessionInv, NoSession,
       ShellTypeOK, Callers, tableVars, mutexVars, ptyVars
  <2>3. Places(i)'
    BY <1>7, <1>q, SayFacts DEF OutReady, Goto, Say, SessionInv, Places, ShellTypeOK,
       Callers, tableVars, mutexVars, ptyVars
  <2>4. Closing(i)'
    BY <1>7, <1>q, SayFacts DEF OutReady, Goto, Say, SessionInv, Closing, ShellTypeOK,
       Callers, tableVars, mutexVars, ptyVars
  <2>5. Spoken(i)'
    BY <1>7, <1>q, SayFacts DEF OutReady, Goto, Say, SessionInv, Spoken, ShellTypeOK,
       Callers, tableVars, mutexVars, ptyVars
  <2> QED
    BY <2>1, <2>2, <2>3, <2>4, <2>5 DEF SessionInv
<1>8. ASSUME NEW i \in Shells, OutRead(i)
      PROVE  \A j \in Shells : SessionInv(j)'
  <2>1. ASSUME NEW j \in Shells, j # i
        PROVE  SessionInv(j)'
    BY <1>8, <2>1, <1>q, Frame DEF OutRead, Goto, ShellTypeOK, Callers, tableVars,
       mutexVars, ptyVars
  <2>2. NoSession(i)'
    BY <1>8, <1>q DEF OutRead, Goto, SessionInv, NoSession, ShellTypeOK, Callers,
       tableVars, mutexVars, ptyVars
  <2>3. Places(i)'
    BY <1>8, <1>q DEF OutRead, Goto, SessionInv, Places, ShellTypeOK, Callers,
       tableVars, mutexVars, ptyVars
  <2>4. Closing(i)'
    BY <1>8, <1>q DEF OutRead, Goto, SessionInv, Closing, ShellTypeOK, Callers,
       tableVars, mutexVars, ptyVars
  <2>5. Spoken(i)'
    BY <1>8, <1>q DEF OutRead, Goto, SessionInv, NoSession, Places, Closing, Spoken,
       ShellTypeOK, Callers, tableVars, mutexVars, ptyVars
  <2> QED
    BY <2>1, <2>2, <2>3, <2>4, <2>5 DEF SessionInv
<1>9. ASSUME NEW i \in Shells, OutReadFails(i)
      PROVE  \A j \in Shells : SessionInv(j)'
  <2>1. ASSUME NEW j \in Shells, j # i
        PROVE  SessionInv(j)'
    BY <1>9, <2>1, <1>q, Frame DEF OutReadFails, Goto, ShellTypeOK, Callers,
       tableVars, mutexVars, ptyVars
  <2>2. NoSession(i)'
    BY <1>9, <1>q DEF OutReadFails, Goto, SessionInv, NoSession, ShellTypeOK, Callers,
       tableVars, mutexVars, ptyVars
  <2>3. Places(i)'
    BY <1>9, <1>q DEF OutReadFails, Goto, SessionInv, Places, ShellTypeOK, Callers,
       tableVars, mutexVars, ptyVars
  <2>4. Closing(i)'
    BY <1>9, <1>q DEF OutReadFails, Goto, SessionInv, Closing, ShellTypeOK, Callers,
       tableVars, mutexVars, ptyVars
  <2>5. Spoken(i)'
    BY <1>9, <1>q DEF OutReadFails, Goto, SessionInv, Spoken, ShellTypeOK, Callers,
       tableVars, mutexVars, ptyVars
  <2> QED
    BY <2>1, <2>2, <2>3, <2>4, <2>5 DEF SessionInv
<1>10. ASSUME NEW i \in Shells, OutData(i)
      PROVE  \A j \in Shells : SessionInv(j)'
  <2>1. ASSUME NEW j \in Shells, j # i
        PROVE  SessionInv(j)'
    BY <1>10, <2>1, <1>q, Frame, SayFacts DEF OutData, Goto, Say, ShellTypeOK,
       Callers, tableVars, mutexVars, ptyVars
  <2>2. NoSession(i)'
    BY <1>10, <1>q, SayFacts DEF OutData, Goto, Say, SessionInv, NoSession,
       ShellTypeOK, Callers, tableVars, mutexVars, ptyVars
  <2>3. Places(i)'
    BY <1>10, <1>q, SayFacts DEF OutData, Goto, Say, SessionInv, Places, ShellTypeOK,
       Callers, tableVars, mutexVars, ptyVars
  <2>4. Closing(i)'
    BY <1>10, <1>q, SayFacts DEF OutData, Goto, Say, SessionInv, Closing, ShellTypeOK,
       Callers, tableVars, mutexVars, ptyVars
  <2>5. Spoken(i)'
    BY <1>10, <1>q, SayFacts DEF OutData, Goto, Say, SessionInv, Spoken, ShellTypeOK,
       Callers, tableVars, mutexVars, ptyVars
  <2> QED
    BY <2>1, <2>2, <2>3, <2>4, <2>5 DEF SessionInv
<1>11. ASSUME NEW i \in Shells, LoopWatch(i)
      PROVE  \A j \in Shells : SessionInv(j)'
  <2>1. ASSUME NEW j \in Shells, j # i
        PROVE  SessionInv(j)'
    BY <1>11, <2>1, <1>q, Frame DEF LoopWatch, Goto, ShellTypeOK, Callers, tableVars,
       mutexVars, ptyVars
  <2>2. NoSession(i)'
    BY <1>11, <1>q DEF LoopWatch, Goto, SessionInv, NoSession, ShellTypeOK, Callers,
       tableVars, mutexVars, ptyVars
  <2>3. Places(i)'
    BY <1>11, <1>q DEF LoopWatch, Goto, SessionInv, Places, ShellTypeOK, Callers,
       tableVars, mutexVars, ptyVars
  <2>4. Closing(i)'
    BY <1>11, <1>q DEF LoopWatch, Goto, SessionInv, Closing, ShellTypeOK, Callers,
       tableVars, mutexVars, ptyVars
  <2>5. Spoken(i)'
    BY <1>11, <1>q DEF LoopWatch, Goto, SessionInv, Spoken, ShellTypeOK, Callers,
       tableVars, mutexVars, ptyVars
  <2> QED
    BY <2>1, <2>2, <2>3, <2>4, <2>5 DEF SessionInv
<1>12. ASSUME NEW i \in Shells, Reap(i)
      PROVE  \A j \in Shells : SessionInv(j)'
  <2>1. ASSUME NEW j \in Shells, j # i
        PROVE  SessionInv(j)'
    BY <1>12, <2>1, <1>q, Frame DEF Reap, ShellTypeOK, Callers, tableVars, mutexVars,
       ptyVars
  <2>2. NoSession(i)'
    BY <1>12, <1>q DEF Reap, SessionInv, NoSession, ShellTypeOK, Callers, mutexVars,
       ptyVars
  <2>3. Places(i)'
    BY <1>12, <1>q DEF Reap, SessionInv, Places, ShellTypeOK, Callers, mutexVars,
       ptyVars
  <2>4. Closing(i)'
    BY <1>12, <1>q DEF Reap, SessionInv, Closing, ShellTypeOK, Callers, mutexVars,
       ptyVars
  <2>5. Spoken(i)'
    BY <1>12, <1>q DEF Reap, SessionInv, Spoken, ShellTypeOK, Callers, mutexVars,
       ptyVars
  <2> QED
    BY <2>1, <2>2, <2>3, <2>4, <2>5 DEF SessionInv
<1>13. ASSUME NEW i \in Shells, ShellExit(i)
      PROVE  \A j \in Shells : SessionInv(j)'
  <2>1. ASSUME NEW j \in Shells, j # i
        PROVE  SessionInv(j)'
    BY <1>13, <2>1, <1>q, Frame DEF ShellExit, ShellTypeOK, Callers, tableVars,
       mutexVars, ptyVars
  <2>2. NoSession(i)'
    BY <1>13, <1>q DEF ShellExit, SessionInv, NoSession, ShellTypeOK, Callers,
       tableVars, mutexVars
  <2>3. Places(i)'
    BY <1>13, <1>q DEF ShellExit, SessionInv, Places, ShellTypeOK, Callers, tableVars,
       mutexVars
  <2>4. Closing(i)'
    BY <1>13, <1>q DEF ShellExit, SessionInv, Closing, ShellTypeOK, Callers,
       tableVars, mutexVars
  <2>5. Spoken(i)'
    BY <1>13, <1>q DEF ShellExit, SessionInv, Spoken, ShellTypeOK, Callers, tableVars,
       mutexVars
  <2> QED
    BY <2>1, <2>2, <2>3, <2>4, <2>5 DEF SessionInv
<1>21. ASSUME NEW i \in Shells, Hangup(i)
       PROVE  \A j \in Shells : SessionInv(j)'
  <2>1. ASSUME NEW j \in Shells, j # i
        PROVE  SessionInv(j)'
    BY <1>21, <2>1, <1>q, Frame DEF Hangup, ShellTypeOK, Callers, tableVars,
       mutexVars, ptyVars
  <2>2. NoSession(i)'
    BY <1>21, <1>q DEF Hangup, SessionInv, NoSession, ShellTypeOK, Callers,
       tableVars, mutexVars
  <2>3. Places(i)'
    BY <1>21, <1>q DEF Hangup, SessionInv, Places, ShellTypeOK, Callers, tableVars,
       mutexVars
  <2>4. Closing(i)'
    BY <1>21, <1>q DEF Hangup, SessionInv, Closing, ShellTypeOK, Callers,
       tableVars, mutexVars
  <2>5. Spoken(i)'
    BY <1>21, <1>q DEF Hangup, SessionInv, Spoken, ShellTypeOK, Callers, tableVars,
       mutexVars
  <2> QED
    BY <2>1, <2>2, <2>3, <2>4, <2>5 DEF SessionInv
<1>14. ASSUME NEW i \in Shells, NEW c \in Callers, StopIdle(c, i)
      PROVE  \A j \in Shells : SessionInv(j)'
  <2>1. ASSUME NEW j \in Shells, j # i
        PROVE  SessionInv(j)'
    BY <1>14, <2>1, <1>q, Frame DEF StopIdle, Goto, ShellTypeOK, Callers, tableVars,
       mutexVars, ptyVars
  <2>2. NoSession(i)'
    BY <1>14, <1>q DEF StopIdle, Goto, SessionInv, NoSession, ShellTypeOK, Callers,
       tableVars, mutexVars, ptyVars
  <2>3. Places(i)'
    BY <1>14, <1>q DEF StopIdle, Goto, SessionInv, Places, ShellTypeOK, Callers,
       tableVars, mutexVars, ptyVars
  <2>4. Closing(i)'
    BY <1>14, <1>q DEF StopIdle, Goto, SessionInv, Closing, ShellTypeOK, Callers,
       tableVars, mutexVars, ptyVars
  <2>5. Spoken(i)'
    BY <1>14, <1>q DEF StopIdle, Goto, SessionInv, Spoken, ShellTypeOK, Callers,
       tableVars, mutexVars, ptyVars
  <2> QED
    BY <2>1, <2>2, <2>3, <2>4, <2>5 DEF SessionInv
<1>15. ASSUME NEW i \in Shells, NEW c \in Callers, StopBegin(c, i)
      PROVE  \A j \in Shells : SessionInv(j)'
  <2>1. ASSUME NEW j \in Shells, j # i
        PROVE  SessionInv(j)'
    <3>1. \A d \in Callers : pc'[d][j] = pc[d][j]
      BY <1>15, <2>1 DEF StopBegin, Goto, ShellTypeOK
    <3>2. /\ pty'[j] = pty[j] /\ shell'[j] = shell[j] /\ said'[j] = said[j]
          /\ reap'[j] = reap[j] /\ running'[j] = running[j] /\ done'[j] = done[j]
          /\ smux'[j] = smux[j] /\ made' = made
      BY <1>15, <2>1 DEF StopBegin, ShellTypeOK, tableVars
    <3> QED
      BY <3>1, <3>2, <1>q, Frame
  <2>2. NoSession(i)'
    BY <1>15, <1>q DEF StopBegin, Goto, SessionInv, NoSession, ShellTypeOK, Callers,
       tableVars
  <2>3. Places(i)'
    BY <1>15, <1>q DEF StopBegin, Goto, SessionInv, Places, ShellTypeOK, Callers,
       tableVars
  <2>4. Closing(i)'
    BY <1>15, <1>q DEF StopBegin, Goto, SessionInv, Closing, ShellTypeOK, Callers,
       tableVars
  <2>5. Spoken(i)'
    BY <1>15, <1>q DEF StopBegin, Goto, SessionInv, NoSession, Places, Closing,
       Spoken, ShellTypeOK, Callers, tableVars
  <2> QED
    BY <2>1, <2>2, <2>3, <2>4, <2>5 DEF SessionInv
<1>16. ASSUME NEW i \in Shells, NEW c \in Callers, StopKill(c, i)
      PROVE  \A j \in Shells : SessionInv(j)'
  <2>1. ASSUME NEW j \in Shells, j # i
        PROVE  SessionInv(j)'
    <3>1. \A d \in Callers : pc'[d][j] = pc[d][j]
      BY <1>16, <2>1 DEF StopKill, Goto, ShellTypeOK
    <3>2. /\ pty'[j] = pty[j] /\ shell'[j] = shell[j] /\ said'[j] = said[j]
          /\ reap'[j] = reap[j] /\ running'[j] = running[j] /\ done'[j] = done[j]
          /\ smux'[j] = smux[j] /\ made' = made
      BY <1>16, <2>1 DEF StopKill, ShellTypeOK, tableVars
    <3> QED
      BY <3>1, <3>2, <1>q, Frame
  <2>2. NoSession(i)'
    BY <1>16, <1>q DEF StopKill, Goto, SessionInv, NoSession, ShellTypeOK, Callers,
       tableVars
  <2>3. Places(i)'
    BY <1>16, <1>q DEF StopKill, Goto, SessionInv, Places, ShellTypeOK, Callers,
       tableVars
  <2>4. Closing(i)'
    BY <1>16, <1>q DEF StopKill, Goto, SessionInv, NoSession, Places, Closing, Spoken,
       ShellTypeOK, Callers, tableVars
  <2>5. Spoken(i)'
    BY <1>16, <1>q DEF StopKill, Goto, SessionInv, Spoken, ShellTypeOK, Callers,
       tableVars
  <2> QED
    BY <2>1, <2>2, <2>3, <2>4, <2>5 DEF SessionInv
<1>17. ASSUME NEW i \in Shells, NEW c \in Callers, StopExit(c, i)
      PROVE  \A j \in Shells : SessionInv(j)'
  <2>1. ASSUME NEW j \in Shells, j # i
        PROVE  SessionInv(j)'
    BY <1>17, <2>1, <1>q, Frame, SayFacts DEF StopExit, Goto, TrySay, Say,
       ShellTypeOK, Callers, tableVars, mutexVars, ptyVars
  <2>2. NoSession(i)'
    BY <1>17, <1>q, SayFacts DEF StopExit, Goto, TrySay, Say, SessionInv, NoSession,
       ShellTypeOK, Callers, tableVars, ptyVars
  <2>3. Places(i)'
    BY <1>17, <1>q, SayFacts DEF StopExit, Goto, TrySay, Say, SessionInv, Places,
       ShellTypeOK, Callers, tableVars, ptyVars
  <2>4. Closing(i)'
    BY <1>17, <1>q, SayFacts DEF StopExit, Goto, TrySay, Say, SessionInv, Closing,
       ShellTypeOK, Callers, tableVars, ptyVars
  <2>5. Spoken(i)'
    BY <1>17, <1>q, SayFacts DEF StopExit, Goto, TrySay, Say, SessionInv, NoSession,
       Places, Closing, Spoken, ShellTypeOK, Callers, tableVars, ptyVars
  <2> QED
    BY <2>1, <2>2, <2>3, <2>4, <2>5 DEF SessionInv
<1>18. CASE Ask
  BY <1>18, <1>q, Frame DEF Ask, tableVars, mutexVars, ptyVars
<1>19. CASE ServiceStop
  BY <1>19, <1>q, Frame DEF ServiceStop, tableVars, mutexVars, ptyVars
<1>20. CASE UNCHANGED vars
  BY <1>20, <1>q, Frame DEF vars, tableVars, mutexVars, ptyVars
<1> QED
  BY <1>1, <1>2, <1>3, <1>4, <1>5, <1>6, <1>7, <1>8, <1>9, <1>10, <1>11, <1>12, <1>13,
     <1>14, <1>15, <1>16, <1>17, <1>18, <1>19, <1>20, <1>21
  DEF Next, Reader, Out, Loop, Stop, Callers

\* Types, the table and each session, together (service.go:148-295, shell.go:53-156).
THEOREM ShellInvariant == Spec => []ShellInv
<1>1. Init => ShellInv
  <2> SUFFICES ASSUME Init
               PROVE  ShellInv
    OBVIOUS
  <2>1. ShellTypeOK
    BY ShellServiceAssumption DEF Init, ShellTypeOK, None, Shells
  <2>2. Occupied = {}
    BY DEF Init, Occupied
  <2>3. \A i \in Shells : i # None
    BY ShellServiceAssumption DEF Shells, None
  <2>4. TableInv
    BY <2>1, <2>2, <2>3, FS_EmptySet, ShellServiceAssumption DEF Init, TableInv,
       ShellTypeOK,
       Callers
  <2>5. \A i \in Shells : SessionInv(i)
    BY DEF Init, SessionInv, NoSession, Places, Closing, Spoken, Callers
  <2> QED
    BY <2>1, <2>4, <2>5 DEF ShellInv
<1>2. ShellInv /\ [Next]_vars => ShellInv'
  BY TypeStep, TableStep, SessionStep DEF ShellInv
<1> QED
  BY <1>1, <1>2, PTL DEF Spec

\* "MaxShellSessions is the maximum number of concurrent remote shell sessions"
\* (config.go:56): a shell that is alive has its ID in the table, and no two have
\* the same.
THEOREM ShellsLimited == Spec => []ProcessLimit
<1>1. ShellInv => ProcessLimit
  <2> SUFFICES ASSUME ShellInv, ~Quitting
               PROVE  Cardinality(Alive) <= limit
    BY DEF ProcessLimit
  <2>1. \A i \in Alive : i \in Shells /\ sessions[sid[i]] = i
    BY DEF ShellInv, TableInv, SessionInv, Closing, Alive
  <2>2. \A i \in Alive : sid[i] \in Occupied
    BY <2>1, ShellServiceAssumption DEF ShellInv, ShellTypeOK, Occupied, Shells, None
  <2> DEFINE f == [i \in Alive |-> sid[i]]
  <2>3. f \in Injection(Alive, Occupied)
    BY <2>1, <2>2 DEF Injection, IsInjective
  <2>4. IsFiniteSet(Occupied)
    BY ShellServiceAssumption, FS_Subset DEF Occupied
  <2>5. Cardinality(Alive) <= Cardinality(Occupied)
    BY <2>3, <2>4, FS_Injection
  <2>6. Cardinality(Occupied) <= limit /\ Cardinality(Occupied) \in Nat /\ limit \in Nat
    BY <2>4, FS_CardinalityType, ShellServiceAssumption DEF ShellInv, ShellTypeOK,
       TableInv
  <2>7. Cardinality(Alive) \in Nat
    BY <2>3, <2>4, FS_Injection, FS_CardinalityType
  <2> QED
    BY <2>5, <2>6, <2>7
<1> QED
  BY <1>1, ShellInvariant, PTL

\* An entry changes hands only when its session is over or the service stops: a
\* new session takes a free entry, and a reaper that is still there has its own.
THEOREM EntriesAreOwn == Spec => OwnEntryOnly
<1>1. ASSUME ShellInv, [Next]_vars, NEW id \in Ids,
             sessions[id] # None, sessions'[id] # sessions[id]
      PROVE  Quitting \/ done[sessions[id]]
  <2> USE <1>1 DEF ShellInv, ShellTypeOK
  <2>1. ASSUME NEW i \in Shells, CreateShell(i)
        PROVE  FALSE
    BY <2>1 DEF CreateShell, Create
  <2>2. ASSUME NEW i \in Shells, Reap(i)
        PROVE  Quitting \/ done[sessions[id]]
    <3>1. sid[i] = id /\ (Quitting \/ done[i])
      BY <2>2 DEF Reap
    <3>2. sessions[sid[i]] = i
      BY <2>2 DEF Reap, TableInv
    <3> QED
      BY <3>1, <3>2
  <2> QED
    BY <2>1, <2>2
    DEF Next, vars, tableVars, RefuseShell, HandleData, HandleClosed, Handle, WriteTaken,
        WriteFails, Reader, Out, Loop, OutReady, OutRead, OutReadFails, OutData,
        LoopWatch, Stop, StopIdle, StopBegin, StopKill, StopExit, ShellExit, Hangup, Ask,
        ServiceStop
<1>2. ShellInv /\ [Next]_vars =>
        [\A id \in Ids : sessions[id] # None /\ sessions'[id] # sessions[id] =>
           Quitting \/ done[sessions[id]]]_vars
  BY <1>1
<1> QED
  BY <1>2, ShellInvariant, PTL DEF Spec, OwnEntryOnly

\* A step that leaves a session's PTY, shell and done alone is none of its PTY's.
LEMMA PtyFrame ==
  ASSUME NEW i \in Shells, pty'[i] = pty[i], shell'[i] = shell[i], done'[i] = done[i]
  PROVE  UNCHANGED P(i)!pvars
  BY DEF P!pvars

\* The steps of another session do.
LEMMA PtyOther ==
  ASSUME ShellTypeOK, NEW i \in Shells, NEW j \in Shells, j # i, NEW c \in Callers,
         CreateShell(j) \/ StopBegin(c, j) \/ StopKill(c, j) \/ ShellExit(j)
         \/ Hangup(j)
  PROVE  UNCHANGED P(i)!pvars
<1> USE DEF ShellTypeOK
<1>1. CASE CreateShell(j)
  BY <1>1, PtyFrame DEF CreateShell, Create
<1>2. CASE StopBegin(c, j)
  BY <1>2, PtyFrame DEF StopBegin
<1>3. CASE StopKill(c, j)
  BY <1>3, PtyFrame DEF StopKill
<1>4. CASE ShellExit(j)
  BY <1>4, PtyFrame DEF ShellExit, mutexVars
<1>5. CASE Hangup(j)
  BY <1>5, PtyFrame DEF Hangup, mutexVars
<1> QED
  BY <1>1, <1>2, <1>3, <1>4, <1>5

\* Every step is one of a session's abstract PTY, or leaves it alone.
LEMMA PtyStep ==
  ASSUME ShellInv, [Next]_vars, NEW i \in Shells
  PROVE  [P(i)!Next]_(P(i)!pvars)
<1> USE DEF ShellInv, ShellTypeOK, SessionInv, NoSession, Places, Closing, Callers
<1>1. ASSUME NEW j \in Shells, CreateShell(j)
      PROVE  [P(i)!Next]_(P(i)!pvars)
  <2>1. CASE j = i
    <3>1. i > made
      BY <1>1, <2>1, ShellServiceAssumption DEF CreateShell, Shells
    <3>2. pty[i] = "none" /\ shell[i] = "none" /\ pty'[i] = "open" /\ shell'[i] = "alive"
      BY <1>1, <2>1, <3>1 DEF CreateShell, Create
    <3> QED
      BY <3>2 DEF P!Next, P!Open
  <2>2. CASE j # i
    BY <1>1, <2>2, PtyOther
  <2> QED
    BY <2>1, <2>2
<1>2. ASSUME NEW j \in Shells, NEW c \in Callers, StopBegin(c, j)
      PROVE  [P(i)!Next]_(P(i)!pvars)
  <2>1. CASE j = i
    <3>1. pty[i] \in {"open", "hungup"} /\ ~done[i] /\ pty'[i] = "closed" /\ ~done'[i]
          /\ shell'[i] = shell[i]
      BY <1>2, <2>1 DEF StopBegin
    <3> QED
      BY <3>1 DEF P!Next, P!Close
  <2>2. CASE j # i
    BY <1>2, <2>2, PtyOther
  <2> QED
    BY <2>1, <2>2
<1>3. ASSUME NEW j \in Shells, NEW c \in Callers, StopKill(c, j)
      PROVE  [P(i)!Next]_(P(i)!pvars)
  <2>1. CASE j = i
    <3>1. pc[c][i] = "kill" /\ smux[i] # "free"
      BY <1>3, <2>1 DEF StopKill, Goto
    <3>2. pty[i] = "closed" /\ ~done[i]
      BY <3>1
    <3>3. pty'[i] = "closed" /\ done'[i] /\ shell'[i] = "dead"
      BY <1>3, <2>1, <3>2 DEF StopKill
    <3> QED
      BY <3>2, <3>3 DEF P!Next, P!Closed
  <2>2. CASE j # i
    BY <1>3, <2>2, PtyOther
  <2> QED
    BY <2>1, <2>2
<1>4. ASSUME NEW j \in Shells, ShellExit(j)
      PROVE  [P(i)!Next]_(P(i)!pvars)
  <2>1. CASE j = i
    <3>1. shell[i] = "alive" /\ shell'[i] = "dead" /\ UNCHANGED <<pty, done>>
      BY <1>4, <2>1 DEF ShellExit, mutexVars
    <3> QED
      BY <3>1 DEF P!Next, P!Exit
  <2>2. CASE j # i
    BY <1>4, <2>2, PtyOther
  <2> QED
    BY <2>1, <2>2
<1>5. ASSUME NEW j \in Shells, Hangup(j)
      PROVE  [P(i)!Next]_(P(i)!pvars)
  <2>1. CASE j = i
    <3>1. pty[i] = "open" /\ pty'[i] = "hungup" /\ UNCHANGED <<shell, done>>
      BY <1>5, <2>1 DEF Hangup, mutexVars
    <3> QED
      BY <3>1 DEF P!pvars
  <2>2. CASE j # i
    BY <1>5, <2>2, PtyOther
  <2> QED
    BY <2>1, <2>2
<1>6. CASE UNCHANGED <<pty, shell, done>>
  BY <1>6, PtyFrame
<1> QED
  BY <1>1, <1>2, <1>3, <1>4, <1>5, <1>6
  DEF Next, vars, mutexVars, ptyVars, RefuseShell, HandleData, HandleClosed, Handle,
      WriteTaken, WriteFails, Reader, Out, Loop, OutReady, OutRead, OutReadFails, OutData,
      LoopWatch, Reap, Stop, StopIdle, StopExit, Ask, ServiceStop

\* Sessions use their PTYs as module Pty has it (shell.go:72-101), all of them ...
THEOREM RefinesPtys == Spec => ImplementsPtys
<1>1. Init => \A i \in Shells : P(i)!Init
  BY DEF Init, P!Init
<1>2. ShellInv /\ [Next]_vars => [\A i \in Shells : [P(i)!Next]_(P(i)!pvars)]_vars
  BY PtyStep
<1> QED
  BY <1>1, <1>2, ShellInvariant, PTL DEF Spec, ImplementsPtys

\* ... and each: the specification that SessionPTY implements on the other side.
THEOREM EachRefinesPty == ASSUME NEW i \in Shells PROVE Spec => P(i)!Spec
<1>1. Init => P(i)!Init
  BY DEF Init, P!Init
<1>2. ShellInv /\ [Next]_vars => [P(i)!Next]_(P(i)!pvars)
  BY PtyStep
<1> QED
  BY <1>1, <1>2, ShellInvariant, PTL DEF Spec, P!Spec

\* A message moves the abstract stream of its own request.
LEMMA SayStep ==
  ASSUME ShellTypeOK, NEW i \in Shells, NEW kind \in {"ready", "data", "exit"},
         Say(i, kind), said'[i] # "garbled"
  PROVE  [S!Next]_said
  BY DEF Say, ShellTypeOK, S!Next, S!Refuse, S!Ready, S!Data, S!Exit, S!ExitUnopened,
         S!LateData, S!LateReady, S!Move

\* What GARM is sent implements ShellStream, although the output goroutine sends
\* without a lock (shell.go:113-140).
THEOREM RefinesShellStream == Spec => ImplementsShellStream
<1>1. Init => S!Init
  BY DEF Init, S!Init
<1>2. ShellInv /\ ShellInv' /\ [Next]_vars => [S!Next]_said
  <2> SUFFICES ASSUME ShellInv, ShellInv', [Next]_vars
               PROVE  [S!Next]_said
    OBVIOUS
  <2>t. ShellTypeOK
    BY DEF ShellInv
  <2>g. \A i \in Shells : said'[i] # "garbled"
    BY DEF ShellInv, SessionInv, NoSession, Spoken
  <2>1. ASSUME NEW i \in Shells, RefuseShell(i)
        PROVE  [S!Next]_said
    <3>1. said[i] = "silent"
      BY <2>1, ShellServiceAssumption DEF RefuseShell, ShellInv, SessionInv, NoSession,
         ShellTypeOK, Shells
    <3> QED
      BY <2>1, <3>1 DEF RefuseShell, S!Next, S!Refuse, S!Move
  <2>2. ASSUME NEW i \in Shells, OutReady(i)
        PROVE  [S!Next]_said
    BY <2>2, <2>t, <2>g, SayStep DEF OutReady
  <2>3. ASSUME NEW i \in Shells, OutData(i)
        PROVE  [S!Next]_said
    BY <2>3, <2>t, <2>g, SayStep DEF OutData
  <2>4. ASSUME NEW i \in Shells, NEW c \in Callers, StopExit(c, i)
        PROVE  [S!Next]_said
    BY <2>4, <2>t, <2>g, SayStep DEF StopExit, TrySay
  <2>5. CASE UNCHANGED said
    BY <2>5
  <2> QED
    BY <2>1, <2>2, <2>3, <2>4, <2>5
    DEF Next, vars, Callers, CreateShell, Create, HandleData, HandleClosed, Handle,
        WriteTaken, WriteFails, Reader, Out, Loop, OutRead, OutReadFails, LoopWatch,
        Reap,
        Stop, StopIdle, StopBegin, StopKill, ShellExit, Hangup, Ask, ServiceStop
<1> QED
  BY <1>1, <1>2, ShellInvariant, PTL DEF Spec, ImplementsShellStream, S!Spec
=============================================================================
