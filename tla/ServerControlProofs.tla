------------------------ MODULE ServerControlProofs ------------------------
(***************************************************************************)
(* Proofs about ServerControl for any number of logins, run ids, proxy     *)
(* names and any channel capacities.                                       *)
(*                                                                         *)
(* The argument.  RegisterControl waits for ONE control, the one it found  *)
(* in the registry, yet every older control of the run id must be gone     *)
(* when it starts.  ChainInv says why: the controls that logged in before  *)
(* c are exactly the one c waits for and those that one waited for, and a  *)
(* control that was started has outlived all of its own.                   *)
(*                                                                         *)
(* The last part says what can stand still: only a control that hangs, and *)
(* who waits for it.                                                       *)
(***************************************************************************)
EXTENDS ServerControl, FiniteSetTheorems, TLAPS

\* Where the goroutines of one control are, relative to one another.
LatchInv ==
  \A c \in Ctls :
    /\ stoper[c] = "off" <=> svc[c] \in {"new", "wait", "pool"}
    /\ mgr[c] = "off" <=> stoper[c] = "off"
    /\ SendClosed(c) => mgr[c] = "done"
    /\ svc[c] = "new" <=> loginRun[c] = NoRun
    /\ svc[c] = "new" => earlier[c] = {} /\ old[c] = NoCtl

\* How the logins of one run id are chained.
ChainInv ==
  /\ \A c \in Ctls : \A d \in earlier[c] :
        loginRun[d] = loginRun[c] /\ loginRun[d] # NoRun
  /\ \A c \in Ctls : old[c] = NoCtl => \A d \in earlier[c] : AllDone(d)
  /\ \A c \in Ctls : old[c] # NoCtl => earlier[c] = earlier[old[c]] \union {old[c]}
  /\ \A c \in Ctls : svc[c] \notin {"new", "wait"} =>
        \A d \in earlier[c] : AllDone(d)
  /\ \A r \in RunIDs : reg[r] # NoCtl =>
        /\ loginRun[reg[r]] = r
        /\ {d \in Ctls : loginRun[d] = r} = earlier[reg[r]] \union {reg[r]}
  /\ \A r \in RunIDs : reg[r] = NoCtl =>
        \A d \in Ctls : loginRun[d] = r => AllDone(d)
  /\ \A c, d \in Ctls : c # d /\ loginRun[c] = loginRun[d] /\ loginRun[c] # NoRun =>
        c \in earlier[d] \/ d \in earlier[c]

\* The control has been replaced by a later login.
Superseded(c) == \E d \in Ctls : c \in earlier[d]

RespInv ==
  \A c \in Ctls :
    /\ svc[c] # "new" => runID[c] = loginRun[c] \/ Superseded(c)
    /\ svc[c] \notin {"new", "wait"} => respRun[c] = {loginRun[c]} \/ Superseded(c)

NameInv ==
  /\ \A n \in Names, c \in Ctls : pxys[n] = c <=> n \in proxies[c]
  /\ \A c \in Ctls : proxies[c] # {} => mgr[c] # "off" /\ ~AllDone(c)

-----------------------------------------------------------------------------
\* Channels stay within their capacities and every variable keeps its type.
LEMMA TypeNext == TypeOK /\ [Next]_vars => TypeOK'
  <1> SUFFICES ASSUME TypeOK, [Next]_vars PROVE TypeOK'
    OBVIOUS
  <1> USE ControlAssumption DEF TypeOK, loginVars, chanVars, pxyVars
  <1>1. ASSUME NEW c \in Ctls, NEW r \in RunIDs, RegisterControl(c, r) PROVE TypeOK'
    <2>1. runID' \in [Ctls -> RunIDs \union {NoRun}]
      BY <1>1 DEF RegisterControl
    <2>2. allStart' \in [Ctls -> BOOLEAN]
      BY <1>1, Zenon DEF RegisterControl
    <2> QED BY <1>1, <2>1, <2>2 DEF RegisterControl
  <1>2. ASSUME NEW c \in Ctls, ServiceStep(c) PROVE TypeOK'
    <2>1. CASE Start(c) BY <2>1 DEF Start
    <2>2. CASE StartReqWorkConn(c) BY <2>2 DEF StartReqWorkConn
    <2>3. CASE StartSpawn(c) BY <2>3 DEF StartSpawn
    <2>4. CASE NewClient(c) BY <2>4 DEF NewClient
    <2>5. CASE Del(c) BY <2>5 DEF Del
    <2> QED BY <1>2, <2>1, <2>2, <2>3, <2>4, <2>5 DEF ServiceStep
  <1>3. ASSUME NEW c \in Ctls, WriterStep(c) PROVE TypeOK'
    <2>1. CASE WriterWrite(c) BY <2>1 DEF WriterWrite
    <2>2. CASE WriterFails(c) BY <2>2 DEF WriterFails
    <2>3. CASE WriterEnds(c) BY <2>3 DEF WriterEnds
    <2> QED BY <1>3, <2>1, <2>2, <2>3 DEF WriterStep
  <1>4. ASSUME NEW c \in Ctls, ReaderStep(c) \/ ReaderReads(c) PROVE TypeOK'
    <2>1. CASE ReaderReads(c) BY <2>1 DEF ReaderReads
    <2>2. CASE ReaderPuts(c) BY <2>2 DEF ReaderPuts
    <2>3. CASE ReaderEnds(c) BY <2>3 DEF ReaderEnds
    <2> QED BY <1>4, <2>1, <2>2, <2>3 DEF ReaderStep
  <1>5. ASSUME NEW c \in Ctls, ManagerStep(c) PROVE TypeOK'
    <2>1. ASSUME NEW n \in Names, ManagerNewProxy(c, n) PROVE TypeOK'
      <3>1. readLen' \in [Ctls -> 0..ReadCap] BY <2>1 DEF ManagerNewProxy, Receive
      <3>2. pxys' \in [Names -> Ctls \union {NoCtl}]
            /\ proxies' \in [Ctls -> SUBSET Names]
        BY <2>1 DEF ManagerNewProxy
      <3>3. mgr' \in [Ctls -> {"off", "idle", "reply", "lastReply", "done"}]
        BY <2>1 DEF ManagerNewProxy
      <3> QED BY <2>1, <3>1, <3>2, <3>3 DEF ManagerNewProxy
    <2>2. ASSUME NEW n \in Names, ManagerCloseProxy(c, n) PROVE TypeOK'
      <3>1. readLen' \in [Ctls -> 0..ReadCap] BY <2>2 DEF ManagerCloseProxy, Receive
      <3>2. pxys' \in [Names -> Ctls \union {NoCtl}]
            /\ proxies' \in [Ctls -> SUBSET Names]
        BY <2>2 DEF ManagerCloseProxy
      <3> QED BY <2>2, <3>1, <3>2 DEF ManagerCloseProxy
    <2>6. ASSUME NEW n \in Names, ManagerPanics(c, n) PROVE TypeOK'
      <3>1. readLen' \in [Ctls -> 0..ReadCap] BY <2>6 DEF ManagerPanics, Receive
      <3>2. muHeld' \in [Ctls -> BOOLEAN] BY <2>6 DEF ManagerPanics
      <3> QED BY <2>6, <3>1, <3>2 DEF ManagerPanics
    <2>3. CASE ManagerPing(c)
      <3>1. readLen' \in [Ctls -> 0..ReadCap] BY <2>3 DEF ManagerPing, Receive
      <3>2. /\ \E m \in {"reply", "lastReply"} : mgr' = [mgr EXCEPT ![c] = m]
            /\ stale' = stale \/ stale' = [stale EXCEPT ![c] = FALSE]
        BY <2>3, Zenon DEF ManagerPing
      <3>3. mgr' \in [Ctls -> {"off", "idle", "reply", "lastReply", "done"}]
        BY <3>2
      <3>4. stale' \in [Ctls -> BOOLEAN]
        BY <3>2
      <3> QED BY <2>3, <3>1, <3>3, <3>4 DEF ManagerPing
    <2>4. CASE ManagerReplies(c)
      <3>1. allStart' \in [Ctls -> BOOLEAN] BY <2>4, Zenon DEF ManagerReplies
      <3> QED BY <2>4, <3>1 DEF ManagerReplies
    <2>5. CASE ManagerEnds(c) BY <2>5 DEF ManagerEnds
    <2> QED BY <1>5, <2>1, <2>2, <2>3, <2>4, <2>5, <2>6 DEF ManagerStep, ManagerReceives
  <1>6. ASSUME NEW c \in Ctls, StoperStep(c) PROVE TypeOK'
    <2>1. CASE StoperClosesRead(c) BY <2>1 DEF StoperClosesRead
    <2>2. CASE StoperClosesSend(c) BY <2>2 DEF StoperClosesSend
    <2>3. CASE StoperClosesConn(c) BY <2>3 DEF StoperClosesConn
    <2>4. ASSUME NEW n \in Names, StoperClosesProxy(c, n) PROVE TypeOK'
      BY <2>4 DEF StoperClosesProxy, StoperLocks
    <2>5. CASE StoperDone(c) BY <2>5 DEF StoperDone, StoperLocks
    <2>6. CASE CloseClient(c) BY <2>6 DEF CloseClient
    <2>7. CASE StoperPanics(c) BY <2>7 DEF StoperPanics, StoperLocks
    <2> QED BY <1>6, <2>1, <2>2, <2>3, <2>4, <2>5, <2>6, <2>7 DEF StoperStep
  <1>7. ASSUME NEW c \in Ctls, GetWorkConn(c) \/ PeerLost(c) \/ PingAges(c)
        PROVE  TypeOK'
    <2>1. CASE GetWorkConn(c) BY <2>1 DEF GetWorkConn
    <2>2. CASE PeerLost(c) BY <2>2 DEF PeerLost
    <2>3. CASE PingAges(c) BY <2>3 DEF PingAges
    <2> QED BY <1>7, <2>1, <2>2, <2>3
  <1>8. CASE UNCHANGED vars BY <1>8 DEF vars
  <1> QED
    BY <1>1, <1>2, <1>3, <1>4, <1>5, <1>6, <1>7, <1>8 DEF Next, Environment

\* The steps of the writer, the reader, user connections, the peer and the
\* clock touch neither the registry nor the positions the invariants compare.
Quiet(c) ==
  \/ WriterStep(c)
  \/ ReaderStep(c)
  \/ ReaderReads(c)
  \/ GetWorkConn(c)
  \/ PeerLost(c)
  \/ PingAges(c)
  \/ StartReqWorkConn(c)

LEMMA QuietSteps ==
  ASSUME NEW c \in Ctls, Quiet(c)
  PROVE  UNCHANGED <<loginVars, svc, mgr, stoper, pxyVars>>
  BY DEF Quiet, WriterStep, WriterWrite, WriterFails, WriterEnds, ReaderStep,
         ReaderReads, ReaderPuts, ReaderEnds, GetWorkConn, PeerLost, PingAges,
         StartReqWorkConn

\* The manager changes its own position and the proxies, never the registry.
LEMMA ManagerSteps ==
  ASSUME NEW c \in Ctls, ManagerStep(c)
  PROVE  /\ UNCHANGED <<loginVars, svc, stoper>>
         /\ mgr[c] \notin {"off", "done"}
         /\ \/ mgr' = mgr
            \/ \E v \in {"idle", "reply", "lastReply", "done"} :
                 mgr' = [mgr EXCEPT ![c] = v]
  BY DEF ManagerStep, ManagerReceives, ManagerNewProxy, ManagerCloseProxy, ManagerPanics,
         ManagerPing, ManagerReplies, ManagerEnds, Receive

\* The stoper advances one position or closes one proxy.
LEMMA StoperSteps ==
  ASSUME NEW c \in Ctls, StoperStep(c)
  PROVE  /\ UNCHANGED <<loginVars, svc, mgr>>
         /\ stoper[c] # "off"
         /\ \/ stoper' = stoper
            \/ \E v \in {"waitMgr", "waitWriter", "waitReader", "panicked", "count", "end"} :
                 stoper' = [stoper EXCEPT ![c] = v]
  BY DEF StoperStep, StoperClosesRead, StoperClosesSend, StoperClosesConn,
         StoperClosesProxy, StoperPanics, StoperLocks, StoperDone, CloseClient

\* A control that is done stays done.
LEMMA DoneStays ==
  ASSUME TypeOK, NEW c \in Ctls, StoperStep(c), NEW d \in Ctls, AllDone(d)
  PROVE  AllDone(d)'
  BY DEF TypeOK, AllDone, StoperStep, StoperClosesRead, StoperClosesSend,
         StoperClosesConn, StoperClosesProxy, StoperPanics, StoperLocks, StoperDone, CloseClient

\* Every step is one of these.
LEMMA NextCases ==
  ASSUME [Next]_vars
  PROVE  \/ \E c \in Ctls, r \in RunIDs : RegisterControl(c, r)
         \/ \E c \in Ctls : Start(c)
         \/ \E c \in Ctls : StartSpawn(c)
         \/ \E c \in Ctls : NewClient(c)
         \/ \E c \in Ctls : Del(c)
         \/ \E c \in Ctls : ManagerStep(c)
         \/ \E c \in Ctls : StoperStep(c)
         \/ \E c \in Ctls : Quiet(c)
         \/ UNCHANGED vars
  BY DEF Next, ServiceStep, Environment, Quiet

-----------------------------------------------------------------------------
\* The goroutines of a control start together and end in the stoper's order.
LEMMA LatchNext == TypeOK /\ LatchInv /\ [Next]_vars => LatchInv'
  <1> SUFFICES ASSUME TypeOK, LatchInv, [Next]_vars PROVE LatchInv'
    OBVIOUS
  <1> USE ControlAssumption DEF TypeOK, LatchInv, SendClosed, loginVars, pxyVars
  <1>1. ASSUME NEW c \in Ctls, NEW r \in RunIDs, RegisterControl(c, r) PROVE LatchInv'
    BY <1>1 DEF RegisterControl
  <1>2. ASSUME NEW c \in Ctls, Start(c) PROVE LatchInv'
    BY <1>2 DEF Start
  <1>3. ASSUME NEW c \in Ctls, StartSpawn(c) PROVE LatchInv'
    BY <1>3 DEF StartSpawn
  <1>4. ASSUME NEW c \in Ctls, NewClient(c) PROVE LatchInv'
    BY <1>4 DEF NewClient
  <1>5. ASSUME NEW c \in Ctls, Del(c) PROVE LatchInv'
    BY <1>5 DEF Del
  <1>6. ASSUME NEW c \in Ctls, ManagerStep(c) PROVE LatchInv'
    BY <1>6, ManagerSteps
  <1>7. ASSUME NEW c \in Ctls, StoperStep(c) PROVE LatchInv'
    <2>1. stoper' = [stoper EXCEPT ![c] = "waitWriter"] /\ stoper[c] = "waitMgr" => mgr[c] = "done"
      BY <1>7 DEF StoperStep, StoperClosesRead, StoperClosesSend, StoperClosesConn,
                  StoperClosesProxy, StoperPanics, StoperLocks, StoperDone, CloseClient
    <2>2. \/ stoper' = stoper
          \/ stoper' = [stoper EXCEPT ![c] = "waitMgr"] /\ stoper[c] = "waitStart"
          \/ stoper' = [stoper EXCEPT ![c] = "waitWriter"] /\ stoper[c] = "waitMgr"
          \/ /\ SendClosed(c)
             /\ stoper' \in {[stoper EXCEPT ![c] = "waitReader"],
                             [stoper EXCEPT ![c] = "panicked"],
                             [stoper EXCEPT ![c] = "count"],
                             [stoper EXCEPT ![c] = "end"]}
      BY <1>7 DEF StoperStep, StoperClosesRead, StoperClosesSend, StoperClosesConn,
                  StoperClosesProxy, StoperPanics, StoperLocks, StoperDone, CloseClient
    <2> QED BY <1>7, <2>1, <2>2, StoperSteps
  <1>8. ASSUME NEW c \in Ctls, Quiet(c) PROVE LatchInv'
    BY <1>8, QuietSteps
  <1>9. CASE UNCHANGED vars
    BY <1>9 DEF vars
  <1> QED
    BY NextCases, <1>1, <1>2, <1>3, <1>4, <1>5, <1>6, <1>7, <1>8, <1>9

\* A step that leaves the registry and the positions of RegisterControl alone,
\* and lets no control become undone, keeps the chain.
LEMMA ChainQuiet ==
  ASSUME ChainInv, UNCHANGED <<loginVars, svc>>, \A d \in Ctls : AllDone(d) => AllDone(d)',
         TypeOK
  PROVE  ChainInv'
  BY DEF ChainInv, loginVars, TypeOK

\* A control that is done has been started.
LEMMA DoneWasStarted ==
  ASSUME TypeOK, LatchInv, NEW c \in Ctls, AllDone(c)
  PROVE  svc[c] \notin {"new", "wait", "pool"}
  BY DEF TypeOK, LatchInv, AllDone

\* The chain of logins survives a new login, a start, and a late Del.
LEMMA ChainNext == TypeOK /\ LatchInv /\ ChainInv /\ [Next]_vars => ChainInv'
  <1> SUFFICES ASSUME TypeOK, LatchInv, ChainInv, [Next]_vars PROVE ChainInv'
    OBVIOUS
  <1> USE ControlAssumption
  <1>1. ASSUME NEW c \in Ctls, NEW r \in RunIDs, RegisterControl(c, r) PROVE ChainInv'
    <2>1. /\ loginRun[c] = NoRun /\ r # NoRun
          /\ loginRun' = [loginRun EXCEPT ![c] = r]
          /\ old' = [old EXCEPT ![c] = reg[r]]
          /\ reg' = [reg EXCEPT ![r] = c]
          /\ earlier' = [earlier EXCEPT ![c] = {d \in Ctls : loginRun[d] = r}]
          /\ svc' = [svc EXCEPT ![c] = "wait"]
          /\ UNCHANGED stoper
      BY <1>1 DEF RegisterControl, LatchInv
    <2>2. \A d \in Ctls : c \notin earlier[d]
      BY <2>1 DEF ChainInv
    <2>3. reg[r] # c /\ \A d \in Ctls : old[d] # c
      BY <2>1, <2>2 DEF ChainInv, TypeOK
    <2>4. \A d \in Ctls : AllDone(d)' <=> AllDone(d)
      BY <2>1 DEF AllDone
    <2>5. (\A e \in Ctls : \A d \in earlier[e] :
             loginRun[d] = loginRun[e] /\ loginRun[d] # NoRun)'
      BY <2>1, <2>2 DEF ChainInv, TypeOK, LatchInv
    <2>6. (\A e \in Ctls : old[e] = NoCtl => \A d \in earlier[e] : AllDone(d))'
      BY <2>1, <2>4 DEF ChainInv, TypeOK
    <2>7. (\A e \in Ctls : old[e] # NoCtl =>
             earlier[e] = earlier[old[e]] \union {old[e]})'
      BY <2>1, <2>3 DEF ChainInv, TypeOK
    <2>8. (\A e \in Ctls : svc[e] \notin {"new", "wait"} =>
             \A d \in earlier[e] : AllDone(d))'
      BY <2>1, <2>4 DEF ChainInv, TypeOK
    <2>9. (\A q \in RunIDs : reg[q] # NoCtl =>
             /\ loginRun[reg[q]] = q
             /\ {d \in Ctls : loginRun[d] = q} = earlier[reg[q]] \union {reg[q]})'
      <3> SUFFICES ASSUME NEW q \in RunIDs, reg'[q] # NoCtl
                   PROVE  /\ loginRun'[reg'[q]] = q
                          /\ {d \in Ctls : loginRun'[d] = q}
                                = earlier'[reg'[q]] \union {reg'[q]}
        OBVIOUS
      <3>1. CASE q = r
        BY <3>1, <2>1 DEF TypeOK
      <3>2. CASE q # r
        <4>1. reg'[q] = reg[q] /\ reg[q] \in Ctls /\ reg[q] # c
          BY <3>2, <2>1 DEF TypeOK, ChainInv
        <4>2. {d \in Ctls : loginRun'[d] = q} = {d \in Ctls : loginRun[d] = q}
          BY <3>2, <2>1 DEF TypeOK
        <4> QED BY <4>1, <4>2, <2>1 DEF TypeOK, ChainInv
      <3> QED BY <3>1, <3>2
    <2>10. (\A q \in RunIDs : reg[q] = NoCtl =>
             \A d \in Ctls : loginRun[d] = q => AllDone(d))'
      BY <2>1, <2>4 DEF ChainInv, TypeOK
    <2>11. (\A e, d \in Ctls : e # d /\ loginRun[e] = loginRun[d] /\ loginRun[e] # NoRun =>
             e \in earlier[d] \/ d \in earlier[e])'
      BY <2>1 DEF ChainInv, TypeOK
    <2> QED BY <2>5, <2>6, <2>7, <2>8, <2>9, <2>10, <2>11 DEF ChainInv
  <1>2. ASSUME NEW c \in Ctls, Start(c) PROVE ChainInv'
    <2>1. \A d \in earlier[c] : AllDone(d)
      <3>1. CASE old[c] = NoCtl
        BY <3>1 DEF ChainInv
      <3>2. CASE old[c] # NoCtl
        <4>1. old[c] \in Ctls /\ AllDone(old[c])
          BY <1>2, <3>2 DEF Start, TypeOK
        <4>2. \A d \in earlier[old[c]] : AllDone(d)
          BY <4>1, DoneWasStarted DEF ChainInv
        <4> QED BY <3>2, <4>1, <4>2 DEF ChainInv
      <3> QED BY <3>1, <3>2
    <2> QED BY <1>2, <2>1 DEF Start, ChainInv, AllDone, TypeOK
  <1>3. ASSUME NEW c \in Ctls, StartSpawn(c) \/ NewClient(c) PROVE ChainInv'
    <2>1. /\ UNCHANGED loginVars
          /\ \A d \in Ctls : AllDone(d) => AllDone(d)'
          /\ svc[c] \notin {"new", "wait"} /\ \E v \in {"count", "watch"} : svc' = [svc EXCEPT ![c] = v]
      BY <1>3, DoneWasStarted DEF StartSpawn, NewClient, AllDone, TypeOK
    <2> QED BY <2>1 DEF ChainInv, loginVars, TypeOK
  <1>4. ASSUME NEW c \in Ctls, Del(c) PROVE ChainInv'
    <2>1. CASE reg[loginRun[c]] # c
      BY <1>4, <2>1 DEF Del, ChainInv, AllDone, TypeOK
    <2>2. CASE reg[loginRun[c]] = c
      <3>1. loginRun[c] \in RunIDs /\ AllDone(c) /\ c # NoCtl
        BY <1>4 DEF Del, LatchInv, TypeOK
      <3>2. \A d \in Ctls : loginRun[d] = loginRun[c] => AllDone(d)
        BY <3>1, <2>2, DoneWasStarted DEF ChainInv
      <3> QED BY <1>4, <2>2, <3>1, <3>2 DEF Del, ChainInv, AllDone, TypeOK
    <2> QED BY <2>1, <2>2
  <1>5. ASSUME NEW c \in Ctls, ManagerStep(c) PROVE ChainInv'
    BY <1>5, ManagerSteps, ChainQuiet DEF AllDone
  <1>6. ASSUME NEW c \in Ctls, StoperStep(c) PROVE ChainInv'
    BY <1>6, StoperSteps, DoneStays, ChainQuiet
  <1>7. ASSUME NEW c \in Ctls, Quiet(c) PROVE ChainInv'
    BY <1>7, QuietSteps, ChainQuiet DEF AllDone
  <1>8. CASE UNCHANGED vars
    BY <1>8, ChainQuiet DEF vars, AllDone
  <1> QED
    BY NextCases, <1>1, <1>2, <1>3, <1>4, <1>5, <1>6, <1>7, <1>8

-----------------------------------------------------------------------------
\* Names enter and leave the two tables together, and the stoper is past the
\* manager's last registration when it gives the names back.
LEMMA NameNext ==
  ASSUME TypeOK, LatchInv, NameInv, [Next]_vars, LatchInv', TypeOK'
  PROVE  NameInv'
  <1> USE ControlAssumption
  <1>1. ASSUME NEW c \in Ctls, ManagerStep(c) PROVE NameInv'
    <2>0. mgr' = mgr \/ \E v \in {"idle", "reply", "lastReply", "done"} :
                          mgr' = [mgr EXCEPT ![c] = v]
      BY <1>1, ManagerSteps
    <2>1. stoper' = stoper /\ \A d \in Ctls : mgr[d] # "off" => mgr'[d] # "off"
      BY <1>1, <2>0, ManagerSteps DEF TypeOK
    <2>6. mgr[c] # "off"
      BY <1>1, ManagerSteps
    <2>2. ~AllDone(c)
      BY <1>1, ManagerSteps DEF AllDone, LatchInv, SendClosed, TypeOK
    <2>3. \/ UNCHANGED <<proxies, pxys>>
          \/ \E n \in Names : /\ pxys[n] = NoCtl
                              /\ pxys' = [pxys EXCEPT ![n] = c]
                              /\ proxies' = [proxies EXCEPT ![c] = @ \union {n}]
          \/ \E n \in Names : /\ n \in proxies[c]
                              /\ pxys' = [pxys EXCEPT ![n] = NoCtl]
                              /\ proxies' = [proxies EXCEPT ![c] = @ \ {n}]
      BY <1>1 DEF ManagerStep, ManagerReceives, ManagerNewProxy, ManagerCloseProxy, ManagerPanics,
                  ManagerPing, ManagerReplies, ManagerEnds, pxyVars
    <2>4. (\A n \in Names, d \in Ctls : pxys[n] = d <=> n \in proxies[d])'
      BY <2>3 DEF NameInv, TypeOK, pxyVars
    <2>5. \A d \in Ctls \ {c} : proxies'[d] = proxies[d]
      BY <2>3 DEF TypeOK, pxyVars
    <2> QED BY <2>1, <2>2, <2>4, <2>5, <2>6 DEF NameInv, AllDone
  <1>2. ASSUME NEW c \in Ctls, StoperStep(c) PROVE NameInv'
    <2>0. \/ stoper' = stoper
          \/ \E v \in {"waitMgr", "waitWriter", "waitReader", "panicked", "count", "end"} :
               stoper' = [stoper EXCEPT ![c] = v]
      BY <1>2, StoperSteps
    <2>1. mgr' = mgr /\ \A d \in Ctls \ {c} : AllDone(d)' <=> AllDone(d)
      BY <1>2, <2>0, StoperSteps DEF AllDone, TypeOK
    <2>2. \/ UNCHANGED <<proxies, pxys>>
          \/ \E n \in Names : /\ n \in proxies[c]
                              /\ pxys' = [pxys EXCEPT ![n] = NoCtl]
                              /\ proxies' = [proxies EXCEPT ![c] = proxies[c] \ {n}]
      BY <1>2 DEF StoperStep, StoperClosesRead, StoperClosesSend, StoperClosesConn,
                  StoperClosesProxy, StoperPanics, StoperLocks, StoperDone, CloseClient, pxyVars
    <2>3. AllDone(c)' => proxies'[c] = {}
      <3>1. CASE AllDone(c)
        BY <3>1, <2>2 DEF NameInv, TypeOK, pxyVars
      <3>2. CASE ~AllDone(c)
        BY <1>2, <3>2 DEF StoperStep, StoperClosesRead, StoperClosesSend, StoperClosesConn,
              StoperClosesProxy, StoperPanics, StoperLocks, StoperDone, CloseClient, pxyVars, AllDone, TypeOK
      <3> QED BY <3>1, <3>2
    <2>4. /\ (\A n \in Names, d \in Ctls : pxys[n] = d <=> n \in proxies[d])'
          /\ \A d \in Ctls : proxies'[d] # {} => proxies[d] # {}
      <3>1. CASE UNCHANGED <<proxies, pxys>>
        BY <3>1 DEF NameInv, pxyVars
      <3>2. ASSUME NEW n \in Names, n \in proxies[c],
                   pxys' = [pxys EXCEPT ![n] = NoCtl],
                   proxies' = [proxies EXCEPT ![c] = proxies[c] \ {n}]
            PROVE  <2>4!1 /\ <2>4!2
        BY <3>2 DEF NameInv, TypeOK
      <3> QED BY <2>2, <3>1, <3>2
    <2> QED BY <2>1, <2>3, <2>4 DEF NameInv
  <1>3. ASSUME NEW c \in Ctls, NEW r \in RunIDs, RegisterControl(c, r) PROVE NameInv'
    BY <1>3 DEF RegisterControl, NameInv, AllDone, pxyVars
  <1>4. ASSUME NEW c \in Ctls, Start(c) \/ NewClient(c) \/ Del(c) PROVE NameInv'
    BY <1>4 DEF Start, NewClient, Del, NameInv, AllDone, pxyVars
  <1>5. ASSUME NEW c \in Ctls, StartSpawn(c) PROVE NameInv'
    BY <1>5 DEF StartSpawn, NameInv, AllDone, pxyVars, TypeOK
  <1>6. ASSUME NEW c \in Ctls, Quiet(c) PROVE NameInv'
    BY <1>6, QuietSteps DEF NameInv, AllDone, pxyVars
  <1>7. CASE UNCHANGED vars
    BY <1>7 DEF vars, NameInv, AllDone, pxyVars
  <1> QED
    BY NextCases, <1>1, <1>2, <1>3, <1>4, <1>5, <1>6, <1>7

\* A run id is emptied only by a later login, which stays on record.
LEMMA RespNext ==
  ASSUME TypeOK, LatchInv, ChainInv, RespInv, [Next]_vars
  PROVE  RespInv'
  <1> USE ControlAssumption DEF RespInv, Superseded
  <1>1. ASSUME NEW c \in Ctls, NEW r \in RunIDs, RegisterControl(c, r) PROVE RespInv'
    <2>1. /\ loginRun[c] = NoRun /\ earlier[c] = {}
          /\ svc' = [svc EXCEPT ![c] = "wait"]
          /\ loginRun' = [loginRun EXCEPT ![c] = r]
          /\ earlier' = [earlier EXCEPT ![c] = {d \in Ctls : loginRun[d] = r}]
          /\ respRun' = respRun
          /\ runID'[c] = r
      BY <1>1 DEF RegisterControl, LatchInv
    <2>2. \A d \in Ctls : Superseded(d) => Superseded(d)'
      BY <2>1 DEF TypeOK
    <2>3. \A d \in Ctls \ {c} : runID'[d] = runID[d] \/ d = reg[r]
      BY <1>1 DEF RegisterControl
    <2>4. \A d \in Ctls \ {c} : d = reg[r] => Superseded(d)'
      <3>1. \A d \in Ctls \ {c} : d = reg[r] => loginRun[d] = r
        BY DEF ChainInv
      <3> QED BY <2>1, <3>1 DEF TypeOK
    <2> QED BY <2>1, <2>2, <2>3, <2>4 DEF TypeOK
  <1>2. ASSUME NEW c \in Ctls, Start(c) PROVE RespInv'
    BY <1>2 DEF Start, TypeOK
  <1>3. ASSUME NEW c \in Ctls, StartSpawn(c) \/ NewClient(c) \/ Del(c) PROVE RespInv'
    BY <1>3 DEF StartSpawn, NewClient, Del, TypeOK, loginVars
  <1>4. ASSUME NEW c \in Ctls, ManagerStep(c) \/ StoperStep(c) \/ Quiet(c)
        PROVE  RespInv'
    <2>1. UNCHANGED <<loginVars, svc>>
      BY <1>4, ManagerSteps, StoperSteps, QuietSteps
    <2> QED BY <2>1 DEF loginVars
  <1>5. CASE UNCHANGED vars
    BY <1>5 DEF vars, loginVars
  <1> QED
    BY NextCases, <1>1, <1>2, <1>3, <1>4, <1>5

\* Whoever is newest stays registered until its own Del.
LEMMA LatestNext ==
  ASSUME TypeOK, LatchInv, ChainInv, LatestIsRegistered, [Next]_vars
  PROVE  LatestIsRegistered'
  <1> USE ControlAssumption
  <1>1. ASSUME NEW c \in Ctls, NEW r \in RunIDs, RegisterControl(c, r)
        PROVE  LatestIsRegistered'
    <2>1. /\ loginRun[c] = NoRun /\ earlier[c] = {}
          /\ svc' = [svc EXCEPT ![c] = "wait"]
          /\ loginRun' = [loginRun EXCEPT ![c] = r]
          /\ earlier' = [earlier EXCEPT ![c] = {d \in Ctls : loginRun[d] = r}]
          /\ reg' = [reg EXCEPT ![r] = c]
      BY <1>1 DEF RegisterControl, LatchInv
    <2>2. \A d \in Ctls \ {c} : loginRun[d] = r => d \in earlier'[c]
      BY <2>1 DEF TypeOK
    <2>3. \A d, e \in Ctls : d \in earlier[e] => d \in earlier'[e]
      BY <2>1 DEF TypeOK
    <2>4. \A d \in Ctls \ {c} : svc[d] # "new" => loginRun[d] \in RunIDs
      BY DEF LatchInv, TypeOK
    <2> QED BY <2>1, <2>2, <2>3, <2>4 DEF LatestIsRegistered, TypeOK
  <1>2. ASSUME NEW c \in Ctls, Start(c) \/ StartSpawn(c) \/ NewClient(c)
        PROVE  LatestIsRegistered'
    <2>1. /\ UNCHANGED <<reg, loginRun, earlier>>
          /\ \A d \in Ctls : svc'[d] \notin {"new", "gone"} => svc[d] \notin {"new", "gone"}
      BY <1>2 DEF Start, StartSpawn, NewClient, TypeOK, loginVars
    <2> QED BY <2>1 DEF LatestIsRegistered
  <1>3. ASSUME NEW c \in Ctls, Del(c) PROVE LatestIsRegistered'
    <2>1. /\ UNCHANGED <<loginRun, earlier>>
          /\ loginRun[c] \in RunIDs
          /\ svc' = [svc EXCEPT ![c] = "gone"]
          /\ \A q \in RunIDs : reg'[q] = reg[q] \/ (reg[q] = c /\ q = loginRun[c])
      BY <1>3 DEF Del, LatchInv, TypeOK
    <2>2. \A d \in Ctls : svc[d] # "new" => loginRun[d] \in RunIDs
      BY DEF LatchInv, TypeOK
    <2> QED BY <2>1, <2>2 DEF LatestIsRegistered, TypeOK
  <1>4. ASSUME NEW c \in Ctls, ManagerStep(c) \/ StoperStep(c) \/ Quiet(c)
        PROVE  LatestIsRegistered'
    <2>1. UNCHANGED <<loginVars, svc>>
      BY <1>4, ManagerSteps, StoperSteps, QuietSteps
    <2> QED BY <2>1 DEF loginVars, LatestIsRegistered
  <1>5. CASE UNCHANGED vars
    BY <1>5 DEF vars, loginVars, LatestIsRegistered
  <1> QED
    BY NextCases, <1>1, <1>2, <1>3, <1>4, <1>5

-----------------------------------------------------------------------------
ControlInv ==
  /\ TypeOK
  /\ LatchInv
  /\ ChainInv
  /\ NameInv
  /\ RespInv
  /\ LatestIsRegistered

LEMMA ControlInvInit == Init => ControlInv
  <1> SUFFICES ASSUME Init PROVE ControlInv
    OBVIOUS
  <1> USE ControlAssumption DEF Init
  <1>1. TypeOK BY DEF TypeOK
  <1>2. LatchInv BY DEF LatchInv, SendClosed
  <1>3. ChainInv BY DEF ChainInv
  <1>4. NameInv BY DEF NameInv, AllDone
  <1>5. RespInv BY DEF RespInv
  <1>6. LatestIsRegistered BY DEF LatestIsRegistered
  <1> QED BY <1>1, <1>2, <1>3, <1>4, <1>5, <1>6 DEF ControlInv

LEMMA ControlInvNext == ControlInv /\ [Next]_vars => ControlInv'
  BY TypeNext, LatchNext, ChainNext, NameNext, RespNext, LatestNext DEF ControlInv

\* The strengthened invariant holds in every reachable state; the theorems
\* below read their property off it.
THEOREM ControlInvariant == Spec => []ControlInv
  BY ControlInvInit, ControlInvNext, PTL DEF Spec

\* Every variable keeps its type: no channel exceeds its capacity and Start
\* asks for at most PoolCount connections.
THEOREM ControlTypes == Spec => []TypeOK
  BY ControlInvariant, PTL DEF ControlInv

\* A control is started only when every older control of its run id is done,
\* so two of them are never live together.
THEOREM OneControlPerRunID == Spec => []OneLiveControl
  <1>1. ControlInv => OneLiveControl
    <2> SUFFICES ASSUME ControlInv, NEW c \in Ctls, NEW d \in Ctls,
                        Live(c), Live(d), loginRun[c] = loginRun[d], c # d
                 PROVE  FALSE
      BY DEF OneLiveControl
    <2>1. loginRun[c] # NoRun
      BY DEF ControlInv, LatchInv, Live
    <2>2. c \in earlier[d] \/ d \in earlier[c]
      BY <2>1 DEF ControlInv, ChainInv
    <2> QED BY <2>2 DEF ControlInv, ChainInv, Live
  <1> QED BY <1>1, ControlInvariant, PTL

\* Del of an old control never removes the newest control of a run id.
THEOREM NewestStaysRegistered == Spec => []LatestIsRegistered
  BY ControlInvariant, PTL DEF ControlInv

\* The stoper gives back every proxy name before it reports the end.
THEOREM NamesFollowLiveControls == Spec => []NamesOwnedByLive
  <1>1. ControlInv => NamesOwnedByLive
    BY DEF ControlInv, NamesOwnedByLive, NameInv, LatchInv, Live
  <1> QED BY <1>1, ControlInvariant, PTL

\* Neither Start nor the manager ever sends on a closed sendCh.
THEOREM SendersOutliveSendCh == Spec => []NoSendOnClosed
  <1>1. ControlInv => NoSendOnClosed
    BY DEF ControlInv, NoSendOnClosed, LatchInv, SendClosed
  <1> QED BY <1>1, ControlInvariant, PTL

\* A wrong run id in a LoginResp means a later login has taken over.
THEOREM RunIDsAnsweredTruly == Spec => []WrongRunIDOnlyIfSuperseded
  <1>1. ControlInv => WrongRunIDOnlyIfSuperseded
    BY DEF ControlInv, WrongRunIDOnlyIfSuperseded, RespInv, Superseded
  <1> QED BY <1>1, ControlInvariant, PTL

-----------------------------------------------------------------------------
\* The status of a control that has not moved is unchanged.
LEMMA StatusUnchanged ==
  ASSUME UNCHANGED <<svc, stoper>>
  PROVE  SessionStatus' = SessionStatus
  BY DEF SessionStatus, Live, AllDone

\* Each step of the controls is a step of the session registry or a stutter.
LEMMA RefinementStep ==
  ASSUME ControlInv, [Next]_vars
  PROVE  [Registry!AbsNext]_(Registry!absVars)
  <1> USE DEF Registry!absVars
  <1>0. TypeOK /\ LatchInv /\ ChainInv
    BY DEF ControlInv
  <1>1. ASSUME NEW c \in Ctls, NEW r \in RunIDs, RegisterControl(c, r)
        PROVE  Registry!LogIn(c, r)
    <2>1. SessionStatus[c] = "new"
      BY <1>1 DEF RegisterControl, SessionStatus, Live, AllDone
    <2>2. SessionStatus' = [SessionStatus EXCEPT ![c] = "waiting"]
      BY <1>0, <1>1 DEF RegisterControl, SessionStatus, Live, AllDone, TypeOK
    <2> QED BY <1>1, <2>1, <2>2 DEF RegisterControl, Registry!LogIn
  <1>2. ASSUME NEW c \in Ctls, Start(c) PROVE Registry!Begin(c)
    <2>1. \A d \in earlier[c] : AllDone(d) /\ d \in Ctls
      <3>1. CASE old[c] = NoCtl
        BY <1>0, <3>1 DEF ChainInv, TypeOK
      <3>2. CASE old[c] # NoCtl
        <4>1. old[c] \in Ctls /\ AllDone(old[c])
          BY <1>0, <1>2, <3>2 DEF Start, TypeOK
        <4>2. \A d \in earlier[old[c]] : AllDone(d)
          BY <1>0, <4>1, DoneWasStarted DEF ChainInv
        <4> QED BY <1>0, <3>2, <4>1, <4>2 DEF ChainInv, TypeOK
      <3> QED BY <3>1, <3>2
    <2>2. \A d \in earlier[c] : SessionStatus[d] = "ended"
      BY <1>0, <2>1, DoneWasStarted DEF SessionStatus, Live, AllDone
    <2>3. SessionStatus[c] = "waiting"
      BY <1>2 DEF Start, SessionStatus, Live, AllDone
    <2>4. ~AllDone(c) /\ stoper' = stoper
      BY <1>0, <1>2 DEF Start, LatchInv, AllDone
    <2>5. SessionStatus' = [SessionStatus EXCEPT ![c] = "live"]
      BY <1>0, <1>2, <2>4 DEF Start, SessionStatus, Live, AllDone, TypeOK
    <2> QED BY <1>2, <2>2, <2>3, <2>5 DEF Start, Registry!Begin
  <1>3. ASSUME NEW c \in Ctls, StartSpawn(c) \/ NewClient(c) \/ Del(c)
        PROVE  UNCHANGED Registry!absVars
    <2>1. UNCHANGED <<loginRun, earlier>>
      BY <1>3 DEF StartSpawn, NewClient, Del, loginVars
    <2>2. /\ svc[c] \notin {"new", "wait"}
          /\ \E v \in {"count", "watch", "gone"} : svc' = [svc EXCEPT ![c] = v]
          /\ \A d \in Ctls : AllDone(d)' <=> AllDone(d)
      BY <1>0, <1>3 DEF StartSpawn, NewClient, Del, AllDone, TypeOK, LatchInv
    <2>3. SessionStatus' = SessionStatus
      BY <1>0, <2>2 DEF SessionStatus, Live, AllDone, TypeOK
    <2> QED BY <2>1, <2>3
  <1>4. ASSUME NEW c \in Ctls, StoperStep(c)
        PROVE  Registry!End(c) \/ UNCHANGED Registry!absVars
    <2>1. UNCHANGED <<loginRun, earlier, svc>>
      BY <1>4, StoperSteps DEF loginVars
    <2>2. svc[c] \notin {"new", "wait"}
      BY <1>0, <1>4, StoperSteps DEF LatchInv
    <2>3. \A d \in Ctls \ {c} : AllDone(d)' <=> AllDone(d)
      BY <1>0, <1>4, StoperSteps DEF AllDone, TypeOK
    <2>4. CASE AllDone(c)' <=> AllDone(c)
      <3>1. SessionStatus' = SessionStatus
        BY <2>1, <2>3, <2>4 DEF SessionStatus, Live, AllDone
      <3> QED BY <2>1, <3>1
    <2>5. CASE ~AllDone(c) /\ AllDone(c)'
      <3>1. SessionStatus[c] = "live"
        BY <2>2, <2>5 DEF SessionStatus, Live, AllDone
      <3>2. SessionStatus' = [SessionStatus EXCEPT ![c] = "ended"]
        BY <2>1, <2>2, <2>3, <2>5 DEF SessionStatus, Live, AllDone
      <3> QED BY <2>1, <3>1, <3>2 DEF Registry!End
    <2>6. AllDone(c) => AllDone(c)'
      BY <1>0, <1>4, DoneStays
    <2> QED BY <2>4, <2>5, <2>6
  <1>5. ASSUME NEW c \in Ctls, ManagerStep(c) \/ Quiet(c)
        PROVE  UNCHANGED Registry!absVars
    BY <1>5, ManagerSteps, QuietSteps, StatusUnchanged DEF loginVars
  <1>6. CASE UNCHANGED vars
    BY <1>6, StatusUnchanged DEF vars, loginVars
  <1> QED
    BY NextCases, <1>1, <1>2, <1>3, <1>4, <1>5, <1>6 DEF Registry!AbsNext

\* The controls of frps implement the abstract registry of sessions.
THEOREM ControlsImplementRegistry == Spec => ImplementsRegistry
  <1>1. Init => Registry!AbsInit
    BY DEF Init, Registry!AbsInit, SessionStatus, Live, AllDone
  <1>2. ControlInv /\ [Next]_vars => [Registry!AbsNext]_(Registry!absVars)
    BY RefinementStep
  <1> QED
    BY <1>1, <1>2, ControlInvariant, PTL
    DEF Spec, ImplementsRegistry, Registry!AbsSpec

-----------------------------------------------------------------------------
(***************************************************************************)
(* What can stand still.  A deadlock of the server is a control none of    *)
(* whose goroutines has a step to take.  Hung says which ones there are.   *)
(***************************************************************************)
\* What the goroutines of a control can do now, by the guards of the steps that Fairness owes it.
ServiceCanGo(c) ==
  \/ svc[c] = "wait" /\ (old[c] # NoCtl => AllDone(old[c]))
  \/ svc[c] = "pool" /\ (poolSent[c] < PoolCount => sendLen[c] < SendCap)
  \/ svc[c] = "count"
  \/ svc[c] = "watch" /\ AllDone(c)

WriterCanGo(c) == writer[c] = "run" /\ (sendLen[c] > 0 \/ SendClosed(c))

ReaderCanGo(c) ==
  \/ reader[c] = "put" /\ (ReadClosed(c) \/ readLen[c] < ReadCap)
  \/ reader[c] = "read" /\ conn[c] = "closed"

ManagerCanGo(c) ==
  \/ mgr[c] = "idle" /\ (readLen[c] > 0 \/ ReadClosed(c) \/ stale[c])
  \/ mgr[c] \in {"reply", "lastReply"} /\ sendLen[c] < SendCap

StoperCanGo(c) ==
  \/ stoper[c] = "waitStart" /\ allStart[c]
  \/ stoper[c] = "waitMgr" /\ mgr[c] = "done"
  \/ stoper[c] = "waitWriter" /\ writer[c] = "done"
  \/ StoperLocks(c)
  \/ stoper[c] = "count"

CanGo(c) ==
  ServiceCanGo(c) \/ WriterCanGo(c) \/ ReaderCanGo(c) \/ ManagerCanGo(c) \/ StoperCanGo(c)

\* The heartbeat of a lost peer has not expired yet.
ClockRuns(c) == conn[c] # "open" /\ mgr[c] \notin {"off", "done"} /\ ~stale[c]

Begun(c) == svc[c] \notin {"new", "wait"}

(* Without a step to take are only, of the controls that shut down, those  *)
(* that are done or hang; of the controls that lost their client also      *)
(* those whose heartbeat runs; and a login only behind a control that      *)
(* hangs.                                                                  *)
StandsOnlyIfHung ==
  \A c \in Ctls :
    /\ Begun(c) /\ allStart[c] => AllDone(c) \/ Hung(c) \/ CanGo(c)
    /\ Begun(c) /\ conn[c] = "lost" => AllDone(c) \/ Hung(c) \/ CanGo(c) \/ ClockRuns(c)
    /\ svc[c] = "wait" => CanGo(c) \/ \E d \in earlier[c] : Hung(d) \/ CanGo(d)

\* What the goroutines of a control leave behind when they end.
EndsInv ==
  \A c \in Ctls :
    /\ Begun(c) => writer[c] # "off"
    /\ stoper[c] # "off" => reader[c] # "off"
    /\ stoper[c] \in {"waitReader", "count", "end"} => conn[c] = "closed"
    /\ mgr[c] = "done" => allStart[c]

\* The logins of a run id form a line without end or circle, and whom one waits for was told to
\* shut down.
LineInv ==
  \A c \in Ctls :
    /\ old[c] # NoCtl => allStart[old[c]]
    /\ c \notin earlier[c]
    /\ \A d \in earlier[c] : earlier[d] \subseteq earlier[c]
    /\ IsFiniteSet(earlier[c])

\* Those that have logged in are finitely many at any time.
FewInv == IsFiniteSet({c \in Ctls : loginRun[c] # NoRun})

StandInv == EndsInv /\ LineInv /\ FewInv

LEMMA StandInit == Init => StandInv
  <1> SUFFICES ASSUME Init PROVE StandInv
    OBVIOUS
  <1>1. EndsInv
    BY DEF Init, EndsInv, Begun
  <1>2. LineInv
    BY FS_EmptySet DEF Init, LineInv
  <1>3. {c \in Ctls : loginRun[c] # NoRun} = {}
    BY DEF Init
  <1> QED BY <1>1, <1>2, <1>3, FS_EmptySet DEF StandInv, FewInv

\* A goroutine that ends starts the shutdown; the stoper closes the connection before it waits
\* for the reader.
LEMMA EndsNext == TypeOK /\ LatchInv /\ EndsInv /\ [Next]_vars => EndsInv'
  <1> SUFFICES ASSUME TypeOK, LatchInv, EndsInv, [Next]_vars PROVE EndsInv'
    OBVIOUS
  <1> USE DEF EndsInv, Begun, TypeOK, loginVars, chanVars, pxyVars
  <1>1. ASSUME NEW c \in Ctls, NEW r \in RunIDs, RegisterControl(c, r) PROVE EndsInv'
    <2>1. /\ svc' = [svc EXCEPT ![c] = "wait"]
          /\ UNCHANGED <<writer, reader, mgr, stoper, conn>>
          /\ \A d \in Ctls : allStart[d] => allStart'[d]
      BY <1>1 DEF RegisterControl
    <2> QED BY <2>1
  <1>2. ASSUME NEW c \in Ctls, ServiceStep(c) PROVE EndsInv'
    <2>1. CASE Start(c) BY <2>1 DEF Start
    <2>2. CASE StartReqWorkConn(c) BY <2>2 DEF StartReqWorkConn
    <2>3. CASE StartSpawn(c) BY <2>3 DEF StartSpawn
    <2>4. CASE NewClient(c) BY <2>4 DEF NewClient
    <2>5. CASE Del(c) BY <2>5 DEF Del
    <2> QED BY <1>2, <2>1, <2>2, <2>3, <2>4, <2>5 DEF ServiceStep
  <1>3. ASSUME NEW c \in Ctls, WriterStep(c) PROVE EndsInv'
    <2>1. /\ writer[c] = "run" /\ writer' \in {writer, [writer EXCEPT ![c] = "done"]}
          /\ allStart' \in {allStart, [allStart EXCEPT ![c] = TRUE]}
          /\ UNCHANGED <<svc, reader, mgr, stoper, conn>>
      BY <1>3 DEF WriterStep, WriterWrite, WriterFails, WriterEnds
    <2> QED BY <2>1
  <1>4. ASSUME NEW c \in Ctls, ReaderStep(c) \/ ReaderReads(c) PROVE EndsInv'
    <2>1. /\ reader[c] # "off" /\ \E v \in {"read", "put", "done"} : reader' = [reader EXCEPT ![c] = v]
          /\ conn' \in {conn, [conn EXCEPT ![c] = "closed"]}
          /\ allStart' \in {allStart, [allStart EXCEPT ![c] = TRUE]}
          /\ UNCHANGED <<svc, writer, mgr, stoper>>
      BY <1>4 DEF ReaderStep, ReaderReads, ReaderPuts, ReaderEnds
    <2> QED BY <2>1
  <1>5. ASSUME NEW c \in Ctls, ManagerStep(c) PROVE EndsInv'
    <2>1. ASSUME NEW n \in Names, ManagerNewProxy(c, n) \/ ManagerCloseProxy(c, n)
          PROVE  EndsInv'
      <3>1. mgr' = mgr \/ \E v \in {"reply", "lastReply"} : mgr' = [mgr EXCEPT ![c] = v]
        BY <2>1 DEF ManagerNewProxy, ManagerCloseProxy
      <3>2. UNCHANGED <<svc, writer, reader, stoper, allStart, conn>>
        BY <2>1 DEF ManagerNewProxy, ManagerCloseProxy
      <3> QED BY <3>1, <3>2
    <2>2. ASSUME NEW n \in Names, ManagerPanics(c, n) PROVE EndsInv'
      BY <2>2 DEF ManagerPanics
    <2>6. CASE ManagerPing(c)
      <3>1. mgr' = mgr \/ \E v \in {"reply", "lastReply"} : mgr' = [mgr EXCEPT ![c] = v]
        BY <2>6 DEF ManagerPing
      <3>2. UNCHANGED <<svc, writer, reader, stoper, allStart, conn>>
        BY <2>6 DEF ManagerPing
      <3> QED BY <3>1, <3>2
    <2>3. CASE ManagerReceives(c)
      BY <2>1, <2>2, <2>3, <2>6 DEF ManagerReceives
    <2>4. CASE ManagerReplies(c)
      <3>1. \A d \in Ctls : allStart[d] => allStart'[d]
        BY <2>4 DEF ManagerReplies
      <3>2. \A d \in Ctls : mgr'[d] = "done" => mgr[d] = "done" \/ allStart'[d]
        BY <2>4 DEF ManagerReplies
      <3>3. UNCHANGED <<svc, writer, reader, stoper, conn>>
        BY <2>4 DEF ManagerReplies
      <3> QED BY <3>1, <3>2, <3>3
    <2>5. CASE ManagerEnds(c) BY <2>5 DEF ManagerEnds
    <2> QED BY <1>5, <2>3, <2>4, <2>5 DEF ManagerStep
  <1>6. ASSUME NEW c \in Ctls, StoperStep(c) PROVE EndsInv'
    <2>1. CASE StoperClosesRead(c) BY <2>1 DEF StoperClosesRead
    <2>2. CASE StoperClosesSend(c) BY <2>2 DEF StoperClosesSend
    <2>3. CASE StoperClosesConn(c) BY <2>3 DEF StoperClosesConn
    <2>4. ASSUME NEW n \in Names, StoperClosesProxy(c, n) PROVE EndsInv'
      BY <2>4 DEF StoperClosesProxy, StoperLocks
    <2>5. CASE StoperDone(c) BY <2>5 DEF StoperDone, StoperLocks
    <2>6. CASE CloseClient(c) BY <2>6 DEF CloseClient
    <2>7. CASE StoperPanics(c) BY <2>7 DEF StoperPanics, StoperLocks
    <2> QED BY <1>6, <2>1, <2>2, <2>3, <2>4, <2>5, <2>6, <2>7 DEF StoperStep
  <1>7. ASSUME NEW c \in Ctls, GetWorkConn(c) \/ PeerLost(c) \/ PingAges(c) PROVE EndsInv'
    <2>1. /\ UNCHANGED <<svc, writer, reader, mgr, stoper, allStart>>
          /\ conn' = conn \/ (conn[c] = "open" /\ conn' = [conn EXCEPT ![c] = "lost"])
      BY <1>7 DEF GetWorkConn, PeerLost, PingAges
    <2> QED BY <2>1
  <1>8. CASE UNCHANGED vars BY <1>8 DEF vars
  <1> QED
    BY <1>1, <1>2, <1>3, <1>4, <1>5, <1>6, <1>7, <1>8 DEF Next, Environment

\* Only a login touches the line, and no shutdown is called off.
LEMMA LineQuiet ==
  ASSUME TypeOK, [Next]_vars
  PROVE  \/ \E c \in Ctls, r \in RunIDs : RegisterControl(c, r)
         \/ /\ UNCHANGED <<loginRun, old, earlier>>
            /\ \A d \in Ctls : allStart[d] => allStart'[d]
  <1> DEFINE Keeps == /\ UNCHANGED <<loginRun, old, earlier>>
                      /\ \A d \in Ctls : allStart[d] => allStart'[d]
  <1> USE DEF TypeOK, loginVars
  <1>1. ASSUME NEW c \in Ctls, ServiceStep(c) PROVE Keeps
    BY <1>1 DEF ServiceStep, Start, StartReqWorkConn, StartSpawn, NewClient, Del
  <1>2. ASSUME NEW c \in Ctls, WriterStep(c) \/ ReaderStep(c) PROVE Keeps
    BY <1>2 DEF WriterStep, WriterWrite, WriterFails, WriterEnds, ReaderStep, ReaderPuts,
                ReaderEnds
  <1>3. ASSUME NEW c \in Ctls, ManagerStep(c) PROVE Keeps
    <2>1. UNCHANGED <<loginRun, old, earlier>>
      BY <1>3, ManagerSteps
    <2>2. CASE ManagerReceives(c) \/ ManagerEnds(c)
      BY <2>1, <2>2 DEF ManagerReceives, ManagerNewProxy, ManagerCloseProxy, ManagerPanics, ManagerPing,
                        ManagerEnds
    <2>3. CASE ManagerReplies(c)
      BY <2>1, <2>3 DEF ManagerReplies
    <2> QED BY <1>3, <2>2, <2>3 DEF ManagerStep
  <1>4. ASSUME NEW c \in Ctls, StoperStep(c) PROVE Keeps
    BY <1>4 DEF StoperStep, StoperClosesRead, StoperClosesSend, StoperClosesConn,
                StoperClosesProxy, StoperPanics, StoperLocks, StoperDone, CloseClient
  <1>5. ASSUME NEW c \in Ctls, ReaderReads(c) \/ GetWorkConn(c) \/ PeerLost(c) \/ PingAges(c)
        PROVE  Keeps
    BY <1>5 DEF ReaderReads, GetWorkConn, PeerLost, PingAges
  <1>6. CASE UNCHANGED vars
    BY <1>6 DEF vars
  <1> QED BY <1>1, <1>2, <1>3, <1>4, <1>5, <1>6 DEF Next, Environment

LEMMA LineNext ==
  ASSUME TypeOK, LatchInv, ChainInv, LineInv, FewInv, [Next]_vars
  PROVE  LineInv' /\ FewInv'
  <1> USE ControlAssumption
  <1>1. ASSUME NEW c \in Ctls, NEW r \in RunIDs, RegisterControl(c, r)
        PROVE  LineInv' /\ FewInv'
    <2> DEFINE Before == {d \in Ctls : loginRun[d] = r}
    <2>1. /\ loginRun[c] = NoRun /\ r # NoRun
          /\ loginRun' = [loginRun EXCEPT ![c] = r]
          /\ old' = [old EXCEPT ![c] = reg[r]]
          /\ earlier' = [earlier EXCEPT ![c] = Before]
          /\ \A d \in Ctls : allStart[d] \/ d = reg[r] => allStart'[d]
      BY <1>1 DEF RegisterControl, LatchInv
    <2>2. IsFiniteSet(Before)
      <3>1. Before \in SUBSET {d \in Ctls : loginRun[d] # NoRun}
        OBVIOUS
      <3> QED BY <3>1, FS_Subset DEF FewInv
    <2>3. FewInv'
      <3>1. {d \in Ctls : loginRun'[d] # NoRun} = {d \in Ctls : loginRun[d] # NoRun} \cup {c}
        BY <2>1 DEF TypeOK
      <3> QED BY <3>1, FS_AddElement DEF FewInv
    <2>4. \A e \in Ctls : c \notin earlier[e]
      BY <2>1 DEF ChainInv
    <2>5. \A d \in Before : d # c /\ earlier[d] \subseteq Before
      BY <2>1 DEF ChainInv, TypeOK
    <2>6. ASSUME NEW e \in Ctls
          PROVE  /\ old'[e] # NoCtl => allStart'[old'[e]]
                 /\ e \notin earlier'[e]
                 /\ \A d \in earlier'[e] : earlier'[d] \subseteq earlier'[e]
                 /\ IsFiniteSet(earlier'[e])
      <3>1. CASE e = c
        <4>1. earlier'[e] = Before /\ old'[e] = reg[r]
          BY <2>1, <3>1 DEF TypeOK
        <4>2. e \notin Before /\ \A d \in Before : earlier'[d] = earlier[d]
          BY <2>1, <2>5, <3>1 DEF TypeOK
        <4>3. reg[r] # NoCtl => allStart'[reg[r]]
          BY <2>1 DEF TypeOK
        <4> HIDE DEF Before
        <4> QED BY <2>2, <2>5, <4>1, <4>2, <4>3
      <3>2. CASE e # c
        <4>1. earlier'[e] = earlier[e] /\ old'[e] = old[e]
          BY <2>1, <3>2 DEF TypeOK
        <4>2. \A d \in earlier[e] : earlier'[d] = earlier[d]
          BY <2>1, <2>4 DEF TypeOK
        <4>3. old[e] # NoCtl => allStart'[old[e]]
          BY <2>1 DEF LineInv, TypeOK
        <4> QED BY <4>1, <4>2, <4>3 DEF LineInv
      <3> QED BY <3>1, <3>2
    <2> QED BY <2>3, <2>6 DEF LineInv
  <1>2. CASE /\ UNCHANGED <<loginRun, old, earlier>>
             /\ \A d \in Ctls : allStart[d] => allStart'[d]
    BY <1>2 DEF LineInv, FewInv, TypeOK
  <1> QED BY <1>1, <1>2, LineQuiet

LEMMA StandNext == ControlInv /\ StandInv /\ [Next]_vars => StandInv'
  BY EndsNext, LineNext DEF ControlInv, StandInv

\* Whoever waits for room in sendCh waits for a writer that runs, or for one that has ended.
LEMMA SendersWait ==
  ASSUME TypeOK, LatchInv, EndsInv, NEW c \in Ctls, Begun(c), ~Hung(c), ~CanGo(c)
  PROVE  svc[c] # "pool" /\ mgr[c] \in {"idle", "done"}
  <1> USE ControlAssumption DEF TypeOK, EndsInv, Begun, CanGo
  <1>1. writer[c] = "run" => sendLen[c] = 0
    BY DEF WriterCanGo
  <1>2. writer[c] = "run" => sendLen[c] < SendCap
    BY <1>1
  <1>3. writer[c] = "run" \/ writer[c] = "done"
    OBVIOUS
  <1>4. ~(sendLen[c] < SendCap) => sendLen[c] = SendCap
    <2>1. sendLen[c] \in 0..SendCap
      OBVIOUS
    <2>2. \A n \in Nat : \A x \in 0..n : ~(x < n) => x = n
      OBVIOUS
    <2>3. SendCap \in Nat
      OBVIOUS
    <2> QED BY ONLY <2>1, <2>2, <2>3
  <1>5. svc[c] # "pool"
    <2> SUFFICES ASSUME svc[c] = "pool" PROVE FALSE
      OBVIOUS
    <2>1. poolSent[c] < PoolCount /\ ~(sendLen[c] < SendCap)
      BY DEF ServiceCanGo
    <2>2. writer[c] = "done"
      BY <1>2, <1>3, <2>1
    <2>3. sendLen[c] = SendCap
      BY <1>4, <2>1
    <2> QED BY <2>1, <2>2, <2>3 DEF Hung, Wedged
  <1>6. mgr[c] \notin {"reply", "lastReply"}
    <2> SUFFICES ASSUME mgr[c] \in {"reply", "lastReply"} PROVE FALSE
      OBVIOUS
    <2>1. ~(sendLen[c] < SendCap)
      BY DEF ManagerCanGo
    <2>2. writer[c] = "done"
      BY <1>2, <1>3, <2>1
    <2>3. sendLen[c] = SendCap
      BY <1>4, <2>1
    <2> QED BY <2>2, <2>3 DEF Hung, Wedged
  <1>7. mgr[c] # "off"
    BY <1>5 DEF LatchInv
  <1> QED BY <1>5, <1>6, <1>7

\* From the latch that stoper waits for back to the goroutine that is to open it.
LEMMA ShutdownGoesOn ==
  ASSUME TypeOK, LatchInv, EndsInv, NEW c \in Ctls, Begun(c), allStart[c], ~Hung(c), ~CanGo(c)
  PROVE  AllDone(c)
  <1>1. svc[c] # "pool" /\ mgr[c] \in {"idle", "done"}
    BY SendersWait
  <1> USE ControlAssumption DEF TypeOK, EndsInv, Begun, CanGo
  <1>2. stoper[c] # "off" /\ stoper[c] # "waitStart"
    BY <1>1 DEF LatchInv, StoperCanGo
  <1>3. stoper[c] # "waitMgr"
    BY <1>1, <1>2 DEF ManagerCanGo, StoperCanGo, ReadClosed
  <1>4. stoper[c] # "waitWriter"
    BY <1>2 DEF WriterCanGo, StoperCanGo, SendClosed
  <1>5. stoper[c] # "waitReader"
    BY <1>2 DEF ReaderCanGo, StoperCanGo, StoperLocks, ReadClosed, Hung, Panicked
  <1>6. stoper[c] # "panicked"
    BY DEF Hung, Panicked
  <1> QED BY <1>2, <1>3, <1>4, <1>5, <1>6 DEF AllDone

\* A control that lost its client is shut down, or will be when its heartbeat expires.
LEMMA LostGoesOn ==
  ASSUME TypeOK, LatchInv, EndsInv, NEW c \in Ctls, Begun(c), conn[c] = "lost",
         ~Hung(c), ~CanGo(c), ~ClockRuns(c)
  PROVE  AllDone(c)
  <1>1. mgr[c] \in {"idle", "done"}
    BY SendersWait
  <1>2. mgr[c] = "done"
    BY <1>1 DEF ClockRuns, CanGo, ManagerCanGo, TypeOK
  <1> QED BY <1>2, ShutdownGoesOn DEF EndsInv

\* The foremost of those that wait in line can start, or waits for a control that shuts down.
LEMMA LineGoesOn ==
  ASSUME ControlInv, StandInv, NEW c \in Ctls, svc[c] = "wait"
  PROVE  CanGo(c) \/ \E d \in earlier[c] : Hung(d) \/ CanGo(d)
  <1> USE DEF ControlInv, StandInv
  <1> DEFINE S == {d \in earlier[c] \union {c} : svc[d] = "wait"}
             T == {earlier[d] : d \in S}
             F == FiniteSubsetsOf(Ctls)
             R == StrictSubsetOrdering(Ctls)
  <1>1. S \subseteq Ctls /\ c \in S
    BY DEF TypeOK
  <1>2. \A d \in S : earlier[d] \in SUBSET Ctls /\ IsFiniteSet(earlier[d])
    BY <1>1 DEF LineInv, TypeOK
  <1>3. T \subseteq F /\ T # {}
    BY <1>1, <1>2 DEF FiniteSubsetsOf
  <1>4. IsWellFoundedOn(R, F)
    BY FS_StrictSubsetOrderingWellFounded
  <1>5. PICK x \in T : \A y \in T : <<y, x>> \notin R
    <2> HIDE DEF T, F, R
    <2> QED BY <1>3, <1>4, WFMin
  <1>6. PICK d \in S : x = earlier[d]
    OBVIOUS
  <1>7. d \in Ctls /\ svc[d] = "wait" /\ d \in earlier[c] \union {c}
    BY <1>1, <1>6
  <1>8. CASE old[d] = NoCtl
    BY <1>7, <1>8 DEF CanGo, ServiceCanGo
  <1>9. CASE old[d] # NoCtl
    <2> DEFINE e == old[d]
    <2>1. e \in Ctls /\ earlier[d] = earlier[e] \union {e} /\ allStart[e] /\ e \notin earlier[e]
      BY <1>7, <1>9 DEF ChainInv, LineInv, TypeOK
    <2>2. e \in earlier[c]
      BY <1>7, <2>1 DEF LineInv
    <2>3. svc[e] # "wait"
      <3> SUFFICES ASSUME svc[e] = "wait" PROVE FALSE
        OBVIOUS
      <3>1. earlier[e] \in T
        BY <2>2
      <3>2. <<earlier[e], earlier[d]>> \in R
        BY <1>2, <1>6, <2>1, <1>7 DEF StrictSubsetOrdering, TypeOK
      <3> QED BY <1>5, <1>6, <3>1, <3>2
    <2>4. svc[e] # "new"
      BY <1>7, <2>1 DEF ChainInv, LatchInv
    <2>5. AllDone(e) \/ Hung(e) \/ CanGo(e)
      BY <2>1, <2>3, <2>4, ShutdownGoesOn DEF Begun
    <2>6. AllDone(e) => CanGo(d)
      BY <1>7 DEF CanGo, ServiceCanGo
    <2> QED BY <1>7, <2>2, <2>5, <2>6
  <1> QED BY <1>8, <1>9

\* The wedge and the panic of pxy.Close() are the only deadlocks of the control sessions
\* (server/control.go:343-391, 545-563, server/service.go:430-463), for any channel capacities and
\* any number of logins and proxies: a control that shuts down or lost its client has a step to
\* take until it is done, and so has somebody in front of every login that waits.  It is what the
\* fairness of ShutdownEndsOrHangs, LoginStartsOrHangs and SilentClientCollected rests on.
THEOREM OnlyHungStandStill == Spec => []StandsOnlyIfHung
  <1>1. ControlInv /\ StandInv => StandsOnlyIfHung
    BY ShutdownGoesOn, LostGoesOn, LineGoesOn DEF StandsOnlyIfHung, ControlInv, StandInv
  <1> QED BY <1>1, StandInit, StandNext, ControlInvariant, PTL DEF Spec
=============================================================================
