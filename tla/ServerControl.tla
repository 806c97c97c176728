--------------------------- MODULE ServerControl ---------------------------
(***************************************************************************)
(* The control sessions of frps: ControlManager and Control                *)
(* (server/control.go), and Service.RegisterControl (server/service.go).   *)
(*                                                                         *)
(* Each login creates one Control, which is served by six goroutines:      *)
(* the one that runs RegisterControl and then waits to delete the control  *)
(* from the registry (`svc`), writer, reader, manager and stoper, and the  *)
(* user connections that ask for work connections.  They talk through two  *)
(* bounded Go channels (sendCh, readCh) and through the one-shot latches   *)
(* of shutdown.Shutdown.  A new login with the run id of an older control  *)
(* takes its place in the registry, tells it to shut down, and waits for   *)
(* the end of the shutdown before it starts.                               *)
(*                                                                         *)
(* Abstractions.  Channels are represented by their lengths: the kind of a *)
(* message is chosen when the manager receives it, the client may send     *)
(* anything.  The registration of a proxy is represented by its effect on  *)
(* the server-wide name table (pxyManager).  A deferred latch Done and the *)
(* allShutdown.Start deferred before it are one step: nobody waits for the *)
(* first without the second having been reached.                           *)
(***************************************************************************)
EXTENDS Integers, FiniteSets

CONSTANTS
  Ctls,       \* Control objects, one per accepted login
  RunIDs,     \* run ids: random for a new client, repeated by an old one
  Names,      \* proxy names
  SendCap,    \* capacity of sendCh (10 in the code)
  ReadCap,    \* capacity of readCh (10 in the code)
  PoolCount,  \* work connections requested by Start
  NoCtl,      \* not a control: a missing map entry
  NoRun       \* not a run id: the empty string

ASSUME ControlAssumption ==
  /\ SendCap \in Nat \ {0}
  /\ ReadCap \in Nat \ {0}
  /\ PoolCount \in Nat
  /\ NoCtl \notin Ctls
  /\ NoRun \notin RunIDs

VARIABLES
  reg,        \* ControlManager.ctlsByRunID
  loginRun,   \* loginMsg.RunID of each control
  runID,      \* Control.runID, emptied by Replaced
  respRun,    \* the RunID of the LoginResp that was sent ({} if none yet)
  old,        \* oldCtl in RegisterControl
  earlier,    \* history: the controls of the same run id added before
  svc,        \* RegisterControl, then the goroutine that calls Del
  poolSent,   \* loop variable of Start
  writer, reader, mgr, stoper,
  allStart,   \* allShutdown has been started
  sendLen, readLen,
  conn,       \* "open", "lost" (the peer is gone), "closed" by frps
  stale,      \* no valid Ping for longer than heartbeat_timeout
  proxies,    \* Control.proxies: the names registered by each control
  muHeld,     \* Control.mu has been left locked by a panic in CloseProxy
  pxys,       \* proxy.Manager: name -> the control that registered it
  clients     \* metrics.Server's count of clients

loginVars == <<reg, loginRun, runID, respRun, old, earlier>>
chanVars == <<sendLen, readLen>>
pxyVars == <<proxies, pxys, muHeld>>
vars == <<loginVars, svc, poolSent, writer, reader, mgr, stoper, allStart,
          chanVars, conn, stale, pxyVars, clients>>

-----------------------------------------------------------------------------
\* stoper's position says which channels it has closed.
ReadClosed(c) == stoper[c] \notin {"off", "waitStart"}
SendClosed(c) == stoper[c] \notin {"off", "waitStart", "waitMgr"}

\* allShutdown.Done has been called: RegisterControl and Del wait for this.
AllDone(c) == stoper[c] \in {"count", "end"}

\* The control has been started and is not fully shut down.
Live(c) == svc[c] \notin {"new", "wait"} /\ ~AllDone(c)

Init ==
  /\ reg = [r \in RunIDs |-> NoCtl]
  /\ loginRun = [c \in Ctls |-> NoRun]
  /\ runID = [c \in Ctls |-> NoRun]
  /\ respRun = [c \in Ctls |-> {}]
  /\ old = [c \in Ctls |-> NoCtl]
  /\ earlier = [c \in Ctls |-> {}]
  /\ svc = [c \in Ctls |-> "new"]
  /\ poolSent = [c \in Ctls |-> 0]
  /\ writer = [c \in Ctls |-> "off"]
  /\ reader = [c \in Ctls |-> "off"]
  /\ mgr = [c \in Ctls |-> "off"]
  /\ stoper = [c \in Ctls |-> "off"]
  /\ allStart = [c \in Ctls |-> FALSE]
  /\ sendLen = [c \in Ctls |-> 0]
  /\ readLen = [c \in Ctls |-> 0]
  /\ conn = [c \in Ctls |-> "open"]
  /\ stale = [c \in Ctls |-> FALSE]
  /\ proxies = [c \in Ctls |-> {}]
  /\ muHeld = [c \in Ctls |-> FALSE]
  /\ pxys = [n \in Names |-> NoCtl]
  /\ clients = 0

-----------------------------------------------------------------------------
\* Faulty variant: Add empties the run id of the control it adds.
RegisterControlClearsNew(c, r) ==
  /\ svc[c] = "new"
  /\ svc' = [svc EXCEPT ![c] = "wait"]
  /\ loginRun' = [loginRun EXCEPT ![c] = r]
  /\ old' = [old EXCEPT ![c] = reg[r]]
  /\ runID' = [runID EXCEPT ![c] = IF reg[r] = NoCtl THEN r ELSE NoRun]
  /\ allStart' = [d \in Ctls |-> allStart[d] \/ d = reg[r]]
  /\ reg' = [reg EXCEPT ![r] = c]
  /\ earlier' = [earlier EXCEPT ![c] = {d \in Ctls : loginRun[d] = r}]
  /\ UNCHANGED <<respRun, poolSent, writer, reader, mgr, stoper, chanVars, conn,
                 stale, pxyVars, clients>>

\* Faulty variant: Add does not start the old control's shutdown.
RegisterControlNoStop(c, r) ==
  /\ svc[c] = "new"
  /\ svc' = [svc EXCEPT ![c] = "wait"]
  /\ loginRun' = [loginRun EXCEPT ![c] = r]
  /\ old' = [old EXCEPT ![c] = reg[r]]
  /\ runID' = [d \in Ctls |-> IF d = c THEN r
                              ELSE IF d = reg[r] THEN NoRun ELSE runID[d]]
  /\ reg' = [reg EXCEPT ![r] = c]
  /\ earlier' = [earlier EXCEPT ![c] = {d \in Ctls : loginRun[d] = r}]
  /\ UNCHANGED <<respRun, poolSent, writer, reader, mgr, stoper, allStart, chanVars,
                 conn, stale, pxyVars, clients>>

(* RegisterControl after the version and authentication checks: NewControl *)
(* and ControlManager.Add under its mutex.  Add calls Replaced on the      *)
(* control it finds, which empties that control's run id and starts its    *)
(* shutdown.                                                               *)
RegisterControl(c, r) ==
  /\ svc[c] = "new"
  /\ svc' = [svc EXCEPT ![c] = "wait"]
  /\ loginRun' = [loginRun EXCEPT ![c] = r]
  /\ old' = [old EXCEPT ![c] = reg[r]]
  /\ runID' = [d \in Ctls |-> IF d = c THEN r
                              ELSE IF d = reg[r] THEN NoRun ELSE runID[d]]
  /\ allStart' = [d \in Ctls |-> allStart[d] \/ d = reg[r]]
  /\ reg' = [reg EXCEPT ![r] = c]
  /\ earlier' = [earlier EXCEPT ![c] = {d \in Ctls : loginRun[d] = r}]
  /\ UNCHANGED <<respRun, poolSent, writer, reader, mgr, stoper, chanVars, conn,
                 stale, pxyVars, clients>>

\* Faulty variant: the new control does not wait for the old one.
StartAtOnce(c) ==
  /\ svc[c] = "wait"
  /\ svc' = [svc EXCEPT ![c] = "pool"]
  /\ respRun' = [respRun EXCEPT ![c] = {runID[c]}]
  /\ writer' = [writer EXCEPT ![c] = "run"]
  /\ UNCHANGED <<reg, loginRun, runID, old, earlier, poolSent, reader, mgr, stoper,
                 allStart, chanVars, conn, stale, pxyVars, clients>>

(* The old control is done (or there was none): Start writes the LoginResp *)
(* with the run id the control has NOW and spawns the writer.              *)
Start(c) ==
  /\ svc[c] = "wait"
  /\ old[c] # NoCtl => AllDone(old[c])
  /\ svc' = [svc EXCEPT ![c] = "pool"]
  /\ respRun' = [respRun EXCEPT ![c] = {runID[c]}]
  /\ writer' = [writer EXCEPT ![c] = "run"]
  /\ UNCHANGED <<reg, loginRun, runID, old, earlier, poolSent, reader, mgr, stoper,
                 allStart, chanVars, conn, stale, pxyVars, clients>>

\* Start asks for PoolCount work connections; the send blocks on a full sendCh.
StartReqWorkConn(c) ==
  /\ svc[c] = "pool"
  /\ poolSent[c] < PoolCount
  /\ sendLen[c] < SendCap
  /\ poolSent' = [poolSent EXCEPT ![c] = @ + 1]
  /\ sendLen' = [sendLen EXCEPT ![c] = @ + 1]
  /\ UNCHANGED <<loginVars, svc, writer, reader, mgr, stoper, allStart, readLen,
                 conn, stale, pxyVars, clients>>

\* ... and then spawns manager, reader and stoper.
StartSpawn(c) ==
  /\ svc[c] = "pool"
  /\ poolSent[c] = PoolCount
  /\ svc' = [svc EXCEPT ![c] = "count"]
  /\ mgr' = [mgr EXCEPT ![c] = "idle"]
  /\ reader' = [reader EXCEPT ![c] = "read"]
  /\ stoper' = [stoper EXCEPT ![c] = "waitStart"]
  /\ UNCHANGED <<loginVars, poolSent, writer, allStart, chanVars, conn, stale,
                 pxyVars, clients>>

\* RegisterControl counts the client only now.
NewClient(c) ==
  /\ svc[c] = "count"
  /\ svc' = [svc EXCEPT ![c] = "watch"]
  /\ clients' = clients + 1
  /\ UNCHANGED <<loginVars, poolSent, writer, reader, mgr, stoper, allStart,
                 chanVars, conn, stale, pxyVars>>

\* Faulty variant: Del does not compare the control it finds.
DelAny(c) ==
  /\ svc[c] = "watch"
  /\ AllDone(c)
  /\ svc' = [svc EXCEPT ![c] = "gone"]
  /\ reg' = [reg EXCEPT ![loginRun[c]] = NoCtl]
  /\ UNCHANGED <<loginRun, runID, respRun, old, earlier, poolSent, writer, reader,
                 mgr, stoper, allStart, chanVars, conn, stale, pxyVars, clients>>

\* WaitClosed, then ControlManager.Del, which removes this control only.
Del(c) ==
  /\ svc[c] = "watch"
  /\ AllDone(c)
  /\ svc' = [svc EXCEPT ![c] = "gone"]
  /\ reg' = IF reg[loginRun[c]] = c
            THEN [reg EXCEPT ![loginRun[c]] = NoCtl] ELSE reg
  /\ UNCHANGED <<loginRun, runID, respRun, old, earlier, poolSent, writer, reader,
                 mgr, stoper, allStart, chanVars, conn, stale, pxyVars, clients>>

-----------------------------------------------------------------------------
\* writer: the next message is taken from sendCh and written.
WriterWrite(c) ==
  /\ writer[c] = "run"
  /\ sendLen[c] > 0
  /\ conn[c] # "closed"
  /\ sendLen' = [sendLen EXCEPT ![c] = @ - 1]
  /\ UNCHANGED <<loginVars, svc, poolSent, writer, reader, mgr, stoper, allStart,
                 readLen, conn, stale, pxyVars, clients>>

\* writer: the write fails, the message is lost, the writer returns.
WriterFails(c) ==
  /\ writer[c] = "run"
  /\ sendLen[c] > 0
  /\ conn[c] # "open"
  /\ sendLen' = [sendLen EXCEPT ![c] = @ - 1]
  /\ writer' = [writer EXCEPT ![c] = "done"]
  /\ allStart' = [allStart EXCEPT ![c] = TRUE]
  /\ UNCHANGED <<loginVars, svc, poolSent, reader, mgr, stoper, readLen, conn,
                 stale, pxyVars, clients>>

\* writer: sendCh is closed and drained.
WriterEnds(c) ==
  /\ writer[c] = "run"
  /\ sendLen[c] = 0
  /\ SendClosed(c)
  /\ writer' = [writer EXCEPT ![c] = "done"]
  /\ allStart' = [allStart EXCEPT ![c] = TRUE]
  /\ UNCHANGED <<loginVars, svc, poolSent, reader, mgr, stoper, chanVars, conn,
                 stale, pxyVars, clients>>

-----------------------------------------------------------------------------
\* reader: a message arrives.
ReaderReads(c) ==
  /\ reader[c] = "read"
  /\ conn[c] = "open"
  /\ reader' = [reader EXCEPT ![c] = "put"]
  /\ UNCHANGED <<loginVars, svc, poolSent, writer, mgr, stoper, allStart, chanVars,
                 conn, stale, pxyVars, clients>>

\* reader: the message goes into readCh, when there is room.
ReaderPuts(c) ==
  /\ reader[c] = "put"
  /\ ~ReadClosed(c)
  /\ readLen[c] < ReadCap
  /\ reader' = [reader EXCEPT ![c] = "read"]
  /\ readLen' = [readLen EXCEPT ![c] = @ + 1]
  /\ UNCHANGED <<loginVars, svc, poolSent, writer, mgr, stoper, allStart, sendLen,
                 conn, stale, pxyVars, clients>>

\* Faulty variant: a reader that holds a message does not see readCh closed.
ReaderEndsOnErrorOnly(c) ==
  /\ reader[c] = "read"
  /\ conn[c] # "open"
  /\ conn' \in {conn, [conn EXCEPT ![c] = "closed"]}
  /\ reader' = [reader EXCEPT ![c] = "done"]
  /\ allStart' = [allStart EXCEPT ![c] = TRUE]
  /\ UNCHANGED <<loginVars, svc, poolSent, writer, mgr, stoper, chanVars, stale,
                 pxyVars, clients>>

(* reader returns: on a read error, which closes the connection unless it  *)
(* is io.EOF, or because the send on the closed readCh panics and is       *)
(* recovered.  A lost peer may never show up as an error, only a closed    *)
(* connection must.                                                        *)
ReaderEnds(c) ==
  /\ \/ /\ reader[c] = "read"
        /\ conn[c] # "open"
        /\ conn' \in {conn, [conn EXCEPT ![c] = "closed"]}
     \/ /\ reader[c] = "put"
        /\ ReadClosed(c)
        /\ UNCHANGED conn
  /\ reader' = [reader EXCEPT ![c] = "done"]
  /\ allStart' = [allStart EXCEPT ![c] = TRUE]
  /\ UNCHANGED <<loginVars, svc, poolSent, writer, mgr, stoper, chanVars, stale,
                 pxyVars, clients>>

-----------------------------------------------------------------------------
\* manager receives a message from readCh.
Receive(c) ==
  /\ mgr[c] = "idle"
  /\ readLen[c] > 0
  /\ readLen' = [readLen EXCEPT ![c] = @ - 1]

\* NewProxy: registered if the name is free and the request is acceptable.
ManagerNewProxy(c, n) ==
  /\ Receive(c)
  /\ \/ /\ pxys[n] = NoCtl
        /\ pxys' = [pxys EXCEPT ![n] = c]
        /\ proxies' = [proxies EXCEPT ![c] = @ \union {n}]
     \/ UNCHANGED <<proxies, pxys>>
  /\ mgr' = [mgr EXCEPT ![c] = "reply"]
  /\ UNCHANGED muHeld
  /\ UNCHANGED <<loginVars, svc, poolSent, writer, reader, stoper, allStart, sendLen,
                 conn, stale, clients>>

\* CloseProxy: only a proxy of this control is closed, there is no reply.
ManagerCloseProxy(c, n) ==
  /\ Receive(c)
  /\ IF n \in proxies[c]
     THEN /\ pxys' = [pxys EXCEPT ![n] = NoCtl]
          /\ proxies' = [proxies EXCEPT ![c] = @ \ {n}]
     ELSE UNCHANGED <<proxies, pxys>>
  /\ UNCHANGED <<loginVars, svc, poolSent, writer, reader, mgr, stoper, allStart,
                 sendLen, conn, stale, muHeld, clients>>

(* pxy.Close() may panic: a stray member of a group closes its acceptCh a  *)
(* second time (ProxyResources says when).  The manager's recover ends the *)
(* manager without a reply.  In CloseProxy the panic leaves ctl.mu locked  *)
(* and the name in both tables; the deferred Close of a proxy whose name   *)
(* was taken holds no lock.                                                *)
ManagerPanics(c, n) ==
  /\ Receive(c)
  /\ \/ /\ n \in proxies[c]
        /\ muHeld' = [muHeld EXCEPT ![c] = TRUE]
     \/ /\ pxys[n] # NoCtl
        /\ UNCHANGED muHeld
  /\ mgr' = [mgr EXCEPT ![c] = "done"]
  /\ allStart' = [allStart EXCEPT ![c] = TRUE]
  /\ UNCHANGED <<loginVars, svc, poolSent, writer, reader, stoper, sendLen, conn,
                 stale, proxies, pxys, clients>>

\* Ping: a valid one renews lastPing, an invalid one ends the manager.
ManagerPing(c) ==
  /\ Receive(c)
  /\ \/ /\ mgr' = [mgr EXCEPT ![c] = "reply"]
        /\ stale' = [stale EXCEPT ![c] = FALSE]
     \/ /\ mgr' = [mgr EXCEPT ![c] = "lastReply"]
        /\ UNCHANGED stale
  /\ UNCHANGED <<loginVars, svc, poolSent, writer, reader, stoper, allStart, sendLen,
                 conn, pxyVars, clients>>

(* The reply (NewProxyResp, Pong) is put into sendCh; the send blocks      *)
(* while the channel is full, and after a failed Ping manager returns.     *)
ManagerReplies(c) ==
  /\ mgr[c] \in {"reply", "lastReply"}
  /\ sendLen[c] < SendCap
  /\ sendLen' = [sendLen EXCEPT ![c] = @ + 1]
  /\ mgr' = [mgr EXCEPT ![c] = IF @ = "reply" THEN "idle" ELSE "done"]
  /\ allStart' = [allStart EXCEPT ![c] = @ \/ mgr[c] = "lastReply"]
  /\ UNCHANGED <<loginVars, svc, poolSent, writer, reader, stoper, readLen, conn,
                 stale, pxyVars, clients>>

\* Faulty variant: no heartbeat check.
ManagerEndsNoHeartbeat(c) ==
  /\ mgr[c] = "idle"
  /\ ReadClosed(c) /\ readLen[c] = 0
  /\ mgr' = [mgr EXCEPT ![c] = "done"]
  /\ allStart' = [allStart EXCEPT ![c] = TRUE]
  /\ UNCHANGED <<loginVars, svc, poolSent, writer, reader, stoper, chanVars, conn,
                 stale, pxyVars, clients>>

\* manager returns: the heartbeat timed out, or readCh is closed and drained.
ManagerEnds(c) ==
  /\ mgr[c] = "idle"
  /\ stale[c] \/ (ReadClosed(c) /\ readLen[c] = 0)
  /\ mgr' = [mgr EXCEPT ![c] = "done"]
  /\ allStart' = [allStart EXCEPT ![c] = TRUE]
  /\ UNCHANGED <<loginVars, svc, poolSent, writer, reader, stoper, chanVars, conn,
                 stale, pxyVars, clients>>

-----------------------------------------------------------------------------
\* stoper: WaitStart, close(readCh).
StoperClosesRead(c) ==
  /\ stoper[c] = "waitStart"
  /\ allStart[c]
  /\ stoper' = [stoper EXCEPT ![c] = "waitMgr"]
  /\ UNCHANGED <<loginVars, svc, poolSent, writer, reader, mgr, allStart, chanVars,
                 conn, stale, pxyVars, clients>>

\* Faulty variant: stoper does not wait for the manager.
StoperClosesSendEarly(c) ==
  /\ stoper[c] = "waitMgr"
  /\ stoper' = [stoper EXCEPT ![c] = "waitWriter"]
  /\ UNCHANGED <<loginVars, svc, poolSent, writer, reader, mgr, allStart, chanVars,
                 conn, stale, pxyVars, clients>>

\* stoper: managerShutdown.WaitDone, close(sendCh).
StoperClosesSend(c) ==
  /\ stoper[c] = "waitMgr"
  /\ mgr[c] = "done"
  /\ stoper' = [stoper EXCEPT ![c] = "waitWriter"]
  /\ UNCHANGED <<loginVars, svc, poolSent, writer, reader, mgr, allStart, chanVars,
                 conn, stale, pxyVars, clients>>

\* stoper: writerShutdown.WaitDone, conn.Close.
StoperClosesConn(c) ==
  /\ stoper[c] = "waitWriter"
  /\ writer[c] = "done"
  /\ conn' = [conn EXCEPT ![c] = "closed"]
  /\ stoper' = [stoper EXCEPT ![c] = "waitReader"]
  /\ UNCHANGED <<loginVars, svc, poolSent, writer, reader, mgr, allStart, chanVars,
                 stale, pxyVars, clients>>

\* stoper: readerShutdown.WaitDone and mu.Lock, then one proxy after the other
\* is closed and deleted from the name table (by name).
StoperLocks(c) == stoper[c] = "waitReader" /\ reader[c] = "done" /\ ~muHeld[c]

StoperClosesProxy(c, n) ==
  /\ StoperLocks(c)
  /\ n \in proxies[c]
  /\ proxies' = [proxies EXCEPT ![c] = @ \ {n}]
  /\ pxys' = [pxys EXCEPT ![n] = NoCtl]
  /\ UNCHANGED <<loginVars, svc, poolSent, writer, reader, mgr, stoper, allStart,
                 chanVars, conn, stale, muHeld, clients>>

(* stoper: pxy.Close() panics.  The recover ends stoper before it reports  *)
(* the end; this proxy and those not yet closed stay in the tables.        *)
StoperPanics(c) ==
  /\ StoperLocks(c)
  /\ proxies[c] # {}
  /\ stoper' = [stoper EXCEPT ![c] = "panicked"]
  /\ UNCHANGED <<loginVars, svc, poolSent, writer, reader, mgr, allStart, chanVars,
                 conn, stale, pxyVars, clients>>

\* Faulty variant: Done is called before the proxies are closed.
StoperDoneEarly(c) ==
  /\ StoperLocks(c)
  /\ stoper' = [stoper EXCEPT ![c] = "count"]
  /\ sendLen' = [sendLen EXCEPT ![c] = 0]
  /\ readLen' = [readLen EXCEPT ![c] = 0]
  /\ stale' = [stale EXCEPT ![c] = FALSE]
  /\ UNCHANGED <<loginVars, svc, poolSent, writer, reader, mgr, allStart,
                 conn, pxyVars, clients>>

(* stoper: allShutdown.Done once every proxy is closed.  No goroutine uses *)
(* the channels any more; what is left in them is forgotten.               *)
StoperDone(c) ==
  /\ StoperLocks(c)
  /\ proxies[c] = {}
  /\ stoper' = [stoper EXCEPT ![c] = "count"]
  /\ sendLen' = [sendLen EXCEPT ![c] = 0]
  /\ readLen' = [readLen EXCEPT ![c] = 0]
  /\ stale' = [stale EXCEPT ![c] = FALSE]
  /\ UNCHANGED <<loginVars, svc, poolSent, writer, reader, mgr, allStart,
                 conn, pxyVars, clients>>

\* stoper: metrics.Server.CloseClient, after Done.
CloseClient(c) ==
  /\ stoper[c] = "count"
  /\ stoper' = [stoper EXCEPT ![c] = "end"]
  /\ clients' = clients - 1
  /\ UNCHANGED <<loginVars, svc, poolSent, writer, reader, mgr, allStart, chanVars,
                 conn, stale, pxyVars>>

-----------------------------------------------------------------------------
(* GetWorkConn of a user connection sends ReqWorkConn, before and after it *)
(* takes a work connection.  On a closed sendCh the panic is caught.       *)
GetWorkConn(c) ==
  /\ stoper[c] # "off"
  /\ ~SendClosed(c)
  /\ sendLen[c] < SendCap
  /\ sendLen' = [sendLen EXCEPT ![c] = @ + 1]
  /\ UNCHANGED <<loginVars, svc, poolSent, writer, reader, mgr, stoper, allStart,
                 readLen, conn, stale, pxyVars, clients>>

\* The client is gone: nothing more arrives, and writes may fail.
PeerLost(c) ==
  /\ svc[c] # "new"
  /\ conn[c] = "open"
  /\ conn' = [conn EXCEPT ![c] = "lost"]
  /\ UNCHANGED <<loginVars, svc, poolSent, writer, reader, mgr, stoper, allStart,
                 chanVars, stale, pxyVars, clients>>

\* heartbeat_timeout passes without a valid Ping.
PingAges(c) ==
  /\ mgr[c] \notin {"off", "done"}
  /\ ~stale[c]
  /\ stale' = [stale EXCEPT ![c] = TRUE]
  /\ UNCHANGED <<loginVars, svc, poolSent, writer, reader, mgr, stoper, allStart,
                 chanVars, conn, pxyVars, clients>>

-----------------------------------------------------------------------------
ServiceStep(c) == Start(c) \/ StartReqWorkConn(c) \/ StartSpawn(c) \/ NewClient(c) \/ Del(c)

WriterStep(c) == WriterWrite(c) \/ WriterFails(c) \/ WriterEnds(c)

ReaderStep(c) == ReaderPuts(c) \/ ReaderEnds(c)

ManagerReceives(c) ==
  \/ \E n \in Names :
       ManagerNewProxy(c, n) \/ ManagerCloseProxy(c, n) \/ ManagerPanics(c, n)
  \/ ManagerPing(c)

ManagerStep(c) == ManagerReceives(c) \/ ManagerReplies(c) \/ ManagerEnds(c)

StoperStep(c) ==
  \/ StoperClosesRead(c)
  \/ StoperClosesSend(c)
  \/ StoperClosesConn(c)
  \/ \E n \in Names : StoperClosesProxy(c, n)
  \/ StoperPanics(c)
  \/ StoperDone(c)
  \/ CloseClient(c)

Environment(c) ==
  \/ \E r \in RunIDs : RegisterControl(c, r)
  \/ ReaderReads(c)
  \/ GetWorkConn(c)
  \/ PeerLost(c)
  \/ PingAges(c)

Next ==
  \E c \in Ctls :
    \/ ServiceStep(c)
    \/ WriterStep(c)
    \/ ReaderStep(c)
    \/ ManagerStep(c)
    \/ StoperStep(c)
    \/ Environment(c)

Spec == Init /\ [][Next]_vars

-----------------------------------------------------------------------------
(* Fairness.  A goroutine that can run does run (weak fairness).  A sender *)
(* blocked on a full channel is served in FIFO order when there is room    *)
(* again, whoever else sends (strong fairness).  Writes to a live peer     *)
(* complete.  A reader must notice a connection frps has closed; it need   *)
(* not notice a lost peer.  Time passes for a client that fell silent.     *)
(* Nothing obliges clients to log in, send, or vanish.                     *)
ReaderMustEnd(c) == ReaderEnds(c) /\ (reader[c] = "put" \/ conn[c] = "closed")

SilentPeerAges(c) == PingAges(c) /\ conn[c] # "open"

Fairness ==
  \A c \in Ctls :
    /\ WF_vars(ServiceStep(c))
    /\ SF_vars(StartReqWorkConn(c))
    /\ WF_vars(WriterStep(c))
    /\ WF_vars(ReaderPuts(c) \/ ReaderMustEnd(c))
    /\ WF_vars(ManagerStep(c))
    /\ SF_vars(ManagerReplies(c))
    /\ WF_vars(StoperStep(c))
    /\ WF_vars(SilentPeerAges(c))

FairSpec == Spec /\ Fairness

-----------------------------------------------------------------------------
TypeOK ==
  /\ reg \in [RunIDs -> Ctls \union {NoCtl}]
  /\ loginRun \in [Ctls -> RunIDs \union {NoRun}]
  /\ runID \in [Ctls -> RunIDs \union {NoRun}]
  /\ respRun \in [Ctls -> SUBSET (RunIDs \union {NoRun})]
  /\ old \in [Ctls -> Ctls \union {NoCtl}]
  /\ earlier \in [Ctls -> SUBSET Ctls]
  /\ svc \in [Ctls -> {"new", "wait", "pool", "count", "watch", "gone"}]
  /\ poolSent \in [Ctls -> 0..PoolCount]
  /\ writer \in [Ctls -> {"off", "run", "done"}]
  /\ reader \in [Ctls -> {"off", "read", "put", "done"}]
  /\ mgr \in [Ctls -> {"off", "idle", "reply", "lastReply", "done"}]
  /\ stoper \in [Ctls -> {"off", "waitStart", "waitMgr", "waitWriter",
                          "waitReader", "panicked", "count", "end"}]
  /\ allStart \in [Ctls -> BOOLEAN]
  /\ sendLen \in [Ctls -> 0..SendCap]
  /\ readLen \in [Ctls -> 0..ReadCap]
  /\ conn \in [Ctls -> {"open", "lost", "closed"}]
  /\ stale \in [Ctls -> BOOLEAN]
  /\ proxies \in [Ctls -> SUBSET Names]
  /\ muHeld \in [Ctls -> BOOLEAN]
  /\ pxys \in [Names -> Ctls \union {NoCtl}]
  /\ clients \in Int

(* Two controls of one run id are never both started and not shut down,    *)
(* even when several logins with that run id are waiting on one another.   *)
OneLiveControl ==
  \A c, d \in Ctls :
    Live(c) /\ Live(d) /\ loginRun[c] = loginRun[d] => c = d

(* The newest control of a run id is the one the registry returns, from    *)
(* its login to its own Del: the Del of an older control, which may come   *)
(* late, never removes it (control.go:69), so its work connections are     *)
(* routed to it.                                                           *)
LatestIsRegistered ==
  \A c \in Ctls :
    svc[c] \notin {"new", "gone"} /\ (\A d \in Ctls : c \notin earlier[d])
      => reg[loginRun[c]] = c

(* The server-wide name table and the controls' own tables agree, and a    *)
(* name is only ever owned by a live control: when allShutdown is done     *)
(* every name is free again, which is what lets the replacing control      *)
(* register its proxies.  A message still being handled during shutdown    *)
(* does not slip a proxy past the stoper.                                  *)
NamesOwnedByLive ==
  /\ \A n \in Names, c \in Ctls : pxys[n] = c <=> n \in proxies[c]
  /\ \A c \in Ctls : proxies[c] # {} => Live(c)

(* Start and manager send on sendCh without a recover of their own around  *)
(* the send: sendCh is never closed while either of them may still send.   *)
NoSendOnClosed ==
  \A c \in Ctls :
    SendClosed(c) => svc[c] # "pool" /\ mgr[c] \notin {"reply", "lastReply"}

(* A client that is told an empty run id (Replaced ran before Start) has   *)
(* already been superseded by a later login with its run id; every other   *)
(* client is told the run id it logged in with.                            *)
WrongRunIDOnlyIfSuperseded ==
  \A c \in Ctls : svc[c] \notin {"new", "wait"} =>
    \/ respRun[c] = {loginRun[c]}
    \/ \E d \in Ctls : c \in earlier[d]

-----------------------------------------------------------------------------
(* A started control fails to shut down in two ways.  Its writer has       *)
(* returned after a write error, sendCh is full, and a goroutine that      *)
(* stoper waits for is blocked on it.                                      *)
Wedged(c) ==
  /\ writer[c] = "done"
  /\ sendLen[c] = SendCap
  /\ \/ mgr[c] \in {"reply", "lastReply"}
     \/ svc[c] = "pool" /\ poolSent[c] < PoolCount

(* Or pxy.Close() has panicked: in CloseProxy, so that stoper never gets   *)
(* ctl.mu (control.go:556, 369), or in stoper, whose recover skips         *)
(* allShutdown.Done (control.go:352, 378-383).                             *)
Panicked(c) == muHeld[c] \/ stoper[c] = "panicked"

Hung(c) == Wedged(c) \/ Panicked(c)

(* A shutdown that has begun runs to its end, unless the control hangs.    *)
ShutdownEndsOrHangs ==
  \A c \in Ctls :
    allStart[c] /\ svc[c] \notin {"new", "wait"} ~> AllDone(c) \/ Hung(c)

(* A login is answered: it waits forever only behind a control that hangs. *)
LoginStartsOrHangs ==
  \A c \in Ctls :
    svc[c] = "wait" ~> svc[c] # "wait" \/ \E d \in earlier[c] : Hung(d)

(* The heartbeat collects a client that vanished without closing its       *)
(* connection, unless its control hangs.                                   *)
SilentClientCollected ==
  \A c \in Ctls :
    conn[c] = "lost" /\ svc[c] \notin {"new", "wait"} ~> AllDone(c) \/ Hung(c)

(* "If so, we release previous controller and start new one"               *)
(* (service.go:432): a login with a known run id is eventually started.    *)
ReplacementStarts ==
  \A c \in Ctls : svc[c] = "wait" ~> svc[c] # "wait"

-----------------------------------------------------------------------------
\* The sessions this module implements.
SessionStatus ==
  [c \in Ctls |-> CASE svc[c] = "new"  -> "new"
                    [] svc[c] = "wait" -> "waiting"
                    [] Live(c)         -> "live"
                    [] OTHER           -> "ended"]

Registry == INSTANCE SessionRegistry
              WITH Sessions <- Ctls, status <- SessionStatus,
                   run <- loginRun, ahead <- earlier

(* The controls implement SessionRegistry: sessions of one run id are live *)
(* one at a time, in login order.                                          *)
ImplementsRegistry == Registry!AbsSpec
=============================================================================
