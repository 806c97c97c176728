---------------------------- MODULE ClientControl ----------------------------
(***************************************************************************)
(* One control session of frpc (client/control.go): reader, message        *)
(* handler, writer, and the worker that winds the others up when the       *)
(* reader has closed closedCh.  Control.Close may be called at any time,   *)
(* and Control.ReloadConf time and again.                                  *)
(*                                                                         *)
(* What the goroutines share besides the channels are the locks of the     *)
(* proxies: pm.mu of their manager, and pw.mu of each wrapper.  Both are   *)
(* held by who waits for room in sendCh (proxy/proxy_manager.go:90), and   *)
(* the message handler needs them for a NewProxyResp.                      *)
(*                                                                         *)
(* Abstractions.  A message is a unit of a channel, and what the proxies   *)
(* make of it is in ClientProxy.  The set-up of the writer's cipher does   *)
(* not fail.  Of the visitors only that Close comes last is in this        *)
(* module; ClientService has the rest, and names of its own, so that the   *)
(* two can be extended together.  Work connections and the status page     *)
(* take the locks too, and hold them for others as long as those wait.     *)
(***************************************************************************)
EXTENDS Naturals

CONSTANTS
  Cap,         \* capacity of sendCh and of readCh (100 in the code)
  Wrappers,    \* the wrappers of proxies that the control makes
  NoWrapper

ASSUME CapAssumption == Cap \in Nat \ {0} /\ NoWrapper \notin Wrappers

VARIABLES
  conn,      \* "open", "mute" (nothing comes through any more) or "closed"
  reader,    \* "read", "put" (waits for room in readCh) or "done": closedCh is closed
  readCh,    \* number of messages in readCh
  handler,   \* "loop", "ping" (waits for room in sendCh), "pm" and "pw" (has a NewProxyResp and
             \* waits for the lock), "close" (waits for room and holds pw.mu), "quit" (SetPing
             \* failed) or "done"
  asked,     \* the wrapper that the NewProxyResp in the handler's hands is for
  sendCh,    \* number of messages in sendCh
  writer,    \* "loop" or "done"
  worker,    \* "wait", "handler", "writer", "vm" or "done": closedDoneCh is closed
  wrapper,   \* wrapper -> "new", "idle", "check" (checkWorker holds pw.mu and waits for room), "stop"
             \* (Stop does) or "closed"
  pm,        \* [by, at, rest]: who holds pm.mu, what it stops now and what it stops after that
  close      \* Close: "idle", "pm", "conn", "vm" or "done"

locks == <<wrapper, pm>>
controlVars == <<conn, reader, readCh, handler, asked, sendCh, writer, worker, locks, close>>

PmFree == [by |-> "free", at |-> NoWrapper, rest |-> {}]

\* Run makes the first proxies when the goroutines have started (a reload does so here).
ControlInit ==
  /\ conn = "open" /\ reader = "read" /\ readCh = 0 /\ handler = "loop" /\ asked = NoWrapper
  /\ sendCh = 0 /\ writer = "loop" /\ worker = "wait" /\ close = "idle"
  /\ wrapper = [w \in Wrappers |-> "new"] /\ pm = PmFree

ReadChClosed == worker # "wait"
SendChClosed == worker \in {"writer", "vm", "done"}

\* A proxy puts its message into sendCh; a closed one refuses it (PanicToError).
Room == SendChClosed \/ sendCh < Cap
Puts == Room /\ sendCh' = IF SendChClosed THEN sendCh ELSE sendCh + 1

\* The wrappers in pm.proxies.
InManager == {w \in Wrappers : wrapper[w] \in {"idle", "check"}}

\* pw.mu is held by somebody who waits.
Locked(w) == wrapper[w] \in {"check", "stop"} \/ (handler = "close" /\ asked = w)

(***************************************************************************)
(* Reader.                                                                 *)
(***************************************************************************)
ReaderGets ==
  /\ conn = "open" /\ reader = "read"
  /\ IF readCh < Cap THEN readCh' = readCh + 1 /\ UNCHANGED reader
     ELSE reader' = "put" /\ UNCHANGED readCh
  /\ UNCHANGED <<conn, handler, asked, sendCh, writer, worker, locks, close>>

ReaderPuts ==
  /\ reader = "put" /\ readCh < Cap
  /\ readCh' = readCh + 1 /\ reader' = "read"
  /\ UNCHANGED <<conn, handler, asked, sendCh, writer, worker, locks, close>>

\* closedCh is closed here and nowhere else.
ReaderEnds ==
  /\ conn = "closed" /\ reader = "read"
  /\ reader' = "done"
  /\ UNCHANGED <<conn, readCh, handler, asked, sendCh, writer, worker, locks, close>>

(***************************************************************************)
(* Message handler.                                                        *)
(***************************************************************************)
\* The ping waits for room in sendCh, without a time-out; or it cannot be authenticated.
HandlerPings ==
  /\ handler = "loop"
  /\ \/ sendCh < Cap /\ sendCh' = sendCh + 1 /\ UNCHANGED handler
     \/ sendCh = Cap /\ handler' = "ping" /\ UNCHANGED sendCh
     \/ handler' = "quit" /\ UNCHANGED sendCh
  /\ UNCHANGED <<conn, reader, readCh, asked, writer, worker, locks, close>>

\* The ping, or the CloseProxy of a proxy that could not run, has found room.
HandlerSent ==
  /\ handler \in {"ping", "close"} /\ sendCh < Cap
  /\ sendCh' = sendCh + 1 /\ handler' = "loop"
  /\ UNCHANGED <<conn, reader, readCh, asked, writer, worker, locks, close>>

\* No Pong for heartbeat_timeout seconds.
HandlerTimesOut ==
  /\ handler = "loop" /\ conn # "closed"
  /\ conn' = "closed" /\ handler' = "done"
  /\ UNCHANGED <<reader, readCh, asked, sendCh, writer, worker, locks, close>>

\* A message of readCh: a Pong, one with an error (the connection is closed), or a NewProxyResp.
HandlerTakes ==
  /\ handler = "loop" /\ readCh > 0
  /\ readCh' = readCh - 1
  /\ \/ UNCHANGED <<conn, handler, asked>>
     \/ conn' = "closed" /\ handler' = "done" /\ UNCHANGED asked
     \/ handler' = "pm" /\ asked' \in Wrappers /\ UNCHANGED conn
  /\ UNCHANGED <<reader, sendCh, writer, worker, locks, close>>

\* StartProxy looks the wrapper up under pm.mu.
HandlerLooksUp ==
  /\ handler = "pm" /\ pm = PmFree
  /\ handler' = IF asked \in InManager THEN "pw" ELSE "loop"
  /\ UNCHANGED <<conn, reader, readCh, asked, sendCh, writer, worker, locks, close>>

\* SetRunningStatus under pw.mu; a proxy that cannot Run is closed on the server.
HandlerSets ==
  /\ handler = "pw" /\ ~Locked(asked)
  /\ \/ handler' = "loop" /\ UNCHANGED sendCh
     \/ wrapper[asked] = "idle" /\ Puts /\ handler' = "loop"
     \/ wrapper[asked] = "idle" /\ ~Room /\ handler' = "close" /\ UNCHANGED sendCh
  /\ UNCHANGED <<conn, reader, readCh, asked, writer, worker, locks, close>>

HandlerEnds ==
  /\ handler = "loop" /\ ReadChClosed /\ readCh = 0
  /\ handler' = "done"
  /\ UNCHANGED <<conn, reader, readCh, asked, sendCh, writer, worker, locks, close>>

(***************************************************************************)
(* Writer.                                                                 *)
(***************************************************************************)
\* The write succeeds, or fails on a connection that is closed or breaks now.
WriterSends ==
  /\ writer = "loop" /\ sendCh > 0
  /\ sendCh' = sendCh - 1
  /\ \/ conn # "closed" /\ UNCHANGED <<conn, writer>>
     \/ conn' = "closed" /\ writer' = "done"
  /\ UNCHANGED <<reader, readCh, handler, asked, worker, locks, close>>

WriterEnds ==
  /\ writer = "loop" /\ SendChClosed /\ sendCh = 0
  /\ writer' = "done"
  /\ UNCHANGED <<conn, reader, readCh, handler, asked, sendCh, worker, locks, close>>

\* The server, or the network, ends the connection or falls silent.
ConnFails ==
  /\ \/ conn = "open" /\ conn' \in {"mute", "closed"}
     \/ conn = "mute" /\ conn' = "closed"
  /\ UNCHANGED <<reader, readCh, handler, asked, sendCh, writer, worker, locks, close>>

(***************************************************************************)
(* The proxies and their manager.                                          *)
(***************************************************************************)
\* checkWorker sends NewProxy or CloseProxy (Manager.HandleEvent) and holds pw.mu for it.
CheckSends(w) ==
  /\ wrapper[w] = "idle" /\ ~Locked(w) /\ ~SendChClosed
  /\ \/ Puts /\ UNCHANGED wrapper
     \/ ~Room /\ wrapper' = [wrapper EXCEPT ![w] = "check"] /\ UNCHANGED sendCh
  /\ UNCHANGED <<conn, reader, readCh, handler, asked, writer, worker, pm, close>>

CheckSent(w) ==
  /\ wrapper[w] = "check" /\ Puts
  /\ wrapper' = [wrapper EXCEPT ![w] = "idle"]
  /\ UNCHANGED <<conn, reader, readCh, handler, asked, writer, worker, pm, close>>

\* Who holds pm.mu turns to a wrapper of those it has still to stop, or has stopped them all.
Turns(who, rest) ==
  IF rest = {} THEN {[by |-> who, at |-> NoWrapper, rest |-> {}]}
  ELSE {[by |-> who, at |-> w, rest |-> rest \ {w}] : w \in rest}

\* Close takes pm.mu, or Reload, to stop what is gone or has changed.
PmLocks(who, S) ==
  /\ pm = PmFree /\ pm' \in Turns(who, S)
  /\ UNCHANGED <<conn, reader, readCh, handler, asked, sendCh, writer, worker, wrapper, close>>

CloseLocks == close = "pm" /\ PmLocks("close", InManager)

ReloadLocks == \E S \in SUBSET InManager \ {{}} : PmLocks("reload", S)

\* Stop under pw.mu: the server is told, which may have to wait for room.
PmStops ==
  LET w == pm.at
  IN /\ w # NoWrapper /\ wrapper[w] = "idle" /\ ~Locked(w)
     /\ \/ Puts /\ wrapper' = [wrapper EXCEPT ![w] = "closed"] /\ pm' \in Turns(pm.by, pm.rest)
        \/ ~Room /\ wrapper' = [wrapper EXCEPT ![w] = "stop"] /\ UNCHANGED <<sendCh, pm>>
     /\ UNCHANGED <<conn, reader, readCh, handler, asked, writer, worker, close>>

PmStopped ==
  LET w == pm.at
  IN /\ w # NoWrapper /\ wrapper[w] = "stop" /\ Puts
     /\ wrapper' = [wrapper EXCEPT ![w] = "closed"] /\ pm' \in Turns(pm.by, pm.rest)
     /\ UNCHANGED <<conn, reader, readCh, handler, asked, writer, worker, close>>

CloseUnlocks ==
  /\ pm.by = "close" /\ pm.at = NoWrapper
  /\ pm' = PmFree /\ close' = "conn"
  /\ UNCHANGED <<conn, reader, readCh, handler, asked, sendCh, writer, worker, wrapper>>

\* Reload starts the wrapper of what is new; it may have had nothing to stop.
ReloadStarts(w) ==
  /\ pm.by \in {"free", "reload"} /\ pm.at = NoWrapper
  /\ wrapper[w] = "new" /\ wrapper' = [wrapper EXCEPT ![w] = "idle"]
  /\ UNCHANGED <<conn, reader, readCh, handler, asked, sendCh, writer, worker, pm, close>>

ReloadUnlocks ==
  /\ pm.by = "reload" /\ pm.at = NoWrapper
  /\ pm' = PmFree
  /\ UNCHANGED <<conn, reader, readCh, handler, asked, sendCh, writer, worker, wrapper, close>>

(***************************************************************************)
(* Worker.                                                                 *)
(***************************************************************************)
WorkerGoes(from, to) ==
  /\ worker = from /\ worker' = to
  /\ UNCHANGED <<conn, reader, readCh, handler, asked, sendCh, writer, pm, close>>

\* Faulty variant: the worker closes readCh after the handler has ended.
WorkerWakesLate ==
  /\ reader = "done" /\ handler \in {"quit", "done"}
  /\ WorkerGoes("wait", "handler") /\ UNCHANGED wrapper

\* closedCh is closed: the worker closes readCh.
WorkerWakes == reader = "done" /\ WorkerGoes("wait", "handler") /\ UNCHANGED wrapper

\* The message handler has ended: the worker closes sendCh.
WorkerClosesSend ==
  handler \in {"quit", "done"} /\ WorkerGoes("handler", "writer") /\ UNCHANGED wrapper

\* The writer has ended: pm.Close, when the locks are free; sendCh refuses its messages.
WorkerClosesProxies ==
  /\ writer = "done" /\ pm = PmFree /\ \A w \in Wrappers : ~Locked(w)
  /\ WorkerGoes("writer", "vm")
  /\ wrapper' = [w \in Wrappers |-> IF w \in InManager THEN "closed" ELSE wrapper[w]]

\* vm.Close, then closedDoneCh is closed.
WorkerEnds == WorkerGoes("vm", "done") /\ UNCHANGED wrapper

(***************************************************************************)
(* Close: pm.Close is among the steps of the manager.                      *)
(***************************************************************************)
Closing(from, to) ==
  /\ close = from /\ close' = to
  /\ UNCHANGED <<reader, readCh, handler, asked, sendCh, writer, worker, locks>>

CloseCalled == Closing("idle", "pm") /\ UNCHANGED conn

CloseHangsUp == Closing("conn", "vm") /\ conn' = "closed"

CloseStopsVisitors == Closing("vm", "done") /\ UNCHANGED conn

Goroutines ==
  \/ ReaderPuts \/ ReaderEnds
  \/ HandlerTakes \/ HandlerLooksUp \/ HandlerSets \/ HandlerEnds \/ WriterEnds
  \/ WorkerWakes \/ WorkerClosesSend \/ WorkerClosesProxies \/ WorkerEnds

Manager == CloseLocks \/ CloseUnlocks \/ ReloadUnlocks

ControlNext ==
  \/ Goroutines
  \/ ReaderGets \/ HandlerPings \/ HandlerSent \/ HandlerTimesOut \/ WriterSends \/ ConnFails
  \/ (\E w \in Wrappers : CheckSends(w) \/ CheckSent(w) \/ ReloadStarts(w))
  \/ Manager \/ ReloadLocks \/ PmStops \/ PmStopped
  \/ CloseCalled \/ CloseHangsUp \/ CloseStopsVisitors

ControlSpec == ControlInit /\ [][ControlNext]_controlVars

\* Goroutines run.  A silent connection is timed out, by a handler that comes round; writes
\* succeed or fail, except on a silent connection.  Who waits for room in sendCh, or for a lock
\* while it holds pm.mu, has its turn.  Nobody has to send, ping, reload or call Close.
ControlFairness ==
  /\ WF_controlVars(Goroutines)
  /\ SF_controlVars(conn = "mute" /\ HandlerTimesOut)
  /\ WF_controlVars(conn # "mute" /\ WriterSends)
  /\ SF_controlVars(HandlerSent) /\ \A w \in Wrappers : SF_controlVars(CheckSent(w))
  /\ WF_controlVars(Manager) /\ SF_controlVars(PmStops \/ PmStopped)
  /\ WF_controlVars(CloseHangsUp \/ CloseStopsVisitors)

ControlFairSpec == ControlSpec /\ ControlFairness

(***************************************************************************)
(* Properties.                                                             *)
(***************************************************************************)
\* The worker closes readCh and sendCh only when no goroutine of the control can send to them
\* any more: such a send would panic (client/control.go:261, 317).
NoSendOnClosed ==
  /\ ReadChClosed => reader = "done"
  /\ SendChClosed => handler \in {"quit", "done"}

\* Nobody takes anything from a full sendCh: the writer has ended, or waits on a silent connection.
NoRoomComes == sendCh = Cap /\ ~SendChClosed /\ (writer = "done" \/ conn = "mute")

\* The handler waits for room in sendCh (client/control.go:317, proxy/proxy_wrapper.go:115), for
\* pm.mu of somebody who waits for a wrapper or for room (proxy/proxy_manager.go:44, 90), or for
\* pw.mu of somebody who waits for room (proxy/proxy_wrapper.go:100, 165-189).
HandlerWaits ==
  \/ handler \in {"ping", "close"}
  \/ handler = "pm" /\ pm.at # NoWrapper
  \/ handler = "pw" /\ Locked(asked)

\* Ways in which a control may hang, until the network reports an error or for good: the handler
\* waits, for room or for who waits for room, and none comes; the handler has ended and the
\* reader holds a message for a full readCh (261); the handler has ended for SetPing, and nobody
\* notices the silence (313).
Hung ==
  \/ NoRoomComes /\ HandlerWaits
  \/ handler \in {"quit", "done"} /\ reader = "put"
  \/ handler = "quit" /\ conn = "mute"

\* A connection that is lost, by a close or in silence, ends the control in any interleaving of
\* its goroutines, so that frpc logs in again, and so does Close, whoever holds the locks that
\* pm.Close waits for (client/control.go:185).  Hung lists the exceptions.
ControlEnds ==
  /\ conn # "open" ~> (worker = "done" \/ Hung)
  /\ close = "pm" ~> (worker = "done" \/ Hung)
=============================================================================
