----------------------------- MODULE SudpVisitor -----------------------------
(***************************************************************************)
(* An SUDP visitor and the client of its proxy.  Datagrams of the users go *)
(* through one tunnel at a time, which the visitor makes again whenever it *)
(* ends:                                                                   *)
(*   SUDPVisitor            (client/visitor.go): dispatcher, the reader    *)
(*                          and the sender of a worker, Close              *)
(*   ForwardUserConn        (pkg/proto/udp/udp.go)                         *)
(*   SUDPProxy.InWorkConn   (client/proxy/proxy.go): reader, sender and    *)
(*                          heartbeat for each tunnel, Close               *)
(* The tunnel is made through frps as in Tunnel: when one end is closed    *)
(* the other one sees it.                                                  *)
(*                                                                         *)
(* Abstractions.  Of the datagrams, which may all be dropped, only the one *)
(* that ForwardUserConn holds is followed; those on their way back appear  *)
(* as the room they leave in sendCh.  The user's socket always opens.      *)
(***************************************************************************)
EXTENDS Naturals

CONSTANT MaxTunnels  \* bound: attempts of the visitor to make a tunnel

Tunnels == 1..MaxTunnels

VARIABLES
  dispatcher, \* "none" before Run, "get", "work", "done"
  n,          \* attempts so far, of which the last is the worker's
  ends,       \* ends[t]: the visitor's end: "none", "open", "closed" or "lost" (open, forgotten)
  recv, send, \* goroutines of the worker: "none", "run", "done"
  forward,    \* ForwardUserConn: "none", "read", "hold", "done", "panic"
  closing,    \* Close of the visitor: "no", "flag", "udp", "done"
  link,       \* link[t]: "none", "open", "mute" (silent, beyond frps) or "dead"
  serve,      \* serve[t]: reader, sender and heartbeat of InWorkConn and isClose
  closed      \* closeCh of the proxy in frpc

visitor == <<dispatcher, n, ends, recv, send, forward, closing>>
proxy == <<serve, closed>>
vars == <<visitor, link, proxy>>

Idle == [reader |-> "none", sender |-> "none", heart |-> "none", shut |-> FALSE]

Init ==
  /\ dispatcher = "none" /\ n = 0 /\ ends = [t \in Tunnels |-> "none"]
  /\ recv = "none" /\ send = "none" /\ forward = "none" /\ closing = "no"
  /\ link = [t \in Tunnels |-> "none"]
  /\ serve = [t \in Tunnels |-> Idle] /\ closed = FALSE

(***************************************************************************)
(* The visitor; a panic ends the whole frpc.                               *)
(***************************************************************************)
VisitorRuns == forward # "panic" /\ UNCHANGED proxy
CheckClosed == IF closing = "no" THEN "get" ELSE "done"

Run ==
  /\ dispatcher = "none" /\ closing = "no" /\ VisitorRuns
  /\ dispatcher' = "get" /\ forward' = "read"
  /\ UNCHANGED <<n, ends, recv, send, closing, link>>

\* getNewVisitorConn.
GetConn ==
  /\ dispatcher = "get" /\ n < MaxTunnels /\ VisitorRuns
  /\ n' = n + 1 /\ dispatcher' = "work" /\ recv' = "run" /\ send' = "run"
  /\ ends' = [ends EXCEPT ![n + 1] = "open"] /\ link' = [link EXCEPT ![n + 1] = "open"]
  /\ UNCHANGED <<forward, closing>>

\* An error after the dial; the connection is not closed.
GetConnFails ==
  /\ dispatcher = "get" /\ n < MaxTunnels /\ VisitorRuns
  /\ n' = n + 1 /\ dispatcher' = CheckClosed
  /\ ends' = [ends EXCEPT ![n + 1] = "lost"] /\ link' = [link EXCEPT ![n + 1] = "dead"]
  /\ UNCHANGED <<recv, send, forward, closing>>

\* The dial fails; the visitor tries again in 3 seconds unless it was closed.
DialFails ==
  /\ dispatcher = "get" /\ closing # "no" /\ VisitorRuns
  /\ dispatcher' = "done"
  /\ UNCHANGED <<n, ends, recv, send, forward, closing, link>>

WorkerCloses ==
  /\ ends' = [ends EXCEPT ![n] = "closed"] /\ link' = [link EXCEPT ![n] = "dead"]
  /\ UNCHANGED <<dispatcher, n, forward, closing>>

\* An error, or nothing for 60 seconds, not even a ping; a packet when readCh is closed.
ReceiverEnds ==
  /\ recv = "run" /\ VisitorRuns
  /\ link[n] \in {"mute", "dead"} \/ closing = "done"
  /\ recv' = "done" /\ WorkerCloses /\ UNCHANGED send

\* sendCh is closed, a write fails, or the receiver has ended.
SenderEnds ==
  /\ send = "run" /\ VisitorRuns
  /\ closing = "done" \/ link[n] = "dead" \/ recv = "done"
  /\ send' = "done" /\ WorkerCloses /\ UNCHANGED recv

WorkerEnds ==
  /\ dispatcher = "work" /\ recv = "done" /\ send = "done" /\ VisitorRuns
  /\ dispatcher' = CheckClosed
  /\ UNCHANGED <<n, ends, recv, send, forward, closing, link>>

Forward(from, to) ==
  /\ forward = from /\ forward' = to /\ UNCHANGED proxy
  /\ UNCHANGED <<dispatcher, n, ends, recv, send, closing, link>>

ForwardReads == closing \in {"no", "flag"} /\ Forward("read", "hold")
ForwardReturns == closing \notin {"no", "flag"} /\ Forward("read", "done")

\* The send that waits for nothing panics when sendCh is closed.
ForwardSends == Forward("hold", IF closing = "done" THEN "panic" ELSE "read")

\* Close: checkCloseCh, the user's socket, then readCh and sendCh.
Close ==
  /\ dispatcher # "none" /\ VisitorRuns
  /\ \/ closing = "no" /\ closing' = "flag"
     \/ closing = "flag" /\ closing' = "udp"
     \/ closing = "udp" /\ closing' = "done"
  /\ UNCHANGED <<dispatcher, n, ends, recv, send, forward, link>>

(***************************************************************************)
(* The client of the proxy.                                                *)
(***************************************************************************)
\* A work connection may be on its way to the proxy while it is closed.
InWorkConn(t) ==
  /\ link[t] = "open" /\ serve[t] = Idle
  /\ serve' = [serve EXCEPT ![t] = [reader |-> "run", sender |-> "run", heart |-> "run", shut |-> FALSE]]
  /\ UNCHANGED <<visitor, link, closed>>

\* closeFn, which the first of the three to end runs.
CloseFn(t, who) ==
  /\ serve' = [serve EXCEPT ![t][who] = "done", ![t].shut = TRUE]
  /\ link' = [link EXCEPT ![t] = "dead"]
  /\ UNCHANGED <<visitor, closed>>

\* closeCh is looked at before each message.
ReaderEnds(t) ==
  /\ serve[t].reader = "run" /\ CloseFn(t, "reader")
  /\ link[t] = "dead" \/ (closed /\ link[t] = "open")

ServerSenderEnds(t) ==
  /\ serve[t].sender = "run" /\ CloseFn(t, "sender")
  /\ serve[t].shut \/ link[t] = "dead"

\* Faulty variant: the heartbeat knows nothing of closeCh.
HeartEndsLast(t) ==
  /\ CloseFn(t, "heart")
  /\ serve[t].heart \in {"run", "block"} /\ serve[t].shut

\* closeCh; or the send of a ping finds sendCh closed.
HeartEnds(t) ==
  /\ CloseFn(t, "heart")
  /\ \/ serve[t].heart = "run" /\ closed
     \/ serve[t].heart \in {"run", "block"} /\ serve[t].shut

\* A ping waits for room in sendCh, which answers of the service may have filled; the sender
\* that takes one of them makes room for the ping.
HeartBeats(t) ==
  /\ serve[t].heart = "run" /\ ~serve[t].shut
  /\ serve' = [serve EXCEPT ![t].heart = "block"] /\ UNCHANGED <<visitor, link, closed>>

SenderWrites(t) ==
  /\ serve[t].sender = "run" /\ serve[t].heart = "block" /\ link[t] = "open"
  /\ serve' = [serve EXCEPT ![t].heart = "run"] /\ UNCHANGED <<visitor, link, closed>>

ProxyCloses == ~closed /\ closed' = TRUE /\ UNCHANGED <<visitor, link, serve>>

\* The network: a tunnel ends, or falls silent until a write or the keepalive fails.
LinkFails(t) ==
  /\ \/ link[t] = "open" /\ link' = [link EXCEPT ![t] = "mute"]
     \/ link[t] \in {"open", "mute"} /\ link' = [link EXCEPT ![t] = "dead"]
  /\ UNCHANGED <<visitor, proxy>>

Next ==
  \/ Run \/ GetConn \/ GetConnFails \/ DialFails \/ ReceiverEnds \/ SenderEnds \/ WorkerEnds
  \/ ForwardReads \/ ForwardReturns \/ ForwardSends \/ Close
  \/ ProxyCloses
  \/ \E t \in Tunnels :
       \/ InWorkConn(t) \/ ReaderEnds(t) \/ ServerSenderEnds(t) \/ HeartEnds(t) \/ HeartBeats(t)
       \/ SenderWrites(t) \/ LinkFails(t)

\* Goroutines run, dials end, a write on an open tunnel ends.  The network owes nothing, and
\* nobody has to close the visitor or the proxy; a Close that has begun goes on.
Fairness ==
  /\ WF_vars(GetConn \/ GetConnFails \/ DialFails)
  /\ WF_vars(ReceiverEnds) /\ WF_vars(SenderEnds) /\ WF_vars(WorkerEnds)
  /\ WF_vars(ForwardReturns) /\ WF_vars(ForwardSends) /\ WF_vars(closing # "no" /\ Close)
  /\ \A t \in Tunnels :
       WF_vars(ReaderEnds(t)) /\ WF_vars(ServerSenderEnds(t)) /\ SF_vars(HeartEnds(t))
       /\ WF_vars(SenderWrites(t))

Spec == Init /\ [][Next]_vars /\ Fairness

(***************************************************************************)
(* Properties.                                                             *)
(***************************************************************************)
Served(t) == serve[t].reader = "run" \/ serve[t].sender = "run" \/ serve[t].heart \in {"run", "block"}

\* What is to end on a tunnel: the visitor's end when the tunnel is dead or silent, and the
\* client's goroutines when it is dead or the proxy closed.  A heartbeat that waits on a silent
\* tunnel is left until the network reports it (client/proxy/proxy.go:701).
Unsettled(t) ==
  \/ ends[t] = "open" /\ link[t] # "open" /\ forward # "panic"
  \/ Served(t) /\ (link[t] = "dead" \/ closed) /\ ~(serve[t].heart = "block" /\ link[t] = "mute")

\* A tunnel that ends or falls silent is given up at both ends, and so are the tunnels of a
\* closed proxy.  After Close of the visitor its goroutines and connections go away, except
\* those that getNewVisitorConn forgot (client/visitor.go:491), or ForwardUserConn panics.
SudpEnds ==
  /\ \A t \in Tunnels : Unsettled(t) ~> ~Unsettled(t)
  /\ closing = "flag" ~>
       \/ forward = "panic"
       \/ dispatcher = "done" /\ forward = "done" /\ \A t \in Tunnels : ends[t] # "open"
=============================================================================
