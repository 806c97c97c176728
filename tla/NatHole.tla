------------------------------- MODULE NatHole -------------------------------
(***************************************************************************)
(* One user connection through an XTCP visitor: the visitor and the client *)
(* of the proxy make a hole in their NATs, with frps as the go-between.    *)
(*   XTCPVisitor.handleConn   (client/visitor.go)                          *)
(*   Controller               (pkg/nathole/nathole.go)                     *)
(*   XTCPProxy.Run            (server/proxy/xtcp.go): one goroutine, which *)
(*                            serves the visits one after the other        *)
(*   XTCPProxy.InWorkConn     (client/proxy/proxy.go)                      *)
(*                                                                         *)
(* Datagrams are lost, delayed, overtaken and repeated; but a repeated     *)
(* NatHoleVisitor is a visit of its own, for which nobody waits.           *)
(* Abstractions.  Other visits appear as what the goroutine of the proxy   *)
(* is busy with.  The link that the hole carries, kcp and yamux, is a      *)
(* rendezvous of both ends, which its keepalive ends when one end is gone. *)
(***************************************************************************)
Datagrams ==
  {"NatHoleVisitor", "NatHoleClient", "RespToClient", "RespToVisitor", "Error",
   "detect", "sid", "ack"}

VARIABLES
  net,       \* datagrams under way
  visitor,   \* handleConn: "idle", "asked", "sent", "made", "done"
  handler,   \* HandleVisitor, whose session is listed: "none", "offer", "wait", "done"
  listed,    \* the proxy is in clientCfgs
  loop,      \* goroutine of the proxy: "idle", "other" or "get" a work connection for this visit
  reads,     \* goroutine that reads NatHoleClientDetectOK: "none", "read", "closed", "kept"
  client,    \* InWorkConn: "none", "start", "asked", "punched", "ready", "listen", "heard", "made", "done"
  reported,  \* NatHoleClientDetectOK is on the work connection
  address,   \* the session has the address of the client
  punched,   \* history: the client sent its detect message
  heard,     \* history: the client took the sid of the visitor
  mistaken   \* history: the visitor took the detect message for the acknowledgement

server == <<handler, listed, loop, reads, address>>
history == <<punched, heard, mistaken>>
vars == <<net, visitor, server, client, reported, history>>

Init ==
  /\ net = {} /\ visitor = "idle" /\ handler = "none" /\ listed = TRUE
  /\ loop = "idle" /\ reads = "none" /\ client = "none" /\ reported = FALSE
  /\ address = FALSE /\ punched = FALSE /\ heard = FALSE /\ mistaken = FALSE

Send(d) == net' = net \union {d}
Left(d) == {net \ {d}} \union (IF d = "NatHoleVisitor" THEN {} ELSE {net})
Receive(d) == d \in net /\ net' \in Left(d)
Answer(d, reply) == d \in net /\ \E rest \in Left(d) : net' = rest \union {reply}

Lose(d) ==
  /\ d \in net /\ net' = net \ {d}
  /\ UNCHANGED <<visitor, server, client, reported, history>>

(***************************************************************************)
(* The visitor.                                                            *)
(***************************************************************************)
VisitorGoes(from, to) ==
  /\ visitor = from /\ visitor' = to
  /\ UNCHANGED <<server, client, reported, punched, heard>>

UserConnects == VisitorGoes("idle", "asked") /\ Send("NatHoleVisitor") /\ UNCHANGED mistaken

\* The response; its address is dialled from the same port and gets the sid.
VisitorTold ==
  /\ VisitorGoes("asked", "sent") /\ Answer("RespToVisitor", "sid")
  /\ UNCHANGED mistaken

VisitorRefused == VisitorGoes("asked", "done") /\ Receive("Error") /\ UNCHANGED mistaken

\* The detect message holds the same bytes as the acknowledgement, from the same address.
VisitorAcked ==
  /\ VisitorGoes("sent", "made")
  /\ \E d \in {"ack", "detect"} : Receive(d) /\ mistaken' = (d = "detect")

\* 10 seconds for the response, 8 for the acknowledgement.
VisitorTimesOut ==
  /\ VisitorGoes("asked", "done") \/ VisitorGoes("sent", "done")
  /\ UNCHANGED <<net, mistaken>>

\* The user leaves, or the other end of the link is not there.
VisitorEnds == VisitorGoes("made", "done") /\ UNCHANGED <<net, mistaken>>

(***************************************************************************)
(* frps: the controller, and the goroutines of the proxy.                  *)
(***************************************************************************)
HandleVisitor ==
  /\ UNCHANGED <<visitor, listed, loop, reads, address, client, reported, history>>
  /\ \/ listed /\ Receive("NatHoleVisitor") /\ handler' = "offer"
     \/ Answer("NatHoleVisitor", "Error") /\ UNCHANGED handler

HandlerTimesOut ==
  /\ handler = "wait" /\ handler' = "done"
  /\ UNCHANGED <<net, visitor, listed, loop, reads, address, client, reported, history>>

LoopGoes(from, to) ==
  /\ loop = from /\ loop' = to
  /\ UNCHANGED <<net, visitor, listed, address, reported, history>>

\* Faulty variant: the goroutine ends with its proxy.
LoopTakesWhileListed ==
  /\ listed /\ LoopGoes("idle", "get") /\ handler = "offer" /\ handler' = "wait"
  /\ UNCHANGED <<reads, client>>

\* The goroutine does not end when the proxy is closed: closeCh is nil, and break leaves select.
LoopTakes ==
  /\ LoopGoes("idle", "get") /\ handler = "offer" /\ handler' = "wait"
  /\ UNCHANGED <<reads, client>>

LoopTakesOther == LoopGoes("idle", "other") /\ UNCHANGED <<handler, reads, client>>

\* A work connection comes and takes the sid, or none comes within its time.
LoopSends ==
  /\ UNCHANGED handler
  /\ \/ LoopGoes("get", "idle") /\ reads' = "read" /\ client' = "start"
     \/ (LoopGoes("get", "idle") \/ LoopGoes("other", "idle")) /\ UNCHANGED <<reads, client>>

\* Faulty variant: both ends are told at once.
HandleClientTellsBoth ==
  /\ UNCHANGED <<visitor, handler, listed, loop, reads, client, reported, history>>
  /\ IF handler \in {"offer", "wait"}
     THEN /\ "NatHoleClient" \in net /\ address' = TRUE
          /\ net' = (net \ {"NatHoleClient"}) \union {"RespToClient", "RespToVisitor"}
     ELSE Receive("NatHoleClient") /\ UNCHANGED address

HandleClient ==
  /\ UNCHANGED <<visitor, handler, listed, loop, reads, client, reported, history>>
  /\ IF handler \in {"offer", "wait"}
     THEN Answer("NatHoleClient", "RespToClient") /\ address' = TRUE
     ELSE Receive("NatHoleClient") /\ UNCHANGED address

\* DetectOK; the notification is dropped unless the handler waits for it.  The work connection
\* is not closed here, nor anywhere else in frps.
ServerNotified ==
  /\ reads = "read" /\ reported /\ reads' = "kept"
  /\ IF handler = "wait" THEN handler' = "done" /\ Send("RespToVisitor")
     ELSE UNCHANGED <<handler, net>>
  /\ UNCHANGED <<visitor, listed, loop, address, client, reported, history>>

ServerClosesWork ==
  /\ reads = "read" /\ ~reported /\ client = "done" /\ reads' = "closed"
  /\ UNCHANGED <<net, visitor, handler, listed, loop, address, client, reported, history>>

ProxyCloses ==
  /\ listed /\ listed' = FALSE
  /\ UNCHANGED <<net, visitor, handler, loop, reads, address, client, reported, history>>

(***************************************************************************)
(* The client of the proxy.                                                *)
(***************************************************************************)
ClientGoes(from, to) ==
  client = from /\ client' = to /\ UNCHANGED <<visitor, server, mistaken>>

ClientAsks ==
  /\ ClientGoes("start", "asked") /\ Send("NatHoleClient")
  /\ UNCHANGED <<reported, punched, heard>>

ClientPunches ==
  /\ ClientGoes("asked", "punched") /\ Answer("RespToClient", "detect") /\ punched' = TRUE
  /\ UNCHANGED <<reported, heard>>

ClientReports ==
  /\ ClientGoes("punched", "ready") /\ reported' = TRUE
  /\ UNCHANGED <<net, punched, heard>>

\* Until then nobody listens on the port.
ClientListens == ClientGoes("ready", "listen") /\ UNCHANGED <<net, reported, punched, heard>>

ClientHears ==
  /\ ClientGoes("listen", "heard") /\ Answer("sid", "ack") /\ heard' = TRUE
  /\ UNCHANGED <<reported, punched>>

ClientAccepts ==
  visitor = "made" /\ ClientGoes("heard", "made") /\ UNCHANGED <<net, reported, punched, heard>>

\* 5 seconds for the response and 8 for the sid; a proxy that does not run, a port that is in
\* use; data of the link instead of the sid; a link whose other end is not there.
ClientEnds ==
  /\ UNCHANGED <<net, reported, punched, heard>>
  /\ \/ \E s \in {"start", "asked", "punched", "ready", "listen"} : ClientGoes(s, "done")
     \/ visitor # "made" /\ \E s \in {"heard", "made"} : ClientGoes(s, "done")

Next ==
  \/ \E d \in Datagrams : Lose(d)
  \/ UserConnects \/ VisitorTold \/ VisitorRefused \/ VisitorAcked \/ VisitorTimesOut \/ VisitorEnds
  \/ HandleVisitor \/ HandlerTimesOut \/ LoopTakes \/ LoopTakesOther \/ LoopSends
  \/ HandleClient \/ ServerNotified \/ ServerClosesWork \/ ProxyCloses
  \/ ClientAsks \/ ClientPunches \/ ClientReports \/ ClientListens \/ ClientHears
  \/ ClientAccepts \/ ClientEnds

\* Deadlines pass and goroutines run; the goroutine of the proxy is not kept by the other visits
\* for ever; the keepalive of a link notices a missing end.  No datagram has to arrive, and
\* nobody has to connect, to leave or to close the proxy.
Fairness ==
  /\ WF_vars(VisitorTold \/ VisitorRefused \/ VisitorAcked \/ VisitorTimesOut)
  /\ WF_vars(client = "done" /\ VisitorEnds)
  /\ WF_vars(HandlerTimesOut) /\ SF_vars(LoopTakes) /\ WF_vars(LoopSends)
  /\ WF_vars(ServerNotified \/ ServerClosesWork)
  /\ WF_vars(ClientReports \/ ClientListens \/ ClientAccepts \/ ClientEnds)

Spec == Init /\ [][Next]_vars /\ Fairness

(***************************************************************************)
(* Properties.                                                             *)
(***************************************************************************)
\* However datagrams are delayed, the visitor is told an address only when the client has one
\* and has made its hole; and a visitor that joins the user was heard by the client, except
\* when it took a late detect message for the acknowledgement (client/visitor.go:284-296).
HoleAgrees ==
  /\ "RespToVisitor" \in net => punched /\ address
  /\ visitor = "made" => heard \/ mistaken

\* A goroutine of the visit waits for something that may not come.
Joined == visitor = "made" /\ client = "made"
Waiting ==
  \/ visitor \notin {"idle", "done"} /\ ~Joined
  \/ handler \in {"offer", "wait"}
  \/ client \notin {"none", "done"} /\ ~Joined
  \/ reads = "read"

\* Whatever is lost and whoever goes away, no goroutine of the visit waits for ever: the user is
\* disconnected or joined, the session is dropped, the client is joined or gives up, and the
\* one that reads the work connection ends.
HoleEnds == Waiting ~> ~Waiting
=============================================================================
