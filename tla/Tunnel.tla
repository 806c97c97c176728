------------------------------- MODULE Tunnel -------------------------------
(***************************************************************************)
(* One user connection through an STCP visitor and proxy, end to end:      *)
(* user - visitor frpc - frps - frpc of the proxy - local service.  It is  *)
(* made of four links, which three goroutines join pairwise:               *)
(*   STCPVisitor.handleConn         (client/visitor.go),                   *)
(*   HandleUserTCPConnection        (server/proxy/proxy.go),               *)
(*   HandleTCPWorkConnection        (client/proxy/proxy.go).               *)
(* A tcp proxy is the same without the visitor.                            *)
(*                                                                         *)
(* A link has two ends, "a" towards the user.  Ends holds those that frp   *)
(* has to close; the user and the local service close theirs.              *)
(*                                                                         *)
(* Abstractions.  There is one work connection; the pool, its retries and  *)
(* its requests are in WorkConnPool.  Of the data only the first bytes of  *)
(* a local service that speaks first are followed.  Encryption may fail,   *)
(* compression changes nothing.                                            *)
(***************************************************************************)
EXTENDS Naturals, FiniteSets

Links == {"user", "visit", "work", "local"}
Ends ==
  {<<"user", "b">>, <<"visit", "a">>, <<"visit", "b">>, <<"work", "a">>, <<"work", "b">>,
   <<"local", "a">>}

VARIABLES
  up,        \* links that were opened
  lost,      \* links that the user, the service or the network ended
  closed,    \* ends that frp closed
  visitor,   \* handleConn of the visitor: "idle", "dial", "sent", "join", "done"
  register,  \* handleConnection of the visit: "none", "read", "register", "accept", "refuse", "done"
  reply,     \* NewVisitorConnResp: "none", "ok", "error"
  queued,    \* the visit is in acceptCh of the proxy's listener
  listening, \* the listener of the proxy in frps is open
  handler,   \* HandleUserTCPConnection: "none", "get", "join", "done"
  pooled,    \* work connection in frps: "none", "read", "pool", "taken", "done"
  start,     \* StartWorkConn was written to it
  worker,    \* HandleReqWorkConn: "none", "auth", "leak", "wait", "in", "join", "done"
  running,   \* the proxy in frpc is running
  fault,     \* history: something was refused, timed out, failed or was stopped
  overtaken  \* history: bytes of the service were on the visit before the reply

links == <<up, lost, closed>>
visit == <<visitor, register, reply, queued, overtaken>>
server == <<listening, handler, pooled, start>>
client == <<worker, running>>
vars == <<links, visit, server, client, fault>>

Init ==
  /\ up = {} /\ lost = {} /\ closed = {}
  /\ visitor = "idle" /\ register = "none" /\ reply = "none" /\ queued = FALSE
  /\ listening = TRUE /\ handler = "none" /\ pooled = "none" /\ start = FALSE
  /\ worker = "none" /\ running = TRUE
  /\ fault = FALSE /\ overtaken = FALSE

Dead(l) == l \in lost \/ \E e \in closed : e[1] = l

Close(ends) == closed' = closed \union ends /\ UNCHANGED <<up, lost>>
Fault == fault' = TRUE

(***************************************************************************)
(* The visitor.                                                            *)
(***************************************************************************)
VisitorGoes(place) ==
  visitor' = place /\ UNCHANGED <<register, reply, queued, overtaken, server, client>>

UserConnects ==
  /\ visitor = "idle" /\ VisitorGoes("dial")
  /\ up' = up \union {"user"} /\ UNCHANGED <<lost, closed, fault>>

VisitorDials ==
  /\ visitor = "dial"
  /\ \/ /\ up' = up \union {"visit"} /\ UNCHANGED <<lost, closed, fault>>
        /\ visitor' = "sent" /\ register' = "read"
        /\ UNCHANGED <<reply, queued, overtaken, server, client>>
     \/ VisitorGoes("done") /\ Close({<<"user", "b">>}) /\ Fault

\* The deferred calls of handleConn.
VisitorLeaves == VisitorGoes("done") /\ Close({<<"user", "b">>, <<"visit", "a">>})

\* The reply, which may still be read when the link has ended; an error; bytes that are none.
VisitorReads ==
  /\ visitor = "sent"
  /\ \/ reply = "ok" /\ ~overtaken /\ VisitorGoes("join") /\ UNCHANGED <<links, fault>>
     \/ reply = "ok" /\ VisitorLeaves /\ Fault
     \/ (reply = "error" \/ overtaken) /\ VisitorLeaves /\ UNCHANGED fault
     \/ Dead("visit") /\ VisitorLeaves /\ UNCHANGED fault

\* No reply for 10 seconds.
VisitorTimesOut ==
  visitor = "sent" /\ reply = "none" /\ VisitorLeaves /\ Fault

VisitorJoins ==
  /\ visitor = "join" /\ (Dead("user") \/ Dead("visit"))
  /\ VisitorLeaves /\ UNCHANGED fault

(***************************************************************************)
(* frps: handleConnection of the visit.                                    *)
(***************************************************************************)
RegisterGoes(place) ==
  register' = place /\ UNCHANGED <<visitor, overtaken, server, client>>

\* The first message, or the read deadline or the end of the link.
ServerReads ==
  /\ register = "read"
  /\ \/ RegisterGoes("register") /\ UNCHANGED <<reply, queued, links, fault>>
     \/ RegisterGoes("done") /\ Close({<<"visit", "b">>}) /\ Fault /\ UNCHANGED <<reply, queued>>

\* RegisterVisitorConn: the visit goes to the proxy's listener; a full queue closes it and
\* says nothing; a closed listener, an unknown name and a wrong key are errors.
ServerRegisters ==
  /\ register = "register"
  /\ UNCHANGED reply
  /\ \/ /\ listening /\ queued' = TRUE /\ RegisterGoes("accept")
        /\ UNCHANGED <<links, fault>>
     \/ /\ listening /\ Close({<<"visit", "b">>}) /\ RegisterGoes("accept") /\ Fault
        /\ UNCHANGED queued
     \/ RegisterGoes("refuse") /\ Fault /\ UNCHANGED <<queued, links>>

\* Faulty variant: the connection is closed after either reply.
ServerRepliesAndCloses ==
  /\ register \in {"accept", "refuse"}
  /\ reply' = IF <<"visit", "b">> \in closed THEN "none"
              ELSE IF register = "accept" THEN "ok" ELSE "error"
  /\ Close({<<"visit", "b">>})
  /\ RegisterGoes("done") /\ UNCHANGED <<queued, fault>>

\* The reply is written after the proxy has got the connection.
ServerReplies ==
  /\ register \in {"accept", "refuse"}
  /\ reply' = IF <<"visit", "b">> \in closed THEN "none"
              ELSE IF register = "accept" THEN "ok" ELSE "error"
  /\ IF register = "accept" THEN UNCHANGED links ELSE Close({<<"visit", "b">>})
  /\ RegisterGoes("done") /\ UNCHANGED <<queued, fault>>

(***************************************************************************)
(* frps: the proxy.                                                        *)
(***************************************************************************)
HandlerGoes(place) ==
  handler' = place /\ UNCHANGED <<visitor, register, reply, overtaken, listening, client>>

\* The accept loop; a closed channel gives what it holds.
HandlerAccepts ==
  /\ queued /\ queued' = FALSE
  /\ HandlerGoes("get") /\ UNCHANGED <<links, pooled, start, fault>>

\* Faulty variant: a user for whom there is no work connection is not disconnected.
HandlerFailsOpen ==
  /\ handler = "get"
  /\ HandlerGoes("done") /\ Fault
  /\ \/ UNCHANGED <<links, pooled, start>>
     \/ /\ pooled = "pool" /\ pooled' = "taken" /\ start' = ~Dead("work")
        /\ Close({<<"visit", "b">>, <<"work", "a">>})
  /\ UNCHANGED queued

\* A plugin rejects the user, no work connection comes, or encryption fails.
HandlerFails ==
  /\ handler = "get"
  /\ HandlerGoes("done") /\ Fault
  /\ \/ Close({<<"visit", "b">>}) /\ UNCHANGED <<pooled, start>>
     \/ /\ pooled = "pool" /\ pooled' = "taken" /\ start' = ~Dead("work")
        /\ Close({<<"visit", "b">>, <<"work", "a">>})
  /\ UNCHANGED queued

\* GetWorkConnFromPool, also with a connection that turns out to be dead.
HandlerTakes ==
  /\ handler = "get" /\ pooled = "pool"
  /\ pooled' = "taken" /\ start' = ~Dead("work")
  /\ HandlerGoes("join") /\ UNCHANGED <<links, queued, fault>>

\* Faulty variant: the work connection is not closed with the user's.
HandlerJoinsHalf ==
  /\ handler = "join" /\ (Dead("visit") \/ Dead("work"))
  /\ Close({<<"visit", "b">>})
  /\ HandlerGoes("done") /\ UNCHANGED <<queued, pooled, start, fault>>

HandlerJoins ==
  /\ handler = "join" /\ (Dead("visit") \/ Dead("work"))
  /\ Close({<<"visit", "b">>, <<"work", "a">>})
  /\ HandlerGoes("done") /\ UNCHANGED <<queued, pooled, start, fault>>

\* A service that speaks first: its bytes reach the visit, behind the reply or before it.
ServiceSpeaks ==
  /\ worker = "join" /\ handler = "join" /\ ~\E l \in {"local", "work", "visit"} : Dead(l)
  /\ reply = "none" /\ ~overtaken
  /\ overtaken' = TRUE
  /\ UNCHANGED <<links, visitor, register, reply, queued, server, client, fault>>

\* Close of the proxy: the listener, then the name; a visit finds neither.
ProxyCloses ==
  /\ listening /\ listening' = FALSE
  /\ Fault /\ UNCHANGED <<links, visit, handler, pooled, start, client>>

(***************************************************************************)
(* The work connection: HandleReqWorkConn of frpc, RegisterWorkConn.       *)
(***************************************************************************)
WorkerGoes(place) == worker' = place /\ UNCHANGED <<visit, listening, handler, start, running>>

WorkerDials ==
  /\ worker = "none" /\ WorkerGoes("auth")
  /\ up' = up \union {"work"} /\ pooled' = "read" /\ UNCHANGED <<lost, closed, fault>>

\* NewWorkConn is sent.  When it cannot be authenticated, the connection is not closed.
WorkerSends ==
  /\ worker = "auth" /\ UNCHANGED <<links, pooled>>
  /\ \/ WorkerGoes("wait") /\ UNCHANGED fault
     \/ WorkerGoes("leak") /\ Fault

\* NewWorkConn comes in time, and is accepted or refused; or it does not.
WorkRegisters ==
  /\ pooled = "read"
  /\ UNCHANGED <<visit, listening, handler, start, client>>
  /\ \/ worker # "auth" /\ worker # "leak" /\ pooled' = "pool" /\ UNCHANGED <<links, fault>>
     \/ pooled' = "done" /\ Close({<<"work", "a">>}) /\ Fault

\* The control ends and drains its pool.
PoolCloses ==
  /\ pooled = "pool" /\ pooled' = "done"
  /\ Close({<<"work", "a">>}) /\ Fault
  /\ UNCHANGED <<visit, listening, handler, start, client>>

WorkerLeaves == WorkerGoes("done") /\ Close({<<"work", "b">>}) /\ UNCHANGED pooled

\* StartWorkConn names a proxy, which has to run; otherwise the connection has ended.
WorkerStarts ==
  /\ worker = "wait"
  /\ \/ start /\ running /\ WorkerGoes("in") /\ UNCHANGED <<links, pooled, fault>>
     \/ ((start /\ ~running) \/ Dead("work")) /\ WorkerLeaves /\ UNCHANGED fault

\* HandleTCPWorkConnection: encryption or the dial of the service may fail.
WorkerHandles ==
  /\ worker = "in"
  /\ \/ /\ up' = up \union {"local"} /\ UNCHANGED <<lost, closed, fault>>
        /\ WorkerGoes("join") /\ UNCHANGED pooled
     \/ WorkerLeaves /\ Fault

WorkerJoins ==
  /\ worker = "join" /\ (Dead("work") \/ Dead("local"))
  /\ Close({<<"work", "b">>, <<"local", "a">>})
  /\ WorkerGoes("done") /\ UNCHANGED <<pooled, fault>>

\* Stop of the proxy in frpc leaves the connections alone.
ClientStops ==
  /\ running /\ running' = FALSE
  /\ Fault /\ UNCHANGED <<links, visit, server, worker>>

\* The user or the service leaves, or the network loses a link.
Lose(l) ==
  /\ l \in up \ lost /\ lost' = lost \union {l}
  /\ Fault /\ UNCHANGED <<up, closed, visit, server, client>>

FrpSteps ==
  \/ VisitorDials \/ VisitorReads \/ VisitorTimesOut \/ VisitorJoins
  \/ ServerReads \/ ServerRegisters \/ ServerReplies
  \/ HandlerAccepts \/ HandlerFails \/ HandlerTakes \/ HandlerJoins
  \/ WorkerSends \/ WorkRegisters \/ WorkerStarts \/ WorkerHandles \/ WorkerJoins

Next ==
  \/ FrpSteps
  \/ UserConnects \/ ServiceSpeaks \/ WorkerDials
  \/ ProxyCloses \/ PoolCloses \/ ClientStops
  \/ \E l \in Links : Lose(l)

\* Goroutines run, dials and registrations end, and deadlines pass.  Nobody has to connect, to
\* speak, to leave, to close a proxy or to open a work connection.
Fairness ==
  /\ WF_vars(VisitorDials) /\ WF_vars(VisitorReads \/ VisitorTimesOut) /\ WF_vars(VisitorJoins)
  /\ WF_vars(ServerReads) /\ WF_vars(ServerRegisters) /\ WF_vars(ServerReplies)
  /\ WF_vars(HandlerAccepts) /\ WF_vars(HandlerFails \/ HandlerTakes) /\ WF_vars(HandlerJoins)
  /\ WF_vars(WorkerSends) /\ WF_vars(WorkRegisters) /\ WF_vars(WorkerStarts)
  /\ WF_vars(WorkerHandles) /\ WF_vars(WorkerJoins)

Spec == Init /\ [][Next]_vars /\ Fairness

(***************************************************************************)
(* Properties.                                                             *)
(***************************************************************************)
\* The links of the user's chain; a work connection that nobody took is not among them.
Chain == (up \ {"work"}) \union (IF pooled = "taken" THEN {"work"} ELSE {})

\* When any link of the chain ends, at any stage of its making, frp closes all its ends of the
\* chain: nothing keeps a service or a user waiting on a half of a tunnel.  A work connection
\* that the pool gave up is closed at both ends too, unless SetNewWorkConn had failed for it
\* (client/control.go:146).
TunnelCollapses ==
  /\ (\E l \in Chain : Dead(l)) ~> \A e \in Ends : e[1] \in Chain => e \in closed
  /\ pooled = "done" ~> (worker = "leak" \/ {<<"work", "a">>, <<"work", "b">>} \subseteq closed)

\* A user of the visitor gets the service, or is disconnected.
Joined == visitor = "join" /\ handler = "join" /\ worker = "join"
UserServed == visitor = "dial" ~> (Joined \/ <<"user", "b">> \in closed)

\* Without a fault a user is not disconnected, except by the bytes of a service that spoke
\* before the reply was written (server/service.go:358, 366).
OnlyOvertaken ==
  <<"user", "b">> \in closed => fault \/ overtaken

=============================================================================
