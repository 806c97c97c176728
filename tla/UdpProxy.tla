------------------------------ MODULE UdpProxy ------------------------------
(***************************************************************************)
(* One UDP proxy: UDPProxy of frps (server/proxy/udp.go), which forwards   *)
(* the datagrams of users over one work connection at a time, and UDPProxy *)
(* of frpc (client/proxy/proxy.go), which serves that connection.          *)
(*                                                                         *)
(* Server.  `main` gets a work connection, installs it, starts a reader    *)
(* and a sender for it and waits for the reader's notice that it broke.    *)
(* `forward` is ForwardUserConn.  Close may be called at any time, by the  *)
(* control or by the goroutine of ForwardUserConn; it closes the current   *)
(* connection, the user socket and the three channels together (srvClosed). *)
(*                                                                         *)
(* Client.  Every work connection is handed to InWorkConn in a goroutine   *)
(* of its own, which closes what is there, installs the connection and new *)
(* channels, and starts reader, sender and heartbeat.  Channels are named  *)
(* by the connection they were made for.                                   *)
(*                                                                         *)
(* Abstractions.  Datagrams are not followed; a channel that is open may   *)
(* have one to give.  Full channels drop datagrams (ForwardUserConn) or    *)
(* are drained by a goroutine that does not block.  The senders of both    *)
(* sides and the reader of the client are not followed: they end with      *)
(* their channel, with the context or with the connection, and do nothing  *)
(* then but close a connection that is dead already.                       *)
(***************************************************************************)
EXTENDS Naturals, FiniteSets

CONSTANTS Conns, None

VARIABLES
  srvClosed,  \* isClosed: udpConn, checkCloseCh, readCh and sendCh are closed
  srvConn,    \* pxy.workConn of the server
  main,       \* [at, conn]: the goroutine that gets and installs connections
  reader,     \* connection -> workConnReaderFn: "none", "read", "notify" or "done"
  forward,    \* ForwardUserConn: "read", "holding" a datagram, "close", "done" or "panic"
  conn,       \* connection -> "unused", "open" or "closed", by either side or the network
  running,    \* the client's wrapper is in phase running
  cliClosed,  \* pxy.closed of the client
  cliConn,    \* pxy.workConn of the client, which also names its channels
  chClosed,   \* client channels that were closed
  inWork,     \* connection -> InWorkConn: "none", "asked", "close", "install", "spawn", "up", "off"
  heart,      \* InWorkConn's connection -> the connection its heartbeat pings, or None
  late,       \* history: main installed a connection after Close
  reopened,   \* history: InWorkConn installed a connection after the proxy was stopped
  overlapped  \* history: two InWorkConn ran at once

server == <<srvClosed, srvConn, main, reader, forward, late>>
client == <<running, cliClosed, cliConn, chClosed, inWork, heart, reopened, overlapped>>
vars == <<server, conn, client>>

Init ==
  /\ srvClosed = FALSE /\ srvConn = None
  /\ main = [at |-> "get", conn |-> None]
  /\ reader = [w \in Conns |-> "none"] /\ forward = "read"
  /\ conn = [w \in Conns |-> "unused"]
  /\ running = TRUE /\ cliClosed = FALSE /\ cliConn = None /\ chClosed = {}
  /\ inWork = [w \in Conns |-> "none"] /\ heart = [w \in Conns |-> None]
  /\ late = FALSE /\ reopened = FALSE /\ overlapped = FALSE

Dead(w) == conn[w] = "closed"
Shut(w) == IF w = None THEN conn ELSE [conn EXCEPT ![w] = "closed"]
Pings(w) == \E t \in Conns : heart[t] = w

(***************************************************************************)
(* Server: the goroutine that keeps a work connection.                     *)
(***************************************************************************)
\* GetWorkConnFromPool wrote StartWorkConn to a connection of the pool.
MainGets(w) ==
  /\ main.at = "get" /\ conn[w] = "unused"
  /\ main' = [at |-> "got", conn |-> w]
  /\ conn' = [conn EXCEPT ![w] = "open"]
  /\ inWork' = [inWork EXCEPT ![w] = "asked"]
  /\ UNCHANGED <<srvClosed, srvConn, reader, forward, late, running,
                 cliClosed, cliConn, chClosed, heart, reopened, overlapped>>

\* Faulty variant: a proxy that is closed goes on asking for connections.
MainFailsKeepsTrying == main.at = "get" /\ UNCHANGED vars

\* No connection: a second later checkCloseCh is looked at, and no reader is left to notify it.
MainFails ==
  /\ main.at = "get" /\ srvClosed
  /\ main' = [main EXCEPT !.at = "done"]
  /\ UNCHANGED <<srvClosed, srvConn, reader, forward, late, conn, client>>

\* The old connection is read from the proxy without its lock, and closed.
MainClosesOld ==
  /\ main.at = "got"
  /\ conn' = Shut(srvConn)
  /\ main' = [main EXCEPT !.at = "install"]
  /\ UNCHANGED <<srvClosed, srvConn, reader, forward, late, client>>

\* The new one takes its place, unless its encryption fails.
MainInstalls ==
  LET w == main.conn
  IN /\ main.at = "install"
     /\ \/ /\ srvConn' = w /\ main' = [main EXCEPT !.at = "wait"]
           /\ reader' = [reader EXCEPT ![w] = "read"]
           /\ late' = (late \/ srvClosed)
           /\ UNCHANGED conn
        \/ /\ conn' = Shut(w) /\ main' = [at |-> "get", conn |-> None]
           /\ UNCHANGED <<srvConn, reader, late>>
     /\ UNCHANGED <<srvClosed, forward, client>>

\* checkCloseCh gives a reader's notice, or is closed.
MainWaits ==
  /\ main.at = "wait"
  /\ \/ /\ srvClosed /\ main' = [main EXCEPT !.at = "done"] /\ UNCHANGED reader
     \/ /\ ~srvClosed /\ main' = [at |-> "get", conn |-> None]
        /\ \E w \in Conns : reader[w] = "notify" /\ reader' = [reader EXCEPT ![w] = "done"]
  /\ UNCHANGED <<srvClosed, srvConn, forward, late, conn, client>>

\* Faulty variant: the reader of a broken connection does not notify main.
ReadFailsSilently(w) ==
  /\ reader[w] = "read" /\ (Dead(w) \/ ~Pings(w))
  /\ conn' = Shut(w)
  /\ reader' = [reader EXCEPT ![w] = "done"]
  /\ UNCHANGED <<srvClosed, srvConn, main, forward, late, client>>

\* The read fails, also when nothing came for 60 seconds: a client pings every 30.
ReadFails(w) ==
  /\ reader[w] = "read" /\ (Dead(w) \/ ~Pings(w))
  /\ conn' = Shut(w)
  /\ reader' = [reader EXCEPT ![w] = "notify"]
  /\ UNCHANGED <<srvClosed, srvConn, main, forward, late, client>>

\* A datagram for a closed readCh: the panic is caught and the connection closed.
ReadAfterClose(w) ==
  /\ reader[w] = "read" /\ srvClosed /\ Pings(w)
  /\ conn' = Shut(w)
  /\ reader' = [reader EXCEPT ![w] = "done"]
  /\ UNCHANGED <<srvClosed, srvConn, main, forward, late, client>>

\* The notice of a reader finds checkCloseCh closed; the panic is caught.
NotifyAfterClose(w) ==
  /\ reader[w] = "notify" /\ srvClosed
  /\ reader' = [reader EXCEPT ![w] = "done"]
  /\ UNCHANGED <<srvClosed, srvConn, main, forward, late, conn,
                 client>>

(***************************************************************************)
(* Server: ForwardUserConn and Close.                                      *)
(***************************************************************************)
ForwardTo(place) ==
  /\ forward' = place
  /\ UNCHANGED <<srvClosed, srvConn, main, reader, late, conn,
                 client>>

\* A datagram of a user was read, and is not sent to sendCh yet.
ForwardReads == forward = "read" /\ ~srvClosed /\ ForwardTo("holding")

\* The send, which nothing recovers when sendCh was closed meanwhile: frps is gone.
ForwardSends ==
  forward = "holding" /\ ForwardTo(IF srvClosed THEN "panic" ELSE "read")

\* The user socket is closed, or its read failed.
ForwardReturns == forward = "read" /\ ForwardTo("close")

Closing ==
  /\ srvClosed' = TRUE
  /\ conn' = IF srvClosed THEN conn ELSE Shut(srvConn)
  /\ UNCHANGED <<srvConn, main, reader, late, client>>

ForwardCloses == forward = "close" /\ forward' = "done" /\ Closing

\* CloseProxy or the end of the control.
ControlCloses == ~srvClosed /\ Closing /\ UNCHANGED forward

(***************************************************************************)
(* Client.                                                                 *)
(***************************************************************************)
Break(w) ==
  /\ conn[w] = "open" /\ conn' = Shut(w)
  /\ UNCHANGED <<server, client>>

\* Wrapper.InWorkConn: a proxy that runs gets the connection in a new goroutine.
WorkConnArrives(w) ==
  /\ inWork[w] = "asked"
  /\ IF running THEN inWork' = [inWork EXCEPT ![w] = "close"] /\ UNCHANGED conn
     ELSE inWork' = [inWork EXCEPT ![w] = "off"] /\ conn' = Shut(w)
  /\ UNCHANGED <<server, running, cliClosed, cliConn, chClosed, heart,
                 reopened, overlapped>>

\* UDPProxy.Close of the client.
CliClose ==
  /\ cliClosed' = TRUE
  /\ IF cliClosed \/ cliConn = None THEN UNCHANGED <<conn, chClosed>>
     ELSE /\ conn' = Shut(cliConn)
          /\ chClosed' = chClosed \union {cliConn}

\* InWorkConn first closes what belongs to the old work connection.
InWorkCloses(w) ==
  /\ inWork[w] = "close"
  /\ CliClose
  /\ inWork' = [inWork EXCEPT ![w] = "install"]
  /\ overlapped' = (overlapped \/ \E v \in Conns : inWork[v] \in {"install", "spawn"})
  /\ UNCHANGED <<server, running, cliConn, heart, reopened>>

\* Then it installs the connection and new channels, unless encryption fails.
InWorkInstalls(w) ==
  /\ inWork[w] = "install"
  /\ \/ /\ cliConn' = w /\ cliClosed' = FALSE
        /\ inWork' = [inWork EXCEPT ![w] = "spawn"]
        /\ reopened' = (reopened \/ ~running)
        /\ UNCHANGED conn
     \/ /\ conn' = Shut(w)
        /\ inWork' = [inWork EXCEPT ![w] = "off"]
        /\ UNCHANGED <<cliConn, cliClosed, reopened>>
  /\ UNCHANGED <<server, running, chClosed, heart, overlapped>>

\* The goroutines get the connection and the channels the proxy has now.
InWorkSpawns(w) ==
  /\ inWork[w] = "spawn"
  /\ inWork' = [inWork EXCEPT ![w] = "up"]
  /\ heart' = [heart EXCEPT ![w] = cliConn]
  /\ UNCHANGED <<server, conn, running, cliClosed, cliConn, chClosed,
                 reopened, overlapped>>

\* The heartbeat ends when sendCh is closed, and only then.
HeartEnds(w) ==
  /\ heart[w] # None /\ heart[w] \in chClosed
  /\ heart' = [heart EXCEPT ![w] = None]
  /\ UNCHANGED <<server, conn, running, cliClosed, cliConn, chClosed, inWork,
                 reopened, overlapped>>

\* Wrapper.Stop.
ClientStops ==
  /\ running
  /\ running' = FALSE
  /\ CliClose
  /\ UNCHANGED <<server, cliConn, inWork, heart, reopened, overlapped>>

Alive == forward # "panic"

ClientServes(w) ==
  WorkConnArrives(w) \/ InWorkCloses(w) \/ InWorkInstalls(w) \/ InWorkSpawns(w)

Steps(w) ==
  \/ MainGets(w) \/ ReadFails(w) \/ ReadAfterClose(w) \/ NotifyAfterClose(w)
  \/ ClientServes(w)
  \/ HeartEnds(w) \/ Break(w)

Next ==
  /\ Alive
  /\ \/ MainFails \/ MainClosesOld \/ MainInstalls \/ MainWaits
     \/ ForwardReads \/ ForwardSends \/ ForwardReturns \/ ForwardCloses \/ ControlCloses
     \/ ClientStops
     \/ \E w \in Conns : Steps(w)

Spec == Init /\ [][Next]_vars

\* Goroutines run; reads and writes of a dead connection fail; the pool of a living client
\* has a connection in the end.  Users, the network, Close and Stop owe nothing.
FairSpec ==
  /\ Spec
  /\ WF_vars(Alive /\ (MainClosesOld \/ MainInstalls)) /\ WF_vars(Alive /\ MainWaits)
  /\ WF_vars(Alive /\ MainFails) /\ WF_vars(Alive /\ \E w \in Conns : MainGets(w))
  /\ WF_vars(Alive /\ (ForwardSends \/ ForwardCloses))
  /\ WF_vars(Alive /\ srvClosed /\ ForwardReturns)
  /\ \A w \in Conns :
       /\ WF_vars(Alive /\ ReadFails(w)) /\ WF_vars(Alive /\ NotifyAfterClose(w))
       /\ WF_vars(Alive /\ ClientServes(w))
       /\ WF_vars(Alive /\ HeartEnds(w))

(***************************************************************************)
(* Properties.                                                             *)
(***************************************************************************)
\* A work connection that died is noticed and given up for another one: the notice over the
\* unbuffered checkCloseCh is not lost (server/proxy/udp.go:104-108, 202).
BrokenIsReplaced ==
  \A w \in Conns :
    (srvConn = w /\ Dead(w) /\ ~srvClosed) ~>
      (srvConn # w \/ srvClosed \/ ~Alive \/ \A v \in Conns : conn[v] # "unused")

ServerQuiet ==
  /\ main.at = "done" /\ forward = "done"
  /\ \A w \in Conns : reader[w] \in {"none", "done"}
ClientQuiet == \A w \in Conns : heart[w] = None /\ conn[w] # "open"

\* After Close of the server's proxy its goroutines end, and when the client's is closed too,
\* every goroutine and connection of both goes away.  Exceptions: main installs a connection
\* after Close had looked at pxy.workConn (server/proxy/udp.go:198, 232), which nobody closes
\* while the client pings; InWorkConn that was under way opens the client's proxy again, and of
\* two at once one is forgotten (client/proxy/proxy.go:503-506).
ClosedProxyEnds ==
  /\ srvClosed ~> (ServerQuiet \/ late \/ ~Alive)
  /\ (srvClosed /\ ~running) ~>
       ((ServerQuiet /\ ClientQuiet) \/ reopened \/ overlapped \/ ~Alive)

=============================================================================
