---------------------------- MODULE VisitorProofs ----------------------------
(***************************************************************************)
(* Proofs about one visit through an STCP visitor (Tunnel), one through an *)
(* XTCP visitor (NatHole), in the specification that the run checks, and   *)
(* the tunnels of one SUDP visitor (SudpVisitor), for any number of them.  *)
(* First what may be closed and what must be agreed on; then that nothing  *)
(* stands still with a half or a lost message on its hands.                *)
(***************************************************************************)
EXTENDS MCVisitors, TLAPS

(***************************************************************************)
(* Tunnel.  Nothing is lost or closed, and nothing refuses or stops,       *)
(* before the first fault or early word of the service.  The conjuncts     *)
(* about what may close something next make this inductive: a refused      *)
(* visit, an error that is read and a proxy that was stopped come from a   *)
(* fault.                                                                  *)
(***************************************************************************)
Disturbed == fault \/ overtaken

TunnelInv ==
  /\ lost # {} \/ closed # {} => Disturbed
  /\ register = "refuse" \/ reply = "error" => Disturbed
  /\ ~running => Disturbed

LEMMA TunnelInit == Stcp!Init => TunnelInv
  BY DEF Stcp!Init, TunnelInv, Disturbed

\* A link is dead only after a disturbance.
LEMMA DeadDisturbed == ASSUME TunnelInv, NEW l, Stcp!Dead(l) PROVE Disturbed
  BY DEF TunnelInv, Stcp!Dead

\* The goroutine of the visitor disconnects the user for a reason.
LEMMA VisitorStep ==
  ASSUME TunnelInv,
         \/ Stcp!UserConnects \/ Stcp!VisitorDials \/ Stcp!VisitorReads
         \/ Stcp!VisitorTimesOut \/ Stcp!VisitorJoins
  PROVE  TunnelInv'
  <1> USE DEF TunnelInv, Disturbed, Stcp!VisitorGoes, Stcp!server, Stcp!client, Stcp!Fault,
              Stcp!Close
  <1>1. CASE Stcp!UserConnects
    BY <1>1 DEF Stcp!UserConnects
  <1>2. CASE Stcp!VisitorDials
    BY <1>2 DEF Stcp!VisitorDials
  <1>3. CASE Stcp!VisitorReads
    BY <1>3, DeadDisturbed DEF Stcp!VisitorReads, Stcp!VisitorLeaves, Stcp!links
  <1>4. CASE Stcp!VisitorTimesOut
    BY <1>4 DEF Stcp!VisitorTimesOut, Stcp!VisitorLeaves
  <1>5. CASE Stcp!VisitorJoins
    BY <1>5, DeadDisturbed DEF Stcp!VisitorJoins, Stcp!VisitorLeaves
  <1> QED BY <1>1, <1>2, <1>3, <1>4, <1>5

\* frps refuses or closes only with a fault, or when a link is dead.
LEMMA ServerStep ==
  ASSUME TunnelInv,
         \/ Stcp!ServerReads \/ Stcp!ServerRegisters \/ Stcp!ServerReplies
         \/ Stcp!HandlerAccepts \/ Stcp!HandlerFails \/ Stcp!HandlerTakes \/ Stcp!HandlerJoins
         \/ Stcp!ServiceSpeaks \/ Stcp!ProxyCloses \/ Stcp!PoolCloses \/ Stcp!WorkRegisters
  PROVE  TunnelInv'
  <1> USE DEF TunnelInv, Disturbed, Stcp!RegisterGoes, Stcp!HandlerGoes, Stcp!visit, Stcp!links,
              Stcp!server, Stcp!client, Stcp!Fault, Stcp!Close
  <1>1. CASE Stcp!ServerReads \/ Stcp!ServerRegisters \/ Stcp!ServerReplies
    BY <1>1 DEF Stcp!ServerReads, Stcp!ServerRegisters, Stcp!ServerReplies
  <1>2. CASE Stcp!HandlerAccepts \/ Stcp!HandlerFails \/ Stcp!HandlerTakes
    BY <1>2 DEF Stcp!HandlerAccepts, Stcp!HandlerFails, Stcp!HandlerTakes
  <1>3. CASE Stcp!HandlerJoins
    BY <1>3, DeadDisturbed DEF Stcp!HandlerJoins
  <1>4. CASE Stcp!ServiceSpeaks \/ Stcp!ProxyCloses
    BY <1>4 DEF Stcp!ServiceSpeaks, Stcp!ProxyCloses
  <1>5. CASE Stcp!PoolCloses \/ Stcp!WorkRegisters
    BY <1>5 DEF Stcp!PoolCloses, Stcp!WorkRegisters
  <1> QED BY <1>1, <1>2, <1>3, <1>4, <1>5

\* The same of the client of the proxy, and of those outside.
LEMMA ClientStep ==
  ASSUME TunnelInv,
         \/ Stcp!WorkerDials \/ Stcp!WorkerSends \/ Stcp!WorkerStarts \/ Stcp!WorkerHandles
         \/ Stcp!WorkerJoins \/ Stcp!ClientStops \/ \E l \in Stcp!Links : Stcp!Lose(l)
  PROVE  TunnelInv'
  <1> USE DEF TunnelInv, Disturbed, Stcp!WorkerGoes, Stcp!WorkerLeaves, Stcp!visit, Stcp!links,
              Stcp!server, Stcp!client, Stcp!Fault, Stcp!Close
  <1>1. CASE Stcp!WorkerDials \/ Stcp!WorkerSends \/ Stcp!WorkerHandles
    BY <1>1 DEF Stcp!WorkerDials, Stcp!WorkerSends, Stcp!WorkerHandles
  <1>2. CASE Stcp!WorkerStarts
    BY <1>2, DeadDisturbed DEF Stcp!WorkerStarts
  <1>3. CASE Stcp!WorkerJoins
    BY <1>3, DeadDisturbed DEF Stcp!WorkerJoins
  <1>4. CASE Stcp!ClientStops
    BY <1>4 DEF Stcp!ClientStops
  <1>5. ASSUME NEW l \in Stcp!Links, Stcp!Lose(l) PROVE TunnelInv'
    BY <1>5 DEF Stcp!Lose
  <1> QED BY <1>1, <1>2, <1>3, <1>4, <1>5

LEMMA TunnelStep == TunnelInv /\ (Stcp!Next \/ UNCHANGED stcpVars) => TunnelInv'
  <1>1. ASSUME TunnelInv, Stcp!Next PROVE TunnelInv'
    BY <1>1, VisitorStep, ServerStep, ClientStep DEF Stcp!Next, Stcp!FrpSteps
  <1>2. ASSUME TunnelInv, UNCHANGED stcpVars PROVE TunnelInv'
    BY <1>2 DEF stcpVars, TunnelInv, Disturbed
  <1> QED BY <1>1, <1>2

(***************************************************************************)
(* NatHole.  What a datagram or a position says about the past: nobody is  *)
(* told an address before the session has it, and the visitor is told one  *)
(* only behind the client's report, which comes behind its detect message. *)
(***************************************************************************)
HoleInv ==
  /\ "RespToClient" \in net => address
  /\ punched => address
  /\ client \in {"punched", "ready", "listen", "heard", "made"} \/ reported => punched
  /\ "RespToVisitor" \in net => punched
  /\ "ack" \in net => heard
  /\ holeVisitor = "made" => heard \/ mistaken

LEMMA HoleInit == Xtcp!Init => HoleInv
  BY DEF Xtcp!Init, HoleInv

\* What a step of the visitor leaves of the network: what it took, and the sid.
LEMMA HoleVisitorStep ==
  ASSUME HoleInv,
         \/ Xtcp!UserConnects \/ Xtcp!VisitorTold \/ Xtcp!VisitorRefused
         \/ Xtcp!VisitorAcked \/ Xtcp!VisitorTimesOut \/ Xtcp!VisitorEnds
         \/ \E d \in Xtcp!Datagrams : Xtcp!Lose(d)
  PROVE  HoleInv'
  <1> USE DEF HoleInv, Xtcp!VisitorGoes, Xtcp!server, Xtcp!history, Xtcp!Receive, Xtcp!Answer,
              Xtcp!Send, Xtcp!Left
  <1>1. CASE Xtcp!UserConnects \/ Xtcp!VisitorTold \/ Xtcp!VisitorRefused
    BY <1>1 DEF Xtcp!UserConnects, Xtcp!VisitorTold, Xtcp!VisitorRefused
  <1>2. CASE Xtcp!VisitorAcked
    BY <1>2 DEF Xtcp!VisitorAcked
  <1>3. CASE Xtcp!VisitorTimesOut \/ Xtcp!VisitorEnds
    BY <1>3 DEF Xtcp!VisitorTimesOut, Xtcp!VisitorEnds
  <1>4. ASSUME NEW d \in Xtcp!Datagrams, Xtcp!Lose(d) PROVE HoleInv'
    BY <1>4 DEF Xtcp!Lose
  <1> QED BY <1>1, <1>2, <1>3, <1>4

\* The controller answers the client with the address it has; the visitor hears of it from the
\* goroutine that has the client's report.
LEMMA HoleServerStep ==
  ASSUME HoleInv,
         \/ Xtcp!HandleVisitor \/ Xtcp!HandlerTimesOut \/ Xtcp!LoopTakes \/ Xtcp!LoopTakesOther
         \/ Xtcp!LoopSends \/ Xtcp!HandleClient \/ Xtcp!ServerNotified \/ Xtcp!ServerClosesWork
         \/ Xtcp!ProxyCloses
  PROVE  HoleInv'
  <1> USE DEF HoleInv, Xtcp!LoopGoes, Xtcp!history, Xtcp!Receive, Xtcp!Answer, Xtcp!Send, Xtcp!Left
  <1>1. CASE Xtcp!HandleVisitor \/ Xtcp!HandlerTimesOut \/ Xtcp!ProxyCloses
    BY <1>1 DEF Xtcp!HandleVisitor, Xtcp!HandlerTimesOut, Xtcp!ProxyCloses
  <1>2. CASE Xtcp!LoopTakes \/ Xtcp!LoopTakesOther \/ Xtcp!LoopSends
    BY <1>2 DEF Xtcp!LoopTakes, Xtcp!LoopTakesOther, Xtcp!LoopSends
  <1>3. CASE Xtcp!HandleClient
    BY <1>3 DEF Xtcp!HandleClient
  <1>4. CASE Xtcp!ServerNotified \/ Xtcp!ServerClosesWork
    BY <1>4 DEF Xtcp!ServerNotified, Xtcp!ServerClosesWork
  <1> QED BY <1>1, <1>2, <1>3, <1>4

LEMMA HoleClientStep ==
  ASSUME HoleInv,
         \/ Xtcp!ClientAsks \/ Xtcp!ClientPunches \/ Xtcp!ClientReports \/ Xtcp!ClientListens
         \/ Xtcp!ClientHears \/ Xtcp!ClientAccepts \/ Xtcp!ClientEnds
  PROVE  HoleInv'
  <1> USE DEF HoleInv, Xtcp!ClientGoes, Xtcp!server, Xtcp!Receive, Xtcp!Answer, Xtcp!Send,
              Xtcp!Left
  <1>1. CASE Xtcp!ClientAsks \/ Xtcp!ClientPunches \/ Xtcp!ClientReports
    BY <1>1 DEF Xtcp!ClientAsks, Xtcp!ClientPunches, Xtcp!ClientReports
  <1>2. CASE Xtcp!ClientListens \/ Xtcp!ClientHears
    BY <1>2 DEF Xtcp!ClientListens, Xtcp!ClientHears
  <1>3. CASE Xtcp!ClientAccepts \/ Xtcp!ClientEnds
    BY <1>3 DEF Xtcp!ClientAccepts, Xtcp!ClientEnds
  <1> QED BY <1>1, <1>2, <1>3

LEMMA HoleStep == HoleInv /\ (Xtcp!Next \/ UNCHANGED xtcpVars) => HoleInv'
  <1>1. ASSUME HoleInv, Xtcp!Next PROVE HoleInv'
    BY <1>1, HoleVisitorStep, HoleServerStep, HoleClientStep DEF Xtcp!Next
  <1>2. ASSUME HoleInv, UNCHANGED xtcpVars PROVE HoleInv'
    BY <1>2 DEF xtcpVars, HoleInv
  <1> QED BY <1>1, <1>2

-----------------------------------------------------------------------------
allVars == <<part, stcpVars, xtcpVars, sudpVars>>

\* One visit at a time moves, and the other is left alone.
LEMMA VisitStep ==
  [Next]_allVars =>
    (Stcp!Next \/ UNCHANGED stcpVars) /\ (Xtcp!Next \/ UNCHANGED xtcpVars)
  BY DEF Next, allVars

(* OnlyOvertaken: handleConn of the visitor disconnects a user only when   *)
(* something was refused, timed out, failed or was stopped, or when the    *)
(* local service spoke before the reply (client/visitor.go:118-166).       *)
THEOREM UsersAreNotDropped == Spec => []OnlyOvertaken
  <1>1. Init => TunnelInv
    BY TunnelInit DEF Init
  <1>2. TunnelInv /\ [Next]_allVars => TunnelInv'
    BY TunnelStep, VisitStep
  <1>3. TunnelInv => OnlyOvertaken
    BY DEF TunnelInv, Disturbed, OnlyOvertaken, Stcp!OnlyOvertaken
  <1> QED BY <1>1, <1>2, <1>3, PTL DEF Spec, allVars

(* HoleAgrees: however datagrams are lost, delayed, overtaken or repeated, *)
(* HandleVisitor names an address only when the client has made its hole,  *)
(* and a visitor that goes on was heard (pkg/nathole/nathole.go:105-171).  *)
THEOREM HolesAreAgreedOn == Spec => []HoleAgrees
  <1>1. Init => HoleInv
    BY HoleInit DEF Init
  <1>2. HoleInv /\ [Next]_allVars => HoleInv'
    BY HoleStep, VisitStep
  <1>3. HoleInv => HoleAgrees
    BY DEF HoleInv, HoleAgrees, Xtcp!HoleAgrees
  <1> QED BY <1>1, <1>2, <1>3, PTL DEF Spec, allVars

-----------------------------------------------------------------------------
(***************************************************************************)
(* What stands still.  Of each visit: what its goroutines can do now, by   *)
(* the guards of the steps that Fairness owes it, and what is true when    *)
(* they can do nothing.                                                    *)
(***************************************************************************)
StcpCanGo ==
  \/ visitor \in {"dial", "sent"}
  \/ visitor = "join" /\ (Stcp!Dead("user") \/ Stcp!Dead("visit"))
  \/ register \in {"read", "register", "accept", "refuse"}
  \/ queued \/ handler = "get" \/ pooled = "read" \/ worker \in {"auth", "in"}
  \/ handler = "join" /\ (Stcp!Dead("visit") \/ Stcp!Dead("work"))
  \/ worker = "wait" /\ (start \/ Stcp!Dead("work"))
  \/ worker = "join" /\ (Stcp!Dead("work") \/ Stcp!Dead("local"))

\* Nobody is left with a half of a tunnel.
NoHalfTunnel ==
  ~StcpCanGo =>
    /\ (\E l \in Stcp!Chain : Stcp!Dead(l)) => \A e \in Stcp!Ends : e[1] \in Stcp!Chain => e \in closed
    /\ pooled = "done" => worker = "leak" \/ {<<"work", "a">>, <<"work", "b">>} \subseteq closed
    /\ visitor # "idle" => Stcp!Joined \/ <<"user", "b">> \in closed

\* How the places of the three goroutines and the ends of the links fit together.
EndsInv ==
  /\ visitor \in {"idle", "dial", "sent", "join", "done"}
  /\ register \in {"none", "read", "register", "accept", "refuse", "done"}
  /\ reply \in {"none", "ok", "error"}
  /\ handler \in {"none", "get", "join", "done"}
  /\ pooled \in {"none", "read", "pool", "taken", "done"}
  /\ worker \in {"none", "auth", "leak", "wait", "in", "join", "done"}
  \* The visitor and its visit.
  /\ up \subseteq Stcp!Links
  /\ "user" \in up => visitor # "idle"
  /\ "visit" \in up <=> register # "none"
  /\ register # "none" => visitor \in {"sent", "join", "done"}
  /\ visitor = "done" =>
       <<"user", "b">> \in closed /\ ("visit" \in up => <<"visit", "a">> \in closed)
  /\ reply # "none" \/ visitor = "join" => register = "done"
  /\ queued \/ handler # "none" => register \in {"accept", "refuse", "done"}
  /\ queued => handler = "none"
  /\ register = "accept" => queued \/ handler # "none" \/ <<"visit", "b">> \in closed
  /\ register = "done" => queued \/ handler # "none" \/ <<"visit", "b">> \in closed
  /\ handler = "done" => <<"visit", "b">> \in closed
  \* The work connection.
  /\ handler = "join" => pooled = "taken"
  /\ pooled = "taken" => handler # "none"
  /\ pooled = "taken" /\ handler # "join" => <<"work", "a">> \in closed
  /\ pooled = "taken" => start \/ Stcp!Dead("work")
  /\ start => pooled = "taken"
  /\ pooled = "done" => <<"work", "a">> \in closed
  /\ worker = "none" <=> pooled = "none"
  /\ pooled \in {"pool", "taken"} => worker \notin {"auth", "leak"}
  \* The service.
  /\ worker \in {"in", "join"} => start
  /\ "local" \in up => start /\ worker \in {"join", "done"}
  /\ worker = "done" =>
       <<"work", "b">> \in closed /\ ("local" \in up => <<"local", "a">> \in closed)

\* Links do not come back, and what is closed stays closed.
LEMMA LinksStay ==
  ASSUME Stcp!Next \/ UNCHANGED stcpVars
  PROVE  /\ up \subseteq up' /\ closed \subseteq closed'
         /\ \A l : Stcp!Dead(l) => Stcp!Dead(l)'
  <1>1. up \subseteq up' /\ lost \subseteq lost' /\ closed \subseteq closed'
    <2> USE DEF Stcp!links, Stcp!Close, stcpVars
    <2>1. CASE Stcp!UserConnects \/ Stcp!VisitorDials \/ Stcp!VisitorReads \/ Stcp!VisitorTimesOut \/ Stcp!VisitorJoins
      BY <2>1 DEF Stcp!UserConnects, Stcp!VisitorDials, Stcp!VisitorReads, Stcp!VisitorTimesOut, Stcp!VisitorJoins, Stcp!VisitorGoes, Stcp!VisitorLeaves, Stcp!server, Stcp!client
    <2>2. CASE Stcp!ServerReads \/ Stcp!ServerRegisters \/ Stcp!ServerReplies \/ Stcp!HandlerAccepts \/ Stcp!HandlerFails \/ Stcp!HandlerTakes
      BY <2>2 DEF Stcp!ServerReads, Stcp!ServerRegisters, Stcp!ServerReplies, Stcp!HandlerAccepts, Stcp!HandlerFails, Stcp!HandlerTakes, Stcp!RegisterGoes, Stcp!HandlerGoes, Stcp!visit, Stcp!server, Stcp!client
    <2>3. CASE Stcp!HandlerJoins \/ Stcp!ServiceSpeaks \/ Stcp!ProxyCloses \/ Stcp!PoolCloses \/ Stcp!WorkRegisters
      BY <2>3 DEF Stcp!HandlerJoins, Stcp!ServiceSpeaks, Stcp!ProxyCloses, Stcp!PoolCloses, Stcp!WorkRegisters, Stcp!HandlerGoes, Stcp!visit, Stcp!server, Stcp!client
    <2>4. CASE Stcp!WorkerDials \/ Stcp!WorkerSends \/ Stcp!WorkerStarts \/ Stcp!WorkerHandles \/ Stcp!WorkerJoins \/ Stcp!ClientStops
      BY <2>4 DEF Stcp!WorkerDials, Stcp!WorkerSends, Stcp!WorkerStarts, Stcp!WorkerHandles, Stcp!WorkerJoins, Stcp!ClientStops, Stcp!WorkerGoes, Stcp!WorkerLeaves, Stcp!visit, Stcp!server
    <2>5. ASSUME NEW l \in Stcp!Links, Stcp!Lose(l) PROVE up \subseteq up' /\ lost \subseteq lost' /\ closed \subseteq closed'
      BY <2>5 DEF Stcp!Lose
    <2>6. CASE UNCHANGED stcpVars
      BY <2>6
    <2> QED BY <2>1, <2>2, <2>3, <2>4, <2>5, <2>6 DEF Stcp!Next, Stcp!FrpSteps
  <1> QED BY <1>1 DEF Stcp!Dead

LEMMA EndsInit == Stcp!Init => EndsInv
  BY DEF Stcp!Init, EndsInv, Stcp!Links

LEMMA EndsStep == EndsInv /\ (Stcp!Next \/ UNCHANGED stcpVars) => EndsInv'
  <1> SUFFICES ASSUME EndsInv, Stcp!Next \/ UNCHANGED stcpVars PROVE EndsInv'
    OBVIOUS
  <1>0. /\ up \subseteq up' /\ closed \subseteq closed'
        /\ Stcp!Dead("work") => Stcp!Dead("work")'
    BY LinksStay
  <1> USE DEF EndsInv, Stcp!Close, Stcp!links, Stcp!Links
  <1>1. CASE Stcp!UserConnects
    BY <1>0, <1>1 DEF Stcp!UserConnects, Stcp!VisitorGoes, Stcp!server, Stcp!client
  <1>2. CASE Stcp!VisitorDials
    BY <1>0, <1>2 DEF Stcp!VisitorDials, Stcp!VisitorGoes, Stcp!server, Stcp!client
  <1>3. CASE Stcp!VisitorReads
    BY <1>0, <1>3 DEF Stcp!VisitorReads, Stcp!VisitorGoes, Stcp!VisitorLeaves, Stcp!server, Stcp!client
  <1>4. CASE Stcp!VisitorTimesOut
    BY <1>0, <1>4 DEF Stcp!VisitorTimesOut, Stcp!VisitorGoes, Stcp!VisitorLeaves, Stcp!server, Stcp!client
  <1>5. CASE Stcp!VisitorJoins
    BY <1>0, <1>5 DEF Stcp!VisitorJoins, Stcp!VisitorGoes, Stcp!VisitorLeaves, Stcp!server, Stcp!client
  <1>6. CASE Stcp!ServerReads
    BY <1>0, <1>6 DEF Stcp!ServerReads, Stcp!RegisterGoes, Stcp!visit, Stcp!server, Stcp!client
  <1>7. CASE Stcp!ServerRegisters
    BY <1>0, <1>7 DEF Stcp!ServerRegisters, Stcp!RegisterGoes, Stcp!visit, Stcp!server, Stcp!client
  <1>8. CASE Stcp!ServerReplies
    BY <1>0, <1>8 DEF Stcp!ServerReplies, Stcp!RegisterGoes, Stcp!visit, Stcp!server, Stcp!client
  <1>9. CASE Stcp!HandlerAccepts
    BY <1>0, <1>9 DEF Stcp!HandlerAccepts, Stcp!HandlerGoes, Stcp!client
  <1>10. CASE Stcp!HandlerFails
    <2> USE <1>0, <1>10 DEF Stcp!HandlerFails, Stcp!HandlerGoes, Stcp!client
    <2>1. CASE UNCHANGED <<pooled, start>>
      BY <2>1
    <2>2. CASE pooled = "pool" /\ pooled' = "taken" /\ start' = ~Stcp!Dead("work")
      BY <2>2
    <2> QED BY <2>1, <2>2
  <1>11. CASE Stcp!HandlerTakes
    BY <1>0, <1>11 DEF Stcp!HandlerTakes, Stcp!HandlerGoes, Stcp!client
  <1>12. CASE Stcp!HandlerJoins
    BY <1>0, <1>12 DEF Stcp!HandlerJoins, Stcp!HandlerGoes, Stcp!visit, Stcp!client
  <1>13. CASE Stcp!ServiceSpeaks
    BY <1>0, <1>13 DEF Stcp!ServiceSpeaks, Stcp!visit, Stcp!server, Stcp!client
  <1>14. CASE Stcp!ProxyCloses
    BY <1>0, <1>14 DEF Stcp!ProxyCloses, Stcp!visit, Stcp!client
  <1>15. CASE Stcp!PoolCloses
    BY <1>0, <1>15 DEF Stcp!PoolCloses, Stcp!visit, Stcp!client
  <1>16. CASE Stcp!WorkRegisters
    BY <1>0, <1>16 DEF Stcp!WorkRegisters, Stcp!visit, Stcp!client
  <1>17. CASE Stcp!WorkerDials
    BY <1>0, <1>17 DEF Stcp!WorkerDials, Stcp!WorkerGoes, Stcp!visit
  <1>18. CASE Stcp!WorkerSends
    BY <1>0, <1>18 DEF Stcp!WorkerSends, Stcp!WorkerGoes, Stcp!visit
  <1>19. CASE Stcp!WorkerStarts
    BY <1>0, <1>19 DEF Stcp!WorkerStarts, Stcp!WorkerGoes, Stcp!WorkerLeaves, Stcp!visit
  <1>20. CASE Stcp!WorkerHandles
    <2>1. CASE /\ up' = up \union {"local"} /\ UNCHANGED <<lost, closed, fault>>
               /\ Stcp!WorkerGoes("join") /\ UNCHANGED pooled
      <3>1. worker = "in" /\ start
        BY <1>20 DEF Stcp!WorkerHandles
      <3>2. /\ UNCHANGED <<closed, visitor, register, reply, queued, handler, start, pooled>>
            /\ worker' = "join"
        BY <2>1 DEF Stcp!WorkerGoes, Stcp!visit
      <3> QED BY <1>0, <2>1, <3>1, <3>2
    <2>2. CASE Stcp!WorkerLeaves
      BY <1>0, <1>20, <2>2 DEF Stcp!WorkerHandles, Stcp!WorkerGoes, Stcp!WorkerLeaves, Stcp!visit
    <2> QED BY <1>20, <2>1, <2>2 DEF Stcp!WorkerHandles, Stcp!WorkerGoes
  <1>21. CASE Stcp!WorkerJoins
    BY <1>0, <1>21 DEF Stcp!WorkerJoins, Stcp!WorkerGoes, Stcp!visit
  <1>22. CASE Stcp!ClientStops
    BY <1>0, <1>22 DEF Stcp!ClientStops, Stcp!visit, Stcp!server
  <1>23. ASSUME NEW l \in Stcp!Links, Stcp!Lose(l) PROVE EndsInv'
    BY <1>0, <1>23 DEF Stcp!Lose, Stcp!visit, Stcp!server, Stcp!client
  <1>24. CASE UNCHANGED stcpVars
    BY <1>0, <1>24 DEF stcpVars
  <1> QED
    BY <1>1, <1>2, <1>3, <1>4, <1>5, <1>6, <1>7, <1>8, <1>9, <1>10, <1>11, <1>12, <1>13, <1>14, <1>15, <1>16, <1>17, <1>18, <1>19, <1>20, <1>21, <1>22, <1>23, <1>24
    DEF Stcp!Next, Stcp!FrpSteps

\* A link of which one end is closed is dead.
LEMMA ClosedIsDead == ASSUME NEW l, NEW k, <<l, k>> \in closed PROVE Stcp!Dead(l)
  BY DEF Stcp!Dead

\* Whoever stands still with a dead link of the user's tunnel has nothing of it left.
LEMMA StandingIsClosed == EndsInv => NoHalfTunnel
  <1> SUFFICES ASSUME EndsInv, ~StcpCanGo PROVE
        /\ (\E l \in Stcp!Chain : Stcp!Dead(l)) => \A e \in Stcp!Ends : e[1] \in Stcp!Chain => e \in closed
        /\ pooled = "done" => worker = "leak" \/ {<<"work", "a">>, <<"work", "b">>} \subseteq closed
        /\ visitor # "idle" => Stcp!Joined \/ <<"user", "b">> \in closed
    BY DEF NoHalfTunnel
  <1>d. /\ <<"work", "a">> \in closed \/ <<"work", "b">> \in closed => Stcp!Dead("work")
        /\ <<"visit", "a">> \in closed \/ <<"visit", "b">> \in closed => Stcp!Dead("visit")
        /\ <<"local", "a">> \in closed => Stcp!Dead("local")
        /\ <<"user", "b">> \in closed => Stcp!Dead("user")
    BY ClosedIsDead
  <1>1. pooled = "done" => worker = "leak" \/ {<<"work", "a">>, <<"work", "b">>} \subseteq closed
    BY <1>d DEF EndsInv, StcpCanGo
  <1>2. visitor = "idle" => up \subseteq {"work"} /\ pooled # "taken"
    BY DEF EndsInv, StcpCanGo, Stcp!Links
  <1>3. visitor = "join" => handler = "join"
    BY <1>d DEF EndsInv, StcpCanGo
  <1>4. ASSUME handler = "join" PROVE worker = "join"
    <2>1. pooled = "taken" /\ ~Stcp!Dead("work")
      BY <1>4 DEF EndsInv, StcpCanGo
    <2>2. worker # "wait"
      BY <2>1 DEF EndsInv, StcpCanGo
    <2>3. worker \notin {"none", "auth", "leak", "in", "done"}
      BY <1>d, <2>1 DEF EndsInv, StcpCanGo
    <2> QED BY <2>2, <2>3 DEF EndsInv
  <1>5. ASSUME visitor = "join" PROVE ~\E l \in Stcp!Chain : Stcp!Dead(l)
    <2>1. up \subseteq {"user", "visit", "work", "local"} /\ handler = "join" /\ worker = "join"
      BY <1>3, <1>4, <1>5 DEF EndsInv, Stcp!Links
    <2>2. ~\E l \in {"user", "visit", "work", "local"} : Stcp!Dead(l)
      BY <1>5, <2>1 DEF StcpCanGo
    <2> QED BY <2>1, <2>2 DEF Stcp!Chain
  <1>6. ASSUME visitor = "idle" PROVE Stcp!Chain = {}
    BY <1>2, <1>6 DEF Stcp!Chain
  <1>7. ASSUME visitor = "done" PROVE \A e \in Stcp!Ends : e[1] \in Stcp!Chain => e \in closed
    <2>1. <<"user", "b">> \in closed
      BY <1>7 DEF EndsInv
    <2>2. "visit" \in up => <<"visit", "a">> \in closed /\ <<"visit", "b">> \in closed
      BY <1>d, <1>7 DEF EndsInv, StcpCanGo
    <2>3. handler # "join"
      BY <1>d, <2>2 DEF EndsInv, StcpCanGo
    <2>4. ASSUME pooled = "taken" PROVE worker = "done" /\ <<"work", "a">> \in closed
      <3>1. <<"work", "a">> \in closed /\ Stcp!Dead("work")
        BY <1>d, <2>3, <2>4 DEF EndsInv
      <3>2. worker \notin {"wait", "join", "none", "auth", "leak", "in"}
        BY <2>4, <3>1 DEF EndsInv, StcpCanGo
      <3> QED BY <3>1, <3>2 DEF EndsInv
    <2>5. pooled = "taken" => <<"work", "b">> \in closed
      BY <2>4 DEF EndsInv
    <2>6. "local" \in up => <<"local", "a">> \in closed
      BY <2>4 DEF EndsInv
    <2> QED BY <2>1, <2>2, <2>4, <2>5, <2>6 DEF Stcp!Ends, Stcp!Chain
  <1> QED
    BY <1>1, <1>3, <1>4, <1>5, <1>6, <1>7 DEF EndsInv, StcpCanGo, Stcp!Joined

XtcpCanGo ==
  \/ holeVisitor \in {"asked", "sent"} \/ holeHandler = "wait" \/ loop \in {"get", "other"}
  \/ holeVisitor = "made" /\ client \in {"done", "heard"}
  \/ holeHandler = "offer" /\ loop = "idle"
  \/ reads = "read" /\ (reported \/ client = "done")
  \/ client \in {"start", "asked", "punched", "ready", "listen"}
  \/ holeVisitor # "made" /\ client \in {"heard", "made"}

\* No goroutine of a visit through a hole is left waiting.
NobodyWaits == ~XtcpCanGo => ~Xtcp!Waiting

\* There is one visit, and of the client nothing is heard before it got the work connection.
VisitInv ==
  /\ holeVisitor \in {"idle", "asked", "sent", "made", "done"}
  /\ holeHandler \in {"none", "offer", "wait", "done"}
  /\ loop \in {"idle", "other", "get"}
  /\ client \in
       {"none", "start", "asked", "punched", "ready", "listen", "heard", "made", "done"}
  /\ holeVisitor = "idle" => "NatHoleVisitor" \notin net
  /\ holeVisitor = "idle" \/ "NatHoleVisitor" \in net => holeHandler = "none"
  /\ holeHandler \in {"none", "offer"} => loop # "get" /\ client = "none"
  /\ loop = "get" \/ client = "none" => client = "none" /\ reads = "none" /\ ~punched /\ ~heard
  /\ "detect" \in net \/ mistaken => punched
  /\ "ack" \in net => heard
  /\ holeVisitor = "made" => heard \/ mistaken
  /\ client \in {"ready", "listen", "heard", "made"} => reported

LEMMA VisitInit == Xtcp!Init => VisitInv
  BY DEF Xtcp!Init, VisitInv

LEMMA VisitVisitorStep ==
  ASSUME VisitInv,
         \/ Xtcp!UserConnects \/ Xtcp!VisitorTold \/ Xtcp!VisitorRefused \/ Xtcp!VisitorAcked
         \/ Xtcp!VisitorTimesOut \/ Xtcp!VisitorEnds
         \/ \E d \in Xtcp!Datagrams : Xtcp!Lose(d)
  PROVE  VisitInv'
  <1> USE DEF VisitInv, Xtcp!VisitorGoes, Xtcp!server, Xtcp!Receive, Xtcp!Answer, Xtcp!Left
  <1>1. CASE Xtcp!UserConnects
    BY <1>1 DEF Xtcp!UserConnects, Xtcp!Send
  <1>2. CASE Xtcp!VisitorTold \/ Xtcp!VisitorRefused
    BY <1>2 DEF Xtcp!VisitorTold, Xtcp!VisitorRefused
  <1>3. CASE Xtcp!VisitorAcked
    BY <1>3 DEF Xtcp!VisitorAcked
  <1>4. CASE Xtcp!VisitorTimesOut \/ Xtcp!VisitorEnds
    BY <1>4 DEF Xtcp!VisitorTimesOut, Xtcp!VisitorEnds
  <1>5. ASSUME NEW d \in Xtcp!Datagrams, Xtcp!Lose(d) PROVE VisitInv'
    BY <1>5 DEF Xtcp!Lose, Xtcp!history
  <1> QED BY <1>1, <1>2, <1>3, <1>4, <1>5

LEMMA VisitServerStep ==
  ASSUME VisitInv,
         \/ Xtcp!HandleVisitor \/ Xtcp!HandlerTimesOut \/ Xtcp!LoopTakes \/ Xtcp!LoopTakesOther
         \/ Xtcp!LoopSends \/ Xtcp!HandleClient \/ Xtcp!ServerNotified \/ Xtcp!ServerClosesWork
         \/ Xtcp!ProxyCloses
  PROVE  VisitInv'
  <1> USE DEF VisitInv, Xtcp!LoopGoes, Xtcp!history, Xtcp!Receive, Xtcp!Answer, Xtcp!Send, Xtcp!Left
  <1>1. CASE Xtcp!HandleVisitor
    BY <1>1 DEF Xtcp!HandleVisitor
  <1>2. CASE Xtcp!HandlerTimesOut \/ Xtcp!LoopTakes \/ Xtcp!LoopTakesOther
    BY <1>2 DEF Xtcp!HandlerTimesOut, Xtcp!LoopTakes, Xtcp!LoopTakesOther
  <1>3. CASE Xtcp!LoopSends
    BY <1>3 DEF Xtcp!LoopSends
  <1>4. CASE Xtcp!HandleClient
    BY <1>4 DEF Xtcp!HandleClient
  <1>5. CASE Xtcp!ServerNotified
    BY <1>5 DEF Xtcp!ServerNotified
  <1>6. CASE Xtcp!ServerClosesWork \/ Xtcp!ProxyCloses
    BY <1>6 DEF Xtcp!ServerClosesWork, Xtcp!ProxyCloses
  <1> QED BY <1>1, <1>2, <1>3, <1>4, <1>5, <1>6

LEMMA VisitClientStep ==
  ASSUME VisitInv,
         \/ Xtcp!ClientAsks \/ Xtcp!ClientPunches \/ Xtcp!ClientReports \/ Xtcp!ClientListens
         \/ Xtcp!ClientHears \/ Xtcp!ClientAccepts \/ Xtcp!ClientEnds
  PROVE  VisitInv'
  <1> USE DEF VisitInv, Xtcp!ClientGoes, Xtcp!server, Xtcp!Answer, Xtcp!Send, Xtcp!Left
  <1>1. CASE Xtcp!ClientAsks \/ Xtcp!ClientPunches \/ Xtcp!ClientReports
    BY <1>1 DEF Xtcp!ClientAsks, Xtcp!ClientPunches, Xtcp!ClientReports
  <1>2. CASE Xtcp!ClientListens \/ Xtcp!ClientHears
    BY <1>2 DEF Xtcp!ClientListens, Xtcp!ClientHears
  <1>3. CASE Xtcp!ClientAccepts \/ Xtcp!ClientEnds
    BY <1>3 DEF Xtcp!ClientAccepts, Xtcp!ClientEnds
  <1> QED BY <1>1, <1>2, <1>3

LEMMA VisitInvStep == VisitInv /\ (Xtcp!Next \/ UNCHANGED xtcpVars) => VisitInv'
  <1>1. ASSUME VisitInv, Xtcp!Next PROVE VisitInv'
    BY <1>1, VisitVisitorStep, VisitServerStep, VisitClientStep DEF Xtcp!Next
  <1>2. ASSUME VisitInv, UNCHANGED xtcpVars PROVE VisitInv'
    BY <1>2 DEF xtcpVars, VisitInv
  <1> QED BY <1>1, <1>2

\* Whoever could wait is woken by a deadline or by the end of the others.
LEMMA StandingIsDone == VisitInv => NobodyWaits
  BY DEF VisitInv, NobodyWaits, XtcpCanGo, Xtcp!Waiting, Xtcp!Joined

(* What TunnelCollapses and UserServed come to when nothing can be done:   *)
(* the goroutines of handleConn (client/visitor.go:118-166), of            *)
(* HandleUserTCPConnection (server/proxy/proxy.go) and of HandleReqWorkConn*)
(* stand still only when no link of the user's tunnel has ended or frp has *)
(* closed all its ends, and a user who came is joined or disconnected.     *)
THEOREM NobodyKeepsAHalf == Spec => []NoHalfTunnel
  <1>1. Init => EndsInv
    BY EndsInit DEF Init
  <1>2. EndsInv /\ [Next]_allVars => EndsInv'
    BY EndsStep, VisitStep
  <1>3. EndsInv => NoHalfTunnel
    BY StandingIsClosed
  <1> QED BY <1>1, <1>2, <1>3, PTL DEF Spec, allVars

(* What HoleEnds comes to when nothing can be done: of the goroutines of a *)
(* visit, in HandleVisitor (pkg/nathole/nathole.go:105-171), in the        *)
(* visitor, in the client and in the proxy of frps, none is left in a wait *)
(* that no deadline, message or end of another can finish.                 *)
THEOREM NobodyWaitsForEver == Spec => []NobodyWaits
  <1>1. Init => VisitInv
    BY VisitInit DEF Init
  <1>2. VisitInv /\ [Next]_allVars => VisitInv'
    BY VisitInvStep, VisitStep
  <1>3. VisitInv => NobodyWaits
    BY StandingIsDone
  <1> QED BY <1>1, <1>2, <1>3, PTL DEF Spec, allVars

-----------------------------------------------------------------------------
(***************************************************************************)
(* SudpVisitor, with any number of tunnels.  What its goroutines can do    *)
(* now, by the guards of the steps that Fairness owes them, and what is    *)
(* true when they can do nothing.                                          *)
(***************************************************************************)
CONSTANT MaxTunnels

Udp == INSTANCE SudpVisitor WITH closed <- proxyClosed

SudpCanGo ==
  \/ /\ forward # "panic"
     /\ \/ dispatcher = "get" /\ (n < MaxTunnels \/ closing # "no")
        \/ recv = "run" /\ (link[n] \in {"mute", "dead"} \/ closing = "done")
        \/ send = "run" /\ (link[n] = "dead" \/ closing = "done" \/ recv = "done")
        \/ dispatcher = "work" /\ recv = "done" /\ send = "done"
        \/ closing \in {"flag", "udp"}
  \/ forward = "hold"
  \/ forward = "read" /\ closing \in {"udp", "done"}
  \/ \E t \in Udp!Tunnels :
       \/ serve[t].reader = "run" /\ (link[t] = "dead" \/ (proxyClosed /\ link[t] = "open"))
       \/ serve[t].sender = "run" /\ (serve[t].shut \/ link[t] = "dead")
       \/ serve[t].heart = "run" /\ proxyClosed
       \/ serve[t].heart \in {"run", "block"} /\ serve[t].shut
       \/ serve[t].sender = "run" /\ serve[t].heart = "block" /\ link[t] = "open"

\* Every tunnel that ended or fell silent was given up, and so was every visitor that was closed.
AllSettled ==
  ~SudpCanGo =>
    /\ \A t \in Udp!Tunnels : ~Udp!Unsettled(t)
    /\ closing # "no" =>
         \/ forward = "panic"
         \/ dispatcher = "done" /\ forward = "done" /\ \A t \in Udp!Tunnels : ends[t] # "open"

\* The goroutines of the visitor: a worker runs for the last tunnel.
WorkerInv ==
  /\ dispatcher \in {"none", "get", "work", "done"}
  /\ n \in Nat /\ n <= MaxTunnels
  /\ recv \in {"none", "run", "done"} /\ send \in {"none", "run", "done"}
  /\ forward \in {"none", "read", "hold", "done", "panic"}
  /\ closing \in {"no", "flag", "udp", "done"}
  /\ dispatcher = "none" => forward = "none" /\ closing = "no"
  /\ forward = "none" => dispatcher = "none"
  /\ forward = "done" => closing \in {"udp", "done"}
  /\ dispatcher = "done" => closing # "no"
  /\ dispatcher # "work" => recv # "run" /\ send # "run"
  /\ dispatcher = "work" => n > 0 /\ recv # "none" /\ send # "none"

\* Only the worker's end is open, while both of its goroutines run.
TunnelsInv ==
  /\ ends \in [Udp!Tunnels -> {"none", "open", "closed", "lost"}]
  /\ link \in [Udp!Tunnels -> {"none", "open", "mute", "dead"}]
  /\ \A t \in Udp!Tunnels :
       /\ ends[t] = "open" => t = n /\ recv = "run" /\ send = "run" /\ link[t] # "none"
       /\ t > n => link[t] = "none"

\* The three goroutines of InWorkConn start together, and the first to end ends the tunnel.
ServeInv(t) ==
  /\ serve[t].reader = "none" <=> serve[t].heart = "none"
  /\ serve[t].sender = "none" <=> serve[t].heart = "none"
  /\ serve[t].reader = "done" \/ serve[t].sender = "done" \/ serve[t].heart = "done" => serve[t].shut
  /\ serve[t].shut => link[t] = "dead"
  /\ link[t] = "none" => serve[t].heart = "none"

Goroutines ==
  [reader : {"none", "run", "done"}, sender : {"none", "run", "done"},
   heart : {"none", "run", "block", "done"}, shut : BOOLEAN]

ServesInv ==
  /\ serve \in [Udp!Tunnels -> Goroutines]
  /\ \A t \in Udp!Tunnels : ServeInv(t)

SudpInv == WorkerInv /\ TunnelsInv /\ ServesInv

LEMMA SudpInit == ASSUME MaxTunnels \in Nat, Udp!Init PROVE SudpInv
  BY DEF Udp!Init, Udp!Idle, Udp!Tunnels, SudpInv, WorkerInv, TunnelsInv, ServesInv, ServeInv, Goroutines

\* closeFn ends one of the three goroutines and the tunnel.
LEMMA CloseFnDoes ==
  ASSUME TunnelsInv, ServesInv, NEW t \in Udp!Tunnels,
         NEW who \in {"reader", "sender", "heart"}, Udp!CloseFn(t, who)
  PROVE  /\ UNCHANGED <<dispatcher, n, ends, recv, send, forward, closing, proxyClosed>>
         /\ link' = [link EXCEPT ![t] = "dead"]
         /\ serve' \in [Udp!Tunnels -> Goroutines]
         /\ \A u \in Udp!Tunnels : u # t => serve'[u] = serve[u]
         /\ serve'[t].shut
         /\ (serve'[t].reader = "none") = (serve[t].reader = "none" /\ who # "reader")
         /\ (serve'[t].sender = "none") = (serve[t].sender = "none" /\ who # "sender")
         /\ (serve'[t].heart = "none") = (serve[t].heart = "none" /\ who # "heart")
  <1>1. CASE who = "reader"
    BY <1>1 DEF Udp!CloseFn, Udp!visitor, ServesInv, Goroutines
  <1>2. CASE who = "sender"
    BY <1>2 DEF Udp!CloseFn, Udp!visitor, ServesInv, Goroutines
  <1>3. CASE who = "heart"
    BY <1>3 DEF Udp!CloseFn, Udp!visitor, ServesInv, Goroutines
  <1> QED BY <1>1, <1>2, <1>3

\* The visitor: one worker after the other, each with a tunnel of its own.
LEMMA WorkerStep ==
  ASSUME MaxTunnels \in Nat, SudpInv, Udp!Next \/ UNCHANGED sudpVars
  PROVE  WorkerInv'
  <1> USE DEF SudpInv, WorkerInv, Udp!Tunnels
  <1>1. CASE Udp!Run
    BY <1>1 DEF Udp!Run, Udp!VisitorRuns, Udp!visitor
  <1>2. CASE Udp!GetConn
    BY <1>2 DEF Udp!GetConn, Udp!VisitorRuns
  <1>3. CASE Udp!GetConnFails
    BY <1>3 DEF Udp!GetConnFails, Udp!VisitorRuns, Udp!CheckClosed
  <1>4. CASE Udp!DialFails
    BY <1>4 DEF Udp!DialFails, Udp!VisitorRuns
  <1>5. CASE Udp!ReceiverEnds
    BY <1>5 DEF Udp!ReceiverEnds, Udp!VisitorRuns, Udp!WorkerCloses
  <1>6. CASE Udp!SenderEnds
    BY <1>6 DEF Udp!SenderEnds, Udp!VisitorRuns, Udp!WorkerCloses
  <1>7. CASE Udp!WorkerEnds
    BY <1>7 DEF Udp!WorkerEnds, Udp!VisitorRuns, Udp!CheckClosed
  <1>8. CASE Udp!ForwardReads
    BY <1>8 DEF Udp!ForwardReads, Udp!Forward
  <1>9. CASE Udp!ForwardReturns
    BY <1>9 DEF Udp!ForwardReturns, Udp!Forward
  <1>10. CASE Udp!ForwardSends
    BY <1>10 DEF Udp!ForwardSends, Udp!Forward
  <1>11. CASE Udp!Close
    BY <1>11 DEF Udp!Close, Udp!VisitorRuns
  <1>12. CASE Udp!ProxyCloses
    BY <1>12 DEF Udp!ProxyCloses, Udp!visitor
  <1>13. ASSUME NEW t \in Udp!Tunnels, Udp!InWorkConn(t) PROVE WorkerInv'
    BY <1>13 DEF Udp!InWorkConn, Udp!visitor, Udp!Idle
  <1>14. ASSUME NEW t \in Udp!Tunnels, Udp!ReaderEnds(t) PROVE WorkerInv'
    BY <1>14, CloseFnDoes DEF Udp!ReaderEnds
  <1>15. ASSUME NEW t \in Udp!Tunnels, Udp!ServerSenderEnds(t) PROVE WorkerInv'
    BY <1>15, CloseFnDoes DEF Udp!ServerSenderEnds
  <1>16. ASSUME NEW t \in Udp!Tunnels, Udp!HeartEnds(t) PROVE WorkerInv'
    BY <1>16, CloseFnDoes DEF Udp!HeartEnds
  <1>17. ASSUME NEW t \in Udp!Tunnels, Udp!HeartBeats(t) PROVE WorkerInv'
    BY <1>17 DEF Udp!HeartBeats, Udp!visitor
  <1>18. ASSUME NEW t \in Udp!Tunnels, Udp!SenderWrites(t) PROVE WorkerInv'
    BY <1>18 DEF Udp!SenderWrites, Udp!visitor
  <1>19. ASSUME NEW t \in Udp!Tunnels, Udp!LinkFails(t) PROVE WorkerInv'
    BY <1>19 DEF Udp!LinkFails, Udp!visitor, Udp!proxy
  <1>20. CASE UNCHANGED sudpVars
    BY <1>20 DEF sudpVars
  <1> QED BY <1>1, <1>2, <1>3, <1>4, <1>5, <1>6, <1>7, <1>8, <1>9, <1>10, <1>11, <1>12, <1>13, <1>14, <1>15, <1>16, <1>17, <1>18, <1>19, <1>20 DEF Udp!Next

\* The tunnels: GetConn makes a new one when no worker runs.
LEMMA TunnelsStep ==
  ASSUME MaxTunnels \in Nat, SudpInv, Udp!Next \/ UNCHANGED sudpVars
  PROVE  TunnelsInv'
  <1>0. ASSUME NEW t \in Udp!Tunnels, NEW who, Udp!CloseFn(t, who),
               serve[t].heart # "none"
        PROVE TunnelsInv'
    <2>1. UNCHANGED <<n, ends, recv, send>> /\ link' = [link EXCEPT ![t] = "dead"]
      BY <1>0 DEF Udp!CloseFn, Udp!visitor
    <2>2. link[t] # "none"
      BY <1>0 DEF SudpInv, ServesInv, ServeInv
    <2> QED BY <2>1, <2>2 DEF SudpInv, TunnelsInv
  <1>h. ASSUME NEW t \in Udp!Tunnels,
               Udp!ReaderEnds(t) \/ Udp!ServerSenderEnds(t) \/ Udp!HeartEnds(t)
        PROVE TunnelsInv'
    BY <1>0, <1>h DEF Udp!ReaderEnds, Udp!ServerSenderEnds, Udp!HeartEnds,
      SudpInv, ServesInv, ServeInv
  <1> USE DEF SudpInv, WorkerInv, TunnelsInv, Udp!Tunnels
  <1>1. CASE Udp!Run
    BY <1>1 DEF Udp!Run, Udp!VisitorRuns, Udp!visitor
  <1>2. CASE Udp!GetConn
    BY <1>2 DEF Udp!GetConn, Udp!VisitorRuns
  <1>3. CASE Udp!GetConnFails
    BY <1>3 DEF Udp!GetConnFails, Udp!VisitorRuns, Udp!CheckClosed
  <1>4. CASE Udp!DialFails
    BY <1>4 DEF Udp!DialFails, Udp!VisitorRuns
  <1>5. CASE Udp!ReceiverEnds
    BY <1>5 DEF Udp!ReceiverEnds, Udp!VisitorRuns, Udp!WorkerCloses
  <1>6. CASE Udp!SenderEnds
    BY <1>6 DEF Udp!SenderEnds, Udp!VisitorRuns, Udp!WorkerCloses
  <1>7. CASE Udp!WorkerEnds
    BY <1>7 DEF Udp!WorkerEnds, Udp!VisitorRuns, Udp!CheckClosed
  <1>8. CASE Udp!ForwardReads
    BY <1>8 DEF Udp!ForwardReads, Udp!Forward
  <1>9. CASE Udp!ForwardReturns
    BY <1>9 DEF Udp!ForwardReturns, Udp!Forward
  <1>10. CASE Udp!ForwardSends
    BY <1>10 DEF Udp!ForwardSends, Udp!Forward
  <1>11. CASE Udp!Close
    BY <1>11 DEF Udp!Close, Udp!VisitorRuns
  <1>12. CASE Udp!ProxyCloses
    BY <1>12 DEF Udp!ProxyCloses, Udp!visitor
  <1>13. ASSUME NEW t \in Udp!Tunnels, Udp!InWorkConn(t) PROVE TunnelsInv'
    BY <1>13 DEF Udp!InWorkConn, Udp!visitor, Udp!Idle
  <1>14. ASSUME NEW t \in Udp!Tunnels, Udp!ReaderEnds(t) PROVE TunnelsInv'
    BY <1>h, <1>14
  <1>15. ASSUME NEW t \in Udp!Tunnels, Udp!ServerSenderEnds(t) PROVE TunnelsInv'
    BY <1>h, <1>15
  <1>16. ASSUME NEW t \in Udp!Tunnels, Udp!HeartEnds(t) PROVE TunnelsInv'
    BY <1>h, <1>16
  <1>17. ASSUME NEW t \in Udp!Tunnels, Udp!HeartBeats(t) PROVE TunnelsInv'
    BY <1>17 DEF Udp!HeartBeats, Udp!visitor
  <1>18. ASSUME NEW t \in Udp!Tunnels, Udp!SenderWrites(t) PROVE TunnelsInv'
    BY <1>18 DEF Udp!SenderWrites, Udp!visitor
  <1>19. ASSUME NEW t \in Udp!Tunnels, Udp!LinkFails(t) PROVE TunnelsInv'
    BY <1>19 DEF Udp!LinkFails, Udp!visitor, Udp!proxy
  <1>20. CASE UNCHANGED sudpVars
    BY <1>20 DEF sudpVars
  <1> QED BY <1>1, <1>2, <1>3, <1>4, <1>5, <1>6, <1>7, <1>8, <1>9, <1>10, <1>11, <1>12, <1>13, <1>14, <1>15, <1>16, <1>17, <1>18, <1>19, <1>20 DEF Udp!Next

\* The client of the proxy, of which a link that ends or falls silent starts nothing.
LEMMA ServesStep ==
  ASSUME MaxTunnels \in Nat, SudpInv, Udp!Next \/ UNCHANGED sudpVars
  PROVE  ServesInv'
  <1>1. ASSUME UNCHANGED serve,
               \A t \in Udp!Tunnels :
                 (link[t] = "dead" => link'[t] = "dead") /\ (link'[t] = "none" => link[t] = "none")
        PROVE ServesInv'
    BY <1>1 DEF SudpInv, ServesInv, ServeInv
  <1>2. ASSUME NEW t \in Udp!Tunnels, NEW who \in {"reader", "sender", "heart"},
               Udp!CloseFn(t, who), serve[t].heart # "none"
        PROVE ServesInv'
    BY <1>2, CloseFnDoes DEF SudpInv, TunnelsInv, ServesInv, ServeInv
  <1>3. CASE Udp!Run \/ Udp!DialFails \/ Udp!WorkerEnds \/ Udp!Close \/ Udp!ProxyCloses
    BY <1>1, <1>3 DEF Udp!Run, Udp!DialFails, Udp!WorkerEnds, Udp!Close, Udp!ProxyCloses,
      Udp!VisitorRuns, Udp!visitor, Udp!proxy
  <1>4. CASE Udp!ForwardReads \/ Udp!ForwardReturns \/ Udp!ForwardSends
    BY <1>1, <1>4 DEF Udp!ForwardReads, Udp!ForwardReturns, Udp!ForwardSends, Udp!Forward, Udp!proxy
  <1>5. CASE Udp!GetConn \/ Udp!GetConnFails
    <2>1. link[n + 1] = "none" /\ UNCHANGED serve
      BY <1>5 DEF Udp!GetConn, Udp!GetConnFails, Udp!VisitorRuns, Udp!proxy, Udp!Tunnels,
        SudpInv, WorkerInv, TunnelsInv
    <2> QED
      BY <1>1, <1>5, <2>1 DEF Udp!GetConn, Udp!GetConnFails, SudpInv, TunnelsInv
  <1>6. CASE Udp!ReceiverEnds \/ Udp!SenderEnds
    BY <1>1, <1>6 DEF Udp!ReceiverEnds, Udp!SenderEnds, Udp!WorkerCloses, Udp!VisitorRuns, Udp!proxy,
      SudpInv, TunnelsInv
  <1>7. ASSUME NEW t \in Udp!Tunnels,
               Udp!ReaderEnds(t) \/ Udp!ServerSenderEnds(t) \/ Udp!HeartEnds(t)
        PROVE ServesInv'
    BY <1>2, <1>7 DEF Udp!ReaderEnds, Udp!ServerSenderEnds, Udp!HeartEnds, SudpInv, ServesInv, ServeInv
  <1>8. ASSUME NEW t \in Udp!Tunnels, Udp!InWorkConn(t) PROVE ServesInv'
    BY <1>8 DEF Udp!InWorkConn, Udp!visitor, SudpInv, ServesInv, ServeInv, Goroutines
  <1>9. ASSUME NEW t \in Udp!Tunnels, Udp!HeartBeats(t) \/ Udp!SenderWrites(t) PROVE ServesInv'
    BY <1>9 DEF Udp!HeartBeats, Udp!SenderWrites, Udp!visitor, SudpInv, ServesInv, ServeInv, Goroutines
  <1>10. ASSUME NEW t \in Udp!Tunnels, Udp!LinkFails(t) PROVE ServesInv'
    BY <1>1, <1>10 DEF Udp!LinkFails, Udp!proxy, SudpInv, TunnelsInv
  <1>11. CASE UNCHANGED sudpVars
    BY <1>1, <1>11 DEF sudpVars
  <1> QED BY <1>3, <1>4, <1>5, <1>6, <1>7, <1>8, <1>9, <1>10, <1>11 DEF Udp!Next

\* A goroutine that stands still has nothing left to end.
LEMMA StandingIsSettled == ASSUME SudpInv PROVE AllSettled
  <1> SUFFICES ASSUME ~SudpCanGo PROVE
        /\ \A t \in Udp!Tunnels : ~Udp!Unsettled(t)
        /\ closing # "no" =>
             \/ forward = "panic"
             \/ dispatcher = "done" /\ forward = "done" /\ \A t \in Udp!Tunnels : ends[t] # "open"
    BY DEF AllSettled
  <1>1. ASSUME NEW t \in Udp!Tunnels, ends[t] = "open", forward # "panic" PROVE link[t] = "open"
    BY <1>1 DEF SudpCanGo, SudpInv, TunnelsInv
  <1>2. ASSUME NEW t \in Udp!Tunnels, Udp!Served(t), link[t] = "dead" \/ proxyClosed
        PROVE serve[t].heart = "block" /\ link[t] = "mute"
    <2>1. /\ serve[t].reader \in {"none", "run", "done"} /\ serve[t].sender \in {"none", "run", "done"}
          /\ serve[t].heart \in {"none", "run", "block", "done"} /\ ServeInv(t)
          /\ link[t] \in {"none", "open", "mute", "dead"}
      BY DEF SudpInv, TunnelsInv, ServesInv, Goroutines
    <2>2. /\ ~(serve[t].reader = "run" /\ (link[t] = "dead" \/ (proxyClosed /\ link[t] = "open")))
          /\ ~(serve[t].sender = "run" /\ (serve[t].shut \/ link[t] = "dead"))
          /\ ~(serve[t].heart = "run" /\ proxyClosed)
          /\ ~(serve[t].heart \in {"run", "block"} /\ serve[t].shut)
          /\ ~(serve[t].sender = "run" /\ serve[t].heart = "block" /\ link[t] = "open")
      BY DEF SudpCanGo
    <2> QED BY <1>2, <2>1, <2>2 DEF Udp!Served, ServeInv
  <1>3. ASSUME closing # "no", forward # "panic"
        PROVE dispatcher = "done" /\ forward = "done" /\ \A t \in Udp!Tunnels : ends[t] # "open"
    <2>1. closing = "done" /\ recv # "run" /\ send # "run"
      BY <1>3 DEF SudpCanGo, SudpInv, WorkerInv
    <2>2. dispatcher = "done" /\ forward = "done"
      BY <1>3, <2>1 DEF SudpCanGo, SudpInv, WorkerInv
    <2> QED BY <2>1, <2>2 DEF SudpInv, TunnelsInv
  <1> QED BY <1>1, <1>2, <1>3 DEF Udp!Unsettled

(* What SudpEnds comes to when nothing can be done, for any number of      *)
(* tunnels: dispatcher, worker and Close of SUDPVisitor (client/visitor.go)*)
(* and reader, sender and heartbeat of SUDPProxy.InWorkConn                *)
(* (client/proxy/proxy.go) stand still only when every tunnel that ended   *)
(* or fell silent was given up, and every visitor that was closed is gone. *)
THEOREM BrokenTunnelsAreSettled == ASSUME MaxTunnels \in Nat PROVE Udp!Spec => []AllSettled
  <1>1. Udp!Init => SudpInv
    BY SudpInit
  <1>2. SudpInv /\ [Udp!Next]_sudpVars => SudpInv'
    BY WorkerStep, TunnelsStep, ServesStep DEF SudpInv
  <1>3. SudpInv => AllSettled
    BY StandingIsSettled
  <1>4. Udp!Spec => Udp!Init /\ [][Udp!Next]_sudpVars
    BY DEF Udp!Spec, Udp!vars, Udp!visitor, Udp!proxy, sudpVars
  <1> QED BY <1>1, <1>2, <1>3, <1>4, PTL
=============================================================================
