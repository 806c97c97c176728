------------------------------ MODULE MCVisitors ------------------------------
(***************************************************************************)
(* The three kinds of visitor, STCP, XTCP and SUDP, in one run: `part`     *)
(* says whose behaviour it is and never changes, and the variables of the  *)
(* other two stay initial.  No action with fairness is enabled there, so   *)
(* the fairness of all three can be stated together.                       *)
(***************************************************************************)
EXTENDS Naturals

VARIABLES
  part,
  up, lost, closed, visitor, register, reply, queued, listening, handler, pooled, start, worker,
  running, fault, overtaken,
  net, holeVisitor, holeHandler, listed, loop, reads, client, reported, address, punched, heard,
  mistaken,
  dispatcher, n, ends, recv, send, forward, closing, link, serve, proxyClosed

stcpVars ==
  <<up, lost, closed, visitor, register, reply, queued, listening, handler, pooled, start, worker,
    running, fault, overtaken>>
xtcpVars ==
  <<net, holeVisitor, holeHandler, listed, loop, reads, client, reported, address, punched, heard,
    mistaken>>
sudpVars == <<dispatcher, n, ends, recv, send, forward, closing, link, serve, proxyClosed>>

Stcp == INSTANCE Tunnel
Xtcp == INSTANCE NatHole WITH visitor <- holeVisitor, handler <- holeHandler
Sudp == INSTANCE SudpVisitor WITH MaxTunnels <- 2, closed <- proxyClosed

Init == part \in {"stcp", "xtcp", "sudp"} /\ Stcp!Init /\ Xtcp!Init /\ Sudp!Init

Next ==
  \/ part = "stcp" /\ Stcp!Next /\ UNCHANGED <<part, xtcpVars, sudpVars>>
  \/ part = "xtcp" /\ Xtcp!Next /\ UNCHANGED <<part, stcpVars, sudpVars>>
  \/ part = "sudp" /\ Sudp!Next /\ UNCHANGED <<part, stcpVars, xtcpVars>>

Spec ==
  /\ Init /\ [][Next]_<<part, stcpVars, xtcpVars, sudpVars>>
  /\ Stcp!Fairness /\ Xtcp!Fairness /\ Sudp!Fairness

\* A tunnel that breaks anywhere is closed everywhere (Tunnel).
TunnelCollapses == Stcp!TunnelCollapses

\* A user of the visitor gets the service or is disconnected (Tunnel).
UserServed == Stcp!UserServed

\* Nothing but a fault or an early word of the service disconnects a user (Tunnel).
OnlyOvertaken == Stcp!OnlyOvertaken

\* Both ends of a hole agree that it is made, through a lossy network (NatHole).
HoleAgrees == Xtcp!HoleAgrees

\* No goroutine of a visit through a hole waits for ever (NatHole).
HoleEnds == Xtcp!HoleEnds

\* Broken tunnels of datagrams are replaced, and those of closed proxies end (SudpVisitor).
SudpEnds == Sudp!SudpEnds
=============================================================================
