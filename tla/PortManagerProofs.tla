------------------------- MODULE PortManagerProofs -------------------------
(***************************************************************************)
(* Proofs about PortManager, for any number of ports, names and proxies.   *)
(*                                                                         *)
(* Port accounting (PortsPartitioned, NoPortLeak) holds in every           *)
(* configuration.  Exclusive use of a port holds when every request names  *)
(* its port and the proxies are TCP proxies; those two hypotheses appear   *)
(* in the theorem because the property is false without either.            *)
(***************************************************************************)
EXTENDS PortManager, TLAPS

\* What the type invariant needs: reservations are for allowed ports, and the
\* Acquire that looks at a reservation has one.
CtxOK ==
  /\ \A n \in Names : \/ reservedPorts[n] = NoCtx
                      \/ reservedPorts[n].port \in AllowPorts
  /\ \A x \in Proxies : mu = x /\ stage = "reserved"
                          => reservedPorts[name[x]] # NoCtx
  /\ probe \in AllowPorts \union {0}
  /\ freePorts \subseteq AllowPorts

PortInv == TypeOK /\ CtxOK /\ PortsPartitioned /\ NoPortLeak

\* Every port an Acquire may probe is an allowed port: Acquire never hands
\* out a port outside allow_ports, the reserved one included.
LEMMA CandidatesAllowed ==
  ASSUME TypeOK, CtxOK, NEW x \in Proxies, mu = x
  PROVE  Candidates(x) \subseteq AllowPorts
  BY PortAssumption DEF TypeOK, CtxOK, Candidates

\* The initial state has all the allowed ports free and nothing else.
LEMMA PortInvInit == Init => PortInv
  BY PortAssumption
  DEF Init, PortInv, TypeOK, CtxOK, PortsPartitioned, NoPortLeak, NoCtx, Holds

\* Every step keeps the types, the reservations sound and the accounting exact.
LEMMA PortInvNext == PortInv /\ [Next]_vars => PortInv'
  <1> SUFFICES ASSUME PortInv, [Next]_vars PROVE PortInv'
    OBVIOUS
  <1> USE PortAssumption DEF PortInv
  <1>1. ASSUME NEW x \in Proxies, NEW n \in Names, NEW port \in Requests,
               AcquireLock(x, n, port)
        PROVE  PortInv'
    <2> USE <1>1 DEF AcquireLock, pmVars
    <2>1. TypeOK' BY DEF TypeOK
    <2>2. CtxOK' BY DEF TypeOK, CtxOK
    <2>3. PortsPartitioned' BY DEF PortsPartitioned
    <2>4. NoPortLeak' BY DEF TypeOK, NoPortLeak, Holds
    <2> QED BY <2>1, <2>2, <2>3, <2>4
  <1>2. ASSUME NEW x \in Proxies, ProbeOpen(x) PROVE PortInv'
    <2> USE <1>2 DEF ProbeOpen, pmVars, pxyVars
    <2>0. probe' \in AllowPorts BY CandidatesAllowed
    <2>1. TypeOK' BY <2>0 DEF TypeOK
    <2>2. CtxOK' BY <2>0 DEF CtxOK
    <2>3. PortsPartitioned' BY DEF PortsPartitioned
    <2>4. NoPortLeak' BY DEF NoPortLeak, Holds
    <2> QED BY <2>1, <2>2, <2>3, <2>4
  <1>3. ASSUME NEW x \in Proxies, ProbeBusy(x) PROVE PortInv'
    <2> USE <1>3 DEF ProbeBusy, pmVars, pxyVars
    <2>0. Candidates(x) \subseteq Ports BY CandidatesAllowed
    <2>1. TypeOK' BY <2>0 DEF TypeOK
    <2>2. CtxOK' BY DEF CtxOK
    <2>3. PortsPartitioned' BY DEF PortsPartitioned
    <2>4. NoPortLeak' BY DEF NoPortLeak, Holds
    <2> QED BY <2>1, <2>2, <2>3, <2>4
  <1>4. ASSUME NEW x \in Proxies, AcquireOK(x) PROVE PortInv'
    <2> USE <1>4 DEF AcquireOK
    <2>0. probe \in AllowPorts /\ probe \in Ports /\ name[x] \in Names
      BY DEF CtxOK, TypeOK
    <2>1. TypeOK' BY <2>0 DEF TypeOK
    <2>2. CtxOK' BY <2>0 DEF CtxOK, TypeOK
    <2>3. PortsPartitioned' BY <2>0 DEF PortsPartitioned, TypeOK
    <2>4. NoPortLeak'
      <3> SUFFICES ASSUME NEW p \in Ports, usedPorts'[p] # NoName
                   PROVE  \E y \in Proxies : Holds(y, p)' /\ name'[y] = usedPorts'[p]
        BY DEF NoPortLeak
      <3>1. CASE p = probe
        BY <3>1, <2>0 DEF TypeOK, Holds
      <3>2. CASE p # probe
        <4>1. usedPorts'[p] = usedPorts[p] BY <3>2 DEF TypeOK
        <4>2. PICK y \in Proxies : Holds(y, p) /\ name[y] = usedPorts[p]
          BY <4>1 DEF NoPortLeak
        <4>3. y # x BY <4>2 DEF Holds, TypeOK
        <4> QED BY <4>1, <4>2, <4>3 DEF Holds, TypeOK
      <3> QED BY <3>1, <3>2
    <2> QED BY <2>1, <2>2, <2>3, <2>4
  <1>5. ASSUME NEW x \in Proxies, AcquireErr(x) PROVE PortInv'
    <2> USE <1>5 DEF AcquireErr, Discard, pmVars
    <2>1. TypeOK' BY DEF TypeOK
    <2>2. CtxOK' BY DEF CtxOK, TypeOK
    <2>3. PortsPartitioned' BY DEF PortsPartitioned
    <2>4. NoPortLeak' BY DEF TypeOK, NoPortLeak, Holds
    <2> QED BY <2>1, <2>2, <2>3, <2>4
  <1>6. ASSUME NEW x \in Proxies, Listen(x) PROVE PortInv'
    <2> USE <1>6 DEF Listen, pmVars, acqVars
    <2>1. TypeOK' BY DEF TypeOK
    <2>2. CtxOK' BY DEF CtxOK
    <2>3. PortsPartitioned' BY DEF PortsPartitioned
    <2>4. NoPortLeak' BY DEF TypeOK, NoPortLeak, Holds
    <2> QED BY <2>1, <2>2, <2>3, <2>4
  <1>7. ASSUME NEW x \in Proxies, CloseListener(x) PROVE PortInv'
    <2> USE <1>7 DEF CloseListener, pmVars, acqVars
    <2>1. TypeOK' BY DEF TypeOK
    <2>2. CtxOK' BY DEF CtxOK
    <2>3. PortsPartitioned' BY DEF PortsPartitioned
    <2>4. NoPortLeak' BY DEF TypeOK, NoPortLeak, Holds
    <2> QED BY <2>1, <2>2, <2>3, <2>4
  <1>8. ASSUME NEW x \in Proxies, Release(x) PROVE PortInv'
    <2> DEFINE p == realPort[x]
    <2>0. p \in Ports /\ pc[x] \notin {"idle", "acquire"} /\ mu = Nobody
      BY <1>8 DEF Release, TypeOK
    <2>a. \A n \in Names :
             /\ reservedPorts'[n] \in [port : Ports \union {0}, closed : BOOLEAN]
             /\ reservedPorts'[n].port = reservedPorts[n].port
             /\ reservedPorts[n] = NoCtx => reservedPorts'[n] = NoCtx
      <3>1. \A n \in Names : SameCtx(n, p) => reservedPorts[n] # NoCtx
        BY <2>0 DEF SameCtx, NoCtx
      <3>2. CASE usedPorts[p] # NoName
        <4> SUFFICES ASSUME NEW n \in Names
                     PROVE  /\ reservedPorts'[n] \in [port : Ports \union {0}, closed : BOOLEAN]
                            /\ reservedPorts'[n].port = reservedPorts[n].port
                            /\ reservedPorts[n] = NoCtx => reservedPorts'[n] = NoCtx
          OBVIOUS
        <4>1. reservedPorts'[n] = IF SameCtx(n, p)
                                  THEN [reservedPorts[n] EXCEPT !.closed = TRUE]
                                  ELSE reservedPorts[n]
          BY <1>8, <3>2 DEF Release
        <4>2. reservedPorts[n] \in [port : Ports \union {0}, closed : BOOLEAN]
          BY DEF TypeOK
        <4> QED BY <3>1, <4>1, <4>2
      <3>3. CASE usedPorts[p] = NoName
        BY <1>8, <3>3 DEF Release, TypeOK, pmVars
      <3> QED BY <3>2, <3>3
    <2>b. reservedPorts' = [n \in Names |-> reservedPorts'[n]]
      BY <1>8 DEF Release, TypeOK, pmVars
    <2>c. /\ reservedPorts' \in [Names -> [port : Ports \union {0}, closed : BOOLEAN]]
          /\ freePorts' \subseteq Ports
          /\ usedPorts' \in [Ports -> Names \union {NoName}]
      BY <1>8, <2>0, <2>a, <2>b DEF Release, TypeOK, pmVars
    <2>d. /\ pc' \in [Proxies -> {"idle", "acquire", "listen", "failed", "up",
                                  "closing", "tail"}]
          /\ name' \in [Proxies -> Names \union {NoName}]
          /\ want' \in [Proxies -> Ports \union {0}]
          /\ realPort' \in [Proxies -> Ports \union {0}]
          /\ \A y \in Proxies :
               /\ mu = y <=> pc'[y] = "acquire"
               /\ pc'[y] # "idle" => name'[y] \in Names
               /\ pc'[y] \notin {"idle", "acquire"} => realPort'[y] \in Ports
      BY <1>8, <2>0 DEF Release, Discard, TypeOK
    <2>1. TypeOK'
      BY <1>8, <2>c, <2>d DEF Release, TypeOK, acqVars
    <2>2. CtxOK'
      BY <1>8, <2>0, <2>a DEF Release, CtxOK, PortsPartitioned, acqVars, pmVars
    <2>3. PortsPartitioned'
      BY <1>8, <2>0 DEF Release, PortsPartitioned, TypeOK, pmVars
    <2>4. NoPortLeak'
      <3> SUFFICES ASSUME NEW q \in Ports, usedPorts'[q] # NoName
                   PROVE  \E y \in Proxies : Holds(y, q)' /\ name'[y] = usedPorts'[q]
        BY DEF NoPortLeak
      <3>1. q # p /\ usedPorts'[q] = usedPorts[q]
        BY <1>8, <2>0 DEF Release, TypeOK, pmVars
      <3>2. PICK y \in Proxies : Holds(y, q) /\ name[y] = usedPorts[q]
        BY <3>1 DEF NoPortLeak
      <3>3. y # x BY <3>1, <3>2 DEF Holds
      <3> QED BY <1>8, <3>1, <3>2, <3>3 DEF Release, Discard, Holds, TypeOK
    <2> QED BY <2>1, <2>2, <2>3, <2>4
  <1>9. CASE CleanReserved
    <2> USE <1>9 DEF CleanReserved, acqVars, pxyVars
    <2>1. TypeOK'
      <3>1. NoCtx \in [port : Ports \union {0}, closed : BOOLEAN] BY DEF NoCtx
      <3> QED BY <3>1 DEF TypeOK
    <2>2. CtxOK' BY DEF CtxOK, TypeOK
    <2>3. PortsPartitioned' BY DEF PortsPartitioned
    <2>4. NoPortLeak' BY DEF NoPortLeak, Holds
    <2> QED BY <2>1, <2>2, <2>3, <2>4
  <1>10. ASSUME NEW p \in Ports, StrangerBinds(p) \/ StrangerLeaves(p)
         PROVE  PortInv'
    <2> USE <1>10 DEF StrangerBinds, StrangerLeaves, pmVars, acqVars, pxyVars
    <2>0. sock' \in [Ports -> Proxies \union {Nobody, Stranger}] BY DEF TypeOK
    <2>a. UNCHANGED <<pmVars, acqVars, pxyVars>> OBVIOUS
    <2> HIDE <1>10
    <2>1. TypeOK' BY <2>0, <2>a DEF TypeOK
    <2>2. CtxOK' BY <2>a DEF CtxOK
    <2>3. PortsPartitioned' BY <2>a DEF PortsPartitioned
    <2>4. NoPortLeak' BY <2>a DEF NoPortLeak, Holds
    <2> QED BY <2>1, <2>2, <2>3, <2>4
  <1>11. CASE UNCHANGED vars
    BY <1>11 DEF vars, pmVars, acqVars, pxyVars, TypeOK, CtxOK,
                 PortsPartitioned, NoPortLeak, Holds
  <1> QED
    BY <1>1, <1>2, <1>3, <1>4, <1>5, <1>6, <1>7, <1>8, <1>9, <1>10, <1>11 DEF Next

\* The port accounting of Acquire and Release is exact in every reachable
\* state, whatever the configuration: the types hold, free and used ports
\* split allow_ports, and each used port has a proxy that will release it.
THEOREM PortAccounting == Spec => [](TypeOK /\ PortsPartitioned /\ NoPortLeak)
  BY PortInvInit, PortInvNext, PTL DEF Spec, PortInv

(* NoPortLeak: whichever way a proxy leaves Run or Close, its name stands  *)
(* beside a port only while it still has the Release of that port to do.   *)
THEOREM UsedPortsComeBack == Spec => []NoPortLeak
  BY PortAccounting, PTL

-----------------------------------------------------------------------------
\* A holder's port is recorded as used.
HeldIsUsed == \A x \in Proxies, p \in Ports : Holds(x, p) => usedPorts[p] # NoName

\* The strengthening that makes ExclusivePorts inductive: an Acquire only
\* probes a port that is free and stays free until the mutex is unlocked.
ExclInv ==
  /\ PortInv
  /\ HeldIsUsed
  /\ ExclusivePorts
  /\ probe # 0 => probe \in freePorts
  /\ \A x \in Proxies : pc[x] # "tail"
  /\ stage \in {"none", "specified"}

\* With named ports only and TCP proxies, every step keeps a port in one hand.
LEMMA ExclInvNext ==
  ASSUME 0 \notin Requests, Udp = FALSE, ExclInv, [Next]_vars
  PROVE  ExclInv'
  <1> USE PortAssumption
  <1>0. PortInv' /\ TypeOK
    BY PortInvNext DEF ExclInv, PortInv
  <1> DEFINE Excl(y, q) == /\ usedPorts'[q] # NoName
                           /\ \A z \in Proxies \ {y} : ~Holds(z, q)'
  <1>s. ASSUME \A y \in Proxies, q \in Ports : Holds(y, q)' => Excl(y, q)
        PROVE  HeldIsUsed' /\ ExclusivePorts'
    BY <1>0, <1>s DEF HeldIsUsed, ExclusivePorts, PortInv, PortsPartitioned
  <1>1. ASSUME NEW x \in Proxies, NEW n \in Names, NEW port \in Requests,
               AcquireLock(x, n, port)
        PROVE  ExclInv'
    BY <1>0, <1>1 DEF AcquireLock, ExclInv, HeldIsUsed, ExclusivePorts, Holds, pmVars, TypeOK
  <1>2. ASSUME NEW x \in Proxies, ProbeOpen(x) PROVE ExclInv'
    BY <1>0, <1>2 DEF ProbeOpen, Candidates, ExclInv, HeldIsUsed, ExclusivePorts, Holds,
                      pmVars, pxyVars
  <1>3. ASSUME NEW x \in Proxies, ProbeBusy(x) PROVE ExclInv'
    BY <1>0, <1>3 DEF ProbeBusy, ExclInv, HeldIsUsed, ExclusivePorts, Holds, pmVars, pxyVars
  <1>4. ASSUME NEW x \in Proxies, AcquireOK(x) PROVE ExclInv'
    <2>1. probe \in freePorts /\ probe \in Ports /\ usedPorts[probe] = NoName
      BY <1>4 DEF AcquireOK, ExclInv, PortInv, TypeOK, PortsPartitioned
    <2>2. \A y \in Proxies : ~Holds(y, probe)
      BY <2>1 DEF ExclInv, HeldIsUsed
    <2>3. name[x] # NoName
      BY <1>4 DEF AcquireOK, ExclInv, PortInv, TypeOK
    <2>4. \A y \in Proxies, q \in Ports :
             Holds(y, q)' <=> (Holds(y, q) \/ (y = x /\ q = probe))
      BY <1>0, <1>4, <2>1 DEF AcquireOK, Holds, TypeOK
    <2>5. \A y \in Proxies, q \in Ports : Holds(y, q)' => Excl(y, q)
      BY <1>0, <1>4, <2>1, <2>2, <2>3, <2>4
      DEF AcquireOK, ExclInv, HeldIsUsed, ExclusivePorts, TypeOK
    <2> QED BY <1>0, <1>4, <1>s, <2>5 DEF AcquireOK, ExclInv, TypeOK
  <1>5. ASSUME NEW x \in Proxies, AcquireErr(x) PROVE ExclInv'
    BY <1>0, <1>5 DEF AcquireErr, Discard, ExclInv, HeldIsUsed, ExclusivePorts, Holds,
                      pmVars, TypeOK
  <1>6. ASSUME NEW x \in Proxies, Listen(x) PROVE ExclInv'
    <2>1. \A y \in Proxies, q \in Ports : Holds(y, q)' <=> Holds(y, q)
      BY <1>0, <1>6 DEF Listen, Holds, TypeOK
    <2> QED BY <1>0, <1>6, <2>1
        DEF Listen, ExclInv, HeldIsUsed, ExclusivePorts, pmVars, acqVars, TypeOK
  <1>7. ASSUME NEW x \in Proxies, CloseListener(x) PROVE ExclInv'
    <2>1. \A y \in Proxies, q \in Ports : Holds(y, q)' <=> Holds(y, q)
      BY <1>0, <1>7 DEF CloseListener, Holds, TypeOK
    <2> QED BY <1>0, <1>7, <2>1
        DEF CloseListener, ExclInv, HeldIsUsed, ExclusivePorts, pmVars, acqVars, TypeOK
  <1>8. ASSUME NEW x \in Proxies, Release(x) PROVE ExclInv'
    <2> DEFINE p == realPort[x]
    <2>1. p \in Ports /\ Holds(x, p) /\ usedPorts[p] # NoName
      BY <1>0, <1>8 DEF Release, Holds, TypeOK, ExclInv, HeldIsUsed
    <2>2. \A y \in Proxies, q \in Ports : Holds(y, q)' => Holds(y, q) /\ y # x
      BY <1>0, <1>8 DEF Release, Discard, Holds, TypeOK
    <2>3. \A y \in Proxies, q \in Ports : Holds(y, q)' => q # p
      BY <2>1, <2>2 DEF ExclInv, ExclusivePorts
    <2>4. \A q \in Ports \ {p} : usedPorts'[q] = usedPorts[q]
      BY <1>0, <1>8, <2>1 DEF Release, TypeOK
    <2>5. \A y \in Proxies, q \in Ports : Holds(y, q)' => Excl(y, q)
      BY <2>2, <2>3, <2>4 DEF ExclInv, HeldIsUsed, ExclusivePorts
    <2>6. probe' = probe /\ stage' = stage /\ freePorts \subseteq freePorts'
      BY <1>8, <2>1 DEF Release, acqVars
    <2>7. \A y \in Proxies : pc'[y] # "tail"
      BY <1>0, <1>8 DEF Release, Discard, ExclInv, TypeOK
    <2> QED BY <1>0, <1>s, <2>5, <2>6, <2>7 DEF ExclInv
  <1>9. CASE CleanReserved
    BY <1>0, <1>9 DEF CleanReserved, ExclInv, HeldIsUsed, ExclusivePorts, Holds,
                      acqVars, pxyVars
  <1>10. ASSUME NEW p \in Ports, StrangerBinds(p) \/ StrangerLeaves(p)
         PROVE  ExclInv'
    <2>1. UNCHANGED <<pmVars, acqVars, pxyVars>>
      BY <1>10 DEF StrangerBinds, StrangerLeaves
    <2> QED BY <1>0, <2>1 DEF ExclInv, HeldIsUsed, ExclusivePorts, Holds,
                              pmVars, acqVars, pxyVars
  <1>11. CASE UNCHANGED vars
    BY <1>0, <1>11 DEF vars, ExclInv, HeldIsUsed, ExclusivePorts, Holds,
                       pmVars, acqVars, pxyVars
  <1> QED
    BY <1>1, <1>2, <1>3, <1>4, <1>5, <1>6, <1>7, <1>8, <1>9, <1>10, <1>11 DEF Next

\* From Acquire to Release a port belongs to one TCP proxy and is not offered
\* to another, provided that every client names the port it wants.
THEOREM NamedPortsAreExclusive ==
  ASSUME 0 \notin Requests, Udp = FALSE
  PROVE  Spec => []ExclusivePorts
  <1>1. Init => ExclInv
    BY PortInvInit, PortAssumption DEF Init, ExclInv, HeldIsUsed, ExclusivePorts, Holds
  <1>2. ExclInv /\ [Next]_vars => ExclInv'
    BY ExclInvNext
  <1>3. ExclInv => ExclusivePorts
    BY DEF ExclInv
  <1> QED BY <1>1, <1>2, <1>3, PTL DEF Spec
=============================================================================
