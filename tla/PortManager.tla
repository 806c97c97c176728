---------------------------- MODULE PortManager ----------------------------
(***************************************************************************)
(* The port manager of frps (server/ports/ports.go) together with the      *)
(* proxies that call it: TCPProxy without a group (server/proxy/tcp.go)    *)
(* and UDPProxy (server/proxy/udp.go).  A proxy acquires a port under the  *)
(* manager's mutex, binds it afterwards WITHOUT the mutex, and releases it *)
(* when it is closed.  The manager probes a port by binding and closing a  *)
(* socket of its own, so the operating system's view of who is bound       *)
(* (`sock`, `probe`) is part of the state; programs outside frps bind and  *)
(* unbind ports at will.                                                   *)
(*                                                                         *)
(* A PortCtx is shared by pointer between usedPorts and reservedPorts.     *)
(* Both maps are written with the same pointer by every successful         *)
(* Acquire, so reservedPorts[n] and usedPorts[p] are the same object       *)
(* exactly when usedPorts[p] carries the name n and reservedPorts[n] the   *)
(* port p; SameCtx states this and Release uses it.                        *)
(***************************************************************************)
EXTENDS Integers, FiniteSets

CONSTANTS
  Ports,        \* the port numbers of the model, all positive
  AllowPorts,   \* allow_ports of the configuration: the manager's pool
  Names,        \* proxy names
  Proxies,      \* proxy objects (a name may be used by several of them)
  Requests,     \* the remote_port values clients ask for; 0 = any port
  MaxTryTimes,  \* random ports probed by one Acquire (5 in the code)
  Udp,          \* TRUE: the proxies are UDPProxy objects, FALSE: TCPProxy
  NoName,       \* not a name: a port that nobody uses
  Nobody,       \* not a proxy: an unbound port, a free mutex
  Stranger      \* not a proxy: a program outside frps

ASSUME PortAssumption ==
  /\ Ports \subseteq Nat \ {0}
  /\ AllowPorts \subseteq Ports
  /\ Requests \subseteq Ports \union {0}
  /\ MaxTryTimes \in Nat
  /\ Udp \in BOOLEAN
  /\ NoName \notin Names
  /\ Nobody \notin Proxies
  /\ Stranger \notin Proxies
  /\ Nobody # Stranger

VARIABLES
  freePorts,      \* the set of free ports
  usedPorts,      \* port -> the name in its PortCtx, NoName if absent
  reservedPorts,  \* name -> the port and Closed flag of its PortCtx
  mu,             \* who holds the manager's mutex
  stage, tried,   \* local variables of the Acquire that holds the mutex
  probe,          \* the port isPortAvailable has open, 0 if none
  sock,           \* the operating system: who is bound to each port
  pc, name, want, realPort   \* the proxies: where they are, their fields

pmVars == <<freePorts, usedPorts, reservedPorts>>
acqVars == <<mu, stage, tried, probe>>
pxyVars == <<pc, name, want, realPort>>
vars == <<pmVars, acqVars, sock, pxyVars>>

NoCtx == [port |-> 0, closed |-> FALSE]

\* The proxy x has been given port p and has not released it yet.
Holds(x, p) ==
  pc[x] \in {"listen", "failed", "up", "closing"} /\ realPort[x] = p

\* What net.Listen would find: nobody is bound to p.
Available(p) == sock[p] = Nobody /\ probe # p

SameCtx(n, p) == usedPorts[p] = n /\ reservedPorts[n].port = p

\* The proxy object is dropped; x stands for a new one from here on.
Discard(x) ==
  /\ pc' = [pc EXCEPT ![x] = "idle"]
  /\ name' = [name EXCEPT ![x] = NoName]
  /\ want' = [want EXCEPT ![x] = 0]
  /\ realPort' = [realPort EXCEPT ![x] = 0]

-----------------------------------------------------------------------------
Init ==
  /\ freePorts = AllowPorts
  /\ usedPorts = [p \in Ports |-> NoName]
  /\ reservedPorts = [n \in Names |-> NoCtx]
  /\ mu = Nobody
  /\ stage = "none"
  /\ tried = {}
  /\ probe = 0
  /\ sock = [p \in Ports |-> Nobody]
  /\ pc = [x \in Proxies |-> "idle"]
  /\ name = [x \in Proxies |-> NoName]
  /\ want = [x \in Proxies |-> 0]
  /\ realPort = [x \in Proxies |-> 0]

(* Run calls Acquire(name, remotePort) and gets the mutex.  A request for  *)
(* any port looks at the name's reservation first.                         *)
AcquireLock(x, n, port) ==
  /\ pc[x] = "idle"
  /\ mu = Nobody
  /\ mu' = x
  /\ pc' = [pc EXCEPT ![x] = "acquire"]
  /\ name' = [name EXCEPT ![x] = n]
  /\ want' = [want EXCEPT ![x] = port]
  /\ tried' = {}
  /\ stage' = IF port # 0 THEN "specified"
              ELSE IF reservedPorts[n] # NoCtx THEN "reserved" ELSE "random"
  /\ UNCHANGED <<pmVars, probe, sock, realPort>>

(* The ports the Acquire of x may probe next.  Go iterates over the map of *)
(* free ports in an arbitrary order and gives up after MaxTryTimes ports.  *)
Candidates(x) ==
  CASE stage = "reserved"  -> {reservedPorts[name[x]].port}
    [] stage = "random"    -> IF Cardinality(tried) < MaxTryTimes
                              THEN freePorts \ tried ELSE {}
    [] stage = "specified" -> freePorts \intersect ({want[x]} \ tried)
    [] OTHER               -> {}

\* isPortAvailable binds its probing socket.
ProbeOpen(x) ==
  /\ mu = x
  /\ probe = 0
  /\ \E p \in Candidates(x) :
       /\ Available(p)
       /\ probe' = p
  /\ UNCHANGED <<pmVars, mu, stage, tried, sock, pxyVars>>

\* isPortAvailable cannot bind: try the next port, or fail below.
ProbeBusy(x) ==
  /\ mu = x
  /\ probe = 0
  /\ \E p \in Candidates(x) :
       /\ ~Available(p)
       /\ IF stage = "reserved" THEN stage' = "random" /\ tried' = tried
                                ELSE stage' = stage /\ tried' = tried \union {p}
  /\ UNCHANGED <<pmVars, mu, probe, sock, pxyVars>>

\* Faulty variant: the acquired port stays in freePorts.
AcquireOKKeepsFree(x) ==
  /\ mu = x
  /\ probe # 0
  /\ usedPorts' = [usedPorts EXCEPT ![probe] = name[x]]
  /\ reservedPorts' = [reservedPorts EXCEPT
                         ![name[x]] = [port |-> probe, closed |-> FALSE]]
  /\ realPort' = [realPort EXCEPT ![x] = probe]
  /\ pc' = [pc EXCEPT ![x] = "listen"]
  /\ probe' = 0
  /\ mu' = Nobody
  /\ stage' = "none"
  /\ tried' = {}
  /\ UNCHANGED <<freePorts, sock, name, want>>

(* The probe succeeded: it is closed, the port is recorded and the mutex   *)
(* unlocked.  Nothing looks at usedPorts or freePorts here, so a reserved  *)
(* port is taken over even when another name has it.                       *)
AcquireOK(x) ==
  /\ mu = x
  /\ probe # 0
  /\ usedPorts' = [usedPorts EXCEPT ![probe] = name[x]]
  /\ reservedPorts' = [reservedPorts EXCEPT
                         ![name[x]] = [port |-> probe, closed |-> FALSE]]
  /\ freePorts' = freePorts \ {probe}
  /\ realPort' = [realPort EXCEPT ![x] = probe]
  /\ pc' = [pc EXCEPT ![x] = "listen"]
  /\ probe' = 0
  /\ mu' = Nobody
  /\ stage' = "none"
  /\ tried' = {}
  /\ UNCHANGED <<sock, name, want>>

(* ErrNoAvailablePort, ErrPortUnAvailable, ErrPortAlreadyUsed or           *)
(* ErrPortNotAllowed: nothing was recorded, Run returns the error.         *)
AcquireErr(x) ==
  /\ mu = x
  /\ probe = 0
  /\ Candidates(x) = {}
  /\ Discard(x)
  /\ mu' = Nobody
  /\ stage' = "none"
  /\ tried' = {}
  /\ UNCHANGED <<pmVars, probe, sock>>

\* Faulty variant: a failed Listen returns without the deferred Release.
ListenForgetsRelease(x) ==
  /\ pc[x] = "listen"
  /\ IF Available(realPort[x])
     THEN /\ sock' = [sock EXCEPT ![realPort[x]] = x]
          /\ pc' = [pc EXCEPT ![x] = "up"]
          /\ UNCHANGED <<name, want, realPort>>
     ELSE /\ Discard(x)
          /\ UNCHANGED sock
  /\ UNCHANGED <<pmVars, acqVars>>

\* net.Listen / net.ListenUDP on the acquired port, outside the mutex.
Listen(x) ==
  /\ pc[x] = "listen"
  /\ IF Available(realPort[x])
     THEN /\ sock' = [sock EXCEPT ![realPort[x]] = x]
          /\ pc' = [pc EXCEPT ![x] = "up"]
     ELSE /\ pc' = [pc EXCEPT ![x] = "failed"]
          /\ UNCHANGED sock
  /\ UNCHANGED <<pmVars, acqVars, name, want, realPort>>

\* Close: the listener goes first.
CloseListener(x) ==
  /\ pc[x] = "up"
  /\ sock' = [sock EXCEPT ![realPort[x]] = Nobody]
  /\ pc' = [pc EXCEPT ![x] = "closing"]
  /\ UNCHANGED <<pmVars, acqVars, name, want, realPort>>

(* Manager.Release(realPort): by the deferred call of a failed Run, by     *)
(* Close, and once more by the second Close of a UDPProxy, which releases  *)
(* outside its isClosed guard.  Release is given a number, not an owner.   *)
Release(x) ==
  LET p == realPort[x] IN
  /\ pc[x] \in {"failed", "closing", "tail"}
  /\ mu = Nobody
  /\ IF usedPorts[p] # NoName
     THEN /\ freePorts' = freePorts \union {p}
          /\ usedPorts' = [usedPorts EXCEPT ![p] = NoName]
          /\ reservedPorts' =
               [n \in Names |-> IF SameCtx(n, p)
                                THEN [reservedPorts[n] EXCEPT !.closed = TRUE]
                                ELSE reservedPorts[n]]
     ELSE UNCHANGED pmVars
  /\ IF Udp /\ pc[x] = "closing"
     THEN pc' = [pc EXCEPT ![x] = "tail"] /\ UNCHANGED <<name, want, realPort>>
     ELSE Discard(x)
  /\ UNCHANGED <<acqVars, sock>>

(* cleanReservedPortsWorker: drops the closed reservations older than 24   *)
(* hours; which ones are old enough is left open.                          *)
CleanReserved ==
  /\ mu = Nobody
  /\ \E S \in SUBSET {n \in Names : reservedPorts[n].closed} :
       reservedPorts' = [n \in Names |-> IF n \in S THEN NoCtx ELSE reservedPorts[n]]
  /\ UNCHANGED <<freePorts, usedPorts, acqVars, sock, pxyVars>>

StrangerBinds(p) ==
  /\ Available(p)
  /\ sock' = [sock EXCEPT ![p] = Stranger]
  /\ UNCHANGED <<pmVars, acqVars, pxyVars>>

StrangerLeaves(p) ==
  /\ sock[p] = Stranger
  /\ sock' = [sock EXCEPT ![p] = Nobody]
  /\ UNCHANGED <<pmVars, acqVars, pxyVars>>

Next ==
  \/ \E x \in Proxies :
       \/ \E n \in Names, port \in Requests : AcquireLock(x, n, port)
       \/ ProbeOpen(x)
       \/ ProbeBusy(x)
       \/ AcquireOK(x)
       \/ AcquireErr(x)
       \/ Listen(x)
       \/ CloseListener(x)
       \/ Release(x)
  \/ CleanReserved
  \/ \E p \in Ports : StrangerBinds(p) \/ StrangerLeaves(p)

Spec == Init /\ [][Next]_vars

-----------------------------------------------------------------------------
TypeOK ==
  /\ freePorts \subseteq Ports
  /\ usedPorts \in [Ports -> Names \union {NoName}]
  /\ reservedPorts \in [Names -> [port : Ports \union {0}, closed : BOOLEAN]]
  /\ mu \in Proxies \union {Nobody}
  /\ stage \in {"none", "reserved", "random", "specified"}
  /\ tried \subseteq Ports
  /\ probe \in Ports \union {0}
  /\ sock \in [Ports -> Proxies \union {Nobody, Stranger}]
  /\ pc \in [Proxies -> {"idle", "acquire", "listen", "failed", "up",
                         "closing", "tail"}]
  /\ name \in [Proxies -> Names \union {NoName}]
  /\ want \in [Proxies -> Ports \union {0}]
  /\ realPort \in [Proxies -> Ports \union {0}]
  /\ \A x \in Proxies :
       /\ mu = x <=> pc[x] = "acquire"
       /\ pc[x] # "idle" => name[x] \in Names
       /\ pc[x] \notin {"idle", "acquire"} => realPort[x] \in Ports

(* No port is lost and none is in two places: the free ports and the used  *)
(* ports split allow_ports, whatever proxies fail, overlap or release      *)
(* twice.                                                                  *)
PortsPartitioned ==
  /\ freePorts \intersect {p \in Ports : usedPorts[p] # NoName} = {}
  /\ freePorts \union {p \in Ports : usedPorts[p] # NoName} = AllowPorts

(* A used port always has a proxy of that name that still has its Release  *)
(* to do, so every used port comes back: no path through Run and Close     *)
(* forgets one.                                                            *)
NoPortLeak ==
  \A p \in Ports : usedPorts[p] # NoName =>
    \E x \in Proxies : Holds(x, p) /\ name[x] = usedPorts[p]

(* When every client names its port and the proxies are TCP, a port is in  *)
(* the hands of one proxy at a time from Acquire to Release, and it is not *)
(* offered as free meanwhile.  (Neither half survives remote_port = 0 or   *)
(* the double Release of UDPProxy, see the README.)                        *)
ExclusivePorts ==
  \A x \in Proxies, p \in Ports : Holds(x, p) =>
    /\ p \notin freePorts
    /\ \A y \in Proxies \ {x} : ~Holds(y, p)

=============================================================================
