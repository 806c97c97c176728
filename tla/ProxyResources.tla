--------------------------- MODULE ProxyResources ---------------------------
(***************************************************************************)
(* What a registered proxy holds on frps, and how it gets and loses it:    *)
(* Control.RegisterProxy, CloseProxy and stoper (server/control.go), Run   *)
(* and Close of every proxy type (server/proxy), the groups of TCP, tcpmux *)
(* and HTTP proxies (server/group), the routes of the virtual hosts        *)
(* (pkg/util/vhost), the secret listeners (server/visitor) and the clients *)
(* of the NAT-hole controller (pkg/nathole).                               *)
(*                                                                         *)
(* A control handles one message at a time, so it is one sequential        *)
(* process; several controls interleave wherever a lock is given up        *)
(* between two steps: between the look-up of a group in the controller's   *)
(* table and the call on the group, and between the resources of one       *)
(* proxy.                                                                  *)
(*                                                                         *)
(* Abstractions.  A resource is a triple of strings: a port, a route       *)
(* (muxer, domain, location) or the name of a secret listener.  A proxy    *)
(* instance is <<control, name, copy>>; the copy tells a request apart     *)
(* from the registered proxy of the same name on the same control.  The    *)
(* port manager's choices are PortManager's business: here it reserves a   *)
(* free port that can be listened on, or fails.  A reservation and the     *)
(* socket on the port are two things: the two differ for a group that asks *)
(* for any port, and while a closed UDP proxy has a Release to come.  The  *)
(* port the system chooses for such a group is one of Ports too; one out   *)
(* of reach of the port manager would be in nobody's way.  A group object  *)
(* is used again when nothing refers to it any more; Objs bounds how many  *)
(* there are at a time.                                                    *)
(***************************************************************************)
EXTENDS Naturals, Sequences, Functions, FiniteSets

CONSTANTS
  Ctls,               \* the controls
  Menus,              \* what their clients may declare: a set of functions from Ctls to sets of Conf
  Ports,              \* the ports of the port manager
  Objs,               \* identities of group objects
  MaxPortsPerClient,  \* max_ports_per_client, 0 for no limit
  None

(***************************************************************************)
(* The resources a configuration asks for, in the order of Run.  A         *)
(* configuration has name, kind, port ("any" for remote_port 0), domains   *)
(* (custom domains, then the subdomain), locations, group and groupKey.    *)
(***************************************************************************)
Want(how, res) == [how |-> how, res |-> res]

RunTCP(conf) ==
  <<Want(IF conf.group = None THEN "port" ELSE "lnGroup", <<"tcp", conf.port, "">>)>>

RunUDP(conf) == <<Want("port", <<"udp", conf.port, "">>)>>

RunHTTP(conf) ==
  LET locations == IF conf.locations = <<>> THEN <<"">> ELSE conf.locations
      how == IF conf.group = None THEN "route" ELSE "httpGroup"
      n == Len(locations)
  IN [i \in 1..(Len(conf.domains) * n) |->
        Want(how, <<"http", conf.domains[((i - 1) \div n) + 1], locations[((i - 1) % n) + 1]>>)]

RunHTTPS(conf) ==
  [i \in DOMAIN conf.domains |-> Want("route", <<"https", conf.domains[i], "">>)]

RunTCPMux(conf) ==
  [i \in DOMAIN conf.domains |->
     Want(IF conf.group = None THEN "route" ELSE "lnGroup", <<"tcpmux", conf.domains[i], "">>)]

RunSTCP(conf) == <<Want("secret", <<"secret", conf.name, "">>)>>

\* SUDP proxies share the visitor manager with STCP proxies.
RunSUDP(conf) == <<Want("secret", <<"secret", conf.name, "">>)>>

RunXTCP(conf) == <<Want("nathole", <<"nathole", conf.name, "">>)>>

Wants(conf) ==
  CASE conf.kind = "tcp"    -> RunTCP(conf)
    [] conf.kind = "udp"    -> RunUDP(conf)
    [] conf.kind = "http"   -> RunHTTP(conf)
    [] conf.kind = "https"  -> RunHTTPS(conf)
    [] conf.kind = "tcpmux" -> RunTCPMux(conf)
    [] conf.kind = "stcp"   -> RunSTCP(conf)
    [] conf.kind = "sudp"   -> RunSUDP(conf)
    [] conf.kind = "xtcp"   -> RunXTCP(conf)

\* Proxies that need a port count against max_ports_per_client.
UsedPortsNum(conf) == IF conf.kind \in {"tcp", "udp"} THEN 1 ELSE 0

\* The key of a group in its controller's table.
GroupIndex(conf, want) ==
  IF want.how = "httpGroup"
  THEN <<"http", conf.group, want.res[2], want.res[3]>>
  ELSE <<conf.kind, conf.group, "", "">>

Confs == UNION {UNION Range(m) : m \in Menus}
ConfNames == {conf.name : conf \in Confs}
GroupConfs == {conf \in Confs : conf.group # None}
Indexes == UNION {{GroupIndex(conf, w) : w \in Range(Wants(conf))} : conf \in GroupConfs}
IsPort(res) == res[1] \in {"tcp", "udp"}
\* The resources that may be held: "any" stands for a port the manager chooses.
Allowed(res) ==
  IF IsPort(res) /\ res[2] = "any" THEN {<<res[1], p, "">> : p \in Ports} ELSE {res}
Resources ==
  UNION {UNION {Allowed(w.res) : w \in Range(Wants(conf))} : conf \in Confs}
Ids == Ctls \X ConfNames \X {0, 1}
Kinds == {"tcp", "udp", "http", "https", "tcpmux", "stcp", "sudp", "xtcp"}

ASSUME ResourcesAssumption ==
  /\ Menus \subseteq [Ctls -> SUBSET Confs]
  /\ \A conf \in Confs : conf.kind \in Kinds
  /\ MaxPortsPerClient \in Nat
  /\ None \notin Objs \union Ids \union Resources \union ({"group"} \X Objs)

\* members are listeners: an instance, and the number of the resource it asked for.
\* res is what the group holds, for a TCP group the port it listens on; real is its realPort,
\* the port it has reserved and its members advertise.
NewGroup == [members |-> {}, key |-> None, want |-> None, res |-> None, real |-> None,
             closed |-> FALSE]

VARIABLES
  declared,   \* control -> the configurations its client may send
  used,       \* resource -> the instance or the group object that holds it (listens on it), or None
  reserved,   \* port -> the instance or the group object the port manager gave it to, or None
  late,       \* UDP ports that a closed proxy's reader has still to release once more
  natholes,   \* name -> the instance the NAT-hole controller sends session ids to
  table,      \* group index -> group object
  groups,     \* object -> members, group key, resource; closed: acceptCh is closed
  pxyTable,   \* the proxy manager: name -> instance
  mine,       \* control -> ctl.proxies: instances with their configuration and what they hold
  portsUsed,  \* control -> portsUsedNum
  proc,       \* control -> where its manager or its stoper is
  stray,      \* history: objects joined after they had left the table, or left by a panic
  freedLate,  \* history: UDP ports in use whose reservation such a Release has taken away
  unlistened, \* history: ports acquired by a group that could not listen on them
  displaced   \* history: instances whose NAT-hole entry another one replaced or deleted

ports == <<reserved, late, freedLate>>
vars == <<declared, used, ports, natholes, table, groups, pxyTable, mine, portsUsed, proc,
          stray, unlistened, displaced>>
history == <<stray, unlistened, displaced>>
resources == <<used, ports, natholes, table, groups>>

(* -------- positions of a control -------- *)
\* id and conf of the proxy it runs or closes, the resource Run asks for next, those that
\* are held (numbered in the order of Run, in which Close gives them back), the group found.
Idle == [at |-> "idle", id |-> None, conf |-> None, next |-> 1, held |-> {}, found |-> None]
At(c, place) == proc[c].at = place
Goto(c, place) == proc' = [proc EXCEPT ![c].at = place]

Init ==
  /\ declared \in Menus
  /\ used = [r \in Resources |-> None]
  /\ reserved = [r \in Resources |-> None]
  /\ late = {} /\ freedLate = {}
  /\ natholes = [n \in ConfNames |-> None]
  /\ table = [i \in Indexes |-> None]
  /\ groups = [o \in Objs |-> NewGroup]
  /\ pxyTable = [n \in ConfNames |-> None]
  /\ mine = [c \in Ctls |-> {}]
  /\ portsUsed = [c \in Ctls |-> 0]
  /\ proc = [c \in Ctls |-> Idle]
  /\ stray = {} /\ unlistened = {} /\ displaced = {}

(***************************************************************************)
(* RegisterProxy.                                                          *)
(***************************************************************************)
Counts == MaxPortsPerClient > 0

ExceedsPorts(c, conf) ==
  Counts /\ portsUsed[c] + UsedPortsNum(conf) > MaxPortsPerClient

\* NewProxy and the check of max_ports_per_client; a request over the limit is refused.
Register(c) ==
  /\ At(c, "idle")
  /\ \E conf \in declared[c] :
       LET copy == IF \E m \in mine[c] : m.id = <<c, conf.name, 0>> THEN 1 ELSE 0
       IN /\ ~ExceedsPorts(c, conf)
          /\ portsUsed' = [portsUsed EXCEPT ![c] =
                             IF Counts THEN @ + UsedPortsNum(conf) ELSE @]
          /\ proc' = [proc EXCEPT ![c] = [Idle EXCEPT !.at = "run", !.conf = conf,
                        !.id = <<c, conf.name, copy>>]]
  /\ UNCHANGED <<declared, resources, pxyTable, mine, history>>

(* -------- Run: one resource after another -------- *)
More(c) == proc[c].next \in DOMAIN Wants(proc[c].conf)
Next1(c) == Wants(proc[c].conf)[proc[c].next]
Asks(c, how) == At(c, "run") /\ More(c) /\ Next1(c).how = how

\* The next resource is held: as the instance's own, or as a member of a group.
Advance(c, how, res, obj, index) ==
  proc' = [proc EXCEPT ![c].at = "run", ![c].next = @ + 1, ![c].found = None,
             ![c].held = @ \union {[nr |-> proc[c].next, how |-> how, res |-> res,
                                   obj |-> obj, index |-> index]}]
HoldsOwn(c, res) == Advance(c, "own", res, None, None)

\* Run fails: what the proxy holds already is released, in the same order.
RunFails(c) == proc' = [proc EXCEPT ![c].at = "undo", ![c].found = None]

\* Manager.Acquire gives out a port that nobody has reserved and that its probe can listen on.
Acquirable(r) == reserved[r] = None /\ used[r] = None

\* TCPPortManager.Acquire, or UDPPortManager.Acquire, and net.Listen.  When the system
\* does not let it listen the port is given back.
AcquirePort(c) ==
  /\ Asks(c, "port")
  /\ \/ \E r \in Allowed(Next1(c).res) :
          /\ Acquirable(r)
          /\ reserved' = [reserved EXCEPT ![r] = proc[c].id]
          /\ used' = [used EXCEPT ![r] = proc[c].id]
          /\ HoldsOwn(c, r)
     \/ UNCHANGED <<used, reserved>> /\ RunFails(c)
  /\ UNCHANGED <<late, freedLate>>
  /\ UNCHANGED <<declared, natholes, table, groups, pxyTable, mine, portsUsed, history>>

\* Routers.Add for a proxy without a group.
AddRoute(c) ==
  /\ Asks(c, "route")
  /\ LET r == Next1(c).res
     IN IF used[r] = None
        THEN used' = [used EXCEPT ![r] = proc[c].id] /\ HoldsOwn(c, r)
        ELSE UNCHANGED used /\ RunFails(c)
  /\ UNCHANGED <<declared, ports, natholes, table, groups, pxyTable, mine, portsUsed, history>>

\* visitor.Manager.Listen: one secret listener for a name.
SecretListen(c) ==
  /\ Asks(c, "secret")
  /\ LET r == Next1(c).res
     IN IF used[r] = None
        THEN used' = [used EXCEPT ![r] = proc[c].id] /\ HoldsOwn(c, r)
        ELSE UNCHANGED used /\ RunFails(c)
  /\ UNCHANGED <<declared, ports, natholes, table, groups, pxyTable, mine, portsUsed, history>>

\* nathole ListenClient: the entry of the name is replaced without a look at it.
ListenClient(c) ==
  /\ Asks(c, "nathole")
  /\ LET n == proc[c].id[2]
     IN /\ natholes' = [natholes EXCEPT ![n] = proc[c].id]
        /\ displaced' = displaced \union ({natholes[n]} \ {None})
  /\ Advance(c, "nathole", Next1(c).res, None, None)
  /\ UNCHANGED <<declared, used, ports, table, groups, pxyTable, mine, portsUsed, stray,
                 unlistened>>

(* -------- groups -------- *)
Referenced(o) ==
  \/ \E i \in Indexes : table[i] = o
  \/ \E c \in Ctls : proc[c].found = o
  \/ groups[o].members # {}
  \/ o \in stray
Fresh == CHOOSE o \in Objs : ~Referenced(o)

\* The group is looked up, or created, under the lock of the controller's table.
LookUpGroup(c, how) ==
  /\ Asks(c, how)
  /\ LET i == GroupIndex(proc[c].conf, Next1(c))
         o == IF table[i] = None THEN Fresh ELSE table[i]
     IN /\ table[i] = None => \E q \in Objs : ~Referenced(q)
        /\ table' = [table EXCEPT ![i] = o]
        /\ groups' = IF table[i] = None THEN [groups EXCEPT ![o] = NewGroup] ELSE groups
        /\ proc' = [proc EXCEPT ![c].at = "join", ![c].found = o]
  /\ UNCHANGED <<declared, used, ports, natholes, pxyTable, mine, portsUsed, history>>

TCPGroupLookUp(c) == proc[c].conf # None /\ proc[c].conf.kind = "tcp" /\ LookUpGroup(c, "lnGroup")
TCPMuxGroupLookUp(c) == proc[c].conf # None /\ proc[c].conf.kind = "tcpmux" /\ LookUpGroup(c, "lnGroup")
HTTPGroupLookUp(c) == LookUpGroup(c, "httpGroup")

Joins(c, kind) == At(c, "join") /\ proc[c].conf.kind = kind

\* The member is added; an object that is not in the table any more becomes stray.
JoinGroup(c, res, real) ==
  LET o == proc[c].found
      i == GroupIndex(proc[c].conf, Next1(c))
  IN /\ groups' = [groups EXCEPT ![o].members = @ \union {<<proc[c].id, proc[c].next>>},
                                 ![o].key = proc[c].conf.groupKey,
                                 ![o].want = Next1(c).res, ![o].res = res, ![o].real = real]
     /\ stray' = IF table[i] = o THEN stray ELSE stray \union {o}
     /\ Advance(c, Next1(c).how, res, o, i)

\* A member that is not the first must ask for what the first asked for, with its key.
SameGroup(c) ==
  LET g == groups[proc[c].found]
  IN g.want = Next1(c).res /\ g.key = proc[c].conf.groupKey

\* TCPGroup.Listen.  The first member acquires a port r and listens, but on the port it was
\* asked for: with remote_port 0 that is another port q of the system's choice.  When
\* listening fails r stays acquired.  The object's acceptCh is made with the object only.
TCPGroupListen(c) ==
  /\ Joins(c, "tcp")
  /\ LET g == groups[proc[c].found]
     IN \/ /\ g.members = {}
           /\ \E r \in Allowed(Next1(c).res) :
                /\ Acquirable(r)
                /\ reserved' = [reserved EXCEPT ![r] = <<"group", proc[c].found>>]
                /\ \/ \E q \in Allowed(Next1(c).res) :
                        /\ used[q] = None
                        /\ used' = [used EXCEPT ![q] = <<"group", proc[c].found>>]
                        /\ JoinGroup(c, q, r) /\ UNCHANGED unlistened
                   \/ /\ unlistened' = unlistened \union {r}
                      /\ RunFails(c) /\ UNCHANGED <<used, groups, stray>>
        \/ /\ g.members = {}
           /\ RunFails(c) /\ UNCHANGED <<used, reserved, groups, stray, unlistened>>
        \/ /\ g.members # {} /\ SameGroup(c)
           /\ JoinGroup(c, g.res, g.real) /\ UNCHANGED <<used, reserved, unlistened>>
        \/ /\ g.members # {} /\ ~SameGroup(c)
           /\ RunFails(c) /\ UNCHANGED <<used, reserved, groups, stray, unlistened>>
  /\ UNCHANGED <<declared, late, freedLate, natholes, table, pxyTable, mine, portsUsed, displaced>>

\* TCPMuxGroup.HTTPConnectListen: the first member adds the route of the domain.
HTTPConnectListen(c) ==
  /\ Joins(c, "tcpmux")
  /\ LET g == groups[proc[c].found]
         r == Next1(c).res
     IN \/ /\ g.members = {} /\ used[r] = None
           /\ used' = [used EXCEPT ![r] = <<"group", proc[c].found>>]
           /\ JoinGroup(c, r, None)
        \/ /\ g.members # {} /\ SameGroup(c)
           /\ JoinGroup(c, r, None) /\ UNCHANGED used
        \/ /\ IF g.members = {} THEN used[r] # None ELSE ~SameGroup(c)
           /\ RunFails(c) /\ UNCHANGED <<used, groups, stray>>
  /\ UNCHANGED <<declared, ports, natholes, table, pxyTable, mine, portsUsed, unlistened,
                 displaced>>

Named(o, n) == {l \in groups[o].members : l[1][2] = n}

\* HTTPGroup.Register: as above, and members are told apart by name.
HTTPGroupRegister(c) ==
  /\ Joins(c, "http")
  /\ LET g == groups[proc[c].found]
         r == Next1(c).res
     IN \/ /\ g.members = {} /\ used[r] = None
           /\ used' = [used EXCEPT ![r] = <<"group", proc[c].found>>]
           /\ JoinGroup(c, r, None)
        \/ /\ g.members # {} /\ SameGroup(c) /\ Named(proc[c].found, proc[c].id[2]) = {}
           /\ JoinGroup(c, r, None) /\ UNCHANGED used
        \/ /\ IF g.members = {} THEN used[r] # None
              ELSE ~SameGroup(c) \/ Named(proc[c].found, proc[c].id[2]) # {}
           /\ RunFails(c) /\ UNCHANGED <<used, groups, stray>>
  /\ UNCHANGED <<declared, ports, natholes, table, pxyTable, mine, portsUsed, unlistened,
                 displaced>>

(* -------- the name, and the end of RegisterProxy -------- *)
\* pxyManager.Add and the entry in ctl.proxies; when the name is taken the proxy is closed.
AddName(c) ==
  /\ At(c, "run") /\ ~More(c)
  /\ LET me == proc[c].id
     IN IF pxyTable[me[2]] = None
        THEN /\ pxyTable' = [pxyTable EXCEPT ![me[2]] = me]
             /\ mine' = [mine EXCEPT ![c] = @ \union
                           {[id |-> me, conf |-> proc[c].conf, held |-> proc[c].held]}]
             /\ proc' = [proc EXCEPT ![c] = Idle]
        ELSE /\ Goto(c, "undo") /\ UNCHANGED <<pxyTable, mine>>
  /\ UNCHANGED <<declared, resources, portsUsed, history>>

\* Faulty variant: the name is deleted with the refused proxy.
RefusedDropsName(c) ==
  /\ At(c, "undo") /\ proc[c].held = {}
  /\ pxyTable' = [pxyTable EXCEPT ![proc[c].id[2]] = None]
  /\ portsUsed' = [portsUsed EXCEPT ![c] =
                     IF Counts THEN @ - UsedPortsNum(proc[c].conf) ELSE @]
  /\ proc' = [proc EXCEPT ![c] = Idle]
  /\ UNCHANGED <<declared, resources, mine, history>>

\* RegisterProxy returns the error after the deferred calls.
Refused(c) ==
  /\ At(c, "undo") /\ proc[c].held = {}
  /\ portsUsed' = [portsUsed EXCEPT ![c] =
                     IF Counts THEN @ - UsedPortsNum(proc[c].conf) ELSE @]
  /\ displaced' = displaced \ {proc[c].id}
  /\ proc' = [proc EXCEPT ![c] = Idle]
  /\ UNCHANGED <<declared, resources, pxyTable, mine, stray, unlistened>>

(***************************************************************************)
(* Close of a proxy, one resource at a time.                               *)
(***************************************************************************)
\* The resource that is given back next.
Closing(c, k) ==
  /\ proc[c].at \in {"undo", "close", "stopClose"}
  /\ k \in proc[c].held /\ \A q \in proc[c].held : k.nr <= q.nr
Dropped(c, k) == proc' = [proc EXCEPT ![c].held = @ \ {k}]

\* Listener.Close and Release of a port, Routers.Del, visitor.Manager.CloseListener.  The
\* goroutine that reads from the socket of a UDP proxy ends then and calls Close once more.
CloseOwn(c, k) ==
  /\ Closing(c, k) /\ k.how = "own"
  /\ used' = [used EXCEPT ![k.res] = None]
  /\ reserved' = IF IsPort(k.res) THEN [reserved EXCEPT ![k.res] = None] ELSE reserved
  /\ late' = IF k.res[1] = "udp" THEN late \union {k.res} ELSE late
  /\ freedLate' = freedLate \ {k.res}
  /\ Dropped(c, k)
  /\ UNCHANGED <<declared, natholes, table, groups, pxyTable, mine, portsUsed, history>>

\* UDPProxy.Close for the second time: it finds isClosed set and releases the port all the
\* same, whoever has it now.  late does not count how many are to come, so one may be left.
LateRelease(r) ==
  /\ r \in late
  /\ reserved' = [reserved EXCEPT ![r] = None]
  /\ late' \in {late, late \ {r}}
  /\ freedLate' = IF used[r] = None THEN freedLate ELSE freedLate \union {r}
  /\ UNCHANGED <<declared, used, natholes, table, groups, pxyTable, mine, portsUsed, proc,
                 history>>

\* nathole CloseClient deletes the entry of the name, whoever made it.
CloseClient(c, k) ==
  /\ Closing(c, k) /\ k.how = "nathole"
  /\ LET n == proc[c].id[2]
     IN /\ natholes' = [natholes EXCEPT ![n] = None]
        /\ displaced' = displaced \union ({natholes[n]} \ {None, proc[c].id})
  /\ Dropped(c, k)
  /\ UNCHANGED <<declared, used, ports, table, groups, pxyTable, mine, portsUsed, stray,
                 unlistened>>

\* The last member of an object whose acceptCh is closed closes it again: a panic, which
\* RegisterProxy and stoper do not stop.  A refused proxy is forgotten with all it holds;
\* CloseProxy leaves ctl.mu locked, and stoper the proxies it did not get to.
Panics(c, k) ==
  IF At(c, "undo")
  THEN /\ proc' = [proc EXCEPT ![c] = [Idle EXCEPT !.at = "stop"]]
       /\ portsUsed' = [portsUsed EXCEPT ![c] =
                          IF Counts THEN @ - UsedPortsNum(proc[c].conf) ELSE @]
       /\ stray' = stray \union {q.obj : q \in proc[c].held}
  ELSE /\ proc' = [proc EXCEPT ![c].at = IF At(c, "close") THEN "wedged" ELSE "halfClosed",
                               ![c].held = @ \ {k}]
       /\ UNCHANGED <<portsUsed, stray>>

Others(c, k) == groups[k.obj].members \ {<<proc[c].id, k.nr>>}

\* Faulty variant: the port is not released with the last listener.
TCPCloseListenerKeepsPort(c, k) ==
  /\ Closing(c, k) /\ k.how = "lnGroup" /\ proc[c].conf.kind = "tcp"
  /\ IF Others(c, k) # {}
     THEN groups' = [groups EXCEPT ![k.obj].members = Others(c, k)] /\ UNCHANGED table
     ELSE /\ groups' = [groups EXCEPT ![k.obj].members = {}, ![k.obj].closed = TRUE]
          /\ table' = [table EXCEPT ![k.index] = None]
  /\ Dropped(c, k)
  /\ UNCHANGED <<declared, used, ports, natholes, pxyTable, mine, portsUsed, history>>

\* TCPGroupListener.Close and TCPMuxGroupListener.Close: the last listener closes acceptCh
\* and the shared listener, releases the port or the route, and removes the group.
CloseGroupListener(c, k, kind, tableAfter) ==
  /\ Closing(c, k) /\ k.how = "lnGroup" /\ proc[c].conf.kind = kind
  /\ LET o == k.obj
     IN \/ /\ Others(c, k) # {}
           /\ groups' = [groups EXCEPT ![o].members = Others(c, k)]
           /\ Dropped(c, k) /\ UNCHANGED <<used, reserved, table, portsUsed, stray>>
        \/ /\ Others(c, k) = {} /\ ~groups[o].closed
           /\ groups' = [groups EXCEPT ![o].members = {}, ![o].closed = TRUE]
           /\ used' = [used EXCEPT ![groups[o].res] = None]
           /\ reserved' = IF groups[o].real = None THEN reserved
                          ELSE [reserved EXCEPT ![groups[o].real] = None]
           /\ table' = tableAfter
           /\ Dropped(c, k) /\ UNCHANGED <<portsUsed, stray>>
        \/ /\ Others(c, k) = {} /\ groups[o].closed
           /\ groups' = [groups EXCEPT ![o].members = {}]
           /\ Panics(c, k) /\ UNCHANGED <<used, reserved, table>>
  /\ UNCHANGED <<declared, late, freedLate, natholes, pxyTable, mine, unlistened, displaced>>

\* Faulty variant: the group stays in the controller's table.
TCPMuxCloseListenerKeepsGroup(c, k) == CloseGroupListener(c, k, "tcpmux", table)

RemoveGroup(k) == [table EXCEPT ![k.index] = None]
TCPCloseListener(c, k) == CloseGroupListener(c, k, "tcp", RemoveGroup(k))
TCPMuxCloseListener(c, k) == CloseGroupListener(c, k, "tcpmux", RemoveGroup(k))

\* HTTPGroupController.UnRegister finds the group by its index, and the member by its name.
UnRegister(c, k) ==
  /\ Closing(c, k) /\ k.how = "httpGroup"
  /\ LET o == table[k.index]
         left == groups[o].members \ Named(o, proc[c].id[2])
     IN \/ o = None /\ UNCHANGED <<used, table, groups>>
        \/ /\ o # None /\ left # {}
           /\ groups' = [groups EXCEPT ![o].members = left]
           /\ UNCHANGED <<used, table>>
        \/ /\ o # None /\ left = {}
           /\ groups' = [groups EXCEPT ![o].members = {}]
           /\ used' = IF groups[o].res = None THEN used
                      ELSE [used EXCEPT ![groups[o].res] = None]
           /\ table' = [table EXCEPT ![k.index] = None]
  /\ Dropped(c, k)
  /\ UNCHANGED <<declared, ports, natholes, pxyTable, mine, portsUsed, history>>

(* -------- CloseProxy and the end of a control -------- *)
\* Faulty variant: the ports of the proxy are not given back to the client's account.
CloseProxyKeepsCount(c) ==
  /\ At(c, "idle")
  /\ \E m \in mine[c] :
       proc' = [proc EXCEPT ![c] = [Idle EXCEPT !.at = "close", !.id = m.id,
                                      !.conf = m.conf, !.held = m.held]]
  /\ UNCHANGED <<declared, resources, pxyTable, mine, portsUsed, history>>

CloseProxy(c) ==
  /\ At(c, "idle")
  /\ \E m \in mine[c] :
       /\ portsUsed' = [portsUsed EXCEPT ![c] = IF Counts THEN @ - UsedPortsNum(m.conf) ELSE @]
       /\ proc' = [proc EXCEPT ![c] = [Idle EXCEPT !.at = "close", !.id = m.id,
                                         !.conf = m.conf, !.held = m.held]]
  /\ UNCHANGED <<declared, resources, pxyTable, mine, history>>

\* pxyManager.Del by name, and delete from ctl.proxies.
Closed(c) ==
  /\ proc[c].at \in {"close", "stopClose"} /\ proc[c].held = {}
  /\ pxyTable' = [pxyTable EXCEPT ![proc[c].id[2]] = None]
  /\ mine' = [mine EXCEPT ![c] = {m \in @ : m.id # proc[c].id}]
  /\ displaced' = displaced \ {proc[c].id}
  /\ proc' = [proc EXCEPT ![c] =
                [Idle EXCEPT !.at = IF At(c, "close") THEN "idle" ELSE "stop"]]
  /\ UNCHANGED <<declared, resources, portsUsed, stray, unlistened>>

\* The connection is lost or replaced; the manager returns between two messages.
ManagerReturns(c) ==
  /\ At(c, "idle")
  /\ Goto(c, "stop")
  /\ UNCHANGED <<declared, resources, pxyTable, mine, portsUsed, history>>

\* stoper closes the proxies, in the order of a Go map.
StopNext(c) ==
  /\ At(c, "stop")
  /\ IF mine[c] = {} THEN Goto(c, "ended")
     ELSE \E m \in mine[c] :
            proc' = [proc EXCEPT ![c] = [Idle EXCEPT !.at = "stopClose", !.id = m.id,
                                           !.conf = m.conf, !.held = m.held]]
  /\ UNCHANGED <<declared, resources, pxyTable, mine, portsUsed, history>>

ControlStep(c) ==
  \/ Register(c) \/ AcquirePort(c) \/ AddRoute(c) \/ SecretListen(c) \/ ListenClient(c)
  \/ TCPGroupLookUp(c) \/ TCPMuxGroupLookUp(c) \/ HTTPGroupLookUp(c)
  \/ TCPGroupListen(c) \/ HTTPConnectListen(c) \/ HTTPGroupRegister(c)
  \/ AddName(c) \/ Refused(c)
  \/ \E k \in proc[c].held :
       \/ CloseOwn(c, k) \/ CloseClient(c, k) \/ UnRegister(c, k)
       \/ TCPCloseListener(c, k) \/ TCPMuxCloseListener(c, k)
  \/ CloseProxy(c) \/ Closed(c) \/ ManagerReturns(c) \/ StopNext(c)

Next == (\E c \in Ctls : ControlStep(c)) \/ (\E r \in late : LateRelease(r))

Spec == Init /\ [][Next]_vars

(***************************************************************************)
(* Properties.                                                             *)
(***************************************************************************)
\* What an instance holds now, also while Run is collecting or Close releasing it.
HeldBy(id) ==
  IF proc[id[1]].id = id THEN proc[id[1]].held
  ELSE UNION {m.held : m \in {x \in mine[id[1]] : x.id = id}}

\* Whatever fails and in whatever order controls come and go, a port, a route or a secret
\* listener is taken, and a port is reserved, only while some proxy has it: every path of
\* RegisterProxy, CloseProxy and stoper gives it back, and a NAT-hole entry leads to a proxy
\* that exists.  The two departures: a reserved port whose group could not listen
\* (group/tcp.go:104) and what was taken by an object that had left the table
\* (group/tcp.go:57, group/http.go:39) or was held by a refused proxy when its close panicked.
NothingLeaks ==
  /\ \A r \in Resources :
       LET h == used[r]
       IN CASE h = None -> TRUE
            [] h \in {"group"} \X Objs ->
                 \/ h[2] \in stray
                 \/ groups[h[2]].members # {} /\ groups[h[2]].res = r
                    /\ \A l \in groups[h[2]].members :
                         \E k \in HeldBy(l[1]) : k.nr = l[2] /\ k.obj = h[2] /\ k.res = r
            [] h \in Ids -> \E k \in HeldBy(h) : k.how = "own" /\ k.res = r
  /\ \A r \in Resources \ unlistened :
       LET h == reserved[r]
       IN CASE h = None -> TRUE
            [] h \in {"group"} \X Objs ->
                 \/ h[2] \in stray
                 \/ groups[h[2]].members # {} /\ groups[h[2]].real = r
            [] h \in Ids -> \E k \in HeldBy(h) : k.how = "own" /\ k.res = r
  /\ \A n \in ConfNames :
       natholes[n] # None => \E k \in HeldBy(natholes[n]) : k.how = "nathole"

\* The group was asked for any port: it listens on one and advertises another.
AskedAny(o) == groups[o].want[2] = "any"

\* A proxy that the client believes registered owns its name and is reached through every
\* resource it was promised, until its close begins: nobody else's failed registration or
\* close takes it away, nor the reservation of its port.  Departures: members of an object
\* that had left the table; XTCP proxies whose entry a second one of the name replaced
\* (proxy/xtcp.go:41, 93); groups on any port, which do not listen on the port they
\* advertise (group/tcp.go:100, 104); and the reservation, not the socket, of a UDP port that
\* an earlier proxy's second Close has released (proxy/udp.go:216, 242).
RegisteredIsServed ==
  \A c \in Ctls : \A m \in mine[c] : proc[c].id # m.id =>
    /\ pxyTable[m.id[2]] = m.id
    /\ \A k \in m.held :
         CASE k.how = "own" ->
                /\ used[k.res] = m.id
                /\ IsPort(k.res) => reserved[k.res] = m.id \/ k.res \in freedLate
           [] k.how = "nathole" -> natholes[m.id[2]] = m.id \/ m.id \in displaced
           [] OTHER -> \/ k.obj \in stray
                       \/ /\ <<m.id, k.nr>> \in groups[k.obj].members /\ ~groups[k.obj].closed
                          /\ used[k.res] = <<"group", k.obj>> /\ table[k.index] = k.obj
                          /\ IsPort(k.res) =>
                               /\ reserved[groups[k.obj].real] = <<"group", k.obj>>
                               /\ groups[k.obj].real = k.res \/ AskedAny(k.obj)

\* max_ports_per_client counts exactly the ports of the registered proxies and of the one
\* being registered, through refusals at any step (control.go:505-522, 553).
PortsUsedExact ==
  \A c \in Ctls :
    Counts /\ proc[c].at \in {"idle", "run", "join", "undo", "close"} =>
      portsUsed[c] =
        Cardinality({m \in mine[c] : m.id # proc[c].id /\ UsedPortsNum(m.conf) = 1})
        + (IF proc[c].at \in {"run", "join", "undo"} THEN UsedPortsNum(proc[c].conf) ELSE 0)

\* A control is left with ctl.mu locked, or with proxies it never closes, only after a
\* member joined an object that had left the table: without that race no close panics
\* (close(tg.acceptCh), group/tcp.go:174 and group/tcpmux.go:170).
PanicNeedsStray ==
  \A c \in Ctls : proc[c].at \in {"wedged", "halfClosed"} => stray # {}
=============================================================================
