# frp: a TLA+ verification project

This directory specifies the core of frp (`src/frp`), a reverse proxy: a server
`frps` with a public address, clients `frpc` behind NAT, and *proxies*, names under
which a client publishes a local service. The repository also holds an Android
wrapper (`src/app`) that runs `frpc` as a library.

The modules are written from the Go source. They model control: every state change,
guard, early return, lock, channel operation and error path of the code they map;
contents of messages, names and payloads are model values. `PROJECT.json` maps each
definition to its source lines.

## 1. The system

### Parts, state and interaction

| Part | Source | State | Operations |
|---|---|---|---|
| Control sessions | `server/control.go`, `server/service.go` | registry run id -> Control; per Control: sendCh, readCh, workConnCh, four shutdown latches, proxies, lastPing | login (RegisterControl), Start, writer, reader, manager, stoper, Replaced, Del |
| Work connection pool | `server/control.go`, `server/proxy/proxy.go` | workConnCh | RegisterWorkConn, GetWorkConn, GetWorkConnFromPool, drain |
| Port manager | `server/ports/ports.go` | free, used, reserved ports | Acquire, Release, cleaning |
| Proxies of the server | `server/proxy/*.go` | name table, listeners, ports, routes | RegisterProxy, Run, Close |
| Groups | `server/group/*.go` | members, shared listener and accept channel or route | Listen/Register, CloseListener/UnRegister |
| Virtual hosts | `pkg/util/vhost`, `pkg/util/tcpmux` | routes, listeners | Add, Del, Get, handle |
| Visitors, NAT hole | `server/visitor`, `pkg/nathole` | secret listeners; UDP hole sessions | Listen, NewConn; HandleVisitor, HandleClient |
| UDP forwarding | `pkg/proto/udp`, `server/proxy/udp.go` | read/send channels, current work connection | read, send, replace, Close |
| Client service, control | `client/service.go`, `client/control.go` | current control, exit flag, channels | login, keepControllerWorking, worker, msgHandler, Close |
| Client proxies | `client/proxy/*.go`, `client/health` | wrapper phase, health, timers; per-type connections | checkWorker, SetRunningStatus, Stop, Reload, checks, InWorkConn |
| Client visitors | `client/visitor*.go` | configured and running visitors | Run, Reload, Close, handleConn |
| Configuration | `pkg/config`, `client/admin_api.go` | the file; what runs | load, check, compare, marshal, get/put/reload |
| Metrics | `pkg/metrics`, `pkg/util/metric` | counters by day | Inc, Dec, rotate, clear |
| Auth, plugins, TLS, dashboard, CLI | `pkg/auth`, `pkg/plugin`, ... | mostly none | verification, HTTP handlers |

How they interact. A client logs in over a control connection; `frps` makes a Control
with goroutines writer, reader, manager and stoper. The client's wrappers send NewProxy
and CloseProxy; the manager registers the proxy (port manager, groups, routers, name
table) and answers NewProxyResp. A user who connects to a proxy makes its handler take
a work connection from the Control's pool, or ask the client for one with ReqWorkConn;
the client dials back with NewWorkConn and the two connections are joined. A *visitor*
is another client that reaches a secret proxy through `frps` (STCP, SUDP) or through a
hole in both NATs (XTCP). A client that reconnects logs in with the run id it was given,
which replaces its old Control. A failed health check withdraws a proxy; a reload
replaces proxies and visitors whose configuration changed.

### What makes it hard

Goroutines that block on bounded channels and on one another's latches; channels that
are closed under senders; `panic`/`recover` used as control flow; logins that overtake
shutdowns; checks made before, and acted on after, a lock or a system call; messages
matched by name only; timers that race answers; several steps of which one fails;
eight types of proxy that repeat the same code by hand. `PROJECT.json` lists each such
hazard at its line with the property that covers it.

### What makes each part correct

* Sessions: sessions of one run id take turns; the newest login is the registered one; a
  shutdown ends, releases names and wakes the login that waits for it, unless the control
  hangs in a way that is named; no send on a closed channel outside a recover.
* Pool: a connection has one owner; none is stranded; a user connection gets a
  connection to which StartWorkConn was written, or an error.
* Ports: free and used ports partition the allowed ones; failures give a port back.
* Resources of proxies: whatever fails, what no proxy has is free again; what a proxy was
  promised it keeps until it is closed; the count of ports is exact.
* Client proxies: what the client withdrew leaves the server; both sides agree when
  nothing is under way; errors are retried.
* Tunnels: made or broken as a whole; a user gets the service or is disconnected; no
  goroutine waits for ever for a datagram that is lost.
* Client service: sessions do not overlap; a reload reaches the session in place; Close
  leaves nothing running.
* Configuration: what runs is what the file says, on both sides. Routers: the most
  specific route answers.

## 2. Modules

```
PortManager      <- MCPortManager, PortManagerProofs
SessionRegistry  (what is promised about logins)
ServerControl    -- implements SessionRegistry;  <- MCServerControl, ServerControlProofs
WorkConnPool     <- MCWorkConnPool, WorkConnPoolProofs
ProxyResources   <- MCProxyResources, ProxyResourcesProofs
ProxyTurns       (what is promised about the configurations of a proxy)
ClientProxy      <- ClientProxyTurns -- implements ProxyTurns;  <- ClientProxyProofs
ControlLife      (what the service knows of a control)
ClientControl    -- implements ControlLife;     <- MCClientControl, ClientServiceProofs
ClientService    -- each control lives like it; <- MCClientService, ClientServiceProofs
UdpProxy         <- ClientProxyProofs
Tunnel, NatHole, SudpVisitor            <- MCVisitors <- VisitorProofs
ProxyConfig, ConfigFile, VhostRouter    <- Tables <- MCTables, TableProofs
```

A module defines state, `Init`, one action per operation, `Next`, `Spec`, the fairness, and
then its properties. An `MC` module adds the symmetry sets for TLC, the situations it starts
from, or the order in which interchangeable things are used (`OrderedSpec`). MCVisitors and
Tables each put three independent modules into one run: the variable `part` says which of them
a behaviour belongs to, and the others do not change. Definitions marked *Faulty variant* are
plausible bugs, not part of `Next`: substituting one for the action it precedes makes the
property named with it in `PROJECT.json` fail, which shows that the property depends on the
code.

Where a module overlaps another, the detail is in one of them: a step that is an action in
one module and a choice in another says so in the header of the latter.

**PortManager.** `freePorts`, `usedPorts`, `reservedPorts` are the maps of the Go
Manager. A PortCtx is shared by pointer between the last two; `SameCtx` says when two
entries are the same object. `Acquire` is split into `AcquireLock`, the probing of
candidates (`ProbeOpen`, `ProbeBusy`), `AcquireOK` and `AcquireErr`, all under the mutex
`mu`, because the probe binds a real socket that other proxies and programs can observe;
`sock` is the operating system's view. `Listen` and `Release` are the calls of
TCPProxy and UDPProxy (`Udp` selects the kind, with its double Release).

**ServerControl.** `svc`, `writer`, `reader`, `mgr`, `stoper` are the positions of the
goroutines; the latches of `shutdown.Shutdown` are functions of those positions. Channels are
their lengths; the kind of a message is chosen when it is received. The registry, `Replaced`,
the wait for the old control and the late `Del` are as in `RegisterControl`. `pxy.Close()` may
panic, for reasons that are in ProxyResources: `ManagerPanics` ends the manager and may leave
`ctl.mu` locked (`muHeld`), `StoperPanics` ends the stoper before it reports the end. `pxys` is
the server's name table. `SessionStatus` maps a control to a session of **SessionRegistry**,
which says: sessions of one run id take turns in the order of their logins.
`ImplementsRegistry` is that specification under the mapping.

**WorkConnPool.** Follows work connections as objects through the channel of one
control. The positions of a user connection are those of `GetWorkConn` inside
`GetWorkConnFromPool`; "lost" is a connection that neither side closes. `sendCh` is a
length. The manager (`mgr`) answers into it, and stoper closes it when the manager has ended;
what the manager answers to is ServerControl's business.

**ProxyResources.** A control is one sequential process (`proc`) that walks through Run, the
registration of the name, or Close, one resource at a time; several controls interleave
wherever a lock is given up. `used` says who has a port, a route or a secret listener; group
objects (`groups`) are apart from the controllers' tables (`table`), because a look-up and the
call on what it found are two critical sections: an object that gets a member after it left the
table is in `stray`. What the port manager has given out (`reserved`) is apart from what is
bound (`used`): a group has a port it reserved and advertises (`real`) and one it listens on
(`res`). The second Release of a closed UDP proxy comes whenever its reader wakes (`late`);
ports in use that it has freed are in `freedLate`. Panics are followed to where they are
recovered, with the locks they leave behind ("wedged", "halfClosed").

**ClientProxy.** One proxy name over one control connection: successive wrappers of it
(each reload makes one), the health monitor, the FIFO channels to and from the server
and the server's register/close. A round of `checkWorker` reads `health` without the
lock (`LoadHealth`) and acts under it. `handling` is the answer between the look-up of
the wrapper and `SetRunningStatus`. `mixed` is a history variable: an answer was taken
while another one was due. **ProxyTurns** says what successive configurations of a proxy
may expect on the server: they take turns in the order in which they were loaded, and what
is gone never runs again. **ClientProxyTurns** adds the history variable `before` (the
wrappers loaded before each) and the mapping: a wrapper is `Gone` when it is closed, the
server does not run it, and no NewProxy for it is under way; what `registered` holds runs.

**ClientControl.** Reader, message handler, writer and worker of frpc's control over two
bounded channels, `Close` and `ReloadConf` in goroutines of their callers, and the check loops
of the proxies. `wrapper` and `pm` say who holds the mutex of each wrapper and that of their
manager: both are held while somebody waits for room in sendCh, and the handler needs them for
a NewProxyResp. Seen from the service it lives as **ControlLife** says: up, lost, proxies
closed, ended, or it hangs; that both modules keep to it is proved.

**ClientService.** The keeper of connections, reloads and `Close` over successive
controls, each with its visitor manager. The requests of the admin API (`Admins`) run
concurrently: each stores its configuration under `cfgMu`, then takes `svr.ctl` and applies
it to that control, which may be replaced meanwhile. `crossed` records that the last reload
overlapped another one or a login, `stray` and `lateClose` that a visitor was started or
Close was called at such a moment. The first login may end the service (`FirstLoginFails`).

**UdpProxy.** Both ends of a UDP proxy over work connections that break: the server's
loop with its reader and ForwardUserConn, and the client's `InWorkConn`, which runs once
per connection in a goroutine of its own.

**Tunnel.** A user connection through an STCP visitor and proxy: four links, the three
goroutines that join them pairwise, the registration of the visit and of the work
connection. Any link may end at any time, anything may be refused or time out.

**NatHole.** The visitor, the controller, the proxy's goroutine and the client, over a
network (`net`) that loses, delays, reorders and repeats datagrams.

**SudpVisitor.** The visitor's dispatcher and the two goroutines of its worker, with
`getNewVisitorConn`, ForwardUserConn and Close; the three goroutines of the client for
each tunnel. `link` may fall silent without anybody noticing.

**ProxyConfig.** A table of the fields of each type and of what its methods do with them;
a behaviour edits one section and reloads. **ConfigFile.** The file as rows, the editor of
the admin API, ranges. **VhostRouter.** The operations of Routers on a table kept as
lists, and the look-ups, beside the set of routes that were added. `SortReverse` says what
`sort.Sort` returns and not how; locations of one domain differ, so there is one result.

## 3. Runs

| Run | Module | Checks | Distinct states |
|---|---|---|---|
| `ports` | PortManager | PortsPartitioned, NoPortLeak | 1.5 million |
| `control_replace` | ServerControl | NamesOwnedByLive, LatestIsRegistered, NoSendOnClosed, WrongRunIDOnlyIfSuperseded, ImplementsRegistry | 957 thousand |
| `control_shutdown` | ServerControl | ShutdownEndsOrHangs, LoginStartsOrHangs, SilentClientCollected | 65 thousand |
| `control_wedge` | ServerControl | ReplacementStarts: **violated** (finding) | |
| `work_conns` | WorkConnPool | OneOwner, NothingStranded, JoinedIsStartedOrExhausted, UserAnswered | 174 thousand |
| `resources` | ProxyResources | NothingLeaks, RegisteredIsServed, PortsUsedExact, PanicNeedsStray | 154 thousand |
| `client_proxy` | ClientProxyTurns | WithdrawnIsClosed, QuietMeansAgreement, UnhealthyIsRemovedUnlessMixed, HealthyRuns, ImplementsTurns | 50 thousand |
| `client_control` | ClientControl | ControlEnds | 59 thousand |
| `client_service` | ClientService | OneConnected, ReloadReaches, VisitorComesUp, CloseEndsService | 244 thousand |
| `udp` | UdpProxy | BrokenIsReplaced, ClosedProxyEnds | 132 thousand |
| `visitors` | Tunnel, NatHole, SudpVisitor | OnlyOvertaken, TunnelCollapses, UserServed; HoleAgrees, HoleEnds; SudpEnds | 46 thousand |
| `tables` | ProxyConfig, ConfigFile, VhostRouter | ReloadRunsTheFile, BothSidesAgree; LoadedAsWritten; AnswersMostSpecific | 1.3 million |

The type invariants of PortManager, ServerControl, WorkConnPool and ClientProxy are proved
(section 4), as are OneLiveControl, ExclusivePorts and the NoSendOnClosed of ClientControl,
which no run repeats.

**What the code departs from.** `control_wedge` is the finding: a control whose writer died
with a full sendCh never finishes its shutdown, and a login with its run id waits for ever; so
does a user connection with a ReqWorkConn to send. The other departures are stated as named
exceptions in the properties, so that the runs show that there are no further ones:

* ShutdownEndsOrHangs, LoginStartsOrHangs, SilentClientCollected (`Hung`): a control is also
  left for ever when `pxy.Close()` panics. In stoper the recover skips
  `allShutdown.Done` (`server/control.go:378-383`); in CloseProxy `ctl.mu` stays locked
  (556), and the stoper waits for it (369).
* UserAnswered (`HangsAtSend`): `server/control.go:252` sends without a timeout.
* JoinedIsStartedOrExhausted: the error of the last failed StartWorkConn is shadowed
  (`server/proxy/proxy.go:124`), so the caller continues with a closed connection, although
  line 141 logs that it "failed in the end".
* UnhealthyIsRemovedUnlessMixed, QuietMeansAgreement (`mixed`): NewProxyResp names no
  request (`client/proxy/proxy_wrapper.go:102`). Of two unanswered NewProxy, refused and
  accepted in this order, a registered proxy is left in "start error", which no
  failed health check withdraws (`README.md:712` says it is removed). `failedTimes` is never reset
  (`client/health/health.go:117`): failures need not be "in a row", as the same line says.
* NothingLeaks (`unlistened`, `stray`): the port of a group whose listen fails is not
  given back (`server/group/tcp.go:105`); what is taken by a group object that had left
  the table is not found again (`tcp.go:57`, `http.go:39`). RegisteredIsServed (`displaced`):
  a second XTCP proxy of the same name replaces and then deletes the first one's entry;
  (`AskedAny`) a TCP group on port 0 reserves and advertises one port (`tcp.go:100`) and listens on
  another, which the system picks (104); (`freedLate`) the second Release of a UDP proxy
  frees the reservation of whoever has the port by then (`server/proxy/udp.go:216, 242`).
  PanicNeedsStray: the close of such an orphan panics, and CloseProxy leaves the control's
  mutex locked (`server/control.go:556`).
* ReloadReaches (`crossed`): a reload that crosses a login is lost
  (`client/service.go:308`), and of two that overlap the one stored first may be applied last
  (302-308). CloseEndsService (`lateClose`): so is a Close (312).
  VisitorComesUp (`stray`): a manager that starts a visitor after its Close keeps the port.
* ControlEnds (`Hung`): frpc's control hangs, and frpc does not log in again, although "reader
  and writer and handler will exit" (`client/control.go:348`). Either nobody takes from a full
  sendCh, and the handler waits for room in it (`client/control.go:317`,
  `client/proxy/proxy_wrapper.go:115`) or for the mutex of a wrapper or of the manager that
  somebody holds who waits for room (`proxy_wrapper.go:100`, `proxy_manager.go:44`); or the
  handler has ended and the reader waits for room in readCh (261); or SetPing failed (313) and
  nobody notices that the connection is silent.
* ClosedProxyEnds (`late`, `reopened`, `overlapped`, and the panic of ForwardUserConn on a
  closed channel, `~Alive`): connections of a UDP proxy that nobody closes. SudpEnds: the
  same panic, and the connections that `getNewVisitorConn` forgets.
* OnlyOvertaken (`overtaken`): bytes of a service that speaks first may come before
  NewVisitorConnResp (`server/service.go:358`), and the visitor disconnects the user.
* HoleAgrees (`mistaken`): the visitor takes the client's detect message for the
  acknowledgement it waits for (`client/visitor.go:284`).
* TunnelCollapses (`leak`): a connection whose SetNewWorkConn fails is not closed
  (`client/control.go:146`).
* Met while modelling and not a property of a run: a reservation of a port can be overwritten
  between another proxy's Acquire and its Listen (`server/ports/ports.go:84`) and is then never
  cleaned. A custom domain such as a.xf.com is refused under subdomain_host f.com, because
  CheckForSvr looks for the text and not for the labels (`README.md:840`).
  `CloseNotifyConn.Close` calls itself and never closes the connection it wraps
  (`pkg/util/net/conn.go:142`).

**Bounds.** Three logins are the smallest number in which a waiting control is itself replaced,
and in which a late Del meets two newer controls; one name shows whether it is handed on.
Channels of capacity 1 or 2 fill and drain as larger ones do; sends block at any capacity, so a
larger one only delays the blocked states. Two users and three connections on a pool of two
reach a full pool, an empty pool, a retry and a drain that races a take. Two ports with three
proxies force contention and refusal. Two wrappers and `MaxInFlight = 2` allow an answer to the
first wrapper to reach the second; `MaxInFlight` bounds only NewProxy messages that are
unanswered. `failedTimes` saturates at `MaxFailed`, where the code only compares. The eight
menus of MCProxyResources are the pairs of clients that compete for each kind of resource, with
at most two declared proxies each, one of them enough to fail half-way; four group objects
(`Objs`) are never all in use (`Fresh` would fail), and `MaxPortsPerClient = 1` refuses the
second port. In `control_shutdown` two logins share a name, so that a panic of its Close can
come in the manager and in stoper. Two controls and two requests show every order of login and
overlapping reloads; a third login repeats the second. The second reload and Close do not come
in one behaviour (`ReloadsOrCloses`): Close looks at no configuration. In `client_control` the
channels hold one message, one of two wrappers runs from the start, and a reload stops only
that one, before Close is called (`FewReloads`); the other one shows who waits for whom over
the manager's mutex. Two work connections (`Conns`), and two tunnels (`MaxTunnels`), are the
broken one and its replacement. Tunnel and NatHole follow one user; other users appear as what
keeps a goroutine busy. Three edits of a section (`MaxEdits`) make it invalid and valid again
between two reloads; two edits of a file (`MaxFileEdits`) put a section over a proxy of its
range, past the range's end or into the list of those to start, or break one of its texts; the
routes are two wildcards over one host, with locations that are prefixes of one another, at
most four (`MaxRoutes`) at a time. Symmetry is used only in runs without liveness properties.

**Deadlock** is checked in `ports`. In the others the system really stops: all the logins
of the instance have ended, all connections are used up, all wrappers, controls or
visitors are closed, the user was served, or all edits were made.

**Fairness.** A goroutine that can take a step takes it (weak fairness per goroutine); a
goroutine blocked on a Go channel, or on a mutex while it holds another one, is served in FIFO
order (strong fairness of that step). Deadlines and timers expire; dials and registrations end.
Writes to a live peer complete, except where a module lets a connection fall silent ("mute"),
where they wait until the network reports an error. A reader notices a connection that its own
side closed but need not notice a lost peer; a silent client's heartbeat expires. The network
delivers nothing in NatHole. Users, clients, services, reloads, Close and other programs owe
nothing; a Close that has begun goes on, but nobody who closes or reloads the proxies of a
control that hangs need come back. ClientService assumes that a server lets the keeper in in
the end and that a port free time and again is bound in the end. `HealthyRuns` has as its
antecedent (`Accepting`) that the server and the plugin do not refuse for ever. In `work_conns`
a writer that ends starts the shutdown, so that an idle manager ends, and stoper closes sendCh
after it; nothing is supposed of a manager that stands at a full sendCh.

## 4. Proofs

TLAPS proves, for every value of the constants allowed by the named assumptions:

* `PortManagerProofs`: `PortAccounting` (TypeOK, PortsPartitioned) and `UsedPortsComeBack`
  (NoPortLeak), from the invariant `PortInv`, which adds that reservations are for allowed
  ports;
  `NamedPortsAreExclusive` (ExclusivePorts if every request names a port and
  proxies are TCP; without either hypothesis it is false).
* `ServerControlProofs`: the invariant `ControlInv` is the conjunction of types, latches (which
  goroutine must be done at each position of stoper), the chain of controls of a run id (each
  waits for its predecessor, so by transitivity all earlier ones are done when it starts), the
  two name tables, and what LoginResp carried. From it follow OneLiveControl and all the
  invariants of `control_replace`, and `ControlsImplementRegistry`: initial states map to
  initial states and each step to a step or a stutter of SessionRegistry. `OnlyHungStandStill`:
  no other deadlock than those of `Hung`, the wedge and the two that a panic of `pxy.Close()`
  leaves behind, for any capacities and any number of logins. `CanGo` is the guards of the
  steps that the fairness owes a control; `StandInv` adds to ControlInv what ended goroutines
  leave behind (`EndsInv`) and that the logins of a run id form a finite line (`LineInv`,
  `FewInv`). The argument follows each latch of stoper to the goroutine that opens it; for a
  waiting login it takes the foremost waiting one of the line, which exists because inclusion
  of finite sets is well founded.
* `WorkConnPoolProofs`: `IInv` adds to OneOwner what each position of a user connection
  says about the connection it holds; without that a step could put a held connection in
  a second hand. TailPool and AppendPool are the channel lemmas. `HandlersAreLeftInAWedgeOnly`:
  when nothing can go on, a user connection is between its request and an answer only with a
  request to send while the control is wedged; every other handler at a full sendCh has the
  writer to wait for, or a manager that ends and stoper that closes it (from the types).
* `ProxyResourcesProofs`: NothingLeaks, RegisteredIsServed, PortsUsedExact and PanicNeedsStray,
  for any number of controls, any proxies they declare, any ports and any limit. None is
  inductive. `ResourcesInvariant` adds, in named parts: a control holds what its position in
  Run or Close says, and the holds of its proxies and the entries of the tables come and go
  together; an object of a group that has members owns the port, the route or the listener of
  the group; an object that was closed has left the table, so that whoever joins it afterwards
  is stray; a reservation belongs to a proxy or a group that holds the port, or to a listen
  that failed, and is missing only where a late Release took it (`PortsInv`); the table names
  an object once; the count of ports of a control is that of the proxies that took one; and
  only a control that meets a stray object panics.
* `ClientProxyProofs`: types; WithdrawnIsClosed, from the invariant that a
  message of a wrapper that is not waiting or running is followed by a CloseProxy; and
  QuietMeansAgreement, from `Agreement`: in each phase of the current wrapper, what frps has
  registered, or the last of the messages that will change it, fits the phase, as long as no
  answer was mixed up. `ProxiesTakeTurns`: every step of the client, the server and their
  channels is a step or a stutter of ProxyTurns. It rests on `TurnsInv`: no NewProxy of a
  wrapper is under way behind a message of one loaded after it (Stop and checkWorker hold
  the wrapper's lock, and the channel is FIFO), so that by the time the server reads a
  NewProxy all earlier wrappers are gone. `NobodyKeepsBrokenConns` is about UdpProxy, for
  any number of work connections, if `None` is not one of them: where nothing can go on, a
  broken connection was given up unless there is no other, and a closed proxy has nothing
  left but for the races that ClosedProxyEnds names. `UdpInv` says which connection the keeper
  and each goroutine of either side hold, and that a used one is not taken again.
* `ClientServiceProofs`: OneConnected from `SessionInv`, which adds where the keeper is while a
  control has a connection: its end is awaited on the control made last, so that all are down
  when it logs in. ReloadReaches from `ReloadInv`: whenever the present control does not run
  the present configuration, the only reload under way will give it to that control, or the
  last one overlapped another or a login (`crossed`). Of ClientControl: NoSendOnClosed, which
  is inductive as it stands; that channels of any capacity are never over-full; and
  `LostControlsMove`: until a control without a connection has ended or hangs as `Hung` says,
  one of its goroutines can take a step. It follows each wait to its end, which may be a lock:
  `LocksInv` says what its holder is doing, and that is to wait for room in sendCh or for
  another lock that leads there. ControlLife joins the two: ClientControl implements it under
  the mapping `LifeOf` (from `LifeInv`: closedCh is closed only on a closed connection, and the
  worker moves only after that), and so does each control of ClientService (from `NumbersInv`:
  a number is used for one control), so the control that the service is checked with is the one
  its goroutines make. `ServiceIsNotLeft`: where the service stands still, Close has ended it,
  and the visitor of the control in place has its port, but for the exceptions that
  CloseEndsService and VisitorComesUp name. `Managed` says that a manager is closed before its
  control has ended, so that whoever listens is in place or stray; `ClosingInv` that a Close
  during the wait hangs up on the control made last.
* `VisitorProofs`: OnlyOvertaken of Tunnel, from the invariant that nothing is lost, closed,
  refused or stopped before the first disturbance; HoleAgrees of NatHole, from what a
  datagram under way, however often it comes, says about what was done before it was sent.
  `NobodyKeepsAHalf` of Tunnel, from what each goroutine that ended or waits has left behind
  (`EndsInv`); `NobodyWaitsForEver` of NatHole, from where each goroutine is against the
  datagrams under way (`VisitInv`); and `BrokenTunnelsAreSettled` of SudpVisitor, for any
  number of tunnels, from who is to look at a tunnel that broke (`SudpInv`).
* `TableProofs`: AnswersMostSpecific for any domains, locations, hosts and paths and any number
  of routes. The invariant `TableInv`: the list of a domain is what is registered for it, in
  decreasing order of the locations. The lemmas: that order is total; of two prefixes of a path
  the greater is the longer, so the first hit is the best of its domain (`GetIs`); and the
  names of the chain are exactly those that cover the host, closest first (`NamesCover`,
  `CoversIsName`). The assumption `RouterTexts` says that domains are sequences of strings and
  locations sequences of numbers. ReloadRunsTheFile and BothSidesAgree for any domains and any
  number of edits: a configuration is a function on the fields of its type, which Compare,
  MarshalToMsg and UnmarshalFromMsg all cover (`TypesTreatTheirFields`, by cases on the type),
  and what frps has was made from what frpc runs now. LoadedAsWritten for any file and any
  rows, however many numbers a range has. What it says of a range is a claim about folds, so it
  needs induction: `Induction` and `Recursion` get it from `Least`, which gets it from the
  well-foundedness of inclusion. With them `FlattenIs` and `StartsAre` say what FlattenSeq and
  Starts compute, `ParsedIs` and `PlacesAre` that the numbers of a text are parsed into the
  places that `Place` counts; `LoadIs` and `RenderedIs` follow the sections from the rows to
  the proxies. The assumption `FileTexts` says that a section's name is one of the three forms
  and a port key a list of lists of integers, valid or not. The proof corrected the property: a
  section `[p_5]` beyond the end of `[range:p]` is no proxy of the range.

The history variables by which a property names its exceptions (`stray`, `mixed`, `crossed`,
`overtaken`, `mistaken`) are part of the invariants: the theorems say that nothing else
breaks the property, in instances of any size.

Every invariant that a run checks is also a theorem. Liveness and leads-to properties need
fairness and ENABLED, which are out of the prover's reach, and are model-checked only. But of
most of them the half that needs neither is proved: in no reachable state have the steps that
fairness owes all come to an end before the goal is reached. That the steps which remain
possible lead there is TLC's part.

| Theorem | is the safety half of |
|---|---|
| OnlyHungStandStill | ShutdownEndsOrHangs, LoginStartsOrHangs, SilentClientCollected |
| HandlersAreLeftInAWedgeOnly | UserAnswered |
| LostControlsMove | the first part of ControlEnds |
| ServiceIsNotLeft | CloseEndsService, VisitorComesUp |
| NobodyKeepsAHalf | TunnelCollapses, UserServed |
| NobodyWaitsForEver | HoleEnds |
| BrokenTunnelsAreSettled | SudpEnds |
| NobodyKeepsBrokenConns | BrokenIsReplaced, ClosedProxyEnds |

The operators named `...CanGo` in these proofs are the guards of the steps in the module's
`FairSpec` or `Fairness`, written out by hand since ENABLED cannot be reasoned about; with TLC
each was found equal to the disjunction of the ENABLED conditions in every state of its run,
except that those of ClientControl leave out the lock that Close takes and suppose that the
connection is lost, as the theorem does.
Wholly model-checked remain HealthyRuns and UnhealthyIsRemovedUnlessMixed (a monitor can
always report, so nothing ever stands still there) and the second part of ControlEnds.

## 5. Not modelled

Authentication, plugins' protocols, TLS, the dashboard, the command line, the common sections
of the configuration and the Android user interface are sequential, stateless or external;
where they can refuse, the refusal is a nondeterministic choice. Byte streams after two
connections are joined, compression and rate limits are left out. Third-party libraries (mux,
yamux, KCP) are assumed to deliver connections; the link of an XTCP hole is a rendezvous that
its keepalive ends. The workers that hand connections from a shared listener to the members of
a group, the first bytes of virtual-host connections, the table of a Forwarder's UDP sockets
and the daily counters of the dashboard are not modelled. A stalled but living peer, on which a
write blocks without failing, is modelled in ClientControl and SudpVisitor only. A UDP proxy
that closes itself because its socket fails to be read (`server/proxy/udp.go:216`) does so in
UdpProxy, not in ProxyResources. Work connections and the status page take the locks of frpc's
proxies too; they hold them no longer than those who are in ClientControl, and are left out.
The configuration is stored and read at once, although a login reads its two words without
`cfgMu` (`client/service.go:114`).

## 6. Plan

1. *done* PortManager, ServerControl with SessionRegistry, WorkConnPool, ClientProxy.
2. *done* ProxyResources (registration, groups, NAT-hole table), VhostRouter, UdpProxy,
   ClientControl, ClientService, Tunnel, NatHole, SudpVisitor, ProxyConfig, ConfigFile.
3. *done* Proofs of every safety property that a run checks.
4. *done* ProxyTurns, the abstract specification of a proxy through its reloads, and the
   proof that ClientProxy implements it.
5. The hand-over of connections: Muxer to listener, group listener to member, with what
   happens to a connection whose listener closes meanwhile.
6. The set of runs stays small: a question that a theorem answers for all instances gives up
   its run first.
