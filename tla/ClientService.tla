---------------------------- MODULE ClientService ----------------------------
(***************************************************************************)
(* The frpc service (client/service.go) and the visitor managers of its    *)
(* controls (client/visitor_manager.go).                                   *)
(*                                                                         *)
(* The keeper logs in, makes a control, installs it as svr.ctl and waits   *)
(* until it has ended; then it logs in again.  The admin API reloads the   *)
(* configuration, and Close may be called, at any time; both take svr.ctl  *)
(* without its lock.  Reloads overlap: cfgMu is held for the store alone.  *)
(*                                                                         *)
(* Abstractions.  The goroutines of a control are in ClientControl; here   *)
(* it is up, lost, and then either hangs or winds up its proxies and       *)
(* visitors and ends.  The configuration is one value: two different ones  *)
(* have proxies and visitors that Compare tells apart, all visitors bind   *)
(* the same port, and EmptyCfg has neither.  The proxies of a control are  *)
(* the configuration they were made from.  A login that fails changes      *)
(* nothing, however long the keeper sleeps after it, but the first one may *)
(* end the service (login_fail_exit).                                      *)
(***************************************************************************)
EXTENDS Naturals

CONSTANTS
  MaxCtl,       \* bound on the number of logins
  Cfgs,         \* configurations
  EmptyCfg,     \* the one without proxies and visitors
  Admins,       \* requests of the admin API that may be under way at a time
  MaxReloads    \* bound on the number of reloads

ASSUME ServiceAssumption ==
  MaxCtl \in Nat \ {0} /\ MaxReloads \in Nat /\ EmptyCfg \in Cfgs

Ctls == 1..MaxCtl
NoCtl == 0

VARIABLES
  life,     \* control -> "none", "up", "lost", "hung", "vm" (pm is closed) or "ended" (closedDoneCh)
  vm,       \* control -> its visitor manager, see VMInit
  pxs,      \* control -> the configuration its proxies were made from
  keeper,   \* [at, ctl]: Run and keepControllerWorking; the control made last
  svrCtl,   \* svr.ctl
  cfg,      \* svr.pxyCfgs and svr.visitorCfgs
  reload,   \* request -> [at, ctl, cfg]: ReloadConf, with the configuration it was called with
  reloads,  \* number of reloads
  exit,     \* svr.exit
  closer,   \* [at, ctl]: Close of the service
  crossed,  \* history: the last reload overlapped another one, or held svr.ctl while its
            \* successor was being made or installed
  stray,    \* controls whose manager started a visitor after it was closed
  lateClose \* history: Close was called while the keeper was logging in

session == <<life, pxs, vm, stray>>
service == <<keeper, svrCtl, cfg>>
admin == <<reload, reloads, crossed>>
closing == <<exit, closer, lateClose>>
vars == <<session, service, admin, closing>>

IdleReload == [at |-> "idle", ctl |-> NoCtl, cfg |-> EmptyCfg]

\* A reload is under way.
Reloading == \E r \in Admins : reload[r].at # "idle"

VMInit ==
  [cfg |-> EmptyCfg,     \* vm.cfgs
   visitor |-> FALSE,    \* vm.visitors has an entry
   listens |-> FALSE,    \* its listener is open
   stopped |-> FALSE,    \* stopCh is closed
   loop |-> TRUE]        \* vm.Run has not returned

Init ==
  /\ life = [c \in Ctls |-> "none"] /\ vm = [c \in Ctls |-> VMInit]
  /\ pxs = [c \in Ctls |-> EmptyCfg]
  /\ keeper = [at |-> "login", ctl |-> NoCtl] /\ svrCtl = NoCtl
  /\ cfg \in Cfgs \ {EmptyCfg}
  /\ reload = [r \in Admins |-> IdleReload] /\ reloads = 0
  /\ exit = FALSE /\ closer = [at |-> "idle", ctl |-> NoCtl]
  /\ crossed = FALSE /\ stray = {} /\ lateClose = FALSE

(***************************************************************************)
(* Visitor managers.                                                       *)
(***************************************************************************)
\* A visitor of c may get the port, unless another process has it, when no other listens.
MayListen(c) == \A d \in Ctls \ {c} : ~vm[d].listens

\* startVisitor: Run of the visitor binds the port, or fails.
Started(m, ok) == [m EXCEPT !.visitor = ok, !.listens = ok]

\* VisitorManager.Reload: a configuration that differs replaces the visitor.
VMReload(c, v, ok) ==
  IF vm[c].cfg = v THEN vm[c]
  ELSE Started([vm[c] EXCEPT !.cfg = v], ok /\ v # EmptyCfg)

\* Faulty variant: the visitors go on listening.
VMClosedOnly(m) == [m EXCEPT !.stopped = TRUE]

\* VisitorManager.Close: the visitor is closed and stays in the map.
VMClosed(m) == [m EXCEPT !.listens = FALSE, !.stopped = TRUE]

\* A tick of vm.Run starts a visitor that did not start; select may take it after stopCh too.
VMTick(c, ok) ==
  /\ life[c] # "none" /\ vm[c].loop
  /\ vm[c].cfg # EmptyCfg /\ ~vm[c].visitor
  /\ ok => MayListen(c)
  /\ vm' = [vm EXCEPT ![c] = Started(@, ok)]
  /\ stray' = IF ok /\ vm[c].stopped THEN stray \union {c} ELSE stray
  /\ UNCHANGED <<life, pxs, service, admin, closing>>

VMStops(c) ==
  /\ vm[c].loop /\ vm[c].stopped
  /\ vm' = [vm EXCEPT ![c].loop = FALSE]
  /\ UNCHANGED <<life, pxs, stray, service, admin, closing>>

(***************************************************************************)
(* A control: its connection is lost, then its worker winds it up.         *)
(***************************************************************************)
Lives(c, from, to) ==
  /\ life[c] = from /\ life' = [life EXCEPT ![c] = to]
  /\ UNCHANGED <<stray, service, admin, closing>>

CtlLost(c) == Lives(c, "up", "lost") /\ UNCHANGED <<pxs, vm>>

\* The ways to hang are in ClientControl.
CtlHangs(c) == Lives(c, "lost", "hung") /\ UNCHANGED <<pxs, vm>>

CtlClosesProxies(c) ==
  Lives(c, "lost", "vm") /\ pxs' = [pxs EXCEPT ![c] = EmptyCfg] /\ UNCHANGED vm

CtlEnds(c) ==
  Lives(c, "vm", "ended") /\ vm' = [vm EXCEPT ![c] = VMClosed(@)] /\ UNCHANGED pxs

(***************************************************************************)
(* The service.                                                            *)
(***************************************************************************)
\* Run gives up when the first login fails, if login_fail_exit is set.
FirstLoginFails ==
  /\ keeper = [at |-> "login", ctl |-> NoCtl]
  /\ keeper' = [keeper EXCEPT !.at = "exit"]
  /\ UNCHANGED <<session, svrCtl, cfg, admin, closing>>

\* login, NewControl and Control.Run: the configuration is read without cfgMu.
KeeperLogsIn(ok) ==
  LET c == keeper.ctl + 1
  IN /\ keeper.at = "login" /\ keeper.ctl < MaxCtl
     /\ ok => MayListen(c)
     /\ keeper' = [at |-> "made", ctl |-> c]
     /\ life' = [life EXCEPT ![c] = "up"]
     /\ vm' = [vm EXCEPT ![c] = VMReload(c, cfg, ok)]
     /\ pxs' = [pxs EXCEPT ![c] = cfg]
     /\ crossed' = (crossed /\ Reloading)
     /\ UNCHANGED <<stray, svrCtl, cfg, reload, reloads, closing>>

\* The control that ended is closed once more and replaced, under ctlMu.
KeeperInstalls ==
  /\ keeper.at = "made"
  /\ svrCtl' = keeper.ctl
  /\ keeper' = [keeper EXCEPT !.at = "wait"]
  /\ IF svrCtl = NoCtl THEN UNCHANGED <<vm, pxs>>
     ELSE vm' = [vm EXCEPT ![svrCtl] = VMClosed(@)] /\ pxs' = [pxs EXCEPT ![svrCtl] = EmptyCfg]
  /\ crossed' = (crossed \/ \E r \in Admins : reload[r].at \in {"vm", "pm"})
  /\ UNCHANGED <<life, stray, cfg, reload, reloads, closing>>

\* Faulty variant: exit is not looked at.
KeeperGoesOn ==
  /\ keeper.at = "wait" /\ life[svrCtl] = "ended"
  /\ keeper' = [keeper EXCEPT !.at = "login"]
  /\ UNCHANGED <<session, svrCtl, cfg, admin, closing>>

\* Faulty variant: the keeper does not wait until all is released.
KeeperHurries ==
  /\ keeper.at = "wait" /\ life[svrCtl] # "up"
  /\ keeper' = [keeper EXCEPT !.at = IF exit THEN "exit" ELSE "login"]
  /\ UNCHANGED <<session, svrCtl, cfg, admin, closing>>

\* ClosedDoneCh: the service ends if Close was called, and logs in again otherwise.
KeeperWakes ==
  /\ keeper.at = "wait" /\ life[svrCtl] = "ended"
  /\ keeper' = [keeper EXCEPT !.at = IF exit THEN "exit" ELSE "login"]
  /\ UNCHANGED <<session, svrCtl, cfg, admin, closing>>

\* ReloadConf of the service stores the configuration under cfgMu.
ReloadStores(r, v) ==
  /\ reload[r].at = "idle" /\ svrCtl # NoCtl /\ reloads < MaxReloads
  /\ cfg' = v
  /\ reload' = [reload EXCEPT ![r] = [at |-> "take", ctl |-> NoCtl, cfg |-> v]]
  /\ reloads' = reloads + 1
  /\ crossed' = Reloading
  /\ UNCHANGED <<session, keeper, svrCtl, closing>>

\* Then it takes svr.ctl, without ctlMu.
ReloadTakes(r) ==
  /\ reload[r].at = "take"
  /\ reload' = [reload EXCEPT ![r].at = "vm", ![r].ctl = svrCtl]
  /\ crossed' = (crossed \/ keeper.at = "made")
  /\ UNCHANGED <<session, service, reloads, closing>>

\* Control.ReloadConf, with its own configuration: the visitors, then the proxies.
ReloadVisitors(r, ok) ==
  LET c == reload[r].ctl
  IN /\ reload[r].at = "vm"
     /\ ok => MayListen(c)
     /\ vm' = [vm EXCEPT ![c] = VMReload(c, reload[r].cfg, ok)]
     /\ stray' = IF vm[c].stopped /\ vm'[c].listens THEN stray \union {c} ELSE stray
     /\ reload' = [reload EXCEPT ![r].at = "pm"]
     /\ UNCHANGED <<life, pxs, service, reloads, crossed, closing>>

\* Faulty variant: the proxies are left as they are.
ReloadVisitorsOnly(r) ==
  /\ reload[r].at = "pm"
  /\ reload' = [reload EXCEPT ![r] = IdleReload]
  /\ UNCHANGED <<session, service, reloads, crossed, closing>>

ReloadProxies(r) ==
  /\ reload[r].at = "pm"
  /\ pxs' = [pxs EXCEPT ![reload[r].ctl] = reload[r].cfg]
  /\ reload' = [reload EXCEPT ![r] = IdleReload]
  /\ UNCHANGED <<life, vm, stray, service, reloads, crossed, closing>>

\* Close sets exit and takes svr.ctl, without ctlMu.
CloseBegins ==
  /\ closer.at = "idle"
  /\ exit' = TRUE
  /\ closer' = [at |-> IF svrCtl = NoCtl THEN "done" ELSE "pm", ctl |-> svrCtl]
  /\ lateClose' = (keeper.at \in {"login", "made"})
  /\ UNCHANGED <<session, service, admin>>

\* Control.Close: the proxies, the connection, the visitors.
CloseProxies ==
  /\ closer.at = "pm"
  /\ pxs' = [pxs EXCEPT ![closer.ctl] = EmptyCfg]
  /\ closer' = [closer EXCEPT !.at = "conn"]
  /\ UNCHANGED <<life, vm, stray, service, admin, exit, lateClose>>

CloseConn ==
  /\ closer.at = "conn"
  /\ life' = [life EXCEPT ![closer.ctl] = IF @ = "up" THEN "lost" ELSE @]
  /\ closer' = [closer EXCEPT !.at = "vm"]
  /\ UNCHANGED <<pxs, vm, stray, service, admin, exit, lateClose>>

CloseVisitors ==
  /\ closer.at = "vm"
  /\ vm' = [vm EXCEPT ![closer.ctl] = VMClosed(@)]
  /\ closer' = [closer EXCEPT !.at = "done"]
  /\ UNCHANGED <<life, pxs, stray, service, admin, exit, lateClose>>

Next ==
  \/ \E c \in Ctls :
       \/ CtlLost(c) \/ CtlHangs(c) \/ CtlClosesProxies(c) \/ CtlEnds(c)
       \/ VMStops(c) \/ \E ok \in BOOLEAN : VMTick(c, ok)
  \/ (\E ok \in BOOLEAN : KeeperLogsIn(ok))
  \/ FirstLoginFails \/ KeeperInstalls \/ KeeperWakes
  \/ \E r \in Admins :
       \/ (\E v \in Cfgs : ReloadStores(r, v)) \/ ReloadTakes(r)
       \/ (\E ok \in BOOLEAN : ReloadVisitors(r, ok)) \/ ReloadProxies(r)
  \/ CloseBegins \/ CloseProxies \/ CloseConn \/ CloseVisitors

Spec == Init /\ [][Next]_vars

\* Goroutines run, and a server that is reached in the end lets the keeper in.  A port that is
\* free time and again is bound by one of the attempts.  Nobody has to reload or close, and who
\* closes or reloads the proxies of a control that hangs may wait for ever (ClientControl).
Fairness ==
  /\ \A c \in Ctls :
       /\ WF_vars(CtlClosesProxies(c)) /\ WF_vars(CtlEnds(c)) /\ WF_vars(VMStops(c))
       /\ SF_vars(VMTick(c, TRUE))
  /\ WF_vars(\E ok \in BOOLEAN : KeeperLogsIn(ok)) /\ WF_vars(KeeperInstalls)
  /\ WF_vars(KeeperWakes)
  /\ \A r \in Admins :
       /\ WF_vars(ReloadTakes(r)) /\ WF_vars(\E ok \in BOOLEAN : ReloadVisitors(r, ok))
       /\ WF_vars(ReloadProxies(r) /\ life[reload[r].ctl] # "hung")
  /\ WF_vars(CloseProxies /\ life[closer.ctl] # "hung") /\ WF_vars(CloseConn) /\ WF_vars(CloseVisitors)

FairSpec == Spec /\ Fairness

(***************************************************************************)
(* Properties.                                                             *)
(***************************************************************************)
\* At most one control has a connection, and what reloads and Close find in svr.ctl is either
\* that one or one that has ended: a second login never overlaps the session it replaces.
OneConnected ==
  \A c \in Ctls : life[c] \in {"up", "lost", "hung", "vm"} =>
    c = keeper.ctl /\ \A d \in Ctls \ {c} : life[d] \in {"none", "ended"}

\* When no reload is under way, the proxies and visitors of the control in place are those of the
\* configuration stored last, whatever earlier reloads left behind; unless the last reload took
\* svr.ctl while its successor was being made (client/service.go:308), or overlapped another
\* one: the two store in one order and may apply in the other (302-308).
ReloadReaches ==
  keeper.at = "wait" /\ ~Reloading /\ ~crossed /\ life[svrCtl] = "up" /\ ~exit
  => vm[svrCtl].cfg = cfg /\ pxs[svrCtl] = cfg

\* A visitor of a control that stays gets its port in the end: the controls that ended before
\* gave it back.  A manager that starts a visitor after it was closed keeps the port (stray).
VisitorComesUp ==
  \A c \in Ctls :
    (svrCtl = c /\ vm[c].cfg # EmptyCfg /\ ~vm[c].stopped) ~>
      (vm[c].listens \/ vm[c].stopped \/ vm[c].cfg = EmptyCfg \/ svrCtl # c \/ stray # {})

\* After Close the last control ends and no other is made, unless the keeper was logging in
\* (client/service.go:311-317) or the control hangs.
CloseEndsService ==
  exit ~> (keeper.at = "exit" \/ lateClose \/ \E c \in Ctls : life[c] = "hung")
=============================================================================
