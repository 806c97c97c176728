------------------------ MODULE ClientServiceProofs ------------------------
(***************************************************************************)
(* Theorems about frpc's service, for any number of logins, reloads and    *)
(* configurations: its sessions do not overlap, and a reload that does not *)
(* cross a login reaches the session in place.  Then about the goroutines  *)
(* of one control, with channels of any capacity; that this control is the *)
(* one the service deals with: both live as ControlLife says; and where    *)
(* the service may stand still.                                            *)
(***************************************************************************)
EXTENDS ClientService, ClientControl, TLAPS

Places == {"login", "made", "wait", "exit"}
Lives5 == {"up", "lost", "hung", "vm"}

(* Only the control made last can have a connection, and only while the    *)
(* keeper installs it or waits for it.  The last conjunct makes this       *)
(* inductive: the control whose end the keeper sees is the one made last.  *)
SessionInv ==
  /\ keeper \in [at : Places, ctl : Ctls \union {NoCtl}]
  /\ life \in [Ctls -> Lives5 \union {"none", "ended"}]
  /\ \A c \in Ctls : life[c] \in Lives5 => c = keeper.ctl /\ keeper.at \in {"made", "wait"}
  /\ keeper.at = "wait" => svrCtl = keeper.ctl /\ keeper.ctl \in Ctls
  /\ keeper.at = "made" => keeper.ctl \in Ctls

LEMMA SessionInit == Init => SessionInv
  BY ServiceAssumption DEF Init, SessionInv, Places, Lives5, Ctls, NoCtl

LEMMA SessionStep == SessionInv /\ [Next]_vars => SessionInv'
  <1> SUFFICES ASSUME SessionInv, [Next]_vars PROVE SessionInv'
    OBVIOUS
  <1> USE DEF SessionInv, Places, Lives5
  \* A control that is wound up stays the keeper's until it has ended.
  <1>1. ASSUME NEW c \in Ctls, CtlLost(c) \/ CtlHangs(c) \/ CtlClosesProxies(c) \/ CtlEnds(c)
        PROVE  SessionInv'
    <2>1. UNCHANGED <<keeper, svrCtl>>
      BY <1>1 DEF CtlLost, CtlHangs, CtlClosesProxies, CtlEnds, Lives, service
    <2>2. PICK to \in {"lost", "hung", "vm", "ended"} :
            life[c] \in Lives5 /\ life' = [life EXCEPT ![c] = to]
      BY <1>1 DEF CtlLost, CtlHangs, CtlClosesProxies, CtlEnds, Lives
    <2> QED BY <2>1, <2>2
  \* The visitor managers, the reloads and the other steps of Close leave the sessions alone.
  <1>2. ASSUME NEW c \in Ctls, NEW ok \in BOOLEAN, VMTick(c, ok) \/ VMStops(c)
        PROVE  SessionInv'
    BY <1>2 DEF VMTick, VMStops, service
  <1>3. ASSUME NEW r \in Admins, NEW ok \in BOOLEAN, ReloadVisitors(r, ok) PROVE SessionInv'
    BY <1>3 DEF ReloadVisitors, service
  <1>4. ASSUME NEW r \in Admins, NEW v \in Cfgs, ReloadStores(r, v) PROVE SessionInv'
    BY <1>4 DEF ReloadStores, session
  <1>5. ASSUME NEW r \in Admins, ReloadTakes(r) \/ ReloadProxies(r) PROVE SessionInv'
    BY <1>5 DEF ReloadTakes, ReloadProxies, session, service
  <1>6. CASE CloseBegins \/ CloseProxies \/ CloseVisitors
    BY <1>6 DEF CloseBegins, CloseProxies, CloseVisitors, session, service
  \* The connection that Close closes may be that of a control long gone.
  <1>7. CASE CloseConn
    <2>1. UNCHANGED <<keeper, svrCtl>>
      BY <1>7 DEF CloseConn, service
    <2>2. life' = [life EXCEPT ![closer.ctl] = IF @ = "up" THEN "lost" ELSE @]
      BY <1>7 DEF CloseConn
    <2>3. \A c \in Ctls : life'[c] = life[c] \/ (life[c] = "up" /\ life'[c] = "lost")
      BY <2>2
    <2>4. life' \in [Ctls -> Lives5 \union {"none", "ended"}]
      BY <2>2, <2>3
    <2> QED BY <2>1, <2>3, <2>4
  <1>8. ASSUME NEW ok \in BOOLEAN, KeeperLogsIn(ok) PROVE SessionInv'
    <2> DEFINE c == keeper.ctl + 1
    <2>1. c \in Ctls
      BY <1>8, ServiceAssumption DEF KeeperLogsIn, Ctls, NoCtl
    <2>2. keeper' = [at |-> "made", ctl |-> c] /\ life' = [life EXCEPT ![c] = "up"]
      BY <1>8 DEF KeeperLogsIn
    <2>3. \A d \in Ctls : life[d] \notin Lives5
      BY <1>8 DEF KeeperLogsIn
    <2> QED BY <2>1, <2>2, <2>3
  <1>9. CASE KeeperInstalls
    BY <1>9 DEF KeeperInstalls
  <1>10. CASE KeeperWakes
    <2>1. \A d \in Ctls : life[d] \notin Lives5
      BY <1>10 DEF KeeperWakes
    <2>2. keeper'.at \in {"exit", "login"} /\ keeper'.ctl = keeper.ctl
      BY <1>10 DEF KeeperWakes
    <2>3. keeper' \in [at : Places, ctl : Ctls \union {NoCtl}] /\ UNCHANGED life
      BY <1>10 DEF KeeperWakes, session
    <2> QED BY <2>1, <2>2, <2>3
  <1>11. CASE FirstLoginFails
    BY <1>11 DEF FirstLoginFails, session, NoCtl
  <1>12. CASE UNCHANGED vars
    BY <1>12 DEF vars, session, service
  <1> QED
    BY <1>1, <1>2, <1>3, <1>4, <1>5, <1>6, <1>7, <1>8, <1>9, <1>10, <1>11, <1>12 DEF Next

LEMMA SessionImplies == SessionInv => OneConnected
  BY DEF SessionInv, OneConnected, Lives5

(* OneConnected: whatever reloads and Close do with a svr.ctl they read    *)
(* without its lock, a login never overlaps the session it replaces        *)
(* (client/service.go:166-209).                                            *)
THEOREM ClientSessionsTakeTurns == Spec => []OneConnected
  BY SessionInit, SessionStep, SessionImplies, PTL DEF Spec
-----------------------------------------------------------------------------
(***************************************************************************)
(* Reloads.                                                                *)
(***************************************************************************)
VMs == [cfg : Cfgs, visitor : BOOLEAN, listens : BOOLEAN, stopped : BOOLEAN, loop : BOOLEAN]

\* The control runs the configuration of the service.
Current(c) == vm[c].cfg = cfg /\ pxs[c] = cfg

\* Reload r is on its way to the control: it will read svr.ctl, or it has it.
OnItsWay(r, c) ==
  \/ reload[r].at = "take"
  \/ reload[r].at = "vm" /\ reload[r].ctl = c
  \/ reload[r].at = "pm" /\ reload[r].ctl = c /\ vm[c].cfg = cfg

ReloadTypeOK ==
  reload \in [Admins -> [at : {"idle", "take", "vm", "pm"}, ctl : Ctls \union {NoCtl}, cfg : Cfgs]]

ReloadTypes ==
  /\ cfg \in Cfgs
  /\ vm \in [Ctls -> VMs]
  /\ pxs \in [Ctls -> Cfgs]
  /\ svrCtl \in Ctls \union {NoCtl}
  /\ ReloadTypeOK
  /\ \A r \in Admins : reload[r].at # "idle" => svrCtl \in Ctls
  /\ \A r \in Admins : reload[r].at \in {"vm", "pm"} => reload[r].ctl \in Ctls
  /\ closer.at \in {"pm", "conn", "vm"} => exit

(* The control made last is the one in place but while it is installed.    *)
(* Unless the last reload has crossed a login or another reload, it is the *)
(* only one under way, with the present configuration, and the control     *)
(* runs that configuration or the reload is on its way to it.              *)
Alone ==
  \A r \in Admins : reload[r].at # "idle" =>
    reload[r].cfg = cfg /\ \A q \in Admins \ {r} : reload[q].at = "idle"

ReloadInv ==
  /\ keeper.at \in {"login", "wait"} => svrCtl = keeper.ctl
  /\ keeper.at = "made" => svrCtl # keeper.ctl
  /\ ~crossed => Alone
  /\ keeper.at \in {"made", "wait"} /\ life[keeper.ctl] = "up" /\ ~crossed /\ ~exit
       => Current(keeper.ctl) \/ \E r \in Admins : OnItsWay(r, keeper.ctl)

LEMMA ReloadInit == Init => ReloadTypes /\ ReloadInv
  BY ServiceAssumption DEF Init, ReloadTypes, ReloadTypeOK, ReloadInv, Alone, IdleReload, VMInit,
                           VMs, Ctls, NoCtl

\* Starting, stopping and closing a visitor leaves the configuration of its manager alone.
LEMMA StartKeepsCfg ==
  ASSUME NEW m \in VMs, NEW ok \in BOOLEAN
  PROVE  Started(m, ok) \in VMs /\ Started(m, ok).cfg = m.cfg
  BY DEF VMs, Started

LEMMA CloseKeepsCfg ==
  ASSUME NEW m \in VMs PROVE VMClosed(m) \in VMs /\ VMClosed(m).cfg = m.cfg
  BY DEF VMs, VMClosed

\* A reload gives the manager the new one.
LEMMA ManagerReloads ==
  ASSUME ReloadTypes, NEW c \in Ctls, NEW v \in Cfgs, NEW ok \in BOOLEAN
  PROVE  VMReload(c, v, ok) \in VMs /\ VMReload(c, v, ok).cfg = v
  <1>1. CASE vm[c].cfg = v
    BY <1>1 DEF ReloadTypes, VMReload
  <1>2. CASE vm[c].cfg # v
    <2> DEFINE m == [vm[c] EXCEPT !.cfg = v]
    <2>1. m \in VMs /\ m.cfg = v
      BY DEF ReloadTypes, VMs
    <2>2. VMReload(c, v, ok) = Started(m, ok /\ v # EmptyCfg)
      BY <1>2 DEF VMReload
    <2> QED BY <2>1, <2>2, StartKeepsCfg
  <1> QED BY <1>1, <1>2

\* What the steps of a reload make of it; the others stay as they are.
LEMMA StoreFields ==
  ASSUME ReloadTypes, NEW r \in Admins, NEW v \in Cfgs, ReloadStores(r, v)
  PROVE  /\ reload'[r].at = "take" /\ reload'[r].ctl = NoCtl /\ reload'[r].cfg = v
         /\ \A q \in Admins \ {r} : reload'[q] = reload[q]
         /\ ReloadTypeOK'
  BY ServiceAssumption DEF ReloadStores, NoCtl, ReloadTypes, ReloadTypeOK

LEMMA TakeFields ==
  ASSUME ReloadTypes, NEW r \in Admins, ReloadTakes(r)
  PROVE  /\ reload'[r].at = "vm" /\ reload'[r].ctl = svrCtl /\ reload'[r].cfg = reload[r].cfg
         /\ \A q \in Admins \ {r} : reload'[q] = reload[q]
         /\ ReloadTypeOK'
  BY ServiceAssumption DEF ReloadTakes, ReloadTypes, ReloadTypeOK

LEMMA VisitorFields ==
  ASSUME ReloadTypes, NEW r \in Admins, NEW ok \in BOOLEAN, ReloadVisitors(r, ok)
  PROVE  /\ reload'[r].at = "pm" /\ reload'[r].ctl = reload[r].ctl /\ reload'[r].cfg = reload[r].cfg
         /\ \A q \in Admins \ {r} : reload'[q] = reload[q]
         /\ ReloadTypeOK'
  BY ServiceAssumption DEF ReloadVisitors, ReloadTypes, ReloadTypeOK

LEMMA ProxyFields ==
  ASSUME ReloadTypes, NEW r \in Admins, ReloadProxies(r)
  PROVE  /\ reload'[r].at = "idle" /\ reload'[r].ctl = NoCtl /\ reload'[r].cfg = EmptyCfg
         /\ \A q \in Admins \ {r} : reload'[q] = reload[q]
         /\ ReloadTypeOK'
  BY ServiceAssumption DEF ReloadProxies, IdleReload, NoCtl, ReloadTypes, ReloadTypeOK

LEMMA ReloadTypesStep == SessionInv /\ ReloadTypes /\ [Next]_vars => ReloadTypes'
  <1> SUFFICES ASSUME SessionInv, ReloadTypes, [Next]_vars PROVE ReloadTypes'
    OBVIOUS
  <1> USE ServiceAssumption DEF ReloadTypes
  <1>1. ASSUME NEW c \in Ctls, CtlLost(c) \/ CtlHangs(c) \/ CtlClosesProxies(c) \/ CtlEnds(c)
        PROVE  ReloadTypes'
    <2>1. UNCHANGED <<service, admin, closing>>
      BY <1>1 DEF CtlLost, CtlHangs, CtlClosesProxies, CtlEnds, Lives
    <2>2. vm' \in [Ctls -> VMs] /\ pxs' \in [Ctls -> Cfgs]
      <3>1. vm[c] \in VMs /\ VMClosed(vm[c]) \in VMs
        BY CloseKeepsCfg
      <3> QED BY <1>1, <3>1 DEF CtlLost, CtlHangs, CtlClosesProxies, CtlEnds
    <2> QED BY <2>1, <2>2 DEF ReloadTypeOK, service, admin, closing
  <1>2. ASSUME NEW c \in Ctls, NEW ok \in BOOLEAN, VMTick(c, ok) \/ VMStops(c)
        PROVE  ReloadTypes'
    <2>1. UNCHANGED <<pxs, service, admin, closing>>
      BY <1>2 DEF VMTick, VMStops
    <2>2. vm' \in [Ctls -> VMs]
      <3>1. vm[c] \in VMs /\ [vm[c] EXCEPT !.loop = FALSE] \in VMs
        BY DEF VMs
      <3>2. Started(vm[c], ok) \in VMs
        BY <3>1, StartKeepsCfg
      <3> QED BY <1>2, <3>1, <3>2 DEF VMTick, VMStops
    <2> QED BY <2>1, <2>2 DEF ReloadTypeOK, service, admin, closing
  <1>3. ASSUME NEW r \in Admins, NEW ok \in BOOLEAN, ReloadVisitors(r, ok) PROVE ReloadTypes'
    <2>1. reload[r].ctl \in Ctls /\ reload[r].cfg \in Cfgs
      BY <1>3 DEF ReloadVisitors, ReloadTypeOK
    <2>2. vm' \in [Ctls -> VMs]
      BY <1>3, <2>1, ManagerReloads DEF ReloadVisitors
    <2>3. ReloadTypeOK' /\ \A q \in Admins \ {r} : reload'[q] = reload[q]
      BY <1>3, VisitorFields
    <2>4. reload'[r].ctl = reload[r].ctl /\ reload[r].at = "vm"
      BY <1>3, VisitorFields DEF ReloadVisitors
    <2>5. UNCHANGED <<pxs, cfg, svrCtl, exit, closer>>
      BY <1>3 DEF ReloadVisitors, service, closing
    <2> QED BY <2>1, <2>2, <2>3, <2>4, <2>5
  <1>4. ASSUME NEW r \in Admins, NEW v \in Cfgs, ReloadStores(r, v) PROVE ReloadTypes'
    <2>1. ReloadTypeOK' /\ reload'[r].at = "take" /\ \A q \in Admins \ {r} : reload'[q] = reload[q]
      BY <1>4, StoreFields
    <2>2. UNCHANGED <<vm, pxs, svrCtl, exit, closer>> /\ cfg' = v /\ svrCtl \in Ctls
      BY <1>4 DEF ReloadStores, session, closing
    <2> QED BY <2>1, <2>2
  <1>5. ASSUME NEW r \in Admins, ReloadTakes(r) PROVE ReloadTypes'
    <2>1. ReloadTypeOK' /\ reload'[r].ctl = svrCtl /\ \A q \in Admins \ {r} : reload'[q] = reload[q]
      BY <1>5, TakeFields
    <2>2. UNCHANGED <<vm, pxs, cfg, svrCtl, exit, closer>> /\ svrCtl \in Ctls
      BY <1>5 DEF ReloadTakes, session, service, closing
    <2> QED BY <2>1, <2>2
  <1>12. ASSUME NEW r \in Admins, ReloadProxies(r) PROVE ReloadTypes'
    <2>1. ReloadTypeOK' /\ reload'[r].at = "idle" /\ \A q \in Admins \ {r} : reload'[q] = reload[q]
      BY <1>12, ProxyFields
    <2>2. UNCHANGED <<vm, cfg, svrCtl, exit, closer>> /\ pxs' \in [Ctls -> Cfgs]
      BY <1>12 DEF ReloadProxies, ReloadTypeOK, service, closing
    <2> QED BY <2>1, <2>2
  <1>6. CASE CloseBegins \/ CloseProxies \/ CloseConn
    <2>1. pxs' \in [Ctls -> Cfgs] /\ UNCHANGED <<service, admin, vm>>
      BY <1>6 DEF CloseBegins, CloseProxies, CloseConn, session
    <2>2. closer'.at \in {"pm", "conn", "vm"} => exit'
      BY <1>6 DEF CloseBegins, CloseProxies, CloseConn
    <2> QED BY <2>1, <2>2 DEF ReloadTypeOK, service, admin
  <1>7. CASE CloseVisitors
    <2>1. vm' \in [Ctls -> VMs]
      BY <1>7, CloseKeepsCfg DEF CloseVisitors
    <2>2. closer'.at # "pm" /\ closer'.at # "conn" /\ exit
      BY <1>7 DEF CloseVisitors
    <2> QED BY <1>7, <2>1, <2>2 DEF ReloadTypeOK, CloseVisitors, service, admin
  <1>8. ASSUME NEW ok \in BOOLEAN, KeeperLogsIn(ok) PROVE ReloadTypes'
    <2>1. keeper.ctl + 1 \in Ctls
      BY <1>8 DEF KeeperLogsIn, SessionInv, Ctls, NoCtl
    <2>2. vm' \in [Ctls -> VMs] /\ pxs' \in [Ctls -> Cfgs]
      BY <1>8, <2>1, ManagerReloads DEF KeeperLogsIn
    <2> QED BY <1>8, <2>2 DEF KeeperLogsIn, ReloadTypeOK, closing
  <1>9. CASE KeeperInstalls
    <2>1. vm' \in [Ctls -> VMs] /\ pxs' \in [Ctls -> Cfgs]
      <3>1. \A d \in Ctls : VMClosed(vm[d]) \in VMs
        BY CloseKeepsCfg
      <3>2. svrCtl = NoCtl \/ svrCtl \in Ctls
        OBVIOUS
      <3> QED BY <1>9, <3>1, <3>2 DEF KeeperInstalls
    <2>2. svrCtl' \in Ctls
      BY <1>9 DEF KeeperInstalls, SessionInv
    <2> QED BY <1>9, <2>1, <2>2 DEF KeeperInstalls, ReloadTypeOK, closing
  <1>10. CASE KeeperWakes \/ FirstLoginFails
    BY <1>10 DEF KeeperWakes, FirstLoginFails, ReloadTypeOK, session, admin, closing
  <1>11. CASE UNCHANGED vars
    BY <1>11 DEF vars, ReloadTypeOK, session, service, admin, closing
  <1> QED
    BY <1>1, <1>2, <1>3, <1>4, <1>5, <1>6, <1>7, <1>8, <1>9, <1>10, <1>11, <1>12 DEF Next

LEMMA ReloadStep ==
  SessionInv /\ ReloadTypes /\ ReloadInv /\ [Next]_vars => ReloadInv'
  <1> SUFFICES ASSUME SessionInv, ReloadTypes, ReloadInv, [Next]_vars PROVE ReloadInv'
    OBVIOUS
  <1> USE ServiceAssumption DEF ReloadTypes, ReloadInv, Current, OnItsWay, Alone
  \* A control that is wound up is no longer up; the others keep what they have.
  <1>1. ASSUME NEW c \in Ctls, CtlLost(c) \/ CtlHangs(c) \/ CtlClosesProxies(c) \/ CtlEnds(c)
        PROVE  ReloadInv'
    <2>1. UNCHANGED <<service, admin, closing>>
      BY <1>1 DEF CtlLost, CtlHangs, CtlClosesProxies, CtlEnds, Lives
    <2>2. life'[c] # "up" /\ \A d \in Ctls \ {c} : life'[d] = life[d]
      BY <1>1 DEF CtlLost, CtlHangs, CtlClosesProxies, CtlEnds, Lives, SessionInv
    <2>3. \A d \in Ctls \ {c} : vm'[d] = vm[d] /\ pxs'[d] = pxs[d]
      BY <1>1 DEF CtlLost, CtlHangs, CtlClosesProxies, CtlEnds, Lives
    <2>4. keeper.at \in {"made", "wait"} => keeper.ctl \in Ctls
      BY DEF SessionInv
    <2> QED BY <2>1, <2>2, <2>3, <2>4 DEF service, admin, closing
  <1>2. ASSUME NEW c \in Ctls, NEW ok \in BOOLEAN, VMTick(c, ok) \/ VMStops(c)
        PROVE  ReloadInv'
    <2>1. UNCHANGED <<life, pxs, service, admin, closing>>
      BY <1>2 DEF VMTick, VMStops
    <2>2. \A d \in Ctls : vm'[d].cfg = vm[d].cfg
      <3>1. vm[c] \in VMs /\ [vm[c] EXCEPT !.loop = FALSE].cfg = vm[c].cfg
        BY DEF VMs
      <3>2. Started(vm[c], ok).cfg = vm[c].cfg
        BY <3>1, StartKeepsCfg
      <3> QED BY <1>2, <3>1, <3>2 DEF VMTick, VMStops
    <2>3. keeper.at \in {"made", "wait"} => keeper.ctl \in Ctls
      BY DEF SessionInv
    <2> QED BY <2>1, <2>2, <2>3 DEF service, admin, closing
  <1>k. keeper.at \in {"made", "wait"} => keeper.ctl \in Ctls
    BY DEF SessionInv
  \* It is alone, and gives the manager the configuration of the service.
  <1>3. ASSUME NEW r \in Admins, NEW ok \in BOOLEAN, ReloadVisitors(r, ok) PROVE ReloadInv'
    <2> DEFINE d == reload[r].ctl
    <2>1. d \in Ctls /\ reload[r].at = "vm" /\ reload[r].cfg \in Cfgs
      BY <1>3 DEF ReloadVisitors, ReloadTypeOK
    <2>2. vm'[d].cfg = reload[r].cfg /\ \A c \in Ctls \ {d} : vm'[c] = vm[c]
      BY <1>3, <2>1, ManagerReloads DEF ReloadVisitors
    <2>3. reload'[r].at = "pm" /\ reload'[r].ctl = d /\ reload'[r].cfg = reload[r].cfg
      BY <1>3, VisitorFields
    <2>4. \A q \in Admins \ {r} : reload'[q] = reload[q]
      BY <1>3, VisitorFields
    <2>5. UNCHANGED <<life, pxs, keeper, svrCtl, cfg, crossed, exit>>
      BY <1>3 DEF ReloadVisitors, service, closing
    <2>6. ASSUME ~crossed PROVE reload[r].cfg = cfg /\ \A q \in Admins \ {r} : reload[q].at = "idle"
      BY <2>1, <2>6
    <2>7. ~crossed' => Alone'
      BY <2>3, <2>4, <2>5, <2>6
    <2>8. ASSUME keeper.at \in {"made", "wait"}, life[keeper.ctl] = "up", ~crossed, ~exit
          PROVE  Current(keeper.ctl)' \/ OnItsWay(r, keeper.ctl)'
      <3>1. Current(keeper.ctl) \/ OnItsWay(r, keeper.ctl)
        BY <2>6, <2>8
      <3> QED BY <1>k, <2>1, <2>2, <2>3, <2>5, <2>6, <2>8, <3>1
    <2> QED BY <2>5, <2>7, <2>8
  \* One that starts alone has nothing to cross yet.
  <1>4. ASSUME NEW r \in Admins, NEW v \in Cfgs, ReloadStores(r, v) PROVE ReloadInv'
    <2>1. reload'[r].at = "take" /\ reload'[r].cfg = v
      BY <1>4, StoreFields
    <2>2. \A q \in Admins \ {r} : reload'[q] = reload[q]
      BY <1>4, StoreFields
    <2>3. UNCHANGED <<life, vm, pxs, keeper, svrCtl, exit>> /\ cfg' = v
      BY <1>4 DEF ReloadStores, session, closing
    <2>4. ~crossed' => \A q \in Admins : reload[q].at = "idle"
      BY <1>4 DEF ReloadStores, Reloading
    <2>5. ~crossed' => Alone'
      BY <2>1, <2>2, <2>3, <2>4
    <2>6. OnItsWay(r, keeper.ctl)'
      BY <2>1
    <2> QED BY <2>3, <2>5, <2>6
  \* It takes the control made last, or one that is about to be replaced.
  <1>5. ASSUME NEW r \in Admins, ReloadTakes(r) PROVE ReloadInv'
    <2>1. reload'[r].at = "vm" /\ reload'[r].ctl = svrCtl /\ reload'[r].cfg = reload[r].cfg
      BY <1>5, TakeFields
    <2>2. \A q \in Admins \ {r} : reload'[q] = reload[q]
      BY <1>5, TakeFields
    <2>3. UNCHANGED <<life, vm, pxs, keeper, svrCtl, cfg, exit>> /\ reload[r].at = "take"
      BY <1>5 DEF ReloadTakes, session, service, closing
    <2>4. ~crossed' => ~crossed /\ keeper.at # "made"
      BY <1>5 DEF ReloadTakes
    <2>5. ~crossed' => Alone'
      BY <2>1, <2>2, <2>3, <2>4
    <2>6. keeper.at = "wait" => OnItsWay(r, keeper.ctl)'
      BY <2>1, <2>3
    <2> QED BY <2>3, <2>4, <2>5, <2>6
  <1>6. ASSUME NEW r \in Admins, ReloadProxies(r) PROVE ReloadInv'
    <2> DEFINE d == reload[r].ctl
    <2>1. d \in Ctls /\ reload[r].at = "pm" /\ pxs' = [pxs EXCEPT ![d] = reload[r].cfg]
      BY <1>6 DEF ReloadProxies
    <2>2. reload'[r].at = "idle" /\ \A q \in Admins \ {r} : reload'[q] = reload[q]
      BY <1>6, ProxyFields
    <2>3. UNCHANGED <<life, vm, keeper, svrCtl, cfg, crossed, exit>>
      BY <1>6 DEF ReloadProxies, service, closing
    <2>4. ASSUME ~crossed PROVE reload[r].cfg = cfg /\ \A q \in Admins \ {r} : reload[q].at = "idle"
      BY <2>1, <2>4
    <2>5. ~crossed' => Alone'
      BY <2>2, <2>3, <2>4
    <2>6. ASSUME keeper.at \in {"made", "wait"}, life[keeper.ctl] = "up", ~crossed, ~exit
          PROVE  Current(keeper.ctl)'
      <3>1. Current(keeper.ctl) \/ OnItsWay(r, keeper.ctl)
        BY <2>4, <2>6
      <3> QED BY <1>k, <2>1, <2>3, <2>4, <2>6, <3>1
    <2> QED BY <2>3, <2>5, <2>6
  \* After Close nothing is claimed.
  <1>7. CASE CloseBegins \/ CloseProxies \/ CloseConn \/ CloseVisitors
    <2>1. exit' /\ UNCHANGED service
      BY <1>7 DEF CloseBegins, CloseProxies, CloseConn, CloseVisitors, service
    <2>2. Alone' <=> Alone
      BY <1>7 DEF CloseBegins, CloseProxies, CloseConn, CloseVisitors, service, admin
    <2>3. crossed' = crossed
      BY <1>7 DEF CloseBegins, CloseProxies, CloseConn, CloseVisitors, admin
    <2> QED BY <2>1, <2>2, <2>3 DEF service
  <1>8. ASSUME NEW ok \in BOOLEAN, KeeperLogsIn(ok) PROVE ReloadInv'
    <2> DEFINE c == keeper.ctl + 1
    <2>1. c \in Ctls /\ c # keeper.ctl
      BY <1>8 DEF KeeperLogsIn, SessionInv, Ctls, NoCtl
    <2>2. keeper'.at = "made" /\ keeper'.ctl = c
      BY <1>8 DEF KeeperLogsIn
    <2>3. vm'[c].cfg = cfg /\ pxs'[c] = cfg
      BY <1>8, <2>1, ManagerReloads DEF KeeperLogsIn
    <2>4. svrCtl' = keeper.ctl /\ cfg' = cfg /\ reload' = reload
      BY <1>8 DEF KeeperLogsIn
    <2>5. ~crossed' => Alone'
      BY <1>8, <2>4 DEF KeeperLogsIn, Reloading
    <2> QED BY <2>1, <2>2, <2>3, <2>4, <2>5
  \* The control that is replaced is another one.
  <1>9. CASE KeeperInstalls
    <2> DEFINE c == keeper.ctl
    <2>1. keeper.at = "made" /\ c \in Ctls /\ svrCtl # c
      BY <1>9 DEF KeeperInstalls, SessionInv
    <2>2. keeper'.at = "wait" /\ keeper'.ctl = c /\ svrCtl' = c
      BY <1>9 DEF KeeperInstalls, SessionInv
    <2>3. vm'[c] = vm[c] /\ pxs'[c] = pxs[c]
      BY <1>9, <2>1 DEF KeeperInstalls
    <2>4. UNCHANGED <<life, cfg, reload, exit>>
      BY <1>9 DEF KeeperInstalls, closing
    <2>5. ~crossed' => ~crossed /\ \A r \in Admins : reload[r].at \notin {"vm", "pm"}
      BY <1>9 DEF KeeperInstalls
    <2>6. ~crossed' => Alone'
      BY <2>4, <2>5
    <2>7. \A r \in Admins : ~crossed' /\ OnItsWay(r, c) => OnItsWay(r, c)'
      BY <2>3, <2>4, <2>5
    <2>8. Current(c) => vm'[c].cfg = cfg' /\ pxs'[c] = cfg'
      BY <2>3, <2>4
    <2> QED BY <2>1, <2>2, <2>4, <2>5, <2>6, <2>7, <2>8
  <1>10. CASE KeeperWakes
    BY <1>10 DEF KeeperWakes, SessionInv, session, admin, closing
  <1>12. CASE FirstLoginFails
    BY <1>12 DEF FirstLoginFails, SessionInv, session, admin, closing
  <1>11. CASE UNCHANGED vars
    BY <1>11 DEF vars, session, service, admin, closing
  <1> QED
    BY <1>1, <1>2, <1>3, <1>4, <1>5, <1>6, <1>7, <1>8, <1>9, <1>10, <1>11, <1>12 DEF Next

LEMMA ReloadImplies == SessionInv /\ ReloadInv => ReloadReaches
  BY DEF SessionInv, ReloadInv, ReloadReaches, Reloading, Current, OnItsWay

(* ReloadReaches: ReloadConf stores the configuration before it reads      *)
(* svr.ctl, and a login reads it before its control is installed, so when  *)
(* any number of requests have come and gone the proxies and visitors in   *)
(* place are those of the configuration stored last, unless the last of    *)
(* them crossed a login or another reload (client/service.go:186-209,      *)
(* 302-309).                                                               *)
THEOREM ReloadsReachTheSession == Spec => []ReloadReaches
  <1>1. Init => SessionInv /\ ReloadTypes /\ ReloadInv
    BY SessionInit, ReloadInit
  <1>2. SessionInv /\ ReloadTypes /\ ReloadInv /\ [Next]_vars
          => SessionInv' /\ ReloadTypes' /\ ReloadInv'
    BY SessionStep, ReloadTypesStep, ReloadStep
  <1> QED BY <1>1, <1>2, ReloadImplies, PTL DEF Spec
-----------------------------------------------------------------------------
(***************************************************************************)
(* One control (ClientControl).  A closed channel is not sent to:          *)
(* NoSendOnClosed is inductive.  The worker closes a channel after its     *)
(* sender has come to a place that it does not leave, and every other step *)
(* of a sender starts elsewhere.                                           *)
(***************************************************************************)
LEMMA ClosedInit == ControlInit => NoSendOnClosed
  BY DEF ControlInit, NoSendOnClosed, ReadChClosed, SendChClosed

LEMMA ClosedStep == NoSendOnClosed /\ [ControlNext]_controlVars => NoSendOnClosed'
  <1> SUFFICES ASSUME NoSendOnClosed, [ControlNext]_controlVars PROVE NoSendOnClosed'
    OBVIOUS
  <1> USE DEF NoSendOnClosed, ReadChClosed, SendChClosed
  <1>1. CASE ReaderGets \/ ReaderPuts \/ ReaderEnds
    BY <1>1 DEF ReaderGets, ReaderPuts, ReaderEnds
  <1>2. CASE HandlerPings \/ HandlerSent \/ HandlerTimesOut \/ HandlerTakes \/ HandlerEnds
    BY <1>2 DEF HandlerPings, HandlerSent, HandlerTimesOut, HandlerTakes, HandlerEnds
  <1>3. CASE HandlerLooksUp \/ HandlerSets
    BY <1>3 DEF HandlerLooksUp, HandlerSets, Puts, Room
  <1>4. CASE WriterSends \/ WriterEnds \/ ConnFails
    BY <1>4 DEF WriterSends, WriterEnds, ConnFails
  <1>5. ASSUME NEW w \in Wrappers, CheckSends(w) \/ CheckSent(w) \/ ReloadStarts(w) PROVE NoSendOnClosed'
    BY <1>5 DEF CheckSends, CheckSent, ReloadStarts, Puts, Room
  <1>6. CASE PmStops \/ PmStopped
    BY <1>6 DEF PmStops, PmStopped, Puts, Room
  <1>7. CASE Manager \/ ReloadLocks
    BY <1>7 DEF Manager, CloseLocks, CloseUnlocks, ReloadLocks, ReloadUnlocks, PmLocks
  <1>8. CASE WorkerWakes \/ WorkerClosesSend \/ WorkerClosesProxies \/ WorkerEnds
    BY <1>8 DEF WorkerWakes, WorkerClosesSend, WorkerClosesProxies, WorkerEnds, WorkerGoes
  <1>9. CASE CloseCalled \/ CloseHangsUp \/ CloseStopsVisitors
    BY <1>9 DEF CloseCalled, CloseHangsUp, CloseStopsVisitors, Closing
  <1>10. CASE UNCHANGED controlVars
    BY <1>10 DEF controlVars
  <1> QED BY <1>1, <1>2, <1>3, <1>4, <1>5, <1>6, <1>7, <1>8, <1>9, <1>10 DEF ControlNext, Goroutines

(* NoSendOnClosed: neither the reader nor the message handler sends to a   *)
(* channel that the worker has closed (client/control.go:261, 317).        *)
THEOREM ClientSendersStopFirst == ControlSpec => []NoSendOnClosed
  BY ClosedInit, ClosedStep, PTL DEF ControlSpec

(* What is in the channels.  A full channel makes its sender wait: no      *)
(* interleaving of Close, the reloads, the proxies and the handler puts    *)
(* more into sendCh than it holds.                                         *)
WithinCapacity == readCh \in 0..Cap /\ sendCh \in 0..Cap

LEMMA CapacityInit == ControlInit => WithinCapacity
  BY CapAssumption DEF ControlInit, WithinCapacity

LEMMA CapacityStep == WithinCapacity /\ [ControlNext]_controlVars => WithinCapacity'
  <1> SUFFICES ASSUME WithinCapacity, [ControlNext]_controlVars PROVE WithinCapacity'
    OBVIOUS
  <1> USE CapAssumption DEF WithinCapacity
  <1>1. CASE ReaderGets \/ ReaderPuts \/ ReaderEnds
    BY <1>1 DEF ReaderGets, ReaderPuts, ReaderEnds
  <1>2. CASE HandlerPings \/ HandlerSent \/ HandlerTimesOut \/ HandlerTakes \/ HandlerEnds
    BY <1>2 DEF HandlerPings, HandlerSent, HandlerTimesOut, HandlerTakes, HandlerEnds
  <1>3. CASE HandlerLooksUp \/ HandlerSets
    BY <1>3 DEF HandlerLooksUp, HandlerSets, Puts, Room
  <1>4. CASE WriterSends \/ WriterEnds \/ ConnFails
    BY <1>4 DEF WriterSends, WriterEnds, ConnFails
  <1>5. ASSUME NEW w \in Wrappers, CheckSends(w) \/ CheckSent(w) \/ ReloadStarts(w) PROVE WithinCapacity'
    BY <1>5 DEF CheckSends, CheckSent, ReloadStarts, Puts, Room
  <1>6. CASE PmStops \/ PmStopped
    BY <1>6 DEF PmStops, PmStopped, Puts, Room
  <1>7. CASE Manager \/ ReloadLocks
    BY <1>7 DEF Manager, CloseLocks, CloseUnlocks, ReloadLocks, ReloadUnlocks, PmLocks
  <1>8. CASE WorkerWakes \/ WorkerClosesSend \/ WorkerClosesProxies \/ WorkerEnds
    BY <1>8 DEF WorkerWakes, WorkerClosesSend, WorkerClosesProxies, WorkerEnds, WorkerGoes
  <1>9. CASE CloseCalled \/ CloseHangsUp \/ CloseStopsVisitors
    BY <1>9 DEF CloseCalled, CloseHangsUp, CloseStopsVisitors, Closing
  <1>10. CASE UNCHANGED controlVars
    BY <1>10 DEF controlVars
  <1> QED BY <1>1, <1>2, <1>3, <1>4, <1>5, <1>6, <1>7, <1>8, <1>9, <1>10 DEF ControlNext, Goroutines

(* The bound on both channels, for every interleaving.                     *)
THEOREM ChannelsWithinCapacity == ControlSpec => []WithinCapacity
  BY CapacityInit, CapacityStep, PTL DEF ControlSpec

(* What a goroutine of the control can do now, by the guards of the steps that ControlFairness  *)
(* owes it.                                                                                     *)
ReaderCanGo == (reader = "put" /\ readCh < Cap) \/ (reader = "read" /\ conn = "closed")

HandlerCanGo ==
  \/ handler \in {"ping", "close"} /\ sendCh < Cap
  \/ handler = "pm" /\ pm = PmFree
  \/ handler = "pw" /\ ~Locked(asked)
  \/ handler = "loop" /\ (readCh > 0 \/ ReadChClosed \/ conn = "mute")

WriterCanGo == writer = "loop" /\ IF sendCh = 0 THEN SendChClosed ELSE conn # "mute"

ProxiesCanGo ==
  \/ \E w \in Wrappers : wrapper[w] = "check" /\ Room
  \/ pm.by # "free" /\ pm.at = NoWrapper
  \/ pm.at # NoWrapper /\ \/ wrapper[pm.at] = "idle" /\ ~Locked(pm.at)
                          \/ wrapper[pm.at] = "stop" /\ Room

WorkerCanGo ==
  \/ worker = "wait" /\ reader = "done"
  \/ worker = "handler" /\ handler \in {"quit", "done"}
  \/ worker = "writer" /\ writer = "done" /\ pm = PmFree /\ \A w \in Wrappers : ~Locked(w)
  \/ worker = "vm"

(* A control that lost its connection stands still only when it has ended or hangs. *)
StandsOnlyIfHung ==
  conn # "open" =>
    worker = "done" \/ Hung \/ ReaderCanGo \/ HandlerCanGo \/ WriterCanGo \/ ProxiesCanGo
      \/ WorkerCanGo

(* Who has ended has left a closed connection or a closed channel behind.  *)
EndsInv ==
  /\ conn \in {"open", "mute", "closed"}
  /\ reader \in {"read", "put", "done"}
  /\ handler \in {"loop", "ping", "pm", "pw", "close", "quit", "done"}
  /\ writer \in {"loop", "done"}
  /\ worker \in {"wait", "handler", "writer", "vm", "done"}
  /\ handler \in {"pm", "pw", "close"} => asked \in Wrappers
  /\ reader = "done" => conn = "closed"
  /\ handler = "done" => conn = "closed"
  /\ ReadChClosed => reader = "done"

LEMMA EndsInit == ControlInit => EndsInv
  BY DEF ControlInit, EndsInv, ReadChClosed

LEMMA EndsStep == EndsInv /\ [ControlNext]_controlVars => EndsInv'
  <1> SUFFICES ASSUME EndsInv, [ControlNext]_controlVars PROVE EndsInv'
    OBVIOUS
  <1> USE DEF EndsInv, ReadChClosed
  <1>1. CASE ReaderGets \/ ReaderPuts \/ ReaderEnds
    BY <1>1 DEF ReaderGets, ReaderPuts, ReaderEnds
  <1>2. CASE HandlerPings \/ HandlerSent \/ HandlerTimesOut \/ HandlerTakes \/ HandlerEnds
    BY <1>2 DEF HandlerPings, HandlerSent, HandlerTimesOut, HandlerTakes, HandlerEnds
  <1>3. CASE HandlerLooksUp \/ HandlerSets
    BY <1>3 DEF HandlerLooksUp, HandlerSets, Puts, Room
  <1>4. CASE WriterSends \/ WriterEnds \/ ConnFails
    BY <1>4 DEF WriterSends, WriterEnds, ConnFails
  <1>5. ASSUME NEW w \in Wrappers, CheckSends(w) \/ CheckSent(w) \/ ReloadStarts(w) PROVE EndsInv'
    BY <1>5 DEF CheckSends, CheckSent, ReloadStarts, Puts, Room
  <1>6. CASE PmStops \/ PmStopped
    BY <1>6 DEF PmStops, PmStopped, Puts, Room
  <1>7. CASE Manager \/ ReloadLocks
    BY <1>7 DEF Manager, CloseLocks, CloseUnlocks, ReloadLocks, ReloadUnlocks, PmLocks
  <1>8. CASE WorkerWakes \/ WorkerClosesSend \/ WorkerClosesProxies \/ WorkerEnds
    BY <1>8 DEF WorkerWakes, WorkerClosesSend, WorkerClosesProxies, WorkerEnds, WorkerGoes
  <1>9. CASE CloseCalled \/ CloseHangsUp \/ CloseStopsVisitors
    BY <1>9 DEF CloseCalled, CloseHangsUp, CloseStopsVisitors, Closing
  <1>10. CASE UNCHANGED controlVars
    BY <1>10 DEF controlVars
  <1> QED BY <1>1, <1>2, <1>3, <1>4, <1>5, <1>6, <1>7, <1>8, <1>9, <1>10 DEF ControlNext, Goroutines

(* Who holds pm.mu is busy with a wrapper in the manager, and only it is    *)
(* stopped.                                                                 *)
LocksInv ==
  /\ wrapper \in [Wrappers -> {"new", "idle", "check", "stop", "closed"}]
  /\ pm \in [by : {"free", "close", "reload"}, at : Wrappers \union {NoWrapper},
             rest : SUBSET Wrappers]
  /\ pm.by = "free" => pm = PmFree
  /\ pm.at # NoWrapper => wrapper[pm.at] \in {"idle", "check", "stop"}
  /\ \A w \in pm.rest : wrapper[w] \in {"idle", "check"} /\ w # pm.at
  /\ \A w \in Wrappers : wrapper[w] = "stop" => pm.at = w

LEMMA LocksInit == ControlInit => LocksInv
  BY DEF ControlInit, LocksInv, PmFree

\* What the holder of pm.mu turns to.
LEMMA TurnsTo ==
  ASSUME NEW who \in {"close", "reload"}, NEW rest \in SUBSET Wrappers, NEW m \in Turns(who, rest)
  PROVE  /\ m.by = who /\ m.rest \subseteq rest /\ m.at \in rest \union {NoWrapper} /\ m.at \notin m.rest
         /\ m \in [by : {"free", "close", "reload"}, at : Wrappers \union {NoWrapper},
                   rest : SUBSET Wrappers]
  <1>1. CASE rest = {}
    <2>1. m = [by |-> who, at |-> NoWrapper, rest |-> {}]
      BY <1>1 DEF Turns
    <2> QED BY <2>1
  <1>2. CASE rest # {}
    <2>1. PICK w \in rest : m = [by |-> who, at |-> w, rest |-> rest \ {w}]
      BY <1>2 DEF Turns
    <2> QED BY <2>1
  <1> QED BY <1>1, <1>2

LEMMA LocksStep == LocksInv /\ [ControlNext]_controlVars => LocksInv'
  <1> SUFFICES ASSUME LocksInv, [ControlNext]_controlVars PROVE LocksInv'
    OBVIOUS
  <1> USE CapAssumption DEF LocksInv
  <1>1. ASSUME UNCHANGED locks PROVE LocksInv'
    BY <1>1 DEF locks, PmFree
  <1>2. CASE ReaderGets \/ ReaderPuts \/ ReaderEnds
    BY <1>1, <1>2 DEF ReaderGets, ReaderPuts, ReaderEnds
  <1>3. CASE HandlerPings \/ HandlerSent \/ HandlerTimesOut \/ HandlerTakes \/ HandlerEnds
               \/ HandlerLooksUp \/ HandlerSets
    BY <1>1, <1>3 DEF HandlerPings, HandlerSent, HandlerTimesOut, HandlerTakes, HandlerEnds,
                      HandlerLooksUp, HandlerSets
  <1>4. CASE WriterSends \/ WriterEnds \/ ConnFails
    BY <1>1, <1>4 DEF WriterSends, WriterEnds, ConnFails
  <1>5. CASE CloseCalled \/ CloseHangsUp \/ CloseStopsVisitors
    BY <1>1, <1>5 DEF CloseCalled, CloseHangsUp, CloseStopsVisitors, Closing
  \* A wrapper that is idle, is new or waits in checkWorker is not stopped by that.
  <1>6. ASSUME NEW w \in Wrappers, CheckSends(w) \/ CheckSent(w) \/ ReloadStarts(w)
        PROVE  LocksInv'
    <2>1. pm' = pm /\ (wrapper' = wrapper \/ \E to \in {"idle", "check"} :
                         wrapper' = [wrapper EXCEPT ![w] = to])
      BY <1>6 DEF CheckSends, CheckSent, ReloadStarts
    <2>2. wrapper[w] # "stop"
      BY <1>6 DEF CheckSends, CheckSent, ReloadStarts
    <2> QED BY <2>1, <2>2 DEF PmFree
  <1>7. CASE CloseLocks \/ ReloadLocks
    <2>1. PICK who \in {"close", "reload"}, S \in SUBSET InManager : PmLocks(who, S)
      BY <1>7 DEF CloseLocks, ReloadLocks
    <2>2. S \in SUBSET Wrappers /\ pm' \in Turns(who, S) /\ UNCHANGED wrapper /\ pm = PmFree
      BY <2>1 DEF PmLocks, InManager
    <2>3. \A w \in S : wrapper[w] \in {"idle", "check"}
      BY <2>1 DEF InManager
    <2>4. \A w \in Wrappers : wrapper[w] # "stop"
      BY <2>2 DEF PmFree
    <2> QED BY <2>2, <2>3, <2>4, TurnsTo
  \* One that has been stopped is not among those that are left.
  <1>8. CASE PmStops \/ PmStopped
    <2> DEFINE w == pm.at
    <2>1. w \in Wrappers /\ pm.by \in {"close", "reload"}
      BY <1>8 DEF PmStops, PmStopped, PmFree
    <2>2. CASE wrapper' = [wrapper EXCEPT ![w] = "closed"] /\ pm' \in Turns(pm.by, pm.rest)
      <3>1. pm.rest \in SUBSET Wrappers /\ \A v \in Wrappers \ {w} : wrapper[v] # "stop"
        BY <2>1
      <3>2. \A v \in pm.rest : wrapper'[v] \in {"idle", "check"}
        BY <2>1, <2>2
      <3> QED BY <2>1, <2>2, <3>1, <3>2, TurnsTo
    <2>3. CASE wrapper' = [wrapper EXCEPT ![w] = "stop"] /\ UNCHANGED pm
      BY <2>1, <2>3
    <2> QED BY <1>8, <2>2, <2>3 DEF PmStops, PmStopped
  <1>9. CASE CloseUnlocks \/ ReloadUnlocks
    <2>1. pm' = PmFree /\ UNCHANGED wrapper /\ pm.at = NoWrapper
      BY <1>9 DEF CloseUnlocks, ReloadUnlocks
    <2> QED BY <2>1 DEF PmFree
  <1>10. CASE WorkerWakes \/ WorkerClosesSend \/ WorkerEnds
    BY <1>1, <1>10 DEF WorkerWakes, WorkerClosesSend, WorkerEnds, WorkerGoes, locks
  <1>11. CASE WorkerClosesProxies
    <2>1. pm = PmFree /\ UNCHANGED pm
      BY <1>11 DEF WorkerClosesProxies, WorkerGoes
    <2>2. wrapper' = [w \in Wrappers |-> IF w \in InManager THEN "closed" ELSE wrapper[w]]
      BY <1>11 DEF WorkerClosesProxies
    <2> QED BY <2>1, <2>2 DEF PmFree
  <1>12. CASE UNCHANGED controlVars
    BY <1>1, <1>12 DEF controlVars, locks
  <1> QED
    BY <1>2, <1>3, <1>4, <1>5, <1>6, <1>7, <1>8, <1>9, <1>10, <1>11, <1>12
    DEF ControlNext, Goroutines, Manager

LEMMA EndsImplies ==
  EndsInv /\ WithinCapacity /\ LocksInv /\ NoSendOnClosed => StandsOnlyIfHung
  <1> SUFFICES ASSUME EndsInv, WithinCapacity, LocksInv, NoSendOnClosed, conn # "open",
                      worker # "done", ~Hung, ~ReaderCanGo, ~HandlerCanGo, ~WriterCanGo,
                      ~ProxiesCanGo
               PROVE  WorkerCanGo
    BY DEF StandsOnlyIfHung
  <1> USE CapAssumption DEF EndsInv, WithinCapacity
  \* Where there is room nobody waits for it, so nobody waits for a lock either.
  <1>1. ASSUME Room
        PROVE  pm = PmFree /\ (\A w \in Wrappers : ~Locked(w)) /\ handler \in {"loop", "quit", "done"}
    <2>1. handler \notin {"ping", "close"}
      BY <1>1 DEF HandlerCanGo, Room, NoSendOnClosed
    <2>2. \A w \in Wrappers : wrapper[w] \notin {"check", "stop"}
      BY <1>1 DEF ProxiesCanGo, LocksInv
    <2>3. \A w \in Wrappers : ~Locked(w)
      BY <2>1, <2>2 DEF Locked
    <2>4. pm.at = NoWrapper
      <3>1. pm.at \in Wrappers \union {NoWrapper}
        BY DEF LocksInv
      <3>2. pm.at # NoWrapper => wrapper[pm.at] = "idle" /\ ~Locked(pm.at)
        BY <2>2, <2>3, <3>1 DEF LocksInv
      <3> QED BY <3>2 DEF ProxiesCanGo
    <2>5. pm = PmFree
      BY <2>4 DEF ProxiesCanGo, LocksInv
    <2>6. handler \notin {"pm", "pw"}
      BY <2>3, <2>5 DEF HandlerCanGo
    <2> QED BY <2>1, <2>3, <2>5, <2>6
  \* Only a hung handler waits where there is none.
  <1>2. ASSUME ~Room PROVE handler \in {"loop", "quit", "done"}
    <2>1. NoRoomComes
      BY <1>2 DEF Room, NoRoomComes, WriterCanGo
    <2>2. ~HandlerWaits
      BY <2>1 DEF Hung
    <2>3. handler \notin {"ping", "close"} /\ (handler = "pw" => ~Locked(asked))
      BY <2>2 DEF HandlerWaits
    <2>4. handler = "pm" => pm = PmFree
      BY <2>2 DEF HandlerWaits, ProxiesCanGo, LocksInv
    <2> QED BY <2>3, <2>4 DEF HandlerCanGo
  <1>3. handler \in {"loop", "quit", "done"}
    BY <1>1, <1>2
  <1>4. conn = "closed"
    BY <1>3 DEF HandlerCanGo, Hung
  <1>5. reader = "done"
    BY <1>3, <1>4 DEF ReaderCanGo, HandlerCanGo, Hung
  <1>6. worker # "wait" => handler \in {"quit", "done"}
    BY <1>3 DEF HandlerCanGo, ReadChClosed
  <1>7. worker = "writer" => writer = "done" /\ Room
    BY <1>4 DEF WriterCanGo, Room, SendChClosed
  <1> QED BY <1>1, <1>5, <1>6, <1>7 DEF WorkerCanGo

(* No deadlock but those listed: with channels of any capacity and any     *)
(* number of proxies, as long as a control that lost its connection has    *)
(* neither ended nor come to hang as Hung says, somebody has a step to     *)
(* take, so that "reader and writer and handler will exit"                 *)
(* (client/control.go:348-367), whoever holds the locks of the proxies     *)
(* (client/proxy/proxy_manager.go:43-93).  This is the part of ControlEnds *)
(* that needs no fairness.                                                 *)
THEOREM LostControlsMove == ControlSpec => []StandsOnlyIfHung
  BY CapacityInit, CapacityStep, EndsInit, EndsStep, LocksInit, LocksStep, ClosedInit, ClosedStep,
     EndsImplies, PTL DEF ControlSpec
-----------------------------------------------------------------------------
(***************************************************************************)
(* The life of a control, as ControlLife tells it: once from its           *)
(* goroutines and once from the service.                                   *)
(***************************************************************************)
(* What the service knows of a control.  Whether it hangs is for good      *)
(* shows only later.                                                       *)
LifeOf ==
  IF worker = "done" THEN "ended" ELSE IF worker = "vm" THEN "vm"
  ELSE IF conn = "open" THEN "up" ELSE "lost"

Life == INSTANCE ControlLife WITH life <- LifeOf

(* The worker winds nothing up before the connection is gone.              *)
LifeInv ==
  /\ reader = "done" => conn = "closed"
  /\ worker # "wait" => reader = "done"

LEMMA LifeInit == ControlInit => LifeInv /\ Life!Init
  BY DEF ControlInit, LifeInv, Life!Init, LifeOf

LEMMA LifeStep ==
  LifeInv /\ [ControlNext]_controlVars => LifeInv' /\ [Life!Next]_LifeOf
  <1> SUFFICES ASSUME LifeInv, [ControlNext]_controlVars
               PROVE  LifeInv' /\ [Life!Next]_LifeOf
    OBVIOUS
  <1> USE DEF LifeInv, LifeOf
  \* A connection is lost, or stays what it is; it does not come back.
  <1>1. ASSUME UNCHANGED worker, UNCHANGED reader, conn' = conn \/ conn' \in {"mute", "closed"},
               conn = "closed" => conn' = "closed"
        PROVE  LifeInv' /\ [Life!Next]_LifeOf
    <2>1. CASE LifeOf' = LifeOf
      BY <1>1, <2>1
    <2>2. CASE LifeOf = "up" /\ LifeOf' = "lost"
      BY <1>1, <2>2 DEF Life!Next, Life!Lost, Life!Goes
    <2> QED BY <1>1, <2>1, <2>2
  \* The reader closes closedCh only when the connection is closed.
  <1>2. CASE ReaderGets \/ ReaderPuts \/ ReaderEnds
    BY <1>2 DEF ReaderGets, ReaderPuts, ReaderEnds
  <1>3. CASE HandlerPings \/ HandlerSent \/ HandlerTimesOut \/ HandlerTakes \/ HandlerEnds
               \/ HandlerLooksUp \/ HandlerSets
    BY <1>1, <1>3 DEF HandlerPings, HandlerSent, HandlerTimesOut, HandlerTakes, HandlerEnds,
                      HandlerLooksUp, HandlerSets
  <1>4. CASE WriterSends \/ WriterEnds \/ ConnFails
    BY <1>1, <1>4 DEF WriterSends, WriterEnds, ConnFails
  <1>5. CASE CloseCalled \/ CloseHangsUp \/ CloseStopsVisitors
    BY <1>1, <1>5 DEF CloseCalled, CloseHangsUp, CloseStopsVisitors, Closing
  \* The proxies and their manager know nothing of the connection.
  <1>10. ASSUME NEW w \in Wrappers, CheckSends(w) \/ CheckSent(w) \/ ReloadStarts(w)
         PROVE  LifeInv' /\ [Life!Next]_LifeOf
    BY <1>1, <1>10 DEF CheckSends, CheckSent, ReloadStarts
  <1>11. CASE Manager \/ ReloadLocks \/ PmStops \/ PmStopped
    BY <1>1, <1>11 DEF Manager, CloseLocks, CloseUnlocks, ReloadLocks, ReloadUnlocks, PmLocks,
                       PmStops, PmStopped
  <1>6. CASE WorkerWakes \/ WorkerClosesSend
    BY <1>6 DEF WorkerWakes, WorkerClosesSend, WorkerGoes
  <1>7. CASE WorkerClosesProxies
    <2>1. LifeOf = "lost" /\ LifeOf' = "vm"
      BY <1>7 DEF WorkerClosesProxies, WorkerGoes
    <2>2. [Life!Next]_LifeOf
      BY <2>1 DEF Life!Next, Life!ClosesProxies, Life!Goes
    <2> QED BY <1>7, <2>2 DEF WorkerClosesProxies, WorkerGoes
  <1>8. CASE WorkerEnds
    <2>1. LifeOf = "vm" /\ LifeOf' = "ended"
      BY <1>8 DEF WorkerEnds, WorkerGoes
    <2>2. [Life!Next]_LifeOf
      BY <2>1 DEF Life!Next, Life!Ends, Life!Goes
    <2> QED BY <1>8, <2>2 DEF WorkerEnds, WorkerGoes
  <1>9. CASE UNCHANGED controlVars
    BY <1>9 DEF controlVars
  <1> QED BY <1>2, <1>3, <1>4, <1>5, <1>6, <1>7, <1>8, <1>9, <1>10, <1>11 DEF ControlNext, Goroutines

(* Seen from the service, a control loses its connection once, closes its  *)
(* proxies only after that, and ends after that, in any interleaving of    *)
(* its goroutines with Close (client/control.go:349-367): whoever waits on *)
(* closedDoneCh logs in without the old connection.                        *)
THEOREM ControlImplementsLife == ControlSpec => Life!Spec
  BY LifeInit, LifeStep, PTL DEF ControlSpec, Life!Spec

(* In the service, the control with number c.                              *)
Each(c) == INSTANCE ControlLife WITH life <- life[c]

(* The controls that the keeper has yet to make are not there.             *)
NumbersInv == SessionInv /\ \A c \in Ctls : c > keeper.ctl => life[c] = "none"

LEMMA NumbersInit == Init => NumbersInv
  BY SessionInit DEF Init, NumbersInv

LEMMA NumbersStep == NumbersInv /\ [Next]_vars => NumbersInv'
  <1> SUFFICES ASSUME NumbersInv, [Next]_vars PROVE NumbersInv'
    OBVIOUS
  <1>1. SessionInv'
    BY SessionStep DEF NumbersInv
  <1> USE DEF NumbersInv, SessionInv, Places, Lives5, Ctls, NoCtl
  <1>2. ASSUME UNCHANGED keeper,
               \A c \in Ctls : life'[c] = life[c] \/ life[c] # "none"
        PROVE  NumbersInv'
    BY <1>1, <1>2
  <1>3. ASSUME NEW c \in Ctls, CtlLost(c) \/ CtlHangs(c) \/ CtlClosesProxies(c) \/ CtlEnds(c)
        PROVE  NumbersInv'
    BY <1>2, <1>3 DEF CtlLost, CtlHangs, CtlClosesProxies, CtlEnds, Lives, service
  <1>4. ASSUME NEW c \in Ctls, NEW ok \in BOOLEAN, VMTick(c, ok) \/ VMStops(c)
        PROVE  NumbersInv'
    BY <1>2, <1>4 DEF VMTick, VMStops, service
  <1>5. ASSUME NEW r \in Admins, NEW ok \in BOOLEAN, ReloadVisitors(r, ok) PROVE NumbersInv'
    BY <1>2, <1>5 DEF ReloadVisitors, service
  <1>6. ASSUME NEW r \in Admins, NEW v \in Cfgs, ReloadStores(r, v) PROVE NumbersInv'
    BY <1>2, <1>6 DEF ReloadStores, session
  <1>7. CASE CloseBegins \/ CloseProxies \/ CloseVisitors
    BY <1>2, <1>7 DEF CloseBegins, CloseProxies, CloseVisitors, session, service
  <1>12. ASSUME NEW r \in Admins, ReloadTakes(r) \/ ReloadProxies(r) PROVE NumbersInv'
    BY <1>2, <1>12 DEF ReloadTakes, ReloadProxies, session, service
  <1>8. CASE CloseConn
    BY <1>2, <1>8 DEF CloseConn, service
  <1>9. ASSUME NEW ok \in BOOLEAN, KeeperLogsIn(ok) PROVE NumbersInv'
    <2>1. keeper' = [at |-> "made", ctl |-> keeper.ctl + 1]
      BY <1>9 DEF KeeperLogsIn
    <2>2. life' = [life EXCEPT ![keeper.ctl + 1] = "up"]
      BY <1>9 DEF KeeperLogsIn
    <2>3. keeper.ctl \in Nat
      BY ServiceAssumption
    <2>4. ASSUME NEW c \in Ctls, c > keeper'.ctl PROVE life'[c] = "none"
      <3>1. c > keeper.ctl /\ c # keeper.ctl + 1
        BY <2>1, <2>3, <2>4
      <3> QED BY <2>2, <3>1
    <2> QED BY <1>1, <2>4
  <1>10. CASE FirstLoginFails \/ KeeperInstalls \/ KeeperWakes
    <2>1. keeper'.ctl = keeper.ctl /\ UNCHANGED life
      BY <1>10 DEF FirstLoginFails, KeeperInstalls, KeeperWakes, session
    <2> QED BY <1>1, <2>1
  <1>11. CASE UNCHANGED vars
    BY <1>2, <1>11 DEF vars, session, service
  <1> QED
    BY <1>3, <1>4, <1>5, <1>6, <1>7, <1>8, <1>9, <1>10, <1>11, <1>12 DEF Next

LEMMA EachStep ==
  ASSUME NEW c \in Ctls, NumbersInv, [Next]_vars
  PROVE  [Each(c)!Next]_(life[c])
  <1> USE DEF NumbersInv, SessionInv, Places, Lives5
  <1>1. CASE life'[c] = life[c]
    BY <1>1
  <1>2. ASSUME NEW d \in Ctls, CtlLost(d) \/ CtlHangs(d) \/ CtlClosesProxies(d) \/ CtlEnds(d)
        PROVE  [Each(c)!Next]_(life[c])
    <2>1. CASE d # c
      <3>1. life'[c] = life[c]
        BY <1>2, <2>1 DEF CtlLost, CtlHangs, CtlClosesProxies, CtlEnds, Lives
      <3> QED BY <3>1
    <2>2. CASE d = c
      <3> USE <2>2 DEF Lives, Each!Next, Each!Goes
      <3>1. CASE CtlLost(d)
        BY <3>1 DEF CtlLost, Each!Lost
      <3>2. CASE CtlHangs(d)
        BY <3>2 DEF CtlHangs, Each!Hangs
      <3>3. CASE CtlClosesProxies(d)
        BY <3>3 DEF CtlClosesProxies, Each!ClosesProxies
      <3>4. CASE CtlEnds(d)
        BY <3>4 DEF CtlEnds, Each!Ends
      <3> QED BY <1>2, <3>1, <3>2, <3>3, <3>4
    <2> QED BY <2>1, <2>2
  \* A control is made once: its number was not used before.
  <1>3. ASSUME NEW ok \in BOOLEAN, KeeperLogsIn(ok) PROVE [Each(c)!Next]_(life[c])
    <2>1. life' = [life EXCEPT ![keeper.ctl + 1] = "up"]
      BY <1>3 DEF KeeperLogsIn
    <2>2. CASE c = keeper.ctl + 1
      <3>1. life[c] = "none" /\ life'[c] = "up"
        BY <2>1, <2>2, ServiceAssumption DEF Ctls, NoCtl
      <3> QED BY <3>1 DEF Each!Next, Each!Made, Each!Goes
    <2>3. CASE c # keeper.ctl + 1
      BY <1>1, <2>1, <2>3
    <2> QED BY <2>2, <2>3
  <1>4. CASE CloseConn
    <2>1. life'[c] = life[c] \/ (life[c] = "up" /\ life'[c] = "lost")
      BY <1>4 DEF CloseConn
    <2>2. CASE life[c] = "up" /\ life'[c] = "lost"
      BY <2>2 DEF Each!Next, Each!Lost, Each!Goes
    <2> QED BY <1>1, <2>1, <2>2
  <1>5. ASSUME NEW d \in Ctls, NEW ok \in BOOLEAN, VMTick(d, ok) \/ VMStops(d)
        PROVE  [Each(c)!Next]_(life[c])
    BY <1>1, <1>5 DEF VMTick, VMStops
  <1>6. ASSUME NEW r \in Admins, NEW ok \in BOOLEAN, ReloadVisitors(r, ok)
        PROVE  [Each(c)!Next]_(life[c])
    BY <1>1, <1>6 DEF ReloadVisitors
  <1>7. ASSUME NEW r \in Admins,
               (\E v \in Cfgs : ReloadStores(r, v)) \/ ReloadTakes(r) \/ ReloadProxies(r)
        PROVE  [Each(c)!Next]_(life[c])
    BY <1>1, <1>7 DEF ReloadStores, ReloadTakes, ReloadProxies, session
  <1>8. CASE CloseBegins \/ CloseProxies \/ CloseVisitors
             \/ FirstLoginFails \/ KeeperInstalls \/ KeeperWakes
    BY <1>1, <1>8 DEF CloseBegins, CloseProxies, CloseVisitors,
                      FirstLoginFails, KeeperInstalls, KeeperWakes, session
  <1>9. CASE UNCHANGED vars
    BY <1>1, <1>9 DEF vars, session
  <1> QED BY <1>2, <1>3, <1>4, <1>5, <1>6, <1>7, <1>8, <1>9 DEF Next

(* Every control of the service lives as ControlLife says, so what         *)
(* ClientService takes a control to be is what its goroutines make of it   *)
(* (client/service.go:166-209).                                            *)
THEOREM EachControlLives ==
  ASSUME NEW c \in Ctls
  PROVE  Spec => Each(c)!Spec
  <1>1. Init => Each(c)!Init
    BY DEF Init, Each!Init
  <1>2. NumbersInv /\ [Next]_vars => [Each(c)!Next]_(life[c])
    BY EachStep
  <1> QED BY <1>1, <1>2, NumbersInit, NumbersStep, PTL DEF Spec, Each!Spec
-----------------------------------------------------------------------------
(***************************************************************************)
(* Where the service stands still.                                         *)
(***************************************************************************)
\* What it can do, by the guards of the steps that FairSpec owes it.
ServiceCanGo ==
  \/ \E c \in Ctls :
       \/ life[c] \in {"lost", "vm"}
       \/ vm[c].loop /\ vm[c].stopped
       \/ life[c] # "none" /\ vm[c].loop /\ vm[c].cfg # EmptyCfg /\ ~vm[c].visitor /\ MayListen(c)
  \/ keeper.at = "login" /\ keeper.ctl < MaxCtl
  \/ keeper.at = "made"
  \/ keeper.at = "wait" /\ life[svrCtl] = "ended"
  \/ \E r \in Admins :
       \/ reload[r].at \in {"take", "vm"}
       \/ reload[r].at = "pm" /\ life[reload[r].ctl] # "hung"
  \/ closer.at \in {"conn", "vm"} \/ (closer.at = "pm" /\ life[closer.ctl] # "hung")

(* It stands still only when Close has done its work or was called during  *)
(* a login, and when the visitor of the control in place has its port or a *)
(* stray one has it.                                                       *)
ServiceSettles ==
  ~ServiceCanGo =>
    /\ exit => keeper.at = "exit" \/ lateClose \/ \E c \in Ctls : life[c] = "hung"
    /\ \A c \in Ctls :
         svrCtl = c /\ vm[c].cfg # EmptyCfg /\ ~vm[c].stopped => vm[c].listens \/ stray # {}

\* The controls that somebody holds.
Holders == {keeper.ctl, svrCtl, closer.ctl} \union {reload[r].ctl : r \in Admins}

(* A manager is closed before its control has ended; who listens after     *)
(* that is stray; and nobody holds a control that was not made.            *)
Managed(c) ==
  /\ life[c] = "none" => ~vm[c].listens /\ ~vm[c].stopped
  /\ life[c] = "ended" => vm[c].stopped
  /\ vm[c].stopped \/ vm[c].loop
  /\ vm[c].visitor => vm[c].listens \/ vm[c].stopped
  /\ vm[c].listens => ~vm[c].stopped \/ c \in stray
  /\ c \in Holders => life[c] # "none"

(* A Close that comes while the keeper waits closes the connection of the  *)
(* last control, and the keeper does not log in again.  A first login that *)
(* failed has no control to close.                                         *)
ClosingInv ==
  /\ closer.at \in {"idle", "pm", "conn", "vm", "done"}
  /\ closer.ctl \in Ctls \union {NoCtl}
  /\ closer.at = "idle" <=> ~exit
  /\ closer.at \in {"pm", "conn", "vm"} => closer.ctl \in Ctls
  /\ keeper.at = "exit" => exit \/ keeper.ctl = NoCtl
  /\ exit /\ ~lateClose /\ keeper # [at |-> "exit", ctl |-> NoCtl] =>
       /\ keeper.at \in {"wait", "exit"} /\ closer.ctl = keeper.ctl /\ keeper.ctl \in Ctls
       /\ closer.at \in {"vm", "done"} => life[keeper.ctl] # "up"

SettleInv == NumbersInv /\ ReloadTypes /\ (\A c \in Ctls : Managed(c)) /\ ClosingInv

LEMMA SettleInit == Init => SettleInv
  <1> SUFFICES ASSUME Init PROVE (\A c \in Ctls : Managed(c)) /\ ClosingInv
    BY NumbersInit, ReloadInit DEF SettleInv
  <1>1. Holders \subseteq {NoCtl}
    BY DEF Init, IdleReload, Holders
  <1>2. ASSUME NEW c \in Ctls PROVE Managed(c)
    <2>1. life[c] = "none" /\ vm[c] = VMInit /\ c # NoCtl
      BY ServiceAssumption DEF Init, Ctls, NoCtl
    <2> QED BY <1>1, <2>1 DEF Managed, VMInit
  <1>3. ClosingInv
    BY DEF Init, ClosingInv
  <1> QED BY <1>2, <1>3

\* A step that makes no control and leaves the managers and who holds what alone.
LEMMA ManagedStays ==
  ASSUME NEW c \in Ctls, Managed(c), UNCHANGED <<vm, stray>>,
         life'[c] = life[c] \/ (life[c] # "none" /\ life'[c] \notin {"none", "ended"}),
         c \in Holders' => c \in Holders
  PROVE  Managed(c)'
  BY DEF Managed

\* What starting and closing do to the fields of a manager.
LEMMA StartFields ==
  ASSUME NEW m \in VMs, NEW ok \in BOOLEAN
  PROVE  /\ Started(m, ok).visitor <=> ok
         /\ Started(m, ok).listens <=> ok
         /\ Started(m, ok).stopped <=> m.stopped
         /\ Started(m, ok).loop <=> m.loop
  BY DEF VMs, Started

LEMMA CloseFields ==
  ASSUME NEW m \in VMs
  PROVE  /\ ~VMClosed(m).listens
         /\ VMClosed(m).stopped
         /\ VMClosed(m).loop <=> m.loop
  BY DEF VMs, VMClosed

\* To close a manager leaves nothing that listens.
LEMMA ManagedCloses ==
  ASSUME NEW c \in Ctls, NEW d \in Ctls, Managed(c), ReloadTypes, UNCHANGED stray,
         vm' = [vm EXCEPT ![d] = VMClosed(@)], life[d] # "none",
         life'[c] = life[c] \/ (c = d /\ life'[c] # "none"),
         c \in Holders' => c \in Holders
  PROVE  Managed(c)'
  <1>1. CASE c = d
    <2>1. vm[c] \in VMs /\ vm'[c] = VMClosed(vm[c])
      BY <1>1 DEF ReloadTypes
    <2>2. ~vm'[c].listens /\ vm'[c].stopped
      BY <2>1, CloseFields
    <2>3. life'[c] # "none"
      BY <1>1
    <2> QED BY <2>2, <2>3 DEF Managed
  <1>2. CASE c # d
    <2>1. vm'[c] = vm[c] /\ life'[c] = life[c]
      BY <1>2 DEF ReloadTypes
    <2> QED BY <2>1 DEF Managed
  <1> QED BY <1>1, <1>2

\* To start the visitor of one that is closed makes it stray.
LEMMA ManagedStarts ==
  ASSUME NEW c \in Ctls, NEW d \in Ctls, NEW ok \in BOOLEAN, NEW m \in VMs,
         Managed(c), ReloadTypes,
         m.stopped = vm[d].stopped, m.loop = vm[d].loop,
         vm' = [vm EXCEPT ![d] = Started(m, ok)],
         stray \subseteq stray', ok /\ m.stopped => d \in stray',
         life'[d] # "none", life'[d] = "ended" => vm[d].stopped,
         c # d => life'[c] = life[c],
         c \in Holders' => c \in Holders \/ c = d
  PROVE  Managed(c)'
  <1>1. CASE c = d
    <2>1. vm'[c] = Started(m, ok)
      BY <1>1 DEF ReloadTypes
    <2>2. (vm'[c].visitor <=> ok) /\ (vm'[c].listens <=> ok)
      BY <2>1, StartFields
    <2>3. (vm'[c].stopped <=> vm[c].stopped) /\ (vm'[c].loop <=> vm[c].loop)
      BY <1>1, <2>1, StartFields
    <2> QED BY <1>1, <2>2, <2>3 DEF Managed
  <1>2. CASE c # d
    <2>1. vm'[c] = vm[c]
      BY <1>2 DEF ReloadTypes
    <2> QED BY <1>2, <2>1 DEF Managed
  <1> QED BY <1>1, <1>2

\* A reload starts it, or leaves it as it is.
LEMMA ManagedReloads ==
  ASSUME NEW c \in Ctls, NEW d \in Ctls, NEW v \in Cfgs, NEW ok \in BOOLEAN,
         Managed(c), Managed(d), ReloadTypes,
         vm' = [vm EXCEPT ![d] = VMReload(d, v, ok)],
         stray \subseteq stray', vm[d].stopped /\ vm'[d].listens => d \in stray',
         life'[d] # "none", life'[d] = "ended" => vm[d].stopped,
         c # d => life'[c] = life[c],
         c \in Holders' => c \in Holders \/ c = d
  PROVE  Managed(c)'
  <1>1. CASE vm[d].cfg = v
    <2>1. vm' = vm
      BY <1>1 DEF VMReload, ReloadTypes
    <2> QED BY <2>1 DEF Managed
  <1>2. CASE vm[d].cfg # v
    <2> DEFINE m == [vm[d] EXCEPT !.cfg = v]
               b == ok /\ v # EmptyCfg
    <2>1. m \in VMs /\ m.stopped = vm[d].stopped /\ m.loop = vm[d].loop
      BY DEF ReloadTypes, VMs
    <2>2. vm' = [vm EXCEPT ![d] = Started(m, b)] /\ b \in BOOLEAN
      BY <1>2 DEF VMReload
    <2>3. b /\ m.stopped => d \in stray'
      <3>1. vm'[d] = Started(m, b)
        BY <2>2 DEF ReloadTypes
      <3>2. m \in VMs /\ b \in BOOLEAN
        BY <2>1, <2>2
      <3> HIDE DEF m, b
      <3>3. b => vm'[d].listens
        BY <3>1, <3>2, StartFields
      <3> QED BY <2>1, <3>3
    <2> QED BY <2>1, <2>2, <2>3, ManagedStarts
  <1> QED BY <1>1, <1>2

LEMMA ManagedStep ==
  ASSUME SettleInv, [Next]_vars, NEW c \in Ctls PROVE Managed(c)'
  <1> USE DEF SettleInv, NumbersInv
  <1>t. Managed(c)
    OBVIOUS
  <1>1. ASSUME NEW d \in Ctls, CtlLost(d) \/ CtlHangs(d) \/ CtlClosesProxies(d)
        PROVE  Managed(c)'
    <2>1. UNCHANGED <<vm, stray, keeper, svrCtl, closer, reload>>
      BY <1>1 DEF CtlLost, CtlHangs, CtlClosesProxies, Lives, service, admin, closing
    <2>2. life'[c] = life[c] \/ (life[c] # "none" /\ life'[c] \notin {"none", "ended"})
      BY <1>1 DEF CtlLost, CtlHangs, CtlClosesProxies, Lives, SessionInv
    <2> QED BY <1>t, <2>1, <2>2, ManagedStays DEF Holders
  \* The worker closes the manager and then closedDoneCh.
  <1>2. ASSUME NEW d \in Ctls, CtlEnds(d) PROVE Managed(c)'
    <2>1. /\ UNCHANGED <<stray, keeper, svrCtl, closer, reload>>
          /\ vm' = [vm EXCEPT ![d] = VMClosed(@)] /\ life[d] = "vm"
      BY <1>2 DEF CtlEnds, Lives, service, admin, closing
    <2>2. life'[c] = life[c] \/ (c = d /\ life'[c] # "none")
      BY <1>2 DEF CtlEnds, Lives, SessionInv
    <2> QED BY <1>t, <2>1, <2>2, ManagedCloses DEF Holders
  <1>3. ASSUME NEW d \in Ctls, NEW ok \in BOOLEAN, VMTick(d, ok) PROVE Managed(c)'
    <2>1. UNCHANGED <<life, keeper, svrCtl, closer, reload>>
      BY <1>3 DEF VMTick, service, admin, closing
    <2>2. vm' = [vm EXCEPT ![d] = Started(vm[d], ok)] /\ vm[d] \in VMs
      BY <1>3 DEF VMTick, ReloadTypes
    <2>3. stray \subseteq stray' /\ (ok /\ vm[d].stopped => d \in stray')
      BY <1>3 DEF VMTick
    <2>4. life[d] # "none" /\ (life[d] = "ended" => vm[d].stopped)
      BY <1>3 DEF VMTick, Managed
    <2> QED BY <1>t, <2>1, <2>2, <2>3, <2>4, ManagedStarts DEF Holders
  <1>4. ASSUME NEW d \in Ctls, VMStops(d) PROVE Managed(c)'
    <2>1. UNCHANGED <<life, stray, keeper, svrCtl, closer, reload>>
      BY <1>4 DEF VMStops, service, admin, closing
    <2>2. vm'[c] = IF c = d THEN [vm[c] EXCEPT !.loop = FALSE] ELSE vm[c]
      BY <1>4 DEF VMStops, ReloadTypes
    <2>3. /\ vm'[c].visitor = vm[c].visitor /\ vm'[c].listens = vm[c].listens
          /\ vm'[c].stopped = vm[c].stopped
      BY <2>2 DEF ReloadTypes, VMs
    <2>4. vm'[c].stopped \/ vm'[c].loop
      BY <1>4, <1>t, <2>2, <2>3 DEF VMStops, Managed
    <2> QED BY <1>t, <2>1, <2>3, <2>4 DEF Managed, Holders
  <1>5. ASSUME NEW r \in Admins, NEW ok \in BOOLEAN, ReloadVisitors(r, ok) PROVE Managed(c)'
    <2> DEFINE d == reload[r].ctl
               v == reload[r].cfg
    <2>1. d \in Ctls /\ v \in Cfgs
      BY <1>5 DEF ReloadVisitors, ReloadTypes, ReloadTypeOK
    <2>2. life[d] # "none" /\ (life[d] = "ended" => vm[d].stopped) /\ Managed(d)
      BY <2>1 DEF Managed, Holders
    <2>3. UNCHANGED <<life, keeper, svrCtl, closer>> /\ vm' = [vm EXCEPT ![d] = VMReload(d, v, ok)]
      BY <1>5 DEF ReloadVisitors, service, closing
    <2>4. stray \subseteq stray' /\ (vm[d].stopped /\ vm'[d].listens => d \in stray')
      BY <1>5 DEF ReloadVisitors
    <2>5. \A q \in Admins : reload'[q].ctl = reload[q].ctl
      BY <1>5, VisitorFields
    <2>6. Holders' = Holders
      BY <2>3, <2>5 DEF Holders
    <2> HIDE DEF d, v
    <2> QED BY <1>t, <2>1, <2>2, <2>3, <2>4, <2>6, ManagedReloads
  \* What reloads and Close take is the control in place.
  <1>6. ASSUME NEW r \in Admins, NEW v \in Cfgs, ReloadStores(r, v) PROVE Managed(c)'
    <2>1. UNCHANGED <<vm, stray, life, keeper, svrCtl, closer>>
      BY <1>6 DEF ReloadStores, session, closing
    <2>2. reload'[r].ctl = NoCtl /\ NoCtl \notin Ctls /\ \A q \in Admins \ {r} : reload'[q] = reload[q]
      BY <1>6, StoreFields DEF NoCtl, Ctls
    <2>3. c \in Holders' => c \in Holders
      BY <2>1, <2>2 DEF Holders
    <2> QED BY <1>t, <2>1, <2>3, ManagedStays
  <1>7. ASSUME NEW r \in Admins, ReloadTakes(r) \/ ReloadProxies(r) PROVE Managed(c)'
    <2>1. UNCHANGED <<vm, stray, life, keeper, svrCtl, closer>>
      BY <1>7 DEF ReloadTakes, ReloadProxies, session, service, closing
    <2>2. reload'[r].ctl \in {svrCtl, NoCtl} /\ NoCtl \notin Ctls
      BY <1>7, TakeFields, ProxyFields DEF NoCtl, Ctls
    <2>3. \A q \in Admins \ {r} : reload'[q] = reload[q]
      BY <1>7, TakeFields, ProxyFields
    <2>4. c \in Holders' => c \in Holders
      BY <2>1, <2>2, <2>3 DEF Holders
    <2> QED BY <1>t, <2>1, <2>4, ManagedStays
  <1>8. CASE CloseBegins \/ CloseProxies
    <2>1. UNCHANGED <<vm, stray, life, keeper, svrCtl, reload>>
      BY <1>8 DEF CloseBegins, CloseProxies, session, service, admin
    <2>2. closer'.ctl \in {svrCtl, closer.ctl}
      <3>1. CASE CloseBegins
        BY <3>1 DEF CloseBegins
      <3>2. CASE CloseProxies
        BY <3>2 DEF CloseProxies
      <3> QED BY <1>8, <3>1, <3>2
    <2> QED BY <1>t, <2>1, <2>2, ManagedStays DEF Holders
  <1>9. CASE CloseConn
    <2>1. UNCHANGED <<vm, stray, keeper, svrCtl, reload>> /\ closer'.ctl = closer.ctl
      BY <1>9 DEF CloseConn, service, admin
    <2>2. life'[c] = life[c] \/ (life[c] # "none" /\ life'[c] \notin {"none", "ended"})
      BY <1>9 DEF CloseConn, SessionInv
    <2> QED BY <1>t, <2>1, <2>2, ManagedStays DEF Holders
  <1>10. CASE CloseVisitors
    <2> DEFINE d == closer.ctl
    <2>1. d \in Ctls /\ life[d] # "none"
      BY <1>10 DEF CloseVisitors, ClosingInv, Managed, Holders
    <2>2. /\ UNCHANGED <<life, stray, keeper, svrCtl, reload>> /\ closer'.ctl = d
          /\ vm' = [vm EXCEPT ![d] = VMClosed(@)]
      BY <1>10 DEF CloseVisitors, service, admin
    <2> QED BY <1>t, <2>1, <2>2, ManagedCloses DEF Holders
  \* The number of a new control was not used before.
  <1>11. ASSUME NEW ok \in BOOLEAN, KeeperLogsIn(ok) PROVE Managed(c)'
    <2> DEFINE d == keeper.ctl + 1
    <2>1. d \in Ctls /\ life[d] = "none"
      BY <1>11, ServiceAssumption DEF KeeperLogsIn, SessionInv, Ctls, NoCtl
    <2>2. /\ UNCHANGED <<stray, svrCtl, closer, reload>> /\ keeper'.ctl = d
          /\ vm' = [vm EXCEPT ![d] = VMReload(d, cfg, ok)]
          /\ life' = [life EXCEPT ![d] = "up"]
      BY <1>11 DEF KeeperLogsIn, closing
    <2>3. Managed(d) /\ ~vm[d].stopped
      BY <2>1 DEF Managed
    <2>4. life'[d] = "up" /\ (c # d => life'[c] = life[c])
      BY <2>1, <2>2 DEF SessionInv
    <2>5. cfg \in Cfgs /\ (c \in Holders' => c \in Holders \/ c = d)
      BY <2>2 DEF ReloadTypes, Holders
    <2> HIDE DEF d
    <2> QED BY <1>t, <2>1, <2>2, <2>3, <2>4, <2>5, ManagedReloads
  <1>12. CASE KeeperInstalls
    <2>1. UNCHANGED <<life, stray, closer, reload>> /\ svrCtl' = keeper.ctl /\ keeper'.ctl = keeper.ctl
      BY <1>12 DEF KeeperInstalls, SessionInv, closing
    <2>2. CASE svrCtl = NoCtl
      <3>1. vm' = vm
        BY <1>12, <2>2 DEF KeeperInstalls
      <3> QED BY <1>t, <2>1, <3>1, ManagedStays DEF Holders
    <2>3. CASE svrCtl # NoCtl
      <3>1. svrCtl \in Ctls /\ life[svrCtl] # "none"
        BY <2>3 DEF ReloadTypes, Managed, Holders
      <3>2. vm' = [vm EXCEPT ![svrCtl] = VMClosed(@)]
        BY <1>12, <2>3 DEF KeeperInstalls
      <3> QED BY <1>t, <2>1, <3>1, <3>2, ManagedCloses DEF Holders
    <2> QED BY <2>2, <2>3
  <1>13. CASE KeeperWakes \/ FirstLoginFails
    <2>1. UNCHANGED <<vm, stray, life, svrCtl, closer, reload>> /\ keeper'.ctl = keeper.ctl
      BY <1>13 DEF KeeperWakes, FirstLoginFails, SessionInv, session, admin, closing
    <2> QED BY <1>t, <2>1, ManagedStays DEF Holders
  <1>14. CASE UNCHANGED vars
    <2>1. UNCHANGED <<vm, stray, life, keeper, svrCtl, closer, reload>>
      BY <1>14 DEF vars, session, service, admin, closing
    <2> QED BY <1>t, <2>1, ManagedStays DEF Holders
  <1> QED
    BY <1>1, <1>2, <1>3, <1>4, <1>5, <1>6, <1>7, <1>8, <1>9, <1>10, <1>11, <1>12, <1>13, <1>14
    DEF Next

LEMMA ClosingStep == SettleInv /\ [Next]_vars => ClosingInv'
  <1> SUFFICES ASSUME SettleInv, [Next]_vars PROVE ClosingInv'
    OBVIOUS
  <1> USE DEF SettleInv, NumbersInv, ClosingInv
  \* No control comes up again, and the keeper stays where it is.
  <1>1. ASSUME UNCHANGED <<keeper, exit, closer, lateClose>>,
               \A c \in Ctls : life'[c] = "up" => life[c] = "up"
        PROVE  ClosingInv'
    BY <1>1
  <1>2. ASSUME NEW d \in Ctls, CtlLost(d) \/ CtlHangs(d) \/ CtlClosesProxies(d) \/ CtlEnds(d)
        PROVE  ClosingInv'
    <2>1. UNCHANGED <<keeper, exit, closer, lateClose>>
      BY <1>2 DEF CtlLost, CtlHangs, CtlClosesProxies, CtlEnds, Lives, service, closing
    <2>2. \A c \in Ctls : life'[c] = "up" => life[c] = "up"
      BY <1>2 DEF CtlLost, CtlHangs, CtlClosesProxies, CtlEnds, Lives, SessionInv
    <2> QED BY <1>1, <2>1, <2>2
  <1>3. ASSUME NEW d \in Ctls, NEW ok \in BOOLEAN, VMTick(d, ok) \/ VMStops(d)
        PROVE  ClosingInv'
    BY <1>1, <1>3 DEF VMTick, VMStops, service, closing
  <1>4. ASSUME NEW r \in Admins, NEW ok \in BOOLEAN, ReloadVisitors(r, ok) PROVE ClosingInv'
    BY <1>1, <1>4 DEF ReloadVisitors, service, closing
  <1>5. ASSUME NEW r \in Admins, NEW v \in Cfgs, ReloadStores(r, v) PROVE ClosingInv'
    BY <1>1, <1>5 DEF ReloadStores, session, closing
  <1>6. ASSUME NEW r \in Admins, ReloadTakes(r) \/ ReloadProxies(r) PROVE ClosingInv'
    BY <1>1, <1>6 DEF ReloadTakes, ReloadProxies, session, service, closing
  \* A keeper that waits has installed the control made last.
  <1>7. CASE CloseBegins
    <2>1. UNCHANGED <<keeper, svrCtl, life>> /\ exit'
      BY <1>7 DEF CloseBegins, service, session
    <2>2. closer'.at \in {"done", "pm"} /\ closer'.ctl = svrCtl
      BY <1>7 DEF CloseBegins
    <2>3. closer'.at = "pm" => svrCtl \in Ctls
      BY <1>7 DEF CloseBegins, ReloadTypes
    <2>4. ~lateClose' /\ keeper # [at |-> "exit", ctl |-> NoCtl]
            => keeper.at = "wait" /\ svrCtl = keeper.ctl /\ closer'.at = "pm"
      <3>1. keeper.at = "exit" => keeper = [at |-> "exit", ctl |-> NoCtl]
        BY <1>7 DEF CloseBegins, SessionInv
      <3>2. ~lateClose' /\ keeper # [at |-> "exit", ctl |-> NoCtl]
              => keeper.at = "wait" /\ svrCtl = keeper.ctl /\ svrCtl \in Ctls
        BY <1>7, <3>1 DEF CloseBegins, SessionInv, Places
      <3> QED BY <1>7, <3>2, ServiceAssumption DEF CloseBegins, Ctls, NoCtl
    <2>5. svrCtl \in Ctls \union {NoCtl}
      BY DEF ReloadTypes
    <2> QED BY <2>1, <2>2, <2>3, <2>4, <2>5
  <1>8. CASE CloseProxies
    <2>1. UNCHANGED <<keeper, life, exit, lateClose>> /\ closer.at = "pm"
      BY <1>8 DEF CloseProxies, service
    <2>2. closer'.at = "conn" /\ closer'.ctl = closer.ctl
      BY <1>8 DEF CloseProxies
    <2> QED BY <2>1, <2>2
  <1>9. CASE CloseConn
    <2>1. UNCHANGED <<keeper, exit, lateClose>> /\ closer.at = "conn" /\ closer.ctl \in Ctls
      BY <1>9 DEF CloseConn, service
    <2>2. closer'.at = "vm" /\ closer'.ctl = closer.ctl
      BY <1>9 DEF CloseConn
    <2>3. life'[closer.ctl] # "up"
      BY <1>9, <2>1 DEF CloseConn, SessionInv
    <2> QED BY <2>1, <2>2, <2>3
  <1>10. CASE CloseVisitors
    <2>1. UNCHANGED <<keeper, life, exit, lateClose>> /\ closer.at = "vm"
      BY <1>10 DEF CloseVisitors, service
    <2>2. closer'.at = "done" /\ closer'.ctl = closer.ctl
      BY <1>10 DEF CloseVisitors
    <2> QED BY <2>1, <2>2
  \* It logs in and installs what it made only before Close, or across it.
  <1>11. ASSUME NEW ok \in BOOLEAN, KeeperLogsIn(ok) PROVE ClosingInv'
    BY <1>11 DEF KeeperLogsIn, closing, NoCtl
  <1>12. CASE KeeperInstalls
    BY <1>12 DEF KeeperInstalls, closing
  <1>13. CASE KeeperWakes
    <2>1. UNCHANGED <<life, exit, closer, lateClose>> /\ keeper.at = "wait"
      BY <1>13 DEF KeeperWakes, session, closing
    <2>2. /\ keeper'.ctl = keeper.ctl
          /\ keeper'.at = IF exit THEN "exit" ELSE "login"
      BY <1>13 DEF KeeperWakes, SessionInv
    <2> QED BY <2>1, <2>2
  <1>14. CASE FirstLoginFails
    BY <1>14 DEF FirstLoginFails, session, closing
  <1>15. CASE UNCHANGED vars
    BY <1>1, <1>15 DEF vars, session, service, closing
  <1> QED
    BY <1>2, <1>3, <1>4, <1>5, <1>6, <1>7, <1>8, <1>9, <1>10, <1>11, <1>12, <1>13, <1>14, <1>15
    DEF Next

LEMMA SettleImplies == SettleInv => ServiceSettles
  <1> SUFFICES ASSUME SettleInv, ~ServiceCanGo
               PROVE  /\ exit => keeper.at = "exit" \/ lateClose
                                   \/ \E c \in Ctls : life[c] = "hung"
                      /\ \A c \in Ctls :
                           svrCtl = c /\ vm[c].cfg # EmptyCfg /\ ~vm[c].stopped
                             => vm[c].listens \/ stray # {}
    BY DEF ServiceSettles
  <1> USE DEF SettleInv, NumbersInv
  \* The last control is one that Close has hung up on.
  <1>1. ASSUME exit, ~lateClose, keeper.at # "exit" PROVE \E c \in Ctls : life[c] = "hung"
    <2> SUFFICES ASSUME closer.at # "pm" PROVE \E c \in Ctls : life[c] = "hung"
      BY DEF ClosingInv, ServiceCanGo
    <2>1. keeper.at = "wait" /\ closer.at = "done"
      BY <1>1 DEF ClosingInv, ServiceCanGo
    <2>2. keeper.ctl \in Ctls /\ svrCtl = keeper.ctl
      BY <2>1 DEF SessionInv
    <2>3. life[keeper.ctl] \notin {"up", "ended", "lost", "vm"}
      BY <1>1, <2>1, <2>2 DEF ClosingInv, ServiceCanGo
    <2>4. life[keeper.ctl] # "none"
      BY <2>2 DEF Managed, Holders
    <2>5. life[keeper.ctl] = "hung"
      BY <2>2, <2>3, <2>4 DEF SessionInv, Lives5
    <2> QED BY <2>2, <2>5
  \* Who has the port instead is stray, or was not closed and is in place itself.
  <1>2. ASSUME NEW c \in Ctls, svrCtl = c, vm[c].cfg # EmptyCfg, ~vm[c].stopped,
               ~vm[c].listens, stray = {}
        PROVE  FALSE
    <2>1. life[c] # "none" /\ vm[c].loop /\ ~vm[c].visitor
      BY <1>2 DEF Managed, Holders
    <2>2. ~MayListen(c)
      BY <1>2, <2>1 DEF ServiceCanGo
    <2>3. PICK d \in Ctls \ {c} : vm[d].listens
      BY <2>2 DEF MayListen
    <2>4. life[d] \in Lives5
      BY <1>2, <2>3 DEF Managed, SessionInv
    <2>5. d = keeper.ctl /\ keeper.at \in {"made", "wait"}
      BY <2>4 DEF SessionInv
    <2>6. keeper.at = "wait" /\ svrCtl = d
      BY <2>5 DEF SessionInv, ServiceCanGo
    <2> QED BY <1>2, <2>3, <2>6
  <1> QED BY <1>1, <1>2

(* What CloseEndsService and VisitorComesUp come to when nothing is left   *)
(* to do, for any number of logins, reloads and configurations: the keeper *)
(* is not left waiting after a Close that did not cross a login, unless    *)
(* the last control hangs (client/service.go:311-317), and the visitor of  *)
(* the control in place is not left without its port by one that ended     *)
(* (client/visitor_manager.go:51-74).                                      *)
THEOREM ServiceIsNotLeft == Spec => []ServiceSettles
  <1>1. SettleInv /\ [Next]_vars => SettleInv'
    BY NumbersStep, ReloadTypesStep, ManagedStep, ClosingStep DEF SettleInv, NumbersInv
  <1> QED BY SettleInit, <1>1, SettleImplies, PTL DEF Spec
=============================================================================
