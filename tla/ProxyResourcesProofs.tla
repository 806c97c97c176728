------------------------ MODULE ProxyResourcesProofs ------------------------
(***************************************************************************)
(* Theorems about what proxies hold on frps, for any number of controls,   *)
(* configurations, ports and group objects: nothing leaks, what is         *)
(* registered is served, and the count of ports is exact, outside the      *)
(* races that ProxyResources names.                                        *)
(*                                                                         *)
(* The argument.  A hold of an instance and the entry it stands for, in    *)
(* the tables of resources, groups and NAT-hole clients, come and go       *)
(* together.  For groups that needs an account of the objects: one that    *)
(* has members owns its resource, whether or not it is still in the table; *)
(* one that is closed has left the table, so whoever joins it is a stray.  *)
(* The reservations of ports follow: what is reserved for a proxy is also  *)
(* its own until a late Release, and a TCP group has reserved its realPort *)
(* as long as it has members.                                              *)
(***************************************************************************)
EXTENDS ProxyResources, FiniteSetTheorems, TLAPS

GroupHows == {"lnGroup", "httpGroup"}
Kept(how) == IF how \in {"port", "route", "secret"} THEN "own" ELSE how

Places == {"idle", "run", "join", "undo", "close", "stop", "stopClose", "ended",
           "wedged", "halfClosed"}
Resting == {"idle", "stop", "ended"}
Starting == {"run", "join", "undo"}
Ending == {"close", "stopClose", "wedged", "halfClosed"}

Holds == [nr : Nat, how : {"own", "nathole"} \union GroupHows, res : Resources,
          obj : Objs \union {None}, index : Indexes \union {None}]
Procs == [at : Places, id : Ids \union {None}, conf : Confs \union {None}, next : Nat,
          held : SUBSET Holds, found : Objs \union {None}]
Proxies == [id : Ids, conf : Confs, held : SUBSET Holds]
Asked == UNION {{w.res : w \in Range(Wants(conf))} : conf \in Confs}
Groups == [members : SUBSET (Ids \X Nat), key : {conf.groupKey : conf \in Confs} \union {None},
           want : Asked \union {None}, res : Resources \union {None},
           real : Resources \union {None}, closed : BOOLEAN]

TypeOK ==
  /\ declared \in [Ctls -> SUBSET Confs]
  /\ used \in [Resources -> Ids \union ({"group"} \X Objs) \union {None}]
  /\ natholes \in [ConfNames -> Ids \union {None}]
  /\ table \in [Indexes -> Objs \union {None}]
  /\ groups \in [Objs -> Groups]
  /\ pxyTable \in [ConfNames -> Ids \union {None}]
  /\ mine \in [Ctls -> SUBSET Proxies]
  /\ portsUsed \in [Ctls -> Int]
  /\ proc \in [Ctls -> Procs]

(***************************************************************************)
(* Names: a registered proxy owns its name; one that is being registered   *)
(* is another instance, a copy exactly if its name is registered here.     *)
(***************************************************************************)
MineOK(c) ==
  /\ IsFiniteSet(mine[c])
  /\ \A m \in mine[c] : m.id[1] = c /\ m.id[3] = 0 /\ pxyTable[m.id[2]] = m.id
  /\ \A m, x \in mine[c] : m.id = x.id => m = x

ProcOK(c) ==
  /\ proc[c].at \in Resting => proc[c].id = None
  /\ proc[c].at \in Starting =>
       /\ proc[c].id \in Ids /\ proc[c].conf \in Confs
       /\ proc[c].id[1] = c /\ proc[c].id[2] = proc[c].conf.name
       /\ \A m \in mine[c] : m.id # proc[c].id
       /\ proc[c].id[3] = 1 => \E m \in mine[c] : m.id[2] = proc[c].id[2]
  /\ proc[c].at \in Ending => \E m \in mine[c] : m.id = proc[c].id /\ m.conf = proc[c].conf
  /\ At(c, "join") => proc[c].found \in Objs /\ More(c) /\ Next1(c).how \in GroupHows

NamesInv == \A c \in Ctls : MineOK(c) /\ ProcOK(c)

(***************************************************************************)
(* Holds: each stands for one of the resources the configuration wants.    *)
(***************************************************************************)
HoldOK(conf, k) ==
  /\ k.nr \in DOMAIN Wants(conf)
  /\ k.how = Kept(Wants(conf)[k.nr].how)
  /\ k.how \in GroupHows =>
       /\ k.obj \in Objs /\ k.index = GroupIndex(conf, Wants(conf)[k.nr])
       /\ k.res \in Allowed(Wants(conf)[k.nr].res)

HeldOK(conf, held) ==
  /\ \A k \in held : HoldOK(conf, k)
  /\ \A k, q \in held : k.nr = q.nr => k = q

HoldsInv ==
  \A c \in Ctls :
    /\ \A m \in mine[c] : HeldOK(m.conf, m.held)
    /\ proc[c].at \in Starting \union Ending => HeldOK(proc[c].conf, proc[c].held)
    /\ proc[c].at \in {"run", "join"} => \A k \in proc[c].held : k.nr < proc[c].next

(***************************************************************************)
(* Ports, routes and secret listeners of one proxy; NAT-hole clients.      *)
(***************************************************************************)
OwnInv ==
  /\ \A id \in Ids : \A k \in HeldBy(id) : k.how = "own" => used[k.res] = id
  /\ \A id \in Ids : \A k, q \in HeldBy(id) :
       k.how = "own" /\ q.how = "own" /\ k.res = q.res => k = q
  /\ \A r \in Resources :
       used[r] \in Ids => \E k \in HeldBy(used[r]) : k.how = "own" /\ k.res = r

NatInv ==
  /\ \A id \in Ids : \A k \in HeldBy(id) :
       k.how = "nathole" => natholes[id[2]] = id \/ id \in displaced
  /\ \A n \in ConfNames : natholes[n] # None =>
       natholes[n][2] = n /\ \E k \in HeldBy(natholes[n]) : k.how = "nathole"

(***************************************************************************)
(* Groups.                                                                 *)
(***************************************************************************)
\* An object with members owns its resource.
MembersOwn ==
  \A o \in Objs : groups[o].members # {} =>
    /\ groups[o].res \in Resources
    /\ used[groups[o].res] = <<"group", o>>
    /\ groups[o].want \in Asked /\ groups[o].res \in Allowed(groups[o].want)
    /\ groups[o].closed => o \in stray

\* What a group owns is what its object says, or the object is stray.
OwnersKnow ==
  \A r \in Resources, o \in Objs : used[r] = <<"group", o>> =>
    o \in stray \/ (groups[o].members # {} /\ groups[o].res = r)

\* Who holds a place in a group is a member, and conversely unless the object is stray.
HoldersAreMembers ==
  \A id \in Ids : \A k \in HeldBy(id) : k.how \in GroupHows =>
    /\ <<id, k.nr>> \in groups[k.obj].members
    /\ groups[k.obj].res = k.res
    /\ k.obj \in stray \/ table[k.index] = k.obj
    /\ k.how = "lnGroup" => groups[k.obj].closed \/ table[k.index] = k.obj

MembersHold ==
  \A o \in Objs \ stray : \A l \in groups[o].members :
    \E k \in HeldBy(l[1]) : k.how \in GroupHows /\ k.nr = l[2] /\ k.obj = o

\* The objects in the table are open; each is there once; one without members owns nothing;
\* those of HTTP groups are for their route and have one member of a name.
TableInv ==
  \A i \in Indexes : table[i] # None =>
    LET o == table[i]
    IN /\ ~groups[o].closed
       /\ \A j \in Indexes : table[j] = o => j = i
       /\ groups[o].members = {} => groups[o].res = None
       /\ i[1] = "http" =>
            /\ groups[o].members # {} => groups[o].res = <<"http", i[3], i[4]>>
            /\ \A l, x \in groups[o].members : l[1][2] = x[1][2] => l = x

\* The group a control is about to join is in the table for it, or has left.
FoundInv ==
  \A c \in Ctls : At(c, "join") =>
    LET i == GroupIndex(proc[c].conf, Next1(c))
        o == proc[c].found
    IN /\ \A j \in Indexes : table[j] = o => j = i
       /\ Next1(c).how = "lnGroup" => groups[o].closed \/ table[i] = o

GroupInv ==
  /\ MembersOwn /\ OwnersKnow /\ HoldersAreMembers /\ MembersHold /\ TableInv /\ FoundInv

Inv == TypeOK /\ NamesInv /\ HoldsInv /\ OwnInv /\ NatInv /\ GroupInv
\* What it is about.
tables == <<declared, used, natholes, table, groups, pxyTable, mine, portsUsed, proc, stray,
            displaced>>

(***************************************************************************)
(* Reservations of ports.  A proxy has its port reserved until a late      *)
(* Release; a TCP group has its realPort.                                  *)
(***************************************************************************)
ReservedOK ==
  /\ reserved \in [Resources -> Ids \union ({"group"} \X Objs) \union {None}]
  /\ \A r \in Resources : reserved[r] # None => IsPort(r)
  /\ \A r \in late \union freedLate : r[1] = "udp"

OwnReserved ==
  \A r \in Resources :
    /\ IsPort(r) /\ used[r] \in Ids => reserved[r] = used[r] \/ r \in freedLate
    /\ reserved[r] \in Ids => used[r] = reserved[r]

\* A group that listens on a port has one reserved: another one if it asked for any.
RealPort(o) ==
  /\ groups[o].real # None <=> IsPort(groups[o].res)
  /\ groups[o].real # None =>
       /\ groups[o].real \in Resources \ unlistened
       /\ groups[o].real[1] = "tcp" /\ reserved[groups[o].real] = <<"group", o>>
       /\ groups[o].real = groups[o].res \/ AskedAny(o)

GroupsReserved ==
  /\ \A o \in Objs : groups[o].members # {} => RealPort(o)
  /\ \A r \in Resources \ unlistened, o \in Objs : reserved[r] = <<"group", o>> =>
       o \in stray \/ (groups[o].members # {} /\ groups[o].real = r)
  /\ \A r \in unlistened :
       r \in Resources /\ r[1] = "tcp" /\ reserved[r] \in {"group"} \X Objs

PortsInv == ReservedOK /\ OwnReserved /\ GroupsReserved
-----------------------------------------------------------------------------
(***************************************************************************)
(* What configurations ask for.                                            *)
(***************************************************************************)
\* All that one configuration asks for is asked in one way.
LEMMA WantHow ==
  ASSUME NEW conf \in Confs, NEW n \in DOMAIN Wants(conf)
  PROVE  /\ conf.kind = "tcp" => Wants(conf)[n].how = IF conf.group = None THEN "port" ELSE "lnGroup"
         /\ conf.kind = "udp" => Wants(conf)[n].how = "port"
         /\ conf.kind = "http" =>
              Wants(conf)[n].how = IF conf.group = None THEN "route" ELSE "httpGroup"
         /\ conf.kind = "https" => Wants(conf)[n].how = "route"
         /\ conf.kind = "tcpmux" =>
              Wants(conf)[n].how = IF conf.group = None THEN "route" ELSE "lnGroup"
         /\ conf.kind \in {"stcp", "sudp"} => Wants(conf)[n].how = "secret"
         /\ conf.kind = "xtcp" => Wants(conf)[n].how = "nathole" /\ n = 1
  <1>1. ASSUME conf.kind = "tcp" PROVE Wants(conf)[n].how = (IF conf.group = None THEN "port" ELSE "lnGroup")
    <2>1. Wants(conf) = RunTCP(conf)
      BY <1>1 DEF Wants
    <2>2. n \in DOMAIN RunTCP(conf)
      BY <2>1
    <2>3. n = 1
      BY <2>2 DEF RunTCP
    <2>4. RunTCP(conf)[1].how = (IF conf.group = None THEN "port" ELSE "lnGroup")
      BY DEF RunTCP, Want
    <2> QED BY <2>1, <2>3, <2>4
  <1>2. ASSUME conf.kind = "udp" PROVE Wants(conf)[n].how = "port"
    <2>1. Wants(conf) = RunUDP(conf)
      BY <1>2 DEF Wants
    <2>2. n \in DOMAIN RunUDP(conf)
      BY <2>1
    <2>3. n = 1
      BY <2>2 DEF RunUDP
    <2>4. RunUDP(conf)[1].how = "port"
      BY DEF RunUDP, Want
    <2> QED BY <2>1, <2>3, <2>4
  <1>3. ASSUME conf.kind = "http" PROVE Wants(conf)[n].how = (IF conf.group = None THEN "route" ELSE "httpGroup")
    <2>1. Wants(conf) = RunHTTP(conf)
      BY <1>3 DEF Wants
    <2>2. n \in DOMAIN RunHTTP(conf)
      BY <2>1
    <2>3. RunHTTP(conf)[n].how = (IF conf.group = None THEN "route" ELSE "httpGroup")
      BY <2>2 DEF RunHTTP, Want
    <2> QED BY <2>1, <2>3
  <1>4. ASSUME conf.kind = "https" PROVE Wants(conf)[n].how = "route"
    <2>1. Wants(conf) = RunHTTPS(conf)
      BY <1>4 DEF Wants
    <2>2. n \in DOMAIN RunHTTPS(conf)
      BY <2>1
    <2>3. RunHTTPS(conf)[n].how = "route"
      BY <2>2 DEF RunHTTPS, Want
    <2> QED BY <2>1, <2>3
  <1>5. ASSUME conf.kind = "tcpmux" PROVE Wants(conf)[n].how = (IF conf.group = None THEN "route" ELSE "lnGroup")
    <2>1. Wants(conf) = RunTCPMux(conf)
      BY <1>5 DEF Wants
    <2>2. n \in DOMAIN RunTCPMux(conf)
      BY <2>1
    <2>3. RunTCPMux(conf)[n].how = (IF conf.group = None THEN "route" ELSE "lnGroup")
      BY <2>2 DEF RunTCPMux, Want
    <2> QED BY <2>1, <2>3
  <1>6. ASSUME conf.kind = "stcp" PROVE Wants(conf)[n].how = "secret"
    <2>1. Wants(conf) = RunSTCP(conf)
      BY <1>6 DEF Wants
    <2>2. n \in DOMAIN RunSTCP(conf)
      BY <2>1
    <2>3. n = 1
      BY <2>2 DEF RunSTCP
    <2>4. RunSTCP(conf)[1].how = "secret"
      BY DEF RunSTCP, Want
    <2> QED BY <2>1, <2>3, <2>4
  <1>7. ASSUME conf.kind = "sudp" PROVE Wants(conf)[n].how = "secret"
    <2>1. Wants(conf) = RunSUDP(conf)
      BY <1>7 DEF Wants
    <2>2. n \in DOMAIN RunSUDP(conf)
      BY <2>1
    <2>3. n = 1
      BY <2>2 DEF RunSUDP
    <2>4. RunSUDP(conf)[1].how = "secret"
      BY DEF RunSUDP, Want
    <2> QED BY <2>1, <2>3, <2>4
  <1>8. ASSUME conf.kind = "xtcp" PROVE Wants(conf)[n].how = "nathole" /\ n = 1
    <2>1. Wants(conf) = RunXTCP(conf)
      BY <1>8 DEF Wants
    <2>2. n \in DOMAIN RunXTCP(conf)
      BY <2>1
    <2>3. n = 1
      BY <2>2 DEF RunXTCP
    <2>4. RunXTCP(conf)[1].how = "nathole"
      BY DEF RunXTCP, Want
    <2> QED BY <2>1, <2>3, <2>4
  <1> QED BY <1>1, <1>2, <1>3, <1>4, <1>5, <1>6, <1>7, <1>8

LEMMA WantRes ==
  ASSUME NEW conf \in Confs, NEW n \in DOMAIN Wants(conf)
  PROVE  /\ conf.kind = "http" => \E d, l : Wants(conf)[n].res = <<"http", d, l>>
         /\ conf.kind \notin {"tcp", "udp"} => Wants(conf)[n].res[1] \notin {"tcp", "udp"}
  <1>1. ASSUME conf.kind = "http" PROVE \E d, l : Wants(conf)[n].res = <<"http", d, l>>
    <2>1. Wants(conf) = RunHTTP(conf)
      BY <1>1 DEF Wants
    <2>2. n \in DOMAIN RunHTTP(conf)
      BY <2>1
    <2>3. \E d, l : RunHTTP(conf)[n].res = <<"http", d, l>>
      BY <2>2 DEF RunHTTP, Want
    <2> QED BY <2>1, <2>3
  <1>2. ASSUME conf.kind = "https" PROVE Wants(conf)[n].res[1] \notin {"tcp", "udp"}
    <2>1. Wants(conf) = RunHTTPS(conf)
      BY <1>2 DEF Wants
    <2>2. n \in DOMAIN RunHTTPS(conf)
      BY <2>1
    <2>3. RunHTTPS(conf)[n].res[1] \notin {"tcp", "udp"}
      BY <2>2 DEF RunHTTPS, Want
    <2> QED BY <2>1, <2>3
  <1>3. ASSUME conf.kind = "tcpmux" PROVE Wants(conf)[n].res[1] \notin {"tcp", "udp"}
    <2>1. Wants(conf) = RunTCPMux(conf)
      BY <1>3 DEF Wants
    <2>2. n \in DOMAIN RunTCPMux(conf)
      BY <2>1
    <2>3. RunTCPMux(conf)[n].res[1] \notin {"tcp", "udp"}
      BY <2>2 DEF RunTCPMux, Want
    <2> QED BY <2>1, <2>3
  <1>4. ASSUME conf.kind = "stcp" PROVE Wants(conf)[n].res[1] \notin {"tcp", "udp"}
    <2>1. Wants(conf) = RunSTCP(conf)
      BY <1>4 DEF Wants
    <2>2. n \in DOMAIN RunSTCP(conf)
      BY <2>1
    <2>3. n = 1
      BY <2>2 DEF RunSTCP
    <2>4. RunSTCP(conf)[1].res[1] \notin {"tcp", "udp"}
      BY DEF RunSTCP, Want
    <2> QED BY <2>1, <2>3, <2>4
  <1>5. ASSUME conf.kind = "sudp" PROVE Wants(conf)[n].res[1] \notin {"tcp", "udp"}
    <2>1. Wants(conf) = RunSUDP(conf)
      BY <1>5 DEF Wants
    <2>2. n \in DOMAIN RunSUDP(conf)
      BY <2>1
    <2>3. n = 1
      BY <2>2 DEF RunSUDP
    <2>4. RunSUDP(conf)[1].res[1] \notin {"tcp", "udp"}
      BY DEF RunSUDP, Want
    <2> QED BY <2>1, <2>3, <2>4
  <1>6. ASSUME conf.kind = "xtcp" PROVE Wants(conf)[n].res[1] \notin {"tcp", "udp"}
    <2>1. Wants(conf) = RunXTCP(conf)
      BY <1>6 DEF Wants
    <2>2. n \in DOMAIN RunXTCP(conf)
      BY <2>1
    <2>3. n = 1
      BY <2>2 DEF RunXTCP
    <2>4. RunXTCP(conf)[1].res[1] \notin {"tcp", "udp"}
      BY DEF RunXTCP, Want
    <2> QED BY <2>1, <2>3, <2>4
  <1>7. conf.kind \in Kinds
    BY ResourcesAssumption
  <1> QED BY <1>1, <1>2, <1>3, <1>4, <1>5, <1>6, <1>7 DEF Kinds

\* Only ports may be left to the server to choose.
LEMMA AllowedIsWanted ==
  ASSUME NEW conf \in Confs, NEW n \in DOMAIN Wants(conf), conf.kind \notin {"tcp", "udp"}
  PROVE  Allowed(Wants(conf)[n].res) = {Wants(conf)[n].res}
  BY WantRes DEF Allowed, IsPort

LEMMA WantIsKnown ==
  ASSUME NEW conf \in Confs, NEW n \in DOMAIN Wants(conf)
  PROVE  /\ Allowed(Wants(conf)[n].res) \subseteq Resources
         /\ Wants(conf)[n].res \in Asked
         /\ Wants(conf)[n].how \in GroupHows =>
              /\ GroupIndex(conf, Wants(conf)[n]) \in Indexes
              /\ conf.kind \in {"tcp", "tcpmux", "http"}
              /\ Wants(conf)[n].how = "httpGroup" <=> conf.kind = "http"
              /\ GroupIndex(conf, Wants(conf)[n])[1] = conf.kind
              /\ conf.kind = "http" =>
                   LET i == GroupIndex(conf, Wants(conf)[n])
                   IN Wants(conf)[n].res = <<"http", i[3], i[4]>>
  <1> DEFINE w == Wants(conf)[n]
  <1>1. w \in Range(Wants(conf))
    BY DEF Range
  <1>2. Allowed(w.res) \subseteq Resources
    BY <1>1 DEF Resources
  <1>3. w.res \in Asked
    BY <1>1 DEF Asked
  <1>4. conf.kind \in Kinds
    BY ResourcesAssumption
  <1>5. ASSUME w.how \in GroupHows
        PROVE  /\ conf.kind \in {"tcp", "tcpmux", "http"} /\ conf.group # None
               /\ w.how = "httpGroup" <=> conf.kind = "http"
    BY <1>4, <1>5, WantHow DEF GroupHows, Kinds
  <1>6. ASSUME w.how \in GroupHows
        PROVE  GroupIndex(conf, w) \in Indexes
    BY <1>1, <1>5, <1>6 DEF Indexes, GroupConfs
  <1>7. ASSUME w.how \in GroupHows
        PROVE  GroupIndex(conf, w)[1] = conf.kind
    BY <1>5, <1>7 DEF GroupIndex
  <1>8. ASSUME w.how \in GroupHows, conf.kind = "http"
        PROVE  w.res = <<"http", GroupIndex(conf, w)[3], GroupIndex(conf, w)[4]>>
    <2>1. PICK d, l : w.res = <<"http", d, l>>
      BY <1>8, WantRes
    <2>2. GroupIndex(conf, w) = <<"http", conf.group, w.res[2], w.res[3]>>
      BY <1>5, <1>8 DEF GroupIndex
    <2> QED BY <2>1, <2>2
  <1> QED BY <1>2, <1>3, <1>5, <1>6, <1>7, <1>8

\* An instance, a group and None are different owners.
LEMMA Owners ==
  ASSUME NEW id \in Ids, NEW g \in {"group"} \X Objs
  PROVE  id # g /\ id # None /\ g # None
  <1>1. Len(id) = 3 /\ Len(g) = 2
    BY DEF Ids
  <1> QED BY <1>1, ResourcesAssumption
-----------------------------------------------------------------------------
(***************************************************************************)
(* How a control moves, and what that does to what instances hold.         *)
(***************************************************************************)
NewHold(c, how, res, obj, index) ==
  [nr |-> proc[c].next, how |-> how, res |-> res, obj |-> obj, index |-> index]

LEMMA AdvanceMoves ==
  ASSUME TypeOK, NEW c \in Ctls, NEW how \in {"own", "nathole"} \union GroupHows,
         NEW res \in Resources, NEW obj \in Objs \union {None},
         NEW index \in Indexes \union {None}, Advance(c, how, res, obj, index)
  PROVE  /\ proc' \in [Ctls -> Procs] /\ \A d \in Ctls \ {c} : proc'[d] = proc[d]
         /\ proc'[c].id = proc[c].id /\ proc'[c].conf = proc[c].conf
         /\ proc'[c].at = "run" /\ proc'[c].next = proc[c].next + 1
         /\ proc'[c].held = proc[c].held \union {NewHold(c, how, res, obj, index)}
         /\ NewHold(c, how, res, obj, index) \in Holds
  <1> DEFINE h == NewHold(c, how, res, obj, index)
  <1>1. proc[c] \in Procs /\ proc \in [Ctls -> Procs]
    BY DEF TypeOK
  <1>2. proc[c].next \in Nat /\ proc[c].held \subseteq Holds
    BY <1>1 DEF Procs
  <1>3. h \in Holds
    BY <1>2 DEF Holds, NewHold
  <1> DEFINE q == [proc[c] EXCEPT !.at = "run", !.next = @ + 1, !.found = None,
                                  !.held = @ \union {h}]
  <1>4. proc' = [proc EXCEPT ![c] = q]
    BY <1>1 DEF Advance, NewHold
  <1>5. proc[c].next + 1 \in Nat /\ proc[c].held \union {h} \in SUBSET Holds
    BY <1>2, <1>3
  <1> HIDE DEF h
  <1>6. q \in Procs
    BY <1>1, <1>5 DEF Procs, Places
  <1>7. q.id = proc[c].id /\ q.conf = proc[c].conf /\ q.at = "run"
        /\ q.next = proc[c].next + 1 /\ q.held = proc[c].held \union {h}
    BY <1>1 DEF Procs
  <1> HIDE DEF q
  <1> QED BY <1>1, <1>3, <1>4, <1>6, <1>7 DEF h

LEMMA FailMoves ==
  ASSUME TypeOK, NEW c \in Ctls, RunFails(c)
  PROVE  /\ proc' \in [Ctls -> Procs] /\ \A d \in Ctls \ {c} : proc'[d] = proc[d]
         /\ proc'[c].id = proc[c].id /\ proc'[c].conf = proc[c].conf
         /\ proc'[c].at = "undo" /\ proc'[c].held = proc[c].held
  <1>1. proc[c] \in Procs /\ proc \in [Ctls -> Procs]
    BY DEF TypeOK
  <1> DEFINE q == [proc[c] EXCEPT !.at = "undo", !.found = None]
  <1>2. proc' = [proc EXCEPT ![c] = q]
    BY <1>1 DEF RunFails
  <1>3. q \in Procs /\ q.id = proc[c].id /\ q.conf = proc[c].conf /\ q.at = "undo"
        /\ q.held = proc[c].held
    BY <1>1 DEF Procs, Places
  <1> HIDE DEF q
  <1> QED BY <1>1, <1>2, <1>3

LEMMA DropMoves ==
  ASSUME TypeOK, NEW c \in Ctls, NEW k, Dropped(c, k)
  PROVE  /\ proc' \in [Ctls -> Procs] /\ \A d \in Ctls \ {c} : proc'[d] = proc[d]
         /\ proc'[c].id = proc[c].id /\ proc'[c].conf = proc[c].conf
         /\ proc'[c].at = proc[c].at /\ proc'[c].held = proc[c].held \ {k}
         /\ proc'[c].next = proc[c].next /\ proc'[c].found = proc[c].found
  <1>1. proc[c] \in Procs /\ proc \in [Ctls -> Procs]
    BY DEF TypeOK
  <1> DEFINE q == [proc[c] EXCEPT !.held = @ \ {k}]
  <1>2. proc' = [proc EXCEPT ![c] = q]
    BY <1>1 DEF Dropped
  <1>3. q \in Procs /\ q.id = proc[c].id /\ q.conf = proc[c].conf /\ q.at = proc[c].at
        /\ q.held = proc[c].held \ {k} /\ q.next = proc[c].next /\ q.found = proc[c].found
    BY <1>1 DEF Procs
  <1> HIDE DEF q
  <1> QED BY <1>1, <1>2, <1>3

LEMMA GoMoves ==
  ASSUME TypeOK, NEW c \in Ctls, NEW place \in Places, Goto(c, place)
  PROVE  /\ proc' \in [Ctls -> Procs] /\ \A d \in Ctls \ {c} : proc'[d] = proc[d]
         /\ proc'[c].id = proc[c].id /\ proc'[c].conf = proc[c].conf
         /\ proc'[c].at = place /\ proc'[c].held = proc[c].held
  <1>1. proc[c] \in Procs /\ proc \in [Ctls -> Procs]
    BY DEF TypeOK
  <1> DEFINE q == [proc[c] EXCEPT !.at = place]
  <1>2. proc' = [proc EXCEPT ![c] = q]
    BY <1>1 DEF Goto
  <1>3. q \in Procs /\ q.id = proc[c].id /\ q.conf = proc[c].conf /\ q.at = place
        /\ q.held = proc[c].held
    BY <1>1 DEF Procs
  <1> HIDE DEF q
  <1> QED BY <1>1, <1>2, <1>3

\* The instance a control runs or closes.
LEMMA Me ==
  ASSUME TypeOK, NamesInv, NEW c \in Ctls, proc[c].at \in Starting \union Ending
  PROVE  /\ proc[c].id \in Ids /\ proc[c].id[1] = c /\ proc[c].conf \in Confs
         /\ proc[c].id[2] \in ConfNames
         /\ HeldBy(proc[c].id) = proc[c].held
  <1>1. CASE proc[c].at \in Starting
    BY <1>1 DEF NamesInv, ProcOK, Ids, HeldBy
  <1>2. CASE proc[c].at \in Ending
    <2>1. PICK m \in mine[c] : m.id = proc[c].id /\ m.conf = proc[c].conf
      BY <1>2 DEF NamesInv, ProcOK
    <2>2. m.id \in Ids /\ m.id[1] = c /\ m.conf \in Confs
      BY DEF TypeOK, Proxies, NamesInv, MineOK
    <2> QED BY <2>1, <2>2 DEF Ids, HeldBy
  <1> QED BY <1>1, <1>2

\* A control that rests holds nothing but its registered proxies.
LEMMA MineHeld ==
  ASSUME TypeOK, NamesInv, NEW c \in Ctls, NEW m \in mine[c], proc[c].id # m.id
  PROVE  m.id \in Ids /\ m.id[1] = c /\ HeldBy(m.id) = m.held
  <1>1. m.id \in Ids /\ m.id[1] = c
    BY DEF TypeOK, Proxies, NamesInv, MineOK
  <1>2. {x \in mine[c] : x.id = m.id} = {m}
    BY DEF NamesInv, MineOK
  <1> QED BY <1>1, <1>2 DEF HeldBy

\* The instance stays and what it holds changes.
LEMMA HeldMoves ==
  ASSUME NEW c \in Ctls, UNCHANGED mine, proc'[c].id = proc[c].id,
         \A d \in Ctls \ {c} : proc'[d] = proc[d]
  PROVE  \A id \in Ids : HeldBy(id)' = IF id = proc[c].id /\ id[1] = c THEN proc'[c].held
                                       ELSE HeldBy(id)
  <1> SUFFICES ASSUME NEW id \in Ids
               PROVE  HeldBy(id)' = IF id = proc[c].id /\ id[1] = c THEN proc'[c].held
                                    ELSE HeldBy(id)
    OBVIOUS
  <1>1. id[1] \in Ctls
    BY DEF Ids
  <1> QED BY <1>1 DEF HeldBy
-----------------------------------------------------------------------------
(***************************************************************************)
(* Steps that leave the names, or what the registered proxies hold, alone. *)
(***************************************************************************)
\* Only c moves.
OnlyMoves(c) == proc' \in [Ctls -> Procs] /\ \A d \in Ctls \ {c} : proc'[d] = proc[d]

\* It goes on with the proxy it was at.
GoesOn(c) ==
  /\ OnlyMoves(c) /\ UNCHANGED <<mine, pxyTable>>
  /\ proc'[c].id = proc[c].id /\ proc'[c].conf = proc[c].conf
  /\ \/ proc[c].at \in Starting /\ proc'[c].at \in Starting
     \/ proc[c].at \in Ending /\ proc'[c].at \in Ending

\* It has no proxy any more.
Rests(c) ==
  /\ OnlyMoves(c) /\ UNCHANGED <<mine, pxyTable>>
  /\ proc'[c].at \in Resting /\ proc'[c].id = None

LEMMA NamesGoOn ==
  ASSUME NamesInv, NEW c \in Ctls, GoesOn(c),
         proc'[c].at = "join" => /\ proc'[c].next = proc[c].next /\ proc'[c].found \in Objs
                                 /\ More(c) /\ Next1(c).how \in GroupHows
  PROVE  NamesInv'
  <1> SUFFICES ASSUME NEW d \in Ctls
               PROVE  MineOK(d)' /\ ProcOK(d)'
    BY DEF NamesInv
  <1>1. MineOK(d)'
    BY DEF GoesOn, NamesInv, MineOK
  <1>2. CASE d # c
    BY <1>1, <1>2 DEF GoesOn, OnlyMoves, NamesInv, ProcOK, At, More, Next1
  <1>3. CASE d = c
    <2>1. proc'[c].at \in Resting => FALSE
      BY DEF GoesOn, Resting, Starting, Ending
    <2>2. proc'[c].at \in Starting <=> proc[c].at \in Starting
      BY DEF GoesOn, Starting, Ending
    <2>3. proc'[c].at \in Ending <=> proc[c].at \in Ending
      BY DEF GoesOn, Starting, Ending
    <2>4. ProcOK(c)
      BY DEF NamesInv
    <2>5. proc'[c].at = "join" => More(c)' /\ Next1(c)'.how \in GroupHows
      BY DEF GoesOn, More, Next1
    <2> QED BY <1>1, <1>3, <2>1, <2>2, <2>3, <2>4, <2>5 DEF GoesOn, ProcOK, At
  <1> QED BY <1>2, <1>3

LEMMA NamesRest ==
  ASSUME NamesInv, NEW c \in Ctls, Rests(c)
  PROVE  NamesInv'
  <1> SUFFICES ASSUME NEW d \in Ctls
               PROVE  MineOK(d)' /\ ProcOK(d)'
    BY DEF NamesInv
  <1>1. MineOK(d)'
    BY DEF Rests, NamesInv, MineOK
  <1>2. CASE d # c
    BY <1>1, <1>2 DEF Rests, OnlyMoves, NamesInv, ProcOK, At, More, Next1
  <1>3. CASE d = c
    BY <1>1, <1>3 DEF Rests, ProcOK, At, Resting, Starting, Ending
  <1> QED BY <1>2, <1>3

LEMMA HoldsGoOn ==
  ASSUME HoldsInv, NEW c \in Ctls, GoesOn(c), proc'[c].held \subseteq proc[c].held,
         proc'[c].at \in {"run", "join"} => At(c, "run") /\ proc'[c].next = proc[c].next
  PROVE  HoldsInv'
  <1> SUFFICES ASSUME NEW d \in Ctls
               PROVE  /\ \A m \in mine'[d] : HeldOK(m.conf, m.held)
                      /\ proc'[d].at \in Starting \union Ending => HeldOK(proc'[d].conf, proc'[d].held)
                      /\ proc'[d].at \in {"run", "join"} => \A k \in proc'[d].held : k.nr < proc'[d].next
    BY DEF HoldsInv, HeldOK, HoldOK
  <1>1. \A m \in mine'[d] : HeldOK(m.conf, m.held)
    BY DEF GoesOn, HoldsInv
  <1>2. CASE d # c
    BY <1>1, <1>2 DEF GoesOn, OnlyMoves, HoldsInv
  <1>3. CASE d = c
    <2>1. proc[c].at \in Starting \union Ending
      BY DEF GoesOn
    <2>2. HeldOK(proc[c].conf, proc[c].held)
      BY <2>1 DEF HoldsInv
    <2>3. HeldOK(proc'[c].conf, proc'[c].held)
      BY <2>2 DEF HeldOK, GoesOn
    <2>4. proc'[c].at \in {"run", "join"} => \A k \in proc'[c].held : k.nr < proc'[c].next
      BY DEF HoldsInv, At
    <2> QED BY <1>1, <1>3, <2>3, <2>4
  <1> QED BY <1>2, <1>3

LEMMA HoldsRest ==
  ASSUME HoldsInv, NEW c \in Ctls, Rests(c)
  PROVE  HoldsInv'
  <1> SUFFICES ASSUME NEW d \in Ctls
               PROVE  /\ \A m \in mine'[d] : HeldOK(m.conf, m.held)
                      /\ proc'[d].at \in Starting \union Ending => HeldOK(proc'[d].conf, proc'[d].held)
                      /\ proc'[d].at \in {"run", "join"} => \A k \in proc'[d].held : k.nr < proc'[d].next
    BY DEF HoldsInv, HeldOK, HoldOK
  <1>1. \A m \in mine'[d] : HeldOK(m.conf, m.held)
    BY DEF Rests, HoldsInv
  <1>2. CASE d # c
    BY <1>1, <1>2 DEF Rests, OnlyMoves, HoldsInv
  <1>3. CASE d = c
    BY <1>1, <1>3 DEF Rests, Resting, Starting, Ending
  <1> QED BY <1>2, <1>3

\* Run holds the resource it asked for.
LEMMA HoldsGrow ==
  ASSUME TypeOK, NamesInv, HoldsInv, NEW c \in Ctls, GoesOn(c), proc[c].at \in {"run", "join"},
         More(c), NEW h \in Holds, h.nr = proc[c].next, HoldOK(proc[c].conf, h),
         proc'[c].held = proc[c].held \union {h}, proc'[c].next = proc[c].next + 1
  PROVE  HoldsInv'
  <1> SUFFICES ASSUME NEW d \in Ctls
               PROVE  /\ \A m \in mine'[d] : HeldOK(m.conf, m.held)
                      /\ proc'[d].at \in Starting \union Ending => HeldOK(proc'[d].conf, proc'[d].held)
                      /\ proc'[d].at \in {"run", "join"} => \A k \in proc'[d].held : k.nr < proc'[d].next
    BY DEF HoldsInv, HeldOK, HoldOK
  <1>1. \A m \in mine'[d] : HeldOK(m.conf, m.held)
    BY DEF GoesOn, HoldsInv
  <1>2. CASE d # c
    BY <1>1, <1>2 DEF GoesOn, OnlyMoves, HoldsInv
  <1>3. CASE d = c
    <2>1. HeldOK(proc[c].conf, proc[c].held) /\ \A k \in proc[c].held : k.nr < proc[c].next
      BY DEF HoldsInv, Starting
    <2>2. proc[c].next \in Nat /\ \A k \in proc[c].held : k.nr \in Nat
      BY DEF TypeOK, Procs, Holds
    <2>3. HeldOK(proc'[c].conf, proc'[c].held)
      <3>1. \A k \in proc'[c].held : HoldOK(proc'[c].conf, k)
        BY <2>1 DEF HeldOK, GoesOn
      <3>2. \A k, q \in proc'[c].held : k.nr = q.nr => k = q
        BY <2>1, <2>2 DEF HeldOK
      <3> QED BY <3>1, <3>2 DEF HeldOK
    <2>4. \A k \in proc'[c].held : k.nr < proc'[c].next
      BY <2>1, <2>2
    <2> QED BY <1>1, <1>3, <2>3, <2>4
  <1> QED BY <1>2, <1>3
-----------------------------------------------------------------------------
(***************************************************************************)
(* What a step must keep for each part of the invariant.                   *)
(***************************************************************************)
\* No instance gets or loses a hold of these kinds.
SameHolds(hows) ==
  \A id \in Ids : \A k \in Holds : k.how \in hows => (k \in HeldBy(id)' <=> k \in HeldBy(id))

\* The owners of these kinds keep what they own, and own nothing new.
SameOwned(owners) ==
  \A r \in Resources : used[r] \in owners \/ used'[r] \in owners => used'[r] = used[r]

LEMMA HeldTyped ==
  ASSUME TypeOK
  PROVE  \A id \in Ids : HeldBy(id) \subseteq Holds
  <1> SUFFICES ASSUME NEW id \in Ids
               PROVE  HeldBy(id) \subseteq Holds
    OBVIOUS
  <1>1. id[1] \in Ctls
    BY DEF Ids
  <1>2. proc[id[1]].held \subseteq Holds
    BY <1>1 DEF TypeOK, Procs
  <1>3. \A m \in mine[id[1]] : m.held \subseteq Holds
    BY <1>1 DEF TypeOK, Proxies
  <1> QED BY <1>2, <1>3 DEF HeldBy

\* A control that goes on changes what its proxy holds, and nothing else.
LEMMA HeldGoesOn ==
  ASSUME TypeOK, NamesInv, NEW c \in Ctls, GoesOn(c)
  PROVE  \A id \in Ids : HeldBy(id)' = IF id = proc[c].id THEN proc'[c].held ELSE HeldBy(id)
  <1>1. proc[c].at \in Starting \union Ending
    BY DEF GoesOn
  <1>2. proc[c].id[1] = c
    BY <1>1, Me
  <1> QED BY <1>2, HeldMoves DEF GoesOn, OnlyMoves

LEMMA OwnKept ==
  ASSUME TypeOK, TypeOK', OwnInv, SameHolds({"own"}), SameOwned(Ids)
  PROVE  OwnInv'
  <1>1. \A id \in Ids : HeldBy(id) \subseteq Holds /\ HeldBy(id)' \subseteq Holds
    <2>1. \A id \in Ids : HeldBy(id) \subseteq Holds
      BY HeldTyped
    <2>2. (\A id \in Ids : HeldBy(id) \subseteq Holds)'
      BY HeldTyped, PTL
    <2> QED BY <2>1, <2>2
  <1>2. ASSUME NEW id \in Ids, NEW k \in HeldBy(id)', k.how = "own"
        PROVE  used'[k.res] = id
    <2>1. k \in HeldBy(id) /\ k.res \in Resources
      BY <1>1, <1>2 DEF SameHolds, Holds
    <2> QED BY <1>2, <2>1 DEF OwnInv, SameOwned
  <1>3. ASSUME NEW r \in Resources, used'[r] \in Ids
        PROVE  \E k \in HeldBy(used[r])' : k.how = "own" /\ k.res = r
    <2>1. used[r] = used'[r]
      BY <1>3 DEF SameOwned
    <2>2. PICK k \in HeldBy(used[r]) : k.how = "own" /\ k.res = r
      BY <1>3, <2>1 DEF OwnInv
    <2> QED BY <1>1, <1>3, <2>1, <2>2 DEF SameHolds
  <1>4. \A id \in Ids : \A k, q \in HeldBy(id)' :
          k.how = "own" /\ q.how = "own" /\ k.res = q.res => k = q
    BY <1>1 DEF OwnInv, SameHolds
  <1> QED BY <1>2, <1>3, <1>4 DEF OwnInv

LEMMA NatKept ==
  ASSUME TypeOK, TypeOK', NatInv, SameHolds({"nathole"}), UNCHANGED natholes,
         \A id \in Ids : id \in displaced => \/ id \in displaced'
                                             \/ \A k \in HeldBy(id) : k.how # "nathole"
  PROVE  NatInv'
  <1>1. \A id \in Ids : HeldBy(id) \subseteq Holds /\ HeldBy(id)' \subseteq Holds
    <2>1. \A id \in Ids : HeldBy(id) \subseteq Holds
      BY HeldTyped
    <2>2. (\A id \in Ids : HeldBy(id) \subseteq Holds)'
      BY HeldTyped, PTL
    <2> QED BY <2>1, <2>2
  <1>2. ASSUME NEW id \in Ids, NEW k \in HeldBy(id)', k.how = "nathole"
        PROVE  natholes[id[2]] = id \/ id \in displaced'
    <2>1. k \in HeldBy(id)
      BY <1>1, <1>2 DEF SameHolds
    <2> QED BY <1>2, <2>1 DEF NatInv
  <1>3. ASSUME NEW n \in ConfNames, natholes[n] # None
        PROVE  natholes[n][2] = n /\ \E k \in HeldBy(natholes[n])' : k.how = "nathole"
    <2>1. PICK k \in HeldBy(natholes[n]) : k.how = "nathole"
      BY <1>3 DEF NatInv
    <2>2. natholes[n] \in Ids
      BY <1>3 DEF TypeOK
    <2> QED BY <1>1, <1>3, <2>1, <2>2 DEF SameHolds, NatInv
  <1> QED BY <1>2, <1>3 DEF NatInv

\* Controls about to join stay there, and no other comes.
JoinsShrink ==
  \A d \in Ctls : At(d, "join")' => /\ At(d, "join") /\ proc'[d].found = proc[d].found
                                    /\ proc'[d].conf = proc[d].conf /\ proc'[d].next = proc[d].next

LEMMA GroupKept ==
  ASSUME TypeOK, TypeOK', GroupInv, SameHolds(GroupHows), SameOwned({"group"} \X Objs),
         UNCHANGED <<table, groups, stray>>, JoinsShrink
  PROVE  GroupInv'
  <1>1. \A id \in Ids : HeldBy(id) \subseteq Holds /\ HeldBy(id)' \subseteq Holds
    <2>1. \A id \in Ids : HeldBy(id) \subseteq Holds
      BY HeldTyped
    <2>2. (\A id \in Ids : HeldBy(id) \subseteq Holds)'
      BY HeldTyped, PTL
    <2> QED BY <2>1, <2>2
  <1> DEFINE Pairs == {"group"} \X Objs
  <1>0. \A o \in Objs : <<"group", o>> \in Pairs
    OBVIOUS
  <1> HIDE DEF Pairs
  <1>a. \A r \in Resources : used[r] \in Pairs \/ used'[r] \in Pairs => used'[r] = used[r]
    BY DEF SameOwned, Pairs
  <1>2. MembersOwn'
    BY <1>0, <1>a DEF GroupInv, MembersOwn
  <1>3. OwnersKnow'
    BY <1>0, <1>a DEF GroupInv, OwnersKnow
  <1>4. HoldersAreMembers'
    <2> SUFFICES ASSUME NEW id \in Ids, NEW k \in HeldBy(id)', k.how \in GroupHows
                 PROVE  k \in HeldBy(id)
      BY DEF GroupInv, HoldersAreMembers
    <2> QED BY <1>1 DEF SameHolds
  <1>5. MembersHold'
    <2> SUFFICES ASSUME NEW o \in Objs \ stray, NEW l \in groups[o].members
                 PROVE  \E k \in HeldBy(l[1])' : k.how \in GroupHows /\ k.nr = l[2] /\ k.obj = o
      BY DEF MembersHold
    <2>1. PICK k \in HeldBy(l[1]) : k.how \in GroupHows /\ k.nr = l[2] /\ k.obj = o
      BY DEF GroupInv, MembersHold
    <2>2. l[1] \in Ids
      BY DEF TypeOK, Groups
    <2> QED BY <1>1, <2>1, <2>2 DEF SameHolds
  <1>6. TableInv'
    BY DEF GroupInv, TableInv
  <1>7. FoundInv'
    <2> SUFFICES ASSUME NEW d \in Ctls, At(d, "join")'
                 PROVE  LET i == GroupIndex(proc[d].conf, Next1(d))
                            o == proc[d].found
                        IN /\ \A j \in Indexes : table[j] = o => j = i
                           /\ Next1(d).how = "lnGroup" => groups[o].closed \/ table[i] = o
      BY DEF FoundInv, JoinsShrink, Next1
    <2> QED BY DEF GroupInv, FoundInv, JoinsShrink
  <1> QED BY <1>2, <1>3, <1>4, <1>5, <1>6, <1>7 DEF GroupInv

LEMMA QuietKept ==
  ASSUME TypeOK, TypeOK', OwnInv, NatInv, GroupInv, JoinsShrink,
         \A id \in Ids : HeldBy(id)' = HeldBy(id),
         UNCHANGED <<used, natholes, table, groups, stray>>,
         \A id \in Ids : id \in displaced => \/ id \in displaced'
                                             \/ \A k \in HeldBy(id) : k.how # "nathole"
  PROVE  OwnInv' /\ NatInv' /\ GroupInv'
  <1>1. SameHolds({"own"}) /\ SameHolds({"nathole"}) /\ SameHolds(GroupHows)
    BY DEF SameHolds
  <1>2. SameOwned(Ids) /\ SameOwned({"group"} \X Objs)
    BY DEF SameOwned
  <1>3. OwnInv'
    BY <1>1, <1>2, OwnKept
  <1>4. NatInv'
    BY <1>1, NatKept
  <1>5. GroupInv'
    BY <1>1, <1>2, GroupKept
  <1> QED BY <1>3, <1>4, <1>5
-----------------------------------------------------------------------------
(***************************************************************************)
(* One lemma for each operation of a control: the steps that take and give *)
(* back nothing.                                                           *)
(***************************************************************************)
LEMMA SetMoves ==
  ASSUME TypeOK, NEW c \in Ctls, NEW q \in Procs, proc' = [proc EXCEPT ![c] = q]
  PROVE  OnlyMoves(c) /\ proc'[c] = q
  BY DEF TypeOK, OnlyMoves

LEMMA PortsNum == ASSUME NEW conf PROVE UsedPortsNum(conf) \in {0, 1}
  BY DEF UsedPortsNum

LEMMA RegisterStep ==
  ASSUME Inv, NEW c \in Ctls, Register(c)
  PROVE  Inv'
  <1>1. PICK conf \in declared[c] :
          LET copy == IF \E m \in mine[c] : m.id = <<c, conf.name, 0>> THEN 1 ELSE 0
          IN /\ portsUsed' = [portsUsed EXCEPT ![c] =
                                IF Counts THEN @ + UsedPortsNum(conf) ELSE @]
             /\ proc' = [proc EXCEPT ![c] = [Idle EXCEPT !.at = "run", !.conf = conf,
                           !.id = <<c, conf.name, copy>>]]
    BY DEF Register
  <1> DEFINE copy == IF \E m \in mine[c] : m.id = <<c, conf.name, 0>> THEN 1 ELSE 0
             q == [Idle EXCEPT !.at = "run", !.conf = conf, !.id = <<c, conf.name, copy>>]
  <1>2. conf \in Confs /\ conf.name \in ConfNames
    BY DEF Inv, TypeOK, ConfNames
  <1>3. <<c, conf.name, copy>> \in Ids /\ copy \in {0, 1}
    BY <1>2 DEF Ids
  <1>4. q.at = "run" /\ q.conf = conf /\ q.id = <<c, conf.name, copy>> /\ q.held = {}
    BY DEF Idle
  <1>5. q \in Procs
    BY <1>2, <1>3 DEF Idle, Procs, Places
  <1>6. OnlyMoves(c) /\ proc'[c] = q
    BY <1>1, <1>5, SetMoves DEF Inv
  <1>7. At(c, "idle") /\ UNCHANGED <<declared, used, natholes, table, groups, pxyTable, mine,
                                     stray, displaced>>
    BY DEF Register, resources, history
  <1>8. TypeOK'
    <2>1. UsedPortsNum(conf) \in Int
      BY PortsNum
    <2>2. portsUsed' \in [Ctls -> Int]
      BY <1>1, <2>1 DEF Inv, TypeOK
    <2> QED BY <1>6, <1>7, <2>2 DEF Inv, TypeOK, OnlyMoves
  <1>9. \A m \in mine[c] : m.id # <<c, conf.name, copy>>
    <2> SUFFICES ASSUME NEW m \in mine[c], m.id = <<c, conf.name, copy>>
                 PROVE  FALSE
      OBVIOUS
    <2>1. m.id[3] = 0
      BY DEF Inv, NamesInv, MineOK
    <2>2. copy = 0
      BY <2>1
    <2> QED BY <2>2
  <1>10. copy = 1 => \E m \in mine[c] : m.id[2] = conf.name
    OBVIOUS
  <1> HIDE DEF copy, q
  <1>11. NamesInv'
    <2> SUFFICES ASSUME NEW d \in Ctls
                 PROVE  MineOK(d)' /\ ProcOK(d)'
      BY DEF NamesInv
    <2>1. MineOK(d)'
      BY <1>7 DEF Inv, NamesInv, MineOK
    <2>2. CASE d # c
      BY <1>6, <1>7, <2>1, <2>2 DEF OnlyMoves, Inv, NamesInv, ProcOK, At, More, Next1
    <2>3. CASE d = c
      <3>1. proc'[c].at = "run" /\ proc'[c].conf = conf /\ proc'[c].id = <<c, conf.name, copy>>
        BY <1>4, <1>6
      <3> QED BY <3>1, <1>2, <1>3, <1>7, <1>9, <1>10, <2>1, <2>3
              DEF ProcOK, At, Resting, Starting, Ending
    <2> QED BY <2>2, <2>3
  <1>12. HoldsInv'
    <2> SUFFICES ASSUME NEW d \in Ctls
                 PROVE  /\ \A m \in mine[d] : HeldOK(m.conf, m.held)
                        /\ proc'[d].at \in Starting \union Ending =>
                             HeldOK(proc'[d].conf, proc'[d].held)
                        /\ proc'[d].at \in {"run", "join"} =>
                             \A k \in proc'[d].held : k.nr < proc'[d].next
      BY <1>7 DEF HoldsInv, HeldOK, HoldOK
    <2>1. CASE d # c
      BY <1>6, <2>1 DEF OnlyMoves, Inv, HoldsInv
    <2>2. CASE d = c
      BY <1>4, <1>6, <2>2 DEF HeldOK, Inv, HoldsInv
    <2> QED BY <2>1, <2>2
  <1>13. \A id \in Ids : HeldBy(id)' = HeldBy(id)
    <2> SUFFICES ASSUME NEW id \in Ids
                 PROVE  HeldBy(id)' = HeldBy(id)
      OBVIOUS
    <2>1. id[1] \in Ctls
      BY DEF Ids
    <2>2. CASE id[1] # c
      BY <1>6, <1>7, <2>1, <2>2 DEF HeldBy, OnlyMoves
    <2>3. CASE id[1] = c
      <3>1. proc[c].id = None
        BY <1>7 DEF Inv, NamesInv, ProcOK, At, Resting
      <3>2. id # None
        BY ResourcesAssumption
      <3>3. HeldBy(id) = UNION {m.held : m \in {x \in mine[c] : x.id = id}}
        BY <2>3, <3>1, <3>2 DEF HeldBy
      <3>4. CASE id = proc'[c].id
        <4>1. {x \in mine[c] : x.id = id} = {}
          BY <1>4, <1>6, <1>9, <3>4
        <4>2. HeldBy(id)' = {}
          BY <1>4, <1>6, <2>3, <3>4 DEF HeldBy
        <4> QED BY <3>3, <4>1, <4>2
      <3>5. CASE id # proc'[c].id
        BY <1>7, <2>3, <3>3, <3>5 DEF HeldBy
      <3> QED BY <3>4, <3>5
    <2> QED BY <2>2, <2>3
  <1>14. JoinsShrink
    BY <1>4, <1>6 DEF JoinsShrink, At, OnlyMoves
  <1> QED BY <1>7, <1>8, <1>11, <1>12, <1>13, <1>14, QuietKept DEF Inv

\* Run fails, and nothing else changes.
LEMMA FailStep ==
  ASSUME Inv, NEW c \in Ctls, proc[c].at \in {"run", "join"}, RunFails(c),
         UNCHANGED <<declared, used, natholes, table, groups, pxyTable, mine, portsUsed, stray, displaced>>
  PROVE  Inv'
  <1>1. /\ proc' \in [Ctls -> Procs] /\ \A d \in Ctls \ {c} : proc'[d] = proc[d]
        /\ proc'[c].id = proc[c].id /\ proc'[c].conf = proc[c].conf
        /\ proc'[c].at = "undo" /\ proc'[c].held = proc[c].held
    BY FailMoves DEF Inv
  <1>2. GoesOn(c)
    BY <1>1 DEF GoesOn, OnlyMoves, Starting
  <1>3. TypeOK'
    BY <1>1 DEF Inv, TypeOK
  <1>4. NamesInv'
    BY <1>1, <1>2, NamesGoOn DEF Inv
  <1>5. HoldsInv'
    BY <1>1, <1>2, HoldsGoOn DEF Inv
  <1>6. \A id \in Ids : HeldBy(id)' = HeldBy(id)
    <2>1. HeldBy(proc[c].id) = proc[c].held
      BY Me DEF Inv, Starting
    <2> QED BY <1>1, <1>2, <2>1, HeldGoesOn DEF Inv
  <1>7. JoinsShrink
    BY <1>1 DEF JoinsShrink, At
  <1> QED BY <1>3, <1>4, <1>5, <1>6, <1>7, QuietKept DEF Inv

\* A control that is done with a proxy that was not registered drops what it held.
LEMMA HeldRests ==
  ASSUME TypeOK, NamesInv, NEW c \in Ctls, Rests(c),
         proc[c].at \in Starting \/ proc[c].id = None
  PROVE  \A id \in Ids : HeldBy(id)' = IF id = proc[c].id THEN {} ELSE HeldBy(id)
  <1> SUFFICES ASSUME NEW id \in Ids
               PROVE  HeldBy(id)' = IF id = proc[c].id THEN {} ELSE HeldBy(id)
    OBVIOUS
  <1>1. id[1] \in Ctls /\ id # None
    BY ResourcesAssumption DEF Ids
  <1>2. CASE id[1] # c
    <2>1. id # proc[c].id
      BY <1>1, <1>2 DEF NamesInv, ProcOK
    <2> QED BY <1>1, <1>2, <2>1 DEF HeldBy, Rests, OnlyMoves
  <1>3. CASE id[1] = c
    <2>1. HeldBy(id)' = UNION {m.held : m \in {x \in mine[c] : x.id = id}}
      BY <1>1, <1>3 DEF HeldBy, Rests
    <2>2. CASE id = proc[c].id
      <3>1. {x \in mine[c] : x.id = id} = {}
        BY <1>1, <2>2 DEF NamesInv, ProcOK
      <3> QED BY <2>1, <2>2, <3>1
    <2>3. CASE id # proc[c].id
      BY <1>3, <2>1, <2>3 DEF HeldBy
    <2> QED BY <2>2, <2>3
  <1> QED BY <1>2, <1>3

LEMMA RefusedStep ==
  ASSUME Inv, NEW c \in Ctls, Refused(c)
  PROVE  Inv'
  <1>1. /\ At(c, "undo") /\ proc[c].held = {}
        /\ portsUsed' = [portsUsed EXCEPT ![c] =
                           IF Counts THEN @ - UsedPortsNum(proc[c].conf) ELSE @]
        /\ displaced' = displaced \ {proc[c].id}
        /\ proc' = [proc EXCEPT ![c] = Idle]
        /\ UNCHANGED <<declared, used, natholes, table, groups, pxyTable, mine, stray>>
    BY DEF Refused, resources
  <1>2. Idle \in Procs /\ Idle.at = "idle" /\ Idle.id = None
    BY DEF Idle, Procs, Places
  <1>3. OnlyMoves(c) /\ proc'[c] = Idle
    BY <1>1, <1>2, SetMoves DEF Inv
  <1>4. Rests(c) /\ proc[c].at \in Starting
    BY <1>1, <1>2, <1>3 DEF Rests, Resting, Starting, At
  <1>5. TypeOK'
    <2>1. UsedPortsNum(proc[c].conf) \in Int
      BY PortsNum
    <2>2. portsUsed' \in [Ctls -> Int]
      BY <1>1, <2>1 DEF Inv, TypeOK
    <2> QED BY <1>1, <1>3, <2>2 DEF Inv, TypeOK, OnlyMoves
  <1>6. NamesInv'
    BY <1>4, NamesRest DEF Inv
  <1>7. HoldsInv'
    BY <1>4, HoldsRest DEF Inv
  <1>8. HeldBy(proc[c].id) = {}
    BY <1>1, <1>4, Me DEF Inv
  <1>9. \A id \in Ids : HeldBy(id)' = HeldBy(id)
    BY <1>4, <1>8, HeldRests DEF Inv
  <1>10. JoinsShrink
    BY <1>2, <1>3 DEF JoinsShrink, At, OnlyMoves
  <1>11. \A id \in Ids : id \in displaced => \/ id \in displaced'
                                              \/ \A k \in HeldBy(id) : k.how # "nathole"
    BY <1>1, <1>8
  <1> QED BY <1>1, <1>5, <1>6, <1>7, <1>9, <1>10, <1>11, QuietKept DEF Inv

LEMMA ManagerReturnsStep ==
  ASSUME Inv, NEW c \in Ctls, NEW place \in {"stop", "ended"}, proc[c].at \in Resting,
         Goto(c, place), UNCHANGED <<declared, used, natholes, table, groups, pxyTable, mine,
                                     portsUsed, stray, displaced>>
  PROVE  Inv'
  <1>1. /\ proc' \in [Ctls -> Procs] /\ \A d \in Ctls \ {c} : proc'[d] = proc[d]
        /\ proc'[c].id = proc[c].id /\ proc'[c].at = place
    BY GoMoves DEF Inv, Places
  <1>2. proc[c].id = None
    BY DEF Inv, NamesInv, ProcOK
  <1>3. Rests(c)
    BY <1>1, <1>2 DEF Rests, OnlyMoves, Resting
  <1>4. TypeOK'
    BY <1>1 DEF Inv, TypeOK
  <1>5. NamesInv' /\ HoldsInv'
    BY <1>3, NamesRest, HoldsRest DEF Inv
  <1>6. \A id \in Ids : id # None
    BY ResourcesAssumption
  <1>7. \A id \in Ids : HeldBy(id)' = HeldBy(id)
    BY <1>2, <1>3, <1>6, HeldRests DEF Inv
  <1>8. JoinsShrink
    BY <1>1 DEF JoinsShrink, At
  <1> QED BY <1>4, <1>5, <1>7, <1>8, QuietKept DEF Inv

\* CloseProxy or stoper begins with a registered proxy.
LEMMA BeginCloseStep ==
  ASSUME Inv, NEW c \in Ctls, NEW place \in {"close", "stopClose"}, proc[c].at \in Resting,
         NEW m \in mine[c],
         proc' = [proc EXCEPT ![c] = [Idle EXCEPT !.at = place, !.id = m.id,
                                        !.conf = m.conf, !.held = m.held]],
         portsUsed' \in [Ctls -> Int],
         UNCHANGED <<declared, used, natholes, table, groups, pxyTable, mine, stray, displaced>>
  PROVE  Inv'
  <1> DEFINE q == [Idle EXCEPT !.at = place, !.id = m.id, !.conf = m.conf, !.held = m.held]
  <1>1. q.at = place /\ q.id = m.id /\ q.conf = m.conf /\ q.held = m.held
    BY DEF Idle
  <1>2. m \in Proxies
    BY DEF Inv, TypeOK
  <1>3. q \in Procs
    BY <1>2 DEF Idle, Procs, Places, Proxies
  <1> HIDE DEF q
  <1>4. OnlyMoves(c) /\ proc'[c] = q
    BY <1>3, SetMoves DEF Inv, q
  <1>5. TypeOK'
    BY <1>4 DEF Inv, TypeOK, OnlyMoves
  <1>6. NamesInv'
    <2> SUFFICES ASSUME NEW d \in Ctls
                 PROVE  MineOK(d)' /\ ProcOK(d)'
      BY DEF NamesInv
    <2>1. MineOK(d)'
      BY DEF Inv, NamesInv, MineOK
    <2>2. CASE d # c
      BY <1>4, <2>1, <2>2 DEF OnlyMoves, Inv, NamesInv, ProcOK, At, More, Next1
    <2>3. CASE d = c
      BY <1>1, <1>4, <2>1, <2>3 DEF ProcOK, At, Resting, Starting, Ending
    <2> QED BY <2>2, <2>3
  <1>7. HoldsInv'
    <2> SUFFICES ASSUME NEW d \in Ctls
                 PROVE  /\ \A x \in mine[d] : HeldOK(x.conf, x.held)
                        /\ proc'[d].at \in Starting \union Ending =>
                             HeldOK(proc'[d].conf, proc'[d].held)
                        /\ proc'[d].at \in {"run", "join"} =>
                             \A k \in proc'[d].held : k.nr < proc'[d].next
      BY DEF HoldsInv, HeldOK, HoldOK
    <2>1. CASE d # c
      BY <1>4, <2>1 DEF OnlyMoves, Inv, HoldsInv
    <2>2. CASE d = c
      BY <1>1, <1>4, <2>2 DEF Inv, HoldsInv
    <2> QED BY <2>1, <2>2
  <1>8. \A id \in Ids : HeldBy(id)' = HeldBy(id)
    <2> SUFFICES ASSUME NEW id \in Ids
                 PROVE  HeldBy(id)' = HeldBy(id)
      OBVIOUS
    <2>1. id[1] \in Ctls /\ id # None
      BY ResourcesAssumption DEF Ids
    <2>2. proc[c].id = None
      BY DEF Inv, NamesInv, ProcOK
    <2>3. CASE id = m.id
      <3>1. HeldBy(id) = m.held /\ id[1] = c
        BY <2>1, <2>2, <2>3, MineHeld DEF Inv
      <3> QED BY <1>1, <1>4, <2>3, <3>1 DEF HeldBy
    <2>4. CASE id # m.id /\ id[1] = c
      BY <1>1, <1>4, <2>1, <2>2, <2>4 DEF HeldBy
    <2>5. CASE id[1] # c
      BY <1>4, <2>1, <2>5 DEF HeldBy, OnlyMoves
    <2> QED BY <2>3, <2>4, <2>5
  <1>9. JoinsShrink
    BY <1>1, <1>4 DEF JoinsShrink, At, OnlyMoves
  <1> QED BY <1>5, <1>6, <1>7, <1>8, <1>9, QuietKept DEF Inv

LEMMA ClosedStep ==
  ASSUME Inv, NEW c \in Ctls, Closed(c)
  PROVE  Inv'
  <1> DEFINE me == proc[c].id
             q == [Idle EXCEPT !.at = IF At(c, "close") THEN "idle" ELSE "stop"]
  <1>1. /\ proc[c].at \in {"close", "stopClose"} /\ proc[c].held = {}
        /\ pxyTable' = [pxyTable EXCEPT ![me[2]] = None]
        /\ mine' = [mine EXCEPT ![c] = {m \in @ : m.id # me}]
        /\ displaced' = displaced \ {me}
        /\ proc' = [proc EXCEPT ![c] = q]
        /\ UNCHANGED <<declared, used, natholes, table, groups, portsUsed, stray>>
    BY DEF Closed, resources
  <1>2. q.at \in {"idle", "stop"} /\ q.id = None
    BY DEF Idle
  <1>3. q \in Procs
    BY DEF Idle, Procs, Places
  <1> HIDE DEF q
  <1>4. OnlyMoves(c) /\ proc'[c] = q
    BY <1>1, <1>3, SetMoves DEF Inv
  <1>5. me \in Ids /\ me[1] = c /\ me[2] \in ConfNames /\ HeldBy(me) = {}
    BY <1>1, Me DEF Inv, Ending
  <1>6. PICK x \in mine[c] : x.id = me
    BY <1>1 DEF Inv, NamesInv, ProcOK, Ending
  <1>7. /\ mine'[c] = {m \in mine[c] : m.id # me}
        /\ \A d \in Ctls \ {c} : mine'[d] = mine[d]
        /\ mine' \in [Ctls -> SUBSET Proxies]
    BY <1>1 DEF Inv, TypeOK
  <1>8. /\ pxyTable' \in [ConfNames -> Ids \union {None}]
        /\ \A n \in ConfNames \ {me[2]} : pxyTable'[n] = pxyTable[n]
    BY <1>1 DEF Inv, TypeOK
  <1>9. TypeOK'
    BY <1>1, <1>4, <1>7, <1>8 DEF Inv, TypeOK, OnlyMoves
  <1>10. NamesInv'
    <2> SUFFICES ASSUME NEW d \in Ctls
                 PROVE  MineOK(d)' /\ ProcOK(d)'
      BY DEF NamesInv
    <2>1. mine'[d] \subseteq mine[d] /\ \A m \in mine'[d] : m.id # me
      <3>1. CASE d = c
        BY <1>7, <3>1
      <3>2. CASE d # c
        BY <1>5, <1>7, <3>2 DEF Inv, NamesInv, MineOK
      <3> QED BY <3>1, <3>2
    <2>2. \A m \in mine[d] : m.id[2] \in ConfNames
      BY DEF Inv, TypeOK, Proxies, Ids
    <2>3. \A m \in mine'[d] : m.id[2] # me[2]
      <3> SUFFICES ASSUME NEW m \in mine'[d], m.id[2] = me[2]
                   PROVE  FALSE
        OBVIOUS
      <3>1. pxyTable[m.id[2]] = m.id
        BY <2>1 DEF Inv, NamesInv, MineOK
      <3>2. pxyTable[x.id[2]] = x.id
        BY DEF Inv, NamesInv, MineOK
      <3> QED BY <1>6, <2>1, <3>1, <3>2
    <2>4. MineOK(d)'
      <3>1. IsFiniteSet(mine'[d])
        BY <2>1, FS_Subset DEF Inv, NamesInv, MineOK
      <3>2. \A m \in mine'[d] : m.id[1] = d /\ m.id[3] = 0 /\ pxyTable'[m.id[2]] = m.id
        BY <1>8, <2>1, <2>2, <2>3 DEF Inv, NamesInv, MineOK
      <3> QED BY <2>1, <3>1, <3>2 DEF Inv, NamesInv, MineOK
    <2>5. CASE d # c
      BY <1>4, <1>7, <2>4, <2>5 DEF OnlyMoves, Inv, NamesInv, ProcOK, At, More, Next1
    <2>6. CASE d = c
      BY <1>2, <1>4, <2>4, <2>6 DEF ProcOK, At, Resting, Starting, Ending
    <2> QED BY <2>5, <2>6
  <1>11. HoldsInv'
    <2> SUFFICES ASSUME NEW d \in Ctls
                 PROVE  /\ \A m \in mine'[d] : HeldOK(m.conf, m.held)
                        /\ proc'[d].at \in Starting \union Ending =>
                             HeldOK(proc'[d].conf, proc'[d].held)
                        /\ proc'[d].at \in {"run", "join"} =>
                             \A k \in proc'[d].held : k.nr < proc'[d].next
      BY DEF HoldsInv, HeldOK, HoldOK
    <2>1. CASE d # c
      BY <1>4, <1>7, <2>1 DEF OnlyMoves, Inv, HoldsInv
    <2>2. CASE d = c
      BY <1>2, <1>4, <1>7, <2>2 DEF Inv, HoldsInv, Starting, Ending
    <2> QED BY <2>1, <2>2
  <1>12. \A id \in Ids : HeldBy(id)' = HeldBy(id)
    <2> SUFFICES ASSUME NEW id \in Ids
                 PROVE  HeldBy(id)' = HeldBy(id)
      OBVIOUS
    <2>1. id[1] \in Ctls /\ id # None
      BY ResourcesAssumption DEF Ids
    <2>2. CASE id[1] # c
      BY <1>4, <1>7, <2>1, <2>2 DEF HeldBy, OnlyMoves
    <2>3. CASE id[1] = c
      <3>1. HeldBy(id)' = UNION {m.held : m \in {y \in mine'[c] : y.id = id}}
        BY <1>2, <1>4, <2>1, <2>3 DEF HeldBy
      <3>2. CASE id = me
        <4>1. {y \in mine'[c] : y.id = id} = {}
          BY <1>7, <3>2
        <4> QED BY <1>5, <3>1, <3>2, <4>1
      <3>3. CASE id # me
        <4>1. {y \in mine'[c] : y.id = id} = {y \in mine[c] : y.id = id}
          BY <1>7, <3>3
        <4> QED BY <2>3, <3>1, <3>3, <4>1 DEF HeldBy
      <3> QED BY <3>2, <3>3
    <2> QED BY <2>2, <2>3
  <1>13. JoinsShrink
    BY <1>2, <1>4 DEF JoinsShrink, At, OnlyMoves
  <1>14. \A id \in Ids : id \in displaced => \/ id \in displaced'
                                              \/ \A k \in HeldBy(id) : k.how # "nathole"
    BY <1>1, <1>5
  <1> QED BY <1>1, <1>9, <1>10, <1>11, <1>12, <1>13, <1>14, QuietKept DEF Inv

LEMMA AddNameStep ==
  ASSUME Inv, NEW c \in Ctls, AddName(c)
  PROVE  Inv'
  <1> DEFINE me == proc[c].id
             new == [id |-> me, conf |-> proc[c].conf, held |-> proc[c].held]
  <1>1. At(c, "run") /\ UNCHANGED <<declared, used, natholes, table, groups, portsUsed, stray, displaced>>
    BY DEF AddName, resources, history
  <1>2. /\ me \in Ids /\ me[1] = c /\ me[2] \in ConfNames /\ me[3] \in {0, 1}
        /\ proc[c].conf \in Confs /\ HeldBy(me) = proc[c].held
    <2>1. me \in Ids /\ me[1] = c /\ me[2] \in ConfNames /\ proc[c].conf \in Confs
          /\ HeldBy(me) = proc[c].held
      BY <1>1, Me DEF Inv, At, Starting
    <2> QED BY <2>1 DEF Ids
  <1>3. proc[c] \in Procs /\ proc[c].held \subseteq Holds
    BY DEF Inv, TypeOK, Procs
  <1>4. CASE pxyTable[me[2]] = None
    <2>1. /\ pxyTable' = [pxyTable EXCEPT ![me[2]] = me]
          /\ mine' = [mine EXCEPT ![c] = @ \union {new}]
          /\ proc' = [proc EXCEPT ![c] = Idle]
      BY <1>4 DEF AddName
    <2>2. Idle \in Procs /\ Idle.at = "idle" /\ Idle.id = None
      BY DEF Idle, Procs, Places
    <2>3. OnlyMoves(c) /\ proc'[c] = Idle
      BY <2>1, <2>2, SetMoves DEF Inv
    <2>4. new \in Proxies /\ new.id = me /\ new.conf = proc[c].conf /\ new.held = proc[c].held
      BY <1>2, <1>3 DEF Proxies
    <2> HIDE DEF new
    <2>5. /\ mine'[c] = mine[c] \union {new}
          /\ \A d \in Ctls \ {c} : mine'[d] = mine[d]
          /\ mine' \in [Ctls -> SUBSET Proxies]
      BY <2>1, <2>4 DEF Inv, TypeOK
    <2>6. /\ pxyTable' \in [ConfNames -> Ids \union {None}] /\ pxyTable'[me[2]] = me
          /\ \A n \in ConfNames \ {me[2]} : pxyTable'[n] = pxyTable[n]
      BY <1>2, <2>1 DEF Inv, TypeOK
    <2>7. TypeOK'
      BY <1>1, <2>3, <2>5, <2>6 DEF Inv, TypeOK, OnlyMoves
    <2>8. \A d \in Ctls : \A m \in mine[d] : m.id[2] # me[2] /\ m.id[2] \in ConfNames
      <3> SUFFICES ASSUME NEW d \in Ctls, NEW m \in mine[d]
                   PROVE  m.id[2] # me[2] /\ m.id[2] \in ConfNames
        OBVIOUS
      <3>1. m.id \in Ids /\ pxyTable[m.id[2]] = m.id
        BY DEF Inv, NamesInv, MineOK, TypeOK, Proxies
      <3>2. m.id # None
        BY <3>1, ResourcesAssumption
      <3> QED BY <1>4, <3>1, <3>2 DEF Ids
    <2>9. me[3] = 0
      BY <1>1, <1>2, <2>8 DEF Inv, NamesInv, ProcOK, At, Starting
    <2>10. NamesInv'
      <3> SUFFICES ASSUME NEW d \in Ctls
                   PROVE  MineOK(d)' /\ ProcOK(d)'
        BY DEF NamesInv
      <3>1. CASE d # c
        <4>1. MineOK(d)'
          BY <2>5, <2>6, <2>8, <3>1 DEF Inv, NamesInv, MineOK
        <4> QED BY <2>3, <2>5, <3>1, <4>1 DEF OnlyMoves, Inv, NamesInv, ProcOK, At, More, Next1
      <3>2. CASE d = c
        <4>1. IsFiniteSet(mine'[c])
          BY <2>5, FS_AddElement DEF Inv, NamesInv, MineOK
        <4>2. \A m \in mine'[c] : m.id[1] = c /\ m.id[3] = 0 /\ pxyTable'[m.id[2]] = m.id
          BY <1>2, <2>4, <2>5, <2>6, <2>8, <2>9 DEF Inv, NamesInv, MineOK
        <4>3. \A m, x \in mine'[c] : m.id = x.id => m = x
          BY <2>4, <2>5, <2>8 DEF Inv, NamesInv, MineOK
        <4>4. MineOK(c)'
          BY <4>1, <4>2, <4>3 DEF MineOK
        <4> QED BY <2>2, <2>3, <3>2, <4>4 DEF ProcOK, At, Resting, Starting, Ending
      <3> QED BY <3>1, <3>2
    <2>11. HoldsInv'
      <3> SUFFICES ASSUME NEW d \in Ctls
                   PROVE  /\ \A m \in mine'[d] : HeldOK(m.conf, m.held)
                          /\ proc'[d].at \in Starting \union Ending =>
                               HeldOK(proc'[d].conf, proc'[d].held)
                          /\ proc'[d].at \in {"run", "join"} =>
                               \A k \in proc'[d].held : k.nr < proc'[d].next
        BY DEF HoldsInv, HeldOK, HoldOK
      <3>1. CASE d # c
        BY <2>3, <2>5, <3>1 DEF OnlyMoves, Inv, HoldsInv
      <3>2. CASE d = c
        <4>1. HeldOK(new.conf, new.held)
          BY <1>1, <2>4 DEF Inv, HoldsInv, At, Starting
        <4> QED BY <2>2, <2>3, <2>5, <3>2, <4>1 DEF Inv, HoldsInv, Starting, Ending
      <3> QED BY <3>1, <3>2
    <2>12. \A id \in Ids : HeldBy(id)' = HeldBy(id)
      <3> SUFFICES ASSUME NEW id \in Ids
                   PROVE  HeldBy(id)' = HeldBy(id)
        OBVIOUS
      <3>1. id[1] \in Ctls /\ id # None
        BY ResourcesAssumption DEF Ids
      <3>2. CASE id[1] # c
        BY <2>3, <2>5, <3>1, <3>2 DEF HeldBy, OnlyMoves
      <3>3. CASE id[1] = c
        <4>1. HeldBy(id)' = UNION {m.held : m \in {x \in mine'[c] : x.id = id}}
          BY <2>2, <2>3, <3>1, <3>3 DEF HeldBy
        <4>2. CASE id = me
          <5>1. {x \in mine'[c] : x.id = id} = {new}
            BY <2>4, <2>5, <2>8, <4>2
          <5> QED BY <1>2, <2>4, <4>1, <4>2, <5>1
        <4>3. CASE id # me
          <5>1. {x \in mine'[c] : x.id = id} = {x \in mine[c] : x.id = id}
            BY <2>4, <2>5, <4>3
          <5> QED BY <3>3, <4>1, <4>3, <5>1 DEF HeldBy
        <4> QED BY <4>2, <4>3
      <3> QED BY <3>2, <3>3
    <2>13. JoinsShrink
      BY <2>2, <2>3 DEF JoinsShrink, At, OnlyMoves
    <2> QED BY <1>1, <2>7, <2>10, <2>11, <2>12, <2>13, QuietKept DEF Inv
  <1>5. CASE pxyTable[me[2]] # None
    <2>1. Goto(c, "undo") /\ UNCHANGED <<pxyTable, mine>>
      BY <1>5 DEF AddName
    <2>2. /\ proc' \in [Ctls -> Procs] /\ \A d \in Ctls \ {c} : proc'[d] = proc[d]
          /\ proc'[c].id = proc[c].id /\ proc'[c].conf = proc[c].conf
          /\ proc'[c].at = "undo" /\ proc'[c].held = proc[c].held
      BY <2>1, GoMoves DEF Inv, Places
    <2>3. GoesOn(c)
      BY <1>1, <2>1, <2>2 DEF GoesOn, OnlyMoves, Starting, At
    <2>4. TypeOK'
      BY <1>1, <2>1, <2>2 DEF Inv, TypeOK
    <2>5. NamesInv' /\ HoldsInv'
      BY <2>2, <2>3, NamesGoOn, HoldsGoOn DEF Inv
    <2>6. \A id \in Ids : HeldBy(id)' = HeldBy(id)
      BY <1>2, <2>2, <2>3, HeldGoesOn DEF Inv
    <2>7. JoinsShrink
      BY <2>2 DEF JoinsShrink, At
    <2> QED BY <1>1, <2>4, <2>5, <2>6, <2>7, QuietKept DEF Inv
  <1> QED BY <1>4, <1>5
-----------------------------------------------------------------------------
(***************************************************************************)
(* The steps that take a resource, or give it back, outside groups.        *)
(***************************************************************************)
\* Run has the resource it asked for and goes on with the next.
LEMMA AdvanceKeeps ==
  ASSUME TypeOK, NamesInv, HoldsInv, NEW c \in Ctls, proc[c].at \in {"run", "join"}, More(c),
         NEW how \in {"own", "nathole"} \union GroupHows, NEW res \in Resources,
         NEW obj \in Objs \union {None}, NEW index \in Indexes \union {None},
         Advance(c, how, res, obj, index), UNCHANGED <<mine, pxyTable>>,
         HoldOK(proc[c].conf, NewHold(c, how, res, obj, index))
  PROVE  /\ proc' \in [Ctls -> Procs] /\ NamesInv' /\ HoldsInv' /\ JoinsShrink
         /\ NewHold(c, how, res, obj, index) \in Holds
         /\ \A id \in Ids : HeldBy(id)' =
              IF id = proc[c].id THEN HeldBy(id) \union {NewHold(c, how, res, obj, index)}
              ELSE HeldBy(id)
  <1> DEFINE h == NewHold(c, how, res, obj, index)
  <1>1. /\ proc' \in [Ctls -> Procs] /\ \A d \in Ctls \ {c} : proc'[d] = proc[d]
        /\ proc'[c].id = proc[c].id /\ proc'[c].conf = proc[c].conf
        /\ proc'[c].at = "run" /\ proc'[c].next = proc[c].next + 1
        /\ proc'[c].held = proc[c].held \union {h} /\ h \in Holds
    BY AdvanceMoves
  <1>2. h.nr = proc[c].next
    BY DEF NewHold
  <1> HIDE DEF h
  <1>3. GoesOn(c)
    BY <1>1 DEF GoesOn, OnlyMoves, Starting
  <1>4. NamesInv'
    BY <1>1, <1>3, NamesGoOn
  <1>5. HoldsInv'
    BY <1>1, <1>2, <1>3, HoldsGrow DEF h
  <1>6. HeldBy(proc[c].id) = proc[c].held
    BY Me DEF Starting
  <1>7. \A id \in Ids : HeldBy(id)' = IF id = proc[c].id THEN HeldBy(id) \union {h} ELSE HeldBy(id)
    BY <1>1, <1>3, <1>6, HeldGoesOn
  <1>8. JoinsShrink
    BY <1>1 DEF JoinsShrink, At
  <1> QED BY <1>1, <1>4, <1>5, <1>7, <1>8 DEF h

LEMMA OwnTakenStep ==
  ASSUME Inv, NEW c \in Ctls, At(c, "run"), More(c), Next1(c).how \in {"port", "route", "secret"},
         NEW r \in Allowed(Next1(c).res), used[r] = None,
         used' = [used EXCEPT ![r] = proc[c].id], HoldsOwn(c, r),
         UNCHANGED <<declared, natholes, table, groups, pxyTable, mine, portsUsed, stray, displaced>>
  PROVE  Inv'
  <1> DEFINE me == proc[c].id
             h == NewHold(c, "own", r, None, None)
  <1>1. me \in Ids /\ proc[c].conf \in Confs
    BY Me DEF Inv, At, Starting
  <1>2. r \in Resources
    BY <1>1, WantIsKnown DEF More, Next1
  <1>3. h.nr = proc[c].next /\ h.how = "own" /\ h.res = r
    BY DEF NewHold
  <1>4. HoldOK(proc[c].conf, h)
    BY <1>3 DEF HoldOK, Kept, GroupHows, More, Next1
  <1> HIDE DEF h
  <1>5. /\ proc' \in [Ctls -> Procs] /\ NamesInv' /\ HoldsInv' /\ JoinsShrink /\ h \in Holds
        /\ \A id \in Ids : HeldBy(id)' = IF id = me THEN HeldBy(id) \union {h} ELSE HeldBy(id)
    <2>1. Advance(c, "own", r, None, None) /\ proc[c].at \in {"run", "join"}
      BY DEF HoldsOwn, At
    <2> QED BY <1>2, <1>4, <2>1, AdvanceKeeps DEF Inv, h
  <1>6. /\ used' \in [Resources -> Ids \union ({"group"} \X Objs) \union {None}]
        /\ used'[r] = me /\ \A s \in Resources \ {r} : used'[s] = used[s]
    BY <1>1, <1>2 DEF Inv, TypeOK
  <1>7. TypeOK'
    BY <1>5, <1>6 DEF Inv, TypeOK
  <1>8. \A id \in Ids : id # None
    BY ResourcesAssumption
  <1>9. OwnInv'
    <2>1. ASSUME NEW id \in Ids, NEW k \in HeldBy(id), k.how = "own"
          PROVE  used'[k.res] = id /\ k.res # r
      <3>1. k.res \in Resources
        BY HeldTyped DEF Inv, Holds
      <3>2. used[k.res] = id
        BY <2>1 DEF Inv, OwnInv
      <3> QED BY <1>6, <1>8, <3>1, <3>2
    <2>2. \A id \in Ids : \A k \in HeldBy(id)' : k.how = "own" => used'[k.res] = id
      BY <1>3, <1>5, <1>6, <2>1
    <2>3. \A id \in Ids : \A k, q \in HeldBy(id)' :
            k.how = "own" /\ q.how = "own" /\ k.res = q.res => k = q
      BY <1>3, <1>5, <2>1 DEF Inv, OwnInv
    <2>4. ASSUME NEW s \in Resources, used'[s] \in Ids
          PROVE  \E k \in HeldBy(used[s])' : k.how = "own" /\ k.res = s
      <3>1. CASE s = r
        BY <1>1, <1>3, <1>5, <1>6, <3>1
      <3>2. CASE s # r
        <4>1. used'[s] = used[s]
          BY <1>6, <3>2
        <4>2. PICK k \in HeldBy(used[s]) : k.how = "own" /\ k.res = s
          BY <2>4, <4>1 DEF Inv, OwnInv
        <4>3. k \in HeldBy(used[s])'
          BY <1>5, <2>4, <4>1, <4>2
        <4> QED BY <4>2, <4>3
      <3> QED BY <3>1, <3>2
    <2> QED BY <2>2, <2>3, <2>4 DEF OwnInv
  <1>10. SameHolds({"nathole"}) /\ SameHolds(GroupHows)
    BY <1>3, <1>5 DEF SameHolds, GroupHows
  <1>11. SameOwned({"group"} \X Objs)
    <2> SUFFICES ASSUME NEW s \in Resources,
                        used[s] \in {"group"} \X Objs \/ used'[s] \in {"group"} \X Objs
                 PROVE  used'[s] = used[s]
      BY DEF SameOwned
    <2>1. me \notin {"group"} \X Objs /\ None \notin {"group"} \X Objs
      BY <1>1, Owners
    <2> QED BY <1>6, <2>1
  <1>12. NatInv'
    BY <1>7, <1>10, NatKept DEF Inv
  <1>13. GroupInv'
    BY <1>5, <1>7, <1>10, <1>11, GroupKept DEF Inv
  <1> QED BY <1>5, <1>7, <1>9, <1>12, <1>13 DEF Inv

LEMMA TakeStep ==
  ASSUME Inv, NEW c \in Ctls, AcquirePort(c) \/ AddRoute(c) \/ SecretListen(c)
  PROVE  Inv'
  <1>1. /\ At(c, "run") /\ More(c) /\ Next1(c).how \in {"port", "route", "secret"}
        /\ UNCHANGED <<declared, natholes, table, groups, pxyTable, mine, portsUsed, stray, displaced>>
    BY DEF AcquirePort, AddRoute, SecretListen, Asks, history
  <1>2. proc[c].conf \in Confs
    BY <1>1, Me DEF Inv, At, Starting
  <1>3. ASSUME Next1(c).how # "port"
        PROVE  Allowed(Next1(c).res) = {Next1(c).res}
    <2>1. Next1(c).how \in {"route", "secret"}
      BY <1>1, <1>3
    <2>2. proc[c].conf.kind \notin {"tcp", "udp"}
      BY <1>1, <1>2, <2>1, WantHow DEF More, Next1
    <2> QED BY <1>1, <1>2, <2>2, AllowedIsWanted DEF More, Next1
  <1>4. \/ \E r \in Allowed(Next1(c).res) :
             used[r] = None /\ used' = [used EXCEPT ![r] = proc[c].id] /\ HoldsOwn(c, r)
        \/ UNCHANGED used /\ RunFails(c)
    <2>1. CASE AcquirePort(c)
      BY <2>1 DEF AcquirePort, Acquirable
    <2>2. CASE AddRoute(c) \/ SecretListen(c)
      BY <1>3, <2>2 DEF AddRoute, SecretListen, Asks
    <2> QED BY <2>1, <2>2
  <1>5. CASE UNCHANGED used /\ RunFails(c)
    BY <1>1, <1>5, FailStep DEF At
  <1>6. CASE \E r \in Allowed(Next1(c).res) :
               used[r] = None /\ used' = [used EXCEPT ![r] = proc[c].id] /\ HoldsOwn(c, r)
    BY <1>1, <1>6, OwnTakenStep
  <1> QED BY <1>4, <1>5, <1>6

LEMMA ListenClientStep ==
  ASSUME Inv, NEW c \in Ctls, ListenClient(c)
  PROVE  Inv'
  <1> DEFINE me == proc[c].id
             n == proc[c].id[2]
             r == Next1(c).res
             h == NewHold(c, "nathole", r, None, None)
  <1>1. /\ At(c, "run") /\ More(c) /\ Next1(c).how = "nathole"
        /\ natholes' = [natholes EXCEPT ![n] = me]
        /\ displaced' = displaced \union ({natholes[n]} \ {None})
        /\ Advance(c, "nathole", r, None, None)
        /\ UNCHANGED <<declared, used, table, groups, pxyTable, mine, portsUsed, stray>>
    BY DEF ListenClient, Asks
  <1>2. me \in Ids /\ n \in ConfNames /\ proc[c].conf \in Confs
    BY <1>1, Me DEF Inv, At, Starting
  <1>3. r \in Resources
    <2>1. proc[c].conf.kind = "xtcp"
      BY <1>1, <1>2, WantHow, ResourcesAssumption DEF More, Next1, Kinds
    <2>2. Allowed(r) = {r}
      BY <1>1, <1>2, <2>1, AllowedIsWanted DEF More, Next1
    <2> QED BY <1>1, <1>2, <2>2, WantIsKnown DEF More, Next1
  <1>4. h.nr = proc[c].next /\ h.how = "nathole" /\ h.res = r
    BY DEF NewHold
  <1>5. HoldOK(proc[c].conf, h)
    BY <1>1, <1>4 DEF HoldOK, Kept, GroupHows, More, Next1
  <1> HIDE DEF h
  <1>6. /\ proc' \in [Ctls -> Procs] /\ NamesInv' /\ HoldsInv' /\ JoinsShrink /\ h \in Holds
        /\ \A id \in Ids : HeldBy(id)' = IF id = me THEN HeldBy(id) \union {h} ELSE HeldBy(id)
    BY <1>1, <1>3, <1>5, AdvanceKeeps DEF Inv, At, h
  <1>7. /\ natholes' \in [ConfNames -> Ids \union {None}]
        /\ natholes'[n] = me /\ \A x \in ConfNames \ {n} : natholes'[x] = natholes[x]
    BY <1>1, <1>2 DEF Inv, TypeOK
  <1>8. TypeOK'
    BY <1>1, <1>6, <1>7 DEF Inv, TypeOK
  <1>9. SameHolds({"own"}) /\ SameHolds(GroupHows)
    BY <1>4, <1>6 DEF SameHolds, GroupHows
  <1>10. OwnInv' /\ GroupInv'
    <2>1. SameOwned(Ids) /\ SameOwned({"group"} \X Objs)
      BY <1>1 DEF SameOwned
    <2> QED BY <1>1, <1>6, <1>8, <1>9, <2>1, OwnKept, GroupKept DEF Inv
  <1>11. NatInv'
    <2>1. ASSUME NEW id \in Ids, NEW k \in HeldBy(id)', k.how = "nathole"
          PROVE  natholes'[id[2]] = id \/ id \in displaced'
      <3>1. CASE id = me
        BY <1>7, <3>1
      <3>2. CASE id # me
        <4>1. natholes[id[2]] = id \/ id \in displaced
          BY <1>6, <2>1, <3>2 DEF Inv, NatInv
        <4>2. id[2] \in ConfNames /\ id # None
          BY ResourcesAssumption DEF Ids
        <4> QED BY <1>1, <1>7, <4>1, <4>2
      <3> QED BY <3>1, <3>2
    <2>2. ASSUME NEW x \in ConfNames, natholes'[x] # None
          PROVE  natholes'[x][2] = x /\ \E k \in HeldBy(natholes[x])' : k.how = "nathole"
      <3>1. CASE x = n
        BY <1>2, <1>4, <1>6, <1>7, <3>1
      <3>2. CASE x # n
        <4>1. natholes'[x] = natholes[x] /\ natholes[x] \in Ids
          BY <1>7, <2>2, <3>2 DEF Inv, TypeOK
        <4>2. PICK k \in HeldBy(natholes[x]) : k.how = "nathole"
          BY <2>2, <4>1 DEF Inv, NatInv
        <4>3. k \in HeldBy(natholes[x])'
          BY <1>6, <4>1, <4>2
        <4> QED BY <2>2, <4>1, <4>2, <4>3 DEF Inv, NatInv
      <3> QED BY <3>1, <3>2
    <2> QED BY <2>1, <2>2 DEF NatInv
  <1> QED BY <1>6, <1>8, <1>10, <1>11 DEF Inv

\* A close gives one resource back and goes on with the next.
LEMMA DropKeeps ==
  ASSUME TypeOK, NamesInv, HoldsInv, NEW c \in Ctls, NEW k, Closing(c, k), Dropped(c, k),
         UNCHANGED <<mine, pxyTable>>
  PROVE  /\ proc' \in [Ctls -> Procs] /\ NamesInv' /\ HoldsInv' /\ JoinsShrink
         /\ proc[c].id \in Ids /\ proc[c].conf \in Confs /\ proc[c].id[2] \in ConfNames
         /\ k \in HeldBy(proc[c].id) /\ k \in Holds /\ HoldOK(proc[c].conf, k)
         /\ \A id \in Ids : HeldBy(id)' =
              IF id = proc[c].id THEN HeldBy(id) \ {k} ELSE HeldBy(id)
  <1>1. proc[c].at \in {"undo", "close", "stopClose"} /\ k \in proc[c].held
    BY DEF Closing
  <1>2. /\ proc[c].at \in Starting \union Ending /\ proc[c].at \notin {"run", "join"}
        /\ proc[c].at \in Starting \/ proc[c].at \in Ending
    BY <1>1 DEF Starting, Ending
  <1>3. /\ proc' \in [Ctls -> Procs] /\ \A d \in Ctls \ {c} : proc'[d] = proc[d]
        /\ proc'[c].id = proc[c].id /\ proc'[c].conf = proc[c].conf
        /\ proc'[c].at = proc[c].at /\ proc'[c].held = proc[c].held \ {k}
    BY DropMoves
  <1>4. GoesOn(c)
    BY <1>2, <1>3 DEF GoesOn, OnlyMoves
  <1>5. NamesInv' /\ HoldsInv'
    BY <1>2, <1>3, <1>4, NamesGoOn, HoldsGoOn
  <1>6. /\ HeldBy(proc[c].id) = proc[c].held /\ proc[c].id \in Ids
        /\ proc[c].conf \in Confs /\ proc[c].id[2] \in ConfNames
    BY <1>2, Me
  <1>7. k \in Holds
    BY <1>1, <1>6, HeldTyped
  <1>8. HoldOK(proc[c].conf, k)
    BY <1>1, <1>2 DEF HoldsInv, HeldOK
  <1>9. \A id \in Ids : HeldBy(id)' = IF id = proc[c].id THEN HeldBy(id) \ {k} ELSE HeldBy(id)
    BY <1>3, <1>4, <1>6, HeldGoesOn
  <1>10. JoinsShrink
    BY <1>2, <1>3 DEF JoinsShrink, At
  <1> QED BY <1>1, <1>3, <1>5, <1>6, <1>7, <1>8, <1>9, <1>10

LEMMA CloseOwnStep ==
  ASSUME Inv, NEW c \in Ctls, NEW k \in proc[c].held, CloseOwn(c, k)
  PROVE  Inv'
  <1> DEFINE me == proc[c].id
  <1>1. /\ Closing(c, k) /\ k.how = "own" /\ used' = [used EXCEPT ![k.res] = None]
        /\ Dropped(c, k)
        /\ UNCHANGED <<declared, natholes, table, groups, pxyTable, mine, portsUsed, stray, displaced>>
    BY DEF CloseOwn, history
  <1>2. /\ proc' \in [Ctls -> Procs] /\ NamesInv' /\ HoldsInv' /\ JoinsShrink
        /\ me \in Ids /\ k \in HeldBy(me) /\ k \in Holds
        /\ \A id \in Ids : HeldBy(id)' = IF id = me THEN HeldBy(id) \ {k} ELSE HeldBy(id)
    BY <1>1, DropKeeps DEF Inv
  <1>3. k.res \in Resources /\ used[k.res] = me
    BY <1>1, <1>2 DEF Holds, Inv, OwnInv
  <1>4. /\ used' \in [Resources -> Ids \union ({"group"} \X Objs) \union {None}]
        /\ used'[k.res] = None /\ \A s \in Resources \ {k.res} : used'[s] = used[s]
    BY <1>1, <1>3 DEF Inv, TypeOK
  <1>5. TypeOK'
    BY <1>1, <1>2, <1>4 DEF Inv, TypeOK
  <1>6. \A id \in Ids : id # None
    BY ResourcesAssumption
  <1>7. OwnInv'
    <2>1. ASSUME NEW id \in Ids, NEW q \in HeldBy(id)', q.how = "own"
          PROVE  used'[q.res] = id
      <3>1. q \in HeldBy(id) /\ (id = me => q # k)
        BY <1>2
      <3>2. q.res \in Resources /\ used[q.res] = id
        BY <2>1, <3>1, HeldTyped DEF Inv, OwnInv, Holds
      <3>3. q.res # k.res
        <4> SUFFICES ASSUME q.res = k.res
                     PROVE  FALSE
          OBVIOUS
        <4>1. id = me
          BY <1>3, <3>2
        <4> QED BY <1>1, <1>2, <2>1, <3>1, <4>1 DEF Inv, OwnInv
      <3> QED BY <1>4, <3>2, <3>3
    <2>2. \A id \in Ids : \A q, x \in HeldBy(id)' :
            q.how = "own" /\ x.how = "own" /\ q.res = x.res => q = x
      BY <1>2 DEF Inv, OwnInv
    <2>3. ASSUME NEW s \in Resources, used'[s] \in Ids
          PROVE  \E q \in HeldBy(used[s])' : q.how = "own" /\ q.res = s
      <3>1. s # k.res /\ used'[s] = used[s]
        BY <1>4, <1>6, <2>3
      <3>2. PICK q \in HeldBy(used[s]) : q.how = "own" /\ q.res = s
        BY <2>3, <3>1 DEF Inv, OwnInv
      <3>3. q \in HeldBy(used[s])'
        BY <1>2, <2>3, <3>1, <3>2
      <3> QED BY <3>2, <3>3
    <2> QED BY <2>1, <2>2, <2>3 DEF OwnInv
  <1>8. SameHolds({"nathole"}) /\ SameHolds(GroupHows)
    BY <1>1, <1>2 DEF SameHolds, GroupHows
  <1>9. SameOwned({"group"} \X Objs)
    <2> SUFFICES ASSUME NEW s \in Resources,
                        used[s] \in {"group"} \X Objs \/ used'[s] \in {"group"} \X Objs
                 PROVE  used'[s] = used[s]
      BY DEF SameOwned
    <2>1. me \notin {"group"} \X Objs /\ None \notin {"group"} \X Objs
      BY <1>2, Owners
    <2> QED BY <1>3, <1>4, <2>1
  <1>10. NatInv' /\ GroupInv'
    BY <1>1, <1>2, <1>5, <1>8, <1>9, NatKept, GroupKept DEF Inv
  <1> QED BY <1>2, <1>5, <1>7, <1>10 DEF Inv

LEMMA CloseClientStep ==
  ASSUME Inv, NEW c \in Ctls, NEW k \in proc[c].held, CloseClient(c, k)
  PROVE  Inv'
  <1> DEFINE me == proc[c].id
             n == proc[c].id[2]
  <1>1. /\ Closing(c, k) /\ k.how = "nathole" /\ natholes' = [natholes EXCEPT ![n] = None]
        /\ displaced' = displaced \union ({natholes[n]} \ {None, me})
        /\ Dropped(c, k)
        /\ UNCHANGED <<declared, used, table, groups, pxyTable, mine, portsUsed, stray>>
    BY DEF CloseClient
  <1>2. /\ proc' \in [Ctls -> Procs] /\ NamesInv' /\ HoldsInv' /\ JoinsShrink
        /\ me \in Ids /\ n \in ConfNames /\ proc[c].conf \in Confs
        /\ k \in HeldBy(me) /\ k \in Holds /\ HoldOK(proc[c].conf, k)
        /\ \A id \in Ids : HeldBy(id)' = IF id = me THEN HeldBy(id) \ {k} ELSE HeldBy(id)
    BY <1>1, DropKeeps DEF Inv
  <1>3. /\ natholes' \in [ConfNames -> Ids \union {None}]
        /\ natholes'[n] = None /\ \A x \in ConfNames \ {n} : natholes'[x] = natholes[x]
    BY <1>1, <1>2 DEF Inv, TypeOK
  <1>4. TypeOK'
    BY <1>1, <1>2, <1>3 DEF Inv, TypeOK
  <1>5. SameHolds({"own"}) /\ SameHolds(GroupHows)
    BY <1>1, <1>2 DEF SameHolds, GroupHows
  <1>6. SameOwned(Ids) /\ SameOwned({"group"} \X Objs)
    BY <1>1 DEF SameOwned
  <1>7. OwnInv' /\ GroupInv'
    BY <1>1, <1>2, <1>4, <1>5, <1>6, OwnKept, GroupKept DEF Inv
  <1>8. \A q \in HeldBy(me) : q.how = "nathole" => q = k
    <2> SUFFICES ASSUME NEW q \in HeldBy(me), q.how = "nathole"
                 PROVE  q.nr = k.nr
      <3>1. proc[c].at \in Starting \union Ending
        BY <1>1 DEF Closing, Starting, Ending
      <3>2. HeldBy(me) = proc[c].held /\ HeldOK(proc[c].conf, proc[c].held)
        BY <3>1, Me DEF Inv, HoldsInv
      <3> QED BY <3>2 DEF HeldOK
    <2>1. \A x \in {q, k} : x.nr \in DOMAIN Wants(proc[c].conf)
                            /\ "nathole" = Kept(Wants(proc[c].conf)[x.nr].how)
      <3>1. proc[c].at \in Starting \union Ending
        BY <1>1 DEF Closing, Starting, Ending
      <3>2. HeldBy(me) = proc[c].held /\ HeldOK(proc[c].conf, proc[c].held)
        BY <3>1, Me DEF Inv, HoldsInv
      <3> QED BY <1>1, <3>2 DEF HeldOK, HoldOK
    <2>2. \A x \in {q, k} : x.nr = 1
      <3> SUFFICES ASSUME NEW x \in {q, k}
                   PROVE  x.nr = 1
        OBVIOUS
      <3>1. Wants(proc[c].conf)[x.nr].how = "nathole"
        BY <2>1 DEF Kept
      <3> QED BY <1>2, <2>1, <3>1, WantHow, ResourcesAssumption DEF Kinds
    <2> QED BY <2>2
  <1>9. NatInv'
    <2>1. ASSUME NEW id \in Ids, NEW q \in HeldBy(id)', q.how = "nathole"
          PROVE  natholes'[id[2]] = id \/ id \in displaced'
      <3>1. q \in HeldBy(id) /\ id # me
        BY <1>2, <1>8, <2>1
      <3>2. natholes[id[2]] = id \/ id \in displaced
        BY <2>1, <3>1 DEF Inv, NatInv
      <3>3. id[2] \in ConfNames /\ id # None
        BY ResourcesAssumption DEF Ids
      <3> QED BY <1>1, <1>3, <3>1, <3>2, <3>3
    <2>2. ASSUME NEW x \in ConfNames, natholes'[x] # None
          PROVE  natholes'[x][2] = x /\ \E q \in HeldBy(natholes[x])' : q.how = "nathole"
      <3>1. x # n /\ natholes'[x] = natholes[x] /\ natholes[x] \in Ids
        BY <1>3, <2>2 DEF Inv, TypeOK
      <3>2. natholes[x][2] = x
        BY <2>2, <3>1 DEF Inv, NatInv
      <3>3. PICK q \in HeldBy(natholes[x]) : q.how = "nathole"
        BY <2>2, <3>1 DEF Inv, NatInv
      <3>4. natholes[x] # me
        BY <3>1, <3>2
      <3>5. q \in HeldBy(natholes[x])'
        BY <1>2, <3>1, <3>3, <3>4
      <3> QED BY <3>1, <3>2, <3>3, <3>5
    <2> QED BY <2>1, <2>2 DEF NatInv
  <1> QED BY <1>2, <1>4, <1>7, <1>9 DEF Inv
-----------------------------------------------------------------------------
(***************************************************************************)
(* Groups.                                                                 *)
(***************************************************************************)
\* What is held was asked for by the configuration it is held for.
LEMMA HeldIsWanted ==
  ASSUME TypeOK, NamesInv, HoldsInv, NEW id \in Ids, NEW k \in HeldBy(id)
  PROVE  \E conf \in Confs : HoldOK(conf, k)
  <1>1. id[1] \in Ctls /\ id # None
    BY ResourcesAssumption DEF Ids
  <1>2. CASE proc[id[1]].id = id
    <2>1. proc[id[1]].at \in Places /\ proc[id[1]].at \notin Resting
      BY <1>1, <1>2 DEF TypeOK, Procs, NamesInv, ProcOK
    <2>2. proc[id[1]].at \in Starting \union Ending
      BY <2>1 DEF Places, Resting, Starting, Ending
    <2>3. proc[id[1]].conf \in Confs
      BY <1>1, <2>2, Me
    <2>4. k \in proc[id[1]].held
      BY <1>2 DEF HeldBy
    <2> QED BY <1>1, <2>2, <2>3, <2>4 DEF HoldsInv, HeldOK
  <1>3. CASE proc[id[1]].id # id
    <2>1. PICK m \in mine[id[1]] : k \in m.held
      BY <1>3 DEF HeldBy
    <2>2. m.conf \in Confs
      BY <1>1 DEF TypeOK, Proxies
    <2> QED BY <1>1, <2>1, <2>2 DEF HoldsInv, HeldOK
  <1> QED BY <1>2, <1>3

\* A place in a group: the object has members, its own for a resource of the table.
LEMMA GroupHolds ==
  ASSUME Inv, NEW id \in Ids, NEW k \in HeldBy(id), k.how \in GroupHows
  PROVE  /\ k \in Holds /\ k.obj \in Objs /\ k.index \in Indexes /\ k.res \in Resources
         /\ k.obj # None /\ k.nr \in Nat
         /\ <<id, k.nr>> \in groups[k.obj].members /\ groups[k.obj].members # {}
         /\ k.how = "httpGroup" => k.index[1] = "http" /\ k.res = <<"http", k.index[3], k.index[4]>>
  <1>1. k \in Holds
    BY HeldTyped DEF Inv
  <1>2. PICK conf \in Confs : HoldOK(conf, k)
    BY HeldIsWanted DEF Inv
  <1>3. k.obj \in Objs /\ k.obj # None
    BY <1>2, ResourcesAssumption DEF HoldOK
  <1>4. k.how = Wants(conf)[k.nr].how /\ k.nr \in DOMAIN Wants(conf)
    BY <1>2 DEF HoldOK, Kept, GroupHows
  <1>5. k.index \in Indexes
    BY <1>2, <1>4, WantIsKnown DEF HoldOK
  <1>6. k.how = "httpGroup" => k.index[1] = "http" /\ k.res = <<"http", k.index[3], k.index[4]>>
    BY <1>2, <1>4, WantIsKnown, AllowedIsWanted DEF HoldOK
  <1>7. <<id, k.nr>> \in groups[k.obj].members
    BY DEF Inv, GroupInv, HoldersAreMembers
  <1> QED BY <1>1, <1>3, <1>5, <1>6, <1>7 DEF Holds

LEMMA LookUpStep ==
  ASSUME Inv, NEW c \in Ctls, NEW how \in GroupHows, LookUpGroup(c, how)
  PROVE  Inv'
  <1> DEFINE i == GroupIndex(proc[c].conf, Next1(c))
             o == IF table[i] = None THEN Fresh ELSE table[i]
             q == [proc[c] EXCEPT !.at = "join", !.found = o]
  <1>1. /\ At(c, "run") /\ More(c) /\ Next1(c).how = how
        /\ table[i] = None => \E x \in Objs : ~Referenced(x)
        /\ table' = [table EXCEPT ![i] = o]
        /\ groups' = IF table[i] = None THEN [groups EXCEPT ![o] = NewGroup] ELSE groups
        /\ proc' = [proc EXCEPT ![c].at = "join", ![c].found = o]
        /\ UNCHANGED <<declared, used, natholes, pxyTable, mine, portsUsed, stray,
                       displaced>>
    BY DEF LookUpGroup, Asks, history
  <1>2. proc[c].conf \in Confs /\ HeldBy(proc[c].id) = proc[c].held
    BY <1>1, Me DEF Inv, At, Starting
  <1>3. i \in Indexes
    BY <1>1, <1>2, WantIsKnown DEF More, Next1
  <1>4. o \in Objs /\ (table[i] = None => ~Referenced(o))
    <2>1. CASE table[i] = None
      BY <1>1, <2>1 DEF Fresh
    <2>2. CASE table[i] # None
      BY <1>3, <2>2 DEF Inv, TypeOK
    <2> QED BY <2>1, <2>2
  <1>5. o # None
    BY <1>4, ResourcesAssumption
  <1>6. table[i] # None => o = table[i]
    OBVIOUS
  <1> HIDE DEF o
  <1>7. proc[c] \in Procs /\ proc \in [Ctls -> Procs]
    BY DEF Inv, TypeOK
  <1>8. /\ q \in Procs /\ q.id = proc[c].id /\ q.conf = proc[c].conf /\ q.at = "join"
        /\ q.held = proc[c].held /\ q.next = proc[c].next /\ q.found = o
    BY <1>4, <1>7 DEF Procs, Places
  <1>9. proc' = [proc EXCEPT ![c] = q]
    BY <1>1, <1>7
  <1> HIDE DEF q
  <1>10. OnlyMoves(c) /\ proc'[c] = q
    BY <1>8, <1>9, SetMoves DEF Inv
  <1>11. GoesOn(c)
    BY <1>1, <1>8, <1>10 DEF GoesOn, Starting, At
  <1>12. /\ table' \in [Indexes -> Objs \union {None}] /\ table'[i] = o
         /\ \A j \in Indexes \ {i} : table'[j] = table[j]
    BY <1>1, <1>3, <1>4 DEF Inv, TypeOK
  <1>13. /\ groups' \in [Objs -> Groups] /\ \A p \in Objs \ {o} : groups'[p] = groups[p]
         /\ table[i] = None => groups'[o] = NewGroup
         /\ table[i] # None => groups'[o] = groups[o]
    <2>1. NewGroup \in Groups
      BY DEF NewGroup, Groups
    <2> QED BY <1>1, <1>4, <2>1 DEF Inv, TypeOK
  <1>14. TypeOK'
    BY <1>1, <1>10, <1>12, <1>13 DEF Inv, TypeOK, OnlyMoves
  <1>15. NamesInv'
    BY <1>1, <1>4, <1>8, <1>10, <1>11, NamesGoOn DEF Inv
  <1>16. HoldsInv'
    BY <1>1, <1>8, <1>10, <1>11, HoldsGoOn DEF Inv
  <1>17. \A id \in Ids : HeldBy(id)' = HeldBy(id)
    BY <1>2, <1>8, <1>10, <1>11, HeldGoesOn DEF Inv
  <1>18. OwnInv' /\ NatInv'
    BY <1>1, <1>14, <1>17, OwnKept, NatKept DEF Inv, SameHolds, SameOwned
  <1>19. table[i] = None => /\ groups[o].members = {} /\ o \notin stray
                            /\ \A j \in Indexes : table[j] # o
                            /\ \A d \in Ctls : proc[d].found # o
    BY <1>4 DEF Referenced
  <1>20. NewGroup.members = {} /\ NewGroup.res = None /\ ~NewGroup.closed
    BY DEF NewGroup
  <1>21. \A p \in Objs : groups[p].members # {} => groups'[p] = groups[p]
    BY <1>13, <1>19
  <1>22. \A p \in Objs : groups'[p].members # {} => groups'[p] = groups[p]
    BY <1>13, <1>20
  <1>23. MembersOwn'
    BY <1>1, <1>22 DEF Inv, GroupInv, MembersOwn
  <1>24. OwnersKnow'
    <2>1. ASSUME NEW r \in Resources, NEW p \in Objs, used[r] = <<"group", p>>
          PROVE  p \in stray \/ (groups'[p].members # {} /\ groups'[p].res = r)
      BY <1>21, <2>1 DEF Inv, GroupInv, OwnersKnow
    <2> QED BY <1>1, <2>1 DEF OwnersKnow
  <1>25. HoldersAreMembers'
    <2> SUFFICES ASSUME NEW id \in Ids, NEW k \in HeldBy(id)', k.how \in GroupHows
                 PROVE  /\ <<id, k.nr>> \in groups'[k.obj].members
                        /\ groups'[k.obj].res = k.res
                        /\ k.obj \in stray \/ table'[k.index] = k.obj
                        /\ k.how = "lnGroup" => groups'[k.obj].closed \/ table'[k.index] = k.obj
      BY <1>1 DEF HoldersAreMembers
    <2>1. k \in HeldBy(id)
      BY <1>17
    <2>2. k.obj \in Objs /\ k.index \in Indexes /\ groups'[k.obj] = groups[k.obj] /\ k.obj # None
      BY <1>21, <2>1, GroupHolds
    <2>3. table[k.index] = k.obj => table'[k.index] = k.obj
      BY <1>6, <1>12, <2>2
    <2> QED BY <2>1, <2>2, <2>3 DEF Inv, GroupInv, HoldersAreMembers
  <1>26. MembersHold'
    <2> SUFFICES ASSUME NEW p \in Objs \ stray, NEW l \in groups'[p].members
                 PROVE  \E k \in HeldBy(l[1])' : k.how \in GroupHows /\ k.nr = l[2] /\ k.obj = p
      BY <1>1 DEF MembersHold
    <2>1. l \in groups[p].members
      BY <1>22
    <2>2. l[1] \in Ids
      BY <2>1 DEF Inv, TypeOK, Groups
    <2> QED BY <1>17, <2>1, <2>2 DEF Inv, GroupInv, MembersHold
  <1>27. TableInv'
    <2> SUFFICES ASSUME NEW j \in Indexes, table'[j] # None
                 PROVE  LET p == table'[j]
                        IN /\ ~groups'[p].closed
                           /\ \A x \in Indexes : table'[x] = p => x = j
                           /\ groups'[p].members = {} => groups'[p].res = None
                           /\ j[1] = "http" =>
                                /\ groups'[p].members # {} => groups'[p].res = <<"http", j[3], j[4]>>
                                /\ \A l, x \in groups'[p].members : l[1][2] = x[1][2] => l = x
      BY DEF TableInv
    <2>1. CASE table[i] = None /\ j = i
      BY <1>12, <1>13, <1>19, <1>20, <2>1
    <2>2. CASE table[i] = None /\ j # i
      <3>1. table'[j] = table[j] /\ table[j] \in Objs /\ table[j] # o
        BY <1>12, <1>19, <2>2 DEF Inv, TypeOK
      <3>2. groups'[table[j]] = groups[table[j]]
        BY <1>13, <3>1
      <3>3. \A x \in Indexes : table'[x] = table[j] => x = j
        BY <1>12, <2>2, <3>1 DEF Inv, GroupInv, TableInv
      <3> QED BY <3>1, <3>2, <3>3 DEF Inv, GroupInv, TableInv
    <2>3. CASE table[i] # None
      <3>1. \A x \in Indexes : table'[x] = table[x]
        BY <1>6, <1>12, <2>3
      <3>2. groups' = groups
        BY <1>1, <2>3
      <3> QED BY <3>1, <3>2 DEF Inv, GroupInv, TableInv
    <2> QED BY <2>1, <2>2, <2>3
  <1>28. FoundInv'
    <2> SUFFICES ASSUME NEW d \in Ctls, proc'[d].at = "join"
                 PROVE  LET x == GroupIndex(proc'[d].conf, Wants(proc'[d].conf)[proc'[d].next])
                            p == proc'[d].found
                        IN /\ \A j \in Indexes : table'[j] = p => j = x
                           /\ Wants(proc'[d].conf)[proc'[d].next].how = "lnGroup" =>
                                groups'[p].closed \/ table'[x] = p
      BY DEF FoundInv, At, Next1
    <2>1. CASE d = c
      <3>1. /\ proc'[d].found = o
            /\ GroupIndex(proc'[d].conf, Wants(proc'[d].conf)[proc'[d].next]) = i
        BY <1>8, <1>10, <2>1 DEF Next1
      <3>2. \A j \in Indexes : table'[j] = o => j = i
        BY <1>6, <1>12, <1>19, <1>5, <1>3 DEF Inv, GroupInv, TableInv
      <3> QED BY <1>12, <3>1, <3>2
    <2>2. CASE d # c
      <3> DEFINE x == GroupIndex(proc[d].conf, Next1(d))
                 p == proc[d].found
      <3>1. At(d, "join") /\ proc'[d] = proc[d]
        BY <1>10, <2>2 DEF OnlyMoves, At
      <3>2. /\ \A j \in Indexes : table[j] = p => j = x
            /\ Next1(d).how = "lnGroup" => groups[p].closed \/ table[x] = p
        BY <3>1 DEF Inv, GroupInv, FoundInv
      <3>3. p \in Objs /\ p # None /\ x \in Indexes
        <4>1. p \in Objs /\ More(d) /\ Next1(d).how \in GroupHows
          BY <3>1 DEF Inv, NamesInv, ProcOK
        <4>2. proc[d].conf \in Confs
          BY <3>1, Me DEF Inv, At, Starting
        <4> QED BY <4>1, <4>2, WantIsKnown, ResourcesAssumption DEF More, Next1
      <3>4. table[i] = None => p # o
        BY <1>19
      <3>5. groups'[p] = groups[p]
        BY <1>13, <3>3, <3>4
      <3>6. \A j \in Indexes : table'[j] = p <=> table[j] = p
        BY <1>6, <1>12, <3>3, <3>4
      <3>7. Wants(proc[d].conf)[proc[d].next] = Next1(d)
        BY DEF Next1
      <3> HIDE DEF p, x
      <3>8. /\ \A j \in Indexes : table'[j] = p => j = x
            /\ Next1(d).how = "lnGroup" => groups'[p].closed \/ table'[x] = p
        BY <3>2, <3>3, <3>5, <3>6
      <3> QED BY <3>1, <3>7, <3>8 DEF p, x
    <2> QED BY <2>1, <2>2
  <1>29. GroupInv'
    BY <1>23, <1>24, <1>25, <1>26, <1>27, <1>28 DEF GroupInv
  <1> QED BY <1>14, <1>15, <1>16, <1>18, <1>29 DEF Inv

\* A control that is about to join, and the group it found.
LEMMA Joining ==
  ASSUME Inv, NEW c \in Ctls, At(c, "join")
  PROVE  LET o == proc[c].found
             i == GroupIndex(proc[c].conf, Next1(c))
             me == proc[c].id
         IN /\ o \in Objs /\ o # None /\ i \in Indexes /\ me \in Ids /\ proc[c].conf \in Confs
            /\ More(c) /\ Next1(c).how \in GroupHows /\ Next1(c).res \in Asked
            /\ Allowed(Next1(c).res) \subseteq Resources
            /\ proc[c].conf.kind \in {"tcp", "tcpmux", "http"}
            /\ Next1(c).how = "httpGroup" <=> proc[c].conf.kind = "http"
            /\ i[1] = proc[c].conf.kind
            /\ i[1] = "http" => Allowed(Next1(c).res) = {<<"http", i[3], i[4]>>}
            /\ proc[c].next \in Nat
  <1>1. proc[c].found \in Objs /\ More(c) /\ Next1(c).how \in GroupHows
    BY DEF Inv, NamesInv, ProcOK
  <1>2. proc[c].conf \in Confs /\ proc[c].id \in Ids
    BY Me DEF Inv, At, Starting
  <1>3. proc[c].found # None
    BY <1>1, ResourcesAssumption
  <1>4. proc[c].next \in Nat
    BY DEF Inv, TypeOK, Procs
  <1> DEFINE n == proc[c].next
  <1>5. n \in DOMAIN Wants(proc[c].conf) /\ Next1(c) = Wants(proc[c].conf)[n]
    BY <1>1 DEF More, Next1
  <1>6. /\ Allowed(Next1(c).res) \subseteq Resources /\ Next1(c).res \in Asked
        /\ GroupIndex(proc[c].conf, Next1(c)) \in Indexes
        /\ proc[c].conf.kind \in {"tcp", "tcpmux", "http"}
        /\ Next1(c).how = "httpGroup" <=> proc[c].conf.kind = "http"
        /\ GroupIndex(proc[c].conf, Next1(c))[1] = proc[c].conf.kind
        /\ proc[c].conf.kind = "http" =>
             LET i == GroupIndex(proc[c].conf, Next1(c))
             IN Next1(c).res = <<"http", i[3], i[4]>>
    BY <1>1, <1>2, <1>5, WantIsKnown
  <1>7. proc[c].conf.kind = "http" => Allowed(Next1(c).res) = {Next1(c).res}
    BY <1>2, <1>5, AllowedIsWanted
  <1> QED BY <1>1, <1>2, <1>3, <1>4, <1>6, <1>7

\* The first member takes the resource of the group, the others share it.
FirstMember(c, res) ==
  /\ groups[proc[c].found].members = {} /\ used[res] = None
  /\ used' = [used EXCEPT ![res] = <<"group", proc[c].found>>]
NextMember(c, res) ==
  /\ groups[proc[c].found].members # {} /\ groups[proc[c].found].res = res
  /\ groups[proc[c].found].want = Next1(c).res /\ UNCHANGED used
  /\ Next1(c).how = "httpGroup" => Named(proc[c].found, proc[c].id[2]) = {}

LEMMA JoinStep ==
  ASSUME Inv, NEW c \in Ctls, At(c, "join"), NEW res \in Allowed(Next1(c).res),
         NEW real \in Resources \union {None},
         FirstMember(c, res) \/ NextMember(c, res), JoinGroup(c, res, real),
         UNCHANGED <<declared, natholes, table, pxyTable, mine, portsUsed, displaced>>
  PROVE  Inv'
  <1> DEFINE o == proc[c].found
             i == GroupIndex(proc[c].conf, Next1(c))
             me == proc[c].id
             how == Next1(c).how
             me1 == <<proc[c].id, proc[c].next>>
             h == NewHold(c, how, res, o, i)
             pair(p) == <<"group", p>>
  <1>1. /\ o \in Objs /\ o # None /\ i \in Indexes /\ me \in Ids /\ proc[c].conf \in Confs
        /\ More(c) /\ how \in GroupHows /\ Next1(c).res \in Asked /\ res \in Resources
        /\ how = "httpGroup" <=> i[1] = "http"
        /\ i[1] = "http" => res = <<"http", i[3], i[4]>>
        /\ proc[c].next \in Nat
    BY Joining
  <1>2. h.nr = proc[c].next /\ h.how = how /\ h.res = res /\ h.obj = o /\ h.index = i
    BY DEF NewHold
  <1>3. HoldOK(proc[c].conf, h)
    BY <1>1, <1>2 DEF HoldOK, Kept, GroupHows, More, Next1
  <1>4. /\ groups' = [groups EXCEPT ![o].members = @ \union {me1},
                                    ![o].key = proc[c].conf.groupKey,
                                    ![o].want = Next1(c).res, ![o].res = res, ![o].real = real]
        /\ stray' = IF table[i] = o THEN stray ELSE stray \union {o}
        /\ Advance(c, how, res, o, i)
    BY DEF JoinGroup
  <1> HIDE DEF h
  <1>5. /\ proc' \in [Ctls -> Procs] /\ NamesInv' /\ HoldsInv' /\ JoinsShrink /\ h \in Holds
        /\ \A id \in Ids : HeldBy(id)' = IF id = me THEN HeldBy(id) \union {h} ELSE HeldBy(id)
    BY <1>1, <1>3, <1>4, AdvanceKeeps DEF Inv, At, h
  <1>6. /\ groups' \in [Objs -> Groups] /\ \A p \in Objs \ {o} : groups'[p] = groups[p]
        /\ groups'[o].members = groups[o].members \union {me1} /\ groups'[o].want = Next1(c).res
        /\ groups'[o].res = res /\ groups'[o].closed = groups[o].closed
    <2>1. groups \in [Objs -> Groups] /\ groups[o] \in Groups
      BY <1>1 DEF Inv, TypeOK
    <2> DEFINE g == [groups[o] EXCEPT !.members = @ \union {me1}, !.key = proc[c].conf.groupKey,
                                      !.want = Next1(c).res, !.res = res, !.real = real]
    <2>2. groups' = [groups EXCEPT ![o] = g]
      BY <1>4, <2>1
    <2>3. me1 \in Ids \X Nat
      BY <1>1
    <2>4. groups[o].members \union {me1} \in SUBSET (Ids \X Nat)
      BY <2>1, <2>3 DEF Groups
    <2> HIDE DEF me1
    <2>5. g \in Groups
      BY <1>1, <2>1, <2>4 DEF Groups
    <2>6. g.members = groups[o].members \union {me1} /\ g.want = Next1(c).res
          /\ g.res = res /\ g.closed = groups[o].closed
      BY <2>1 DEF Groups
    <2> HIDE DEF g
    <2> QED BY <1>1, <2>1, <2>2, <2>5, <2>6
  <1>7. pair(o) \in {"group"} \X Objs /\ None \notin {"group"} \X Objs /\ None \notin Ids
        /\ pair(o) \notin Ids
    BY <1>1, Owners, ResourcesAssumption
  <1>8. /\ used' \in [Resources -> Ids \union ({"group"} \X Objs) \union {None}]
        /\ used'[res] = pair(o) /\ \A r \in Resources \ {res} : used'[r] = used[r]
        /\ used[res] = None \/ used[res] = pair(o)
    <2>1. CASE FirstMember(c, res)
      BY <1>1, <1>7, <2>1 DEF FirstMember, Inv, TypeOK
    <2>2. CASE NextMember(c, res)
      BY <1>1, <2>2 DEF NextMember, Inv, TypeOK, GroupInv, MembersOwn
    <2> QED BY <2>1, <2>2
  <1>9. TypeOK'
    BY <1>5, <1>6, <1>8 DEF Inv, TypeOK
  <1>10. OwnInv' /\ NatInv'
    <2>1. SameHolds({"own"}) /\ SameHolds({"nathole"})
      BY <1>1, <1>2, <1>5 DEF SameHolds, GroupHows
    <2>2. SameOwned(Ids)
      BY <1>7, <1>8 DEF SameOwned
    <2> QED BY <1>9, <2>1, <2>2, OwnKept, NatKept DEF Inv
  <1> HIDE DEF me1, i
  <1>11. \A p \in Objs : groups[p].members # {} => groups'[p].res = groups[p].res
    BY <1>6 DEF FirstMember, NextMember
  <1>12. \A p \in Objs : groups[p].members \subseteq groups'[p].members
                         /\ groups'[p].closed = groups[p].closed
    BY <1>6
  <1>13. stray \subseteq stray' /\ (table[i] = o \/ o \in stray') /\ stray' \subseteq stray \union {o}
    BY <1>4
  <1>15. MembersOwn'
    <2> SUFFICES ASSUME NEW p \in Objs, groups'[p].members # {}
                 PROVE  /\ groups'[p].res \in Resources
                        /\ used'[groups'[p].res] = <<"group", p>>
                        /\ groups'[p].want \in Asked /\ groups'[p].res \in Allowed(groups'[p].want)
                        /\ groups'[p].closed => p \in stray'
      BY DEF MembersOwn
    <2>1. CASE p = o
      <3>1. groups[o].closed => table[i] # o
        BY <1>1 DEF Inv, GroupInv, TableInv
      <3> QED BY <1>1, <1>6, <1>8, <1>13, <2>1, <3>1
    <2>2. CASE p # o
      <3>1. groups'[p] = groups[p]
        BY <1>6, <2>2
      <3>2. /\ groups[p].res \in Resources /\ used[groups[p].res] = <<"group", p>>
            /\ groups[p].want \in Asked /\ groups[p].res \in Allowed(groups[p].want)
            /\ groups[p].closed => p \in stray
        BY <3>1 DEF Inv, GroupInv, MembersOwn
      <3>3. <<"group", p>> # pair(o) /\ <<"group", p>> # None
        BY <2>2, ResourcesAssumption
      <3>4. groups[p].res # res
        BY <1>8, <3>2, <3>3
      <3> QED BY <1>8, <1>13, <3>1, <3>2, <3>4
    <2> QED BY <2>1, <2>2
  <1>16. OwnersKnow'
    <2>1. ASSUME NEW r \in Resources, NEW p \in Objs, used'[r] = <<"group", p>>
          PROVE  p \in stray' \/ (groups'[p].members # {} /\ groups'[p].res = r)
      <3>1. CASE r = res
        <4>1. p = o
          BY <1>8, <2>1, <3>1
        <4> QED BY <1>6, <3>1, <4>1
      <3>2. CASE r # res
        <4>1. p \in stray \/ (groups[p].members # {} /\ groups[p].res = r)
          BY <1>8, <2>1, <3>2 DEF Inv, GroupInv, OwnersKnow
        <4> QED BY <1>11, <1>12, <1>13, <4>1
      <3> QED BY <3>1, <3>2
    <2> QED BY <2>1 DEF OwnersKnow
  <1>17. HoldersAreMembers'
    <2> SUFFICES ASSUME NEW id \in Ids, NEW k \in HeldBy(id)', k.how \in GroupHows
                 PROVE  /\ <<id, k.nr>> \in groups'[k.obj].members
                        /\ groups'[k.obj].res = k.res
                        /\ k.obj \in stray' \/ table[k.index] = k.obj
                        /\ k.how = "lnGroup" => groups'[k.obj].closed \/ table[k.index] = k.obj
      BY DEF HoldersAreMembers
    <2>1. CASE k \in HeldBy(id)
      <3>1. k.obj \in Objs /\ groups[k.obj].members # {}
        BY <2>1, GroupHolds
      <3> QED BY <1>11, <1>12, <1>13, <2>1, <3>1 DEF Inv, GroupInv, HoldersAreMembers
    <2>2. CASE k \notin HeldBy(id)
      <3>1. id = me /\ k = h
        BY <1>5, <2>2
      <3>2. how = "lnGroup" => groups[o].closed \/ table[i] = o
        BY DEF Inv, GroupInv, FoundInv, i
      <3> QED BY <1>2, <1>6, <1>13, <3>1, <3>2 DEF me1
    <2> QED BY <2>1, <2>2
  <1>18. MembersHold'
    <2> SUFFICES ASSUME NEW p \in Objs \ stray', NEW l \in groups'[p].members
                 PROVE  \E k \in HeldBy(l[1])' : k.how \in GroupHows /\ k.nr = l[2] /\ k.obj = p
      BY DEF MembersHold
    <2>1. CASE l \in groups[p].members
      <3>1. PICK k \in HeldBy(l[1]) : k.how \in GroupHows /\ k.nr = l[2] /\ k.obj = p
        BY <1>13, <2>1 DEF Inv, GroupInv, MembersHold
      <3>2. l[1] \in Ids
        BY <2>1 DEF Inv, TypeOK, Groups
      <3> QED BY <1>5, <3>1, <3>2
    <2>2. CASE l \notin groups[p].members
      <3>1. p = o /\ l = me1
        BY <1>6, <2>2
      <3>2. l[1] = me /\ l[2] = proc[c].next
        BY <3>1 DEF me1
      <3> QED BY <1>1, <1>2, <1>5, <3>1, <3>2
    <2> QED BY <2>1, <2>2
  <1>19. TableInv'
    <2> SUFFICES ASSUME NEW j \in Indexes, table[j] # None
                 PROVE  LET p == table[j]
                        IN /\ ~groups'[p].closed
                           /\ \A x \in Indexes : table[x] = p => x = j
                           /\ groups'[p].members = {} => groups'[p].res = None
                           /\ j[1] = "http" =>
                                /\ groups'[p].members # {} => groups'[p].res = <<"http", j[3], j[4]>>
                                /\ \A l, x \in groups'[p].members : l[1][2] = x[1][2] => l = x
      BY DEF TableInv
    <2>1. table[j] \in Objs
      BY DEF Inv, TypeOK
    <2>2. CASE table[j] = o
      <3>1. ~groups'[o].closed /\ \A x \in Indexes : table[x] = o => x = j
        BY <1>6, <2>2 DEF Inv, GroupInv, TableInv
      <3>2. j = i
        BY <2>2 DEF Inv, GroupInv, FoundInv, i
      <3>3. ASSUME j[1] = "http"
            PROVE  \A l, x \in groups'[o].members : l[1][2] = x[1][2] => l = x
        <4>1. \A l \in groups[o].members : l[1][2] # me[2]
          BY <1>1, <3>2, <3>3 DEF FirstMember, NextMember, Named
        <4>2. \A l, x \in groups[o].members : l[1][2] = x[1][2] => l = x
          BY <2>2, <3>3 DEF Inv, GroupInv, TableInv
        <4>3. me1[1][2] = me[2]
          BY DEF me1
        <4> QED BY <1>6, <4>1, <4>2, <4>3
      <3> QED BY <1>1, <1>6, <2>2, <3>1, <3>2, <3>3
    <2>3. CASE table[j] # o
      <3>1. groups'[table[j]] = groups[table[j]]
        BY <1>6, <2>1, <2>3
      <3> QED BY <3>1 DEF Inv, GroupInv, TableInv
    <2> QED BY <2>2, <2>3
  <1>20. FoundInv'
    <2> SUFFICES ASSUME NEW d \in Ctls, At(d, "join")'
                 PROVE  LET x == GroupIndex(proc[d].conf, Next1(d))
                            p == proc[d].found
                        IN /\ \A j \in Indexes : table[j] = p => j = x
                           /\ Next1(d).how = "lnGroup" => groups'[p].closed \/ table[x] = p
      BY <1>5 DEF FoundInv, JoinsShrink, Next1
    <2>1. At(d, "join")
      BY <1>5 DEF JoinsShrink
    <2>2. proc[d].found \in Objs
      BY <2>1, Joining
    <2> QED BY <1>12, <2>1, <2>2 DEF Inv, GroupInv, FoundInv
  <1>21. GroupInv'
    BY <1>15, <1>16, <1>17, <1>18, <1>19, <1>20 DEF GroupInv
  <1> QED BY <1>5, <1>9, <1>10, <1>21 DEF Inv

LEMMA ListenStep ==
  ASSUME Inv, NEW c \in Ctls, TCPGroupListen(c) \/ HTTPConnectListen(c) \/ HTTPGroupRegister(c)
  PROVE  Inv'
  <1> DEFINE o == proc[c].found
             g == groups[proc[c].found]
  <1>1. /\ At(c, "join") /\ proc[c].at = "join"
        /\ UNCHANGED <<declared, natholes, table, pxyTable, mine, portsUsed, displaced>>
    BY DEF TCPGroupListen, HTTPConnectListen, HTTPGroupRegister, Joins, At
  <1>2. /\ o \in Objs /\ proc[c].conf \in Confs /\ More(c)
        /\ Next1(c).how = "httpGroup" <=> proc[c].conf.kind = "http"
        /\ Allowed(Next1(c).res) \subseteq Resources /\ g.real \in Resources \union {None}
    <2>1. o \in Objs /\ groups[o] \in Groups
      BY <1>1, Joining DEF Inv, TypeOK
    <2> QED BY <1>1, <2>1, Joining DEF Groups
  <1>3. ASSUME proc[c].conf.kind \notin {"tcp", "udp"}
        PROVE  Allowed(Next1(c).res) = {Next1(c).res}
    BY <1>2, <1>3, AllowedIsWanted DEF More, Next1
  <1>4. ASSUME g.members # {}, SameGroup(c)
        PROVE  g.res \in Allowed(Next1(c).res) /\ g.want = Next1(c).res
    BY <1>2, <1>4 DEF SameGroup, Inv, GroupInv, MembersOwn
  <1>5. CASE TCPGroupListen(c)
    <2>1. proc[c].conf.kind = "tcp"
      BY <1>5 DEF TCPGroupListen, Joins
    <2>2. CASE \E r, q \in Allowed(Next1(c).res) :
                 g.members = {} /\ used[q] = None
                 /\ used' = [used EXCEPT ![q] = <<"group", o>>] /\ JoinGroup(c, q, r)
      BY <1>1, <1>2, <2>2, JoinStep DEF FirstMember
    <2>3. CASE g.members # {} /\ SameGroup(c) /\ JoinGroup(c, g.res, g.real) /\ UNCHANGED used
      BY <1>1, <1>2, <1>4, <2>1, <2>3, JoinStep DEF NextMember
    <2>4. CASE RunFails(c) /\ UNCHANGED <<used, groups, stray>>
      BY <1>1, <2>4, FailStep
    <2> QED BY <1>5, <2>2, <2>3, <2>4 DEF TCPGroupListen
  <1>6. CASE HTTPConnectListen(c)
    <2>1. proc[c].conf.kind = "tcpmux"
      BY <1>6 DEF HTTPConnectListen, Joins
    <2>2. CASE g.members = {} /\ used[Next1(c).res] = None
               /\ used' = [used EXCEPT ![Next1(c).res] = <<"group", o>>]
               /\ JoinGroup(c, Next1(c).res, None)
      BY <1>1, <1>3, <2>1, <2>2, JoinStep DEF FirstMember
    <2>3. CASE g.members # {} /\ SameGroup(c) /\ JoinGroup(c, Next1(c).res, None) /\ UNCHANGED used
      BY <1>1, <1>2, <1>3, <1>4, <2>1, <2>3, JoinStep DEF NextMember
    <2>4. CASE RunFails(c) /\ UNCHANGED <<used, groups, stray>>
      BY <1>1, <2>1, <2>4, FailStep
    <2> QED BY <1>6, <2>2, <2>3, <2>4 DEF HTTPConnectListen
  <1>7. CASE HTTPGroupRegister(c)
    <2>1. proc[c].conf.kind = "http"
      BY <1>7 DEF HTTPGroupRegister, Joins
    <2>2. CASE g.members = {} /\ used[Next1(c).res] = None
               /\ used' = [used EXCEPT ![Next1(c).res] = <<"group", o>>]
               /\ JoinGroup(c, Next1(c).res, None)
      BY <1>1, <1>3, <2>1, <2>2, JoinStep DEF FirstMember
    <2>3. CASE g.members # {} /\ SameGroup(c) /\ Named(o, proc[c].id[2]) = {}
               /\ JoinGroup(c, Next1(c).res, None) /\ UNCHANGED used
      BY <1>1, <1>2, <1>3, <1>4, <2>1, <2>3, JoinStep DEF NextMember
    <2>4. CASE RunFails(c) /\ UNCHANGED <<used, groups, stray>>
      BY <1>1, <2>1, <2>4, FailStep
    <2> QED BY <1>7, <2>2, <2>3, <2>4 DEF HTTPGroupRegister
  <1> QED BY <1>5, <1>6, <1>7

\* An object loses members, and what it owns stays.
Loses(o, left) == groups' = [groups EXCEPT ![o].members = left]

LEMMA GroupShrinks ==
  ASSUME Inv, TypeOK', JoinsShrink, NEW o \in Objs, NEW left \in SUBSET groups[o].members,
         left = {} => o \in stray /\ groups[o].closed,
         Loses(o, left),
         UNCHANGED <<used, table>>, stray \subseteq stray',
         \A id \in Ids : \A q \in HeldBy(id)' : q.how \in GroupHows =>
           q \in HeldBy(id) /\ (q.obj = o => <<id, q.nr>> \in left),
         \A p \in Objs \ stray' : \A l \in groups'[p].members : \A q \in HeldBy(l[1]) :
           q.how \in GroupHows /\ q.nr = l[2] /\ q.obj = p => q \in HeldBy(l[1])'
  PROVE  GroupInv'
  <1>1. /\ \A p \in Objs \ {o} : groups'[p] = groups[p]
        /\ groups'[o].members = left /\ groups'[o].res = groups[o].res
        /\ groups'[o].want = groups[o].want /\ groups'[o].closed = groups[o].closed
    <2>1. groups \in [Objs -> Groups] /\ groups[o] \in Groups
      BY DEF Inv, TypeOK
    <2>2. /\ [groups[o] EXCEPT !.members = left].members = left
          /\ [groups[o] EXCEPT !.members = left].res = groups[o].res
          /\ [groups[o] EXCEPT !.members = left].want = groups[o].want
          /\ [groups[o] EXCEPT !.members = left].closed = groups[o].closed
      BY <2>1 DEF Groups
    <2>3. /\ groups'[o] = [groups[o] EXCEPT !.members = left]
          /\ \A p \in Objs \ {o} : groups'[p] = groups[p]
      BY <2>1 DEF Loses
    <2> QED BY <2>2, <2>3
  <1>2. \A p \in Objs : /\ groups'[p].members \subseteq groups[p].members
                        /\ groups'[p].res = groups[p].res /\ groups'[p].want = groups[p].want
                        /\ groups'[p].closed = groups[p].closed
    BY <1>1
  <1>3. MembersOwn'
    <2> SUFFICES ASSUME NEW p \in Objs, groups'[p].members # {}
                 PROVE  /\ groups'[p].res \in Resources
                        /\ used[groups'[p].res] = <<"group", p>>
                        /\ groups'[p].want \in Asked /\ groups'[p].res \in Allowed(groups'[p].want)
                        /\ groups'[p].closed => p \in stray'
      BY DEF MembersOwn
    <2>1. groups[p].members # {}
      BY <1>2
    <2> QED BY <1>2, <2>1 DEF Inv, GroupInv, MembersOwn
  <1>4. OwnersKnow'
    <2>1. ASSUME NEW r \in Resources, NEW p \in Objs, used[r] = <<"group", p>>
          PROVE  p \in stray' \/ (groups'[p].members # {} /\ groups'[p].res = r)
      <3>1. p \in stray \/ (groups[p].members # {} /\ groups[p].res = r)
        BY <2>1 DEF Inv, GroupInv, OwnersKnow
      <3> QED BY <1>1, <1>2, <3>1
    <2> QED BY <2>1 DEF OwnersKnow
  <1>5. HoldersAreMembers'
    <2> SUFFICES ASSUME NEW id \in Ids, NEW k \in HeldBy(id)', k.how \in GroupHows
                 PROVE  /\ <<id, k.nr>> \in groups'[k.obj].members
                        /\ groups'[k.obj].res = k.res
                        /\ k.obj \in stray' \/ table[k.index] = k.obj
                        /\ k.how = "lnGroup" => groups'[k.obj].closed \/ table[k.index] = k.obj
      BY DEF HoldersAreMembers
    <2>1. k \in HeldBy(id) /\ (k.obj = o => <<id, k.nr>> \in left)
      OBVIOUS
    <2>2. k.obj \in Objs
      BY <2>1, GroupHolds
    <2>3. <<id, k.nr>> \in groups'[k.obj].members
      BY <1>1, <2>1, <2>2 DEF Inv, GroupInv, HoldersAreMembers
    <2> QED BY <1>2, <2>1, <2>2, <2>3 DEF Inv, GroupInv, HoldersAreMembers
  <1>6. MembersHold'
    <2> SUFFICES ASSUME NEW p \in Objs \ stray', NEW l \in groups'[p].members
                 PROVE  \E k \in HeldBy(l[1])' : k.how \in GroupHows /\ k.nr = l[2] /\ k.obj = p
      BY DEF MembersHold
    <2>1. l \in groups[p].members /\ p \notin stray
      BY <1>2
    <2>2. PICK k \in HeldBy(l[1]) : k.how \in GroupHows /\ k.nr = l[2] /\ k.obj = p
      BY <2>1 DEF Inv, GroupInv, MembersHold
    <2> QED BY <2>2
  <1>7. TableInv'
    <2> SUFFICES ASSUME NEW j \in Indexes, table[j] # None
                 PROVE  LET p == table[j]
                        IN /\ ~groups'[p].closed
                           /\ \A x \in Indexes : table[x] = p => x = j
                           /\ groups'[p].members = {} => groups'[p].res = None
                           /\ j[1] = "http" =>
                                /\ groups'[p].members # {} => groups'[p].res = <<"http", j[3], j[4]>>
                                /\ \A l, x \in groups'[p].members : l[1][2] = x[1][2] => l = x
      BY DEF TableInv
    <2>1. table[j] \in Objs
      BY DEF Inv, TypeOK
    <2>2. ~groups[table[j]].closed
      BY DEF Inv, GroupInv, TableInv
    <2>3. groups'[table[j]].members = {} => groups[table[j]].members = {}
      BY <1>1, <2>1, <2>2
    <2>4. groups'[table[j]].members # {} => groups[table[j]].members # {}
      BY <1>2, <2>1
    <2>5. \A l \in groups'[table[j]].members : l \in groups[table[j]].members
      BY <1>2, <2>1
    <2> QED BY <1>2, <2>1, <2>3, <2>4, <2>5 DEF Inv, GroupInv, TableInv
  <1>8. FoundInv'
    <2> SUFFICES ASSUME NEW d \in Ctls, At(d, "join")'
                 PROVE  LET x == GroupIndex(proc[d].conf, Next1(d))
                            p == proc[d].found
                        IN /\ \A j \in Indexes : table[j] = p => j = x
                           /\ Next1(d).how = "lnGroup" => groups'[p].closed \/ table[x] = p
      BY DEF FoundInv, JoinsShrink, Next1
    <2>1. At(d, "join")
      BY DEF JoinsShrink
    <2>2. proc[d].found \in Objs
      BY <2>1, Joining
    <2> QED BY <1>2, <2>1, <2>2 DEF Inv, GroupInv, FoundInv
  <1> QED BY <1>3, <1>4, <1>5, <1>6, <1>7, <1>8 DEF GroupInv

\* A listener that closes is told apart by its instance and its number.
LEMMA ClosingIsOne ==
  ASSUME Inv, NEW c \in Ctls, NEW k, Closing(c, k)
  PROVE  /\ k \in HeldBy(proc[c].id) /\ proc[c].id \in Ids /\ proc[c].conf \in Confs
         /\ HeldBy(proc[c].id) = proc[c].held /\ HeldOK(proc[c].conf, proc[c].held)
         /\ \A q \in HeldBy(proc[c].id) : q.nr = k.nr => q = k
  <1>1. proc[c].at \in Starting \union Ending /\ k \in proc[c].held
    BY DEF Closing, Starting, Ending
  <1>2. HeldBy(proc[c].id) = proc[c].held /\ HeldOK(proc[c].conf, proc[c].held)
    BY <1>1, Me DEF Inv, HoldsInv
  <1>3. proc[c].id \in Ids /\ proc[c].conf \in Confs
    BY <1>1, Me DEF Inv
  <1> QED BY <1>1, <1>2, <1>3 DEF HeldOK

\* It leaves an object that others still use, or one that left the table.
LEMMA LeaveStep ==
  ASSUME Inv, NEW c \in Ctls, NEW k, Closing(c, k), k.how \in GroupHows, Dropped(c, k),
         NEW o \in Objs, NEW left \in SUBSET groups[o].members, left # {},
         \A id \in Ids : \A q \in HeldBy(id) :
           q.how \in GroupHows /\ q.obj = o => <<id, q.nr>> \in left \/ (id = proc[c].id /\ q = k),
         k.obj \in stray \/ (k.obj = o /\ <<proc[c].id, k.nr>> \notin left),
         Loses(o, left),
         UNCHANGED <<declared, used, natholes, table, pxyTable, mine, portsUsed, stray, displaced>>
  PROVE  Inv'
  <1> DEFINE me == proc[c].id
  <1>1. /\ proc' \in [Ctls -> Procs] /\ NamesInv' /\ HoldsInv' /\ JoinsShrink
        /\ me \in Ids /\ k \in HeldBy(me) /\ k \in Holds
        /\ \A id \in Ids : HeldBy(id)' = IF id = me THEN HeldBy(id) \ {k} ELSE HeldBy(id)
    BY DropKeeps DEF Inv
  <1>2. groups' \in [Objs -> Groups] /\ groups'[o].members = left
    <2>1. groups \in [Objs -> Groups] /\ groups[o] \in Groups
      BY DEF Inv, TypeOK
    <2>2. left \in SUBSET (Ids \X Nat)
      BY <2>1 DEF Groups
    <2>3. [groups[o] EXCEPT !.members = left] \in Groups
          /\ [groups[o] EXCEPT !.members = left].members = left
      BY <2>1, <2>2 DEF Groups
    <2>4. groups' = [groups EXCEPT ![o] = [groups[o] EXCEPT !.members = left]]
      BY <2>1 DEF Loses
    <2> QED BY <2>1, <2>3, <2>4
  <1>3. TypeOK'
    BY <1>1, <1>2 DEF Inv, TypeOK
  <1>4. OwnInv' /\ NatInv'
    <2>1. SameHolds({"own"}) /\ SameHolds({"nathole"})
      BY <1>1 DEF SameHolds, GroupHows
    <2>2. SameOwned(Ids)
      BY DEF SameOwned
    <2> QED BY <1>3, <2>1, <2>2, OwnKept, NatKept DEF Inv
  <1>5. \A id \in Ids : \A q \in HeldBy(id)' : q.how \in GroupHows =>
          q \in HeldBy(id) /\ (q.obj = o => <<id, q.nr>> \in left)
    BY <1>1
  <1>6. ASSUME NEW p \in Objs \ stray, NEW l \in groups'[p].members, NEW q \in HeldBy(l[1]),
               q.how \in GroupHows, q.nr = l[2], q.obj = p
        PROVE  q \in HeldBy(l[1])'
    <2>1. l \in Ids \X Nat
      BY <1>2 DEF Groups
    <2>2. l[1] \in Ids /\ l = <<l[1], l[2]>>
      BY <2>1
    <2>3. l[1] = me => q # k
      BY <1>2, <1>6, <2>2
    <2> QED BY <1>1, <2>2, <2>3
  <1>7. GroupInv'
    BY <1>1, <1>3, <1>5, <1>6, GroupShrinks DEF Inv
  <1> QED BY <1>1, <1>3, <1>4, <1>7 DEF Inv

\* The last listener closes the group: its resource is free and it leaves the table.
LEMMA LastLeavesStep ==
  ASSUME Inv, NEW c \in Ctls, NEW k, Closing(c, k), k.how \in GroupHows, Dropped(c, k),
         groups[k.obj].members = {<<proc[c].id, k.nr>>}, table[k.index] = k.obj,
         NEW closed \in BOOLEAN, k.how = "lnGroup" => closed,
         groups' = [groups EXCEPT ![k.obj].members = {}, ![k.obj].closed = closed],
         used' = [used EXCEPT ![k.res] = None], table' = [table EXCEPT ![k.index] = None],
         UNCHANGED <<declared, natholes, pxyTable, mine, portsUsed, stray, displaced>>
  PROVE  Inv'
  <1> DEFINE me == proc[c].id
             o == k.obj
             i == k.index
  <1>1. /\ proc' \in [Ctls -> Procs] /\ NamesInv' /\ HoldsInv' /\ JoinsShrink
        /\ me \in Ids /\ k \in HeldBy(me) /\ k \in Holds
        /\ \A id \in Ids : HeldBy(id)' = IF id = me THEN HeldBy(id) \ {k} ELSE HeldBy(id)
    BY DropKeeps DEF Inv
  <1>2. /\ o \in Objs /\ i \in Indexes /\ k.res \in Resources /\ o # None
        /\ k.how = "httpGroup" => i[1] = "http"
    BY <1>1, GroupHolds
  <1>3. /\ groups' \in [Objs -> Groups] /\ \A p \in Objs \ {o} : groups'[p] = groups[p]
        /\ groups'[o].members = {} /\ groups'[o].closed = closed
    <2>1. groups \in [Objs -> Groups] /\ groups[o] \in Groups
      BY <1>2 DEF Inv, TypeOK
    <2> DEFINE g == [groups[o] EXCEPT !.members = {}, !.closed = closed]
    <2>2. g \in Groups /\ g.members = {} /\ g.closed = closed
      BY <2>1 DEF Groups
    <2>3. groups' = [groups EXCEPT ![o] = g]
      BY <2>1
    <2> HIDE DEF g
    <2> QED BY <1>2, <2>1, <2>2, <2>3
  <1>4. /\ used' \in [Resources -> Ids \union ({"group"} \X Objs) \union {None}]
        /\ used'[k.res] = None /\ \A r \in Resources \ {k.res} : used'[r] = used[r]
    BY <1>2 DEF Inv, TypeOK
  <1>5. /\ table' \in [Indexes -> Objs \union {None}]
        /\ table'[i] = None /\ \A j \in Indexes \ {i} : table'[j] = table[j]
    BY <1>2 DEF Inv, TypeOK
  <1>6. TypeOK'
    BY <1>1, <1>3, <1>4, <1>5 DEF Inv, TypeOK
  <1>7. groups[o].res = k.res
    BY <1>1 DEF Inv, GroupInv, HoldersAreMembers
  <1>8. used[k.res] = <<"group", o>>
    BY <1>2, <1>7 DEF Inv, GroupInv, MembersOwn
  <1>9. <<"group", o>> \notin Ids /\ None \notin Ids
    BY <1>2, Owners, ResourcesAssumption
  <1>10. OwnInv' /\ NatInv'
    <2>1. SameHolds({"own"}) /\ SameHolds({"nathole"})
      BY <1>1 DEF SameHolds, GroupHows
    <2>2. SameOwned(Ids)
      BY <1>4, <1>8, <1>9 DEF SameOwned
    <2> QED BY <1>6, <2>1, <2>2, OwnKept, NatKept DEF Inv
  <1>11. \A id \in Ids : \A q \in HeldBy(id)' : q.how \in GroupHows =>
           /\ q \in HeldBy(id) /\ q.obj \in Objs \ {o} /\ q.index \in Indexes
    <2> SUFFICES ASSUME NEW id \in Ids, NEW q \in HeldBy(id)', q.how \in GroupHows
                 PROVE  /\ q \in HeldBy(id) /\ q.obj \in Objs \ {o} /\ q.index \in Indexes
      OBVIOUS
    <2>1. q \in HeldBy(id) /\ (id = me => q # k)
      BY <1>1
    <2>2. q.obj \in Objs /\ q.index \in Indexes /\ <<id, q.nr>> \in groups[q.obj].members
      BY <2>1, GroupHolds
    <2>3. q.obj # o
      <3> SUFFICES ASSUME q.obj = o
                   PROVE  FALSE
        OBVIOUS
      <3>1. <<id, q.nr>> = <<me, k.nr>>
        BY <2>2
      <3>2. id = me /\ q.nr = k.nr
        BY <3>1
      <3> QED BY <2>1, <3>2, ClosingIsOne
    <2> QED BY <2>1, <2>2, <2>3
  <1>12. MembersOwn'
    <2> SUFFICES ASSUME NEW p \in Objs, groups'[p].members # {}
                 PROVE  /\ groups'[p].res \in Resources
                        /\ used'[groups'[p].res] = <<"group", p>>
                        /\ groups'[p].want \in Asked /\ groups'[p].res \in Allowed(groups'[p].want)
                        /\ groups'[p].closed => p \in stray
      BY DEF MembersOwn
    <2>1. p # o /\ groups'[p] = groups[p]
      BY <1>3
    <2>2. /\ groups[p].res \in Resources /\ used[groups[p].res] = <<"group", p>>
          /\ groups[p].want \in Asked /\ groups[p].res \in Allowed(groups[p].want)
          /\ groups[p].closed => p \in stray
      BY <2>1 DEF Inv, GroupInv, MembersOwn
    <2>3. <<"group", p>> # <<"group", o>>
      BY <2>1
    <2>4. groups[p].res # k.res
      BY <1>8, <2>2, <2>3
    <2> QED BY <1>4, <2>1, <2>2, <2>4
  <1>13. OwnersKnow'
    <2>1. ASSUME NEW r \in Resources, NEW p \in Objs, used'[r] = <<"group", p>>
          PROVE  p \in stray \/ (groups'[p].members # {} /\ groups'[p].res = r)
      <3>1. <<"group", p>> # None
        BY ResourcesAssumption
      <3>2. r # k.res /\ used[r] = <<"group", p>>
        BY <1>4, <2>1, <3>1
      <3>3. p \in stray \/ (groups[p].members # {} /\ groups[p].res = r)
        BY <3>2 DEF Inv, GroupInv, OwnersKnow
      <3> QED BY <1>3, <1>7, <3>2, <3>3
    <2> QED BY <2>1 DEF OwnersKnow
  <1>14. HoldersAreMembers'
    <2> SUFFICES ASSUME NEW id \in Ids, NEW q \in HeldBy(id)', q.how \in GroupHows
                 PROVE  /\ <<id, q.nr>> \in groups'[q.obj].members
                        /\ groups'[q.obj].res = q.res
                        /\ q.obj \in stray \/ table'[q.index] = q.obj
                        /\ q.how = "lnGroup" => groups'[q.obj].closed \/ table'[q.index] = q.obj
      BY DEF HoldersAreMembers
    <2>1. q \in HeldBy(id) /\ q.obj \in Objs \ {o} /\ q.index \in Indexes
      BY <1>11
    <2>2. groups'[q.obj] = groups[q.obj]
      BY <1>3, <2>1
    <2>3. table[q.index] = q.obj => table'[q.index] = q.obj
      BY <1>5, <2>1
    <2> QED BY <2>1, <2>2, <2>3 DEF Inv, GroupInv, HoldersAreMembers
  <1>15. MembersHold'
    <2> SUFFICES ASSUME NEW p \in Objs \ stray, NEW l \in groups'[p].members
                 PROVE  \E q \in HeldBy(l[1])' : q.how \in GroupHows /\ q.nr = l[2] /\ q.obj = p
      BY DEF MembersHold
    <2>1. p # o /\ l \in groups[p].members
      BY <1>3
    <2>2. PICK q \in HeldBy(l[1]) : q.how \in GroupHows /\ q.nr = l[2] /\ q.obj = p
      BY <2>1 DEF Inv, GroupInv, MembersHold
    <2>3. l[1] \in Ids
      BY <2>1 DEF Inv, TypeOK, Groups
    <2>4. q # k
      BY <2>1, <2>2
    <2> QED BY <1>1, <2>2, <2>3, <2>4
  <1>16. \A j \in Indexes : table'[j] # None =>
           j # i /\ table'[j] = table[j] /\ table[j] \in Objs \ {o}
    <2> SUFFICES ASSUME NEW j \in Indexes, table'[j] # None
                 PROVE  j # i /\ table'[j] = table[j] /\ table[j] \in Objs \ {o}
      OBVIOUS
    <2>1. j # i /\ table'[j] = table[j] /\ table[j] \in Objs
      BY <1>5 DEF Inv, TypeOK
    <2>2. table[j] # o
      BY <1>2, <2>1 DEF Inv, GroupInv, TableInv
    <2> QED BY <2>1, <2>2
  <1>17. TableInv'
    <2> SUFFICES ASSUME NEW j \in Indexes, table'[j] # None
                 PROVE  LET p == table'[j]
                        IN /\ ~groups'[p].closed
                           /\ \A x \in Indexes : table'[x] = p => x = j
                           /\ groups'[p].members = {} => groups'[p].res = None
                           /\ j[1] = "http" =>
                                /\ groups'[p].members # {} => groups'[p].res = <<"http", j[3], j[4]>>
                                /\ \A l, x \in groups'[p].members : l[1][2] = x[1][2] => l = x
      BY DEF TableInv
    <2>1. table'[j] = table[j] /\ groups'[table[j]] = groups[table[j]] /\ table[j] # None
      BY <1>3, <1>16
    <2>2. \A x \in Indexes : table'[x] = table[j] => x = j
      BY <1>16, <2>1 DEF Inv, GroupInv, TableInv
    <2>3. LET p == table[j]
          IN /\ ~groups[p].closed
             /\ groups[p].members = {} => groups[p].res = None
             /\ j[1] = "http" =>
                  /\ groups[p].members # {} => groups[p].res = <<"http", j[3], j[4]>>
                  /\ \A l, x \in groups[p].members : l[1][2] = x[1][2] => l = x
      BY <2>1 DEF Inv, GroupInv, TableInv
    <2> QED BY <2>1, <2>2, <2>3
  <1>18. FoundInv'
    <2> SUFFICES ASSUME NEW d \in Ctls, proc'[d].at = "join"
                 PROVE  LET x == GroupIndex(proc'[d].conf, Wants(proc'[d].conf)[proc'[d].next])
                            p == proc'[d].found
                        IN /\ \A j \in Indexes : table'[j] = p => j = x
                           /\ Wants(proc'[d].conf)[proc'[d].next].how = "lnGroup" =>
                                groups'[p].closed \/ table'[x] = p
      BY DEF FoundInv, At, Next1
    <2> DEFINE x == GroupIndex(proc[d].conf, Next1(d))
               p == proc[d].found
    <2>1. /\ At(d, "join") /\ proc'[d].found = p
          /\ Wants(proc'[d].conf)[proc'[d].next] = Next1(d) /\ proc'[d].conf = proc[d].conf
      BY <1>1 DEF JoinsShrink, Next1, At
    <2>2. /\ p \in Objs /\ p # None /\ x \in Indexes
          /\ x[1] = proc[d].conf.kind
          /\ Next1(d).how = "httpGroup" <=> proc[d].conf.kind = "http"
      BY <2>1, Joining
    <2>3. /\ \A j \in Indexes : table[j] = p => j = x
          /\ Next1(d).how = "lnGroup" => groups[p].closed \/ table[x] = p
      BY <2>1 DEF Inv, GroupInv, FoundInv
    <2>4. Next1(d).how = "lnGroup" => proc[d].conf.kind # "http"
      BY <2>2
    <2> HIDE DEF x, p
    <2>5. \A j \in Indexes : table'[j] = p => j = x
      BY <1>16, <2>2, <2>3
    <2>6. ASSUME Next1(d).how = "lnGroup"
          PROVE  groups'[p].closed \/ table'[x] = p
      <3>1. CASE p = o
        <4>1. x = i
          BY <1>2, <2>3, <3>1
        <4>2. i[1] # "http"
          BY <2>2, <2>4, <2>6, <4>1
        <4>3. k.how = "lnGroup"
          BY <1>2, <4>2 DEF GroupHows
        <4> QED BY <1>3, <3>1, <4>3
      <3>2. CASE p # o
        <4>1. groups'[p] = groups[p]
          BY <1>3, <2>2, <3>2
        <4>2. table[x] = p => table'[x] = p
          BY <1>5, <2>2, <3>2
        <4> QED BY <2>3, <2>6, <4>1, <4>2
      <3> QED BY <3>1, <3>2
    <2> QED BY <2>1, <2>5, <2>6 DEF x
  <1>19. GroupInv'
    BY <1>12, <1>13, <1>14, <1>15, <1>17, <1>18 DEF GroupInv
  <1> QED BY <1>1, <1>6, <1>10, <1>19 DEF Inv

\* UnRegister finds an object that nobody joined yet: it only leaves the table.
LEMMA StrayLeavesStep ==
  ASSUME Inv, NEW c \in Ctls, NEW k, Closing(c, k), k.how = "httpGroup", Dropped(c, k),
         table[k.index] # None, groups[table[k.index]].members = {},
         table' = [table EXCEPT ![k.index] = None],
         UNCHANGED <<declared, used, natholes, groups, pxyTable, mine, portsUsed, stray, displaced>>
  PROVE  Inv'
  <1> DEFINE me == proc[c].id
             i == k.index
  <1>1. /\ proc' \in [Ctls -> Procs] /\ NamesInv' /\ HoldsInv' /\ JoinsShrink
        /\ me \in Ids /\ k \in HeldBy(me) /\ k \in Holds
        /\ \A id \in Ids : HeldBy(id)' = IF id = me THEN HeldBy(id) \ {k} ELSE HeldBy(id)
    BY DropKeeps DEF Inv
  <1>2. i \in Indexes /\ i[1] = "http" /\ groups[k.obj].members # {}
    BY <1>1, GroupHolds DEF GroupHows
  <1>3. k.obj \in stray
    BY <1>1, <1>2 DEF Inv, GroupInv, HoldersAreMembers, GroupHows
  <1>4. /\ table' \in [Indexes -> Objs \union {None}]
        /\ table'[i] = None /\ \A j \in Indexes \ {i} : table'[j] = table[j]
    BY <1>2 DEF Inv, TypeOK
  <1>5. TypeOK'
    BY <1>1, <1>4 DEF Inv, TypeOK
  <1>6. OwnInv' /\ NatInv'
    <2>1. SameHolds({"own"}) /\ SameHolds({"nathole"})
      BY <1>1 DEF SameHolds, GroupHows
    <2>2. SameOwned(Ids)
      BY DEF SameOwned
    <2> QED BY <1>5, <2>1, <2>2, OwnKept, NatKept DEF Inv
  <1>7. MembersOwn' /\ OwnersKnow'
    <2>1. MembersOwn'
      BY DEF Inv, GroupInv, MembersOwn
    <2>2. OwnersKnow'
      BY DEF Inv, GroupInv, OwnersKnow
    <2> QED BY <2>1, <2>2
  <1>8. HoldersAreMembers'
    <2> SUFFICES ASSUME NEW id \in Ids, NEW q \in HeldBy(id)', q.how \in GroupHows
                 PROVE  /\ <<id, q.nr>> \in groups[q.obj].members
                        /\ groups[q.obj].res = q.res
                        /\ q.obj \in stray \/ table'[q.index] = q.obj
                        /\ q.how = "lnGroup" => groups[q.obj].closed \/ table'[q.index] = q.obj
      BY DEF HoldersAreMembers
    <2>1. q \in HeldBy(id)
      BY <1>1
    <2>2. q.index \in Indexes /\ groups[q.obj].members # {}
      BY <2>1, GroupHolds
    <2>3. table[q.index] = q.obj => table'[q.index] = q.obj
      BY <1>4, <2>2
    <2> QED BY <2>1, <2>3 DEF Inv, GroupInv, HoldersAreMembers
  <1>9. MembersHold'
    <2> SUFFICES ASSUME NEW p \in Objs \ stray, NEW l \in groups[p].members
                 PROVE  \E q \in HeldBy(l[1])' : q.how \in GroupHows /\ q.nr = l[2] /\ q.obj = p
      BY DEF MembersHold
    <2>1. PICK q \in HeldBy(l[1]) : q.how \in GroupHows /\ q.nr = l[2] /\ q.obj = p
      BY DEF Inv, GroupInv, MembersHold
    <2>2. l[1] \in Ids
      BY DEF Inv, TypeOK, Groups
    <2>3. q # k
      BY <1>3, <2>1
    <2> QED BY <1>1, <2>1, <2>2, <2>3
  <1>10. \A j \in Indexes : table'[j] # None => table'[j] = table[j]
    BY <1>4
  <1>11. TableInv'
    <2> SUFFICES ASSUME NEW j \in Indexes, table'[j] # None
                 PROVE  LET p == table'[j]
                        IN /\ ~groups[p].closed
                           /\ \A x \in Indexes : table'[x] = p => x = j
                           /\ groups[p].members = {} => groups[p].res = None
                           /\ j[1] = "http" =>
                                /\ groups[p].members # {} => groups[p].res = <<"http", j[3], j[4]>>
                                /\ \A l, x \in groups[p].members : l[1][2] = x[1][2] => l = x
      BY DEF TableInv
    <2>1. table'[j] = table[j] /\ table[j] # None
      BY <1>10
    <2>2. \A x \in Indexes : table'[x] = table[j] => x = j
      BY <1>10, <2>1 DEF Inv, GroupInv, TableInv
    <2>3. LET p == table[j]
          IN /\ ~groups[p].closed
             /\ groups[p].members = {} => groups[p].res = None
             /\ j[1] = "http" =>
                  /\ groups[p].members # {} => groups[p].res = <<"http", j[3], j[4]>>
                  /\ \A l, x \in groups[p].members : l[1][2] = x[1][2] => l = x
      BY <2>1 DEF Inv, GroupInv, TableInv
    <2> QED BY <2>1, <2>2, <2>3
  <1>12. FoundInv'
    <2> SUFFICES ASSUME NEW d \in Ctls, proc'[d].at = "join"
                 PROVE  LET x == GroupIndex(proc'[d].conf, Wants(proc'[d].conf)[proc'[d].next])
                            p == proc'[d].found
                        IN /\ \A j \in Indexes : table'[j] = p => j = x
                           /\ Wants(proc'[d].conf)[proc'[d].next].how = "lnGroup" =>
                                groups[p].closed \/ table'[x] = p
      BY DEF FoundInv, At, Next1
    <2> DEFINE x == GroupIndex(proc[d].conf, Next1(d))
               p == proc[d].found
    <2>1. /\ At(d, "join") /\ proc'[d].found = p
          /\ Wants(proc'[d].conf)[proc'[d].next] = Next1(d) /\ proc'[d].conf = proc[d].conf
      BY <1>1 DEF JoinsShrink, Next1, At
    <2>2. /\ p # None /\ x \in Indexes
          /\ x[1] = proc[d].conf.kind
          /\ Next1(d).how = "httpGroup" <=> proc[d].conf.kind = "http"
      BY <2>1, Joining
    <2>3. /\ \A j \in Indexes : table[j] = p => j = x
          /\ Next1(d).how = "lnGroup" => groups[p].closed \/ table[x] = p
      BY <2>1 DEF Inv, GroupInv, FoundInv
    <2> HIDE DEF x, p
    <2>4. \A j \in Indexes : table'[j] = p => j = x
      BY <1>10, <2>2, <2>3
    <2>5. Next1(d).how = "lnGroup" => x # i
      BY <1>2, <2>2
    <2>6. Next1(d).how = "lnGroup" => groups[p].closed \/ table'[x] = p
      BY <1>4, <2>2, <2>3, <2>5
    <2> QED BY <2>1, <2>4, <2>6 DEF x
  <1>13. GroupInv'
    BY <1>7, <1>8, <1>9, <1>11, <1>12 DEF GroupInv
  <1> QED BY <1>1, <1>5, <1>6, <1>13 DEF Inv

LEMMA UnRegisterStep ==
  ASSUME Inv, NEW c \in Ctls, NEW k \in proc[c].held, UnRegister(c, k)
  PROVE  Inv'
  <1> DEFINE me == proc[c].id
             o == table[k.index]
             left == groups[o].members \ Named(o, me[2])
  <1>1. /\ Closing(c, k) /\ k.how = "httpGroup" /\ k.how \in GroupHows /\ Dropped(c, k)
        /\ UNCHANGED <<declared, natholes, pxyTable, mine, portsUsed, stray, displaced>>
    BY DEF UnRegister, history, GroupHows
  <1>2. me \in Ids /\ k \in HeldBy(me) /\ \A q \in HeldBy(me) : q.nr = k.nr => q = k
    BY <1>1, ClosingIsOne
  <1>3. /\ k.obj \in Objs /\ k.obj # None /\ k.index \in Indexes /\ k.res \in Resources
        /\ <<me, k.nr>> \in groups[k.obj].members /\ groups[k.obj].members # {}
        /\ k.index[1] = "http" /\ k.res = <<"http", k.index[3], k.index[4]>>
    BY <1>1, <1>2, GroupHolds
  <1>4. k.obj \in stray \/ o = k.obj
    BY <1>1, <1>2 DEF Inv, GroupInv, HoldersAreMembers
  <1>5. groups \in [Objs -> Groups] /\ (o # None => o \in Objs)
    BY <1>3 DEF Inv, TypeOK
  <1>6. k.res # None
    BY <1>3, ResourcesAssumption
  \* An object of this route with members is the one that was joined.
  <1>7. ASSUME o # None, groups[o].members # {}
        PROVE  o = k.obj /\ groups[o].res = k.res
               /\ \A l \in groups[o].members : l[1][2] = me[2] => l = <<me, k.nr>>
    <2>1. groups[o].res = k.res
      BY <1>3, <1>7 DEF Inv, GroupInv, TableInv
    <2>2. used[k.res] = <<"group", o>>
      BY <1>5, <1>7, <2>1 DEF Inv, GroupInv, MembersOwn
    <2>3. groups[k.obj].res = k.res
      BY <1>1, <1>2 DEF Inv, GroupInv, HoldersAreMembers
    <2>4. used[k.res] = <<"group", k.obj>>
      BY <1>3, <2>3 DEF Inv, GroupInv, MembersOwn
    <2>5. o = k.obj
      BY <2>2, <2>4
    <2>6. \A l, x \in groups[o].members : l[1][2] = x[1][2] => l = x
      BY <1>3, <1>7 DEF Inv, GroupInv, TableInv
    <2>7. <<me, k.nr>> \in groups[o].members /\ <<me, k.nr>>[1][2] = me[2]
      BY <1>3, <2>5
    <2> QED BY <2>1, <2>5, <2>6, <2>7
  <1>8. CASE o = None
    <2>1. UNCHANGED <<used, table, groups>>
      BY <1>8 DEF UnRegister
    <2>2. k.obj \in stray
      BY <1>3, <1>4, <1>8
    <2> DEFINE all == groups[k.obj].members
    <2>3. Loses(k.obj, all)
      <3>1. groups[k.obj] \in Groups
        BY <1>3, <1>5
      <3>2. groups[k.obj] = [groups[k.obj] EXCEPT !.members = groups[k.obj].members]
        BY <3>1 DEF Groups
      <3> QED BY <1>5, <2>1, <3>2 DEF Loses
    <2>4. \A id \in Ids : \A q \in HeldBy(id) : q.how \in GroupHows /\ q.obj = k.obj =>
            <<id, q.nr>> \in all \/ (id = proc[c].id /\ q = k)
      BY DEF Inv, GroupInv, HoldersAreMembers
    <2>5. all \in SUBSET groups[k.obj].members /\ all # {}
      BY <1>3
    <2>6. UNCHANGED <<declared, used, natholes, table, pxyTable, mine, portsUsed, stray, displaced>>
      BY <1>1, <2>1
    <2> HIDE DEF all
    <2> QED BY <1>1, <1>3, <2>2, <2>3, <2>4, <2>5, <2>6, LeaveStep
  <1>9. CASE o # None /\ left # {}
    <2>1. Loses(o, left) /\ UNCHANGED <<used, table>>
      BY <1>9 DEF UnRegister, Loses
    <2>2. groups[o].members # {} /\ left \in SUBSET groups[o].members
      BY <1>9
    <2>3. o = k.obj /\ \A l \in groups[o].members : l[1][2] = me[2] => l = <<me, k.nr>>
      BY <1>7, <1>9, <2>2
    <2>4. <<me, k.nr>> \notin left
      BY DEF Named
    <2>5. ASSUME NEW id \in Ids, NEW q \in HeldBy(id), q.how \in GroupHows, q.obj = o
          PROVE  <<id, q.nr>> \in left \/ (id = me /\ q = k)
      <3>1. <<id, q.nr>> \in groups[o].members
        BY <2>5 DEF Inv, GroupInv, HoldersAreMembers
      <3>2. CASE <<id, q.nr>> \in left
        BY <3>2
      <3>3. CASE <<id, q.nr>> \notin left
        <4>1. <<id, q.nr>> \in Named(o, me[2])
          BY <3>1, <3>3
        <4>2. <<id, q.nr>>[1][2] = me[2]
          BY <4>1 DEF Named
        <4>3. <<id, q.nr>> = <<me, k.nr>>
          BY <2>3, <3>1, <4>2
        <4>4. id = me /\ q.nr = k.nr
          BY <4>3
        <4> QED BY <1>2, <4>4
      <3> QED BY <3>2, <3>3
    <2>6. o \in Objs
      BY <1>5, <1>9
    <2>7. \A id \in Ids : \A q \in HeldBy(id) : q.how \in GroupHows /\ q.obj = o =>
            <<id, q.nr>> \in left \/ (id = proc[c].id /\ q = k)
      BY <2>5
    <2>8. k.obj \in stray \/ (k.obj = o /\ <<proc[c].id, k.nr>> \notin left)
      BY <2>3, <2>4
    <2>9. UNCHANGED <<declared, used, natholes, table, pxyTable, mine, portsUsed, stray, displaced>>
      BY <1>1, <2>1
    <2> HIDE DEF left, o, me
    <2> QED BY <1>1, <1>9, <2>1, <2>2, <2>6, <2>7, <2>8, <2>9, LeaveStep
  <1>10. CASE o # None /\ left = {}
    <2>1. /\ groups' = [groups EXCEPT ![o].members = {}]
          /\ used' = IF groups[o].res = None THEN used ELSE [used EXCEPT ![groups[o].res] = None]
          /\ table' = [table EXCEPT ![k.index] = None]
      BY <1>10 DEF UnRegister
    <2>2. groups[o] \in Groups /\ o \in Objs
      BY <1>5, <1>10
    <2>3. CASE groups[o].members = {}
      <3>1. groups[o].res = None
        BY <1>3, <1>10, <2>3 DEF Inv, GroupInv, TableInv
      <3>2. groups[o] = [groups[o] EXCEPT !.members = {}]
        BY <2>2, <2>3 DEF Groups
      <3>3. UNCHANGED <<used, groups>>
        BY <1>5, <2>1, <3>1, <3>2
      <3> QED BY <1>1, <1>10, <2>1, <2>3, <3>3, StrayLeavesStep
    <2>4. CASE groups[o].members # {}
      <3>1. o = k.obj /\ groups[o].res = k.res
            /\ \A l \in groups[o].members : l[1][2] = me[2] => l = <<me, k.nr>>
        BY <1>7, <1>10, <2>4
      <3>2. groups[o].members = {<<me, k.nr>>}
        <4>1. \A l \in groups[o].members : l[1][2] = me[2]
          BY <1>10 DEF Named
        <4> QED BY <2>4, <3>1, <4>1
      <3>3. groups' = [groups EXCEPT ![o].members = {}, ![o].closed = groups[o].closed]
        <4>1. [groups[o] EXCEPT !.members = {}] =
              [groups[o] EXCEPT !.members = {}, !.closed = groups[o].closed]
          BY <2>2 DEF Groups
        <4> QED BY <1>5, <2>1, <2>2, <4>1
      <3>4. groups[o].closed \in BOOLEAN
        BY <2>2 DEF Groups
      <3>5. used' = [used EXCEPT ![k.res] = None]
        BY <1>6, <2>1, <3>1
      <3> QED BY <1>1, <2>1, <3>1, <3>2, <3>3, <3>4, <3>5, LastLeavesStep
    <2> QED BY <2>3, <2>4
  <1> QED BY <1>8, <1>9, <1>10

\* The last listener of a closed object, which is stray, closes acceptCh a second time.
LEMMA PanicStep ==
  ASSUME Inv, NEW c \in Ctls, NEW k, Closing(c, k), k.how = "lnGroup", Panics(c, k),
         groups[k.obj].members = {<<proc[c].id, k.nr>>}, groups[k.obj].closed,
         Loses(k.obj, {}),
         UNCHANGED <<declared, used, natholes, table, pxyTable, mine, displaced>>
  PROVE  Inv'
  <1> DEFINE me == proc[c].id
             o == k.obj
  <1>1. /\ k \in HeldBy(me) /\ me \in Ids /\ proc[c].conf \in Confs
        /\ HeldBy(me) = proc[c].held /\ HeldOK(proc[c].conf, proc[c].held)
        /\ \A q \in HeldBy(me) : q.nr = k.nr => q = k
    BY ClosingIsOne
  <1>2. o \in Objs /\ k.how \in GroupHows
    BY <1>1, GroupHolds DEF GroupHows
  <1>3. o \in stray
    BY <1>2 DEF Inv, GroupInv, MembersOwn
  <1>4. groups' \in [Objs -> Groups] /\ groups'[o].members = {}
        /\ {} \in SUBSET groups[o].members
    <2>1. groups \in [Objs -> Groups] /\ groups[o] \in Groups
      BY <1>2 DEF Inv, TypeOK
    <2>2. [groups[o] EXCEPT !.members = {}] \in Groups
          /\ [groups[o] EXCEPT !.members = {}].members = {}
      BY <2>1 DEF Groups
    <2>3. groups' = [groups EXCEPT ![o].members = {}]
      BY DEF Loses
    <2>4. groups' = [groups EXCEPT ![o] = [groups[o] EXCEPT !.members = {}]]
      BY <2>1, <2>3
    <2> QED BY <1>2, <2>1, <2>2, <2>4
  <1>5. \A id \in Ids : \A q \in HeldBy(id) : q.how \in GroupHows /\ q.obj = o => id = me /\ q = k
    <2> SUFFICES ASSUME NEW id \in Ids, NEW q \in HeldBy(id), q.how \in GroupHows, q.obj = o
                 PROVE  id = me /\ q = k
      OBVIOUS
    <2>1. <<id, q.nr>> \in groups[o].members
      BY DEF Inv, GroupInv, HoldersAreMembers
    <2>2. <<id, q.nr>> = <<me, k.nr>>
      BY <2>1
    <2>3. id = me /\ q.nr = k.nr
      BY <2>2
    <2> QED BY <1>1, <2>3
  <1>6. SameOwned(Ids)
    BY DEF SameOwned
  <1>7. CASE At(c, "undo")
    <2>1. /\ proc' = [proc EXCEPT ![c] = [Idle EXCEPT !.at = "stop"]]
          /\ portsUsed' = [portsUsed EXCEPT ![c] =
                             IF Counts THEN @ - UsedPortsNum(proc[c].conf) ELSE @]
          /\ stray' = stray \union {q.obj : q \in proc[c].held}
      BY <1>7 DEF Panics
    <2> DEFINE r == [Idle EXCEPT !.at = "stop"]
    <2>2. r \in Procs /\ r.at = "stop" /\ r.id = None
      BY DEF Idle, Procs, Places
    <2> HIDE DEF r
    <2>3. OnlyMoves(c) /\ proc'[c] = r
      BY <2>1, <2>2, SetMoves DEF Inv, r
    <2>4. Rests(c) /\ proc[c].at \in Starting
      BY <1>7, <2>2, <2>3 DEF Rests, Resting, Starting, At
    <2>5. TypeOK'
      <3>1. UsedPortsNum(proc[c].conf) \in Int
        BY PortsNum
      <3>2. portsUsed' \in [Ctls -> Int]
        BY <2>1, <3>1 DEF Inv, TypeOK
      <3> QED BY <1>4, <2>3, <3>2 DEF Inv, TypeOK, OnlyMoves
    <2>6. NamesInv' /\ HoldsInv'
      BY <2>4, NamesRest, HoldsRest DEF Inv
    <2>7. \A id \in Ids : HeldBy(id)' = IF id = me THEN {} ELSE HeldBy(id)
      BY <2>4, HeldRests DEF Inv
    <2>8. \A q \in HeldBy(me) : q.how = "lnGroup"
      <3> SUFFICES ASSUME NEW q \in HeldBy(me)
                   PROVE  q.how = "lnGroup"
        OBVIOUS
      <3>1. HoldOK(proc[c].conf, q) /\ HoldOK(proc[c].conf, k)
        BY <1>1 DEF HeldOK
      <3>2. /\ k.nr \in DOMAIN Wants(proc[c].conf) /\ q.nr \in DOMAIN Wants(proc[c].conf)
            /\ Kept(Wants(proc[c].conf)[k.nr].how) = "lnGroup"
            /\ q.how = Kept(Wants(proc[c].conf)[q.nr].how)
        BY <3>1 DEF HoldOK
      <3>3. Wants(proc[c].conf)[k.nr].how = "lnGroup"
        BY <3>2 DEF Kept
      <3>4. Wants(proc[c].conf)[q.nr].how = Wants(proc[c].conf)[k.nr].how
        <4>1. proc[c].conf.kind \in Kinds
          BY <1>1, ResourcesAssumption
        <4> QED BY <1>1, <3>2, <3>3, <4>1, WantHow DEF Kinds
      <3> QED BY <3>2, <3>3, <3>4 DEF Kept
    <2>9. SameHolds({"own"}) /\ SameHolds({"nathole"})
      BY <2>7, <2>8 DEF SameHolds
    <2>10. OwnInv' /\ NatInv'
      BY <1>6, <2>5, <2>9, OwnKept, NatKept DEF Inv
    <2>11. JoinsShrink
      BY <2>2, <2>3 DEF JoinsShrink, At, OnlyMoves
    <2>12. \A id \in Ids : \A q \in HeldBy(id)' : q.how \in GroupHows =>
             q \in HeldBy(id) /\ (q.obj = o => <<id, q.nr>> \in {})
      BY <1>5, <2>7
    <2>13. ASSUME NEW p \in Objs \ stray', NEW l \in groups'[p].members, NEW q \in HeldBy(l[1]),
                  q.how \in GroupHows, q.nr = l[2], q.obj = p
           PROVE  q \in HeldBy(l[1])'
      <3>1. l[1] \in Ids
        BY <1>4 DEF Groups
      <3>2. l[1] # me
        BY <1>1, <2>1, <2>13
      <3> QED BY <2>7, <3>1, <3>2
    <2>14. GroupInv'
      BY <1>2, <1>3, <1>4, <2>1, <2>5, <2>11, <2>12, <2>13, GroupShrinks
    <2> QED BY <2>5, <2>6, <2>10, <2>14 DEF Inv
  <1>8. CASE ~At(c, "undo")
    <2> DEFINE place == IF At(c, "close") THEN "wedged" ELSE "halfClosed"
               r == [proc[c] EXCEPT !.at = place, !.held = @ \ {k}]
    <2>1. /\ proc' = [proc EXCEPT ![c].at = place, ![c].held = @ \ {k}]
          /\ UNCHANGED <<portsUsed, stray>>
      BY <1>8 DEF Panics
    <2>2. proc[c] \in Procs /\ proc \in [Ctls -> Procs]
      BY DEF Inv, TypeOK
    <2>3. place \in {"wedged", "halfClosed"}
      OBVIOUS
    <2> HIDE DEF place
    <2>4. /\ r \in Procs /\ r.at = place /\ r.id = proc[c].id /\ r.conf = proc[c].conf
          /\ r.held = proc[c].held \ {k}
      BY <2>2, <2>3 DEF Procs, Places
    <2>5. proc' = [proc EXCEPT ![c] = r]
      BY <2>1, <2>2
    <2> HIDE DEF r
    <2>6. OnlyMoves(c) /\ proc'[c] = r
      BY <2>4, <2>5, SetMoves DEF Inv
    <2>7. proc[c].at \in Ending /\ proc'[c].at \in Ending /\ proc'[c].at \notin {"run", "join"}
      BY <1>8, <2>3, <2>4, <2>6 DEF Closing, Ending, At
    <2>8. GoesOn(c)
      BY <2>4, <2>6, <2>7 DEF GoesOn
    <2>9. TypeOK'
      BY <1>4, <2>1, <2>6 DEF Inv, TypeOK, OnlyMoves
    <2>10. NamesInv' /\ HoldsInv'
      BY <2>4, <2>6, <2>7, <2>8, NamesGoOn, HoldsGoOn DEF Inv
    <2>11. \A id \in Ids : HeldBy(id)' = IF id = me THEN HeldBy(id) \ {k} ELSE HeldBy(id)
      BY <1>1, <2>4, <2>6, <2>8, HeldGoesOn DEF Inv
    <2>12. SameHolds({"own"}) /\ SameHolds({"nathole"})
      BY <2>11 DEF SameHolds
    <2>13. OwnInv' /\ NatInv'
      BY <1>6, <2>9, <2>12, OwnKept, NatKept DEF Inv
    <2>14. JoinsShrink
      BY <2>6, <2>7 DEF JoinsShrink, At, OnlyMoves
    <2>15. \A id \in Ids : \A q \in HeldBy(id)' : q.how \in GroupHows =>
             q \in HeldBy(id) /\ (q.obj = o => <<id, q.nr>> \in {})
      BY <1>5, <2>11
    <2>16. ASSUME NEW p \in Objs \ stray', NEW l \in groups'[p].members, NEW q \in HeldBy(l[1]),
                  q.how \in GroupHows, q.nr = l[2], q.obj = p
           PROVE  q \in HeldBy(l[1])'
      <3>1. l[1] \in Ids
        BY <1>4 DEF Groups
      <3>2. q # k
        BY <1>3, <2>1, <2>16
      <3> QED BY <2>11, <3>1, <3>2
    <2>17. GroupInv'
      BY <1>2, <1>3, <1>4, <2>1, <2>9, <2>14, <2>15, <2>16, GroupShrinks
    <2> QED BY <2>9, <2>10, <2>13, <2>17 DEF Inv
  <1> QED BY <1>7, <1>8

LEMMA CloseGroupStep ==
  ASSUME Inv, NEW c \in Ctls, NEW k \in proc[c].held, TCPCloseListener(c, k) \/ TCPMuxCloseListener(c, k)
  PROVE  Inv'
  <1> DEFINE me == proc[c].id
             o == k.obj
             others == groups[k.obj].members \ {<<proc[c].id, k.nr>>}
  <1>1. /\ Closing(c, k) /\ k.how = "lnGroup" /\ k.how \in GroupHows
        /\ UNCHANGED <<declared, natholes, pxyTable, mine, displaced>>
    BY DEF TCPCloseListener, TCPMuxCloseListener, CloseGroupListener, GroupHows
  <1>2. \/ /\ others # {} /\ Loses(o, others)
           /\ Dropped(c, k) /\ UNCHANGED <<used, table, portsUsed, stray>>
        \/ /\ others = {} /\ ~groups[o].closed
           /\ groups' = [groups EXCEPT ![o].members = {}, ![o].closed = TRUE]
           /\ used' = [used EXCEPT ![groups[o].res] = None]
           /\ table' = [table EXCEPT ![k.index] = None]
           /\ Dropped(c, k) /\ UNCHANGED <<portsUsed, stray>>
        \/ /\ others = {} /\ groups[o].closed /\ Loses(o, {})
           /\ Panics(c, k) /\ UNCHANGED <<used, table>>
    BY DEF TCPCloseListener, TCPMuxCloseListener, CloseGroupListener, Others, RemoveGroup, Loses
  <1>3. me \in Ids /\ k \in HeldBy(me) /\ \A q \in HeldBy(me) : q.nr = k.nr => q = k
    BY <1>1, ClosingIsOne
  <1>4. o \in Objs /\ <<me, k.nr>> \in groups[o].members
    BY <1>1, <1>3, GroupHolds
  <1>5. others = {} => groups[o].members = {<<me, k.nr>>}
    BY <1>4
  <1>6. CASE others # {} /\ Loses(o, others) /\ Dropped(c, k) /\ UNCHANGED <<used, table, portsUsed, stray>>
    <2>1. ASSUME NEW id \in Ids, NEW q \in HeldBy(id), q.how \in GroupHows, q.obj = o
          PROVE  <<id, q.nr>> \in others \/ (id = proc[c].id /\ q = k)
      <3>1. <<id, q.nr>> \in groups[o].members
        BY <2>1 DEF Inv, GroupInv, HoldersAreMembers
      <3>2. CASE <<id, q.nr>> = <<me, k.nr>>
        <4>1. id = me /\ q.nr = k.nr
          BY <3>2
        <4> QED BY <1>3, <4>1
      <3>3. CASE <<id, q.nr>> # <<me, k.nr>>
        BY <3>1, <3>3
      <3> QED BY <3>2, <3>3
    <2>2. \A id \in Ids : \A q \in HeldBy(id) : q.how \in GroupHows /\ q.obj = o =>
            <<id, q.nr>> \in others \/ (id = proc[c].id /\ q = k)
      BY <2>1
    <2>3. k.obj \in stray \/ (k.obj = o /\ <<proc[c].id, k.nr>> \notin others)
      OBVIOUS
    <2>4. UNCHANGED <<declared, used, natholes, table, pxyTable, mine, portsUsed, stray, displaced>>
      BY <1>1, <1>6
    <2>5. others \in SUBSET groups[o].members
      OBVIOUS
    <2> HIDE DEF others, o, me
    <2> QED BY <1>1, <1>4, <1>6, <2>2, <2>3, <2>4, <2>5, LeaveStep
  <1>7. CASE /\ others = {} /\ ~groups[o].closed
             /\ groups' = [groups EXCEPT ![o].members = {}, ![o].closed = TRUE]
             /\ used' = [used EXCEPT ![groups[o].res] = None]
             /\ table' = [table EXCEPT ![k.index] = None]
             /\ Dropped(c, k) /\ UNCHANGED <<portsUsed, stray>>
    <2>1. groups[o].res = k.res /\ table[k.index] = o
      BY <1>1, <1>3, <1>7 DEF Inv, GroupInv, HoldersAreMembers
    <2> QED BY <1>1, <1>5, <1>7, <2>1, LastLeavesStep
  <1>8. CASE /\ others = {} /\ groups[o].closed /\ Loses(o, {})
             /\ Panics(c, k) /\ UNCHANGED <<used, table>>
    BY <1>1, <1>5, <1>8, PanicStep
  <1> QED BY <1>2, <1>6, <1>7, <1>8
-----------------------------------------------------------------------------
(***************************************************************************)
(* The invariant holds.                                                    *)
(***************************************************************************)
LEMMA InitInv == Init => Inv
  <1> SUFFICES ASSUME Init
               PROVE  Inv
    OBVIOUS
  <1> USE DEF Init
  <1>1. TypeOK
    <2>1. declared \in [Ctls -> SUBSET Confs]
      BY ResourcesAssumption
    <2>2. groups \in [Objs -> Groups]
      BY DEF NewGroup, Groups
    <2>3. proc \in [Ctls -> Procs]
      BY DEF Idle, Procs, Places
    <2> QED BY <2>1, <2>2, <2>3 DEF TypeOK
  <1>2. \A c \in Ctls : proc[c].at = "idle" /\ proc[c].id = None /\ proc[c].held = {}
                        /\ mine[c] = {} /\ proc[c].found = None
    BY DEF Idle
  <1>3. NamesInv
    <2> SUFFICES ASSUME NEW c \in Ctls
                 PROVE  MineOK(c) /\ ProcOK(c)
      BY DEF NamesInv
    <2>1. MineOK(c)
      BY <1>2, FS_EmptySet DEF MineOK
    <2>2. ProcOK(c)
      BY <1>2 DEF ProcOK, At, Resting, Starting, Ending
    <2> QED BY <2>1, <2>2
  <1>4. HoldsInv
    BY <1>2 DEF HoldsInv, Starting, Ending
  <1>5. \A id \in Ids : HeldBy(id) = {}
    <2> SUFFICES ASSUME NEW id \in Ids
                 PROVE  HeldBy(id) = {}
      OBVIOUS
    <2>1. id[1] \in Ctls /\ id # None
      BY ResourcesAssumption DEF Ids
    <2> QED BY <1>2, <2>1 DEF HeldBy
  <1>6. None \notin Ids /\ None \notin {"group"} \X Objs
    BY ResourcesAssumption
  <1>7. OwnInv
    BY <1>5, <1>6 DEF OwnInv
  <1>8. NatInv
    BY <1>5 DEF NatInv
  <1>9. GroupInv
    <2>1. \A o \in Objs : groups[o].members = {}
      BY DEF NewGroup
    <2>2. MembersOwn /\ HoldersAreMembers
      BY <1>5, <2>1 DEF MembersOwn, HoldersAreMembers
    <2>3. OwnersKnow
      BY <1>6 DEF OwnersKnow
    <2>4. MembersHold
      BY <2>1 DEF MembersHold
    <2>5. TableInv
      BY DEF TableInv
    <2>6. FoundInv
      BY <1>2 DEF FoundInv, At
    <2> QED BY <2>2, <2>3, <2>4, <2>5, <2>6 DEF GroupInv
  <1> QED BY <1>1, <1>3, <1>4, <1>7, <1>8, <1>9 DEF Inv

LEMMA StutterInv ==
  ASSUME Inv, UNCHANGED tables
  PROVE  Inv'
  <1> USE DEF tables
  <1>1. TypeOK'
    BY DEF Inv, TypeOK
  <1>2. NamesInv'
    BY DEF Inv, NamesInv, MineOK, ProcOK, At, More, Next1
  <1>3. HoldsInv'
    BY DEF Inv, HoldsInv
  <1>4. \A id \in Ids : HeldBy(id)' = HeldBy(id)
    BY DEF HeldBy
  <1>5. JoinsShrink
    BY DEF JoinsShrink, At
  <1> QED BY <1>1, <1>2, <1>3, <1>4, <1>5, QuietKept DEF Inv

\* The tables change by the steps of controls only.
LEMMA Stands ==
  [Next]_vars => UNCHANGED tables \/ \E c \in Ctls : ControlStep(c)
  BY DEF Next, LateRelease, vars, tables, history

LEMMA StepInv ==
  ASSUME Inv, [Next]_vars
  PROVE  Inv'
  <1>1. CASE UNCHANGED tables
    BY <1>1, StutterInv
  <1>2. ASSUME NEW c \in Ctls,
               \/ CloseProxy(c) \/ ManagerReturns(c) \/ StopNext(c)
        PROVE  Inv'
    <2>1. UNCHANGED <<declared, used, natholes, table, groups, pxyTable, mine, stray, displaced>>
      BY <1>2 DEF CloseProxy, ManagerReturns, StopNext, resources, history
    <2>2. CASE CloseProxy(c)
      <3>1. PICK m \in mine[c] :
              /\ portsUsed' = [portsUsed EXCEPT ![c] =
                                 IF Counts THEN @ - UsedPortsNum(m.conf) ELSE @]
              /\ proc' = [proc EXCEPT ![c] = [Idle EXCEPT !.at = "close", !.id = m.id,
                                                !.conf = m.conf, !.held = m.held]]
        BY <2>2 DEF CloseProxy
      <3>2. UsedPortsNum(m.conf) \in Int
        BY PortsNum
      <3>3. portsUsed' \in [Ctls -> Int]
        BY <3>1, <3>2 DEF Inv, TypeOK
      <3>4. proc[c].at \in Resting
        BY <2>2 DEF CloseProxy, At, Resting
      <3> QED BY <2>1, <3>1, <3>3, <3>4, BeginCloseStep
    <2>3. CASE ManagerReturns(c)
      <3>1. proc[c].at \in Resting /\ Goto(c, "stop") /\ UNCHANGED portsUsed
        BY <2>3 DEF ManagerReturns, At, Resting
      <3> QED BY <2>1, <3>1, ManagerReturnsStep
    <2>4. CASE StopNext(c)
      <3>1. proc[c].at \in Resting /\ UNCHANGED portsUsed /\ portsUsed' \in [Ctls -> Int]
        BY <2>4 DEF StopNext, At, Resting, Inv, TypeOK
      <3>2. CASE mine[c] = {}
        <4>1. Goto(c, "ended")
          BY <2>4, <3>2 DEF StopNext
        <4> QED BY <2>1, <3>1, <4>1, ManagerReturnsStep
      <3>3. CASE mine[c] # {}
        <4>1. PICK m \in mine[c] :
                proc' = [proc EXCEPT ![c] = [Idle EXCEPT !.at = "stopClose", !.id = m.id,
                                               !.conf = m.conf, !.held = m.held]]
          BY <2>4, <3>3 DEF StopNext
        <4> QED BY <2>1, <3>1, <4>1, BeginCloseStep
      <3> QED BY <3>2, <3>3
    <2> QED BY <1>2, <2>2, <2>3, <2>4
  <1>3. ASSUME NEW c \in Ctls, TCPGroupLookUp(c) \/ TCPMuxGroupLookUp(c) \/ HTTPGroupLookUp(c)
        PROVE  Inv'
    BY <1>3, LookUpStep DEF TCPGroupLookUp, TCPMuxGroupLookUp, HTTPGroupLookUp, GroupHows
  <1>4. ASSUME NEW c \in Ctls, NEW k \in proc[c].held,
               \/ CloseOwn(c, k) \/ CloseClient(c, k) \/ UnRegister(c, k)
               \/ TCPCloseListener(c, k) \/ TCPMuxCloseListener(c, k)
        PROVE  Inv'
    BY <1>4, CloseOwnStep, CloseClientStep, UnRegisterStep, CloseGroupStep
  <1>5. CASE \E c \in Ctls : ControlStep(c)
    BY <1>2, <1>3, <1>4, <1>5, RegisterStep, TakeStep, ListenClientStep, ListenStep, AddNameStep,
       RefusedStep, ClosedStep DEF ControlStep
  <1> QED BY <1>1, <1>5, Stands

-----------------------------------------------------------------------------
(***************************************************************************)
(* Reservations: what each step does to PortsInv.                          *)
(***************************************************************************)
LEMMA AllowedKind ==
  ASSUME NEW conf \in Confs, NEW n \in DOMAIN Wants(conf), NEW r \in Allowed(Wants(conf)[n].res)
  PROVE  /\ conf.kind \in {"tcp", "udp"} => r[1] = conf.kind
         /\ conf.kind \notin {"tcp", "udp"} => ~IsPort(r)
         /\ r = Wants(conf)[n].res \/ Wants(conf)[n].res[2] = "any"
  <1>1. conf.kind = "tcp" => Wants(conf)[n].res = <<"tcp", conf.port, "">>
    <2> SUFFICES ASSUME conf.kind = "tcp"
                 PROVE  Wants(conf)[n].res = <<"tcp", conf.port, "">>
      OBVIOUS
    <2>1. Wants(conf) = RunTCP(conf)
      BY DEF Wants
    <2>2. n \in DOMAIN RunTCP(conf)
      BY <2>1
    <2>3. n = 1
      BY <2>2 DEF RunTCP
    <2>4. RunTCP(conf)[1].res = <<"tcp", conf.port, "">>
      BY DEF RunTCP, Want
    <2> QED BY <2>1, <2>3, <2>4
  <1>2. conf.kind = "udp" => Wants(conf)[n].res = <<"udp", conf.port, "">>
    <2> SUFFICES ASSUME conf.kind = "udp"
                 PROVE  Wants(conf)[n].res = <<"udp", conf.port, "">>
      OBVIOUS
    <2>1. Wants(conf) = RunUDP(conf)
      BY DEF Wants
    <2>2. n \in DOMAIN RunUDP(conf)
      BY <2>1
    <2>3. n = 1
      BY <2>2 DEF RunUDP
    <2>4. RunUDP(conf)[1].res = <<"udp", conf.port, "">>
      BY DEF RunUDP, Want
    <2> QED BY <2>1, <2>3, <2>4
  <1>3. conf.kind \notin {"tcp", "udp"} => ~IsPort(r)
    BY WantRes, AllowedIsWanted DEF IsPort
  <1>4. r = Wants(conf)[n].res \/ Wants(conf)[n].res[2] = "any"
    BY DEF Allowed
  <1>5. ASSUME conf.kind \in {"tcp", "udp"}
        PROVE  r[1] = conf.kind
    <2> DEFINE w == Wants(conf)[n].res
    <2>1. w = <<conf.kind, conf.port, "">>
      BY <1>1, <1>2, <1>5
    <2>2. r = w \/ r \in {<<w[1], p, "">> : p \in Ports}
      BY DEF Allowed
    <2> HIDE DEF w
    <2>3. w[1] = conf.kind
      BY <2>1
    <2>4. CASE r = w
      BY <2>3, <2>4
    <2>5. CASE r \in {<<w[1], p, "">> : p \in Ports}
      <3>1. PICK p \in Ports : r = <<w[1], p, "">>
        BY <2>5
      <3> QED BY <2>3, <3>1
    <2> QED BY <2>2, <2>4, <2>5
  <1> QED BY <1>3, <1>4, <1>5

\* The steps that leave the ports alone, whatever becomes of groups without one.
LEMMA PortsKept ==
  ASSUME Inv, PortsInv, UNCHANGED <<ports, unlistened>>, stray \subseteq stray',
         \A r \in Resources : IsPort(r) => used'[r] = used[r],
         \A o \in Objs : groups'[o].members # {} =>
           \/ ~IsPort(groups'[o].res) /\ groups'[o].real = None
           \/ /\ groups[o].members # {} /\ groups'[o].real = groups[o].real
              /\ groups'[o].res = groups[o].res /\ groups'[o].want = groups[o].want,
         \A o \in Objs : groups[o].members # {} /\ groups[o].real # None =>
           o \in stray' \/ (groups'[o].members # {} /\ groups'[o].real = groups[o].real)
  PROVE  PortsInv'
  <1>1. ReservedOK'
    BY DEF PortsInv, ReservedOK, ports
  <1>2. OwnReserved'
    <2> SUFFICES ASSUME NEW r \in Resources
                 PROVE  /\ IsPort(r) /\ used'[r] \in Ids => reserved[r] = used'[r] \/ r \in freedLate
                        /\ reserved[r] \in Ids => used'[r] = reserved[r]
      BY DEF OwnReserved, ports
    <2>1. reserved[r] \in Ids => IsPort(r)
      BY ResourcesAssumption DEF PortsInv, ReservedOK
    <2> QED BY <2>1 DEF PortsInv, OwnReserved
  <1>3. \A o \in Objs : groups'[o].members # {} => RealPort(o)'
    <2> SUFFICES ASSUME NEW o \in Objs, groups'[o].members # {}
                 PROVE  RealPort(o)'
      OBVIOUS
    <2>1. CASE ~IsPort(groups'[o].res) /\ groups'[o].real = None
      BY <2>1 DEF RealPort
    <2>2. CASE /\ groups[o].members # {} /\ groups'[o].real = groups[o].real
               /\ groups'[o].res = groups[o].res /\ groups'[o].want = groups[o].want
      <3>1. RealPort(o)
        BY <2>2 DEF PortsInv, GroupsReserved
      <3> QED BY <2>2, <3>1 DEF RealPort, AskedAny, ports
    <2> QED BY <2>1, <2>2
  <1>4. ASSUME NEW r \in Resources \ unlistened, NEW o \in Objs, reserved[r] = <<"group", o>>
        PROVE  o \in stray' \/ (groups'[o].members # {} /\ groups'[o].real = r)
    <2>1. o \in stray \/ (groups[o].members # {} /\ groups[o].real = r)
      BY <1>4 DEF PortsInv, GroupsReserved
    <2>2. r # None
      BY ResourcesAssumption
    <2> QED BY <2>1, <2>2
  <1>5. GroupsReserved'
    BY <1>3, <1>4 DEF PortsInv, GroupsReserved, ports
  <1> QED BY <1>1, <1>2, <1>5 DEF PortsInv

\* Manager.Acquire and net.Listen for a proxy of its own.
LEMMA AcquirePorts ==
  ASSUME Inv, PortsInv, NEW c \in Ctls, AcquirePort(c)
  PROVE  PortsInv'
  <1>1. /\ At(c, "run") /\ More(c) /\ Next1(c).how = "port"
        /\ UNCHANGED <<late, freedLate, unlistened, stray, groups>>
    BY DEF AcquirePort, Asks, history
  <1>2. proc[c].conf \in Confs /\ proc[c].id \in Ids
    BY <1>1, Me DEF Inv, At, Starting
  <1> DEFINE n == proc[c].next
             me == proc[c].id
  <1>3. n \in DOMAIN Wants(proc[c].conf) /\ Next1(c) = Wants(proc[c].conf)[n]
    BY <1>1 DEF More, Next1
  <1>4. proc[c].conf.kind \in {"tcp", "udp"}
    <2>1. proc[c].conf.kind \in Kinds
      BY <1>2, ResourcesAssumption
    <2> QED BY <1>1, <1>2, <1>3, <2>1, WantHow DEF Kinds
  <1>5. CASE UNCHANGED <<used, reserved>>
    BY <1>1, <1>5, PortsKept DEF ports, PortsInv, GroupsReserved, RealPort
  <1>6. ASSUME NEW r \in Allowed(Next1(c).res), Acquirable(r),
               reserved' = [reserved EXCEPT ![r] = me], used' = [used EXCEPT ![r] = me]
        PROVE  PortsInv'
    <2>1. r \in Resources /\ IsPort(r)
      BY <1>2, <1>3, <1>4, WantIsKnown, AllowedKind DEF IsPort
    <2>2. me # None /\ me \notin {"group"} \X Objs /\ None \notin {"group"} \X Objs
      BY <1>2, Owners, ResourcesAssumption
    <2>3. reserved[r] = None /\ used[r] = None
      BY <1>6 DEF Acquirable
    <2>4. /\ reserved' \in [Resources -> Ids \union ({"group"} \X Objs) \union {None}]
          /\ reserved'[r] = me /\ \A x \in Resources \ {r} : reserved'[x] = reserved[x]
      BY <1>2, <1>6, <2>1 DEF PortsInv, ReservedOK
    <2>5. used'[r] = me /\ \A x \in Resources \ {r} : used'[x] = used[x]
      BY <1>6, <2>1 DEF Inv, TypeOK
    <2>6. ReservedOK'
      BY <1>1, <2>1, <2>4 DEF PortsInv, ReservedOK
    <2>7. OwnReserved'
      BY <1>1, <2>4, <2>5 DEF PortsInv, OwnReserved
    <2>8. \A o \in Objs : <<"group", o>> # None /\ <<"group", o>> # me
      BY <2>2
    <2>9. \A x \in Resources, o \in Objs :
            reserved'[x] = <<"group", o>> <=> reserved[x] = <<"group", o>>
      BY <2>3, <2>4, <2>8
    <2>10. \A o \in Objs : groups'[o].members # {} => RealPort(o)'
      <3> SUFFICES ASSUME NEW o \in Objs, groups[o].members # {}
                   PROVE  RealPort(o)'
        BY <1>1
      <3>1. RealPort(o)
        BY DEF PortsInv, GroupsReserved
      <3> QED BY <1>1, <2>9, <3>1 DEF RealPort, AskedAny
    <2>11. ASSUME NEW x \in unlistened'
           PROVE  x \in Resources /\ x[1] = "tcp" /\ reserved'[x] \in {"group"} \X Objs
      <3>1. x \in Resources /\ x[1] = "tcp" /\ reserved[x] \in {"group"} \X Objs
        BY <1>1 DEF PortsInv, GroupsReserved
      <3> QED BY <2>2, <2>3, <2>4, <3>1
    <2>12. GroupsReserved'
      BY <1>1, <2>9, <2>10, <2>11 DEF PortsInv, GroupsReserved
    <2> QED BY <2>6, <2>7, <2>12 DEF PortsInv
  <1> QED BY <1>5, <1>6 DEF AcquirePort

\* Release of a port by its proxy, whether or not it still has it reserved.
LEMMA CloseOwnPorts ==
  ASSUME Inv, PortsInv, NEW c \in Ctls, NEW k \in proc[c].held, CloseOwn(c, k)
  PROVE  PortsInv'
  <1>1. /\ Closing(c, k) /\ k.how = "own" /\ used' = [used EXCEPT ![k.res] = None]
        /\ reserved' = IF IsPort(k.res) THEN [reserved EXCEPT ![k.res] = None] ELSE reserved
        /\ late' = IF k.res[1] = "udp" THEN late \union {k.res} ELSE late
        /\ freedLate' = freedLate \ {k.res}
        /\ UNCHANGED <<groups, stray, unlistened>>
    BY DEF CloseOwn, history
  <1>2. k \in HeldBy(proc[c].id) /\ proc[c].id \in Ids /\ k \in Holds
    BY <1>1, ClosingIsOne, HeldTyped DEF Inv
  <1> DEFINE r == k.res
  <1>3. r \in Resources /\ used[r] = proc[c].id /\ used[r] \in Ids
    BY <1>1, <1>2 DEF Holds, Inv, OwnInv
  <1>4. None \notin Ids /\ None \notin {"group"} \X Objs
        /\ \A id \in Ids : id \notin {"group"} \X Objs
    BY Owners, ResourcesAssumption
  <1>5. used'[r] = None /\ \A x \in Resources \ {r} : used'[x] = used[x]
    BY <1>1, <1>3 DEF Inv, TypeOK
  <1>6. /\ reserved' \in [Resources -> Ids \union ({"group"} \X Objs) \union {None}]
        /\ reserved'[r] = None /\ \A x \in Resources \ {r} : reserved'[x] = reserved[x]
    BY <1>1, <1>3 DEF PortsInv, ReservedOK
  <1>7. reserved[r] \notin {"group"} \X Objs \/ r[1] = "udp"
    <2>1. reserved[r] # None => IsPort(r)
      BY <1>3 DEF PortsInv, ReservedOK
    <2>2. reserved[r] = used[r] \/ r[1] = "udp" \/ reserved[r] = None
      BY <1>3, <2>1 DEF PortsInv, OwnReserved, ReservedOK
    <2> QED BY <1>3, <1>4, <2>2
  <1>8. ReservedOK'
    BY <1>1, <1>6 DEF PortsInv, ReservedOK
  <1>9. OwnReserved'
    BY <1>1, <1>4, <1>5, <1>6 DEF PortsInv, OwnReserved
  <1>10. ASSUME NEW o \in Objs, groups'[o].members # {}
         PROVE  RealPort(o)'
    <2>1. RealPort(o)
      BY <1>1, <1>10 DEF PortsInv, GroupsReserved
    <2>2. groups[o].real # None => groups[o].real # r
      BY <1>7, <2>1 DEF RealPort
    <2> QED BY <1>1, <1>6, <2>1, <2>2 DEF RealPort, AskedAny
  <1>11. ASSUME NEW x \in Resources \ unlistened', NEW o \in Objs, reserved'[x] = <<"group", o>>
         PROVE  o \in stray' \/ (groups'[o].members # {} /\ groups'[o].real = x)
    <2>1. reserved[x] = <<"group", o>>
      BY <1>4, <1>6, <1>11
    <2> QED BY <1>1, <2>1 DEF PortsInv, GroupsReserved
  <1>12. ASSUME NEW x \in unlistened'
         PROVE  x \in Resources /\ x[1] = "tcp" /\ reserved'[x] \in {"group"} \X Objs
    <2>1. x \in Resources /\ x[1] = "tcp" /\ reserved[x] \in {"group"} \X Objs
      BY <1>1 DEF PortsInv, GroupsReserved
    <2>2. x # r
      BY <1>7, <2>1
    <2> QED BY <1>6, <2>1, <2>2
  <1>13. GroupsReserved'
    BY <1>10, <1>11, <1>12 DEF GroupsReserved
  <1> QED BY <1>8, <1>9, <1>13 DEF PortsInv

\* The Release that comes late takes a port from whoever has it now.
LEMMA LateReleasePorts ==
  ASSUME Inv, PortsInv, NEW r \in late, LateRelease(r)
  PROVE  PortsInv'
  <1>1. /\ reserved' = [reserved EXCEPT ![r] = None] /\ late' \subseteq late
        /\ freedLate' = IF used[r] = None THEN freedLate ELSE freedLate \union {r}
        /\ UNCHANGED <<used, groups, stray, unlistened>>
    BY DEF LateRelease, history
  <1>2. r[1] = "udp"
    BY DEF PortsInv, ReservedOK
  <1>3. None \notin Ids /\ None \notin {"group"} \X Objs
    BY ResourcesAssumption
  <1>4. /\ reserved' \in [Resources -> Ids \union ({"group"} \X Objs) \union {None}]
        /\ \A x \in Resources : reserved'[x] = IF x = r THEN None ELSE reserved[x]
    BY <1>1 DEF PortsInv, ReservedOK
  <1>5. ReservedOK'
    BY <1>1, <1>2, <1>4 DEF PortsInv, ReservedOK
  <1>6. OwnReserved'
    BY <1>1, <1>3, <1>4 DEF PortsInv, OwnReserved
  <1>7. ASSUME NEW o \in Objs, groups'[o].members # {}
        PROVE  RealPort(o)'
    <2>1. RealPort(o)
      BY <1>1, <1>7 DEF PortsInv, GroupsReserved
    <2> QED BY <1>1, <1>2, <1>4, <2>1 DEF RealPort, AskedAny
  <1>8. ASSUME NEW x \in Resources \ unlistened', NEW o \in Objs, reserved'[x] = <<"group", o>>
        PROVE  o \in stray' \/ (groups'[o].members # {} /\ groups'[o].real = x)
    <2>1. reserved[x] = <<"group", o>>
      BY <1>3, <1>4, <1>8
    <2> QED BY <1>1, <2>1 DEF PortsInv, GroupsReserved
  <1>9. ASSUME NEW x \in unlistened'
        PROVE  x \in Resources /\ x[1] = "tcp" /\ reserved'[x] \in {"group"} \X Objs
    <2>1. x \in Resources /\ x[1] = "tcp" /\ reserved[x] \in {"group"} \X Objs
      BY <1>1 DEF PortsInv, GroupsReserved
    <2> QED BY <1>2, <1>4, <2>1
  <1>10. GroupsReserved'
    BY <1>7, <1>8, <1>9 DEF GroupsReserved
  <1> QED BY <1>5, <1>6, <1>10 DEF PortsInv

\* What JoinGroup makes of the object.
LEMMA JoinedGroup ==
  ASSUME Inv, NEW c \in Ctls, At(c, "join"), NEW res, NEW real, JoinGroup(c, res, real)
  PROVE  LET o == proc[c].found
         IN /\ \A p \in Objs \ {o} : groups'[p] = groups[p]
            /\ groups'[o].members # {} /\ groups'[o].want = Next1(c).res
            /\ groups'[o].res = res /\ groups'[o].real = real
            /\ stray \subseteq stray'
  <1> DEFINE o == proc[c].found
             g == [groups[o] EXCEPT !.members = @ \union {<<proc[c].id, proc[c].next>>},
                     !.key = proc[c].conf.groupKey, !.want = Next1(c).res, !.res = res,
                     !.real = real]
  <1>1. o \in Objs
    BY Joining
  <1>2. groups \in [Objs -> Groups] /\ groups[o] \in Groups
    BY <1>1 DEF Inv, TypeOK
  <1>3. groups' = [groups EXCEPT ![o] = g] /\ stray \subseteq stray'
    BY <1>1, <1>2 DEF JoinGroup
  <1>4. /\ g.members # {} /\ g.want = Next1(c).res /\ g.res = res /\ g.real = real
    BY <1>2 DEF Groups
  <1> HIDE DEF g
  <1> QED BY <1>1, <1>2, <1>3, <1>4

\* A member of a group without a port joins, or one more of a TCP group, or none does.
LEMMA JoinPorts ==
  ASSUME Inv, PortsInv, NEW c \in Ctls, At(c, "join"), NEW res, NEW real,
         JoinGroup(c, res, real), UNCHANGED <<ports, unlistened>>,
         \A r \in Resources : IsPort(r) => used'[r] = used[r],
         \/ ~IsPort(res) /\ real = None
            /\ (groups[proc[c].found].members = {} \/ groups[proc[c].found].real = None)
         \/ LET g == groups[proc[c].found]
            IN g.members # {} /\ res = g.res /\ real = g.real /\ SameGroup(c)
  PROVE  PortsInv'
  <1> DEFINE o == proc[c].found
  <1>1. o \in Objs
    BY Joining
  <1>2. /\ \A p \in Objs \ {o} : groups'[p] = groups[p]
        /\ groups'[o].members # {} /\ groups'[o].want = Next1(c).res
        /\ groups'[o].res = res /\ groups'[o].real = real
        /\ stray \subseteq stray'
    BY JoinedGroup
  <1>3. \A p \in Objs : groups'[p].members # {} =>
           \/ ~IsPort(groups'[p].res) /\ groups'[p].real = None
           \/ /\ groups[p].members # {} /\ groups'[p].real = groups[p].real
              /\ groups'[p].res = groups[p].res /\ groups'[p].want = groups[p].want
    BY <1>1, <1>2 DEF SameGroup
  <1>4. \A p \in Objs : groups[p].members # {} /\ groups[p].real # None =>
           p \in stray' \/ (groups'[p].members # {} /\ groups'[p].real = groups[p].real)
    BY <1>1, <1>2
  <1> QED BY <1>2, <1>3, <1>4, PortsKept

\* The first member of a TCP group has a port r reserved and listens on q.
LEMMA ListenPorts ==
  ASSUME Inv, PortsInv, NEW c \in Ctls, At(c, "join"), proc[c].conf.kind = "tcp",
         groups[proc[c].found].members = {},
         NEW r \in Allowed(Next1(c).res), Acquirable(r),
         reserved' = [reserved EXCEPT ![r] = <<"group", proc[c].found>>],
         \/ \E q \in Allowed(Next1(c).res) :
              /\ used[q] = None /\ used' = [used EXCEPT ![q] = <<"group", proc[c].found>>]
              /\ JoinGroup(c, q, r) /\ UNCHANGED unlistened
         \/ unlistened' = unlistened \union {r} /\ UNCHANGED <<used, groups, stray>>,
         UNCHANGED <<late, freedLate>>
  PROVE  PortsInv'
  <1> DEFINE o == proc[c].found
             pair == <<"group", o>>
  <1>1. o \in Objs /\ proc[c].conf \in Confs /\ More(c) /\ Allowed(Next1(c).res) \subseteq Resources
    BY Joining
  <1>2. \A q \in Allowed(Next1(c).res) :
          q \in Resources /\ q[1] = "tcp" /\ IsPort(q)
          /\ (q = Next1(c).res \/ Next1(c).res[2] = "any")
    BY <1>1, AllowedKind DEF More, Next1, IsPort
  <1>3. /\ pair \in {"group"} \X Objs /\ pair # None /\ pair \notin Ids
        /\ None \notin Ids /\ None \notin {"group"} \X Objs /\ r # None
    BY <1>1, <1>2, Owners, ResourcesAssumption
  <1>4. reserved[r] = None /\ used[r] = None
    BY DEF Acquirable
  <1>5. /\ reserved' \in [Resources -> Ids \union ({"group"} \X Objs) \union {None}]
        /\ \A x \in Resources : reserved'[x] = IF x = r THEN pair ELSE reserved[x]
    BY <1>1, <1>3 DEF PortsInv, ReservedOK
  <1>6. \A x \in Resources : used'[x] = used[x] \/ (used[x] = None /\ used'[x] = pair)
    BY <1>1 DEF Inv, TypeOK
  <1>7. ReservedOK'
    BY <1>2, <1>5 DEF PortsInv, ReservedOK
  <1>8. OwnReserved'
    <2> SUFFICES ASSUME NEW x \in Resources
                 PROVE  /\ IsPort(x) /\ used'[x] \in Ids => reserved'[x] = used'[x] \/ x \in freedLate
                        /\ reserved'[x] \in Ids => used'[x] = reserved'[x]
      BY DEF OwnReserved
    <2>1. CASE x = r
      <3>1. used'[r] \notin Ids /\ reserved'[r] = pair
        BY <1>3, <1>4, <1>5, <1>6, <2>1
      <3> QED BY <1>3, <2>1, <3>1
    <2>2. CASE x # r
      <3>1. reserved'[x] = reserved[x]
        BY <1>5, <2>2
      <3>2. used'[x] \in Ids => used[x] = used'[x]
        BY <1>3, <1>6
      <3>3. reserved[x] \in Ids => used'[x] = used[x]
        BY <1>3, <1>6 DEF PortsInv, OwnReserved
      <3> QED BY <3>1, <3>2, <3>3 DEF PortsInv, OwnReserved
    <2> QED BY <2>1, <2>2
  <1> HIDE DEF o, pair
  <1>9. \A x \in unlistened : x # r
    BY <1>3, <1>4 DEF PortsInv, GroupsReserved
  <1>10. ASSUME NEW p \in Objs, groups[p].members # {}
         PROVE  /\ p # o /\ RealPort(p)
                /\ groups[p].real # None => groups[p].real # r /\ groups[p].real \in Resources
    <2>1. p # o /\ RealPort(p)
      BY <1>10 DEF PortsInv, GroupsReserved, o
    <2>2. <<"group", p>> # None
      BY ResourcesAssumption
    <2> QED BY <1>4, <2>1, <2>2 DEF RealPort
  <1>11. CASE unlistened' = unlistened \union {r} /\ UNCHANGED <<used, groups, stray>>
    <2>1. ASSUME NEW p \in Objs, groups'[p].members # {}
          PROVE  RealPort(p)'
      BY <1>5, <1>10, <1>11, <2>1 DEF RealPort, AskedAny
    <2>2. \A x \in Resources \ unlistened', p \in Objs : reserved'[x] = <<"group", p>> =>
            p \in stray' \/ (groups'[p].members # {} /\ groups'[p].real = x)
      BY <1>5, <1>11 DEF PortsInv, GroupsReserved
    <2>3. \A x \in unlistened' :
            x \in Resources /\ x[1] = "tcp" /\ reserved'[x] \in {"group"} \X Objs
      BY <1>1, <1>2, <1>3, <1>5, <1>11 DEF PortsInv, GroupsReserved
    <2>4. GroupsReserved'
      BY <2>1, <2>2, <2>3 DEF GroupsReserved
    <2> QED BY <1>7, <1>8, <2>4 DEF PortsInv
  <1>12. ASSUME NEW q \in Allowed(Next1(c).res), JoinGroup(c, q, r), UNCHANGED unlistened
         PROVE  PortsInv'
    <2>1. /\ \A p \in Objs \ {o} : groups'[p] = groups[p]
          /\ groups'[o].members # {} /\ groups'[o].want = Next1(c).res
          /\ groups'[o].res = q /\ groups'[o].real = r
          /\ stray \subseteq stray'
      BY <1>12, JoinedGroup DEF o
    <2>2. ASSUME NEW p \in Objs, groups'[p].members # {}
          PROVE  RealPort(p)'
      <3>1. CASE p = o
        <4>1. r \in Resources \ unlistened' /\ r[1] = "tcp" /\ reserved'[r] = pair
          BY <1>1, <1>2, <1>5, <1>9, <1>12
        <4>2. r = q \/ Next1(c).res[2] = "any"
          BY <1>2, <1>12
        <4> QED BY <1>2, <1>3, <1>12, <2>1, <3>1, <4>1, <4>2 DEF RealPort, AskedAny, pair
      <3>2. CASE p # o
        <4>1. groups'[p] = groups[p] /\ RealPort(p)
          BY <1>10, <2>1, <2>2, <3>2
        <4>2. groups[p].real # None => reserved'[groups[p].real] = reserved[groups[p].real]
          BY <1>5, <1>10, <2>2, <4>1
        <4> QED BY <1>12, <4>1, <4>2 DEF RealPort, AskedAny
      <3> QED BY <3>1, <3>2
    <2>3. ASSUME NEW x \in Resources \ unlistened', NEW p \in Objs, reserved'[x] = <<"group", p>>
          PROVE  p \in stray' \/ (groups'[p].members # {} /\ groups'[p].real = x)
      <3>1. CASE x = r
        <4>1. p = o
          BY <1>5, <2>3, <3>1 DEF pair
        <4> QED BY <2>1, <3>1, <4>1
      <3>2. CASE x # r
        <4>1. p \in stray \/ (groups[p].members # {} /\ groups[p].real = x)
          BY <1>5, <1>12, <2>3, <3>2 DEF PortsInv, GroupsReserved
        <4> QED BY <1>10, <2>1, <4>1
      <3> QED BY <3>1, <3>2
    <2>4. \A x \in unlistened' :
            x \in Resources /\ x[1] = "tcp" /\ reserved'[x] \in {"group"} \X Objs
      BY <1>3, <1>5, <1>12 DEF PortsInv, GroupsReserved
    <2>5. GroupsReserved'
      BY <2>2, <2>3, <2>4 DEF GroupsReserved
    <2> QED BY <1>7, <1>8, <2>5 DEF PortsInv
  <1> QED BY <1>11, <1>12

\* The look-ups and calls of Run on a group.
LEMMA GroupRunPorts ==
  ASSUME Inv, PortsInv, NEW c \in Ctls,
         \/ TCPGroupLookUp(c) \/ TCPMuxGroupLookUp(c) \/ HTTPGroupLookUp(c)
         \/ TCPGroupListen(c) \/ HTTPConnectListen(c) \/ HTTPGroupRegister(c)
  PROVE  PortsInv'
  <1> DEFINE o == proc[c].found
             g == groups[proc[c].found]
             r == Next1(c).res
  <1>1. ASSUME UNCHANGED <<ports, unlistened, used, groups, stray>>
        PROVE  PortsInv'
    BY <1>1, PortsKept DEF PortsInv, GroupsReserved, RealPort
  <1>2. CASE TCPGroupLookUp(c) \/ TCPMuxGroupLookUp(c) \/ HTTPGroupLookUp(c)
    <2>1. PICK how : LookUpGroup(c, how)
      BY <1>2 DEF TCPGroupLookUp, TCPMuxGroupLookUp, HTTPGroupLookUp
    <2>2. UNCHANGED <<ports, unlistened, used, stray>>
      BY <2>1 DEF LookUpGroup, history
    <2>3. \/ UNCHANGED groups
          \/ (\E q \in Objs : ~Referenced(q)) /\ groups' = [groups EXCEPT ![Fresh] = NewGroup]
      BY <2>1 DEF LookUpGroup
    <2>4. CASE (\E q \in Objs : ~Referenced(q)) /\ groups' = [groups EXCEPT ![Fresh] = NewGroup]
      <3>1. Fresh \in Objs /\ groups[Fresh].members = {}
        <4>1. Fresh \in Objs /\ ~Referenced(Fresh)
          BY <2>4 DEF Fresh
        <4> QED BY <4>1 DEF Referenced
      <3>2. \A p \in Objs : groups'[p] = IF p = Fresh THEN NewGroup ELSE groups[p]
        BY <2>4, <3>1 DEF Inv, TypeOK
      <3>3. NewGroup.members = {}
        BY DEF NewGroup
      <3> HIDE DEF Fresh
      <3> QED BY <2>2, <3>1, <3>2, <3>3, PortsKept
    <2> QED BY <1>1, <2>2, <2>3, <2>4
  <1>3. ASSUME At(c, "join")
        PROVE  /\ o \in Objs /\ proc[c].conf \in Confs /\ r \in Asked
               /\ proc[c].conf.kind \notin {"tcp", "udp"} => Allowed(r) = {r} /\ ~IsPort(r)
    <2>1. o \in Objs /\ proc[c].conf \in Confs /\ r \in Asked /\ More(c)
      BY <1>3, Joining
    <2>2. ASSUME proc[c].conf.kind \notin {"tcp", "udp"}
          PROVE  Allowed(r) = {r} /\ ~IsPort(r)
      <3>1. Allowed(r) = {r}
        BY <2>1, <2>2, AllowedIsWanted DEF More, Next1
      <3>2. r \in Allowed(r)
        BY <3>1
      <3>3. ~IsPort(r)
        BY <2>1, <2>2, <3>2, AllowedKind DEF More, Next1
      <3> QED BY <3>1, <3>3
    <2> QED BY <2>1, <2>2
  <1>4. CASE TCPGroupListen(c)
    <2>1. At(c, "join") /\ proc[c].conf.kind = "tcp" /\ UNCHANGED <<late, freedLate>>
      BY <1>4 DEF TCPGroupListen, Joins
    <2>2. CASE UNCHANGED <<used, reserved, groups, stray, unlistened>>
      BY <1>1, <2>1, <2>2 DEF ports
    <2>3. CASE g.members # {} /\ SameGroup(c) /\ JoinGroup(c, g.res, g.real)
               /\ UNCHANGED <<used, reserved, unlistened>>
      BY <2>1, <2>3, JoinPorts DEF ports
    <2>4. CASE /\ g.members = {}
               /\ \E x \in Allowed(r) :
                    /\ Acquirable(x)
                    /\ reserved' = [reserved EXCEPT ![x] = <<"group", o>>]
                    /\ \/ \E q \in Allowed(r) :
                            /\ used[q] = None
                            /\ used' = [used EXCEPT ![q] = <<"group", o>>]
                            /\ JoinGroup(c, q, x) /\ UNCHANGED unlistened
                       \/ unlistened' = unlistened \union {x} /\ UNCHANGED <<used, groups, stray>>
      BY <2>1, <2>4, ListenPorts
    <2> QED BY <1>4, <2>2, <2>3, <2>4 DEF TCPGroupListen
  <1>5. CASE HTTPConnectListen(c) \/ HTTPGroupRegister(c)
    <2>1. /\ At(c, "join") /\ proc[c].conf.kind \notin {"tcp", "udp"}
          /\ UNCHANGED <<ports, unlistened>>
      BY <1>5 DEF HTTPConnectListen, HTTPGroupRegister, Joins
    <2>2. o \in Objs /\ r \in Asked /\ Allowed(r) = {r} /\ ~IsPort(r)
      BY <1>3, <2>1
    <2>3. \/ UNCHANGED <<used, groups, stray>>
          \/ g.members = {} /\ used' = [used EXCEPT ![r] = <<"group", o>>] /\ JoinGroup(c, r, None)
          \/ g.members # {} /\ SameGroup(c) /\ UNCHANGED used /\ JoinGroup(c, r, None)
      BY <1>5 DEF HTTPConnectListen, HTTPGroupRegister
    <2>4. CASE UNCHANGED <<used, groups, stray>>
      BY <1>1, <2>1, <2>4
    <2>5. CASE g.members = {} /\ used' = [used EXCEPT ![r] = <<"group", o>>] /\ JoinGroup(c, r, None)
      <3>1. \A x \in Resources : IsPort(x) => used'[x] = used[x]
        BY <2>2, <2>5 DEF Inv, TypeOK
      <3> QED BY <2>1, <2>2, <2>5, <3>1, JoinPorts
    <2>6. CASE g.members # {} /\ SameGroup(c) /\ UNCHANGED used /\ JoinGroup(c, r, None)
      <3>1. g.res = r
        BY <2>2, <2>6 DEF SameGroup, Inv, GroupInv, MembersOwn
      <3>2. g.real = None
        BY <2>2, <2>6, <3>1 DEF PortsInv, GroupsReserved, RealPort
      <3> QED BY <2>1, <2>2, <2>6, <3>2, JoinPorts
    <2> QED BY <2>3, <2>4, <2>5, <2>6
  <1> QED BY <1>2, <1>4, <1>5

\* The last listener of a TCP group closes: the socket and the reservation go.
LEMMA LastClosesPorts ==
  ASSUME Inv, PortsInv, NEW o \in Objs, groups[o].members # {}, groups[o].real # None,
         groups' = [groups EXCEPT ![o].members = {}, ![o].closed = TRUE],
         used' = [used EXCEPT ![groups[o].res] = None],
         reserved' = [reserved EXCEPT ![groups[o].real] = None],
         UNCHANGED <<late, freedLate, stray, unlistened>>
  PROVE  PortsInv'
  <1> DEFINE r == groups[o].real
             q == groups[o].res
             pair == <<"group", o>>
  <1>1. /\ r \in Resources \ unlistened /\ r[1] = "tcp" /\ reserved[r] = pair
        /\ q \in Resources /\ used[q] = pair
    BY DEF PortsInv, GroupsReserved, RealPort, Inv, GroupInv, MembersOwn
  <1>2. pair \notin Ids /\ None \notin Ids /\ None \notin {"group"} \X Objs
    BY Owners, ResourcesAssumption
  <1>3. /\ reserved' \in [Resources -> Ids \union ({"group"} \X Objs) \union {None}]
        /\ \A x \in Resources : reserved'[x] = IF x = r THEN None ELSE reserved[x]
    BY <1>1 DEF PortsInv, ReservedOK
  <1>4. \A x \in Resources : used'[x] = IF x = q THEN None ELSE used[x]
    BY <1>1 DEF Inv, TypeOK
  <1>5. groups'[o].members = {} /\ \A p \in Objs \ {o} : groups'[p] = groups[p]
    <2> DEFINE g == [groups[o] EXCEPT !.members = {}, !.closed = TRUE]
    <2>1. groups \in [Objs -> Groups] /\ groups[o] \in Groups
      BY DEF Inv, TypeOK
    <2>2. groups' = [groups EXCEPT ![o] = g] /\ g.members = {}
      BY <2>1 DEF Groups
    <2> HIDE DEF g
    <2> QED BY <2>1, <2>2
  <1>6. ReservedOK'
    BY <1>3 DEF PortsInv, ReservedOK
  <1> HIDE DEF r, q, pair
  <1>7. OwnReserved'
    <2> SUFFICES ASSUME NEW x \in Resources
                 PROVE  /\ IsPort(x) /\ used'[x] \in Ids => reserved'[x] = used'[x] \/ x \in freedLate
                        /\ reserved'[x] \in Ids => used'[x] = reserved'[x]
      BY DEF OwnReserved
    <2>1. /\ IsPort(x) /\ used[x] \in Ids => reserved[x] = used[x] \/ x \in freedLate
          /\ reserved[x] \in Ids => used[x] = reserved[x]
      BY DEF PortsInv, OwnReserved
    <2>2. used'[x] \in Ids => used'[x] = used[x]
      BY <1>2, <1>4
    <2>3. reserved'[x] \in Ids => reserved'[x] = reserved[x] /\ x # q
      BY <1>1, <1>2, <1>3, <2>1
    <2>4. reserved[x] \in Ids => x # r
      BY <1>1, <1>2
    <2>5. reserved[x] \in Ids => reserved'[x] = reserved[x]
      BY <1>3, <2>4
    <2>6. x # q => used'[x] = used[x]
      BY <1>4
    <2> QED BY <2>1, <2>2, <2>3, <2>5, <2>6
  <1>8. ASSUME NEW p \in Objs, groups'[p].members # {}
        PROVE  RealPort(p)'
    <2>1. p # o /\ groups'[p] = groups[p]
      BY <1>5, <1>8
    <2>2. RealPort(p)
      BY <1>8, <2>1 DEF PortsInv, GroupsReserved
    <2>3. <<"group", p>> # pair
      BY <2>1 DEF pair
    <2>4. groups[p].real # None =>
            groups[p].real # r /\ reserved'[groups[p].real] = reserved[groups[p].real]
      BY <1>1, <1>3, <2>2, <2>3 DEF RealPort
    <2> QED BY <2>1, <2>2, <2>4 DEF RealPort, AskedAny
  <1>9. ASSUME NEW x \in Resources \ unlistened', NEW p \in Objs, reserved'[x] = <<"group", p>>
        PROVE  p \in stray' \/ (groups'[p].members # {} /\ groups'[p].real = x)
    <2>1. x # r /\ reserved[x] = <<"group", p>>
      <3>1. <<"group", p>> # None
        BY ResourcesAssumption
      <3> QED BY <1>3, <1>9, <3>1
    <2>2. p \in stray \/ (groups[p].members # {} /\ groups[p].real = x)
      BY <2>1 DEF PortsInv, GroupsReserved
    <2> QED BY <1>5, <2>1, <2>2 DEF r
  <1>10. ASSUME NEW x \in unlistened'
         PROVE  x \in Resources /\ x[1] = "tcp" /\ reserved'[x] \in {"group"} \X Objs
    BY <1>1, <1>3 DEF PortsInv, GroupsReserved
  <1>11. GroupsReserved'
    BY <1>8, <1>9, <1>10 DEF GroupsReserved
  <1> QED BY <1>6, <1>7, <1>11 DEF PortsInv

\* A member of a group leaves it.
LEMMA LeaveGroupPorts ==
  ASSUME Inv, PortsInv, NEW c \in Ctls, NEW k \in proc[c].held,
         TCPCloseListener(c, k) \/ TCPMuxCloseListener(c, k) \/ UnRegister(c, k)
  PROVE  PortsInv'
  <1> DEFINE me == proc[c].id
  <1>1. Closing(c, k) /\ k.how \in GroupHows /\ UNCHANGED <<late, freedLate, unlistened>>
    BY DEF TCPCloseListener, TCPMuxCloseListener, CloseGroupListener, UnRegister, GroupHows, ports,
           history
  <1>2. me \in Ids /\ k \in HeldBy(me)
    BY <1>1, ClosingIsOne
  <1>3. /\ k.obj \in Objs /\ k.index \in Indexes /\ groups[k.obj].members # {}
        /\ k.how = "httpGroup" => k.index[1] = "http"
    BY <1>1, <1>2, GroupHolds
  \* The object o has the members left, and nothing else of it changes.
  <1>4. ASSUME NEW o \in Objs, NEW left, left \subseteq groups[o].members, Loses(o, left),
               UNCHANGED <<ports, unlistened>>, stray \subseteq stray',
               \A x \in Resources : IsPort(x) => used'[x] = used[x],
               left = {} /\ groups[o].members # {} => groups[o].real = None \/ o \in stray'
        PROVE  PortsInv'
    <2>1. groups \in [Objs -> Groups] /\ groups[o] \in Groups
      BY DEF Inv, TypeOK
    <2> DEFINE g == [groups[o] EXCEPT !.members = left]
    <2>2. /\ groups' = [groups EXCEPT ![o] = g] /\ g.members = left /\ g.real = groups[o].real
          /\ g.res = groups[o].res /\ g.want = groups[o].want
      BY <1>4, <2>1 DEF Groups, Loses
    <2> HIDE DEF g
    <2>3. groups'[o] = g /\ \A p \in Objs \ {o} : groups'[p] = groups[p]
      BY <2>1, <2>2
    <2>4. \A p \in Objs : /\ groups'[p].members \subseteq groups[p].members
                          /\ groups'[p].real = groups[p].real
                          /\ groups'[p].res = groups[p].res /\ groups'[p].want = groups[p].want
      BY <1>4, <2>2, <2>3
    <2>5. \A p \in Objs : groups[p].members # {} /\ groups[p].real # None =>
            p \in stray' \/ (groups'[p].members # {} /\ groups'[p].real = groups[p].real)
      BY <1>4, <2>2, <2>3
    <2>6. \A p \in Objs : groups'[p].members # {} =>
            /\ groups[p].members # {} /\ groups'[p].real = groups[p].real
            /\ groups'[p].res = groups[p].res /\ groups'[p].want = groups[p].want
      BY <2>4
    <2> QED BY <1>4, <2>5, <2>6, PortsKept
  <1>5. CASE TCPCloseListener(c, k) \/ TCPMuxCloseListener(c, k)
    <2> DEFINE o == k.obj
               others == groups[k.obj].members \ {<<proc[c].id, k.nr>>}
    <2>1. \/ others # {} /\ Loses(o, others) /\ UNCHANGED <<used, reserved, stray>>
          \/ /\ groups' = [groups EXCEPT ![o].members = {}, ![o].closed = TRUE]
             /\ used' = [used EXCEPT ![groups[o].res] = None]
             /\ reserved' = IF groups[o].real = None THEN reserved
                            ELSE [reserved EXCEPT ![groups[o].real] = None]
             /\ UNCHANGED stray
          \/ /\ groups[o].closed /\ Loses(o, {})
             /\ Panics(c, k) /\ UNCHANGED <<used, reserved>>
      BY <1>5 DEF TCPCloseListener, TCPMuxCloseListener, CloseGroupListener, Others, Loses
    <2>2. CASE others # {} /\ Loses(o, others) /\ UNCHANGED <<used, reserved, stray>>
      BY <1>1, <1>3, <1>4, <2>2 DEF ports
    <2>3. CASE groups[o].closed /\ Loses(o, {}) /\ Panics(c, k) /\ UNCHANGED <<used, reserved>>
      <3>1. stray \subseteq stray' /\ o \in stray
        BY <1>3, <2>3 DEF Panics, Inv, GroupInv, MembersOwn
      <3>2. o \in stray'
        BY <3>1
      <3> QED BY <1>1, <1>3, <1>4, <2>3, <3>1, <3>2 DEF ports
    <2>4. CASE /\ groups' = [groups EXCEPT ![o].members = {}, ![o].closed = TRUE]
               /\ used' = [used EXCEPT ![groups[o].res] = None]
               /\ reserved' = IF groups[o].real = None THEN reserved
                              ELSE [reserved EXCEPT ![groups[o].real] = None]
               /\ UNCHANGED stray
      <3>1. CASE groups[o].real # None
        BY <1>1, <1>3, <2>4, <3>1, LastClosesPorts
      <3>2. CASE groups[o].real = None
        <4>1. ~IsPort(groups[o].res) /\ groups[o].res \in Resources
          BY <1>3, <3>2 DEF PortsInv, GroupsReserved, RealPort, Inv, GroupInv, MembersOwn
        <4>2. \A x \in Resources : IsPort(x) => used'[x] = used[x]
          BY <2>4, <4>1 DEF Inv, TypeOK
        <4>3. groups'[o].members = {} /\ \A p \in Objs \ {o} : groups'[p] = groups[p]
          <5> DEFINE g == [groups[o] EXCEPT !.members = {}, !.closed = TRUE]
          <5>1. groups \in [Objs -> Groups] /\ groups[o] \in Groups
            BY <1>3 DEF Inv, TypeOK
          <5>2. groups' = [groups EXCEPT ![o] = g] /\ g.members = {}
            BY <2>4, <5>1 DEF Groups
          <5> HIDE DEF g
          <5> QED BY <1>3, <5>1, <5>2
        <4>4. UNCHANGED <<ports, unlistened, stray>>
          BY <1>1, <2>4, <3>2 DEF ports
        <4>5. \A p \in Objs : groups'[p].members # {} => p # o /\ groups'[p] = groups[p]
          BY <4>3
        <4>6. \A p \in Objs : groups[p].members # {} /\ groups[p].real # None =>
                groups'[p] = groups[p]
          BY <3>2, <4>3
        <4> QED BY <4>2, <4>4, <4>5, <4>6, PortsKept
      <3> QED BY <3>1, <3>2
    <2> QED BY <2>1, <2>2, <2>3, <2>4
  <1>6. CASE UnRegister(c, k)
    <2> DEFINE o == table[k.index]
               left == groups[table[k.index]].members \ Named(table[k.index], proc[c].id[2])
    <2>1. k.index[1] = "http" /\ UNCHANGED <<ports, unlistened, stray>>
      BY <1>3, <1>6 DEF UnRegister, history
    <2>2. o # None => o \in Objs
      BY <1>3 DEF Inv, TypeOK
    <2>3. \/ UNCHANGED <<used, groups>>
          \/ o # None /\ left # {} /\ Loses(o, left) /\ UNCHANGED used
          \/ /\ o # None /\ left = {} /\ Loses(o, {})
             /\ used' = IF groups[o].res = None THEN used ELSE [used EXCEPT ![groups[o].res] = None]
      BY <1>6 DEF UnRegister, Loses
    <2>4. CASE UNCHANGED <<used, groups>>
      BY <2>1, <2>4, PortsKept DEF PortsInv, GroupsReserved, RealPort
    <2>5. CASE o # None /\ left # {} /\ Loses(o, left) /\ UNCHANGED used
      BY <1>4, <2>1, <2>2, <2>5
    <2>6. CASE /\ o # None /\ left = {} /\ Loses(o, {})
               /\ used' = IF groups[o].res = None THEN used ELSE [used EXCEPT ![groups[o].res] = None]
      <3>1. groups[o].res # None => ~IsPort(groups[o].res) /\ groups[o].members # {}
        <4>1. /\ groups[o].members = {} => groups[o].res = None
              /\ groups[o].members # {} => groups[o].res = <<"http", k.index[3], k.index[4]>>
          BY <1>3, <2>1, <2>6 DEF Inv, GroupInv, TableInv
        <4> QED BY <4>1 DEF IsPort
      <3>2. groups[o].members # {} => groups[o].real = None
        <4>1. groups[o].members # {} => groups[o].res # None
          BY <2>2, <2>6, ResourcesAssumption DEF Inv, GroupInv, MembersOwn
        <4> QED BY <2>2, <2>6, <3>1, <4>1 DEF PortsInv, GroupsReserved, RealPort
      <3>3. \A x \in Resources : IsPort(x) => used'[x] = used[x]
        BY <2>6, <3>1 DEF Inv, TypeOK
      <3> QED BY <1>4, <2>1, <2>2, <2>6, <3>2, <3>3
    <2> QED BY <2>3, <2>4, <2>5, <2>6
  <1> QED BY <1>5, <1>6

LEMMA StepPorts ==
  ASSUME Inv, PortsInv, [Next]_vars
  PROVE  PortsInv'
  <1>1. ASSUME UNCHANGED <<ports, unlistened, groups>>, stray \subseteq stray',
               \A r \in Resources : IsPort(r) => used'[r] = used[r]
        PROVE  PortsInv'
    BY <1>1, PortsKept DEF PortsInv, GroupsReserved, RealPort
  <1>2. CASE UNCHANGED vars
    BY <1>1, <1>2 DEF vars, ports
  <1>3. ASSUME NEW c \in Ctls, AddRoute(c) \/ SecretListen(c)
        PROVE  PortsInv'
    <2>1. /\ At(c, "run") /\ More(c) /\ Next1(c).how \in {"route", "secret"}
          /\ UNCHANGED <<ports, unlistened, groups, stray>>
          /\ used' = used \/ used' = [used EXCEPT ![Next1(c).res] = proc[c].id]
      BY <1>3 DEF AddRoute, SecretListen, Asks, history
    <2>2. proc[c].conf \in Confs
      BY <2>1, Me DEF Inv, At, Starting
    <2>3. proc[c].conf.kind \notin {"tcp", "udp"}
      BY <2>1, <2>2, WantHow DEF More, Next1
    <2>4. ~IsPort(Next1(c).res)
      <3>1. Next1(c).res \in Allowed(Next1(c).res)
        BY <2>1, <2>2, <2>3, AllowedIsWanted DEF More, Next1
      <3> QED BY <2>1, <2>2, <2>3, <3>1, AllowedKind DEF More, Next1
    <2> QED BY <1>1, <2>1, <2>4 DEF Inv, TypeOK
  <1>4. ASSUME NEW c \in Ctls,
               \/ Register(c) \/ ListenClient(c) \/ AddName(c) \/ Refused(c)
               \/ (\E k \in proc[c].held : CloseClient(c, k))
               \/ CloseProxy(c) \/ Closed(c) \/ ManagerReturns(c) \/ StopNext(c)
        PROVE  PortsInv'
    <2>1. UNCHANGED <<ports, unlistened, groups, stray, used>>
      BY <1>4 DEF Register, ListenClient, AddName, Refused, CloseClient, CloseProxy, Closed,
                  ManagerReturns, StopNext, resources, history
    <2> QED BY <1>1, <2>1
  <1>5. ASSUME NEW c \in Ctls, ControlStep(c)
        PROVE  PortsInv'
    BY <1>3, <1>4, <1>5, AcquirePorts, GroupRunPorts, CloseOwnPorts, LeaveGroupPorts
       DEF ControlStep
  <1> QED BY <1>2, <1>5, LateReleasePorts DEF Next

LEMMA InitPorts == Init => PortsInv
  <1> SUFFICES ASSUME Init
               PROVE  PortsInv
    OBVIOUS
  <1>1. /\ \A r \in Resources : reserved[r] = None /\ used[r] = None
        /\ late = {} /\ freedLate = {} /\ unlistened = {}
        /\ reserved \in [Resources -> {None}]
        /\ \A o \in Objs : groups[o].members = {}
    BY DEF Init, NewGroup
  <1>2. None \notin Ids /\ None \notin {"group"} \X Objs
    BY ResourcesAssumption
  <1> QED BY <1>1, <1>2 DEF PortsInv, ReservedOK, OwnReserved, GroupsReserved

(***************************************************************************)
(* Every variable keeps its type, and the parts of the invariant hold, for *)
(* whatever the clients declare and however their controls interleave.     *)
(***************************************************************************)
THEOREM ResourcesInvariant == Spec => [](Inv /\ PortsInv)
  BY InitInv, InitPorts, StepInv, StepPorts, PTL DEF Spec

(***************************************************************************)
(* A registered proxy owns its name and is reached through every port,     *)
(* route, secret listener and group it was promised until its close begins *)
(* (server/control.go:482-564, server/proxy), and its port is reserved for *)
(* it.  But for members that joined an object which had left the table     *)
(* (server/group/tcp.go:57), XTCP proxies whose entry was replaced         *)
(* (pkg/nathole/nathole.go:52-68), groups on any port, which do not listen *)
(* on the port they advertise (server/group/tcp.go:100, 104), and the      *)
(* reservation of a UDP port that was released twice (proxy/udp.go:242).   *)
(***************************************************************************)
THEOREM RegisteredAreServed == Spec => []RegisteredIsServed
  <1>1. Inv /\ PortsInv => RegisteredIsServed
    <2> SUFFICES ASSUME Inv, PortsInv, NEW c \in Ctls, NEW m \in mine[c], proc[c].id # m.id
                 PROVE  /\ pxyTable[m.id[2]] = m.id
                        /\ \A k \in m.held :
                             CASE k.how = "own" ->
                                    /\ used[k.res] = m.id
                                    /\ IsPort(k.res) => reserved[k.res] = m.id \/ k.res \in freedLate
                               [] k.how = "nathole" -> natholes[m.id[2]] = m.id \/ m.id \in displaced
                               [] OTHER ->
                                    \/ k.obj \in stray
                                    \/ /\ <<m.id, k.nr>> \in groups[k.obj].members
                                       /\ ~groups[k.obj].closed
                                       /\ used[k.res] = <<"group", k.obj>>
                                       /\ table[k.index] = k.obj
                                       /\ IsPort(k.res) =>
                                            /\ reserved[groups[k.obj].real] = <<"group", k.obj>>
                                            /\ groups[k.obj].real = k.res \/ AskedAny(k.obj)
      BY DEF RegisteredIsServed
    <2>1. m.id \in Ids /\ HeldBy(m.id) = m.held
      BY MineHeld DEF Inv
    <2>2. pxyTable[m.id[2]] = m.id
      BY DEF Inv, NamesInv, MineOK
    <2>3. ASSUME NEW k \in m.held, k.how = "own"
          PROVE  /\ used[k.res] = m.id
                 /\ IsPort(k.res) => reserved[k.res] = m.id \/ k.res \in freedLate
      <3>1. k.res \in Resources
        BY <2>1, HeldTyped DEF Inv, Holds
      <3>2. used[k.res] = m.id
        BY <2>1, <2>3 DEF Inv, OwnInv
      <3> QED BY <2>1, <3>1, <3>2 DEF PortsInv, OwnReserved
    <2>4. ASSUME NEW k \in m.held, k.how = "nathole"
          PROVE  natholes[m.id[2]] = m.id \/ m.id \in displaced
      BY <2>1, <2>4 DEF Inv, NatInv
    <2>5. ASSUME NEW k \in m.held, k.how # "own", k.how # "nathole", k.obj \notin stray
          PROVE  /\ <<m.id, k.nr>> \in groups[k.obj].members /\ ~groups[k.obj].closed
                 /\ used[k.res] = <<"group", k.obj>> /\ table[k.index] = k.obj
                 /\ IsPort(k.res) =>
                      /\ reserved[groups[k.obj].real] = <<"group", k.obj>>
                      /\ groups[k.obj].real = k.res \/ AskedAny(k.obj)
      <3>1. k \in Holds /\ k.how \in GroupHows
        <4>1. k \in Holds
          BY <2>1, HeldTyped DEF Inv
        <4> QED BY <2>5, <4>1 DEF Holds
      <3>2. k.obj \in Objs /\ groups[k.obj].members # {} /\ k.index \in Indexes /\ k.obj # None
        BY <2>1, <3>1, GroupHolds
      <3>3. /\ <<m.id, k.nr>> \in groups[k.obj].members /\ groups[k.obj].res = k.res
            /\ table[k.index] = k.obj
        BY <2>1, <2>5, <3>1 DEF Inv, GroupInv, HoldersAreMembers
      <3>4. used[k.res] = <<"group", k.obj>>
        BY <3>2, <3>3 DEF Inv, GroupInv, MembersOwn
      <3>5. ~groups[k.obj].closed
        BY <3>2, <3>3 DEF Inv, GroupInv, TableInv
      <3>6. RealPort(k.obj)
        BY <3>2 DEF PortsInv, GroupsReserved
      <3> QED BY <3>3, <3>4, <3>5, <3>6 DEF RealPort
    <2> QED BY <2>2, <2>3, <2>4, <2>5
  <1> QED BY <1>1, ResourcesInvariant, PTL

(***************************************************************************)
(* What is taken in the tables of ports, routes, secret listeners and      *)
(* NAT-hole clients is held by some proxy, and what the port managers have *)
(* given out is reserved for one: every path of RegisterProxy, CloseProxy  *)
(* and stoper (server/control.go:349-387, 482-564) gives it back, but for  *)
(* the reservation of a port a group could not listen on                   *)
(* (server/group/tcp.go:104) and what a stray object has.                  *)
(***************************************************************************)
THEOREM NothingIsLeaked == Spec => []NothingLeaks
  <1>1. Inv /\ PortsInv => NothingLeaks
    <2> SUFFICES ASSUME Inv, PortsInv
                 PROVE  NothingLeaks
      OBVIOUS
    <2>1. ASSUME NEW o \in Objs, o \notin stray, NEW r \in Resources, used[r] = <<"group", o>>
          PROVE  /\ groups[o].members # {} /\ groups[o].res = r
                 /\ \A l \in groups[o].members :
                      \E k \in HeldBy(l[1]) : k.nr = l[2] /\ k.obj = o /\ k.res = r
      <3>1. groups[o].members # {} /\ groups[o].res = r
        BY <2>1 DEF Inv, GroupInv, OwnersKnow
      <3>2. ASSUME NEW l \in groups[o].members
            PROVE  \E k \in HeldBy(l[1]) : k.nr = l[2] /\ k.obj = o /\ k.res = r
        <4>1. PICK k \in HeldBy(l[1]) : k.how \in GroupHows /\ k.nr = l[2] /\ k.obj = o
          BY <2>1 DEF Inv, GroupInv, MembersHold
        <4>2. l[1] \in Ids
          BY DEF Inv, TypeOK, Groups
        <4>3. k.res = r
          BY <3>1, <4>1, <4>2 DEF Inv, GroupInv, HoldersAreMembers
        <4> QED BY <4>1, <4>3
      <3> QED BY <3>1, <3>2
    <2>2. ASSUME NEW r \in Resources, used[r] \in Ids
          PROVE  \E k \in HeldBy(used[r]) : k.how = "own" /\ k.res = r
      BY <2>2 DEF Inv, OwnInv
    <2>3. None \notin Ids /\ None \notin {"group"} \X Objs
          /\ \A id \in Ids : id \notin {"group"} \X Objs
      BY Owners, ResourcesAssumption
    <2>4. ASSUME NEW h \in {"group"} \X Objs
          PROVE  h[2] \in Objs /\ h = <<"group", h[2]>>
      OBVIOUS
    <2>5. ASSUME NEW r \in Resources
          PROVE  LET h == used[r]
                 IN CASE h = None -> TRUE
                      [] h \in {"group"} \X Objs ->
                           \/ h[2] \in stray
                           \/ groups[h[2]].members # {} /\ groups[h[2]].res = r
                              /\ \A l \in groups[h[2]].members :
                                   \E k \in HeldBy(l[1]) : k.nr = l[2] /\ k.obj = h[2] /\ k.res = r
                      [] h \in Ids -> \E k \in HeldBy(h) : k.how = "own" /\ k.res = r
      <3>1. used[r] \in Ids \union ({"group"} \X Objs) \union {None}
        BY DEF Inv, TypeOK
      <3>2. CASE used[r] = None
        BY <2>3, <3>2
      <3>3. CASE used[r] \in {"group"} \X Objs
        <4> DEFINE o == used[r][2]
        <4>1. o \in Objs /\ used[r] = <<"group", o>>
          BY <2>4, <3>3
        <4> HIDE DEF o
        <4>2. \/ o \in stray
              \/ groups[o].members # {} /\ groups[o].res = r
                 /\ \A l \in groups[o].members :
                      \E k \in HeldBy(l[1]) : k.nr = l[2] /\ k.obj = o /\ k.res = r
          BY <2>1, <4>1
        <4>3. \/ used[r][2] \in stray
              \/ groups[used[r][2]].members # {} /\ groups[used[r][2]].res = r
                 /\ \A l \in groups[used[r][2]].members :
                      \E k \in HeldBy(l[1]) : k.nr = l[2] /\ k.obj = used[r][2] /\ k.res = r
          BY <4>2 DEF o
        <4> QED BY <2>3, <3>3, <4>3
      <3>4. CASE used[r] \in Ids
        BY <2>2, <2>3, <3>4
      <3> QED BY <3>1, <3>2, <3>3, <3>4
    <2>6. ASSUME NEW r \in Resources \ unlistened
          PROVE  LET h == reserved[r]
                 IN CASE h = None -> TRUE
                      [] h \in {"group"} \X Objs ->
                           \/ h[2] \in stray
                           \/ groups[h[2]].members # {} /\ groups[h[2]].real = r
                      [] h \in Ids -> \E k \in HeldBy(h) : k.how = "own" /\ k.res = r
      <3>1. reserved[r] \in Ids \union ({"group"} \X Objs) \union {None}
        BY DEF PortsInv, ReservedOK
      <3>2. CASE reserved[r] = None
        BY <2>3, <3>2
      <3>3. CASE reserved[r] \in {"group"} \X Objs
        BY <2>3, <2>4, <3>3 DEF PortsInv, GroupsReserved
      <3>4. CASE reserved[r] \in Ids
        <4>1. used[r] = reserved[r]
          BY <3>4 DEF PortsInv, OwnReserved
        <4> QED BY <2>2, <2>3, <3>4, <4>1
      <3> QED BY <3>1, <3>2, <3>3, <3>4
    <2>7. \A n \in ConfNames :
            natholes[n] # None => \E k \in HeldBy(natholes[n]) : k.how = "nathole"
      BY DEF Inv, NatInv
    <2> QED BY <2>5, <2>6, <2>7 DEF NothingLeaks
  <1> QED BY <1>1, ResourcesInvariant, PTL
-----------------------------------------------------------------------------
(***************************************************************************)
(* Panics and the count of ports: what a step does to the account of c.    *)
(***************************************************************************)
\* c goes on with the proxy it registers or closes.
Steady(c) ==
  /\ UNCHANGED <<mine, portsUsed>> /\ stray \subseteq stray'
  /\ \A d \in Ctls \ {c} : proc'[d] = proc[d]
  /\ proc'[c].id = proc[c].id /\ proc'[c].conf = proc[c].conf
  /\ \/ proc'[c].at = proc[c].at
     \/ proc'[c].at \in Starting /\ proc[c].at \in Starting

\* Run has the next resource, or looks up the group.
LEMMA MovesOn ==
  ASSUME TypeOK, NEW c \in Ctls,
         \/ \E how, res, obj, index : Advance(c, how, res, obj, index)
         \/ RunFails(c)
         \/ \E o : proc' = [proc EXCEPT ![c].at = "join", ![c].found = o]
  PROVE  /\ \A d \in Ctls \ {c} : proc'[d] = proc[d]
         /\ proc'[c].id = proc[c].id /\ proc'[c].conf = proc[c].conf
         /\ proc'[c].at \in Starting
  <1>1. proc[c] \in Procs /\ proc \in [Ctls -> Procs]
    BY DEF TypeOK
  <1>2. ASSUME NEW how, NEW res, NEW obj, NEW index, Advance(c, how, res, obj, index)
        PROVE  /\ \A d \in Ctls \ {c} : proc'[d] = proc[d]
               /\ proc'[c].id = proc[c].id /\ proc'[c].conf = proc[c].conf
               /\ proc'[c].at \in Starting
    <2> DEFINE q == [proc[c] EXCEPT !.at = "run", !.next = @ + 1, !.found = None,
                       !.held = @ \union {NewHold(c, how, res, obj, index)}]
    <2>1. proc' = [proc EXCEPT ![c] = q]
      BY <1>1, <1>2 DEF Advance, NewHold
    <2>2. q.id = proc[c].id /\ q.conf = proc[c].conf /\ q.at \in Starting
      BY <1>1 DEF Procs, Starting
    <2> HIDE DEF q
    <2> QED BY <1>1, <2>1, <2>2
  <1>3. CASE RunFails(c)
    BY <1>3, FailMoves DEF Starting
  <1>4. ASSUME NEW o, proc' = [proc EXCEPT ![c].at = "join", ![c].found = o]
        PROVE  /\ \A d \in Ctls \ {c} : proc'[d] = proc[d]
               /\ proc'[c].id = proc[c].id /\ proc'[c].conf = proc[c].conf
               /\ proc'[c].at \in Starting
    BY <1>1, <1>4 DEF Procs, Starting
  <1> QED BY <1>2, <1>3, <1>4

LEMMA RunsSteady ==
  ASSUME TypeOK, NEW c \in Ctls,
         \/ AcquirePort(c) \/ AddRoute(c) \/ SecretListen(c) \/ ListenClient(c)
         \/ TCPGroupLookUp(c) \/ TCPMuxGroupLookUp(c) \/ HTTPGroupLookUp(c)
         \/ TCPGroupListen(c) \/ HTTPConnectListen(c) \/ HTTPGroupRegister(c)
  PROVE  Steady(c)
  <1>1. proc[c].at \in {"run", "join"} /\ UNCHANGED <<mine, portsUsed>>
    BY DEF AcquirePort, AddRoute, SecretListen, ListenClient, TCPGroupLookUp, TCPMuxGroupLookUp,
           HTTPGroupLookUp, LookUpGroup, TCPGroupListen, HTTPConnectListen, HTTPGroupRegister,
           Asks, Joins, At
  <1>2. stray \subseteq stray'
    BY DEF AcquirePort, AddRoute, SecretListen, ListenClient, TCPGroupLookUp, TCPMuxGroupLookUp,
           HTTPGroupLookUp, LookUpGroup, TCPGroupListen, HTTPConnectListen, HTTPGroupRegister,
           JoinGroup, history
  <1>3. \/ \E how, res, obj, index : Advance(c, how, res, obj, index)
        \/ RunFails(c)
        \/ \E o : proc' = [proc EXCEPT ![c].at = "join", ![c].found = o]
    BY DEF AcquirePort, AddRoute, SecretListen, ListenClient, TCPGroupLookUp, TCPMuxGroupLookUp,
           HTTPGroupLookUp, LookUpGroup, TCPGroupListen, HTTPConnectListen, HTTPGroupRegister,
           JoinGroup, HoldsOwn
  <1> QED BY <1>1, <1>2, <1>3, MovesOn DEF Steady, Starting

\* A close gives back one resource, or panics on an object that is stray.
LEMMA ClosesSteady ==
  ASSUME Inv, NEW c \in Ctls, NEW k \in proc[c].held,
         \/ CloseOwn(c, k) \/ CloseClient(c, k) \/ UnRegister(c, k)
         \/ TCPCloseListener(c, k) \/ TCPMuxCloseListener(c, k)
  PROVE  \/ Steady(c)
         \/ Panics(c, k) /\ k.obj \in stray /\ UNCHANGED mine
  <1>1. Dropped(c, k) /\ UNCHANGED <<mine, portsUsed, stray>> => Steady(c)
    BY DropMoves DEF Inv, Steady
  <1>2. CASE CloseOwn(c, k) \/ CloseClient(c, k) \/ UnRegister(c, k)
    BY <1>1, <1>2 DEF CloseOwn, CloseClient, UnRegister, history
  <1>3. CASE TCPCloseListener(c, k) \/ TCPMuxCloseListener(c, k)
    <2>1. Closing(c, k) /\ k.how \in GroupHows /\ UNCHANGED mine
      BY <1>3 DEF TCPCloseListener, TCPMuxCloseListener, CloseGroupListener, GroupHows
    <2>2. \/ Dropped(c, k) /\ UNCHANGED <<portsUsed, stray>>
          \/ Panics(c, k) /\ groups[k.obj].closed
      BY <1>3 DEF TCPCloseListener, TCPMuxCloseListener, CloseGroupListener
    <2>3. k \in HeldBy(proc[c].id) /\ proc[c].id \in Ids
      BY <2>1, ClosingIsOne
    <2>4. k.obj \in Objs /\ groups[k.obj].members # {}
      BY <2>1, <2>3, GroupHolds
    <2>5. groups[k.obj].closed => k.obj \in stray
      BY <2>4 DEF Inv, GroupInv, MembersOwn
    <2> QED BY <1>1, <2>1, <2>2, <2>5
  <1> QED BY <1>2, <1>3

\* Where a panic leaves a control, and that the objects stay stray.
Sound(c) ==
  /\ stray \subseteq stray'
  /\ \A d \in Ctls : proc'[d].at \in {"wedged", "halfClosed"} =>
       proc[d].at \in {"wedged", "halfClosed"} \/ stray' # {}

LEMMA StepSound ==
  ASSUME Inv, \E c \in Ctls : ControlStep(c)
  PROVE  \E c \in Ctls : Sound(c)
  <1>1. ASSUME NEW c \in Ctls, Steady(c)
        PROVE  Sound(c)
    BY <1>1 DEF Steady, Sound, Starting
  <1>2. ASSUME NEW c \in Ctls, NEW q, q.at \notin {"wedged", "halfClosed"},
               proc' = [proc EXCEPT ![c] = q], stray \subseteq stray'
        PROVE  Sound(c)
    BY <1>2 DEF Inv, TypeOK, Sound
  <1>3. ASSUME NEW c \in Ctls, NEW place \in Places \ {"wedged", "halfClosed"}, Goto(c, place),
               stray \subseteq stray'
        PROVE  Sound(c)
    BY <1>3, GoMoves DEF Inv, Sound
  <1>4. ASSUME NEW c \in Ctls, Register(c) \/ Refused(c) \/ AddName(c) \/ Closed(c)
        PROVE  Sound(c)
    <2>1. stray \subseteq stray'
      BY <1>4 DEF Register, Refused, AddName, Closed, history
    <2>2. (\E q : q.at \notin {"wedged", "halfClosed"} /\ proc' = [proc EXCEPT ![c] = q])
          \/ Goto(c, "undo")
      BY <1>4 DEF Register, Refused, AddName, Closed, Idle
    <2> QED BY <1>2, <1>3, <2>1, <2>2 DEF Places
  <1>5. ASSUME NEW c \in Ctls, CloseProxy(c) \/ ManagerReturns(c) \/ StopNext(c)
        PROVE  Sound(c)
    <2>1. stray \subseteq stray'
      BY <1>5 DEF CloseProxy, ManagerReturns, StopNext, history
    <2>2. (\E q : q.at \notin {"wedged", "halfClosed"} /\ proc' = [proc EXCEPT ![c] = q])
          \/ Goto(c, "stop") \/ Goto(c, "ended")
      BY <1>5 DEF CloseProxy, ManagerReturns, StopNext, Idle
    <2> QED BY <1>2, <1>3, <2>1, <2>2 DEF Places
  <1>6. ASSUME NEW c \in Ctls, NEW k, Panics(c, k), k.obj \in stray
        PROVE  Sound(c)
    <2>1. stray' # {} /\ stray \subseteq stray'
      BY <1>6 DEF Panics
    <2> QED BY <2>1 DEF Sound
  <1>7. ASSUME NEW c \in Ctls, NEW k \in proc[c].held,
               \/ CloseOwn(c, k) \/ CloseClient(c, k) \/ UnRegister(c, k)
               \/ TCPCloseListener(c, k) \/ TCPMuxCloseListener(c, k)
        PROVE  Sound(c)
    BY <1>1, <1>6, <1>7, ClosesSteady
  <1>8. ASSUME NEW c \in Ctls,
               \/ AcquirePort(c) \/ AddRoute(c) \/ SecretListen(c) \/ ListenClient(c)
               \/ TCPGroupLookUp(c) \/ TCPMuxGroupLookUp(c) \/ HTTPGroupLookUp(c)
               \/ TCPGroupListen(c) \/ HTTPConnectListen(c) \/ HTTPGroupRegister(c)
        PROVE  Sound(c)
    BY <1>1, <1>8, RunsSteady DEF Inv
  <1> QED BY <1>4, <1>5, <1>7, <1>8 DEF ControlStep

(***************************************************************************)
(* No close panics, leaving ctl.mu locked (server/control.go:545-559) or   *)
(* proxies that stoper never gets to (server/control.go:349-387), unless a *)
(* member joined an object that had left the table after its look-up       *)
(* (server/group/tcp.go:51-59): for any number of controls and groups, the *)
(* double close of acceptCh (server/group/tcp.go:174) needs that race.     *)
(***************************************************************************)
THEOREM PanicsNeedTheRace == Spec => []PanicNeedsStray
  <1>1. Init => PanicNeedsStray
    BY DEF Init, PanicNeedsStray, Idle
  <1>2. ASSUME PanicNeedsStray, Inv, [Next]_vars
        PROVE  PanicNeedsStray'
    <2>1. CASE \E c \in Ctls : ControlStep(c)
      BY <1>2, <2>1, StepSound DEF Sound, PanicNeedsStray
    <2>2. CASE UNCHANGED tables
      BY <1>2, <2>2 DEF tables, PanicNeedsStray
    <2> QED BY <1>2, <2>1, <2>2, Stands
  <1> QED BY <1>1, <1>2, ResourcesInvariant, PTL DEF Spec
-----------------------------------------------------------------------------
(***************************************************************************)
(* The count of ports.                                                     *)
(***************************************************************************)
\* The registered proxies of c that have a port, but for the one it is closing.
WithPort(c) == {m \in mine[c] : m.id # proc[c].id /\ UsedPortsNum(m.conf) = 1}
Begun(c) == IF proc[c].at \in Starting THEN UsedPortsNum(proc[c].conf) ELSE 0
Exact(c) ==
  Counts /\ proc[c].at \in Starting \union {"idle", "close"} =>
    portsUsed[c] = Cardinality(WithPort(c)) + Begun(c)

LEMMA ExactIs == PortsUsedExact <=> \A c \in Ctls : Exact(c)
  BY DEF PortsUsedExact, Exact, WithPort, Begun, Starting

LEMMA WithPortFinite ==
  ASSUME Inv, NEW c \in Ctls
  PROVE  IsFiniteSet(WithPort(c)) /\ Cardinality(WithPort(c)) \in Nat
  <1>1. IsFiniteSet(mine[c]) /\ WithPort(c) \subseteq mine[c]
    BY DEF Inv, NamesInv, MineOK, WithPort
  <1> QED BY <1>1, FS_Subset, FS_CardinalityType

\* The controls that do not move keep their account.
LEMMA ExactElsewhere ==
  ASSUME NEW d \in Ctls, proc'[d] = proc[d], mine'[d] = mine[d], portsUsed'[d] = portsUsed[d],
         Exact(d)
  PROVE  Exact(d)'
  BY DEF Exact, WithPort, Begun

\* One registered proxy more: its port counts.
LEMMA OneMore ==
  ASSUME NEW S, IsFiniteSet(S), NEW m, m \notin S, NEW conf, NEW T,
         T = IF UsedPortsNum(conf) = 1 THEN S \union {m} ELSE S
  PROVE  Cardinality(T) = Cardinality(S) + UsedPortsNum(conf)
  <1>1. Cardinality(S) \in Nat /\ UsedPortsNum(conf) \in {0, 1}
    BY FS_CardinalityType, PortsNum
  <1>2. Cardinality(S \union {m}) = Cardinality(S) + 1
    BY FS_AddElement
  <1> QED BY <1>1, <1>2

LEMMA SteadyExact ==
  ASSUME NEW c \in Ctls, Steady(c), NEW d \in Ctls, Exact(d)
  PROVE  Exact(d)'
  <1>1. CASE d # c
    BY <1>1, ExactElsewhere DEF Steady
  <1>2. CASE d = c
    <2>1. WithPort(c)' = WithPort(c)
      BY DEF Steady, WithPort
    <2>2. Begun(c)' = Begun(c)
      BY DEF Steady, Begun
    <2>3. proc'[c].at \in Starting \union {"idle", "close"} =>
            proc[c].at \in Starting \union {"idle", "close"}
      BY DEF Steady
    <2> QED BY <1>2, <2>1, <2>2, <2>3 DEF Steady, Exact, Counts
  <1> QED BY <1>1, <1>2

\* A control that has stopped is not asked for its count any more.
LEMMA StoppedExact ==
  ASSUME NEW c \in Ctls, proc'[c].at \notin Starting \union {"idle", "close"},
         \A d \in Ctls \ {c} : /\ proc'[d] = proc[d] /\ mine'[d] = mine[d]
                               /\ portsUsed'[d] = portsUsed[d],
         NEW d \in Ctls, Exact(d)
  PROVE  Exact(d)'
  <1>1. CASE d # c
    BY <1>1, ExactElsewhere
  <1>2. CASE d = c
    BY <1>2 DEF Exact
  <1> QED BY <1>1, <1>2

LEMMA RegisterExact ==
  ASSUME Inv, NEW c \in Ctls, Register(c), NEW d \in Ctls, Exact(d)
  PROVE  Exact(d)'
  <1>1. PICK conf \in declared[c], copy \in {0, 1} :
          /\ copy = IF \E m \in mine[c] : m.id = <<c, conf.name, 0>> THEN 1 ELSE 0
          /\ portsUsed' = [portsUsed EXCEPT ![c] = IF Counts THEN @ + UsedPortsNum(conf) ELSE @]
          /\ proc' = [proc EXCEPT ![c] = [Idle EXCEPT !.at = "run", !.conf = conf,
                        !.id = <<c, conf.name, copy>>]]
    BY DEF Register
  <1>2. At(c, "idle") /\ UNCHANGED mine
    BY DEF Register
  <1>3. /\ \A x \in Ctls \ {c} : proc'[x] = proc[x] /\ portsUsed'[x] = portsUsed[x]
        /\ proc'[c].at = "run" /\ proc'[c].conf = conf /\ proc'[c].id = <<c, conf.name, copy>>
        /\ portsUsed'[c] = IF Counts THEN portsUsed[c] + UsedPortsNum(conf) ELSE portsUsed[c]
    BY <1>1 DEF Inv, TypeOK, Idle
  <1>4. CASE d # c
    BY <1>2, <1>3, <1>4, ExactElsewhere
  <1>5. CASE d = c
    <2>1. \A m \in mine[c] : m.id # proc[c].id
      <3>1. proc[c].id = None
        BY <1>2 DEF Inv, NamesInv, ProcOK, At, Resting
      <3>2. \A m \in mine[c] : m.id \in Ids
        BY DEF Inv, TypeOK, Proxies
      <3> QED BY <3>1, <3>2, ResourcesAssumption
    <2>2. \A m \in mine[c] : m.id # proc'[c].id
      <3>1. \A m \in mine[c] : m.id[3] = 0
        BY DEF Inv, NamesInv, MineOK
      <3> QED BY <1>1, <1>3, <3>1
    <2>3. WithPort(c)' = WithPort(c)
      BY <1>2, <2>1, <2>2 DEF WithPort
    <2>4. Begun(c) = 0 /\ Begun(c)' = UsedPortsNum(conf)
      BY <1>2, <1>3 DEF Begun, At, Starting
    <2>5. Cardinality(WithPort(c)) \in Nat /\ UsedPortsNum(conf) \in {0, 1}
      BY WithPortFinite, PortsNum
    <2>6. Counts => portsUsed[c] = Cardinality(WithPort(c))
      BY <1>2, <1>5, <2>4, <2>5 DEF Exact, At
    <2>7. Counts => portsUsed'[c] = Cardinality(WithPort(c)') + Begun(c)'
      BY <1>3, <2>3, <2>4, <2>6
    <2> QED BY <1>5, <2>7 DEF Exact, Counts
  <1> QED BY <1>4, <1>5

LEMMA RefusedExact ==
  ASSUME Inv, NEW c \in Ctls, Refused(c), NEW d \in Ctls, Exact(d)
  PROVE  Exact(d)'
  <1>1. At(c, "undo") /\ UNCHANGED mine
    BY DEF Refused
  <1>2. /\ \A x \in Ctls \ {c} : proc'[x] = proc[x] /\ portsUsed'[x] = portsUsed[x]
        /\ proc'[c].at = "idle" /\ proc'[c].id = None /\ portsUsed[c] \in Int
        /\ portsUsed'[c] = IF Counts THEN portsUsed[c] - UsedPortsNum(proc[c].conf)
                           ELSE portsUsed[c]
    BY DEF Refused, Inv, TypeOK, Idle
  <1>3. CASE d # c
    BY <1>1, <1>2, <1>3, ExactElsewhere
  <1>4. CASE d = c
    <2>1. \A m \in mine[c] : m.id # proc[c].id
      BY <1>1 DEF Inv, NamesInv, ProcOK, At, Starting
    <2>2. \A m \in mine[c] : m.id # None
      BY ResourcesAssumption DEF Inv, TypeOK, Proxies
    <2>3. WithPort(c)' = WithPort(c)
      BY <1>1, <1>2, <2>1, <2>2 DEF WithPort
    <2>4. Begun(c) = UsedPortsNum(proc[c].conf) /\ Begun(c)' = 0
      BY <1>1, <1>2 DEF Begun, At, Starting
    <2>5. Cardinality(WithPort(c)) \in Nat /\ UsedPortsNum(proc[c].conf) \in {0, 1}
      BY WithPortFinite, PortsNum
    <2>6. Counts => portsUsed[c] = Cardinality(WithPort(c)) + UsedPortsNum(proc[c].conf)
      BY <1>1, <1>4, <2>4 DEF Exact, At, Starting
    <2>7. Counts => portsUsed'[c] = Cardinality(WithPort(c)') + Begun(c)'
      BY <1>2, <2>3, <2>4, <2>5, <2>6
    <2> QED BY <1>4, <2>7 DEF Exact, Counts
  <1> QED BY <1>3, <1>4

\* The name is entered: the proxy that was begun is now one of the registered.
LEMMA AddNameExact ==
  ASSUME Inv, NEW c \in Ctls, AddName(c), NEW d \in Ctls, Exact(d)
  PROVE  Exact(d)'
  <1> DEFINE me == proc[c].id
             new == [id |-> me, conf |-> proc[c].conf, held |-> proc[c].held]
  <1>1. At(c, "run") /\ UNCHANGED portsUsed /\ UNCHANGED stray
    BY DEF AddName, history
  <1>2. CASE pxyTable[me[2]] # None
    <2>1. Goto(c, "undo") /\ UNCHANGED mine
      BY <1>2 DEF AddName
    <2>2. Steady(c)
      BY <1>1, <2>1, GoMoves DEF Inv, Places, Steady, At, Starting
    <2> QED BY <2>2, SteadyExact
  <1>3. CASE pxyTable[me[2]] = None
    <2>1. mine' = [mine EXCEPT ![c] = @ \union {new}] /\ proc' = [proc EXCEPT ![c] = Idle]
      BY <1>3 DEF AddName
    <2>2. /\ \A x \in Ctls \ {c} : proc'[x] = proc[x] /\ mine'[x] = mine[x]
          /\ proc'[c].at = "idle" /\ proc'[c].id = None /\ mine'[c] = mine[c] \union {new}
      BY <2>1 DEF Inv, TypeOK, Idle
    <2>3. CASE d # c
      BY <1>1, <2>2, <2>3, ExactElsewhere
    <2>4. CASE d = c
      <3>1. me \in Ids /\ \A m \in mine[c] : m.id # me
        BY <1>1 DEF Inv, NamesInv, ProcOK, At, Starting
      <3>2. \A m \in mine[c] \union {new} : m.id # None
        BY <3>1, ResourcesAssumption DEF Inv, TypeOK, Proxies
      <3>3. WithPort(c) = {m \in mine[c] : UsedPortsNum(m.conf) = 1}
        BY <3>1 DEF WithPort
      <3>4. WithPort(c)' = {m \in mine[c] \union {new} : UsedPortsNum(m.conf) = 1}
        BY <2>2, <3>2 DEF WithPort
      <3>5. WithPort(c)' = IF UsedPortsNum(proc[c].conf) = 1 THEN WithPort(c) \union {new}
                           ELSE WithPort(c)
        <4>1. new.conf = proc[c].conf
          OBVIOUS
        <4> HIDE DEF new, me
        <4> QED BY <3>3, <3>4, <4>1
      <3>6. new \notin WithPort(c) /\ IsFiniteSet(WithPort(c))
        BY <3>1, WithPortFinite DEF WithPort
      <3>7. Cardinality(WithPort(c)') = Cardinality(WithPort(c)) + UsedPortsNum(proc[c].conf)
        BY <3>5, <3>6, OneMore
      <3>8. Begun(c) = UsedPortsNum(proc[c].conf) /\ Begun(c)' = 0
        BY <1>1, <2>2 DEF Begun, At, Starting
      <3>9. Cardinality(WithPort(c)) \in Nat /\ UsedPortsNum(proc[c].conf) \in {0, 1}
        BY WithPortFinite, PortsNum
      <3>10. Counts => portsUsed[c] = Cardinality(WithPort(c)) + UsedPortsNum(proc[c].conf)
        BY <1>1, <2>4, <3>8 DEF Exact, At, Starting
      <3>11. Counts => portsUsed'[c] = Cardinality(WithPort(c)') + Begun(c)'
        BY <1>1, <3>7, <3>8, <3>9, <3>10
      <3> QED BY <2>4, <3>11 DEF Exact, Counts
    <2> QED BY <2>3, <2>4
  <1> QED BY <1>2, <1>3

\* The close gives the port back to the account before the proxy is closed.
LEMMA CloseProxyExact ==
  ASSUME Inv, NEW c \in Ctls, CloseProxy(c), NEW d \in Ctls, Exact(d)
  PROVE  Exact(d)'
  <1>1. PICK m \in mine[c] :
          /\ portsUsed' = [portsUsed EXCEPT ![c] = IF Counts THEN @ - UsedPortsNum(m.conf) ELSE @]
          /\ proc' = [proc EXCEPT ![c] = [Idle EXCEPT !.at = "close", !.id = m.id,
                                            !.conf = m.conf, !.held = m.held]]
    BY DEF CloseProxy
  <1>2. At(c, "idle") /\ UNCHANGED mine
    BY DEF CloseProxy
  <1>3. /\ \A x \in Ctls \ {c} : proc'[x] = proc[x] /\ portsUsed'[x] = portsUsed[x]
        /\ proc'[c].at = "close" /\ proc'[c].id = m.id
        /\ portsUsed'[c] = IF Counts THEN portsUsed[c] - UsedPortsNum(m.conf) ELSE portsUsed[c]
    BY <1>1 DEF Inv, TypeOK, Idle
  <1>4. CASE d # c
    BY <1>2, <1>3, <1>4, ExactElsewhere
  <1>5. CASE d = c
    <2>1. \A x \in mine[c] : x.id # proc[c].id
      <3>1. proc[c].id = None
        BY <1>2 DEF Inv, NamesInv, ProcOK, At, Resting
      <3>2. \A x \in mine[c] : x.id \in Ids
        BY DEF Inv, TypeOK, Proxies
      <3> QED BY <3>1, <3>2, ResourcesAssumption
    <2>2. \A x \in mine[c] : x.id = m.id <=> x = m
      BY DEF Inv, NamesInv, MineOK
    <2>3. WithPort(c) = {x \in mine[c] : UsedPortsNum(x.conf) = 1}
      BY <2>1 DEF WithPort
    <2>4. WithPort(c)' = {x \in mine[c] : x # m /\ UsedPortsNum(x.conf) = 1}
      BY <1>2, <1>3, <2>2 DEF WithPort
    <2>5. m \notin WithPort(c)'
      BY <2>4
    <2>6. WithPort(c) = IF UsedPortsNum(m.conf) = 1 THEN WithPort(c)' \union {m} ELSE WithPort(c)'
      BY <2>3, <2>4
    <2>7. IsFiniteSet(WithPort(c)')
      <3>1. WithPort(c)' \subseteq WithPort(c)
        BY <2>3, <2>4
      <3> QED BY <3>1, WithPortFinite, FS_Subset
    <2>8. Cardinality(WithPort(c)) = Cardinality(WithPort(c)') + UsedPortsNum(m.conf)
      BY <2>5, <2>6, <2>7, OneMore
    <2>9. Begun(c) = 0 /\ Begun(c)' = 0
      BY <1>2, <1>3 DEF Begun, At, Starting
    <2>10. Cardinality(WithPort(c)') \in Nat /\ UsedPortsNum(m.conf) \in {0, 1}
      BY <2>7, FS_CardinalityType, PortsNum
    <2>11. Counts => portsUsed[c] = Cardinality(WithPort(c)) + 0
      BY <1>2, <1>5, <2>9 DEF Exact, At
    <2>12. Counts => portsUsed'[c] = Cardinality(WithPort(c)') + Begun(c)'
      BY <1>3, <2>8, <2>9, <2>10, <2>11
    <2> QED BY <1>5, <2>12 DEF Exact, Counts
  <1> QED BY <1>4, <1>5

\* The closed proxy did not count any more.
LEMMA ClosedExact ==
  ASSUME Inv, NEW c \in Ctls, Closed(c), NEW d \in Ctls, Exact(d)
  PROVE  Exact(d)'
  <1>1. UNCHANGED portsUsed /\ proc[c].at \in {"close", "stopClose"}
    BY DEF Closed
  <1>2. /\ \A x \in Ctls \ {c} : proc'[x] = proc[x] /\ mine'[x] = mine[x]
        /\ proc'[c].at = (IF At(c, "close") THEN "idle" ELSE "stop") /\ proc'[c].id = None
        /\ mine'[c] = {m \in mine[c] : m.id # proc[c].id}
    BY DEF Closed, Inv, TypeOK, Idle
  <1>3. CASE d # c
    BY <1>1, <1>2, <1>3, ExactElsewhere
  <1>4. CASE d = c /\ ~At(c, "close")
    BY <1>2, <1>4 DEF Exact, Starting
  <1>5. CASE d = c /\ At(c, "close")
    <2>1. \A m \in mine[c] : m.id # None
      BY ResourcesAssumption DEF Inv, TypeOK, Proxies
    <2>2. WithPort(c)' = WithPort(c)
      BY <1>2, <2>1 DEF WithPort
    <2>3. Begun(c) = 0 /\ Begun(c)' = 0
      BY <1>2, <1>5 DEF Begun, At, Starting
    <2> QED BY <1>1, <1>5, <2>2, <2>3 DEF Exact, At, Counts
  <1> QED BY <1>3, <1>4, <1>5

LEMMA StepExact ==
  ASSUME Inv, \E c \in Ctls : ControlStep(c), NEW d \in Ctls, Exact(d)
  PROVE  Exact(d)'
  <1>1. ASSUME NEW c \in Ctls, Steady(c)
        PROVE  Exact(d)'
    BY <1>1, SteadyExact
  <1>2. ASSUME NEW c \in Ctls, ManagerReturns(c) \/ StopNext(c)
        PROVE  Exact(d)'
    <2>1. UNCHANGED <<mine, portsUsed>>
      BY <1>2 DEF ManagerReturns, StopNext
    <2>2. CASE Goto(c, "stop") \/ Goto(c, "ended")
      <3>1. /\ \A x \in Ctls \ {c} : proc'[x] = proc[x]
            /\ proc'[c].at \in {"stop", "ended"}
        BY <2>2, GoMoves DEF Inv, Places
      <3> QED BY <2>1, <3>1, StoppedExact DEF Starting
    <2>3. ASSUME NEW m \in mine[c],
                 proc' = [proc EXCEPT ![c] = [Idle EXCEPT !.at = "stopClose", !.id = m.id,
                                                !.conf = m.conf, !.held = m.held]]
          PROVE  Exact(d)'
      <3>1. /\ \A x \in Ctls \ {c} : proc'[x] = proc[x]
            /\ proc'[c].at = "stopClose"
        BY <2>3 DEF Inv, TypeOK, Idle
      <3> QED BY <2>1, <3>1, StoppedExact DEF Starting
    <2> QED BY <1>2, <2>2, <2>3 DEF ManagerReturns, StopNext
  <1>3. ASSUME NEW c \in Ctls, NEW k, Panics(c, k), UNCHANGED mine
        PROVE  Exact(d)'
    <2>1. CASE At(c, "undo")
      <3>1. /\ \A x \in Ctls \ {c} : proc'[x] = proc[x] /\ portsUsed'[x] = portsUsed[x]
            /\ proc'[c].at = "stop"
        BY <1>3, <2>1 DEF Panics, Inv, TypeOK, Idle
      <3> QED BY <1>3, <3>1, StoppedExact DEF Starting
    <2>2. CASE ~At(c, "undo")
      <3>1. UNCHANGED portsUsed
        BY <1>3, <2>2 DEF Panics
      <3>2. \A x \in Ctls \ {c} : proc'[x] = proc[x]
        BY <1>3, <2>2 DEF Panics, Inv, TypeOK
      <3>3. proc'[c].at \in {"wedged", "halfClosed"}
        <4> DEFINE place == IF At(c, "close") THEN "wedged" ELSE "halfClosed"
        <4>1. proc' = [proc EXCEPT ![c].at = place, ![c].held = @ \ {k}]
          BY <1>3, <2>2 DEF Panics
        <4>2. place \in {"wedged", "halfClosed"}
          OBVIOUS
        <4> HIDE DEF place
        <4>3. proc[c] \in Procs /\ proc \in [Ctls -> Procs]
          BY DEF Inv, TypeOK
        <4>4. proc'[c].at = place
          BY <4>1, <4>3 DEF Procs
        <4> QED BY <4>2, <4>4
      <3> QED BY <1>3, <3>1, <3>2, <3>3, StoppedExact DEF Starting
    <2> QED BY <2>1, <2>2
  <1>4. ASSUME NEW c \in Ctls, NEW k \in proc[c].held,
               \/ CloseOwn(c, k) \/ CloseClient(c, k) \/ UnRegister(c, k)
               \/ TCPCloseListener(c, k) \/ TCPMuxCloseListener(c, k)
        PROVE  Exact(d)'
    BY <1>1, <1>3, <1>4, ClosesSteady
  <1>5. ASSUME NEW c \in Ctls,
               \/ AcquirePort(c) \/ AddRoute(c) \/ SecretListen(c) \/ ListenClient(c)
               \/ TCPGroupLookUp(c) \/ TCPMuxGroupLookUp(c) \/ HTTPGroupLookUp(c)
               \/ TCPGroupListen(c) \/ HTTPConnectListen(c) \/ HTTPGroupRegister(c)
        PROVE  Exact(d)'
    BY <1>1, <1>5, RunsSteady DEF Inv
  <1> QED BY <1>2, <1>4, <1>5, RegisterExact, RefusedExact, AddNameExact, CloseProxyExact,
             ClosedExact DEF ControlStep

(***************************************************************************)
(* The count that max_ports_per_client is compared with is, at every step  *)
(* of RegisterProxy and CloseProxy (server/control.go:505-522, 545-559),   *)
(* the number of ports of the registered proxies and of the one being      *)
(* registered, wherever a registration fails, for any number of proxies.   *)
(***************************************************************************)
THEOREM PortsAreCounted == Spec => []PortsUsedExact
  <1>1. Init => PortsUsedExact
    <2> SUFFICES ASSUME Init, NEW c \in Ctls
                 PROVE  Exact(c)
      BY ExactIs
    <2>1. WithPort(c) = {} /\ Begun(c) = 0 /\ portsUsed[c] = 0
      BY DEF Init, WithPort, Begun, Idle, Starting
    <2>2. Cardinality(WithPort(c)) = 0
      BY <2>1, FS_EmptySet
    <2> QED BY <2>1, <2>2 DEF Exact
  <1>2. ASSUME PortsUsedExact, Inv, [Next]_vars
        PROVE  PortsUsedExact'
    <2>1. CASE \E c \in Ctls : ControlStep(c)
      <3>1. \A c \in Ctls : Exact(c)'
        BY <1>2, <2>1, ExactIs, StepExact
      <3> QED BY <3>1 DEF PortsUsedExact, Exact, WithPort, Begun, Starting
    <2>2. CASE UNCHANGED tables
      BY <1>2, <2>2 DEF tables, PortsUsedExact, Counts
    <2> QED BY <1>2, <2>1, <2>2, Stands
  <1> QED BY <1>1, <1>2, ResourcesInvariant, PTL DEF Spec
=============================================================================
