------------------------ MODULE WorkConnPoolProofs ------------------------
(***************************************************************************)
(* Proofs about WorkConnPool, for any number of work and user connections  *)
(* and any capacities.  OneOwner is not inductive: that the head of the    *)
(* pool is in nobody's hands needs what each position of a user connection *)
(* says about the connection it holds (HandInv).  At the end: only a       *)
(* wedged control leaves a handler without a work connection or an error.  *)
(***************************************************************************)
EXTENDS WorkConnPool, SequenceTheorems, TLAPS

InPool(s, w) == \E i \in 1..Len(s) : s[i] = w
Distinct(s) == \A i, j \in 1..Len(s) : s[i] = s[j] => i = j

PoolInv ==
  /\ \A w \in Conns : conn[w] = "pooled" <=> InPool(workConnCh, w)
  /\ Distinct(workConnCh)

\* What a user connection holds, by where it is; no two hold the same.
HandInv ==
  /\ \A u \in Users :
       /\ user[u] \in {"replace", "start"} => conn[hand[u]] = "taken"
       /\ user[u] = "joined" => hand[u] \in Conns /\ conn[hand[u]] \in {"started", "closed"}
       /\ user[u] \in {"idle", "get", "request", "wait", "failed"} => hand[u] = NoConn
  /\ \A u, v \in Users : hand[u] # NoConn /\ hand[u] = hand[v] => u = v
  /\ \A w \in Conns : conn[w] \in {"taken", "started"} => \E u \in Users : hand[u] = w

EndInv == stoper = "done" => workConnCh = <<>>

IInv == TypeOK /\ PoolInv /\ HandInv /\ EndInv /\ JoinedIsStartedOrExhausted

-----------------------------------------------------------------------------
\* Receiving from a channel: its head leaves, the rest stays as it was.
LEMMA TailPool ==
  ASSUME NEW s \in Seq(Conns), s # <<>>, Distinct(s)
  PROVE  /\ Head(s) \in Conns
         /\ InPool(s, Head(s))
         /\ Tail(s) \in Seq(Conns)
         /\ Len(Tail(s)) = Len(s) - 1
         /\ Distinct(Tail(s))
         /\ \A w : InPool(Tail(s), w) <=> InPool(s, w) /\ w # Head(s)
  <1>1. /\ Head(s) \in Conns
        /\ Tail(s) \in Seq(Conns)
        /\ Len(Tail(s)) = Len(s) - 1
        /\ \A i \in 1..Len(Tail(s)) : Tail(s)[i] = s[i + 1]
    BY HeadTailProperties
  <1>2. Len(s) \in Nat /\ Len(s) >= 1 /\ Head(s) = s[1]
    OBVIOUS
  <1>3. Distinct(Tail(s))
    BY <1>1, <1>2 DEF Distinct
  <1>4. ASSUME NEW w, InPool(Tail(s), w) PROVE InPool(s, w) /\ w # Head(s)
    <2>1. PICK i \in 1..Len(Tail(s)) : Tail(s)[i] = w
      BY <1>4 DEF InPool
    <2>2. i + 1 \in 1..Len(s) /\ s[i + 1] = w /\ i + 1 # 1
      BY <1>1, <1>2, <2>1
    <2> QED BY <1>2, <2>2 DEF InPool, Distinct
  <1>5. ASSUME NEW w, InPool(s, w), w # Head(s) PROVE InPool(Tail(s), w)
    <2>1. PICK i \in 1..Len(s) : s[i] = w
      BY <1>5 DEF InPool
    <2>2. i - 1 \in 1..Len(Tail(s)) /\ Tail(s)[i - 1] = w
      BY <1>1, <1>2, <1>5, <2>1
    <2> QED BY <2>2 DEF InPool
  <1>6. InPool(s, Head(s))
    BY <1>2 DEF InPool
  <1> QED BY <1>1, <1>3, <1>4, <1>5, <1>6

\* Sending to a channel.
LEMMA AppendPool ==
  ASSUME NEW s \in Seq(Conns), NEW e \in Conns, Distinct(s), ~InPool(s, e)
  PROVE  /\ Append(s, e) \in Seq(Conns)
         /\ Len(Append(s, e)) = Len(s) + 1
         /\ Distinct(Append(s, e))
         /\ \A w : InPool(Append(s, e), w) <=> InPool(s, w) \/ w = e
  <1>1. /\ Append(s, e) \in Seq(Conns)
        /\ Len(Append(s, e)) = Len(s) + 1
        /\ \A i \in 1..Len(s) : Append(s, e)[i] = s[i]
        /\ Append(s, e)[Len(s) + 1] = e
    BY AppendProperties
  <1>2. Len(s) \in Nat
    OBVIOUS
  <1>3. Distinct(Append(s, e))
    BY <1>1, <1>2 DEF Distinct, InPool
  <1>4. ASSUME NEW w, InPool(Append(s, e), w) PROVE InPool(s, w) \/ w = e
    BY <1>1, <1>2, <1>4 DEF InPool
  <1>5. ASSUME NEW w, InPool(s, w) \/ w = e PROVE InPool(Append(s, e), w)
    <2>1. CASE w = e
      <3>1. Len(s) + 1 \in 1..Len(Append(s, e))
        BY <1>1, <1>2
      <3> QED BY <1>1, <2>1, <3>1 DEF InPool
    <2>2. CASE InPool(s, w)
      <3>1. PICK i \in 1..Len(s) : s[i] = w
        BY <2>2 DEF InPool
      <3>2. i \in 1..Len(Append(s, e)) /\ Append(s, e)[i] = w
        BY <1>1, <1>2, <3>1
      <3> QED BY <3>2 DEF InPool
    <2> QED BY <1>5, <2>1, <2>2
  <1> QED BY <1>1, <1>3, <1>4, <1>5

\* Initially the pool is empty and nobody holds anything.
LEMMA IInvInit == Init => IInv
  <1> SUFFICES ASSUME Init PROVE IInv
    OBVIOUS
  <1>1. TypeOK
    BY PoolAssumption DEF Init, TypeOK
  <1>2. PoolInv
    BY DEF Init, PoolInv, InPool, Distinct
  <1>3. HandInv
    BY DEF Init, HandInv
  <1>4. EndInv /\ JoinedIsStartedOrExhausted
    BY DEF Init, EndInv, JoinedIsStartedOrExhausted
  <1> QED BY <1>1, <1>2, <1>3, <1>4 DEF IInv

-----------------------------------------------------------------------------
\* What is in somebody's hands is neither pooled nor on its way there.
LEMMA HeldConns ==
  ASSUME IInv, NEW u \in Users, hand[u] \in Conns
  PROVE  conn[hand[u]] \in {"taken", "started", "closed"}
  <1>1. user[u] \in {"replace", "start", "joined"}
    BY PoolAssumption DEF IInv, TypeOK, HandInv
  <1> QED BY <1>1 DEF IInv, HandInv

\* Steps of a connection on its way to the pool.
LEMMA ConnSteps ==
  ASSUME IInv, NEW w \in Conns, Arrive(w) \/ Refuse(w) \/ RegisterWorkConn(w)
  PROVE  IInv'
  <1> USE PoolAssumption DEF IInv
  <1>0. conn[w] \in {"new", "arrived"}
    BY DEF Arrive, Refuse, RegisterWorkConn
  <1>1. UNCHANGED <<user, hand, tries, sendLen, writer, mgr, stoper>>
    BY DEF Arrive, Refuse, RegisterWorkConn
  <1>2. \A u \in Users : hand[u] # w
    BY <1>0, HeldConns
  <1>3. \E v \in {"arrived", "closed", "lost", "pooled"} :
          /\ conn' = [conn EXCEPT ![w] = v]
          /\ IF v = "pooled"
             THEN workConnCh' = Append(workConnCh, w) /\ Len(workConnCh) < PoolCap /\ ~PoolClosed
             ELSE UNCHANGED workConnCh
    BY DEF Arrive, Refuse, RegisterWorkConn
  <1>4. PICK v \in {"arrived", "closed", "lost", "pooled"} :
          /\ conn' = [conn EXCEPT ![w] = v]
          /\ IF v = "pooled"
             THEN workConnCh' = Append(workConnCh, w) /\ Len(workConnCh) < PoolCap /\ ~PoolClosed
             ELSE UNCHANGED workConnCh
    BY <1>3
  <1>5. conn' \in [Conns -> {"new", "arrived", "pooled", "taken", "started",
                             "closed", "lost"}]
    BY <1>4 DEF TypeOK
  <1>6. \A x \in Conns : conn'[x] = IF x = w THEN v ELSE conn[x]
    BY <1>4 DEF TypeOK
  <1>7. HandInv'
    BY <1>0, <1>1, <1>2, <1>4, <1>6 DEF HandInv, TypeOK
  <1>8. JoinedIsStartedOrExhausted'
    BY <1>1, <1>2, <1>6 DEF JoinedIsStartedOrExhausted, HandInv, TypeOK
  <1>9. ~InPool(workConnCh, w)
    BY <1>0 DEF PoolInv
  <1>10. CASE v # "pooled"
    <2>1. UNCHANGED workConnCh
      BY <1>4, <1>10
    <2>2. TypeOK'
      BY <1>1, <1>5, <2>1 DEF TypeOK
    <2>3. PoolInv'
      BY <1>6, <1>9, <1>10, <2>1 DEF PoolInv, InPool, Distinct
    <2>4. EndInv'
      BY <1>1, <2>1 DEF EndInv
    <2> QED BY <1>7, <1>8, <2>2, <2>3, <2>4
  <1>11. CASE v = "pooled"
    <2>1. workConnCh' = Append(workConnCh, w) /\ Len(workConnCh) < PoolCap /\ ~PoolClosed
      BY <1>4, <1>11
    <2>2. /\ workConnCh' \in Seq(Conns)
          /\ Len(workConnCh') = Len(workConnCh) + 1
          /\ Distinct(workConnCh')
          /\ \A x : InPool(workConnCh', x) <=> InPool(workConnCh, x) \/ x = w
      BY <1>9, <2>1, AppendPool DEF TypeOK, PoolInv
    <2>3. Len(workConnCh') <= PoolCap
      BY <2>1, <2>2 DEF TypeOK
    <2>4. TypeOK'
      BY <1>1, <1>5, <2>2, <2>3 DEF TypeOK
    <2>5. PoolInv'
      <3>1. \A x \in Conns : conn'[x] = "pooled" <=> InPool(workConnCh', x)
        BY <1>6, <1>11, <2>2 DEF PoolInv
      <3> QED BY <2>2, <3>1 DEF PoolInv, InPool, Distinct
    <2>6. EndInv'
      BY <1>1, <2>1 DEF EndInv, PoolClosed
    <2> QED BY <1>7, <1>8, <2>4, <2>5, <2>6
  <1> QED BY <1>10, <1>11

\* Receiving the head of the pool, by a user connection.
LEMMA TakeStep ==
  ASSUME IInv, NEW u \in Users, Take(u)
  PROVE  IInv'
  <1> USE PoolAssumption DEF IInv
  <1> DEFINE h == Head(workConnCh)
  <1>0. /\ user[u] \in {"get", "wait"}
        /\ workConnCh # <<>>
        /\ hand' = [hand EXCEPT ![u] = h]
        /\ conn' = [conn EXCEPT ![h] = "taken"]
        /\ workConnCh' = Tail(workConnCh)
        /\ user' = [user EXCEPT ![u] = "replace"]
        /\ UNCHANGED <<tries, sendLen, writer, mgr, stoper>>
    BY DEF Take
  <1>1. /\ h \in Conns
        /\ InPool(workConnCh, h)
        /\ workConnCh' \in Seq(Conns)
        /\ Len(workConnCh') = Len(workConnCh) - 1
        /\ Distinct(workConnCh')
        /\ \A w : InPool(workConnCh', w) <=> InPool(workConnCh, w) /\ w # h
    BY <1>0, TailPool DEF TypeOK, PoolInv
  <1>2. conn[h] = "pooled"
    BY <1>1 DEF PoolInv
  <1> HIDE DEF h
  <1>3. /\ \A w \in Conns : conn'[w] = IF w = h THEN "taken" ELSE conn[w]
        /\ \A v \in Users : /\ hand'[v] = IF v = u THEN h ELSE hand[v]
                            /\ user'[v] = IF v = u THEN "replace" ELSE user[v]
    BY <1>0 DEF TypeOK
  <1>4. \A v \in Users : hand[v] # h
    BY <1>1, <1>2, HeldConns
  <1>5. Len(workConnCh') <= PoolCap
    BY <1>1 DEF TypeOK
  <1>6. TypeOK'
    <2>1. /\ conn' \in [Conns -> {"new", "arrived", "pooled", "taken", "started",
                                  "closed", "lost"}]
          /\ user' \in [Users -> {"idle", "get", "request", "wait", "replace",
                                  "start", "joined", "failed"}]
          /\ hand' \in [Users -> Conns \union {NoConn}]
      BY <1>0, <1>1 DEF TypeOK
    <2>2. \A v \in Users : user'[v] \in {"replace", "start"} => hand'[v] \in Conns
      BY <1>1, <1>3 DEF TypeOK
    <2> QED BY <1>0, <1>1, <1>5, <2>1, <2>2 DEF TypeOK
  <1>7. PoolInv'
    <2>1. \A w \in Conns : conn'[w] = "pooled" <=> InPool(workConnCh', w)
      BY <1>1, <1>3 DEF PoolInv
    <2> QED BY <1>1, <2>1 DEF PoolInv, InPool, Distinct
  <1>8. HandInv'
    <2>1. ASSUME NEW v \in Users
          PROVE  /\ user'[v] \in {"replace", "start"} => conn'[hand'[v]] = "taken"
                 /\ user'[v] = "joined" =>
                      hand'[v] \in Conns /\ conn'[hand'[v]] \in {"started", "closed"}
                 /\ user'[v] \in {"idle", "get", "request", "wait", "failed"} =>
                      hand'[v] = NoConn
      BY <1>1, <1>3, <1>4 DEF HandInv, TypeOK
    <2>2. \A v, x \in Users : hand'[v] # NoConn /\ hand'[v] = hand'[x] => v = x
      BY <1>3, <1>4 DEF HandInv
    <2>3. hand[u] = NoConn
      BY <1>0 DEF HandInv
    <2>4. ASSUME NEW w \in Conns, conn'[w] \in {"taken", "started"}
          PROVE  \E v \in Users : hand'[v] = w
      <3>1. CASE w = h
        BY <1>3, <3>1
      <3>2. CASE w # h
        <4>1. PICK v \in Users : hand[v] = w
          BY <1>3, <2>4, <3>2 DEF HandInv
        <4>2. v # u
          BY <2>3, <4>1
        <4> QED BY <1>3, <4>1, <4>2
      <3> QED BY <3>1, <3>2
    <2> QED BY <2>1, <2>2, <2>4 DEF HandInv
  <1>9. EndInv'
    BY <1>0 DEF EndInv
  <1>10. JoinedIsStartedOrExhausted'
    BY <1>0, <1>1, <1>3, <1>4 DEF JoinedIsStartedOrExhausted, HandInv, TypeOK
  <1> QED BY <1>6, <1>7, <1>8, <1>9, <1>10

\* The stoper drains the pool.
LEMMA DrainStep ==
  ASSUME IInv, Drain
  PROVE  IInv'
  <1> USE PoolAssumption DEF IInv
  <1>1. CASE workConnCh = <<>>
    <2>1. /\ stoper' = "done"
          /\ UNCHANGED <<workConnCh, conn, user, hand, tries, sendLen, writer, mgr>>
      BY <1>1 DEF Drain
    <2>2. TypeOK'
      BY <2>1 DEF TypeOK
    <2>3. PoolInv' /\ HandInv' /\ JoinedIsStartedOrExhausted'
      BY <2>1 DEF PoolInv, InPool, Distinct, HandInv, JoinedIsStartedOrExhausted
    <2>4. EndInv'
      BY <1>1, <2>1 DEF EndInv
    <2> QED BY <2>2, <2>3, <2>4
  <1>2. CASE workConnCh # <<>>
    <2> DEFINE h == Head(workConnCh)
    <2>0. /\ conn' = [conn EXCEPT ![h] = "closed"]
          /\ workConnCh' = Tail(workConnCh)
          /\ UNCHANGED <<user, hand, tries, sendLen, writer, mgr, stoper>>
      BY <1>2 DEF Drain
    <2>1. /\ h \in Conns
          /\ InPool(workConnCh, h)
          /\ workConnCh' \in Seq(Conns)
          /\ Len(workConnCh') = Len(workConnCh) - 1
          /\ Distinct(workConnCh')
          /\ \A w : InPool(workConnCh', w) <=> InPool(workConnCh, w) /\ w # h
      BY <1>2, <2>0, TailPool DEF TypeOK, PoolInv
    <2>2. conn[h] = "pooled"
      BY <2>1 DEF PoolInv
    <2> HIDE DEF h
    <2>3. \A w \in Conns : conn'[w] = IF w = h THEN "closed" ELSE conn[w]
      BY <2>0 DEF TypeOK
    <2>4. \A v \in Users : hand[v] # h
      BY <2>1, <2>2, HeldConns
    <2>5. Len(workConnCh') <= PoolCap
      BY <2>1 DEF TypeOK
    <2>6. TypeOK'
      BY <2>0, <2>1, <2>3, <2>5 DEF TypeOK
    <2>7. PoolInv'
      <3>1. \A w \in Conns : conn'[w] = "pooled" <=> InPool(workConnCh', w)
        BY <2>1, <2>3 DEF PoolInv
      <3> QED BY <2>1, <3>1 DEF PoolInv, InPool, Distinct
    <2>8. HandInv'
      BY <2>0, <2>3, <2>4 DEF HandInv, TypeOK
    <2>9. EndInv'
      BY <1>2, <2>0 DEF EndInv
    <2>10. JoinedIsStartedOrExhausted'
      BY <2>0, <2>3, <2>4 DEF JoinedIsStartedOrExhausted, HandInv, TypeOK
    <2> QED BY <2>6, <2>7, <2>8, <2>9, <2>10
  <1> QED BY <1>1, <1>2

\* Steps of a user connection that move it without touching a connection.
LEMMA WalkSteps ==
  ASSUME IInv, NEW u \in Users,
         Accept(u) \/ FindEmpty(u) \/ Request(u) \/ GiveUp(u) \/ Replace(u)
  PROVE  IInv'
  <1> USE PoolAssumption DEF IInv
  <1>1. UNCHANGED <<workConnCh, conn, hand, writer, mgr, stoper>>
    BY DEF Accept, FindEmpty, Request, GiveUp, Replace
  <1>2. \/ /\ user[u] = "replace"
           /\ user' = [user EXCEPT ![u] = "start"]
           /\ UNCHANGED tries
        \/ /\ user[u] \in {"get", "request", "wait"}
           /\ user' \in {[user EXCEPT ![u] = "request"], [user EXCEPT ![u] = "wait"],
                         [user EXCEPT ![u] = "failed"]}
           /\ UNCHANGED tries
        \/ /\ user[u] = "idle"
           /\ user' = [user EXCEPT ![u] = "get"]
           /\ tries' = [tries EXCEPT ![u] = 0]
    BY DEF Accept, FindEmpty, Request, GiveUp, Replace
  <1>3. sendLen' \in 0..SendCap
    BY DEF Accept, FindEmpty, Request, GiveUp, Replace, TypeOK
  <1>4. TypeOK'
    <2>1. user' \in [Users -> {"idle", "get", "request", "wait", "replace", "start",
                              "joined", "failed"}]
      BY <1>2 DEF TypeOK
    <2>2. tries' \in [Users -> 0..PoolCount]
      <3>1. 0 \in 0..PoolCount
        OBVIOUS
      <3>2. tries' = tries \/ tries' = [tries EXCEPT ![u] = 0]
        BY <1>2
      <3> QED BY <3>1, <3>2 DEF TypeOK
    <2>3. \A v \in Users : user'[v] \in {"replace", "start"} => hand'[v] \in Conns
      BY <1>1, <1>2 DEF TypeOK
    <2> QED BY <1>1, <1>3, <2>1, <2>2, <2>3 DEF TypeOK
  <1>5. PoolInv' /\ EndInv'
    BY <1>1 DEF PoolInv, InPool, Distinct, EndInv
  <1>6. HandInv'
    BY <1>1, <1>2 DEF HandInv, TypeOK
  <1>7. JoinedIsStartedOrExhausted'
    BY <1>1, <1>2 DEF JoinedIsStartedOrExhausted, TypeOK
  <1> QED BY <1>4, <1>5, <1>6, <1>7

\* StartWorkConn is written, or the write fails.
LEMMA StartSteps ==
  ASSUME IInv, NEW u \in Users, StartOK(u) \/ StartFails(u)
  PROVE  IInv'
  <1> USE PoolAssumption DEF IInv
  <1> DEFINE h == hand[u]
  <1>0. user[u] = "start" /\ UNCHANGED <<workConnCh, sendLen, writer, mgr, stoper>>
    BY DEF StartOK, StartFails
  <1>1. h \in Conns /\ conn[h] = "taken"
    BY <1>0 DEF TypeOK, HandInv
  <1>2. ~InPool(workConnCh, h)
    BY <1>1 DEF PoolInv
  <1>3. \/ /\ conn' = [conn EXCEPT ![h] = "started"]
           /\ user' = [user EXCEPT ![u] = "joined"]
           /\ UNCHANGED <<hand, tries>>
        \/ /\ conn' = [conn EXCEPT ![h] = "closed"]
           /\ tries[u] < PoolCount
           /\ tries' = [tries EXCEPT ![u] = @ + 1]
           /\ user' = [user EXCEPT ![u] = "get"]
           /\ hand' = [hand EXCEPT ![u] = NoConn]
        \/ /\ conn' = [conn EXCEPT ![h] = "closed"]
           /\ ~(tries[u] < PoolCount)
           /\ user' = [user EXCEPT ![u] = "joined"]
           /\ UNCHANGED <<hand, tries>>
    BY DEF StartOK, StartFails
  <1>4. \A v \in Users : v # u => hand[v] # h
    BY <1>1 DEF HandInv, TypeOK
  <1>5. \E r \in {"started", "closed"} : conn' = [conn EXCEPT ![h] = r]
    BY <1>3
  <1>6. PICK r \in {"started", "closed"} : conn' = [conn EXCEPT ![h] = r]
    BY <1>5
  <1>7. TypeOK'
    <2>1. CASE UNCHANGED <<hand, tries>>
      BY <1>0, <1>3, <1>6, <2>1 DEF TypeOK
    <2>2. CASE /\ tries[u] < PoolCount
               /\ tries' = [tries EXCEPT ![u] = @ + 1]
               /\ user' = [user EXCEPT ![u] = "get"]
               /\ hand' = [hand EXCEPT ![u] = NoConn]
      BY <1>0, <1>6, <2>2 DEF TypeOK
    <2> QED BY <1>3, <2>1, <2>2
  <1>8. PoolInv' /\ EndInv'
    <2>1. \A w \in Conns : conn'[w] = IF w = h THEN r ELSE conn[w]
      BY <1>6 DEF TypeOK
    <2>2. UNCHANGED <<workConnCh, stoper>>
      BY <1>0
    <2>3. \A w \in Conns : conn'[w] = "pooled" <=> InPool(workConnCh, w)
      BY <1>2, <2>1 DEF PoolInv
    <2> QED BY <2>2, <2>3 DEF PoolInv, EndInv, InPool, Distinct
  <1> HIDE DEF h
  <1>9. HandInv'
    <2>1. CASE /\ conn' = [conn EXCEPT ![h] = "started"]
               /\ user' = [user EXCEPT ![u] = "joined"]
               /\ UNCHANGED <<hand, tries>>
      BY <1>1, <1>4, <2>1 DEF HandInv, TypeOK, h
    <2>2. CASE /\ conn' = [conn EXCEPT ![h] = "closed"]
               /\ tries[u] < PoolCount
               /\ tries' = [tries EXCEPT ![u] = @ + 1]
               /\ user' = [user EXCEPT ![u] = "get"]
               /\ hand' = [hand EXCEPT ![u] = NoConn]
      BY <1>1, <1>4, <2>2 DEF HandInv, TypeOK, h
    <2>3. CASE /\ conn' = [conn EXCEPT ![h] = "closed"]
               /\ user' = [user EXCEPT ![u] = "joined"]
               /\ UNCHANGED <<hand, tries>>
      BY <1>1, <1>4, <2>3 DEF HandInv, TypeOK, h
    <2> QED BY <1>3, <2>1, <2>2, <2>3
  <1>10. JoinedIsStartedOrExhausted'
    <2> SUFFICES ASSUME NEW v \in Users, user'[v] = "joined"
                 PROVE  conn'[hand'[v]] = "started" \/ tries'[v] = PoolCount
      BY DEF JoinedIsStartedOrExhausted
    <2>1. CASE v = u
      BY <1>1, <1>3, <2>1 DEF TypeOK, h
    <2>2. CASE v # u
      <3>1. user[v] = "joined" /\ hand'[v] = hand[v] /\ tries'[v] = tries[v]
        BY <1>3, <2>2 DEF TypeOK
      <3>2. hand[v] \in Conns /\ hand[v] # h
        BY <1>4, <2>2, <3>1 DEF HandInv
      <3>3. conn'[hand[v]] = conn[hand[v]]
        BY <1>6, <3>2 DEF TypeOK
      <3> QED BY <3>1, <3>3 DEF JoinedIsStartedOrExhausted
    <2> QED BY <2>1, <2>2
  <1> QED BY <1>7, <1>8, <1>9, <1>10

\* The handler returns and closes what it holds.
LEMMA FinishStep ==
  ASSUME IInv, NEW u \in Users, Finish(u)
  PROVE  IInv'
  <1> USE PoolAssumption DEF IInv
  <1>0. /\ user[u] \in {"joined", "failed"}
        /\ conn' = [w \in Conns |-> IF w = hand[u] THEN "closed" ELSE conn[w]]
        /\ user' = [user EXCEPT ![u] = "idle"]
        /\ hand' = [hand EXCEPT ![u] = NoConn]
        /\ UNCHANGED <<workConnCh, tries, sendLen, writer, mgr, stoper>>
    BY DEF Finish
  <1>1. \A w \in Conns : conn'[w] = IF w = hand[u] THEN "closed" ELSE conn[w]
    BY <1>0
  <1>2. hand[u] \in Conns => conn[hand[u]] \in {"started", "closed"}
    BY <1>0 DEF HandInv
  <1>3. \A v \in Users : /\ hand'[v] = IF v = u THEN NoConn ELSE hand[v]
                         /\ user'[v] = IF v = u THEN "idle" ELSE user[v]
    BY <1>0 DEF TypeOK
  <1>4. TypeOK'
    BY <1>0, <1>3 DEF TypeOK
  <1>5. PoolInv' /\ EndInv'
    <2>1. \A w \in Conns : conn'[w] = "pooled" <=> InPool(workConnCh, w)
      BY <1>1, <1>2 DEF PoolInv
    <2> QED BY <1>0, <2>1 DEF PoolInv, EndInv, InPool, Distinct
  <1>6. \A v \in Users : v # u /\ hand[v] \in Conns =>
          hand'[v] = hand[v] /\ conn'[hand[v]] = conn[hand[v]]
    BY <1>1, <1>3 DEF HandInv
  <1>7. HandInv'
    <2>1. ASSUME NEW v \in Users
          PROVE  /\ user'[v] \in {"replace", "start"} => conn'[hand'[v]] = "taken"
                 /\ user'[v] = "joined" =>
                      hand'[v] \in Conns /\ conn'[hand'[v]] \in {"started", "closed"}
                 /\ user'[v] \in {"idle", "get", "request", "wait", "failed"} =>
                      hand'[v] = NoConn
      BY <1>3, <1>6 DEF HandInv, TypeOK
    <2>2. \A v, x \in Users : hand'[v] # NoConn /\ hand'[v] = hand'[x] => v = x
      BY <1>3 DEF HandInv
    <2>3. ASSUME NEW w \in Conns, conn'[w] \in {"taken", "started"}
          PROVE  \E v \in Users : hand'[v] = w
      <3>1. w # hand[u] /\ conn[w] \in {"taken", "started"}
        BY <1>1, <2>3
      <3>2. PICK v \in Users : hand[v] = w
        BY <3>1 DEF HandInv
      <3> QED BY <1>3, <3>1, <3>2
    <2> QED BY <2>1, <2>2, <2>3 DEF HandInv
  <1>8. JoinedIsStartedOrExhausted'
    <2> SUFFICES ASSUME NEW v \in Users, user'[v] = "joined"
                 PROVE  conn'[hand'[v]] = "started" \/ tries'[v] = PoolCount
      BY DEF JoinedIsStartedOrExhausted
    <2>1. v # u /\ user[v] = "joined"
      BY <1>3
    <2>2. hand[v] \in Conns
      BY <2>1 DEF HandInv
    <2> QED BY <1>0, <1>6, <2>1, <2>2 DEF JoinedIsStartedOrExhausted
  <1> QED BY <1>4, <1>5, <1>7, <1>8

\* Steps of the writer and the first two of the stoper.
LEMMA ControlSteps ==
  ASSUME IInv, WriterWrite \/ WriterFails \/ ManagerReceives \/ ManagerReplies \/ ManagerEnds
                 \/ CloseSend \/ ClosePool \/ UNCHANGED vars
  PROVE  IInv'
  <1> USE PoolAssumption DEF IInv
  <1>1. UNCHANGED <<workConnCh, conn, user, hand, tries>>
    BY DEF WriterWrite, WriterFails, ManagerReceives, ManagerReplies, ManagerEnds, CloseSend,
           ClosePool, vars
  <1>2. /\ sendLen' \in 0..SendCap
        /\ writer' \in {"run", "done"}
        /\ mgr' \in {"idle", "reply", "done", "panicked"}
        /\ stoper' \in {stoper, "sendClosed", "poolClosed"}
    BY DEF WriterWrite, WriterFails, ManagerReceives, ManagerReplies, ManagerEnds, CloseSend,
           ClosePool, vars, TypeOK
  <1>3. TypeOK'
    BY <1>1, <1>2 DEF TypeOK
  <1>4. PoolInv' /\ HandInv' /\ EndInv' /\ JoinedIsStartedOrExhausted'
    BY <1>1, <1>2 DEF PoolInv, InPool, Distinct, HandInv, EndInv, JoinedIsStartedOrExhausted
  <1> QED BY <1>3, <1>4

LEMMA IInvNext == IInv /\ [Next]_vars => IInv'
  <1> SUFFICES ASSUME IInv, [Next]_vars PROVE IInv'
    OBVIOUS
  <1>1. ASSUME NEW w \in Conns, Arrive(w) \/ Refuse(w) \/ RegisterWorkConn(w)
        PROVE  IInv'
    BY <1>1, ConnSteps
  <1>2. ASSUME NEW u \in Users, Accept(u) \/ UserStep(u) \/ Finish(u)
        PROVE  IInv'
    BY <1>2, TakeStep, WalkSteps, StartSteps, FinishStep DEF UserStep
  <1>3. CASE WriterWrite \/ WriterFails \/ ManagerReceives \/ ManagerReplies \/ ManagerEnds
               \/ CloseSend \/ ClosePool \/ UNCHANGED vars
    BY <1>3, ControlSteps
  <1>4. CASE Drain
    BY <1>4, DrainStep
  <1> QED BY <1>1, <1>2, <1>3, <1>4 DEF Next

-----------------------------------------------------------------------------
\* Every reachable state satisfies the inductive invariant.
THEOREM PoolInvariant == Spec => []IInv
  BY IInvInit, IInvNext, PTL DEF Spec

(* Type correctness; the pool never exceeds its capacity.                  *)
THEOREM PoolTypes == Spec => []TypeOK
  BY PoolInvariant, PTL DEF IInv

(* A work connection is pooled once, or held by one user connection, for   *)
(* any number of both: RegisterWorkConn, GetWorkConn and the draining      *)
(* stoper never hand one out twice.                                        *)
THEOREM WorkConnsHaveOneOwner == Spec => []OneOwner
  <1>1. IInv => OneOwner
    BY DEF IInv, PoolInv, HandInv, InPool, Distinct, OneOwner
  <1> QED BY <1>1, PoolInvariant, PTL

(* After the shutdown of a control no connection is left in its pool.      *)
THEOREM PoolIsDrained == Spec => []NothingStranded
  <1>1. IInv => NothingStranded
    BY DEF IInv, PoolInv, EndInv, InPool, NothingStranded
  <1> QED BY <1>1, PoolInvariant, PTL

(* Only a user connection whose attempts are exhausted joins a connection  *)
(* to which StartWorkConn was not written.                                 *)
THEOREM RetriesBeforeJoining == Spec => []JoinedIsStartedOrExhausted
  BY PoolInvariant, PTL DEF IInv

-----------------------------------------------------------------------------
\* What handlers, writer, manager and stoper can do, by the guards of the steps that Fairness
\* owes them.
PoolCanGo ==
  \/ \E u \in Users :
       \/ user[u] \in {"get", "wait", "start"}
       \/ user[u] \in {"request", "replace"} /\ (SendClosed \/ sendLen < SendCap)
  \/ writer = "run" /\ sendLen > 0
  \/ writer = "done" /\ mgr = "idle"
  \/ mgr \in {"done", "panicked"} /\ ~SendClosed

HandlersHangAtSendOnly ==
  ~PoolCanGo =>
    \A u \in Users : user[u] \in {"idle", "joined", "failed"} \/ HangsAtSend(u)

(* What UserAnswered comes to when nothing can be done: of GetWorkConn and *)
(* GetWorkConnFromPool (server/control.go:231-279, server/proxy/proxy.go)  *)
(* a handler is left without a work connection or an error only with a     *)
(* request to send in a wedged control, for any capacities and any number  *)
(* of users.  Every other handler at a full sendCh has a writer to wait    *)
(* for, or a manager that ends and the closing of the channel.             *)
THEOREM HandlersAreLeftInAWedgeOnly == Spec => []HandlersHangAtSendOnly
  <1>1. ASSUME TypeOK, ~PoolCanGo, NEW u \in Users
        PROVE  user[u] \in {"idle", "joined", "failed"} \/ HangsAtSend(u)
    <2>1. user[u] \notin {"get", "wait", "start"}
      BY <1>1 DEF PoolCanGo
    <2>2. ASSUME user[u] \in {"request", "replace"} PROVE HangsAtSend(u)
      <3>1. ~SendClosed /\ ~(sendLen < SendCap)
        BY <1>1, <2>2 DEF PoolCanGo
      <3>2. sendLen = SendCap /\ sendLen > 0
        BY <1>1, <3>1, PoolAssumption DEF TypeOK
      <3>3. writer = "done" /\ mgr = "reply"
        BY <1>1, <3>1, <3>2 DEF PoolCanGo, TypeOK
      <3> QED BY <2>2, <3>2, <3>3 DEF HangsAtSend, Wedged
    <2> QED BY <1>1, <2>1, <2>2 DEF TypeOK
  <1>2. TypeOK => HandlersHangAtSendOnly
    BY <1>1 DEF HandlersHangAtSendOnly
  <1> QED BY <1>2, PoolTypes, PTL
=============================================================================
