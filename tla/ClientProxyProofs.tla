------------------------- MODULE ClientProxyProofs -------------------------
(***************************************************************************)
(* Proofs about ClientProxy, for any number of configurations and messages *)
(* under way.  What the client withdraws is closed on the server because   *)
(* each step into a withdrawn phase puts a CloseProxy behind all that is   *)
(* in the channel, and no wrapper leaves such a phase but by asking anew.  *)
(* The configurations take turns because only the current wrapper asks,    *)
(* and the server takes what is asked in order.  At the end, for any       *)
(* number of work connections, of UdpProxy: a broken one is given up.      *)
(***************************************************************************)
EXTENDS ClientProxyTurns, SequenceTheorems, FiniteSetTheorems, TLAPS

Withdrawn(w) == phase[w] \in {"check failed", "closed"}

\* The statement of WithdrawnIsClosed about one wrapper.
Covered(w) ==
  \A i \in 0..Len(c2s) : Requested(w, i) => \E j \in (i + 1)..Len(c2s) : c2s[j] = None

-----------------------------------------------------------------------------
\* A CloseProxy at the end of the channel covers everything before it.
LEMMA CloseCovers ==
  ASSUME ClientAssumption, c2s \in Seq(Wrappers \union {None}),
         c2s' = Append(c2s, None), registered' = registered, NEW w \in Wrappers
  PROVE  Covered(w)'
  <1>1. /\ Len(c2s') = Len(c2s) + 1
        /\ c2s'[Len(c2s) + 1] = None
    BY AppendProperties
  <1>2. Len(c2s) \in Nat
    OBVIOUS
  <1>3. ASSUME NEW i \in 0..Len(c2s'), Requested(w, i)'
        PROVE  \E j \in (i + 1)..Len(c2s') : c2s'[j] = None
    <2>1. i # Len(c2s')
      BY <1>1, <1>2, <1>3 DEF Requested, ClientAssumption
    <2>2. Len(c2s) + 1 \in (i + 1)..Len(c2s')
      BY <1>1, <1>2, <2>1
    <2> QED BY <1>1, <2>2
  <1> QED BY <1>3 DEF Covered

\* A NewProxy of another wrapper changes nothing for this one.
LEMMA OtherRequests ==
  ASSUME c2s \in Seq(Wrappers \union {None}), NEW v \in Wrappers, NEW w \in Wrappers,
         v # w, c2s' = Append(c2s, v), registered' = registered, Covered(w)
  PROVE  Covered(w)'
  <1>1. /\ Len(c2s') = Len(c2s) + 1
        /\ \A i \in 1..Len(c2s) : c2s'[i] = c2s[i]
        /\ c2s'[Len(c2s) + 1] = v
    BY AppendProperties
  <1>2. Len(c2s) \in Nat
    OBVIOUS
  <1>3. ASSUME NEW i \in 0..Len(c2s'), Requested(w, i)'
        PROVE  \E j \in (i + 1)..Len(c2s') : c2s'[j] = None
    <2>1. i \in 0..Len(c2s) /\ Requested(w, i)
      BY <1>1, <1>2, <1>3 DEF Requested
    <2>2. PICK j \in (i + 1)..Len(c2s) : c2s[j] = None
      BY <2>1 DEF Covered
    <2>3. j \in (i + 1)..Len(c2s') /\ c2s'[j] = None
      BY <1>1, <1>2, <2>1, <2>2
    <2> QED BY <2>3
  <1> QED BY <1>3 DEF Covered

\* The server takes a message: what it registers was covered in the channel.
LEMMA ServerKeepsCovered ==
  ASSUME ClientAssumption, c2s \in Seq(Wrappers \union {None}), NEW w \in Wrappers,
         Covered(w), c2s # <<>>, c2s' = Tail(c2s),
         \/ Head(c2s) # None /\ registered' \in {registered, Head(c2s)}
         \/ registered' = None
  PROVE  Covered(w)'
  <1>1. /\ Len(c2s') = Len(c2s) - 1
        /\ \A i \in 1..Len(c2s') : c2s'[i] = c2s[i + 1]
    BY HeadTailProperties
  <1>2. Len(c2s) \in Nat /\ Len(c2s) >= 1 /\ Head(c2s) = c2s[1]
    OBVIOUS
  <1>3. ASSUME NEW i \in 0..Len(c2s'), Requested(w, i)'
        PROVE  \E j \in (i + 1)..Len(c2s') : c2s'[j] = None
    <2>1. CASE i # 0
      <3>1. i + 1 \in 0..Len(c2s) /\ Requested(w, i + 1)
        BY <1>1, <1>2, <1>3, <2>1 DEF Requested
      <3>2. PICK j \in (i + 2)..Len(c2s) : c2s[j] = None
        BY <3>1 DEF Covered
      <3>3. j - 1 \in (i + 1)..Len(c2s') /\ c2s'[j - 1] = None
        BY <1>1, <1>2, <2>1, <3>2
      <3> QED BY <3>3
    <2>2. CASE i = 0
      <3>1. registered' = w /\ w # None
        BY <1>1, <1>2, <1>3, <2>2 DEF Requested, ClientAssumption
      <3>2. Head(c2s) # None /\ registered' \in {registered, Head(c2s)}
        BY <3>1
      <3>3. PICK k \in {0, 1} : Requested(w, k)
        BY <1>2, <3>1, <3>2 DEF Requested
      <3>4. k \in 0..Len(c2s)
        BY <1>2
      <3>5. PICK j \in (k + 1)..Len(c2s) : c2s[j] = None
        BY <3>3, <3>4 DEF Covered
      <3>6. j # 1 /\ j \in 1..Len(c2s)
        BY <1>2, <3>2, <3>5
      <3>7. j - 1 \in 1..Len(c2s') /\ c2s'[j - 1] = None
        BY <1>1, <1>2, <3>5, <3>6
      <3> QED BY <2>2, <3>7
    <2> QED BY <2>1, <2>2
  <1> QED BY <1>3 DEF Covered

-----------------------------------------------------------------------------
\* The types, step by step.
LEMMA TypeInit == Init => TypeOK
  <1> SUFFICES ASSUME Init PROVE TypeOK
    OBVIOUS
  <1> USE ClientAssumption DEF Init
  <1>1. phase \in [Wrappers -> Phases] /\ health \in [Wrappers -> {0, 1}]
    BY DEF Phases
  <1>2. failedTimes \in [Wrappers -> 0..MaxFailed]
    <2>1. 0 \in 0..MaxFailed
      OBVIOUS
    <2> QED BY <2>1
  <1>3. c2s \in Seq(Wrappers \union {None}) /\ s2c \in Seq(BOOLEAN)
    OBVIOUS
  <1>4. \A w \in Wrappers : phase[w] \in {"unborn", "closed"} <=> w # current
    OBVIOUS
  <1> QED BY <1>1, <1>2, <1>3, <1>4 DEF TypeOK

\* SendClose keeps the channel well-typed.
LEMMA SendCloseTypes ==
  ASSUME TypeOK, SendClose
  PROVE  c2s' \in Seq(Wrappers \union {None}) /\ mixed' \in BOOLEAN
  <1>1. None \in Wrappers \union {None} /\ c2s \in Seq(Wrappers \union {None})
    BY DEF TypeOK
  <1>2. Append(c2s, None) \in Seq(Wrappers \union {None})
    BY <1>1, AppendProperties
  <1> QED BY <1>2 DEF SendClose

\* What a reload does to the phases.
LEMMA ReplaceTypes ==
  ASSUME TypeOK, NEW new \in Wrappers \union {None}, Replace(new),
         new # None => phase[new] = "unborn"
  PROVE  TypeOK'
  <1> USE ClientAssumption
  <1>1. phase' \in [Wrappers -> Phases]
    <2>1. \A w \in Wrappers : phase'[w] \in Phases
      BY DEF TypeOK, Replace, Phases
    <2> QED BY <2>1 DEF Replace
  <1>2. c2s' \in Seq(Wrappers \union {None}) /\ mixed' \in BOOLEAN
    <2>1. CASE SendClose
      BY <2>1, SendCloseTypes
    <2>2. CASE UNCHANGED <<c2s, mixed>>
      BY <2>2 DEF TypeOK
    <2> QED BY <2>1, <2>2 DEF Replace
  <1>3. \A w \in Wrappers : phase'[w] \in {"unborn", "closed"} <=> w # current'
    BY DEF TypeOK, Replace
  <1> QED BY <1>1, <1>2, <1>3 DEF TypeOK, Replace

LEMMA TypeNext == TypeOK /\ [Next]_vars => TypeOK'
  <1> SUFFICES ASSUME TypeOK, [Next]_vars PROVE TypeOK'
    OBVIOUS
  <1> USE ClientAssumption
  <1>1. ASSUME NEW w \in Wrappers, Load(w) PROVE TypeOK'
    BY <1>1, ReplaceTypes DEF Load
  <1>2. CASE Drop
    BY <1>2, ReplaceTypes DEF Drop
  <1>3. ASSUME NEW w \in Wrappers, LoadHealth(w) PROVE TypeOK'
    BY <1>3 DEF TypeOK, LoadHealth
  <1>4. ASSUME NEW w \in Wrappers, RequestStart(w) PROVE TypeOK'
    <2>1. c2s' \in Seq(Wrappers \union {None})
      BY <1>4, AppendProperties DEF TypeOK, RequestStart
    <2>2. phase[w] \notin {"unborn", "closed"}
      BY <1>4 DEF RequestStart, Startable, Timed
    <2> QED BY <1>4, <2>1, <2>2 DEF TypeOK, RequestStart, Phases
  <1>5. ASSUME NEW w \in Wrappers, Withdraw(w) PROVE TypeOK'
    <2>1. c2s' \in Seq(Wrappers \union {None}) /\ mixed' = FALSE
      BY <1>5, AppendProperties DEF TypeOK, Withdraw, SendClose
    <2> QED BY <1>5, <2>1 DEF TypeOK, Withdraw, Phases
  <1>6. ASSUME NEW w \in Wrappers, Pass(w) PROVE TypeOK'
    BY <1>6 DEF TypeOK, Pass
  <1>7. ASSUME NEW w \in Wrappers, CheckPasses(w) PROVE TypeOK'
    BY <1>7 DEF TypeOK, CheckPasses
  <1>8. ASSUME NEW w \in Wrappers, CheckFails(w) PROVE TypeOK'
    <2>1. failedTimes' \in [Wrappers -> 0..MaxFailed]
      BY <1>8 DEF TypeOK, CheckFails
    <2>2. health' \in [Wrappers -> {0, 1}]
      BY <1>8 DEF TypeOK, CheckFails
    <2> QED BY <1>8, <2>1, <2>2 DEF TypeOK, CheckFails
  <1>9. CASE Deliver
    <2>1. s2c' \in Seq(BOOLEAN) /\ Head(s2c) \in BOOLEAN
      BY <1>9, HeadTailProperties DEF TypeOK, Deliver
    <2>2. handling' \in {<<>>} \union (Wrappers \X BOOLEAN)
      BY <1>9, <2>1 DEF TypeOK, Deliver
    <2> QED BY <1>9, <2>1, <2>2 DEF TypeOK, Deliver
  <1>10. CASE SetRunningStatus
    <2> DEFINE w == handling[1]
    <2>1. w \in Wrappers /\ handling' = <<>>
      BY <1>10 DEF TypeOK, SetRunningStatus
    <2>2. UNCHANGED <<current, health, seen, failedTimes, s2c, registered>>
      BY <1>10 DEF SetRunningStatus
    <2>3. \/ UNCHANGED <<phase, c2s, mixed>>
          \/ /\ phase[w] = "wait start"
             /\ phase' \in {[phase EXCEPT ![w] = "running"], [phase EXCEPT ![w] = "start error"]}
             /\ \/ UNCHANGED c2s /\ mixed' = (mixed \/ Unanswered > 0)
                \/ SendClose
      BY <1>10 DEF SetRunningStatus
    <2> HIDE DEF w
    <2>4. CASE UNCHANGED <<phase, c2s, mixed>>
      BY <2>1, <2>2, <2>4 DEF TypeOK
    <2>5. CASE /\ phase[w] = "wait start"
               /\ phase' \in {[phase EXCEPT ![w] = "running"], [phase EXCEPT ![w] = "start error"]}
               /\ \/ UNCHANGED c2s /\ mixed' = (mixed \/ Unanswered > 0)
                  \/ SendClose
      <3>1. mixed' \in BOOLEAN
        BY <2>5 DEF SendClose
      <3>2. c2s' \in Seq(Wrappers \union {None})
        <4>1. CASE SendClose
          BY <4>1, SendCloseTypes
        <4>2. CASE UNCHANGED c2s
          BY <4>2 DEF TypeOK
        <4> QED BY <2>5, <4>1, <4>2
      <3>3. phase' \in [Wrappers -> Phases]
        BY <2>1, <2>5 DEF TypeOK, Phases
      <3>4. \A v \in Wrappers : phase'[v] \in {"unborn", "closed"} <=> v # current
        BY <2>1, <2>5 DEF TypeOK
      <3> QED BY <2>1, <2>2, <3>1, <3>2, <3>3, <3>4 DEF TypeOK
    <2> QED BY <2>3, <2>4, <2>5
  <1>11. ASSUME NEW ok \in BOOLEAN, ServerNewProxy(ok) PROVE TypeOK'
    <2>1. Head(c2s) \in Wrappers /\ c2s' \in Seq(Wrappers \union {None})
      BY <1>11, HeadTailProperties DEF TypeOK, ServerNewProxy
    <2>2. s2c' \in Seq(BOOLEAN)
      BY <1>11, AppendProperties DEF TypeOK, ServerNewProxy
    <2> QED BY <1>11, <2>1, <2>2 DEF TypeOK, ServerNewProxy
  <1>12. CASE ServerCloseProxy
    <2>1. c2s' \in Seq(Wrappers \union {None})
      BY <1>12, HeadTailProperties DEF TypeOK, ServerCloseProxy
    <2> QED BY <1>12, <2>1 DEF TypeOK, ServerCloseProxy
  <1>13. CASE UNCHANGED vars
    BY <1>13 DEF TypeOK, vars
  <1> QED BY <1>1, <1>2, <1>3, <1>4, <1>5, <1>6, <1>7, <1>8, <1>9, <1>10, <1>11, <1>12, <1>13
          DEF Next, CheckWorker, Client, Server

(* Type correctness; one wrapper of the name is alive, the current one.    *)
THEOREM ClientTypes == Spec => []TypeOK
  BY TypeInit, TypeNext, PTL DEF Spec

-----------------------------------------------------------------------------
\* Nothing that matters here changes.
LEMMA CoveredUnchanged ==
  ASSUME WithdrawnIsClosed, UNCHANGED <<c2s, registered>>,
         \A w \in Wrappers : Withdrawn(w)' => Withdrawn(w)
  PROVE  WithdrawnIsClosed'
  BY DEF WithdrawnIsClosed, Withdrawn, Requested

\* A step that sends CloseProxy covers every wrapper.
LEMMA CloseCoversAll ==
  ASSUME TypeOK, SendClose, UNCHANGED registered
  PROVE  WithdrawnIsClosed'
  <1>1. ASSUME NEW w \in Wrappers PROVE Covered(w)'
    BY ClientAssumption, CloseCovers DEF TypeOK, SendClose
  <1> QED BY <1>1 DEF WithdrawnIsClosed, Covered

LEMMA WithdrawnNext ==
  TypeOK /\ WithdrawnIsClosed /\ [Next]_vars => WithdrawnIsClosed'
  <1> SUFFICES ASSUME TypeOK, WithdrawnIsClosed, [Next]_vars PROVE WithdrawnIsClosed'
    OBVIOUS
  <1> USE ClientAssumption
  <1>0. \A w \in Wrappers : Withdrawn(w) => Covered(w)
    BY DEF WithdrawnIsClosed, Withdrawn, Covered
  <1>1. ASSUME NEW new, Replace(new) PROVE WithdrawnIsClosed'
    <2>1. CASE current # None
      BY <1>1, <2>1, CloseCoversAll DEF Replace
    <2>2. CASE current = None
      <3>1. UNCHANGED <<c2s, registered>>
        BY <1>1, <2>2 DEF Replace
      <3>2. \A w \in Wrappers : Withdrawn(w)' => Withdrawn(w)
        BY <1>1, <2>2 DEF Replace, Withdrawn
      <3> QED BY <3>1, <3>2, CoveredUnchanged
    <2> QED BY <2>1, <2>2
  <1>2. ASSUME NEW w \in Wrappers, RequestStart(w) PROVE WithdrawnIsClosed'
    <2>1. ~Withdrawn(w)' /\ \A v \in Wrappers : v # w => phase'[v] = phase[v]
      BY <1>2 DEF RequestStart, TypeOK, Withdrawn
    <2>2. ASSUME NEW v \in Wrappers, Withdrawn(v)' PROVE Covered(v)'
      <3>1. v # w /\ Covered(v)
        BY <1>0, <2>1, <2>2 DEF Withdrawn
      <3> QED BY <1>2, <3>1, OtherRequests DEF RequestStart, TypeOK
    <2> QED BY <2>2 DEF WithdrawnIsClosed, Withdrawn, Covered
  <1>3. ASSUME NEW w \in Wrappers, Withdraw(w) PROVE WithdrawnIsClosed'
    BY <1>3, CloseCoversAll DEF Withdraw
  <1>4. ASSUME NEW w \in Wrappers,
               LoadHealth(w) \/ Pass(w) \/ CheckPasses(w) \/ CheckFails(w)
        PROVE  WithdrawnIsClosed'
    <2>1. UNCHANGED <<phase, c2s, registered>>
      BY <1>4 DEF LoadHealth, Pass, CheckPasses, CheckFails
    <2> QED BY <2>1, CoveredUnchanged DEF Withdrawn
  <1>5. CASE Deliver \/ UNCHANGED vars
    <2>1. UNCHANGED <<phase, c2s, registered>>
      BY <1>5 DEF Deliver, vars
    <2> QED BY <2>1, CoveredUnchanged DEF Withdrawn
  <1>6. CASE SetRunningStatus
    <2>1. CASE SendClose
      BY <1>6, <2>1, CloseCoversAll DEF SetRunningStatus
    <2>2. CASE ~SendClose
      <3>1. UNCHANGED <<c2s, registered>>
        BY <1>6, <2>2 DEF SetRunningStatus
      <3>2. \E x \in {phase[handling[1]], "running", "start error"} :
              phase' = [phase EXCEPT ![handling[1]] = x]
        BY <1>6, <2>2 DEF SetRunningStatus, TypeOK
      <3>3. \A w \in Wrappers : Withdrawn(w)' => Withdrawn(w)
        BY <3>2 DEF Withdrawn, TypeOK
      <3> QED BY <3>1, <3>3, CoveredUnchanged
    <2> QED BY <2>1, <2>2
  <1>7. ASSUME \/ \E ok \in BOOLEAN : ServerNewProxy(ok)
               \/ ServerCloseProxy
        PROVE  WithdrawnIsClosed'
    <2>1. /\ c2s # <<>>
          /\ c2s' = Tail(c2s)
          /\ \/ Head(c2s) # None /\ registered' \in {registered, Head(c2s)}
             \/ registered' = None
          /\ UNCHANGED phase
      BY <1>7 DEF ServerNewProxy, ServerCloseProxy
    <2>2. ASSUME NEW w \in Wrappers, Withdrawn(w)' PROVE Covered(w)'
      <3>1. Covered(w)
        BY <1>0, <2>1, <2>2 DEF Withdrawn
      <3>2. c2s \in Seq(Wrappers \union {None})
        BY DEF TypeOK
      <3> QED BY <2>1, <3>1, <3>2, ServerKeepsCovered
    <2> QED BY <2>2 DEF WithdrawnIsClosed, Withdrawn, Covered
  <1> QED BY <1>1, <1>2, <1>3, <1>4, <1>5, <1>6, <1>7
          DEF Next, Load, Drop, CheckWorker, Client, Server

(* Whatever the client withdrew or replaced, and however late the answers, *)
(* a CloseProxy follows every message that registers it: Wrapper.Stop and  *)
(* checkWorker leave no orphan on the server.                              *)
THEOREM WithdrawnProxiesAreClosed == Spec => []WithdrawnIsClosed
  <1>1. Init => WithdrawnIsClosed
    BY DEF Init, WithdrawnIsClosed
  <1> QED BY <1>1, ClientTypes, WithdrawnNext, PTL DEF Spec
-----------------------------------------------------------------------------
(***************************************************************************)
(* What client and server believe of each other.                           *)
(***************************************************************************)
\* Once the channel is empty the server will run nothing.
Withdrawing == IF c2s = <<>> THEN registered = None ELSE c2s[Len(c2s)] = None

\* A success that the wrapper w has not yet taken.
SuccessDue(w) == handling = <<w, TRUE>> \/ \E i \in 1..Len(s2c) : s2c[i]

\* No CloseProxy follows the i-th message.
Uncovered(i) == \A j \in (i + 1)..Len(c2s) : c2s[j] # None

\* The last answer on its way to w, the one that settles its state, is not a success.
LastFails(w) == IF s2c # <<>> THEN ~s2c[Len(s2c)] ELSE handling # <<w, TRUE>>

\* w waits for an answer and every one that was mixed up is behind a CloseProxy: w was the last
\* to ask, what the server will run in the end is w, and the answer that says so is due.
Asking(w) ==
  /\ c2s # <<>> => c2s[Len(c2s)] = w
  /\ \A i \in 1..Len(c2s) : c2s[i] # None /\ Uncovered(i) => c2s[i] = w
  /\ Uncovered(0) /\ registered # None => registered = w /\ SuccessDue(w)
  /\ c2s = <<>> /\ registered = None => LastFails(w)

\* What the phase of the current wrapper says of the server.
Agreement ==
  /\ current = None => Withdrawing
  /\ current # None /\ phase[current] \in {"new", "check failed"} => Withdrawing
  /\ current # None /\ phase[current] = "start error" /\ ~mixed => Withdrawing
  /\ current # None /\ phase[current] = "wait start" /\ ~mixed => Asking(current)
  /\ current # None /\ phase[current] = "running" /\ ~mixed
       => registered = current /\ c2s = <<>>

LEMMA AgreementInit == Init => Agreement
  BY DEF Init, Agreement, Withdrawing

\* A message at the end of a channel.
LEMMA Appended ==
  ASSUME NEW S, NEW s \in Seq(S), NEW m \in S
  PROVE  /\ Append(s, m) \in Seq(S) /\ Append(s, m) # <<>>
         /\ Len(Append(s, m)) = Len(s) + 1 /\ Len(s) \in Nat
         /\ \A i \in 1..Len(s) : Append(s, m)[i] = s[i]
         /\ Append(s, m)[Len(s) + 1] = m
  <1>1. /\ Append(s, m) \in Seq(S) /\ Len(Append(s, m)) = Len(s) + 1 /\ Len(s) \in Nat
        /\ \A i \in 1..Len(s) : Append(s, m)[i] = s[i]
        /\ Append(s, m)[Len(s) + 1] = m
    BY AppendProperties
  <1>2. Append(s, m) # <<>>
    <2>1. Len(Append(s, m)) # 0 /\ Len(<<>>) = 0
      BY <1>1, EmptySeq
    <2> QED BY <2>1
  <1> QED BY <1>1, <1>2

\* A CloseProxy at the end of the channel.
LEMMA CloseWithdraws ==
  ASSUME TypeOK, SendClose
  PROVE  Withdrawing'
  <1>1. c2s \in Seq(Wrappers \union {None}) /\ c2s' = Append(c2s, None)
    BY DEF TypeOK, SendClose
  <1>2. Len(c2s') = Len(c2s) + 1 /\ c2s'[Len(c2s) + 1] = None /\ c2s' # <<>>
    <2>1. None \in Wrappers \union {None}
      OBVIOUS
    <2> QED BY <1>1, <2>1, Appended
  <1> QED BY <1>2 DEF Withdrawing

\* Nothing is asked and nothing unanswered.
LEMMA NothingUnanswered ==
  ASSUME TypeOK, ~(Unanswered > 0)
  PROVE  s2c = <<>> /\ \A i \in 1..Len(c2s) : c2s[i] = None
  <1> DEFINE S == {i \in DOMAIN c2s : c2s[i] # None}
  <1>1. Len(c2s) \in Nat /\ Len(s2c) \in Nat /\ DOMAIN c2s = 1..Len(c2s)
    BY DEF TypeOK
  <1>2. IsFiniteSet(S) /\ Cardinality(S) \in Nat
    <2>1. IsFiniteSet(1..Len(c2s)) /\ S \subseteq 1..Len(c2s)
      BY <1>1, FS_Interval
    <2>2. IsFiniteSet(S)
      BY <2>1, FS_Subset
    <2> QED BY <2>2, FS_CardinalityType
  <1>3. Cardinality(S) = 0 /\ Len(s2c) = 0
    BY <1>1, <1>2 DEF Unanswered
  <1>4. S = {}
    BY <1>2, <1>3, FS_EmptySet
  <1>5. s2c = <<>>
    BY <1>3 DEF TypeOK
  <1> QED BY <1>1, <1>4, <1>5

\* checkWorker asks: what was asked before is either w's own or behind a CloseProxy.
LEMMA RequestAsks ==
  ASSUME TypeOK, NEW w \in Wrappers, Withdrawing \/ Asking(w),
         c2s' = Append(c2s, w), UNCHANGED <<s2c, handling, registered>>
  PROVE  Asking(w)'
  <1>1. /\ Len(c2s') = Len(c2s) + 1 /\ Len(c2s) \in Nat /\ c2s' # <<>>
        /\ \A i \in 1..Len(c2s) : c2s'[i] = c2s[i]
        /\ c2s'[Len(c2s) + 1] = w /\ w # None
    <2>1. c2s \in Seq(Wrappers \union {None}) /\ w \in Wrappers \union {None} /\ w # None
      BY ClientAssumption DEF TypeOK
    <2> QED BY <2>1, Appended
  <1>2. \A i \in 0..Len(c2s) : Uncovered(i)' <=> Uncovered(i)
    BY <1>1 DEF Uncovered
  <1>3. ASSUME NEW i \in 1..Len(c2s'), c2s'[i] # None, Uncovered(i)'
        PROVE  c2s'[i] = w
    <2>1. CASE i = Len(c2s) + 1
      BY <1>1, <2>1
    <2>2. CASE i \in 1..Len(c2s)
      <3>1. c2s[i] # None /\ Uncovered(i)
        BY <1>1, <1>2, <1>3, <2>2
      <3>2. ~Withdrawing
        <4>1. Len(c2s) \in i..Len(c2s) /\ c2s # <<>>
          BY <1>1, <2>2
        <4>2. i = Len(c2s) \/ Len(c2s) \in (i + 1)..Len(c2s)
          BY <1>1, <2>2
        <4> QED BY <3>1, <4>1, <4>2 DEF Uncovered, Withdrawing
      <3> QED BY <1>1, <2>2, <3>1, <3>2 DEF Asking
    <2> QED BY <1>1, <2>1, <2>2
  <1>4. ASSUME Uncovered(0)', registered' # None
        PROVE  registered' = w /\ SuccessDue(w)'
    <2>1. Uncovered(0)
      BY <1>1, <1>2, <1>4
    <2>2. ~Withdrawing
      <3>1. c2s # <<>> => Len(c2s) \in 1..Len(c2s)
        BY <1>1 DEF TypeOK
      <3> QED BY <1>4, <2>1, <3>1 DEF Withdrawing, Uncovered
    <2> QED BY <1>4, <2>1, <2>2 DEF Asking, SuccessDue
  <1> QED BY <1>1, <1>3, <1>4 DEF Asking

\* The server takes a message: the channel loses its head.
LEMMA ServerTakes ==
  ASSUME TypeOK, c2s # <<>>, c2s' = Tail(c2s)
  PROVE  /\ Len(c2s) \in Nat /\ Len(c2s) >= 1 /\ Head(c2s) = c2s[1]
         /\ Len(c2s') = Len(c2s) - 1
         /\ \A i \in 1..Len(c2s') : c2s'[i] = c2s[i + 1]
         /\ c2s' = <<>> <=> Len(c2s) = 1
         /\ c2s' # <<>> => c2s'[Len(c2s')] = c2s[Len(c2s)]
         /\ \A i \in 0..Len(c2s') : Uncovered(i)' <=> Uncovered(i + 1)
  <1>1. /\ Len(c2s) \in Nat /\ Len(c2s) >= 1 /\ Head(c2s) = c2s[1]
        /\ Len(c2s') = Len(c2s) - 1
        /\ \A i \in 1..Len(c2s') : c2s'[i] = c2s[i + 1]
        /\ c2s' \in Seq(Wrappers \union {None})
    BY HeadTailProperties DEF TypeOK
  <1>2. c2s' = <<>> <=> Len(c2s') = 0
    BY <1>1
  <1>3. c2s' # <<>> => c2s'[Len(c2s')] = c2s[Len(c2s)]
    BY <1>1, <1>2
  <1>4. ASSUME NEW i \in 0..Len(c2s')
        PROVE  Uncovered(i)' <=> Uncovered(i + 1)
    <2>1. ASSUME Uncovered(i)', NEW j \in (i + 2)..Len(c2s) PROVE c2s[j] # None
      <3>1. j - 1 \in (i + 1)..Len(c2s') /\ j - 1 \in 1..Len(c2s') /\ (j - 1) + 1 = j
        BY <1>1, <1>4
      <3> QED BY <1>1, <2>1, <3>1 DEF Uncovered
    <2>2. ASSUME Uncovered(i + 1), NEW j \in (i + 1)..Len(c2s') PROVE c2s'[j] # None
      <3>1. j + 1 \in ((i + 1) + 1)..Len(c2s) /\ j \in 1..Len(c2s')
        BY <1>1, <1>4
      <3> QED BY <1>1, <2>2, <3>1 DEF Uncovered
    <2>3. (i + 1) + 1 = i + 2
      BY <1>1
    <2> QED BY <2>1, <2>2, <2>3 DEF Uncovered
  <1> QED BY <1>1, <1>2, <1>3, <1>4

LEMMA ServerKeepsWithdrawing ==
  ASSUME TypeOK, Withdrawing, c2s # <<>>, c2s' = Tail(c2s),
         \/ Head(c2s) # None
         \/ registered' = None
  PROVE  Withdrawing'
  BY ServerTakes DEF Withdrawing

LEMMA RegisterKeepsAsking ==
  ASSUME TypeOK, NEW w \in Wrappers, Asking(w), NEW ok \in BOOLEAN, ServerNewProxy(ok)
  PROVE  Asking(w)'
  <1>0. c2s # <<>> /\ Head(c2s) # None /\ c2s' = Tail(c2s)
    BY DEF ServerNewProxy
  <1>1. /\ s2c' \in Seq(BOOLEAN) /\ s2c' # <<>> /\ s2c'[Len(s2c')] = ok
        /\ \A i \in 1..Len(s2c) : i \in 1..Len(s2c') /\ s2c'[i] = s2c[i]
        /\ Len(s2c') \in 1..Len(s2c')
    BY AppendProperties DEF ServerNewProxy, TypeOK
  <1>2. c2s' # <<>> => c2s'[Len(c2s')] = w
    BY <1>0, ServerTakes DEF Asking
  <1>3. ASSUME NEW i \in 1..Len(c2s'), c2s'[i] # None, Uncovered(i)' PROVE c2s'[i] = w
    <2>1. i + 1 \in 1..Len(c2s) /\ c2s[i + 1] # None /\ Uncovered(i + 1)
      BY <1>0, <1>3, ServerTakes
    <2> QED BY <1>0, <1>3, <2>1, ServerTakes DEF Asking
  <1>4. ASSUME Uncovered(0)', registered' # None
        PROVE  registered' = w /\ SuccessDue(w)'
    <2>1. 0 \in 0..Len(c2s') /\ 1 \in 1..Len(c2s) /\ c2s[1] # None
      BY <1>0, ServerTakes
    <2>2. Uncovered(1)
      BY <1>0, <1>4, <2>1, ServerTakes
    <2>3. c2s[1] = w
      BY <2>1, <2>2 DEF Asking
    <2>4. CASE ok
      BY <1>0, <1>1, <2>1, <2>3, <2>4, ServerTakes DEF ServerNewProxy, SuccessDue
    <2>5. CASE ~ok
      <3>1. Uncovered(0)
        <4>1. ASSUME NEW j \in (0 + 1)..Len(c2s) PROVE c2s[j] # None
          <5>1. j = 1 \/ j \in (1 + 1)..Len(c2s)
            BY <1>0, ServerTakes
          <5> QED BY <2>1, <2>2, <5>1 DEF Uncovered
        <4> QED BY <4>1 DEF Uncovered
      <3>2. registered' = registered /\ handling' = handling
        BY <2>5 DEF ServerNewProxy
      <3>3. registered = w /\ SuccessDue(w)
        BY <1>4, <3>1, <3>2 DEF Asking
      <3> QED BY <1>1, <3>2, <3>3 DEF SuccessDue
    <2> QED BY <2>4, <2>5
  <1>5. ASSUME c2s' = <<>>, registered' = None PROVE LastFails(w)'
    <2>1. ~ok
      BY <1>0, <1>5 DEF ServerNewProxy
    <2> QED BY <1>1, <2>1 DEF LastFails
  <1> QED BY <1>2, <1>3, <1>4, <1>5 DEF Asking

LEMMA UnregisterKeepsAsking ==
  ASSUME TypeOK, NEW w \in Wrappers, Asking(w), ServerCloseProxy
  PROVE  Asking(w)'
  <1>1. c2s # <<>> /\ Head(c2s) = None /\ c2s' = Tail(c2s) /\ registered' = None
    BY DEF ServerCloseProxy
  <1>2. c2s' # <<>>
    BY <1>1, ServerTakes, ClientAssumption DEF Asking
  <1>3. ASSUME NEW i \in 1..Len(c2s'), c2s'[i] # None, Uncovered(i)' PROVE c2s'[i] = w
    <2>1. i + 1 \in 1..Len(c2s) /\ c2s[i + 1] # None /\ Uncovered(i + 1)
      BY <1>1, <1>3, ServerTakes
    <2> QED BY <1>1, <1>3, <2>1, ServerTakes DEF Asking
  <1> QED BY <1>1, <1>2, <1>3, ServerTakes DEF Asking

LEMMA DeliverKeepsAsking ==
  ASSUME TypeOK, NEW w \in Wrappers, current = w, Asking(w), Deliver
  PROVE  Asking(w)'
  <1>1. /\ handling = <<>> /\ s2c # <<>> /\ s2c' = Tail(s2c)
        /\ handling' = <<w, Head(s2c)>> /\ UNCHANGED <<c2s, registered>>
    BY ClientAssumption DEF Deliver
  <1>2. /\ Len(s2c) \in Nat /\ Len(s2c) >= 1 /\ Head(s2c) = s2c[1]
        /\ Len(s2c') = Len(s2c) - 1 /\ s2c' \in Seq(BOOLEAN)
        /\ \A i \in 1..Len(s2c') : s2c'[i] = s2c[i + 1]
        /\ \A i \in 1..Len(s2c) : s2c[i] \in BOOLEAN
    BY <1>1, HeadTailProperties DEF TypeOK
  <1>3. SuccessDue(w) => SuccessDue(w)'
    <2>1. ASSUME NEW i \in 1..Len(s2c), s2c[i] PROVE SuccessDue(w)'
      <3>1. CASE i = 1
        BY <1>1, <1>2, <2>1, <3>1 DEF SuccessDue
      <3>2. CASE i # 1
        <4>1. i - 1 \in 1..Len(s2c') /\ s2c'[i - 1] = s2c[i]
          BY <1>2, <3>2
        <4> QED BY <2>1, <4>1 DEF SuccessDue
      <3> QED BY <3>1, <3>2
    <2>2. handling # <<w, TRUE>>
      BY <1>1
    <2> QED BY <2>1, <2>2 DEF SuccessDue
  <1>4. LastFails(w) => LastFails(w)'
    <2>1. CASE s2c' = <<>>
      <3>1. Len(s2c) = 1
        BY <1>2, <2>1
      <3> QED BY <1>1, <1>2, <2>1, <3>1 DEF LastFails
    <2>2. CASE s2c' # <<>>
      <3>1. s2c'[Len(s2c')] = s2c[Len(s2c)]
        BY <1>2, <2>2
      <3> QED BY <1>1, <2>2, <3>1 DEF LastFails
    <2> QED BY <2>1, <2>2
  <1> QED BY <1>1, <1>3, <1>4 DEF Asking, Uncovered

\* An answer that w takes when no other is due settles what the server runs.
LEMMA AnswerSettles ==
  ASSUME TypeOK, NEW w \in Wrappers, NEW ok \in BOOLEAN, Asking(w),
         handling = <<w, ok>>, ~(Unanswered > 0)
  PROVE  c2s = <<>> /\ registered = IF ok THEN w ELSE None
  <1>1. s2c = <<>> /\ \A i \in 1..Len(c2s) : c2s[i] = None
    BY NothingUnanswered
  <1>2. c2s = <<>>
    <2>1. c2s # <<>> => Len(c2s) \in 1..Len(c2s)
      BY DEF TypeOK
    <2> QED BY <1>1, <2>1, ClientAssumption DEF Asking
  <1>3. Uncovered(0)
    BY <1>2 DEF Uncovered
  <1>4. SuccessDue(w) => ok
    <2>1. 1..Len(s2c) = {}
      BY <1>1
    <2>2. handling[2] = ok
      OBVIOUS
    <2> QED BY <2>1, <2>2 DEF SuccessDue
  <1>5. LastFails(w) => ~ok
    BY <1>1 DEF LastFails
  <1> QED BY <1>2, <1>3, <1>4, <1>5 DEF Asking

LEMMA AgreementStep == TypeOK /\ Agreement /\ [Next]_vars => Agreement'
  <1> SUFFICES ASSUME TypeOK, Agreement, [Next]_vars PROVE Agreement'
    OBVIOUS
  <1> USE ClientAssumption
  <1>0. current # None => current \in Wrappers
    BY DEF TypeOK
  <1>1. ASSUME NEW new \in Wrappers \union {None}, Replace(new) PROVE Agreement'
    <2>1. Withdrawing'
      <3>1. CASE current # None
        BY <1>1, <3>1, CloseWithdraws DEF Replace
      <3>2. CASE current = None
        BY <1>1, <3>2 DEF Replace, Agreement, Withdrawing
      <3> QED BY <3>1, <3>2
    <2>2. current' = new /\ (new # None => phase'[new] = "new")
      BY <1>1 DEF Replace
    <2> QED BY <2>1, <2>2 DEF Agreement
  <1>2. ASSUME NEW w \in Wrappers, RequestStart(w) PROVE Agreement'
    <2>1. current = w /\ current' = w /\ phase[w] \in Startable /\ phase'[w] = "wait start"
      BY <1>2 DEF RequestStart, TypeOK, Startable, Timed
    <2>2. ~mixed => Withdrawing \/ Asking(w)
      BY <2>1 DEF Agreement, Startable, Timed
    <2>3. ~mixed => Asking(w)'
      BY <1>2, <2>2, RequestAsks DEF RequestStart
    <2> QED BY <1>2, <2>1, <2>3 DEF RequestStart, Agreement
  <1>3. ASSUME NEW w \in Wrappers, Withdraw(w) PROVE Agreement'
    <2>1. current' = w /\ phase'[w] = "check failed"
      BY <1>3 DEF Withdraw, TypeOK
    <2>2. Withdrawing'
      BY <1>3, CloseWithdraws DEF Withdraw
    <2> QED BY <2>1, <2>2 DEF Agreement
  <1>4. ASSUME UNCHANGED <<current, phase, c2s, s2c, handling, registered, mixed>>
        PROVE  Agreement'
    BY <1>4 DEF Agreement, Withdrawing, Asking, SuccessDue, LastFails, Uncovered
  <1>5. CASE Deliver
    <2>1. UNCHANGED <<current, phase, c2s, registered, mixed>>
      BY <1>5 DEF Deliver
    <2>2. current # None /\ Asking(current) => Asking(current)'
      <3>1. ASSUME NEW w \in Wrappers, w = current, Asking(w) PROVE Asking(current)'
        BY <1>5, <2>1, <3>1, DeliverKeepsAsking
      <3> QED BY <1>0, <3>1
    <2>3. Withdrawing' <=> Withdrawing
      BY <2>1 DEF Withdrawing
    <2> QED BY <2>1, <2>2, <2>3 DEF Agreement
  <1>6. CASE SetRunningStatus
    <2> DEFINE w == handling[1]
               ok == handling[2]
    <2>1. w \in Wrappers /\ ok \in BOOLEAN /\ handling = <<w, ok>> /\ handling' = <<>>
      <3>1. handling \in Wrappers \X BOOLEAN /\ handling' = <<>>
        BY <1>6 DEF SetRunningStatus, TypeOK
      <3> QED BY <3>1
    <2>2. UNCHANGED <<current, s2c, registered>>
      BY <1>6 DEF SetRunningStatus
    <2>3. IF phase[w] # "wait start" THEN UNCHANGED <<phase, c2s, mixed>>
          ELSE \/ /\ phase' = [phase EXCEPT ![w] = IF ok THEN "running" ELSE "start error"]
                  /\ mixed' = (mixed \/ Unanswered > 0)
                  /\ UNCHANGED c2s
               \/ phase' = [phase EXCEPT ![w] = "start error"] /\ SendClose
      BY <1>6 DEF SetRunningStatus
    <2> HIDE DEF w, ok
    <2>4. CASE phase[w] # "wait start"
      <3>1. UNCHANGED <<phase, c2s, mixed>>
        BY <2>3, <2>4
      <3>2. ASSUME current # None, phase[current] = "wait start", Asking(current)
            PROVE  Asking(current)'
        <4>1. current # w
          BY <2>4, <3>2
        <4>2. \A b \in BOOLEAN : handling # <<current, b>> /\ handling' # <<current, b>>
          BY <2>1, <4>1
        <4> QED BY <2>2, <3>1, <3>2, <4>2
            DEF Asking, SuccessDue, LastFails, Uncovered
      <3>3. Withdrawing' <=> Withdrawing
        BY <2>2, <3>1 DEF Withdrawing
      <3> QED BY <2>2, <3>1, <3>2, <3>3 DEF Agreement
    <2>5. CASE phase[w] = "wait start"
      <3>1. current = w /\ w # None
        BY <2>1, <2>5 DEF TypeOK
      <3>2. ~mixed => Asking(w)
        BY <2>5, <3>1 DEF Agreement
      <3>3. CASE SendClose /\ phase' = [phase EXCEPT ![w] = "start error"]
        <4>1. Withdrawing' /\ phase'[w] = "start error"
          BY <2>1, <3>3, CloseWithdraws DEF TypeOK
        <4> QED BY <2>2, <3>1, <4>1 DEF Agreement
      <3>4. CASE /\ phase' = [phase EXCEPT ![w] = IF ok THEN "running" ELSE "start error"]
                 /\ mixed' = (mixed \/ Unanswered > 0)
                 /\ UNCHANGED c2s
        <4>1. phase'[w] = IF ok THEN "running" ELSE "start error"
          BY <2>1, <3>4 DEF TypeOK
        <4>2. ~mixed' => c2s = <<>> /\ registered = IF ok THEN w ELSE None
          BY <2>1, <3>2, <3>4, AnswerSettles
        <4>3. current' = w /\ registered' = registered /\ c2s' = c2s
          BY <2>2, <3>1, <3>4
        <4>4. CASE ok
          BY <3>1, <4>1, <4>2, <4>3, <4>4 DEF Agreement
        <4>5. CASE ~ok
          BY <3>1, <4>1, <4>2, <4>3, <4>5 DEF Agreement, Withdrawing
        <4> QED BY <4>4, <4>5
      <3> QED BY <2>3, <2>5, <3>3, <3>4
    <2> QED BY <2>4, <2>5
  <1>7. ASSUME NEW ok \in BOOLEAN, ServerNewProxy(ok) PROVE Agreement'
    <2>1. UNCHANGED <<current, phase, mixed>> /\ c2s # <<>> /\ Head(c2s) # None /\ c2s' = Tail(c2s)
      BY <1>7 DEF ServerNewProxy
    <2>2. Withdrawing => Withdrawing'
      BY <2>1, ServerKeepsWithdrawing
    <2>3. current # None /\ Asking(current) => Asking(current)'
      BY <1>0, <1>7, <2>1, RegisterKeepsAsking
    <2> QED BY <2>1, <2>2, <2>3 DEF Agreement
  <1>8. CASE ServerCloseProxy
    <2>1. UNCHANGED <<current, phase, mixed>> /\ c2s # <<>> /\ c2s' = Tail(c2s) /\ registered' = None
      BY <1>8 DEF ServerCloseProxy
    <2>2. Withdrawing => Withdrawing'
      BY <2>1, ServerKeepsWithdrawing
    <2>3. current # None /\ Asking(current) => Asking(current)'
      BY <1>0, <1>8, <2>1, UnregisterKeepsAsking
    <2> QED BY <2>1, <2>2, <2>3 DEF Agreement
  <1> QED BY <1>1, <1>2, <1>3, <1>4, <1>5, <1>6, <1>7, <1>8
          DEF Next, Load, Drop, CheckWorker, LoadHealth, Pass, CheckPasses, CheckFails,
              Client, Server, vars

LEMMA AgreementImplies == TypeOK /\ Agreement => QuietMeansAgreement
  <1> SUFFICES ASSUME TypeOK, Agreement, c2s = <<>>, s2c = <<>>, handling = <<>>, ~mixed
               PROVE  registered = IF current # None /\ phase[current] = "running"
                                   THEN current ELSE None
    BY DEF QuietMeansAgreement
  <1>1. Withdrawing => registered = None
    BY DEF Withdrawing
  <1>2. current # None => Uncovered(0) /\ ~SuccessDue(current)
    BY DEF Uncovered, SuccessDue
  <1>3. current # None => phase[current] \in Phases \ {"unborn", "closed"}
    BY DEF TypeOK
  <1> QED BY <1>1, <1>2, <1>3 DEF Agreement, Asking, Phases

(* QuietMeansAgreement: once the messages under way are dealt with, the    *)
(* server runs the proxy exactly if the wrapper is running, although an    *)
(* answer names neither its question nor its wrapper -- unless one was     *)
(* taken while another was due (client/proxy/proxy_wrapper.go:99-125,      *)
(* 147-199).                                                               *)
THEOREM QuietIsAgreement == Spec => []QuietMeansAgreement
  BY AgreementInit, AgreementStep, AgreementImplies, ClientTypes, PTL DEF Spec
-----------------------------------------------------------------------------
(***************************************************************************)
(* The turns of the configurations.                                        *)
(***************************************************************************)
\* What makes ClientProxy implement ProxyTurns: those before a wrapper are closed, requests are
\* for wrappers that were loaded, and none of them is for one that was loaded before another
\* one's that is ahead of it in the channel.
TurnsInv ==
  /\ before \in [Wrappers -> SUBSET Wrappers]
  /\ \A w \in Wrappers : \A v \in before[w] : phase[v] = "closed" /\ v # w
  /\ \A i \in 1..Len(c2s) : c2s[i] # None => phase[c2s[i]] # "unborn"
  /\ \A i, j \in 1..Len(c2s) : i < j /\ c2s[i] # None /\ c2s[j] # None => c2s[j] \notin before[c2s[i]]

\* The three things that happen to the channel.
Sends(m) == c2s' = Append(c2s, m)
Takes == c2s # <<>> /\ c2s' = Tail(c2s)

LEMMA SendsIs ==
  ASSUME TypeOK, NEW m, Sends(m)
  PROVE  /\ Len(c2s) \in Nat /\ Len(c2s') = Len(c2s) + 1
         /\ \A i \in 1..Len(c2s) : c2s'[i] = c2s[i]
         /\ c2s'[Len(c2s) + 1] = m
  BY AppendProperties DEF TypeOK, Sends

LEMMA TakesIs ==
  ASSUME TypeOK, Takes
  PROVE  /\ Len(c2s) \in Nat /\ Len(c2s) >= 1 /\ Len(c2s') = Len(c2s) - 1
         /\ Head(c2s) = c2s[1]
         /\ \A i \in 1..Len(c2s') : c2s'[i] = c2s[i + 1]
  BY HeadTailProperties DEF TypeOK, Takes

\* How a step changes the phases, the channel and what the server runs.
LEMMA StepIs ==
  ASSUME TypeOK, Next
  PROVE  \/ \E new \in Wrappers \union {None} :
              /\ new # None => phase[new] = "unborn"
              /\ current' = new
              /\ phase' = [w \in Wrappers |-> IF w = new THEN "new"
                                              ELSE IF w = current THEN "closed" ELSE phase[w]]
              /\ Sends(None) \/ UNCHANGED c2s
              /\ registered' = registered
         \/ /\ UNCHANGED <<current, registered>>
            /\ \A w \in Wrappers : /\ phase'[w] = "closed" <=> phase[w] = "closed"
                                   /\ phase'[w] = "unborn" <=> phase[w] = "unborn"
            /\ \/ UNCHANGED c2s \/ Sends(None)
               \/ current # None /\ phase[current] # "closed" /\ Sends(current)
         \/ /\ UNCHANGED <<current, phase>> /\ Takes
            /\ \/ Head(c2s) # None /\ registered' = registered
               \/ Head(c2s) # None /\ registered = None /\ registered' = Head(c2s)
               \/ Head(c2s) = None /\ registered' = None
  <1> USE ClientAssumption
  <1> DEFINE Same == \A w \in Wrappers : /\ phase'[w] = "closed" <=> phase[w] = "closed"
                                         /\ phase'[w] = "unborn" <=> phase[w] = "unborn"
  <1>1. ASSUME NEW w \in Wrappers, Load(w) PROVE Replace(w) /\ phase[w] = "unborn"
    BY <1>1 DEF Load
  <1>2. CASE \E new \in Wrappers \union {None} :
               Replace(new) /\ (new # None => phase[new] = "unborn")
    BY <1>2 DEF Replace, SendClose, Sends
  <1>3. ASSUME NEW w \in Wrappers, RequestStart(w)
        PROVE  /\ UNCHANGED <<current, registered>> /\ Same
               /\ current # None /\ phase[current] # "closed" /\ Sends(current)
    <2>1. phase[w] \notin {"closed", "unborn"} /\ w = current
      BY <1>3 DEF RequestStart, Startable, Timed, TypeOK
    <2>2. Same
      BY <1>3, <2>1 DEF RequestStart, TypeOK
    <2> QED BY <1>3, <2>1, <2>2 DEF RequestStart, Sends
  <1>4. ASSUME NEW w \in Wrappers, Withdraw(w)
        PROVE  UNCHANGED <<current, registered>> /\ Same /\ Sends(None)
    BY <1>4 DEF Withdraw, SendClose, Sends, TypeOK
  <1>5. ASSUME NEW w \in Wrappers, LoadHealth(w) \/ Pass(w) \/ CheckPasses(w) \/ CheckFails(w)
        PROVE  UNCHANGED <<current, registered, phase, c2s>>
    BY <1>5 DEF LoadHealth, Pass, CheckPasses, CheckFails
  <1>6. CASE Deliver
    BY <1>6 DEF Deliver
  <1>7. CASE SetRunningStatus
    <2>1. UNCHANGED <<current, registered>>
      BY <1>7 DEF SetRunningStatus
    <2>2. UNCHANGED c2s \/ Sends(None)
      BY <1>7 DEF SetRunningStatus, SendClose, Sends
    <2>3. \/ UNCHANGED phase
          \/ /\ phase[handling[1]] = "wait start"
             /\ phase' \in {[phase EXCEPT ![handling[1]] = "running"],
                            [phase EXCEPT ![handling[1]] = "start error"]}
      BY <1>7 DEF SetRunningStatus
    <2>4. Same
      BY <2>3 DEF TypeOK
    <2> QED BY <2>1, <2>2, <2>4
  <1>8. ASSUME NEW ok \in BOOLEAN, ServerNewProxy(ok)
        PROVE  /\ UNCHANGED <<current, phase>> /\ Takes /\ Head(c2s) # None
               /\ \/ registered' = registered
                  \/ registered = None /\ registered' = Head(c2s)
    BY <1>8 DEF ServerNewProxy, Takes
  <1>9. CASE ServerCloseProxy
    BY <1>9 DEF ServerCloseProxy, Takes
  <1>10. CASE Drop
    BY <1>2, <1>10 DEF Drop
  <1> HIDE DEF Same
  <1>11. CASE \E w \in Wrappers : Load(w)
    BY <1>1, <1>2, <1>11
  <1>12. CASE \E w \in Wrappers : CheckWorker(w) \/ CheckPasses(w) \/ CheckFails(w)
    BY <1>3, <1>4, <1>5, <1>12 DEF CheckWorker, Same
  <1> QED BY <1>6, <1>7, <1>8, <1>9, <1>10, <1>11, <1>12 DEF Next, Client, Server

LEMMA TurnsInit == HistoryInit => TurnsInv
  <1> SUFFICES ASSUME HistoryInit
               PROVE  TurnsInv
    OBVIOUS
  <1>1. before = [w \in Wrappers |-> {}] /\ c2s = <<>>
    BY DEF HistoryInit, Init
  <1> QED BY <1>1 DEF TurnsInv

\* A message at the end of the channel.
LEMMA SendKeepsTurns ==
  ASSUME TypeOK, TurnsInv, NEW m, Sends(m), m # None => m \in Wrappers /\ phase[m] \notin {"closed", "unborn"}
  PROVE  /\ \A i \in 1..Len(c2s') : c2s'[i] # None => phase[c2s'[i]] # "unborn"
         /\ \A i, j \in 1..Len(c2s') :
              i < j /\ c2s'[i] # None /\ c2s'[j] # None => c2s'[j] \notin before[c2s'[i]]
  <1>1. /\ Len(c2s) \in Nat /\ Len(c2s') = Len(c2s) + 1
        /\ \A i \in 1..Len(c2s) : c2s'[i] = c2s[i]
        /\ c2s'[Len(c2s) + 1] = m
    BY SendsIs
  <1>2. \A i \in 1..Len(c2s') : i \in 1..Len(c2s) \/ i = Len(c2s) + 1
    BY <1>1
  <1>3. \A i \in 1..Len(c2s) : c2s[i] # None => c2s[i] \in Wrappers
    BY DEF TypeOK
  <1>4. ASSUME NEW i \in 1..Len(c2s'), NEW j \in 1..Len(c2s'), i < j, c2s'[i] # None, c2s'[j] # None
        PROVE  c2s'[j] \notin before[c2s'[i]]
    <2>1. i \in 1..Len(c2s)
      BY <1>1, <1>2, <1>4
    <2>2. CASE j \in 1..Len(c2s)
      BY <1>1, <1>4, <2>1, <2>2 DEF TurnsInv
    <2>3. CASE j = Len(c2s) + 1
      BY <1>1, <1>3, <1>4, <2>1, <2>3 DEF TurnsInv
    <2> QED BY <1>2, <2>2, <2>3
  <1> QED BY <1>1, <1>2, <1>4 DEF TurnsInv

LEMMA TakeKeepsTurns ==
  ASSUME TypeOK, TurnsInv, Takes
  PROVE  /\ \A i \in 1..Len(c2s') : c2s'[i] # None => phase[c2s'[i]] # "unborn"
         /\ \A i, j \in 1..Len(c2s') :
              i < j /\ c2s'[i] # None /\ c2s'[j] # None => c2s'[j] \notin before[c2s'[i]]
  <1>1. \A i \in 1..Len(c2s') : i + 1 \in 1..Len(c2s) /\ c2s'[i] = c2s[i + 1]
    BY TakesIs
  <1>2. \A i, j \in 1..Len(c2s') : i < j => i + 1 < j + 1
    OBVIOUS
  <1> QED BY <1>1, <1>2 DEF TurnsInv

LEMMA TurnsStep == TypeOK /\ TurnsInv /\ [HistoryNext]_<<vars, before>> => TurnsInv'
  <1> SUFFICES ASSUME TypeOK, TurnsInv, [HistoryNext]_<<vars, before>>
               PROVE  TurnsInv'
    OBVIOUS
  <1> USE ClientAssumption
  <1>0. \A i \in 1..Len(c2s) : c2s[i] # None => c2s[i] \in Wrappers
    BY DEF TypeOK
  <1>1. CASE UNCHANGED <<vars, before>>
    BY <1>1 DEF vars, TurnsInv
  <1>2. CASE HistoryNext
    <2>1. Next /\ before' = IF current' \in {current, None} THEN before
                            ELSE [before EXCEPT ![current'] = Loaded]
      BY <1>2 DEF HistoryNext
    <2>2. ASSUME NEW new \in Wrappers \union {None},
                 new # None => phase[new] = "unborn", current' = new,
                 phase' = [w \in Wrappers |-> IF w = new THEN "new"
                                              ELSE IF w = current THEN "closed" ELSE phase[w]],
                 Sends(None) \/ UNCHANGED c2s
          PROVE  TurnsInv'
      <3>1. /\ \A i \in 1..Len(c2s') : c2s'[i] # None => phase[c2s'[i]] # "unborn"
            /\ \A i, j \in 1..Len(c2s') :
                 i < j /\ c2s'[i] # None /\ c2s'[j] # None => c2s'[j] \notin before[c2s'[i]]
            /\ \A i \in 1..Len(c2s') : c2s'[i] # None => c2s'[i] \in Wrappers
        <4>1. CASE UNCHANGED c2s
          BY <1>0, <4>1 DEF TurnsInv
        <4>2. CASE Sends(None)
          <5>1. \A i \in 1..Len(c2s') : c2s'[i] # None => i \in 1..Len(c2s) /\ c2s'[i] = c2s[i]
            BY <4>2, SendsIs
          <5> QED BY <1>0, <4>2, <5>1, SendKeepsTurns
        <4> QED BY <2>2, <4>1, <4>2
      <3>2. \A v \in Wrappers : phase'[v] = "unborn" => phase[v] = "unborn"
        BY <2>2
      <3>3. \A v \in Wrappers : phase[v] = "closed" => phase'[v] = "closed"
        BY <2>2
      <3>4. CASE new = None
        <4>1. before' = before
          BY <2>1, <2>2, <3>4
        <4> QED BY <3>1, <3>2, <3>3, <4>1 DEF TurnsInv
      <3>5. CASE new # None
        <4>1. new \in Wrappers /\ new # current /\ phase[new] = "unborn"
          BY <2>2, <3>5 DEF TypeOK
        <4>2. before' = [before EXCEPT ![new] = Loaded]
          BY <2>1, <2>2, <3>5, <4>1
        <4>3. \A v \in Loaded : v \in Wrappers /\ phase'[v] = "closed" /\ v # new
          BY <2>2, <4>1 DEF Loaded, TypeOK
        <4>4. before' \in [Wrappers -> SUBSET Wrappers] /\ before'[new] = Loaded
          BY <4>1, <4>2, <4>3 DEF TurnsInv
        <4>5. \A w \in Wrappers : w # new => before'[w] = before[w]
          BY <4>1, <4>2 DEF TurnsInv
        <4>6. \A w \in Wrappers : \A v \in before'[w] : phase'[v] = "closed" /\ v # w
          BY <3>3, <4>3, <4>4, <4>5 DEF TurnsInv
        <4>7. \A i \in 1..Len(c2s') : c2s'[i] # new
          BY <3>1, <4>1, <3>5
        <4> QED BY <3>1, <3>2, <4>4, <4>5, <4>6, <4>7 DEF TurnsInv
      <3> QED BY <3>4, <3>5
    <2>3. ASSUME current' = current,
                 \A w \in Wrappers : /\ phase'[w] = "closed" <=> phase[w] = "closed"
                                     /\ phase'[w] = "unborn" <=> phase[w] = "unborn",
                 \/ UNCHANGED c2s \/ Sends(None) \/ Takes
                 \/ current # None /\ phase[current] # "closed" /\ Sends(current)
          PROVE  TurnsInv'
      <3>1. before' = before
        BY <2>1, <2>3
      <3>2. /\ \A i \in 1..Len(c2s') : c2s'[i] # None => phase[c2s'[i]] # "unborn"
            /\ \A i, j \in 1..Len(c2s') :
                 i < j /\ c2s'[i] # None /\ c2s'[j] # None => c2s'[j] \notin before[c2s'[i]]
        <4>1. current # None => current \in Wrappers /\ phase[current] \notin {"closed", "unborn"}
          BY DEF TypeOK
        <4>2. CASE UNCHANGED c2s
          BY <4>2 DEF TurnsInv
        <4> QED BY <2>3, <4>1, <4>2, SendKeepsTurns, TakeKeepsTurns
      <3>3. \A i \in 1..Len(c2s') : c2s'[i] # None => c2s'[i] \in Wrappers
        <4>1. CASE Takes
          <5>1. \A i \in 1..Len(c2s') : i + 1 \in 1..Len(c2s) /\ c2s'[i] = c2s[i + 1]
            BY <4>1, TakesIs
          <5> QED BY <1>0, <5>1
        <4>2. ASSUME NEW m \in Wrappers \union {None}, Sends(m)
              PROVE  \A i \in 1..Len(c2s') : c2s'[i] # None => c2s'[i] \in Wrappers
          <5>1. \A i \in 1..Len(c2s') : (i \in 1..Len(c2s) /\ c2s'[i] = c2s[i]) \/ c2s'[i] = m
            BY <4>2, SendsIs
          <5> QED BY <1>0, <5>1
        <4>3. current \in Wrappers \union {None}
          BY DEF TypeOK
        <4> QED BY <1>0, <2>3, <4>1, <4>2, <4>3
      <3> QED BY <2>3, <3>1, <3>2, <3>3 DEF TurnsInv
    <2> QED BY <2>1, <2>2, <2>3, StepIs
  <1> QED BY <1>1, <1>2

-----------------------------------------------------------------------------
\* A wrapper that is closed asks for nothing any more.
LEMMA GoneStays ==
  ASSUME TypeOK, Next
  PROVE  Turns!Ends
  <1> USE ClientAssumption
  <1>1. /\ \A w \in Wrappers : /\ phase[w] = "closed" => phase'[w] = "closed"
                               /\ phase'[w] = "closed" => phase'[w] # "unborn"
        /\ \/ UNCHANGED <<c2s, registered>>
           \/ Sends(None) /\ UNCHANGED registered
           \/ current # None /\ Sends(current) /\ UNCHANGED registered
           \/ Takes /\ registered' \in {registered, None, Head(c2s)}
    BY StepIs
  <1>2. ASSUME NEW w \in Wrappers, phase[w] = "closed", NEW i \in 0..Len(c2s'), Requested(w, i)'
        PROVE  \E j \in 0..Len(c2s) : Requested(w, j)
    <2>0. w # None /\ w # current /\ Len(c2s) \in Nat
      BY <1>2 DEF TypeOK
    <2>1. CASE UNCHANGED <<c2s, registered>>
      BY <1>2, <2>1 DEF Requested
    <2>2. ASSUME NEW m, Sends(m), m # w, UNCHANGED registered
          PROVE  i \in 0..Len(c2s) /\ Requested(w, i)
      BY <1>2, <2>0, <2>2, SendsIs DEF Requested
    <2>3. CASE Takes /\ registered' \in {registered, None, Head(c2s)}
      <3>1. CASE i = 0
        <4>1. registered' = w
          BY <1>2, <3>1 DEF Requested
        <4>2. CASE registered = w
          <5>1. Requested(w, 0) /\ 0 \in 0..Len(c2s)
            BY <2>0, <4>2 DEF Requested
          <5> QED BY <5>1
        <4>3. CASE registered # w
          <5>1. Requested(w, 1) /\ 1 \in 0..Len(c2s)
            BY <2>0, <2>3, <4>1, <4>3, TakesIs DEF Requested
          <5> QED BY <5>1
        <4> QED BY <4>2, <4>3
      <3>2. CASE i # 0
        <4>1. i + 1 \in 1..Len(c2s) /\ i + 1 \in 0..Len(c2s) /\ c2s[i + 1] = w
          BY <1>2, <2>3, <3>2, TakesIs DEF Requested
        <4> QED BY <4>1 DEF Requested
      <3> QED BY <3>1, <3>2
    <2> QED BY <1>1, <2>0, <2>1, <2>2, <2>3
  <1>3. Gone \subseteq Gone'
    BY <1>1, <1>2 DEF Gone
  <1>4. Gone' \subseteq Loaded' \ {registered'}
    <2>1. ASSUME NEW w \in Gone'
          PROVE  w \in Loaded' /\ w # registered'
      <3>1. 0 \in 0..Len(c2s')
        <4>1. Len(c2s') \in Nat
          BY <1>1, SendsIs, TakesIs DEF TypeOK
        <4> QED BY <4>1
      <3>2. ~Requested(w, 0)'
        BY <2>1, <3>1 DEF Gone
      <3> QED BY <2>1, <3>2 DEF Gone, Loaded, Requested
    <2> QED BY <2>1
  <1> QED BY <1>3, <1>4 DEF Turns!Ends

\* The server runs a wrapper whose turn it is.
LEMMA TakesTurn ==
  ASSUME TypeOK, TurnsInv, UNCHANGED <<current, phase, before>>, Takes, Head(c2s) # None,
         registered = None, registered' = Head(c2s)
  PROVE  Head(c2s) \in Wrappers /\ Turns!Run(Head(c2s))
  <1> USE ClientAssumption
  <1> DEFINE w == Head(c2s)
  <1>1. /\ Len(c2s) \in Nat /\ Len(c2s) >= 1 /\ Len(c2s') = Len(c2s) - 1
        /\ w = c2s[1] /\ \A i \in 1..Len(c2s') : c2s'[i] = c2s[i + 1]
    BY TakesIs
  <1>2. w \in Wrappers /\ phase[w] # "unborn" /\ Requested(w, 1)
    BY <1>1 DEF TypeOK, TurnsInv, Requested
  <1>3. w \in Loaded \ Gone
    BY <1>1, <1>2 DEF Loaded, Gone
  <1>4. ASSUME NEW v \in before[w]
        PROVE  v \in Gone
    <2>1. v \in Wrappers /\ phase[v] = "closed" /\ v # w
      BY <1>2 DEF TurnsInv
    <2>2. ASSUME NEW i \in 0..Len(c2s), Requested(v, i)
          PROVE  FALSE
      <3>1. i \in 1..Len(c2s) /\ c2s[i] = v /\ v # None
        BY <2>1, <2>2 DEF Requested
      <3>2. 1 < i
        BY <1>1, <2>1, <3>1
      <3> QED BY <1>1, <3>1, <3>2 DEF TurnsInv
    <2> QED BY <2>1, <2>2 DEF Gone
  <1>5. ASSUME NEW v \in Wrappers
        PROVE  (\E i \in 0..Len(c2s) : Requested(v, i)) <=> (\E i \in 0..Len(c2s') : Requested(v, i)')
    <2>1. ASSUME NEW i \in 0..Len(c2s), Requested(v, i)
          PROVE  i # 0 /\ i - 1 \in 0..Len(c2s') /\ Requested(v, i - 1)'
      <3>1. i \in 1..Len(c2s) /\ c2s[i] = v
        BY <2>1 DEF Requested
      <3>2. CASE i = 1
        BY <1>1, <3>1, <3>2 DEF Requested
      <3>3. CASE i # 1
        <4>1. i - 1 \in 1..Len(c2s') /\ (i - 1) + 1 = i
          BY <1>1, <3>1, <3>3
        <4> QED BY <1>1, <3>1, <4>1 DEF Requested
      <3> QED BY <3>2, <3>3
    <2>2. ASSUME NEW i \in 0..Len(c2s'), Requested(v, i)'
          PROVE  i + 1 \in 0..Len(c2s) /\ Requested(v, i + 1)
      <3>1. i + 1 \in 1..Len(c2s)
        BY <1>1
      <3>2. CASE i = 0
        BY <1>1, <2>2, <3>1, <3>2 DEF Requested
      <3>3. CASE i # 0
        <4>1. i \in 1..Len(c2s') /\ c2s'[i] = v
          BY <2>2, <3>3 DEF Requested
        <4> QED BY <1>1, <3>1, <4>1 DEF Requested
      <3> QED BY <3>1, <3>2, <3>3
    <2> QED BY <2>1, <2>2
  <1>6. UNCHANGED <<before, Loaded, Gone>>
    BY <1>5 DEF Loaded, Gone
  <1> QED BY <1>2, <1>3, <1>4, <1>6 DEF Turns!Run

LEMMA TurnsSimulates ==
  TypeOK /\ TurnsInv /\ [HistoryNext]_<<vars, before>> => [Turns!TurnsNext]_Turns!turnVars
  <1> SUFFICES ASSUME TypeOK, TurnsInv, [HistoryNext]_<<vars, before>>
               PROVE  [Turns!TurnsNext]_Turns!turnVars
    OBVIOUS
  <1> USE ClientAssumption
  <1>1. CASE UNCHANGED <<vars, before>>
    BY <1>1 DEF vars, Turns!turnVars, Loaded, Gone, Requested
  <1>2. CASE HistoryNext
    <2>1. Next /\ before' = IF current' \in {current, None} THEN before
                            ELSE [before EXCEPT ![current'] = Loaded]
      BY <1>2 DEF HistoryNext
    <2>2. Turns!Ends
      BY <2>1, GoneStays
    <2>3. ASSUME UNCHANGED <<before, Loaded, registered>>
          PROVE  [Turns!TurnsNext]_Turns!turnVars
      BY <2>2, <2>3 DEF Turns!GiveUp, Turns!TurnsNext, Turns!turnVars
    <2>4. ASSUME NEW new \in Wrappers \union {None},
                 new # None => phase[new] = "unborn", current' = new,
                 phase' = [w \in Wrappers |-> IF w = new THEN "new"
                                              ELSE IF w = current THEN "closed" ELSE phase[w]],
                 registered' = registered
          PROVE  [Turns!TurnsNext]_Turns!turnVars
      <3>1. CASE new = None
        <4>1. Loaded' = Loaded
          BY <2>4, <3>1 DEF Loaded, TypeOK
        <4>2. before' = before
          BY <2>1, <2>4, <3>1
        <4> QED BY <2>3, <2>4, <4>1, <4>2
      <3>2. CASE new # None
        <4>1. new \in Wrappers /\ new # current /\ phase[new] = "unborn" /\ phase'[new] = "new"
          BY <2>4, <3>2 DEF TypeOK
        <4>2. before' = [before EXCEPT ![new] = Loaded]
          BY <2>1, <2>4, <3>2, <4>1
        <4>3. new \notin Loaded /\ Loaded' = Loaded \union {new}
          BY <2>4, <4>1 DEF Loaded, TypeOK
        <4>4. new \notin Gone'
          BY <4>1 DEF Gone
        <4>5. Turns!LoadNext(new)
          BY <2>2, <2>4, <4>2, <4>3, <4>4 DEF Turns!LoadNext
        <4> QED BY <4>1, <4>5 DEF Turns!TurnsNext
      <3> QED BY <3>1, <3>2
    <2>5. ASSUME current' = current, registered' = registered,
                 \A w \in Wrappers : phase'[w] = "unborn" <=> phase[w] = "unborn"
          PROVE  [Turns!TurnsNext]_Turns!turnVars
      BY <2>1, <2>3, <2>5 DEF Loaded
    <2>6. ASSUME UNCHANGED <<current, phase>>, Takes,
                 \/ Head(c2s) # None /\ registered' = registered
                 \/ Head(c2s) # None /\ registered = None /\ registered' = Head(c2s)
                 \/ Head(c2s) = None /\ registered' = None
          PROVE  [Turns!TurnsNext]_Turns!turnVars
      <3>1. UNCHANGED <<before, Loaded>>
        BY <2>1, <2>6 DEF Loaded
      <3>2. CASE registered' = registered
        BY <2>3, <3>1, <3>2
      <3>3. CASE Head(c2s) # None /\ registered = None /\ registered' = Head(c2s)
        BY <2>6, <3>1, <3>3, TakesTurn DEF Turns!TurnsNext
      <3>4. CASE registered # None /\ registered' = None
        BY <2>2, <3>1, <3>4 DEF Turns!Stop, Turns!TurnsNext
      <3> QED BY <2>6, <3>2, <3>3, <3>4
    <2> QED BY <2>1, <2>4, <2>5, <2>6, StepIs
  <1> QED BY <1>1, <1>2

\* Whatever is loaded, withdrawn, asked for again or refused, the configurations of a proxy
\* take turns on the server in the order in which they were loaded; what is gone stays gone
\* (client/proxy/proxy_manager.go:105-146, proxy_wrapper.go:134-199, server/control.go:419-563).
THEOREM ProxiesTakeTurns == HistorySpec => ImplementsTurns
  <1>1. HistoryInit => Turns!TurnsInit
    BY DEF HistoryInit, Init, Turns!TurnsInit, Loaded, Gone
  <1>2. HistoryInit => TypeOK
    BY TypeInit DEF HistoryInit
  <1>3. TypeOK /\ [HistoryNext]_<<vars, before>> => TypeOK'
    <2>1. [HistoryNext]_<<vars, before>> => [Next]_vars
      BY DEF HistoryNext, vars
    <2> QED BY <2>1, TypeNext
  <1> QED BY <1>1, <1>2, <1>3, TurnsInit, TurnsStep, TurnsSimulates, PTL
          DEF HistorySpec, ImplementsTurns, Turns!TurnsSpec

-----------------------------------------------------------------------------
(***************************************************************************)
(* UdpProxy: the goroutines of a UDP proxy in frps and in frpc.  What they *)
(* can do now, by the guards of the steps that FairSpec owes them, and     *)
(* what is true when they can do nothing.                                  *)
(***************************************************************************)
CONSTANT Conns

VARIABLES
  srvClosed, srvConn, main, reader, forward, conn, running, cliClosed, cliConn, chClosed, inWork,
  heart, late, reopened, overlapped

udpVars ==
  <<srvClosed, srvConn, main, reader, forward, conn, running, cliClosed, cliConn, chClosed, inWork,
    heart, late, reopened, overlapped>>

Udp == INSTANCE UdpProxy

UdpCanGo ==
  \/ main.at \in {"got", "install"}
  \/ main.at = "wait" /\ (srvClosed \/ \E w \in Conns : reader[w] = "notify")
  \/ main.at = "get" /\ (srvClosed \/ \E w \in Conns : conn[w] = "unused")
  \/ forward \in {"holding", "close"}
  \/ forward = "read" /\ srvClosed
  \/ \E w \in Conns :
       \/ reader[w] = "read" /\ (Udp!Dead(w) \/ ~Udp!Pings(w))
       \/ reader[w] = "notify" /\ srvClosed
       \/ inWork[w] \in {"asked", "close", "install", "spawn"}
       \/ heart[w] # None /\ heart[w] \in chClosed

\* Nobody keeps a broken connection, or a proxy that was closed.
NothingIsKept ==
  Udp!Alive /\ ~UdpCanGo =>
    /\ \A w \in Conns : srvConn = w /\ Udp!Dead(w) /\ ~srvClosed => \A v \in Conns : conn[v] # "unused"
    /\ srvClosed => Udp!ServerQuiet \/ late
    /\ srvClosed /\ ~running => (Udp!ServerQuiet /\ Udp!ClientQuiet) \/ reopened \/ overlapped

UdpTypes ==
  /\ srvConn \in Conns \union {None} /\ cliConn \in Conns \union {None}
  /\ main \in [at : {"get", "got", "install", "wait", "done"}, conn : Conns \union {None}]
  /\ reader \in [Conns -> {"none", "read", "notify", "done"}]
  /\ forward \in {"read", "holding", "close", "done", "panic"}
  /\ conn \in [Conns -> {"unused", "open", "closed"}]
  /\ inWork \in [Conns -> {"none", "asked", "close", "install", "spawn", "up", "off"}]
  /\ heart \in [Conns -> Conns \union {None}]

\* Only connections that main got are used.
Used(w) == w \in Conns => conn[w] # "unused"

UsedInv ==
  /\ Used(main.conn) /\ Used(srvConn) /\ Used(cliConn)
  /\ \A w \in Conns :
       /\ reader[w] # "none" => Used(w)
       /\ conn[w] = "unused" <=> inWork[w] = "none"

\* frps: one connection at a time has a reader, for which main waits.
KeeperInv ==
  /\ main.at \in {"got", "install"} => main.conn \in Conns
  /\ main.at = "done" => srvClosed
  /\ main.at = "wait" => srvClosed \/ (srvConn \in Conns /\ reader[srvConn] \in {"read", "notify"})
  /\ main.at = "install" => srvConn = None \/ Udp!Dead(srvConn)
  /\ srvClosed /\ ~late => srvConn = None \/ Udp!Dead(srvConn)
  /\ \A w \in Conns :
       /\ reader[w] \in {"read", "notify"} /\ ~srvClosed => main.at = "wait" /\ srvConn = w
       /\ reader[w] = "read" => srvConn = w \/ Udp!Dead(w)

\* frpc: what is not the proxy's connection or channel is dead or closed, unless two InWorkConn
\* ran at once.
HolderInv ==
  /\ ~running => cliClosed \/ reopened
  /\ cliClosed => cliConn = None \/ (cliConn \in chClosed /\ Udp!Dead(cliConn))
  /\ \A w \in Conns : inWork[w] = "off" => Udp!Dead(w)
  /\ ~overlapped =>
       /\ \A v, w \in Conns :
            inWork[v] \in {"install", "spawn"} /\ inWork[w] \in {"install", "spawn"} => v = w
       /\ \A w \in Conns :
            /\ inWork[w] = "install" => cliClosed
            /\ inWork[w] \in {"spawn", "up"} => w = cliConn \/ Udp!Dead(w)
            /\ heart[w] # None => heart[w] = cliConn \/ heart[w] \in chClosed

UdpInv == UdpTypes /\ UsedInv /\ KeeperInv /\ HolderInv

LEMMA UdpInit == ASSUME None \notin Conns, Udp!Init PROVE UdpInv
  BY DEF Udp!Init, UdpInv, UdpTypes, UsedInv, Used, KeeperInv, HolderInv

\* What Shut leaves of the connections.
LEMMA ShutDoes ==
  ASSUME UdpTypes, NEW w \in Conns \union {None}, Used(w), conn' = Udp!Shut(w), None \notin Conns
  PROVE  /\ conn' \in [Conns -> {"unused", "open", "closed"}]
         /\ \A v \in Conns : conn'[v] = IF v = w THEN "closed" ELSE conn[v]
         /\ \A v \in Conns : (conn'[v] = "unused") = (conn[v] = "unused")
         /\ \A v \in Conns : Udp!Dead(v) => Udp!Dead(v)'
  BY DEF UdpTypes, Used, Udp!Shut, Udp!Dead

LEMMA UdpTypesStep ==
  ASSUME None \notin Conns, UdpInv, Udp!Next \/ UNCHANGED udpVars
  PROVE  UdpTypes'
  <1> USE DEF UdpInv, UdpTypes, Udp!Shut, KeeperInv
  <1>1. CASE Udp!MainFails
    BY <1>1, ShutDoes DEF Udp!MainFails, Udp!client
  <1>2. CASE Udp!MainClosesOld
    BY <1>2, ShutDoes DEF Udp!MainClosesOld, Udp!client
  <1>3. CASE Udp!MainInstalls
    BY <1>3, ShutDoes DEF Udp!MainInstalls, Udp!client
  <1>4. CASE Udp!MainWaits
    BY <1>4, ShutDoes DEF Udp!MainWaits, Udp!client
  <1>5. CASE Udp!ForwardReads
    BY <1>5, ShutDoes DEF Udp!ForwardReads, Udp!ForwardTo, Udp!client
  <1>6. CASE Udp!ForwardSends
    BY <1>6, ShutDoes DEF Udp!ForwardSends, Udp!ForwardTo, Udp!client
  <1>7. CASE Udp!ForwardReturns
    BY <1>7, ShutDoes DEF Udp!ForwardReturns, Udp!ForwardTo, Udp!client
  <1>8. CASE Udp!ForwardCloses
    BY <1>8, ShutDoes DEF Udp!ForwardCloses, Udp!Closing, Udp!client
  <1>9. CASE Udp!ControlCloses
    BY <1>9, ShutDoes DEF Udp!ControlCloses, Udp!Closing, Udp!client
  <1>10. CASE Udp!ClientStops
    BY <1>10, ShutDoes DEF Udp!ClientStops, Udp!CliClose, Udp!server
  <1>11. ASSUME NEW w \in Conns, Udp!MainGets(w) PROVE UdpTypes'
    BY <1>11, ShutDoes DEF Udp!MainGets
  <1>12. ASSUME NEW w \in Conns, Udp!ReadFails(w) PROVE UdpTypes'
    BY <1>12, ShutDoes DEF Udp!ReadFails, Udp!client
  <1>13. ASSUME NEW w \in Conns, Udp!ReadAfterClose(w) PROVE UdpTypes'
    BY <1>13, ShutDoes DEF Udp!ReadAfterClose, Udp!client
  <1>14. ASSUME NEW w \in Conns, Udp!NotifyAfterClose(w) PROVE UdpTypes'
    BY <1>14, ShutDoes DEF Udp!NotifyAfterClose, Udp!client
  <1>15. ASSUME NEW w \in Conns, Udp!WorkConnArrives(w) PROVE UdpTypes'
    BY <1>15, ShutDoes DEF Udp!WorkConnArrives, Udp!server
  <1>16. ASSUME NEW w \in Conns, Udp!InWorkCloses(w) PROVE UdpTypes'
    BY <1>16, ShutDoes DEF Udp!InWorkCloses, Udp!server, Udp!CliClose
  <1>17. ASSUME NEW w \in Conns, Udp!InWorkInstalls(w) PROVE UdpTypes'
    BY <1>17, ShutDoes DEF Udp!InWorkInstalls, Udp!server
  <1>18. ASSUME NEW w \in Conns, Udp!InWorkSpawns(w) PROVE UdpTypes'
    BY <1>18, ShutDoes DEF Udp!InWorkSpawns, Udp!server
  <1>19. ASSUME NEW w \in Conns, Udp!HeartEnds(w) PROVE UdpTypes'
    BY <1>19, ShutDoes DEF Udp!HeartEnds, Udp!server
  <1>20. ASSUME NEW w \in Conns, Udp!Break(w) PROVE UdpTypes'
    BY <1>20, ShutDoes DEF Udp!Break, Udp!server, Udp!client
  <1>21. CASE UNCHANGED udpVars
    BY <1>21 DEF udpVars
  <1> QED BY <1>1, <1>2, <1>3, <1>4, <1>5, <1>6, <1>7, <1>8, <1>9, <1>10, <1>11, <1>12, <1>13, <1>14, <1>15, <1>16, <1>17, <1>18, <1>19, <1>20, <1>21 DEF Udp!Next, Udp!Steps, Udp!ClientServes

LEMMA UsedStep ==
  ASSUME None \notin Conns, UdpInv, Udp!Next \/ UNCHANGED udpVars
  PROVE  UsedInv'
  <1> USE DEF UdpInv, UdpTypes, UsedInv, Used, KeeperInv, Udp!Shut
  <1>1. CASE Udp!MainFails
    BY <1>1, ShutDoes DEF Udp!MainFails, Udp!client
  <1>2. CASE Udp!MainClosesOld
    BY <1>2, ShutDoes DEF Udp!MainClosesOld, Udp!client
  <1>3. CASE Udp!MainInstalls
    BY <1>3, ShutDoes DEF Udp!MainInstalls, Udp!client
  <1>4. CASE Udp!MainWaits
    BY <1>4, ShutDoes DEF Udp!MainWaits, Udp!client
  <1>5. CASE Udp!ForwardReads
    BY <1>5, ShutDoes DEF Udp!ForwardReads, Udp!ForwardTo, Udp!client
  <1>6. CASE Udp!ForwardSends
    BY <1>6, ShutDoes DEF Udp!ForwardSends, Udp!ForwardTo, Udp!client
  <1>7. CASE Udp!ForwardReturns
    BY <1>7, ShutDoes DEF Udp!ForwardReturns, Udp!ForwardTo, Udp!client
  <1>8. CASE Udp!ForwardCloses
    BY <1>8, ShutDoes DEF Udp!ForwardCloses, Udp!Closing, Udp!client
  <1>9. CASE Udp!ControlCloses
    BY <1>9, ShutDoes DEF Udp!ControlCloses, Udp!Closing, Udp!client
  <1>10. CASE Udp!ClientStops
    BY <1>10, ShutDoes DEF Udp!ClientStops, Udp!CliClose, Udp!server
  <1>11. ASSUME NEW w \in Conns, Udp!MainGets(w) PROVE UsedInv'
    BY <1>11, ShutDoes DEF Udp!MainGets
  <1>12. ASSUME NEW w \in Conns, Udp!ReadFails(w) PROVE UsedInv'
    BY <1>12, ShutDoes DEF Udp!ReadFails, Udp!client
  <1>13. ASSUME NEW w \in Conns, Udp!ReadAfterClose(w) PROVE UsedInv'
    BY <1>13, ShutDoes DEF Udp!ReadAfterClose, Udp!client
  <1>14. ASSUME NEW w \in Conns, Udp!NotifyAfterClose(w) PROVE UsedInv'
    BY <1>14, ShutDoes DEF Udp!NotifyAfterClose, Udp!client
  <1>15. ASSUME NEW w \in Conns, Udp!WorkConnArrives(w) PROVE UsedInv'
    BY <1>15, ShutDoes DEF Udp!WorkConnArrives, Udp!server
  <1>16. ASSUME NEW w \in Conns, Udp!InWorkCloses(w) PROVE UsedInv'
    BY <1>16, ShutDoes DEF Udp!InWorkCloses, Udp!server, Udp!CliClose
  <1>17. ASSUME NEW w \in Conns, Udp!InWorkInstalls(w) PROVE UsedInv'
    BY <1>17, ShutDoes DEF Udp!InWorkInstalls, Udp!server
  <1>18. ASSUME NEW w \in Conns, Udp!InWorkSpawns(w) PROVE UsedInv'
    BY <1>18, ShutDoes DEF Udp!InWorkSpawns, Udp!server
  <1>19. ASSUME NEW w \in Conns, Udp!HeartEnds(w) PROVE UsedInv'
    BY <1>19, ShutDoes DEF Udp!HeartEnds, Udp!server
  <1>20. ASSUME NEW w \in Conns, Udp!Break(w) PROVE UsedInv'
    BY <1>20, ShutDoes DEF Udp!Break, Udp!server, Udp!client
  <1>21. CASE UNCHANGED udpVars
    BY <1>21 DEF udpVars
  <1> QED BY <1>1, <1>2, <1>3, <1>4, <1>5, <1>6, <1>7, <1>8, <1>9, <1>10, <1>11, <1>12, <1>13, <1>14, <1>15, <1>16, <1>17, <1>18, <1>19, <1>20, <1>21 DEF Udp!Next, Udp!Steps, Udp!ClientServes

LEMMA KeeperStep ==
  ASSUME None \notin Conns, UdpInv, Udp!Next \/ UNCHANGED udpVars
  PROVE  KeeperInv'
  <1> USE DEF UdpInv, UdpTypes, UsedInv, Used, KeeperInv, Udp!Shut, Udp!Dead
  <1>1. CASE Udp!MainFails
    BY <1>1, ShutDoes DEF Udp!MainFails, Udp!client
  <1>2. CASE Udp!MainClosesOld
    BY <1>2, ShutDoes DEF Udp!MainClosesOld, Udp!client
  <1>3. CASE Udp!MainInstalls
    <2>1. main.at = "install" /\ main.conn \in Conns /\ UNCHANGED <<srvClosed, forward>>
      BY <1>3 DEF Udp!MainInstalls
    <2>2. CASE /\ srvConn' = main.conn /\ main' = [main EXCEPT !.at = "wait"]
               /\ reader' = [reader EXCEPT ![main.conn] = "read"]
               /\ late' = (late \/ srvClosed) /\ UNCHANGED conn
      <3>1. /\ main'.at = "wait" /\ main'.conn = main.conn
            /\ \A v \in Conns : reader'[v] = IF v = main.conn THEN "read" ELSE reader[v]
        BY <2>2
      <3>2. ~late' => ~srvClosed /\ ~late
        BY <2>2
      <3> QED BY <2>1, <2>2, <3>1, <3>2
    <2>3. CASE /\ conn' = Udp!Shut(main.conn) /\ main' = [at |-> "get", conn |-> None]
               /\ UNCHANGED <<srvConn, reader, late>>
      <3>1. \A v \in Conns : conn'[v] = IF v = main.conn THEN "closed" ELSE conn[v]
        BY <2>1, <2>3
      <3>2. main'.at = "get"
        BY <2>3
      <3> QED BY <2>1, <2>3, <3>1, <3>2
    <2> QED BY <1>3, <2>2, <2>3 DEF Udp!MainInstalls
  <1>4. CASE Udp!MainWaits
    BY <1>4, ShutDoes DEF Udp!MainWaits, Udp!client
  <1>5. CASE Udp!ForwardReads
    BY <1>5, ShutDoes DEF Udp!ForwardReads, Udp!ForwardTo, Udp!client
  <1>6. CASE Udp!ForwardSends
    BY <1>6, ShutDoes DEF Udp!ForwardSends, Udp!ForwardTo, Udp!client
  <1>7. CASE Udp!ForwardReturns
    BY <1>7, ShutDoes DEF Udp!ForwardReturns, Udp!ForwardTo, Udp!client
  <1>8. CASE Udp!ForwardCloses
    BY <1>8, ShutDoes DEF Udp!ForwardCloses, Udp!Closing, Udp!client
  <1>9. CASE Udp!ControlCloses
    BY <1>9, ShutDoes DEF Udp!ControlCloses, Udp!Closing, Udp!client
  <1>10. CASE Udp!ClientStops
    BY <1>10, ShutDoes DEF Udp!ClientStops, Udp!CliClose, Udp!server
  <1>11. ASSUME NEW w \in Conns, Udp!MainGets(w) PROVE KeeperInv'
    BY <1>11, ShutDoes DEF Udp!MainGets
  <1>12. ASSUME NEW w \in Conns, Udp!ReadFails(w) PROVE KeeperInv'
    BY <1>12, ShutDoes DEF Udp!ReadFails, Udp!client
  <1>13. ASSUME NEW w \in Conns, Udp!ReadAfterClose(w) PROVE KeeperInv'
    BY <1>13, ShutDoes DEF Udp!ReadAfterClose, Udp!client
  <1>14. ASSUME NEW w \in Conns, Udp!NotifyAfterClose(w) PROVE KeeperInv'
    BY <1>14, ShutDoes DEF Udp!NotifyAfterClose, Udp!client
  <1>15. ASSUME NEW w \in Conns, Udp!WorkConnArrives(w) PROVE KeeperInv'
    BY <1>15, ShutDoes DEF Udp!WorkConnArrives, Udp!server
  <1>16. ASSUME NEW w \in Conns, Udp!InWorkCloses(w) PROVE KeeperInv'
    BY <1>16, ShutDoes DEF Udp!InWorkCloses, Udp!server, Udp!CliClose
  <1>17. ASSUME NEW w \in Conns, Udp!InWorkInstalls(w) PROVE KeeperInv'
    BY <1>17, ShutDoes DEF Udp!InWorkInstalls, Udp!server
  <1>18. ASSUME NEW w \in Conns, Udp!InWorkSpawns(w) PROVE KeeperInv'
    BY <1>18, ShutDoes DEF Udp!InWorkSpawns, Udp!server
  <1>19. ASSUME NEW w \in Conns, Udp!HeartEnds(w) PROVE KeeperInv'
    BY <1>19, ShutDoes DEF Udp!HeartEnds, Udp!server
  <1>20. ASSUME NEW w \in Conns, Udp!Break(w) PROVE KeeperInv'
    BY <1>20, ShutDoes DEF Udp!Break, Udp!server, Udp!client
  <1>21. CASE UNCHANGED udpVars
    BY <1>21 DEF udpVars
  <1> QED BY <1>1, <1>2, <1>3, <1>4, <1>5, <1>6, <1>7, <1>8, <1>9, <1>10, <1>11, <1>12, <1>13, <1>14, <1>15, <1>16, <1>17, <1>18, <1>19, <1>20, <1>21 DEF Udp!Next, Udp!Steps, Udp!ClientServes

LEMMA HolderStep ==
  ASSUME None \notin Conns, UdpInv, Udp!Next \/ UNCHANGED udpVars
  PROVE  HolderInv'
  <1> USE DEF UdpInv, UdpTypes, UsedInv, Used, HolderInv, Udp!Shut, Udp!Dead
  <1>1. CASE Udp!MainFails
    BY <1>1, ShutDoes DEF Udp!MainFails, Udp!client
  <1>2. CASE Udp!MainClosesOld
    BY <1>2, ShutDoes DEF Udp!MainClosesOld, Udp!client
  <1>3. CASE Udp!MainInstalls
    BY <1>3, ShutDoes DEF Udp!MainInstalls, Udp!client
  <1>4. CASE Udp!MainWaits
    BY <1>4, ShutDoes DEF Udp!MainWaits, Udp!client
  <1>5. CASE Udp!ForwardReads
    BY <1>5, ShutDoes DEF Udp!ForwardReads, Udp!ForwardTo, Udp!client
  <1>6. CASE Udp!ForwardSends
    BY <1>6, ShutDoes DEF Udp!ForwardSends, Udp!ForwardTo, Udp!client
  <1>7. CASE Udp!ForwardReturns
    BY <1>7, ShutDoes DEF Udp!ForwardReturns, Udp!ForwardTo, Udp!client
  <1>8. CASE Udp!ForwardCloses
    BY <1>8, ShutDoes DEF Udp!ForwardCloses, Udp!Closing, Udp!client
  <1>9. CASE Udp!ControlCloses
    BY <1>9, ShutDoes DEF Udp!ControlCloses, Udp!Closing, Udp!client
  <1>10. CASE Udp!ClientStops
    BY <1>10, ShutDoes DEF Udp!ClientStops, Udp!CliClose, Udp!server
  <1>11. ASSUME NEW w \in Conns, Udp!MainGets(w) PROVE HolderInv'
    BY <1>11, ShutDoes DEF Udp!MainGets
  <1>12. ASSUME NEW w \in Conns, Udp!ReadFails(w) PROVE HolderInv'
    BY <1>12, ShutDoes DEF Udp!ReadFails, Udp!client
  <1>13. ASSUME NEW w \in Conns, Udp!ReadAfterClose(w) PROVE HolderInv'
    BY <1>13, ShutDoes DEF Udp!ReadAfterClose, Udp!client
  <1>14. ASSUME NEW w \in Conns, Udp!NotifyAfterClose(w) PROVE HolderInv'
    BY <1>14, ShutDoes DEF Udp!NotifyAfterClose, Udp!client
  <1>15. ASSUME NEW w \in Conns, Udp!WorkConnArrives(w) PROVE HolderInv'
    BY <1>15, ShutDoes DEF Udp!WorkConnArrives, Udp!server
  <1>16. ASSUME NEW w \in Conns, Udp!InWorkCloses(w) PROVE HolderInv'
    <2>1. /\ \A v \in Conns : inWork'[v] = IF v = w THEN "install" ELSE inWork[v]
          /\ UNCHANGED <<running, cliConn, heart, reopened>> /\ cliClosed' = TRUE
          /\ ~overlapped' => ~overlapped /\ \A v \in Conns : inWork[v] \notin {"install", "spawn"}
      BY <1>16 DEF Udp!InWorkCloses, Udp!CliClose
    <2>2. CASE cliClosed \/ cliConn = None
      <3>1. UNCHANGED <<conn, chClosed>>
        BY <1>16, <2>2 DEF Udp!InWorkCloses, Udp!CliClose
      <3> QED BY <2>1, <2>2, <3>1
    <2>3. CASE ~(cliClosed \/ cliConn = None)
      <3>1. /\ \A v \in Conns : conn'[v] = IF v = cliConn THEN "closed" ELSE conn[v]
            /\ chClosed' = chClosed \union {cliConn}
        BY <1>16, <2>3 DEF Udp!InWorkCloses, Udp!CliClose
      <3> QED BY <2>1, <2>3, <3>1
    <2> QED BY <2>2, <2>3
  <1>17. ASSUME NEW w \in Conns, Udp!InWorkInstalls(w) PROVE HolderInv'
    <2>1. inWork[w] = "install" /\ UNCHANGED <<running, chClosed, heart, overlapped>>
      BY <1>17 DEF Udp!InWorkInstalls
    <2>2. CASE /\ cliConn' = w /\ cliClosed' = FALSE /\ inWork' = [inWork EXCEPT ![w] = "spawn"]
               /\ reopened' = (reopened \/ ~running) /\ UNCHANGED conn
      <3>1. \A v \in Conns : inWork'[v] = IF v = w THEN "spawn" ELSE inWork[v]
        BY <2>2
      <3>2. ~running => reopened'
        BY <2>2
      <3>3. ~overlapped => cliConn = None \/ (cliConn \in chClosed /\ Udp!Dead(cliConn))
        BY <2>1
      <3>4. ~overlapped => \A v \in Conns : inWork[v] \in {"install", "spawn"} => v = w
        BY <2>1
      <3> QED BY <2>1, <2>2, <3>1, <3>2, <3>3, <3>4
    <2>3. CASE /\ conn' = Udp!Shut(w) /\ inWork' = [inWork EXCEPT ![w] = "off"]
               /\ UNCHANGED <<cliConn, cliClosed, reopened>>
      <3>1. /\ \A v \in Conns : conn'[v] = IF v = w THEN "closed" ELSE conn[v]
            /\ \A v \in Conns : inWork'[v] = IF v = w THEN "off" ELSE inWork[v]
        BY <2>3
      <3> QED BY <2>1, <2>3, <3>1
    <2> QED BY <1>17, <2>2, <2>3 DEF Udp!InWorkInstalls
  <1>18. ASSUME NEW w \in Conns, Udp!InWorkSpawns(w) PROVE HolderInv'
    BY <1>18, ShutDoes DEF Udp!InWorkSpawns, Udp!server
  <1>19. ASSUME NEW w \in Conns, Udp!HeartEnds(w) PROVE HolderInv'
    BY <1>19, ShutDoes DEF Udp!HeartEnds, Udp!server
  <1>20. ASSUME NEW w \in Conns, Udp!Break(w) PROVE HolderInv'
    BY <1>20, ShutDoes DEF Udp!Break, Udp!server, Udp!client
  <1>21. CASE UNCHANGED udpVars
    BY <1>21 DEF udpVars
  <1> QED BY <1>1, <1>2, <1>3, <1>4, <1>5, <1>6, <1>7, <1>8, <1>9, <1>10, <1>11, <1>12, <1>13, <1>14, <1>15, <1>16, <1>17, <1>18, <1>19, <1>20, <1>21 DEF Udp!Next, Udp!Steps, Udp!ClientServes

\* Who stands still with a broken connection is closed himself, and has nothing left of it.
LEMMA StandingIsQuiet == ASSUME None \notin Conns, UdpInv PROVE NothingIsKept
  <1> SUFFICES ASSUME Udp!Alive, ~UdpCanGo PROVE
        /\ \A w \in Conns :
             srvConn = w /\ Udp!Dead(w) /\ ~srvClosed => \A v \in Conns : conn[v] # "unused"
        /\ srvClosed => Udp!ServerQuiet \/ late
        /\ srvClosed /\ ~running => (Udp!ServerQuiet /\ Udp!ClientQuiet) \/ reopened \/ overlapped
    BY DEF NothingIsKept
  <1> USE DEF UdpInv, UdpTypes
  <1>1. ASSUME NEW w \in Conns, srvConn = w, Udp!Dead(w), ~srvClosed PROVE \A v \in Conns : conn[v] # "unused"
    BY <1>1 DEF UdpCanGo, KeeperInv
  <1>2. ASSUME srvClosed
        PROVE  /\ main.at = "done" /\ forward = "done"
               /\ \A w \in Conns : reader[w] = "read" => Udp!Pings(w) /\ ~Udp!Dead(w)
               /\ \A w \in Conns : reader[w] # "notify"
    BY <1>2 DEF UdpCanGo, Udp!Alive
  <1>3. ASSUME srvClosed, ~late PROVE Udp!ServerQuiet
    <2>1. \A w \in Conns : reader[w] # "read"
      BY <1>2, <1>3 DEF KeeperInv
    <2> QED BY <1>2, <1>3, <2>1 DEF Udp!ServerQuiet
  <1>4. ASSUME srvClosed, ~running, ~reopened, ~overlapped PROVE Udp!ServerQuiet /\ Udp!ClientQuiet
    <2>1. cliClosed /\ (cliConn = None \/ (cliConn \in chClosed /\ Udp!Dead(cliConn)))
      BY <1>4 DEF HolderInv
    <2>2. \A w \in Conns : heart[w] = None
      BY <1>4, <2>1 DEF UdpCanGo, HolderInv
    <2>3. \A w \in Conns : inWork[w] \in {"none", "up", "off"}
      BY DEF UdpCanGo
    <2>4. \A w \in Conns : conn[w] # "open"
      BY <1>4, <2>1, <2>3 DEF HolderInv, UsedInv, Udp!Dead
    <2>5. \A w \in Conns : ~Udp!Pings(w)
      BY <2>2 DEF Udp!Pings
    <2> QED BY <1>2, <1>4, <2>2, <2>4, <2>5 DEF Udp!ServerQuiet, Udp!ClientQuiet
  <1> QED BY <1>1, <1>3, <1>4

(* What BrokenIsReplaced and ClosedProxyEnds come to when nothing can be   *)
(* done, for any number of work connections: the goroutines of UDPProxy in *)
(* frps (server/proxy/udp.go:90-250) and of UDPProxy.InWorkConn in frpc    *)
(* (client/proxy/proxy.go:479-600) stand still only when a connection that *)
(* broke was given up, unless no other one is there to have, and when of a *)
(* proxy that was closed nothing is left, except after the three races     *)
(* that ClosedProxyEnds names.                                             *)
THEOREM NobodyKeepsBrokenConns == ASSUME None \notin Conns PROVE Udp!Spec => []NothingIsKept
  <1>1. Udp!Init => UdpInv
    BY UdpInit
  <1>2. UdpInv /\ [Udp!Next]_udpVars => UdpInv'
    BY UdpTypesStep, UsedStep, KeeperStep, HolderStep DEF UdpInv
  <1>3. UdpInv => NothingIsKept
    BY StandingIsQuiet
  <1>4. [Udp!Next]_Udp!vars => [Udp!Next]_udpVars
    BY DEF Udp!vars, Udp!server, Udp!client, udpVars
  <1> QED BY <1>1, <1>2, <1>3, <1>4, PTL DEF Udp!Spec
=============================================================================
