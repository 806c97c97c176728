---------------------------- MODULE ClientProxy ----------------------------
(***************************************************************************)
(* One proxy name of a client: the Wrapper state machine and its health    *)
(* monitor (client/proxy/proxy_wrapper.go, client/health/health.go), the   *)
(* Manager that replaces wrappers on a reload (client/proxy/               *)
(* proxy_manager.go), the message handler that delivers NewProxyResp, and  *)
(* the server that registers and closes the proxy (server/control.go).     *)
(*                                                                         *)
(* Wrapper and server talk through two FIFO channels, c2s and s2c.  Only   *)
(* the name links an answer to a question: a NewProxyResp says neither     *)
(* which NewProxy nor which wrapper it answers.  Timers (3 s between       *)
(* checks, 20 s for an answer, 30 s after an error) may fire at any time.  *)
(* MaxInFlight bounds the NewProxy messages not yet answered.              *)
(*                                                                         *)
(* The module covers one control connection; when it ends both sides drop  *)
(* everything, and the next one starts from Init with a new Manager.       *)
(***************************************************************************)
EXTENDS Integers, Sequences, FiniteSets

CONSTANTS
  Wrappers,     \* successive wrappers of the name, one per configuration
  Monitored,    \* those with a health check
  MaxFailed,    \* health_check_max_failed
  MaxInFlight,  \* bound on c2s and s2c together, for NewProxy
  None          \* no wrapper

ASSUME ClientAssumption ==
  /\ Monitored \subseteq Wrappers
  /\ MaxFailed \in Nat \ {0}
  /\ MaxInFlight \in Nat \ {0}
  /\ None \notin Wrappers

VARIABLES
  current,      \* Manager.proxies[name]
  phase,        \* phase of each wrapper, "unborn" before NewWrapper
  health,       \* Wrapper.health: 0 is healthy
  seen,         \* what checkWorker has read of health, "no" between two rounds
  failedTimes,  \* Monitor.failedTimes, saturating at MaxFailed
  c2s,          \* NewProxy (the wrapper that sends it) and CloseProxy (None)
  s2c,          \* NewProxyResp: TRUE is a success
  handling,     \* the answer msgHandler delivers: <<wrapper, answer>> or <<>>
  registered,   \* the wrapper whose configuration the server runs, or None
  mixed         \* history: see SetRunningStatus

vars == <<current, phase, health, seen, failedTimes, c2s, s2c, handling,
          registered, mixed>>

Phases == {"unborn", "new", "wait start", "start error", "running",
           "check failed", "closed"}

Init ==
  /\ current = None
  /\ phase = [w \in Wrappers |-> "unborn"]
  /\ health = [w \in Wrappers |-> IF w \in Monitored THEN 1 ELSE 0]
  /\ seen = [w \in Wrappers |-> "no"]
  /\ failedTimes = [w \in Wrappers |-> 0]
  /\ c2s = <<>>
  /\ s2c = <<>>
  /\ handling = <<>>
  /\ registered = None
  /\ mixed = FALSE

Unanswered == Cardinality({i \in DOMAIN c2s : c2s[i] # None}) + Len(s2c)

\* Wrapper.close: EvCloseProxy.  From here on answers are ignored until the
\* next NewProxy.
SendClose == c2s' = Append(c2s, None) /\ mixed' = FALSE

-----------------------------------------------------------------------------
(* Manager.Reload and Manager.Close: the wrapper, if there is one, is      *)
(* stopped and dropped, and a new one may take its place.                  *)

\* Faulty variant: Stop closes only a proxy that runs.
ReplaceClosesRunningOnly(new) ==
  /\ current' = new
  /\ phase' = [w \in Wrappers |-> IF w = new THEN "new"
                                  ELSE IF w = current THEN "closed" ELSE phase[w]]
  /\ IF current # None /\ phase[current] = "running" THEN SendClose
     ELSE UNCHANGED <<c2s, mixed>>
  /\ UNCHANGED <<health, seen, failedTimes, s2c, handling, registered>>

Replace(new) ==
  /\ current' = new
  /\ phase' = [w \in Wrappers |-> IF w = new THEN "new"
                                  ELSE IF w = current THEN "closed" ELSE phase[w]]
  /\ IF current # None THEN SendClose ELSE UNCHANGED <<c2s, mixed>>
  /\ UNCHANGED <<health, seen, failedTimes, s2c, handling, registered>>

\* The configuration adds the proxy or changes it.
Load(w) == phase[w] = "unborn" /\ Replace(w)

\* The configuration drops the proxy, or the client closes.
Drop == current # None /\ Replace(None)

-----------------------------------------------------------------------------
(* A round of Wrapper.checkWorker reads health, then takes the lock and    *)
(* looks at the phase: health may have changed, the wrapper been stopped.  *)
LoadHealth(w) ==
  /\ phase[w] \notin {"unborn", "closed"}
  /\ seen[w] = "no"
  /\ seen' = [seen EXCEPT ![w] = IF health[w] = 0 THEN "healthy" ELSE "failed"]
  /\ UNCHANGED <<current, phase, health, failedTimes, c2s, s2c, handling, registered, mixed>>

\* A timer ends these phases: 20 s after an unanswered NewProxy, 30 s after an error.
Timed == {"wait start", "start error"}

\* Faulty variant: a wrapper that was stopped in the middle of a round asks once more.
StartableOnceMore == {"new", "check failed", "closed"} \union Timed

\* The phases in which a healthy wrapper sends NewProxy: at first, after a
\* failed check, and when a timer has expired.
Startable == {"new", "check failed"} \union Timed

\* Faulty variant: an error is final.
RequestStartNoRetry(w) ==
  /\ seen[w] = "healthy"
  /\ phase[w] \in {"new", "check failed", "wait start"}
  /\ Unanswered < MaxInFlight
  /\ seen' = [seen EXCEPT ![w] = "no"]
  /\ phase' = [phase EXCEPT ![w] = "wait start"]
  /\ c2s' = Append(c2s, w)
  /\ UNCHANGED <<current, health, failedTimes, s2c, handling, registered, mixed>>

RequestStart(w) ==
  /\ seen[w] = "healthy"
  /\ phase[w] \in Startable
  /\ Unanswered < MaxInFlight
  /\ seen' = [seen EXCEPT ![w] = "no"]
  /\ phase' = [phase EXCEPT ![w] = "wait start"]
  /\ c2s' = Append(c2s, w)
  /\ UNCHANGED <<current, health, failedTimes, s2c, handling, registered, mixed>>

\* Faulty variant: a proxy that runs is not withdrawn.
WithdrawWaitingOnly(w) ==
  /\ seen[w] = "failed"
  /\ phase[w] = "wait start"
  /\ seen' = [seen EXCEPT ![w] = "no"]
  /\ phase' = [phase EXCEPT ![w] = "check failed"]
  /\ SendClose
  /\ UNCHANGED <<current, health, failedTimes, s2c, handling, registered>>

\* The check has failed: a proxy that runs or may run is withdrawn.
Withdraw(w) ==
  /\ seen[w] = "failed"
  /\ phase[w] \in {"running", "wait start"}
  /\ seen' = [seen EXCEPT ![w] = "no"]
  /\ phase' = [phase EXCEPT ![w] = "check failed"]
  /\ SendClose
  /\ UNCHANGED <<current, health, failedTimes, s2c, handling, registered>>

\* Nothing to do in this round: the phase is another, or the timer still runs.
Pass(w) ==
  /\ \/ seen[w] = "healthy" /\ phase[w] \notin Startable \ Timed
     \/ seen[w] = "failed" /\ phase[w] \notin {"running", "wait start"}
  /\ seen' = [seen EXCEPT ![w] = "no"]
  /\ UNCHANGED <<current, phase, health, failedTimes, c2s, s2c, handling, registered, mixed>>

-----------------------------------------------------------------------------
(* Monitor.checkWorker of a monitor that was not stopped.  statusOK is     *)
(* health = 0: the callbacks that follow it are part of the step.          *)
Monitors(w) == w \in Monitored /\ phase[w] \notin {"unborn", "closed"}

CheckPasses(w) ==
  /\ Monitors(w)
  /\ health' = [health EXCEPT ![w] = 0]
  /\ UNCHANGED <<current, phase, seen, failedTimes, c2s, s2c, handling, registered, mixed>>

\* failedTimes is never reset.
CheckFails(w) ==
  /\ Monitors(w)
  /\ failedTimes' = [failedTimes EXCEPT ![w] = IF @ < MaxFailed THEN @ + 1 ELSE @]
  /\ health' = [health EXCEPT ![w] = IF failedTimes'[w] >= MaxFailed THEN 1 ELSE @]
  /\ UNCHANGED <<current, phase, seen, c2s, s2c, handling, registered, mixed>>

-----------------------------------------------------------------------------
\* msgHandler takes an answer; Manager.StartProxy looks the wrapper up.
Deliver ==
  /\ handling = <<>>
  /\ s2c # <<>>
  /\ s2c' = Tail(s2c)
  /\ handling' = IF current = None THEN <<>> ELSE <<current, Head(s2c)>>
  /\ UNCHANGED <<current, phase, health, seen, failedTimes, c2s, registered, mixed>>

\* Faulty variant: an answer is taken in every phase.
SetRunningStatusAlways ==
  /\ handling # <<>>
  /\ handling' = <<>>
  /\ phase' = [phase EXCEPT ![handling[1]] =
                 IF handling[2] THEN "running" ELSE "start error"]
  /\ mixed' = (mixed \/ Unanswered > 0)
  /\ UNCHANGED <<current, health, seen, failedTimes, c2s, s2c, registered>>

(* Wrapper.SetRunningStatus: an answer counts only in "wait start".  On a  *)
(* success the proxy runs, or it fails to (its plugin) and is closed again.*)
(* mixed remembers that a wrapper took an answer while another was still   *)
(* due: it may have taken the wrong one.                                   *)
SetRunningStatus ==
  /\ handling # <<>>
  /\ handling' = <<>>
  /\ LET w == handling[1]
     IN IF phase[w] # "wait start" THEN UNCHANGED <<phase, c2s, mixed>>
        ELSE \/ /\ phase' = [phase EXCEPT ![w] =
                               IF handling[2] THEN "running" ELSE "start error"]
                /\ mixed' = (mixed \/ Unanswered > 0)
                /\ UNCHANGED c2s
             \/ /\ handling[2]
                /\ phase' = [phase EXCEPT ![w] = "start error"]
                /\ SendClose
  /\ UNCHANGED <<current, health, seen, failedTimes, s2c, registered>>

-----------------------------------------------------------------------------
(* The server's manager goroutine: RegisterProxy refuses a name that is    *)
(* registered and may refuse any other proxy; CloseProxy of an unknown     *)
(* name does nothing.                                                      *)
ServerNewProxy(ok) ==
  /\ c2s # <<>>
  /\ Head(c2s) # None
  /\ ok => registered = None
  /\ c2s' = Tail(c2s)
  /\ s2c' = Append(s2c, ok)
  /\ registered' = IF ok THEN Head(c2s) ELSE registered
  /\ UNCHANGED <<current, phase, health, seen, failedTimes, handling, mixed>>

ServerCloseProxy ==
  /\ c2s # <<>>
  /\ Head(c2s) = None
  /\ c2s' = Tail(c2s)
  /\ registered' = None
  /\ UNCHANGED <<current, phase, health, seen, failedTimes, s2c, handling, mixed>>

-----------------------------------------------------------------------------
CheckWorker(w) == LoadHealth(w) \/ RequestStart(w) \/ Withdraw(w) \/ Pass(w)
Client == Deliver \/ SetRunningStatus
Server == (\E ok \in BOOLEAN : ServerNewProxy(ok)) \/ ServerCloseProxy

Next ==
  \/ \E w \in Wrappers :
       Load(w) \/ CheckWorker(w) \/ CheckPasses(w) \/ CheckFails(w)
  \/ Drop \/ Client \/ Server

Spec == Init /\ [][Next]_vars

(* The goroutines run: checkWorker every 3 s, msgHandler, the server.  The *)
(* timers of checkWorker expire: it does not pass for ever.                *)
Fairness ==
  /\ \A w \in Wrappers :
       WF_vars(CheckWorker(w)) /\ SF_vars(RequestStart(w))
  /\ WF_vars(Client)
  /\ WF_vars(Server)

FairSpec == Spec /\ Fairness

-----------------------------------------------------------------------------
(* Types; exactly one wrapper, the current one, is alive (Manager.Reload). *)
TypeOK ==
  /\ current \in Wrappers \union {None}
  /\ phase \in [Wrappers -> Phases]
  /\ health \in [Wrappers -> {0, 1}]
  /\ seen \in [Wrappers -> {"no", "healthy", "failed"}]
  /\ failedTimes \in [Wrappers -> 0..MaxFailed]
  /\ c2s \in Seq(Wrappers \union {None})
  /\ s2c \in Seq(BOOLEAN)
  /\ handling \in {<<>>} \union (Wrappers \X BOOLEAN)
  /\ registered \in Wrappers \union {None}
  /\ mixed \in BOOLEAN
  /\ \A w \in Wrappers : phase[w] \in {"unborn", "closed"} <=> w # current

\* The wrappers the server runs or has been asked to run, with the number of
\* messages of c2s up to then.
Requested(w, i) == (i = 0 /\ registered = w) \/ (i \in 1..Len(c2s) /\ c2s[i] = w)

(* A proxy that the client withdrew (Stop, or a failed health check) is    *)
(* removed from the server: behind everything that registers it there is a *)
(* CloseProxy on its way, whatever was asked twice, answered late or       *)
(* replaced meanwhile.                                                     *)
WithdrawnIsClosed ==
  \A w \in Wrappers : phase[w] \in {"check failed", "closed"} =>
    \A i \in 0..Len(c2s) : Requested(w, i) => \E j \in (i + 1)..Len(c2s) : c2s[j] = None

(* When nothing is under way, client and server agree: the server runs the *)
(* proxy if and only if the client believes it does, and with the current  *)
(* configuration -- unless an answer was taken while another was due.      *)
QuietMeansAgreement ==
  c2s = <<>> /\ s2c = <<>> /\ handling = <<>> /\ ~mixed =>
    registered = IF current # None /\ phase[current] = "running" THEN current
                 ELSE None

(* "Remove" on a failed health check (README.md:712) reaches the server,   *)
(* except through mixed answers.                                           *)
UnhealthyIsRemovedUnlessMixed ==
  \A w \in Wrappers :
    health[w] = 1 ~> registered # w \/ health[w] = 0 \/ mixed

(* A proxy that stays healthy and configured runs in the end: errors are   *)
(* retried.  The antecedent: a server that is asked again and again        *)
(* accepts in the end, and the client's plugin does not fail for ever.     *)
Accepting ==
  /\ SF_vars(ServerNewProxy(TRUE))
  /\ SF_vars(SetRunningStatus /\ current # None /\ phase'[current] = "running")

HealthyRuns ==
  Accepting =>
    \A w \in Wrappers :
      current = w /\ health[w] = 0 ~>
        current # w \/ health[w] = 1 \/ phase[w] = "running" \/ mixed

=============================================================================
