-------------------------- MODULE SessionRegistry --------------------------
(***************************************************************************)
(* What frps promises about logins (server/service.go, RegisterControl and *)
(* the comment at its top): a client is known by its run id, and a login   *)
(* with the run id of an earlier session releases that session before the  *)
(* new one starts.  Sessions of one run id therefore take turns, in the    *)
(* order in which they logged in, and at most one of them is live.         *)
(***************************************************************************)
CONSTANTS Sessions, RunIDs, NoRun

VARIABLES
  status,   \* session -> "new", "waiting", "live" or "ended"
  run,      \* session -> its run id, NoRun before the login
  ahead     \* session -> the sessions of its run id that logged in before it

absVars == <<status, run, ahead>>

AbsInit ==
  /\ status = [s \in Sessions |-> "new"]
  /\ run = [s \in Sessions |-> NoRun]
  /\ ahead = [s \in Sessions |-> {}]

LogIn(s, r) ==
  /\ status[s] = "new"
  /\ status' = [status EXCEPT ![s] = "waiting"]
  /\ run' = [run EXCEPT ![s] = r]
  /\ ahead' = [ahead EXCEPT ![s] = {t \in Sessions : run[t] = r}]

Begin(s) ==
  /\ status[s] = "waiting"
  /\ \A t \in ahead[s] : status[t] = "ended"
  /\ status' = [status EXCEPT ![s] = "live"]
  /\ UNCHANGED <<run, ahead>>

End(s) ==
  /\ status[s] = "live"
  /\ status' = [status EXCEPT ![s] = "ended"]
  /\ UNCHANGED <<run, ahead>>

AbsNext ==
  \E s \in Sessions : (\E r \in RunIDs : LogIn(s, r)) \/ Begin(s) \/ End(s)

AbsSpec == AbsInit /\ [][AbsNext]_absVars
=============================================================================
