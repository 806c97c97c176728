--------------------------- MODULE MCClientControl ---------------------------
(* ClientControl on a small instance.  It starts where one proxy has been   *)
(* started; the other may be started later.  Two bounds: a reload stops     *)
(* only the first of them, and comes before Close is called.                *)
EXTENDS ClientControl, TLC

CONSTANTS w1, w2    \* two wrappers

OneStarted ==
  /\ conn = "open" /\ reader = "read" /\ readCh = 0 /\ handler = "loop" /\ asked = NoWrapper
  /\ sendCh = 0 /\ writer = "loop" /\ worker = "wait" /\ close = "idle"
  /\ wrapper = (w1 :> "idle" @@ w2 :> "new") /\ pm = PmFree

FewReloads ==
  pm = PmFree /\ pm'.by = "reload" => close = "idle" /\ pm'.at = w1 /\ pm'.rest = {}

StartedSpec == OneStarted /\ [][ControlNext /\ FewReloads]_controlVars /\ ControlFairness
=============================================================================
