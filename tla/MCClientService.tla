--------------------------- MODULE MCClientService ---------------------------
(* ClientService on a small instance.  Requests of the admin API are       *)
(* interchangeable, and so are the configurations but the empty one; TLC   *)
(* cannot use that as a symmetry where it checks liveness, so the first    *)
(* configuration is given, and the second request is used only while the   *)
(* first is under way, which loses nothing.  The second reload and Close   *)
(* do not come in one behaviour, which is a bound.                         *)
EXTENDS ClientService

CONSTANTS r1, r2, First

InOrder == reload[r2].at = "idle" /\ reload'[r2].at # "idle" => reload[r1].at # "idle"

ReloadsOrCloses == exit' => reloads' <= 1

OrderedSpec ==
  /\ Init /\ cfg = First
  /\ [][Next /\ InOrder /\ ReloadsOrCloses]_vars
  /\ Fairness
=============================================================================
