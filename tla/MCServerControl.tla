-------------------------- MODULE MCServerControl --------------------------
(* ServerControl on small instances.  Controls, run ids and names are      *)
(* interchangeable; the symmetry is used by the safety run only, because   *)
(* TLC cannot use it for liveness.  The liveness runs let the controls be  *)
(* created in a fixed order instead, which loses nothing: a control is     *)
(* nothing but a name until its login.                                     *)
EXTENDS ServerControl, TLC

Symmetry ==
  Permutations(Ctls) \union Permutations(RunIDs) \union Permutations(Names)

First == CHOOSE c \in Ctls : TRUE

InOrder == \A c \in Ctls : svc'[c] # "new" => c = First \/ svc[First] # "new"

OrderedNext ==
  \E c \in Ctls :
    \/ ServiceStep(c) \/ WriterStep(c) \/ ReaderStep(c) \/ ManagerStep(c) \/ StoperStep(c)
    \/ Environment(c) /\ InOrder

OrderedSpec == Init /\ [][OrderedNext]_vars /\ Fairness
=============================================================================
