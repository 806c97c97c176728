--------------------------- MODULE MCWorkConnPool ---------------------------
(* WorkConnPool on small instances.  Connections are interchangeable; TLC  *)
(* cannot use that as a symmetry where it checks liveness, so they arrive  *)
(* in a fixed order, which loses nothing.                                  *)
EXTENDS WorkConnPool, TLC

NextToArrive == CHOOSE w \in Conns : conn[w] = "new"

InOrder == \A w \in Conns : conn[w] = "new" /\ conn'[w] # "new" => w = NextToArrive

OrderedSpec == Init /\ [][Next /\ InOrder]_vars /\ Fairness
=============================================================================
