--------------------------- MODULE MCPortManager ---------------------------
(* PortManager on small instances: the proxies and the names are           *)
(* interchangeable.                                                        *)
EXTENDS PortManager, TLC

Symmetry == Permutations(Proxies) \union Permutations(Names)
=============================================================================
