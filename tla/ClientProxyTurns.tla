-------------------------- MODULE ClientProxyTurns --------------------------
(***************************************************************************)
(* ClientProxy with a history variable, the order in which its wrappers    *)
(* were loaded, implements ProxyTurns.                                     *)
(***************************************************************************)
EXTENDS ClientProxy

VARIABLE before   \* history: wrapper -> the wrappers loaded before it

Loaded == {w \in Wrappers : phase[w] # "unborn"}

HistoryInit == Init /\ before = [w \in Wrappers |-> {}]

HistoryNext ==
  /\ Next
  /\ before' = IF current' \in {current, None} THEN before
               ELSE [before EXCEPT ![current'] = Loaded]

HistorySpec == HistoryInit /\ [][HistoryNext]_<<vars, before>>

FairHistorySpec == HistorySpec /\ Fairness

\* A wrapper is gone when it is closed, the server does not run it, and no request for it is on
\* its way.
Gone == {w \in Wrappers : phase[w] = "closed" /\ \A i \in 0..Len(c2s) : ~Requested(w, i)}

Turns == INSTANCE ProxyTurns WITH loaded <- Loaded, gone <- Gone, runs <- registered

\* Successive configurations of a proxy take turns on the server (Manager.Reload, RegisterProxy):
\* one runs only when those before it are gone, and what is gone never runs again.
ImplementsTurns == Turns!TurnsSpec
=============================================================================
