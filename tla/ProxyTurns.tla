----------------------------- MODULE ProxyTurns -----------------------------
(***************************************************************************)
(* What a client is promised about the successive configurations of one    *)
(* proxy (client/proxy/proxy_manager.go, Reload: a changed proxy is        *)
(* stopped and a new one takes its name).  On the server they take turns,  *)
(* in the order in which they were loaded: one runs there only when those  *)
(* before it are gone, and what is gone never runs again.                  *)
(***************************************************************************)
CONSTANTS Wrappers, None

VARIABLES
  before,   \* wrapper -> those loaded before it; {} for one that is not loaded
  loaded,   \* the wrappers loaded so far
  gone,     \* those that will not run any more
  runs      \* the one that the server runs, or None

turnVars == <<before, loaded, gone, runs>>

TurnsInit ==
  /\ before = [w \in Wrappers |-> {}]
  /\ loaded = {} /\ gone = {} /\ runs = None

\* Only what is loaded can be gone, and it stays gone; what runs is not.
Ends == gone \subseteq gone' /\ gone' \subseteq loaded' \ {runs'}

\* The step may end the one that the new one replaces.
LoadNext(w) ==
  /\ w \notin loaded
  /\ loaded' = loaded \union {w}
  /\ before' = [before EXCEPT ![w] = loaded]
  /\ Ends /\ w \notin gone'
  /\ UNCHANGED runs

\* The turn of w has come.
Run(w) ==
  /\ runs = None /\ w \in loaded \ gone
  /\ before[w] \subseteq gone
  /\ runs' = w
  /\ UNCHANGED <<before, loaded, gone>>

\* One may run again after it was stopped, as long as it is not gone.
Stop ==
  /\ runs # None /\ runs' = None
  /\ Ends
  /\ UNCHANGED <<before, loaded>>

\* One that does not run is given up.
GiveUp ==
  /\ gone' # gone /\ Ends
  /\ UNCHANGED <<before, loaded, runs>>

TurnsNext == (\E w \in Wrappers : LoadNext(w) \/ Run(w)) \/ Stop \/ GiveUp

TurnsSpec == TurnsInit /\ [][TurnsNext]_turnVars
=============================================================================
