----------------------------- MODULE ControlLife -----------------------------
(***************************************************************************)
(* The life of one control of frpc, as far as its service sees it: made    *)
(* with a connection, which is lost once; then its worker closes the       *)
(* proxies and at last closedDoneCh, or the control hangs.  ClientControl  *)
(* implements it with its goroutines, and in ClientService every control   *)
(* lives like this.                                                        *)
(***************************************************************************)
VARIABLE life    \* "none", "up", "lost", "hung", "vm" (pm is closed) or "ended" (closedDoneCh)

Init == life \in {"none", "up"}

Goes(from, to) == life = from /\ life' = to

Made == Goes("none", "up")
Lost == Goes("up", "lost")
Hangs == Goes("lost", "hung")
ClosesProxies == Goes("lost", "vm")
Ends == Goes("vm", "ended")

Next == Made \/ Lost \/ Hangs \/ ClosesProxies \/ Ends

Spec == Init /\ [][Next]_life
=============================================================================
