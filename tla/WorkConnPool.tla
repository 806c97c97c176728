---------------------------- MODULE WorkConnPool ----------------------------
(***************************************************************************)
(* The work connections of one control: Control.RegisterWorkConn and       *)
(* GetWorkConn (server/control.go), BaseProxy.GetWorkConnFromPool and the  *)
(* connection handlers that call it (server/proxy/proxy.go), and the end   *)
(* of Control.stoper, which closes the pool.                               *)
(*                                                                         *)
(* A user connection takes a work connection from the buffered channel     *)
(* workConnCh, or asks the client for one through sendCh and waits for it, *)
(* at most user_conn_timeout.  It then tells the client which proxy the    *)
(* connection is for (StartWorkConn); if that write fails it closes the    *)
(* connection and tries another, poolCount + 1 times in all.               *)
(*                                                                         *)
(* The module follows work connections as objects.  sendCh is represented  *)
(* by its length.  Of the other goroutines of ServerControl it keeps what  *)
(* decides whether a handler gets past sendCh: the writer, which may die,  *)
(* the manager, which sends its replies there, and the stoper, which       *)
(* closes sendCh only when the manager is done.                            *)
(***************************************************************************)
EXTENDS Integers, Sequences, FiniteSets

CONSTANTS
  Conns,      \* work connections dialled by the client
  Users,      \* goroutines that handle user connections
  PoolCount,  \* poolCount of the control
  PoolCap,    \* capacity of workConnCh (poolCount + 10 in the code)
  SendCap,    \* capacity of sendCh (10 in the code)
  NoConn      \* not a connection

ASSUME PoolAssumption ==
  /\ PoolCount \in Nat
  /\ PoolCap \in Nat \ {0}
  /\ SendCap \in Nat \ {0}
  /\ NoConn \notin Conns

VARIABLES
  workConnCh,   \* the buffered connections, oldest first
  conn,         \* "new", "arrived", "pooled", "taken", "started", "closed", "lost"
  user,         \* where each user connection is
  hand,         \* the work connection it has got
  tries,        \* loop variable of GetWorkConnFromPool
  sendLen,      \* messages in sendCh
  writer,       \* "run", or "done" after a write error
  mgr,          \* "idle", "reply" (a reply to send), "done", or "panicked":
                \* done, and ctl.mu left locked by a panic in CloseProxy
  stoper        \* "run", "sendClosed", "poolClosed", "done"

vars == <<workConnCh, conn, user, hand, tries, sendLen, writer, mgr, stoper>>

SendClosed == stoper # "run"
PoolClosed == stoper \in {"poolClosed", "done"}

Init ==
  /\ workConnCh = <<>>
  /\ conn = [w \in Conns |-> "new"]
  /\ user = [u \in Users |-> "idle"]
  /\ hand = [u \in Users |-> NoConn]
  /\ tries = [u \in Users |-> 0]
  /\ sendLen = 0
  /\ writer = "run"
  /\ mgr = "idle"
  /\ stoper = "run"

-----------------------------------------------------------------------------
(* A NewWorkConn message reaches Service.RegisterWorkConn, which finds the *)
(* control in the registry; from here on it holds the pointer.             *)
Arrive(w) ==
  /\ conn[w] = "new"
  /\ stoper # "done"
  /\ conn' = [conn EXCEPT ![w] = "arrived"]
  /\ UNCHANGED <<workConnCh, user, hand, tries, sendLen, writer, mgr, stoper>>

\* The plugin or the authentication refuses it; the caller closes it.
Refuse(w) ==
  /\ conn[w] = "arrived"
  /\ conn' = [conn EXCEPT ![w] = "closed"]
  /\ UNCHANGED <<workConnCh, user, hand, tries, sendLen, writer, mgr, stoper>>

(* Control.RegisterWorkConn: pooled if there is room; discarded with an    *)
(* error, and closed by the caller, if there is none.  On a closed channel *)
(* the send panics; the recover swallows it and nil is returned, so nobody *)
(* closes the connection.                                                  *)
RegisterWorkConn(w) ==
  /\ conn[w] = "arrived"
  /\ IF PoolClosed
     THEN conn' = [conn EXCEPT ![w] = "lost"] /\ UNCHANGED workConnCh
     ELSE IF Len(workConnCh) < PoolCap
     THEN /\ conn' = [conn EXCEPT ![w] = "pooled"]
          /\ workConnCh' = Append(workConnCh, w)
     ELSE conn' = [conn EXCEPT ![w] = "closed"] /\ UNCHANGED workConnCh
  /\ UNCHANGED <<user, hand, tries, sendLen, writer, mgr, stoper>>

-----------------------------------------------------------------------------
\* A user connection is accepted (and the NewUserConn plugin agrees).
Accept(u) ==
  /\ user[u] = "idle"
  /\ user' = [user EXCEPT ![u] = "get"]
  /\ tries' = [tries EXCEPT ![u] = 0]
  /\ UNCHANGED <<workConnCh, conn, hand, sendLen, writer, mgr, stoper>>

\* Faulty variant: the connection taken stays in the pool.
TakeKeeps(u) ==
  /\ user[u] \in {"get", "wait"}
  /\ workConnCh # <<>>
  /\ hand' = [hand EXCEPT ![u] = Head(workConnCh)]
  /\ conn' = [conn EXCEPT ![Head(workConnCh)] = "taken"]
  /\ user' = [user EXCEPT ![u] = "replace"]
  /\ UNCHANGED <<workConnCh, tries, sendLen, writer, mgr, stoper>>

(* GetWorkConn receives from workConnCh: at once, or while it waits.  The  *)
(* channel may be closed already: what is buffered is still delivered.     *)
Take(u) ==
  /\ user[u] \in {"get", "wait"}
  /\ workConnCh # <<>>
  /\ hand' = [hand EXCEPT ![u] = Head(workConnCh)]
  /\ conn' = [conn EXCEPT ![Head(workConnCh)] = "taken"]
  /\ workConnCh' = Tail(workConnCh)
  /\ user' = [user EXCEPT ![u] = "replace"]
  /\ UNCHANGED <<tries, sendLen, writer, mgr, stoper>>

\* GetWorkConn finds the pool empty and turns to the client.
FindEmpty(u) ==
  /\ user[u] = "get"
  /\ workConnCh = <<>>
  /\ ~PoolClosed
  /\ user' = [user EXCEPT ![u] = "request"]
  /\ UNCHANGED <<workConnCh, conn, hand, tries, sendLen, writer, mgr, stoper>>

\* ReqWorkConn goes into sendCh, now or when there is room.
Request(u) ==
  /\ user[u] = "request"
  /\ ~SendClosed
  /\ sendLen < SendCap
  /\ sendLen' = sendLen + 1
  /\ user' = [user EXCEPT ![u] = "wait"]
  /\ UNCHANGED <<workConnCh, conn, hand, tries, writer, mgr, stoper>>

\* Faulty variant: no timeout while waiting for a work connection.
GiveUpNoTimeout(u) ==
  /\ \/ user[u] \in {"get", "wait"} /\ PoolClosed /\ workConnCh = <<>>
     \/ user[u] = "request" /\ SendClosed
  /\ user' = [user EXCEPT ![u] = "failed"]
  /\ UNCHANGED <<workConnCh, conn, hand, tries, sendLen, writer, mgr, stoper>>

(* GetWorkConn fails: workConnCh is closed and empty, sendCh is closed, or *)
(* user_conn_timeout has passed while waiting for a work connection.       *)
GiveUp(u) ==
  /\ \/ user[u] \in {"get", "wait"} /\ PoolClosed /\ workConnCh = <<>>
     \/ user[u] = "request" /\ SendClosed
     \/ user[u] = "wait"
  /\ user' = [user EXCEPT ![u] = "failed"]
  /\ UNCHANGED <<workConnCh, conn, hand, tries, sendLen, writer, mgr, stoper>>

\* The connection taken is replaced: another ReqWorkConn, unless sendCh is
\* closed (the panic is caught).
Replace(u) ==
  /\ user[u] = "replace"
  /\ IF SendClosed THEN UNCHANGED sendLen
     ELSE sendLen < SendCap /\ sendLen' = sendLen + 1
  /\ user' = [user EXCEPT ![u] = "start"]
  /\ UNCHANGED <<workConnCh, conn, hand, tries, writer, mgr, stoper>>

\* StartWorkConn is written to the work connection.
StartOK(u) ==
  /\ user[u] = "start"
  /\ conn' = [conn EXCEPT ![hand[u]] = "started"]
  /\ user' = [user EXCEPT ![u] = "joined"]
  /\ UNCHANGED <<workConnCh, hand, tries, sendLen, writer, mgr, stoper>>

\* Faulty variant: the handler goes on after the first failed write.
StartFailsNoRetry(u) ==
  /\ user[u] = "start"
  /\ conn' = [conn EXCEPT ![hand[u]] = "closed"]
  /\ user' = [user EXCEPT ![u] = "joined"]
  /\ UNCHANGED <<workConnCh, hand, tries, sendLen, writer, mgr, stoper>>

(* The write fails: the connection is closed and another one is tried.     *)
(* The error is assigned to an inner variable (err :=), so after the last  *)
(* attempt the function returns the closed connection and a nil error, and *)
(* the handler goes on with it.                                            *)
StartFails(u) ==
  /\ user[u] = "start"
  /\ conn' = [conn EXCEPT ![hand[u]] = "closed"]
  /\ IF tries[u] < PoolCount
     THEN /\ tries' = [tries EXCEPT ![u] = @ + 1]
          /\ user' = [user EXCEPT ![u] = "get"]
          /\ hand' = [hand EXCEPT ![u] = NoConn]
     ELSE /\ user' = [user EXCEPT ![u] = "joined"]
          /\ UNCHANGED <<tries, hand>>
  /\ UNCHANGED <<workConnCh, sendLen, writer, mgr, stoper>>

\* The handler returns: its deferred calls close what it holds.
Finish(u) ==
  /\ user[u] \in {"joined", "failed"}
  /\ conn' = [w \in Conns |-> IF w = hand[u] THEN "closed" ELSE conn[w]]
  /\ user' = [user EXCEPT ![u] = "idle"]
  /\ hand' = [hand EXCEPT ![u] = NoConn]
  /\ UNCHANGED <<workConnCh, tries, sendLen, writer, mgr, stoper>>

-----------------------------------------------------------------------------
\* The writer sends a message to the client, or fails and returns.
WriterWrite ==
  /\ writer = "run"
  /\ sendLen > 0
  /\ sendLen' = sendLen - 1
  /\ UNCHANGED <<workConnCh, conn, user, hand, tries, writer, mgr, stoper>>

WriterFails ==
  /\ writer = "run"
  /\ sendLen > 0
  /\ sendLen' = sendLen - 1
  /\ writer' = "done"
  /\ UNCHANGED <<workConnCh, conn, user, hand, tries, mgr, stoper>>

\* manager has read a message that it answers, a NewProxy or a Ping ...
ManagerReceives ==
  /\ mgr = "idle"
  /\ mgr' = "reply"
  /\ UNCHANGED <<workConnCh, conn, user, hand, tries, sendLen, writer, stoper>>

\* ... and puts the answer into sendCh, when there is room.
ManagerReplies ==
  /\ mgr = "reply"
  /\ sendLen < SendCap
  /\ sendLen' = sendLen + 1
  /\ mgr' = "idle"
  /\ UNCHANGED <<workConnCh, conn, user, hand, tries, writer, stoper>>

\* manager returns: the heartbeat, an invalid Ping, the shutdown, a panic.
ManagerEnds ==
  /\ mgr = "idle"
  /\ mgr' \in {"done", "panicked"}
  /\ UNCHANGED <<workConnCh, conn, user, hand, tries, sendLen, writer, stoper>>

\* stoper, once the manager is done.
CloseSend ==
  /\ stoper = "run"
  /\ mgr \in {"done", "panicked"}
  /\ stoper' = "sendClosed"
  /\ UNCHANGED <<workConnCh, conn, user, hand, tries, sendLen, writer, mgr>>

\* stoper: close(workConnCh) under ctl.mu, once writer and reader are done.
ClosePool ==
  /\ stoper = "sendClosed"
  /\ writer = "done" \/ sendLen = 0
  /\ mgr # "panicked"
  /\ stoper' = "poolClosed"
  /\ UNCHANGED <<workConnCh, conn, user, hand, tries, sendLen, writer, mgr>>

\* Faulty variant: the pool is closed and not drained.
DrainNothing ==
  /\ stoper = "poolClosed"
  /\ stoper' = "done"
  /\ UNCHANGED <<workConnCh, conn, user, hand, tries, sendLen, writer, mgr>>

\* stoper drains the closed channel and closes what is left in it.
Drain ==
  /\ stoper = "poolClosed"
  /\ IF workConnCh = <<>>
     THEN stoper' = "done" /\ UNCHANGED <<workConnCh, conn>>
     ELSE /\ conn' = [conn EXCEPT ![Head(workConnCh)] = "closed"]
          /\ workConnCh' = Tail(workConnCh)
          /\ UNCHANGED stoper
  /\ UNCHANGED <<user, hand, tries, sendLen, writer, mgr>>

-----------------------------------------------------------------------------
UserStep(u) ==
  Take(u) \/ FindEmpty(u) \/ Request(u) \/ GiveUp(u) \/ Replace(u)
    \/ StartOK(u) \/ StartFails(u)

Next ==
  \/ \E w \in Conns : Arrive(w) \/ Refuse(w) \/ RegisterWorkConn(w)
  \/ \E u \in Users : Accept(u) \/ UserStep(u) \/ Finish(u)
  \/ WriterWrite \/ WriterFails
  \/ ManagerReceives \/ ManagerReplies \/ ManagerEnds
  \/ CloseSend \/ ClosePool \/ Drain

Spec == Init /\ [][Next]_vars

(* Handlers run, the timer of a waiting one fires, blocked senders are     *)
(* served in FIFO order, and the writer writes or fails.  A writer that    *)
(* ends starts the shutdown, so the manager ends once it is idle: readCh   *)
(* is closed.  When the manager has ended, the stoper closes sendCh.       *)
(* Nothing obliges a manager that stands at a full sendCh to get on.       *)
Fairness ==
  /\ \A u \in Users :
       /\ WF_vars(UserStep(u))
       /\ SF_vars(Request(u))
       /\ SF_vars(Replace(u))
  /\ WF_vars(WriterWrite \/ WriterFails)
  /\ WF_vars(writer = "done" /\ ManagerEnds)
  /\ WF_vars(CloseSend)

FairSpec == Spec /\ Fairness

-----------------------------------------------------------------------------
TypeOK ==
  /\ workConnCh \in Seq(Conns)
  /\ Len(workConnCh) <= PoolCap
  /\ conn \in [Conns -> {"new", "arrived", "pooled", "taken", "started",
                         "closed", "lost"}]
  /\ user \in [Users -> {"idle", "get", "request", "wait", "replace", "start",
                         "joined", "failed"}]
  /\ hand \in [Users -> Conns \union {NoConn}]
  /\ tries \in [Users -> 0..PoolCount]
  /\ sendLen \in 0..SendCap
  /\ writer \in {"run", "done"}
  /\ mgr \in {"idle", "reply", "done", "panicked"}
  /\ stoper \in {"run", "sendClosed", "poolClosed", "done"}
  /\ \A u \in Users : user[u] \in {"replace", "start"} => hand[u] \in Conns

(* A work connection is in one place: once in the pool, or in the hands of *)
(* one user connection.  No two users share one, and none is closed or     *)
(* handed out while it is still pooled, even when the stoper drains the    *)
(* pool while user connections take from it.                               *)
OneOwner ==
  /\ \A w \in Conns :
       conn[w] = "pooled" <=> \E i \in 1..Len(workConnCh) : workConnCh[i] = w
  /\ \A i, j \in 1..Len(workConnCh) : workConnCh[i] = workConnCh[j] => i = j
  /\ \A u, v \in Users : hand[u] # NoConn /\ hand[u] = hand[v] => u = v
  /\ \A w \in Conns : conn[w] \in {"taken", "started"} => \E u \in Users : hand[u] = w

(* After the shutdown no connection is stranded in the pool: each was      *)
(* closed or taken.  (A connection that registers after the pool is closed *)
(* is lost, see RegisterWorkConn; it was never in the pool.)               *)
NothingStranded ==
  stoper = "done" => \A w \in Conns : conn[w] # "pooled"

(* A user connection does not work on a connection that is in use by       *)
(* nobody's protocol: unless its retries are exhausted, the connection it  *)
(* joins has been sent StartWorkConn.                                      *)
JoinedIsStartedOrExhausted ==
  \A u \in Users : user[u] = "joined" =>
    conn[hand[u]] = "started" \/ tries[u] = PoolCount

(* The wedge of ServerControl: the writer is dead, sendCh is full, and the *)
(* manager, which stoper waits for before it closes sendCh, stands at it.  *)
(* A handler that has a ReqWorkConn to send then blocks for ever: the send *)
(* (control.go:252, 276) has no timeout.                                   *)
Wedged == writer = "done" /\ sendLen = SendCap /\ mgr = "reply"

HangsAtSend(u) == Wedged /\ user[u] \in {"request", "replace"}

(* "return an error if wait timeout" (control.go:231): a user connection   *)
(* gets a work connection or an error, unless its control is wedged while  *)
(* it has a request to send.                                               *)
UserAnswered ==
  \A u \in Users :
    user[u] = "get" ~> user[u] \in {"joined", "failed"} \/ HangsAtSend(u)

=============================================================================
