---------------------------- MODULE SessionProofs ----------------------------
(***************************************************************************)
(* The shared sessions for any number of callers and connections.          *)
(*                                                                         *)
(* QuicSession, for any number of UDP clients: its type, that there is one *)
(* connection at a time, what the published handshake stands for, and      *)
(* whose streams the flow table holds.                                     *)
(*                                                                         *)
(* SshSession, as S: its type, that the published future has somebody      *)
(* behind it, and that a connection which is up is the published one as    *)
(* long as callers keep to their own.                                      *)
(*                                                                         *)
(* CfpClose, as C: that the worker is asked to close once.                 *)
(***************************************************************************)
EXTENDS Sessions, FiniteSetTheorems, TLAPS

Waiting     == {c \in Caller : caller[c] = "waiting"}
Carriers(q) == {q[i].conn : i \in 1..Len(q)}
FlowRec     == [addr : Addr, conn : Conn]

(* The waiter count is exact, and who waits, waits on a connection.        *)
Shape ==
  /\ TypeOK
  /\ waiters = Cardinality(Waiting)
  /\ \A c \in Caller : caller[c] # "idle" => on[c] # None

(* A task that has not ended is the one the session knows.                 *)
OneTask == \A g \in Conn : Alive(g) => connTask = g

(* A caller that is about to take a protocol takes one whose task has not  *)
(* seen the end, unless close() cancelled it.                              *)
WaiterUp ==
  \A c \in Caller :
    caller[c] = "waiting" /\ future[on[c]] = "result" => task[on[c]] \in {"up", "cancelled"}

IInv == Shape /\ OneTask /\ HandshakeIsBacked /\ FlowsOfOneConnection /\ WaiterUp

-----------------------------------------------------------------------------
(* The flow table after a datagram carries what it carried, and g.         *)
LEMMA FlowCarries ==
  ASSUME NEW a \in Addr, NEW g \in Conn, flows \in Seq(FlowRec), MAX_UDP_FLOWS \in Nat \ {0}
  PROVE  /\ Flow(a, g) \in Seq(FlowRec)
         /\ Carriers(Flow(a, g)) \subseteq Carriers(flows) \cup {g}
<1> DEFINE new == [addr |-> a, conn |-> g]
<1>1. new \in FlowRec /\ new.conn = g
  BY DEF FlowRec
<1>2. ASSUME NEW q \in Seq(FlowRec)
      PROVE  /\ Append(q, new) \in Seq(FlowRec)
             /\ Carriers(Append(q, new)) \subseteq Carriers(q) \cup {g}
  <2>1. /\ Append(q, new) \in Seq(FlowRec) /\ Len(Append(q, new)) = Len(q) + 1 /\ Len(q) \in Nat
        /\ \A i \in 1..Len(q) : Append(q, new)[i] = q[i]
        /\ Append(q, new)[Len(q) + 1] = new
    BY <1>1
  <2>2. ASSUME NEW i \in 1..Len(Append(q, new))
        PROVE  Append(q, new)[i].conn \in Carriers(q) \cup {g}
    <3>1. CASE i \in 1..Len(q)
      BY <3>1, <2>1 DEF Carriers
    <3>2. CASE i = Len(q) + 1
      BY <3>2, <2>1, <1>1
    <3> QED BY <3>1, <3>2, <2>1
  <2> QED BY <2>1, <2>2 DEF Carriers
<1>3. ASSUME flows # <<>>
      PROVE  Tail(flows) \in Seq(FlowRec) /\ Carriers(Tail(flows)) \subseteq Carriers(flows)
  <2>1. /\ Tail(flows) \in Seq(FlowRec) /\ Len(Tail(flows)) = Len(flows) - 1 /\ Len(flows) \in Nat
        /\ \A i \in 1..Len(Tail(flows)) : Tail(flows)[i] = flows[i + 1]
    BY <1>3
  <2>2. ASSUME NEW i \in 1..Len(Tail(flows))
        PROVE  Tail(flows)[i].conn \in Carriers(flows)
    <3>1. i + 1 \in 1..Len(flows) /\ Tail(flows)[i] = flows[i + 1]
      BY <2>1
    <3> QED BY <3>1 DEF Carriers
  <2> QED BY <2>1, <2>2 DEF Carriers
<1>4. CASE \E i \in 1..Len(flows) : flows[i].addr = a
  BY <1>4 DEF Flow
<1>5. CASE ~\E i \in 1..Len(flows) : flows[i].addr = a
  <2>1. CASE Len(flows) >= MAX_UDP_FLOWS
    <3>1. flows # <<>>
      BY <2>1
    <3>2. Flow(a, g) = Append(Tail(flows), new)
      BY <1>5, <2>1 DEF Flow
    <3> QED BY <3>1, <3>2, <1>2, <1>3
  <2>2. CASE ~(Len(flows) >= MAX_UDP_FLOWS)
    <3>1. Flow(a, g) = Append(flows, new)
      BY <1>5, <2>2 DEF Flow
    <3> QED BY <3>1, <1>2
  <2> QED BY <2>1, <2>2
<1> QED BY <1>4, <1>5

(* A caller that goes from one state to another, and the count of waiters. *)
LEMMA CallerMoves ==
  ASSUME Shape, NEW c \in Caller, NEW st \in {"idle", "closing", "waiting"},
         NEW g \in Conn \cup {None}, st # "idle" => g # None,
         caller' = [caller EXCEPT ![c] = st], on' = [on EXCEPT ![c] = g],
         waiters' = IF st = "waiting"
                      THEN IF caller[c] = "waiting" THEN waiters ELSE waiters + 1
                      ELSE IF caller[c] = "waiting" THEN waiters - 1 ELSE waiters
  PROVE  /\ caller' \in [Caller -> {"idle", "closing", "waiting"}]
         /\ on' \in [Caller -> Conn \cup {None}]
         /\ waiters' = Cardinality(Waiting)' /\ waiters' \in Nat
         /\ (\A d \in Caller : caller[d] # "idle" => on[d] # None)'
<1>1. /\ caller \in [Caller -> {"idle", "closing", "waiting"}]
      /\ on \in [Caller -> Conn \cup {None}] /\ waiters = Cardinality(Waiting)
      /\ waiters \in Nat
  BY DEF Shape, TypeOK, FutureStates
<1>2. /\ caller' \in [Caller -> {"idle", "closing", "waiting"}]
      /\ on' \in [Caller -> Conn \cup {None}]
      /\ caller'[c] = st /\ on'[c] = g
      /\ \A d \in Caller : d # c => caller'[d] = caller[d] /\ on'[d] = on[d]
  BY <1>1
<1>3. (\A d \in Caller : caller[d] # "idle" => on[d] # None)'
  BY <1>2 DEF Shape
<1>4. IsFiniteSet(Waiting) /\ Cardinality(Waiting) \in Nat
  <2>1. Waiting \in SUBSET Caller
    BY DEF Waiting
  <2>2. IsFiniteSet(Waiting)
    BY <2>1, FS_Subset, SizeAssumption, NoneAssumption
  <2> QED BY <2>2, FS_CardinalityType
<1>5. CASE st = "waiting"
  <2>1. Waiting' = Waiting \cup {c}
    BY <1>5, <1>2 DEF Waiting
  <2>2. c \in Waiting <=> caller[c] = "waiting"
    BY DEF Waiting
  <2>3. Cardinality(Waiting \cup {c}) = IF c \in Waiting THEN Cardinality(Waiting)
                                        ELSE Cardinality(Waiting) + 1
    BY <1>4, FS_AddElement
  <2> QED BY <2>1, <2>2, <2>3, <1>1, <1>2, <1>3, <1>4, <1>5
<1>6. CASE st # "waiting"
  <2>1. Waiting' = Waiting \ {c}
    BY <1>6, <1>2 DEF Waiting
  <2>2. c \in Waiting <=> caller[c] = "waiting"
    BY DEF Waiting
  <2>3. Cardinality(Waiting \ {c}) = IF c \in Waiting THEN Cardinality(Waiting) - 1
                                     ELSE Cardinality(Waiting)
    BY <1>4, FS_RemoveElement
  <2>4. IsFiniteSet(Waiting \ {c}) /\ Cardinality(Waiting \ {c}) \in Nat
    BY <1>4, FS_RemoveElement, FS_CardinalityType
  <2> QED BY <2>1, <2>2, <2>3, <2>4, <1>1, <1>2, <1>3, <1>4, <1>6
<1> QED BY <1>5, <1>6

(* What a flow belongs to is a connection.                                 *)
LEMMA CarriedByConn ==
  ASSUME NEW q \in Seq(FlowRec), NEW i \in 1..Len(q)
  PROVE  q[i].conn \in Conn
<1>1. q[i] \in FlowRec
  OBVIOUS
<1> QED BY <1>1 DEF FlowRec

(* The table after a call has returned g, whose stream a datagram may take. *)
LEMMA FlowsKept ==
  ASSUME IInv, NEW c \in Caller, NEW g \in Conn, Return(c, g),
         (task[g] = "up" /\ connTask = g) \/ task[g] = "cancelled",
         UNCHANGED <<task, connTask>>
  PROVE  flows' \in Seq(FlowRec) /\ FlowsOfOneConnection'
<1>1. flows \in Seq(FlowRec) /\ MAX_UDP_FLOWS \in Nat \ {0}
  BY SizeAssumption, NoneAssumption DEF IInv, Shape, TypeOK, FutureStates, FlowRec
<1>2. flows' \in Seq(FlowRec) /\ Carriers(flows') \subseteq Carriers(flows) \cup {g}
  <2>1. CASE flows' = flows
    BY <2>1, <1>1
  <2>2. ASSUME NEW a \in Addr, flows' = Flow(a, g)
        PROVE  flows' \in Seq(FlowRec) /\ Carriers(flows') \subseteq Carriers(flows) \cup {g}
    BY <2>2, <1>1, FlowCarries
  <2> QED BY <2>1, <2>2 DEF Return
<1>3. \A h \in Carriers(flows) : (task[h] = "up" /\ connTask = h) \/ task[h] = "cancelled"
  BY DEF IInv, FlowsOfOneConnection, Carriers
<1>4. ASSUME NEW i \in 1..Len(flows')
      PROVE  (task[flows'[i].conn] = "up" /\ connTask = flows'[i].conn)
               \/ task[flows'[i].conn] = "cancelled"
  <2>1. flows'[i].conn \in Carriers(flows')
    BY DEF Carriers
  <2> QED BY <2>1, <1>2, <1>3
<1> QED BY <1>2, <1>4 DEF FlowsOfOneConnection

(* Every connection is typed in one piece, for the steps below.            *)
LEMMA Typed ==
  ASSUME TypeOK
  PROVE  /\ handshake \in Conn \cup {None} /\ connTask \in Conn \cup {None} /\ waiters \in Nat
         /\ future \in [Conn -> {"none", "pending", "result", "error", "cancelled"}]
         /\ task \in [Conn -> {"none", "scheduled", "dialing", "connecting", "up", "done",
                               "cancelled", "skipped"}]
         /\ cancelled \subseteq Conn /\ closed \subseteq Conn
         /\ flows \in Seq(FlowRec)
         /\ caller \in [Caller -> {"idle", "closing", "waiting"}]
         /\ on \in [Caller -> Conn \cup {None}]
BY DEF TypeOK, FutureStates, FlowRec

-----------------------------------------------------------------------------
(* A new connection takes a slot nobody refers to.                         *)
LEMMA CreateStep ==
  ASSUME IInv, NEW c \in Caller, NEW g \in Conn, caller[c] # "waiting", Create(c, g)
  PROVE  IInv'
<1>1. TypeOK /\ Shape /\ OneTask /\ HandshakeIsBacked /\ FlowsOfOneConnection /\ WaiterUp
  BY DEF IInv, Shape
<1>2. /\ ~Alive(g) /\ g \notin {handshake, connTask} /\ (\A d \in Caller : on[d] # g)
      /\ (\A i \in 1..Len(flows) : flows[i].conn # g)
      /\ (connTask # None => ~Alive(connTask))
      /\ handshake' = g /\ connTask' = g /\ waiters' = waiters + 1
      /\ future' = [future EXCEPT ![g] = "pending"]
      /\ task' = [task EXCEPT ![g] = "scheduled"]
      /\ cancelled' = cancelled \ {g} /\ closed' = closed \ {g}
      /\ caller' = [caller EXCEPT ![c] = "waiting"] /\ on' = [on EXCEPT ![c] = g]
      /\ flows' = flows
  BY DEF Create, Free, Wait
<1>3. \A h \in Conn : ~Alive(h)
  BY <1>1, <1>2, SizeAssumption, NoneAssumption DEF OneTask
<1>4. Shape'
  <2>1. /\ caller' \in [Caller -> {"idle", "closing", "waiting"}]
        /\ on' \in [Caller -> Conn \cup {None}]
        /\ waiters' = Cardinality(Waiting)' /\ waiters' \in Nat
        /\ (\A d \in Caller : caller[d] # "idle" => on[d] # None)'
    BY <1>1, <1>2, CallerMoves, SizeAssumption, NoneAssumption
  <2>2. TypeOK'
    BY <2>1, <1>1, <1>2, Typed DEF TypeOK, FutureStates, FlowRec
  <2> QED BY <2>1, <2>2 DEF Shape
<1>5. /\ future'[g] = "pending" /\ task'[g] = "scheduled"
      /\ \A h \in Conn : h # g => future'[h] = future[h] /\ task'[h] = task[h]
  BY <1>1, <1>2, Typed
<1>6. OneTask'
  BY <1>2, <1>3, <1>5 DEF OneTask, Alive
<1>7. HandshakeIsBacked'
  BY <1>2, <1>5 DEF HandshakeIsBacked, Alive
<1>8. FlowsOfOneConnection'
  <2>1. \A i \in 1..Len(flows) : flows[i].conn \in Conn /\ flows[i].conn # g
    BY <1>1, <1>2, Typed, CarriedByConn
  <2>2. \A i \in 1..Len(flows) : task[flows[i].conn] = "cancelled"
    BY <2>1, <1>1, <1>3 DEF FlowsOfOneConnection, Alive
  <2> QED BY <2>1, <2>2, <1>2, <1>5 DEF FlowsOfOneConnection
<1>9. WaiterUp'
  <2>1. \A d \in Caller : d # c => caller'[d] = caller[d] /\ on'[d] = on[d]
    BY <1>1, <1>2, Typed
  <2>2. on'[c] = g
    BY <1>1, <1>2, Typed
  <2>3. \A d \in Caller : caller[d] = "waiting" => on[d] \in Conn /\ on[d] # g
    BY <1>1, <1>2, Typed DEF Shape
  <2> QED BY <2>1, <2>2, <2>3, <1>1, <1>5 DEF WaiterUp
<1> QED BY <1>4, <1>6, <1>7, <1>8, <1>9 DEF IInv

(* A caller leaves the loop or waits, and no connection changes.           *)
LEMMA CallerStep ==
  ASSUME IInv, NEW c \in Caller, NEW st \in {"idle", "closing", "waiting"},
         NEW g \in Conn \cup {None}, st # "idle" => g # None,
         caller' = [caller EXCEPT ![c] = st], on' = [on EXCEPT ![c] = g],
         waiters' = IF st = "waiting"
                      THEN IF caller[c] = "waiting" THEN waiters ELSE waiters + 1
                      ELSE IF caller[c] = "waiting" THEN waiters - 1 ELSE waiters,
         st = "waiting" => future[g] # "result",
         flows' \in Seq(FlowRec), FlowsOfOneConnection',
         handshake' \in {handshake, None}, cancelled' \subseteq Conn,
         UNCHANGED <<connTask, future, task, closed>>
  PROVE  IInv'
<1>1. TypeOK /\ Shape /\ OneTask /\ HandshakeIsBacked /\ WaiterUp
  BY DEF IInv, Shape
<1>2. /\ caller' \in [Caller -> {"idle", "closing", "waiting"}]
      /\ on' \in [Caller -> Conn \cup {None}]
      /\ waiters' = Cardinality(Waiting)' /\ waiters' \in Nat
      /\ (\A d \in Caller : caller[d] # "idle" => on[d] # None)'
  BY <1>1, CallerMoves
<1>3. TypeOK'
  BY <1>1, <1>2, Typed DEF TypeOK, FutureStates, FlowRec
<1>4. OneTask' /\ HandshakeIsBacked'
  BY <1>1 DEF OneTask, HandshakeIsBacked, Alive
<1>5. WaiterUp'
  <2>1. /\ \A d \in Caller : d # c => caller'[d] = caller[d] /\ on'[d] = on[d]
        /\ caller'[c] = st /\ on'[c] = g
    BY <1>1, Typed
  <2> QED BY <2>1, <1>1 DEF WaiterUp
<1> QED BY <1>2, <1>3, <1>4, <1>5 DEF IInv, Shape

(* The table and the type of its flows when a step leaves it alone, or     *)
(* empties it, and the tasks too.                                          *)
LEMMA FlowsUnchanged ==
  ASSUME IInv, UNCHANGED <<flows, task, connTask>>
  PROVE  flows' \in Seq(FlowRec) /\ FlowsOfOneConnection'
BY DEF IInv, Shape, TypeOK, FutureStates, FlowsOfOneConnection, FlowRec

(* One turn of the loop, by a caller that does not wait for a handshake.   *)
LEMMA LoopStep ==
  ASSUME IInv, NEW c \in Caller, caller[c] # "waiting", Loop(c)
  PROVE  IInv'
<1>1. /\ handshake \in Conn \cup {None} /\ connTask \in Conn \cup {None}
      /\ cancelled \subseteq Conn /\ HandshakeIsBacked /\ OneTask
  BY DEF IInv, Shape, TypeOK, FutureStates
<1>2. Current # None => Current = handshake /\ Current \in Conn
  BY <1>1, SizeAssumption, NoneAssumption DEF Current
<1>3. CASE \E g \in Conn : Create(c, g)
  BY <1>3, CreateStep
<1>4. CASE /\ connTask # None /\ handshake' = None /\ Wait(c, "closing", connTask)
           /\ UNCHANGED <<connTask, waiters, conns>>
  <2>1. flows' \in Seq(FlowRec) /\ FlowsOfOneConnection'
    BY <1>4, FlowsUnchanged DEF Wait, conns
  <2> QED BY <1>4, <2>1, <1>1, CallerStep DEF Wait, conns
<1>5. CASE /\ Current # None /\ future[Current] = "pending" /\ waiters' = waiters + 1
           /\ Wait(c, "waiting", Current) /\ UNCHANGED <<handshake, connTask, conns>>
  <2>1. flows' \in Seq(FlowRec) /\ FlowsOfOneConnection'
    BY <1>5, FlowsUnchanged DEF Wait, conns
  <2> QED BY <1>5, <2>1, <1>1, <1>2, CallerStep DEF Wait, conns
<1>6. CASE /\ Current # None /\ future[Current] = "result" /\ Return(c, Current)
           /\ UNCHANGED <<session, conns>>
  <2>1. task[Current] = "up" /\ connTask = Current
    BY <1>1, <1>2, <1>6 DEF HandshakeIsBacked, OneTask, Alive
  <2>2. flows' \in Seq(FlowRec) /\ FlowsOfOneConnection'
    BY <1>2, <1>6, <2>1, FlowsKept DEF session, conns
  <2> QED BY <1>6, <2>2, <1>1, CallerStep DEF Return, session, conns
<1>7. CASE Raise(c) /\ UNCHANGED <<session, conns>>
  <2>1. flows' \in Seq(FlowRec) /\ FlowsOfOneConnection'
    BY <1>7, FlowsUnchanged DEF Raise, session, conns
  <2> QED BY <1>7, <2>1, <1>1, CallerStep DEF Raise, session, conns
<1> QED BY <1>3, <1>4, <1>5, <1>6, <1>7 DEF Loop

(* A caller that waited, and goes on or is cancelled.                      *)
LEMMA WaiterStep ==
  ASSUME IInv, NEW c \in Caller,
         ClosingOver(c) \/ Resume(c) \/ CancelWait(c) \/ CancelClosing(c)
  PROVE  IInv'
<1>1. /\ connTask \in Conn \cup {None} /\ cancelled \subseteq Conn /\ OneTask /\ WaiterUp
      /\ on \in [Caller -> Conn \cup {None}] /\ (caller[c] # "idle" => on[c] # None)
  BY DEF IInv, Shape, TypeOK, FutureStates
<1>2. ASSUME Raise(c), waiters' = IF caller[c] = "waiting" THEN waiters - 1 ELSE waiters,
             cancelled' \subseteq Conn, UNCHANGED <<handshake, connTask, future, task, closed>>
      PROVE  IInv'
  <2>1. flows' \in Seq(FlowRec) /\ FlowsOfOneConnection'
    BY <1>2, FlowsUnchanged DEF Raise
  <2> QED BY <1>2, <2>1, CallerStep DEF Raise
<1>3. CASE ClosingOver(c)
  BY <1>1, <1>2, <1>3, LoopStep DEF ClosingOver, session, conns
<1>4. CASE Resume(c)
  <2>1. CASE future[on[c]] = "result"
    <3>1. on[c] \in Conn /\ Return(c, on[c])
      <4>1. caller[c] = "waiting" /\ Return(c, on[c])
        BY <1>4, <2>1 DEF Resume
      <4>2. on[c] \in Conn \cup {None} /\ on[c] # None
        BY <1>1, <4>1
      <4> QED BY <4>1, <4>2
    <3>2. (task[on[c]] = "up" /\ connTask = on[c]) \/ task[on[c]] = "cancelled"
      BY <1>1, <1>4, <2>1, <3>1 DEF Resume, WaiterUp, OneTask, Alive
    <3>3. flows' \in Seq(FlowRec) /\ FlowsOfOneConnection'
      BY <1>4, <3>1, <3>2, FlowsKept DEF Resume, conns
    <3> QED BY <1>1, <1>4, <3>1, <3>3, CallerStep DEF Resume, Return, conns
  <2>2. CASE future[on[c]] # "result"
    BY <1>1, <1>2, <1>4, <2>2 DEF Resume, conns
  <2> QED BY <2>1, <2>2
<1>5. CASE CancelWait(c)
  BY <1>1, <1>2, <1>5, SizeAssumption, NoneAssumption DEF CancelWait
<1>6. CASE CancelClosing(c)
  BY <1>1, <1>2, <1>6 DEF CancelClosing, session, conns
<1> QED BY <1>3, <1>4, <1>5, <1>6

-----------------------------------------------------------------------------
(* A task that goes on, whatever it does to its future.                    *)
LEMMA TaskShape ==
  ASSUME Shape, NEW g \in Conn,
         NEW t \in {"dialing", "connecting", "up", "done", "cancelled", "skipped"},
         NEW f \in {"result", "error", "cancelled"},
         task' \in {task, [task EXCEPT ![g] = t]}, future' \in {future, Settled(future, g, f)},
         handshake' \in {handshake, None}, connTask' \in {connTask, None},
         cancelled' \subseteq Conn, closed' \subseteq Conn,
         flows' = flows \/ flows' = <<>>, UNCHANGED <<waiters, caller, on>>
  PROVE  Shape'
<1>1. future' \in [Conn -> {"none", "pending", "result", "error", "cancelled"}]
  BY DEF Shape, TypeOK, FutureStates, Settled
<1>2. task' \in [Conn -> {"none", "scheduled", "dialing", "connecting", "up", "done",
                          "cancelled", "skipped"}]
  BY DEF Shape, TypeOK, FutureStates
<1>3. flows' \in Seq([addr : Addr, conn : Conn])
  <2>1. flows \in Seq(FlowRec) /\ <<>> \in Seq(FlowRec)
    BY DEF Shape, TypeOK, FutureStates, FlowRec
  <2> QED BY <2>1 DEF FlowRec
<1>4. TypeOK'
  BY <1>1, <1>2, <1>3 DEF Shape, TypeOK, FutureStates
<1>5. Cardinality(Waiting)' = Cardinality(Waiting)
  BY DEF Waiting
<1> QED BY <1>4, <1>5 DEF Shape

(* A task that has not settled its future yet goes on.                     *)
LEMMA TaskAdvances ==
  ASSUME IInv, NEW g \in Conn, Start(g) \/ Skip(g) \/ Dialed(g)
  PROVE  IInv'
<1>1. TypeOK /\ Shape /\ OneTask /\ HandshakeIsBacked /\ FlowsOfOneConnection /\ WaiterUp
  BY DEF IInv, Shape
<1>2. PICK t \in {"dialing", "connecting", "skipped"} :
        /\ task' = [task EXCEPT ![g] = t] /\ task[g] \in {"scheduled", "dialing"}
        /\ UNCHANGED <<session, future, cancelled, closed, flows, caller, on>>
  BY DEF Start, Skip, Dialed
<1>3. /\ task'[g] = t /\ \A h \in Conn : h # g => task'[h] = task[h]
  BY <1>1, <1>2, Typed
<1>4. Shape'
  BY <1>1, <1>2, Typed, TaskShape DEF session
<1>5. OneTask'
  BY <1>1, <1>2, <1>3 DEF OneTask, Alive, session
<1>6. HandshakeIsBacked'
  <2>1. CASE handshake = g
    BY <2>1, <1>1, <1>2, <1>3 DEF HandshakeIsBacked, Alive, session
  <2>2. CASE handshake # g
    BY <2>2, <1>1, <1>2, <1>3, Typed DEF HandshakeIsBacked, Alive, session
  <2> QED BY <2>1, <2>2
<1>7. FlowsOfOneConnection'
  <2>1. ASSUME NEW i \in 1..Len(flows) PROVE flows[i].conn \in Conn
    BY <1>1, Typed, CarriedByConn
  <2> QED BY <2>1, <1>1, <1>2, <1>3 DEF FlowsOfOneConnection, session
<1>8. WaiterUp'
  BY <1>1, <1>2, <1>3, Typed DEF WaiterUp, Shape
<1> QED BY <1>4, <1>5, <1>6, <1>7, <1>8 DEF IInv

(* wait_connected returns.                                                 *)
LEMMA UpStep ==
  ASSUME IInv, NEW g \in Conn, Up(g)
  PROVE  IInv'
<1>1. TypeOK /\ Shape /\ OneTask /\ HandshakeIsBacked /\ FlowsOfOneConnection /\ WaiterUp
  BY DEF IInv, Shape
<1>2. /\ task[g] = "connecting" /\ g \notin closed
      /\ task' = [task EXCEPT ![g] = "up"] /\ future' = Settled(future, g, "result")
      /\ UNCHANGED <<handshake, connTask, waiters, cancelled, closed, flows, caller, on>>
  BY DEF Up, session
<1>3. /\ task'[g] = "up" /\ \A h \in Conn : h # g => task'[h] = task[h] /\ future'[h] = future[h]
      /\ future'[g] = IF future[g] = "pending" THEN "result" ELSE future[g]
  BY <1>1, <1>2, Typed DEF Settled
<1>4. Shape'
  BY <1>1, <1>2, Typed, TaskShape
<1>5. OneTask'
  BY <1>1, <1>2, <1>3 DEF OneTask, Alive
<1>6. HandshakeIsBacked'
  <2>1. CASE handshake = g
    BY <2>1, <1>1, <1>2, <1>3 DEF HandshakeIsBacked, Alive
  <2>2. CASE handshake # g
    BY <2>2, <1>1, <1>2, <1>3, Typed DEF HandshakeIsBacked, Alive
  <2> QED BY <2>1, <2>2
<1>7. FlowsOfOneConnection'
  <2>1. ASSUME NEW i \in 1..Len(flows) PROVE flows[i].conn \in Conn
    BY <1>1, Typed, CarriedByConn
  <2> QED BY <2>1, <1>1, <1>2, <1>3 DEF FlowsOfOneConnection
<1>8. WaiterUp'
  <2>1. ASSUME NEW c \in Caller, caller[c] = "waiting", future'[on[c]] = "result"
        PROVE  task'[on[c]] \in {"up", "cancelled"}
    <3>1. on[c] \in Conn
      BY <1>1, <2>1, Typed DEF Shape
    <3>2. CASE on[c] = g
      BY <3>2, <1>3
    <3>3. CASE on[c] # g
      BY <3>1, <3>3, <1>1, <1>3, <2>1 DEF WaiterUp
    <3> QED BY <3>2, <3>3
  <2> QED BY <1>2, <2>1 DEF WaiterUp
<1> QED BY <1>4, <1>5, <1>6, <1>7, <1>8 DEF IInv

(* A task ends: its finally clause takes the session down with it.         *)
LEMMA EndStep ==
  ASSUME IInv, NEW g \in Conn, DialFails(g) \/ Finish(g) \/ Unwind(g)
  PROVE  IInv'
<1>1. TypeOK /\ Shape /\ OneTask /\ HandshakeIsBacked /\ WaiterUp
  BY DEF IInv, Shape
<1>2. PICK t \in {"done", "cancelled"}, f \in {"error", "cancelled"} :
        /\ task' = [task EXCEPT ![g] = t] /\ future' = Settled(future, g, f)
        /\ closed' \in {closed, closed \cup {g}} /\ cancelled' = cancelled
        /\ Release(g)
        /\ t = "done" => \A c \in Caller :
             ~(on[c] = g /\ caller[c] = "waiting" /\ future[g] = "result")
  <2>1. CASE DialFails(g)
    BY <2>1, <1>1 DEF DialFails, WaiterUp
  <2>2. CASE Finish(g)
    BY <2>2 DEF Finish
  <2>3. CASE Unwind(g)
    BY <2>3 DEF Unwind
  <2> QED BY <2>1, <2>2, <2>3
<1>3. /\ handshake' = (IF handshake = g THEN None ELSE handshake)
      /\ connTask' = (IF connTask = g THEN None ELSE connTask)
      /\ flows' = <<>> /\ UNCHANGED <<waiters, caller, on>>
  BY <1>2 DEF Release
<1>4. /\ task'[g] = t /\ \A h \in Conn : h # g => task'[h] = task[h] /\ future'[h] = future[h]
      /\ future'[g] = IF future[g] = "pending" THEN f ELSE future[g]
  BY <1>1, <1>2, Typed DEF Settled
<1>5. Shape'
  BY <1>1, <1>2, <1>3, Typed, TaskShape
<1>6. OneTask'
  BY <1>1, <1>2, <1>3, <1>4 DEF OneTask, Alive
<1>7. HandshakeIsBacked'
  BY <1>1, <1>2, <1>3, <1>4, Typed DEF HandshakeIsBacked, Alive
<1>8. FlowsOfOneConnection'
  BY <1>3 DEF FlowsOfOneConnection
<1>9. WaiterUp'
  <2>1. ASSUME NEW c \in Caller, caller[c] = "waiting", future'[on[c]] = "result"
        PROVE  task'[on[c]] \in {"up", "cancelled"}
    <3>1. on[c] \in Conn
      BY <1>1, <2>1, Typed DEF Shape
    <3>2. CASE on[c] = g
      BY <3>2, <1>2, <1>4, <2>1
    <3>3. CASE on[c] # g
      BY <3>1, <3>3, <1>1, <1>4, <2>1 DEF WaiterUp
    <3> QED BY <3>2, <3>3
  <2> QED BY <1>3, <2>1 DEF WaiterUp
<1> QED BY <1>5, <1>6, <1>7, <1>8, <1>9 DEF IInv

(* The connection terminates while its task goes on, or was closed before. *)
LEMMA TerminatedStep ==
  ASSUME IInv, NEW g \in Conn, Terminated(g) \/ TerminatedLate(g)
  PROVE  IInv'
<1>1. TypeOK /\ Shape /\ OneTask /\ HandshakeIsBacked /\ WaiterUp
  BY DEF IInv, Shape
<1>2. CASE Terminated(g)
  <2>1. /\ closed' = closed \cup {g}
        /\ future' = (IF handshake = g THEN Settled(future, g, "error") ELSE future)
        /\ handshake' = (IF handshake = g THEN None ELSE handshake)
        /\ flows' = <<>> /\ UNCHANGED <<connTask, waiters, task, cancelled, caller, on>>
    BY <1>2 DEF Terminated
  <2>2. \A h \in Conn : /\ h # g => future'[h] = future[h]
                        /\ future'[h] = "result" => future[h] = "result"
    BY <1>1, <2>1, Typed DEF Settled
  <2>3. Shape'
    BY <1>1, <2>1, Typed, TaskShape
  <2>4. OneTask'
    BY <1>1, <2>1 DEF OneTask, Alive
  <2>5. HandshakeIsBacked'
    BY <1>1, <2>1, <2>2, Typed DEF HandshakeIsBacked, Alive
  <2>6. FlowsOfOneConnection'
    BY <2>1 DEF FlowsOfOneConnection
  <2>7. WaiterUp'
    BY <1>1, <2>1, <2>2, Typed DEF WaiterUp, Shape
  <2> QED BY <2>3, <2>4, <2>5, <2>6, <2>7 DEF IInv
<1>3. CASE TerminatedLate(g)
  <2>1. flows' = <<>> /\ UNCHANGED <<handshake, connTask, waiters, future, task, cancelled,
                                     closed, caller, on>>
    BY <1>3 DEF TerminatedLate, session, conns
  <2>2. Shape'
    BY <1>1, <2>1, Typed, TaskShape
  <2> QED BY <1>1, <2>1, <2>2
          DEF IInv, OneTask, Alive, HandshakeIsBacked, FlowsOfOneConnection, WaiterUp
<1> QED BY <1>2, <1>3

(* close() marks tasks, and stuttering changes nothing.                    *)
LEMMA QuietStep ==
  ASSUME IInv, Close \/ UNCHANGED vars
  PROVE  IInv'
<1>1. /\ cancelled' \subseteq Conn
      /\ UNCHANGED <<handshake, connTask, waiters, future, task, closed, flows, caller, on>>
  BY DEF IInv, Shape, TypeOK, FutureStates, Close, vars, session, conns
<1>2. Shape'
  <2>1. Cardinality(Waiting)' = Cardinality(Waiting)
    BY <1>1 DEF Waiting
  <2> QED BY <1>1, <2>1 DEF IInv, Shape, TypeOK, FutureStates
<1> QED BY <1>1, <1>2
        DEF IInv, OneTask, Alive, HandshakeIsBacked, FlowsOfOneConnection, WaiterUp

(* A proxy with no connection yet satisfies the inductive invariant.       *)
LEMMA InitInv == Init => IInv
<1> SUFFICES ASSUME Init PROVE IInv
  OBVIOUS
<1>1. TypeOK
  BY DEF Init, TypeOK, FutureStates
<1>2. Waiting = {}
  BY DEF Init, Waiting
<1>3. Cardinality({}) = 0
  BY FS_EmptySet
<1>4. Shape
  BY <1>1, <1>2, <1>3 DEF Init, Shape
<1> QED BY <1>4
        DEF Init, IInv, OneTask, Alive, HandshakeIsBacked, FlowsOfOneConnection, WaiterUp

(* Every step of _wait_for_quic_connection, of _run_quic_connection and of *)
(* close() keeps it.                                                       *)
LEMMA StepInv == IInv /\ [Next]_vars => IInv'
<1> SUFFICES ASSUME IInv, [Next]_vars PROVE IInv'
  OBVIOUS
<1>1. ASSUME NEW c \in Caller,
             Ask(c) \/ ClosingOver(c) \/ Resume(c) \/ CancelWait(c) \/ CancelClosing(c)
      PROVE  IInv'
  BY <1>1, LoopStep, WaiterStep DEF Ask
<1>2. ASSUME NEW g \in Conn,
             \/ Start(g) \/ Skip(g) \/ Dialed(g) \/ DialFails(g) \/ Up(g)
             \/ Terminated(g) \/ Finish(g) \/ Unwind(g) \/ TerminatedLate(g)
      PROVE  IInv'
  BY <1>2, TaskAdvances, UpStep, EndStep, TerminatedStep
<1>3. CASE Close \/ UNCHANGED vars
  BY <1>3, QuietStep
<1> QED BY <1>1, <1>2, <1>3 DEF Next

(* So it holds in every reachable state, for any requests and connections. *)
LEMMA Invariance == Spec => []IInv
BY InitInv, StepInv, PTL DEF Spec

-----------------------------------------------------------------------------
(* The session, its connections, the flow table and the callers have their *)
(* types; the count of waiters is never negative.                          *)
THEOREM TypeCorrect == Spec => []TypeOK
<1>1. IInv => TypeOK
  BY DEF IInv, Shape
<1> QED BY <1>1, Invariance, PTL

(* _wait_for_quic_connection never lets two connections of one proxy live  *)
(* at the same time.                                                       *)
THEOREM OneContextAlways == Spec => []OneContext
<1>1. IInv => OneContext
  BY DEF IInv, OneTask, OneContext
<1> QED BY <1>1, Invariance, PTL

(* The published handshake is one that will be settled or whose connection *)
(* is up, but for a task that close() cancelled before its first step.     *)
THEOREM HandshakeAlwaysBacked == Spec => []HandshakeIsBacked
<1>1. IInv => HandshakeIsBacked
  BY DEF IInv
<1> QED BY <1>1, Invariance, PTL

(* The flow table holds streams of the connection that is up, or of one    *)
(* that close() cancelled.                                                 *)
THEOREM FlowsAlwaysOfOne == Spec => []FlowsOfOneConnection
<1>1. IInv => FlowsOfOneConnection
  BY DEF IInv
<1> QED BY <1>1, Invariance, PTL

-----------------------------------------------------------------------------
(* QuicSession implements SharedSession.                                   *)

LifeNow   == [g \in Conn |-> Life(g)]
StandsNow == [c \in Caller |-> Stands(c)]
OnNow     == [c \in Caller |-> IF caller[c] = "waiting" THEN on[c] ELSE None]

(* A future is pending exactly as long as its task is on the way to        *)
(* settling it, or was skipped, and then it is the published one.          *)
Settling ==
  /\ \A g \in Conn : future[g] = "pending" => handshake = g /\ g \notin closed
  /\ \A g \in Conn : task[g] \in {"scheduled", "dialing", "connecting"} /\ g \notin closed
                       => future[g] = "pending"
  /\ \A g \in Conn : task[g] = "up" => future[g] = "result"

SharedInv == IInv /\ Settling

(* A caller moves, and no connection does: what it stands for changes.     *)
LEMMA SpeaksForItself ==
  ASSUME TypeOK, NEW c \in Caller, NEW st \in {"idle", "closing", "waiting"}, NEW g \in Conn \cup {None},
         caller' = [caller EXCEPT ![c] = st], on' = [on EXCEPT ![c] = g],
         \A d \in Caller : d # c /\ caller[d] = "waiting" => future'[on[d]] = future[on[d]]
  PROVE  /\ st = "waiting" /\ future'[g] = "pending" =>
              /\ StandsNow' = [StandsNow EXCEPT ![c] = "waiting"]
              /\ OnNow' = [OnNow EXCEPT ![c] = g]
         /\ st # "waiting" =>
              /\ StandsNow' = [StandsNow EXCEPT ![c] = "idle"]
              /\ OnNow' = [OnNow EXCEPT ![c] = None]
<1>1. /\ caller'[c] = st /\ on'[c] = g
      /\ \A d \in Caller : d # c => caller'[d] = caller[d] /\ on'[d] = on[d]
  BY Typed
<1>2. \A d \in Caller : d # c => Stands(d)' = Stands(d)
  BY <1>1 DEF Stands
<1>3. ASSUME st = "waiting", future'[g] = "pending"
      PROVE  StandsNow' = [StandsNow EXCEPT ![c] = "waiting"] /\ OnNow' = [OnNow EXCEPT ![c] = g]
  <2>1. Stands(c)' = "waiting"
    BY <1>1, <1>3 DEF Stands
  <2>2. StandsNow' = [StandsNow EXCEPT ![c] = "waiting"]
    BY <1>2, <2>1 DEF StandsNow
  <2>3. OnNow' = [OnNow EXCEPT ![c] = g]
    BY <1>1, <1>3 DEF OnNow
  <2> QED BY <2>2, <2>3
<1>4. ASSUME st # "waiting"
      PROVE  StandsNow' = [StandsNow EXCEPT ![c] = "idle"] /\ OnNow' = [OnNow EXCEPT ![c] = None]
  <2>1. Stands(c)' = "idle"
    BY <1>1, <1>4 DEF Stands
  <2>2. StandsNow' = [StandsNow EXCEPT ![c] = "idle"]
    BY <1>2, <2>1 DEF StandsNow
  <2>3. OnNow' = [OnNow EXCEPT ![c] = None]
    BY <1>1, <1>4 DEF OnNow
  <2> QED BY <2>2, <2>3
<1> QED BY <1>3, <1>4

(* What connections are doing depends on futures, tasks and closed ones.   *)
LEMMA LifeStays ==
  ASSUME UNCHANGED <<future, task, closed>>
  PROVE  LifeNow' = LifeNow
<1>1. \A g \in Conn : Life(g)' = Life(g)
  BY DEF Life, Alive
<1> QED BY <1>1 DEF LifeNow

(* A step that the promise does not see.                                   *)
LEMMA Unseen ==
  ASSUME LifeNow' = LifeNow, StandsNow' = StandsNow, OnNow' = OnNow
  PROVE  UNCHANGED Shared!vars
BY DEF Shared!vars, LifeNow, StandsNow, OnNow

(* A caller leaves, whatever it was waiting for, or was not.               *)
LEMMA LeaveRefines ==
  ASSUME TypeOK, NEW c \in Caller, NEW st \in {"idle", "closing"}, NEW g \in Conn \cup {None},
         caller' = [caller EXCEPT ![c] = st], on' = [on EXCEPT ![c] = g], UNCHANGED <<future, task, closed>>
  PROVE  Shared!Leave(c) \/ UNCHANGED Shared!vars
<1>1. LifeNow' = LifeNow
  BY LifeStays
<1>2. /\ StandsNow' = [StandsNow EXCEPT ![c] = "idle"]
      /\ OnNow' = [OnNow EXCEPT ![c] = None]
  BY SpeaksForItself
<1>3. CASE caller[c] = "waiting"
  <2>1. StandsNow[c] # "idle"
    BY <1>3 DEF StandsNow, Stands
  <2> QED BY <1>1, <1>2, <2>1 DEF Shared!Leave, LifeNow, StandsNow, OnNow
<1>4. CASE caller[c] # "waiting"
  <2>1. StandsNow[c] = "idle" /\ OnNow[c] = None
    BY <1>4 DEF StandsNow, Stands, OnNow
  <2>2. StandsNow' = StandsNow /\ OnNow' = OnNow
    <3>1. \A F, v : F = [d \in Caller |-> F[d]] /\ F[c] = v => [F EXCEPT ![c] = v] = F
      OBVIOUS
    <3>2. StandsNow = [d \in Caller |-> StandsNow[d]] /\ OnNow = [d \in Caller |-> OnNow[d]]
      BY DEF StandsNow, OnNow
    <3> QED BY <1>2, <2>1, <3>1, <3>2
  <2> QED BY <1>1, <2>2, Unseen
<1> QED BY <1>3, <1>4

(* A caller waits for the connection that is being made.                   *)
LEMMA JoinRefines ==
  ASSUME TypeOK, NEW c \in Caller, caller[c] # "waiting", NEW g \in Conn, future[g] = "pending",
         caller' = [caller EXCEPT ![c] = "waiting"], on' = [on EXCEPT ![c] = g], UNCHANGED <<future, task, closed>>
  PROVE  Shared!Join(c, g)
<1>1. LifeNow' = LifeNow /\ LifeNow[g] = "making"
  BY LifeStays DEF LifeNow, Life
<1>2. /\ StandsNow' = [StandsNow EXCEPT ![c] = "waiting"]
      /\ OnNow' = [OnNow EXCEPT ![c] = g]
  BY SpeaksForItself
<1>3. StandsNow[c] = "idle"
  BY DEF StandsNow, Stands
<1> QED BY <1>1, <1>2, <1>3 DEF Shared!Join, Shared!WaitFor, LifeNow, StandsNow, OnNow

(* A caller begins a connection: no other is left, whose future is pending *)
(* or whose task is not over.                                              *)
LEMMA CreateRefines ==
  ASSUME SharedInv, NEW c \in Caller, caller[c] # "waiting", NEW g \in Conn, Create(c, g)
  PROVE  Shared!Begin(c, g) /\ Settling'
<1>1. TypeOK /\ OneTask /\ Settling
  BY DEF SharedInv, IInv, Shape
<1>2. /\ Current = None /\ ~Alive(g) /\ (\A d \in Caller : on[d] # g)
      /\ (connTask # None => ~Alive(connTask)) /\ handshake' = g
      /\ future' = [future EXCEPT ![g] = "pending"] /\ task' = [task EXCEPT ![g] = "scheduled"]
      /\ closed' = closed \ {g}
      /\ caller' = [caller EXCEPT ![c] = "waiting"] /\ on' = [on EXCEPT ![c] = g]
  BY DEF Create, Free, Wait
<1>3. \A h \in Conn : ~Alive(h) /\ future[h] # "pending"
  BY <1>1, <1>2, SizeAssumption, NoneAssumption DEF OneTask, Settling, Current
<1>4. /\ future'[g] = "pending" /\ task'[g] = "scheduled"
      /\ \A h \in Conn : h # g => future'[h] = future[h] /\ task'[h] = task[h] /\ (h \in closed' <=> h \in closed)
  BY <1>1, <1>2, Typed
<1>5. Settling'
  BY <1>2, <1>3, <1>4 DEF Settling, Alive
<1>6. \A h \in Conn : LifeNow[h] = "down"
  BY <1>3 DEF LifeNow, Life, Alive
<1>7. LifeNow' = [LifeNow EXCEPT ![g] = "making"]
  <2>1. Life(g)' = "making" /\ \A h \in Conn : h # g => Life(h)' = Life(h)
    BY <1>4 DEF Life, Alive
  <2> QED BY <2>1 DEF LifeNow
<1>8. /\ StandsNow' = [StandsNow EXCEPT ![c] = "waiting"]
      /\ OnNow' = [OnNow EXCEPT ![c] = g]
  <2>1. \A d \in Caller : caller[d] = "waiting" => on[d] \in Conn /\ on[d] # g
    BY <1>1, <1>2, Typed DEF SharedInv, IInv, Shape
  <2>2. \A d \in Caller : d # c /\ caller[d] = "waiting" => future'[on[d]] = future[on[d]]
    BY <1>4, <2>1
  <2> QED BY <1>1, <1>2, <1>4, <2>2, SpeaksForItself
<1>9. StandsNow[c] = "idle" /\ \A d \in Caller : OnNow[d] # g
  BY <1>2, NoneAssumption DEF StandsNow, Stands, OnNow
<1> QED BY <1>5, <1>6, <1>7, <1>8, <1>9 DEF Shared!Begin, Shared!WaitFor, LifeNow, StandsNow, OnNow

(* Where nothing of it changes, the promise is kept.                       *)
LEMMA SharedRests ==
  ASSUME Settling, UNCHANGED <<handshake, future, task, closed, caller, on>>
  PROVE  [Shared!Next]_(Shared!vars) /\ Settling'
<1>1. Settling'
  BY DEF Settling
<1>2. StandsNow' = StandsNow /\ OnNow' = OnNow
  BY DEF StandsNow, Stands, OnNow
<1> QED BY <1>1, <1>2, LifeStays, Unseen

(* What the callers do keeps the promise.                                  *)
LEMMA CallerRefines ==
  ASSUME SharedInv, NEW c \in Caller,
         Ask(c) \/ ClosingOver(c) \/ Resume(c) \/ CancelWait(c) \/ CancelClosing(c)
  PROVE  [Shared!Next]_(Shared!vars) /\ Settling'
<1>0. TypeOK /\ Settling /\ HandshakeIsBacked
  BY DEF SharedInv, IInv, Shape
<1>1. ASSUME UNCHANGED <<future, task, closed>>, handshake' = handshake \/ \A g \in Conn : future[g] # "pending"
      PROVE  Settling'
  BY <1>0, <1>1 DEF Settling
<1>2. ASSUME Raise(c) \/ \E g \in Conn : Return(c, g), UNCHANGED <<future, task, closed>>
      PROVE  [Shared!Next]_(Shared!vars)
  <2>1. caller' = [caller EXCEPT ![c] = "idle"] /\ on' = [on EXCEPT ![c] = None]
    BY <1>2 DEF Raise, Return
  <2> QED BY <1>0, <1>2, <2>1, LeaveRefines DEF Shared!Next
<1>3. ASSUME Loop(c), caller[c] # "waiting"
      PROVE  [Shared!Next]_(Shared!vars) /\ Settling'
  <2>1. Current # None => Current = handshake /\ Current \in Conn
    BY <1>0, Typed, NoneAssumption DEF Current
  <2>2. CASE \E g \in Conn : Create(c, g)
    BY <1>3, <2>2, CreateRefines DEF Shared!Next
  <2>3. CASE /\ Current = None /\ connTask # None /\ handshake' = None
             /\ Wait(c, "closing", connTask) /\ UNCHANGED <<connTask, waiters, conns>>
    <3>1. /\ caller' = [caller EXCEPT ![c] = "closing"] /\ on' = [on EXCEPT ![c] = connTask]
          /\ UNCHANGED <<future, task, closed>> /\ connTask \in Conn \cup {None}
      BY <1>0, <2>3, Typed DEF Wait, conns
    <3>2. \A g \in Conn : future[g] # "pending"
      BY <1>0, <2>3, NoneAssumption DEF Settling, Current
    <3> QED BY <1>0, <1>1, <3>1, <3>2, LeaveRefines DEF Shared!Next
  <2>4. CASE /\ Current # None /\ future[Current] = "pending"
             /\ Wait(c, "waiting", Current) /\ UNCHANGED <<handshake, connTask, conns>>
    <3>1. /\ caller' = [caller EXCEPT ![c] = "waiting"] /\ on' = [on EXCEPT ![c] = Current]
          /\ UNCHANGED <<future, task, closed, handshake>>
      BY <2>4 DEF Wait, conns
    <3> QED BY <1>0, <1>1, <1>3, <2>1, <2>4, <3>1, JoinRefines DEF Shared!Next
  <2>5. CASE /\ Raise(c) \/ (Current # None /\ Return(c, Current))
             /\ UNCHANGED <<session, conns>>
    <3>1. UNCHANGED <<future, task, closed, handshake>> /\ (Raise(c) \/ \E g \in Conn : Return(c, g))
      BY <2>1, <2>5 DEF session, conns
    <3> QED BY <1>1, <1>2, <3>1
  <2> QED BY <1>3, <2>2, <2>3, <2>4, <2>5 DEF Loop
<1>4. CASE Ask(c)
  BY <1>3, <1>4 DEF Ask
<1>5. CASE ClosingOver(c)
  BY <1>1, <1>2, <1>3, <1>5 DEF ClosingOver, session, conns
<1>6. CASE Resume(c)
  <2>1. on[c] \in Conn /\ UNCHANGED <<handshake, future, task, closed>>
    BY <1>0, <1>6, Typed DEF Resume, conns, SharedInv, IInv, Shape
  <2>2. Raise(c) \/ Return(c, on[c])
    BY <1>6 DEF Resume
  <2> QED BY <1>1, <1>2, <2>1, <2>2
<1>7. CASE CancelWait(c)
  BY <1>1, <1>2, <1>7 DEF CancelWait
<1>8. CASE CancelClosing(c)
  BY <1>1, <1>2, <1>8 DEF CancelClosing, session, conns
<1> QED BY <1>4, <1>5, <1>6, <1>7, <1>8

(* A future is settled: all who wait for it are answered alike.            *)
LEMMA AllAnswered ==
  ASSUME TypeOK, NEW g \in Conn, NEW f \in {"result", "error", "cancelled"}, UNCHANGED <<caller, on>>,
         future' = Settled(future, g, f)
  PROVE  /\ future[g] = "pending" =>
              Shared!Answered(g, IF f = "result" THEN "served" ELSE "refused")
         /\ future[g] # "pending" => future' = future /\ StandsNow' = StandsNow
         /\ OnNow' = OnNow
<1>1. /\ \A h \in Conn : h # g => future'[h] = future[h]
      /\ future'[g] = IF future[g] = "pending" THEN f ELSE future[g]
  BY Typed DEF Settled
<1>2. OnNow' = OnNow
  BY DEF OnNow
<1>3. ASSUME future[g] # "pending" PROVE future' = future /\ StandsNow' = StandsNow
  <2>1. future' = future
    BY <1>3, Typed DEF Settled
  <2>2. \A c \in Caller : Stands(c)' = Stands(c)
    BY <2>1 DEF Stands
  <2> QED BY <2>1, <2>2 DEF StandsNow
<1>4. ASSUME future[g] = "pending"
      PROVE  Shared!Answered(g, IF f = "result" THEN "served" ELSE "refused")
  <2> DEFINE a == IF f = "result" THEN "served" ELSE "refused"
  <2>1. ASSUME NEW c \in Caller
        PROVE  StandsNow'[c] = IF OnNow[c] = g /\ StandsNow[c] = "waiting" THEN a ELSE StandsNow[c]
    <3>1. CASE caller[c] = "waiting" /\ on[c] = g
      BY <1>1, <1>4, <3>1 DEF StandsNow, OnNow, Stands
    <3>2. CASE caller[c] = "waiting" /\ on[c] # g
      <4>1. future'[on[c]] = future[on[c]]
        BY <3>2, Typed DEF Settled
      <4> QED BY <3>2, <4>1 DEF StandsNow, OnNow, Stands
    <3>3. CASE caller[c] # "waiting"
      BY <3>3 DEF StandsNow, OnNow, Stands
    <3> QED BY <3>1, <3>2, <3>3
  <2>2. StandsNow' = [c \in Caller |-> IF OnNow[c] = g /\ StandsNow[c] = "waiting" THEN a ELSE StandsNow[c]]
    BY <2>1 DEF StandsNow
  <2> QED BY <1>2, <2>2 DEF Shared!Answered, StandsNow, OnNow
<1> QED BY <1>2, <1>3, <1>4

(* One connection changes, the others do not.                              *)
LEMMA LifeMoves ==
  ASSUME TypeOK, NEW g \in Conn,
         \A h \in Conn : h # g => future'[h] = future[h] /\ task'[h] = task[h] /\ (h \in closed' <=> h \in closed)
  PROVE  LifeNow' = [LifeNow EXCEPT ![g] = Life(g)']
<1>1. \A h \in Conn : h # g => Life(h)' = Life(h)
  BY DEF Life, Alive
<1> QED BY <1>1 DEF LifeNow

(* A connection whose fate is being decided, or was.                       *)
LEMMA TaskChanges ==
  ASSUME TypeOK, NEW g \in Conn, NEW f \in {"result", "error", "cancelled"}, UNCHANGED <<caller, on>>,
         \A h \in Conn : h # g => task'[h] = task[h] /\ (h \in closed' <=> h \in closed),
         \/ future' = future /\ future[g] = "pending"
         \/ /\ future' = Settled(future, g, f) /\ future[g] = "pending"
            /\ IF f = "result" THEN Life(g)' = "up" ELSE Life(g)' \in {"ending", "down"}
         \/ /\ future' \in {future, Settled(future, g, f)} /\ future[g] # "pending"
            /\ Life(g)' = Life(g) \/ (Life(g) = "up" /\ Life(g)' = "ending") \/ (Life(g) \in {"up", "ending"} /\ Life(g)' = "down")
  PROVE  [Shared!Next]_(Shared!vars)
<1>1. LifeNow' = [LifeNow EXCEPT ![g] = Life(g)'] /\ LifeNow[g] = Life(g)
  <2>1. \A h \in Conn : h # g => future'[h] = future[h]
    BY Typed DEF Settled
  <2> QED BY <2>1, LifeMoves DEF LifeNow
<1>2. ASSUME Life(g)' = Life(g) PROVE LifeNow' = LifeNow
  BY <1>1, <1>2 DEF LifeNow
<1>3. ASSUME future' = future PROVE StandsNow' = StandsNow /\ OnNow' = OnNow
  BY <1>3 DEF StandsNow, Stands, OnNow
<1>4. CASE future' = future /\ future[g] = "pending"
  <2>1. Life(g)' = Life(g)
    BY <1>4 DEF Life
  <2> QED BY <1>2, <1>3, <1>4, <2>1, Unseen
<1>5. CASE future' = Settled(future, g, f) /\ future[g] = "pending" /\ f = "result" /\ Life(g)' = "up"
  <2>1. LifeNow[g] = "making" /\ LifeNow' = [LifeNow EXCEPT ![g] = "up"]
    BY <1>1, <1>5 DEF Life
  <2>2. Shared!Answered(g, "served")
    BY <1>5, AllAnswered
  <2>3. Shared!Establish(g)
    BY <2>1, <2>2 DEF Shared!Establish, LifeNow
  <2> QED BY <2>3 DEF Shared!Next
<1>6. CASE future' = Settled(future, g, f) /\ future[g] = "pending" /\ f # "result" /\ Life(g)' \in {"ending", "down"}
  <2>1. LifeNow[g] = "making" /\ \E l \in {"ending", "down"} : LifeNow' = [LifeNow EXCEPT ![g] = l]
    BY <1>1, <1>6 DEF Life
  <2>2. Shared!Answered(g, "refused")
    BY <1>6, AllAnswered
  <2>3. Shared!Refuse(g)
    BY <2>1, <2>2 DEF Shared!Refuse, LifeNow
  <2> QED BY <2>3 DEF Shared!Next
<1>7. CASE /\ future' \in {future, Settled(future, g, f)} /\ future[g] # "pending"
           /\ Life(g)' = Life(g) \/ (Life(g) = "up" /\ Life(g)' = "ending") \/ (Life(g) \in {"up", "ending"} /\ Life(g)' = "down")
  <2>1. future' = future
    BY <1>7, AllAnswered
  <2>2. StandsNow' = StandsNow /\ OnNow' = OnNow
    BY <1>3, <2>1
  <2>3. CASE Life(g)' = Life(g)
    BY <1>2, <2>2, <2>3, Unseen
  <2>4. CASE Life(g) = "up" /\ Life(g)' \in {"ending", "down"}
    <3>1. LifeNow[g] = "up" /\ \E l \in {"ending", "down"} : LifeNow' = [LifeNow EXCEPT ![g] = l]
      BY <1>1, <2>4
    <3>2. Shared!End(g)
      BY <2>2, <3>1 DEF Shared!End, LifeNow, StandsNow, OnNow
    <3> QED BY <3>2 DEF Shared!Next
  <2>5. CASE Life(g) = "ending" /\ Life(g)' = "down"
    <3>1. LifeNow[g] = "ending" /\ LifeNow' = [LifeNow EXCEPT ![g] = "down"]
      BY <1>1, <2>5
    <3>2. Shared!End(g)
      BY <2>2, <3>1 DEF Shared!End, LifeNow, StandsNow, OnNow
    <3> QED BY <3>2 DEF Shared!Next
  <2> QED BY <1>7, <2>3, <2>4, <2>5
<1> QED BY <1>4, <1>5, <1>6, <1>7

(* What settles a future is what ends its time as the published one.       *)
LEMMA SettlingKept ==
  ASSUME Settling, NEW g \in Conn,
         handshake' = handshake \/ (handshake = g /\ future'[g] # "pending"),
         \A h \in Conn : h # g => future'[h] = future[h] /\ task'[h] = task[h] /\ (h \in closed' <=> h \in closed),
         future'[g] = "pending" => future[g] = "pending" /\ g \notin closed',
         task'[g] \in {"scheduled", "dialing", "connecting"} /\ g \notin closed' => future'[g] = "pending",
         task'[g] = "up" => future'[g] = "result"
  PROVE  Settling'
BY DEF Settling

(* What the task of a connection does keeps the promise.                   *)
LEMMA TaskRefines ==
  ASSUME SharedInv, NEW g \in Conn,
         \/ Start(g) \/ Skip(g) \/ Dialed(g) \/ DialFails(g) \/ Up(g)
         \/ Terminated(g) \/ Finish(g) \/ Unwind(g) \/ TerminatedLate(g)
  PROVE  [Shared!Next]_(Shared!vars) /\ Settling'
<1>0. TypeOK /\ Settling
  BY DEF SharedInv, IInv, Shape
<1>1. /\ future[g] = "pending" => handshake = g /\ g \notin closed
      /\ task[g] \in {"scheduled", "dialing", "connecting"} /\ g \notin closed => future[g] = "pending"
      /\ task[g] = "up" => future[g] = "result"
  BY <1>0 DEF Settling
<1>2. ASSUME NEW t, task' = [task EXCEPT ![g] = t]
      PROVE  task'[g] = t /\ \A h \in Conn : h # g => task'[h] = task[h]
  BY <1>0, <1>2, Typed
<1>3. ASSUME NEW f, future' = Settled(future, g, f)
      PROVE  /\ future'[g] = IF future[g] = "pending" THEN f ELSE future[g]
             /\ \A h \in Conn : h # g => future'[h] = future[h]
  BY <1>0, <1>3, Typed DEF Settled
<1>4. CASE Start(g) \/ Dialed(g) \/ Skip(g)
  <2>1. PICK t \in {"dialing", "connecting", "skipped"} :
          /\ task' = [task EXCEPT ![g] = t] /\ task[g] \in {"scheduled", "dialing"}
          /\ UNCHANGED <<handshake, future, closed, caller, on>>
    BY <1>4 DEF Start, Dialed, Skip, session
  <2>2. task'[g] = t /\ \A h \in Conn : h # g => task'[h] = task[h]
    BY <1>2, <2>1
  <2>3. Settling'
    BY <1>0, <1>1, <2>1, <2>2, SettlingKept
  <2>4. CASE future[g] = "pending"
    BY <1>0, <2>1, <2>2, <2>4, <2>3, TaskChanges
  <2>5. CASE future[g] # "pending"
    <3>1. Life(g) = "ending" /\ Life(g)' \in {"ending", "down"}
      BY <2>1, <2>2, <2>5 DEF Life, Alive
    <3> QED BY <1>0, <2>1, <2>2, <2>5, <3>1, <2>3, TaskChanges
  <2> QED BY <2>3, <2>4, <2>5
<1>5. CASE Up(g)
  <2>1. /\ task[g] = "connecting" /\ g \notin closed
        /\ task' = [task EXCEPT ![g] = "up"] /\ future' = Settled(future, g, "result")
        /\ UNCHANGED <<handshake, closed, caller, on>>
    BY <1>5 DEF Up, session
  <2>2. /\ task'[g] = "up" /\ \A h \in Conn : h # g => task'[h] = task[h] /\ future'[h] = future[h]
        /\ future[g] = "pending" /\ future'[g] = "result"
    BY <1>1, <1>2, <1>3, <2>1
  <2>3. Settling'
    BY <1>0, <2>1, <2>2, SettlingKept
  <2>4. Life(g)' = "up"
    BY <2>1, <2>2 DEF Life
  <2> QED BY <1>0, <2>1, <2>2, <2>3, <2>4, TaskChanges
<1>6. CASE Terminated(g)
  <2>1. /\ task[g] \in {"connecting", "up"} /\ g \notin closed /\ closed' = closed \cup {g}
        /\ future' = (IF handshake = g THEN Settled(future, g, "error") ELSE future)
        /\ handshake' = (IF handshake = g THEN None ELSE handshake)
        /\ UNCHANGED <<task, caller, on>>
    BY <1>6 DEF Terminated
  <2>2. \A h \in Conn : h # g => future'[h] = future[h] /\ (h \in closed' <=> h \in closed)
    BY <1>3, <2>1
  <2>3. g \in closed' /\ future'[g] # "pending" /\ (future[g] # "pending" => future'[g] = future[g])
    BY <1>1, <1>3, <2>1
  <2>4. Settling'
    BY <1>0, <1>1, <2>1, <2>2, <2>3, SettlingKept
  <2>5. Life(g)' = "ending"
    BY <2>1, <2>3 DEF Life, Alive
  <2>6. CASE future[g] = "pending"
    BY <1>0, <1>1, <2>1, <2>2, <2>5, <2>6, <2>4, TaskChanges
  <2>7. CASE future[g] # "pending"
    <3>1. Life(g) \in {"up", "ending"}
      BY <2>1, <2>7 DEF Life, Alive
    <3> QED BY <1>0, <2>1, <2>2, <2>5, <2>7, <3>1, <2>4, TaskChanges
  <2> QED BY <2>4, <2>6, <2>7
<1>7. CASE DialFails(g) \/ Finish(g) \/ Unwind(g)
  <2>1. PICK t \in {"done", "cancelled"}, f \in {"error", "cancelled"} :
          /\ task' = [task EXCEPT ![g] = t] /\ future' = Settled(future, g, f)
          /\ task[g] \in {"dialing", "connecting", "up"}
          /\ closed' \in {closed, closed \cup {g}}
          /\ handshake' = (IF handshake = g THEN None ELSE handshake) /\ UNCHANGED <<caller, on>>
    <3>1. CASE DialFails(g)
      BY <3>1 DEF DialFails, Release
    <3>2. CASE Finish(g)
      BY <3>2 DEF Finish, Release
    <3>3. CASE Unwind(g)
      BY <3>3 DEF Unwind, Release
    <3> QED BY <1>7, <3>1, <3>2, <3>3
  <2>2. /\ task'[g] = t
        /\ \A h \in Conn : h # g => task'[h] = task[h] /\ future'[h] = future[h] /\ (h \in closed' <=> h \in closed)
        /\ future'[g] = IF future[g] = "pending" THEN f ELSE future[g]
    BY <1>2, <1>3, <2>1
  <2>3. Settling'
    BY <1>0, <2>1, <2>2, SettlingKept
  <2>4. Life(g)' = "down"
    BY <2>1, <2>2 DEF Life, Alive
  <2>5. CASE future[g] = "pending"
    BY <1>0, <2>1, <2>2, <2>4, <2>5, <2>3, TaskChanges
  <2>6. CASE future[g] # "pending"
    <3>1. Life(g) \in {"up", "ending"}
      BY <2>1, <2>6 DEF Life, Alive
    <3> QED BY <1>0, <2>1, <2>2, <2>4, <2>6, <3>1, <2>3, TaskChanges
  <2> QED BY <2>3, <2>5, <2>6
<1>8. CASE TerminatedLate(g)
  <2>1. UNCHANGED <<handshake, future, task, closed, caller, on>>
    BY <1>8 DEF TerminatedLate, session, conns
  <2> QED BY <1>0, <2>1, SharedRests
<1> QED BY <1>4, <1>5, <1>6, <1>7, <1>8

(* The session at its start is one that was never used.                    *)
LEMMA SharedInitInv == Init => SharedInv /\ Shared!Init
<1> SUFFICES ASSUME Init PROVE SharedInv /\ Shared!Init
  OBVIOUS
<1>1. IInv
  BY InitInv
<1>2. Settling
  BY DEF Init, Settling
<1>3. /\ \A g \in Conn : Life(g) = "down"
      /\ \A c \in Caller : caller[c] = "idle" /\ Stands(c) = "idle"
  BY DEF Init, Life, Alive, Stands
<1> QED BY <1>1, <1>2, <1>3 DEF SharedInv, Shared!Init

(* Every step of the session is one the promise allows, or unseen.         *)
LEMMA SharedStep == SharedInv /\ [Next]_vars => SharedInv' /\ [Shared!Next]_(Shared!vars)
<1> SUFFICES ASSUME SharedInv, [Next]_vars PROVE SharedInv' /\ [Shared!Next]_(Shared!vars)
  OBVIOUS
<1>1. IInv'
  BY StepInv DEF SharedInv
<1>2. ASSUME NEW c \in Caller,
             Ask(c) \/ ClosingOver(c) \/ Resume(c) \/ CancelWait(c) \/ CancelClosing(c)
      PROVE  Settling' /\ [Shared!Next]_(Shared!vars)
  BY <1>2, CallerRefines
<1>3. ASSUME NEW g \in Conn,
             \/ Start(g) \/ Skip(g) \/ Dialed(g) \/ DialFails(g) \/ Up(g)
             \/ Terminated(g) \/ Finish(g) \/ Unwind(g) \/ TerminatedLate(g)
      PROVE  Settling' /\ [Shared!Next]_(Shared!vars)
  BY <1>3, TaskRefines
<1>4. CASE Close \/ UNCHANGED vars
  <2>1. UNCHANGED <<handshake, future, task, closed, caller, on>>
    BY <1>4 DEF Close, vars, session, conns
  <2> QED BY <1>1, <2>1, SharedRests DEF SharedInv
<1> QED BY <1>1, <1>2, <1>3, <1>4 DEF Next, SharedInv

(* The QUIC session of a proxy keeps the promise of SharedSession: no      *)
(* connection is begun before the last of the one before it is gone, and   *)
(* all who wait for a handshake get its one answer.                        *)
(* (_wait_for_quic_connection, _run_quic_connection)                       *)
THEOREM QuicSharesOneSession == Spec => SharesOneSession
BY SharedInitInv, SharedStep, PTL DEF Spec, SharesOneSession, Shared!Spec

-----------------------------------------------------------------------------
(***************************************************************************)
(* The SSH session.                                                        *)
(***************************************************************************)
Rests   == {"up", "down"}
Connects(c) == sshCaller[c] = "connecting"

(* What a caller awaits exists; who connects, connects alone; a channel is *)
(* opened on a connection that was made.                                   *)
SshShape ==
  /\ \A c \in SshCaller : IF sshCaller[c] = "idle" THEN sshOn[c] = None ELSE sshOn[c] \in SshConn
  /\ \A c \in SshCaller : Connects(c) => sshLink[sshOn[c]] = "dialing"
  /\ \A c, d \in SshCaller : Connects(c) /\ Connects(d) /\ sshOn[c] = sshOn[d] => c = d
  /\ \A c \in SshCaller : sshCaller[c] = "opening" => sshLink[sshOn[c]] \in Rests
  /\ S!Published => sshValue[sshconn] \in SshConn /\ sshLink[sshValue[sshconn]] \in Rests

(* As long as nobody spoils it, an attempt is the published one.           *)
CalmAttempt == sshCalm => \A c \in SshCaller : Connects(c) => S!Pending /\ sshconn = sshOn[c]

SshInv == S!TypeOK /\ SshShape /\ S!SshHandshakeIsBacked /\ CalmAttempt /\ S!SshOneSession

-----------------------------------------------------------------------------
(* A ProxySSH with nothing published satisfies its inductive invariant.    *)
LEMMA SshInitInv == S!Init => SshInv
<1> SUFFICES ASSUME S!Init PROVE SshInv
  OBVIOUS
<1>1. S!TypeOK
  BY DEF S!Init, S!TypeOK, S!FutureStates
<1>2. SshShape /\ CalmAttempt
  BY DEF S!Init, SshShape, CalmAttempt, Connects, S!Published
<1>3. S!SshHandshakeIsBacked /\ S!SshOneSession
  BY DEF S!Init, S!SshHandshakeIsBacked, S!SshOneSession
<1> QED BY <1>1, <1>2, <1>3 DEF SshInv

(* What At does to the caller that moves and to the others.                *)
LEMMA Moved ==
  ASSUME S!TypeOK, NEW c \in SshCaller, NEW st \in {"idle", "joining", "connecting", "opening"},
         NEW g \in SshConn \cup {None}, S!At(c, st, g)
  PROVE  /\ sshCaller' \in [SshCaller -> {"idle", "joining", "connecting", "opening"}]
         /\ sshOn' \in [SshCaller -> SshConn \cup {None}]
         /\ sshCaller'[c] = st /\ sshOn'[c] = g
         /\ \A d \in SshCaller \ {c} : sshCaller'[d] = sshCaller[d] /\ sshOn'[d] = sshOn[d]
BY DEF S!At, S!TypeOK

(* A caller that awaits nothing of its own moves on: to the stream it      *)
(* asked for, to a channel of the published connection, to its future.     *)
LEMMA MovesOn ==
  ASSUME SshInv, NEW c \in SshCaller, ~Connects(c),
         NEW st \in {"idle", "joining", "opening"}, NEW g \in SshConn \cup {None}, S!At(c, st, g),
         st = "idle" => g = None,
         st = "joining" => g = sshconn /\ g # None,
         st = "opening" => g \in SshConn /\ sshLink[g] \in Rests,
         UNCHANGED <<S!futures, sshLink, sshCalm>>
  PROVE  SshInv'
<1>1. UNCHANGED <<sshconn, sshFuture, sshValue, sshLink, sshCalm>>
  BY DEF S!futures
<1>2. S!TypeOK
  BY DEF SshInv
<1>3. /\ sshCaller' \in [SshCaller -> {"idle", "joining", "connecting", "opening"}]
      /\ sshOn' \in [SshCaller -> SshConn \cup {None}]
      /\ sshCaller'[c] = st /\ sshOn'[c] = g
      /\ \A d \in SshCaller \ {c} : sshCaller'[d] = sshCaller[d] /\ sshOn'[d] = sshOn[d]
  BY <1>2, Moved
<1>4. S!TypeOK'
  BY <1>1, <1>2, <1>3 DEF S!TypeOK
<1>5. \A d \in SshCaller : Connects(d)' => Connects(d) /\ d # c /\ sshOn'[d] = sshOn[d]
  BY <1>3 DEF Connects
<1>6. \A d \in SshCaller : Connects(d) => Connects(d)' /\ sshOn'[d] = sshOn[d]
  BY <1>3 DEF Connects
<1>7. SshShape'
  <2>1. \A d \in SshCaller : IF sshCaller'[d] = "idle" THEN sshOn'[d] = None ELSE sshOn'[d] \in SshConn
    BY <1>3 DEF SshInv, SshShape
  <2>2. \A d \in SshCaller : Connects(d)' => sshLink'[sshOn'[d]] = "dialing"
    BY <1>1, <1>5 DEF SshInv, SshShape
  <2>3. \A d, e \in SshCaller : Connects(d)' /\ Connects(e)' /\ sshOn'[d] = sshOn'[e] => d = e
    BY <1>5 DEF SshInv, SshShape
  <2>4. \A d \in SshCaller : sshCaller'[d] = "opening" => sshLink'[sshOn'[d]] \in Rests
    BY <1>1, <1>3 DEF SshInv, SshShape
  <2>5. S!Published' => sshValue'[sshconn'] \in SshConn /\ sshLink'[sshValue'[sshconn']] \in Rests
    BY <1>1 DEF SshInv, SshShape, S!Published
  <2> QED BY <2>1, <2>2, <2>3, <2>4, <2>5 DEF SshShape, Rests
<1>8. S!SshHandshakeIsBacked'
  BY <1>1, <1>3, <1>6 DEF SshInv, S!SshHandshakeIsBacked, Connects
<1>9. CalmAttempt'
  BY <1>1, <1>5 DEF SshInv, CalmAttempt, S!Pending
<1>10. S!SshOneSession'
  BY <1>1 DEF SshInv, S!SshOneSession, S!Published
<1> QED BY <1>4, <1>7, <1>8, <1>9, <1>10 DEF SshInv

(* A call that ends by settling and forgetting what is published.          *)
LEMMA Forgotten ==
  ASSUME SshInv, NEW c \in SshCaller, NEW st \in {"error", "cancelled"},
         sshFuture' = S!Settles(st), sshconn' = None, sshValue' = sshValue, S!Leaves(c),
         sshCalm' = (sshCalm /\ S!Forgets(c)),
         sshCaller[c] = "joining" => sshFuture[sshOn[c]] # "pending",
         \/ sshLink' = sshLink
         \/ Connects(c) /\ sshLink' = [sshLink EXCEPT ![sshOn[c]] = "down"]
         \/ Connects(c) /\ ~S!Pending /\ sshLink' = [sshLink EXCEPT ![sshOn[c]] = "up"]
  PROVE  SshInv'
<1>1. S!TypeOK
  BY DEF SshInv
<1>2. /\ sshCaller' \in [SshCaller -> {"idle", "joining", "connecting", "opening"}]
      /\ sshOn' \in [SshCaller -> SshConn \cup {None}]
      /\ sshCaller'[c] = "idle" /\ sshOn'[c] = None
      /\ \A d \in SshCaller \ {c} : sshCaller'[d] = sshCaller[d] /\ sshOn'[d] = sshOn[d]
  BY <1>1, Moved DEF S!Leaves
<1>3. /\ sshFuture' \in [SshConn -> S!FutureStates]
      /\ \A h \in SshConn : sshFuture'[h] = "pending" => sshFuture[h] = "pending" /\ h # sshconn
  <2>1. CASE sshconn = None
    BY <1>1, <2>1, SshNoneAssumption DEF S!Settles, S!TypeOK
  <2>2. CASE sshconn # None
    <3>1. sshconn \in SshConn /\ sshFuture' = [sshFuture EXCEPT ![sshconn] = IF @ = "pending" THEN st ELSE @]
      BY <1>1, <2>2 DEF S!Settles, S!Settled, S!TypeOK
    <3> DEFINE was == sshFuture[sshconn]
    <3>2. was \in S!FutureStates /\ sshFuture \in [SshConn -> S!FutureStates]
      BY <1>1, <3>1 DEF S!TypeOK
    <3>3. PICK v \in S!FutureStates : v # "pending" /\ sshFuture' = [sshFuture EXCEPT ![sshconn] = v]
      BY <3>1, <3>2 DEF S!FutureStates
    <3> QED BY <3>1, <3>2, <3>3
  <2> QED BY <2>1, <2>2
<1>4. /\ sshLink' \in [SshConn -> {"none", "dialing", "up", "down"}]
      /\ \A h \in SshConn : sshLink[h] \in Rests => sshLink'[h] \in Rests
      /\ \A h \in SshConn : sshLink'[h] = sshLink[h] \/ (Connects(c) /\ h = sshOn[c])
  BY <1>1 DEF S!TypeOK, Rests
<1>5. \A d \in SshCaller : Connects(d)' => Connects(d) /\ d # c /\ sshOn'[d] = sshOn[d]
  BY <1>2 DEF Connects
<1>6. S!TypeOK'
  BY <1>1, <1>2, <1>3, <1>4 DEF S!TypeOK
<1>7. SshShape'
  <2>1. \A d \in SshCaller : IF sshCaller'[d] = "idle" THEN sshOn'[d] = None ELSE sshOn'[d] \in SshConn
    BY <1>2 DEF SshInv, SshShape
  <2>2. ASSUME NEW d \in SshCaller, Connects(d)'
        PROVE  sshLink'[sshOn'[d]] = "dialing"
    BY <1>4, <1>5, <2>2 DEF SshInv, SshShape, Connects
  <2>3. \A d, e \in SshCaller : Connects(d)' /\ Connects(e)' /\ sshOn'[d] = sshOn'[e] => d = e
    BY <1>5 DEF SshInv, SshShape
  <2>4. \A d \in SshCaller : sshCaller'[d] = "opening" => sshLink'[sshOn'[d]] \in Rests
    BY <1>2, <1>4 DEF SshInv, SshShape
  <2>5. ~S!Published'
    BY DEF S!Published
  <2> QED BY <2>1, <2>2, <2>3, <2>4, <2>5 DEF SshShape, Rests
<1>8. S!SshHandshakeIsBacked'
  <2>1. ASSUME NEW d \in SshCaller, sshCaller'[d] = "joining"
        PROVE  sshFuture'[sshOn'[d]] # "pending"
    <3>1. d # c /\ sshCaller[d] = "joining" /\ sshOn'[d] = sshOn[d]
      BY <1>2, <2>1
    <3>2. sshOn[d] \in SshConn
      BY <3>1 DEF SshInv, SshShape
    <3>3. sshFuture[sshOn[d]] = "pending" => sshOn[d] = sshconn
      BY <3>1 DEF SshInv, S!SshHandshakeIsBacked
    <3> QED BY <1>3, <3>1, <3>2, <3>3
  <2> QED BY <2>1 DEF S!SshHandshakeIsBacked
<1>9. ASSUME sshCalm' PROVE \A d \in SshCaller \ {c} : ~Connects(d)
  <2>1. SUFFICES ASSUME NEW d \in SshCaller \ {c}, Connects(d) PROVE FALSE
    OBVIOUS
  <2>2. sshCalm /\ S!Forgets(c)
    BY <1>9
  <2>3. S!Pending /\ sshconn = sshOn[d] /\ sshOn[d] \in SshConn /\ sshLink[sshOn[d]] = "dialing"
    BY <2>1, <2>2 DEF SshInv, CalmAttempt, SshShape, Connects
  <2>4. sshOn[c] = sshOn[d]
    BY <2>2, <2>3, SshNoneAssumption DEF S!Forgets, S!Published, S!Pending
  <2>5. sshCaller[c] # "idle"
    BY <2>3, <2>4, SshNoneAssumption DEF SshInv, SshShape
  <2>6. sshCaller[c] # "joining"
    BY <2>3, <2>4 DEF S!Pending
  <2>7. sshCaller[c] # "opening"
    BY <2>3, <2>4 DEF SshInv, SshShape, Rests
  <2>8. sshCaller[c] # "connecting"
    BY <2>1, <2>4 DEF SshInv, SshShape, Connects
  <2> QED BY <1>1, <2>5, <2>6, <2>7, <2>8 DEF S!TypeOK
<1>10. CalmAttempt'
  BY <1>5, <1>9 DEF CalmAttempt
<1>11. S!SshOneSession'
  <2>1. SUFFICES ASSUME sshCalm', NEW g \in SshConn, sshLink'[g] = "up" PROVE FALSE
    BY DEF S!SshOneSession
  <2>2. sshCalm /\ S!Forgets(c)
    BY <2>1
  <2>3. sshLink[g] # "up"
    BY <2>2 DEF SshInv, S!SshOneSession, S!Forgets
  <2>4. ~Connects(c) \/ S!Pending
    BY <2>2 DEF SshInv, CalmAttempt
  <2> QED BY <1>1, <2>1, <2>3, <2>4 DEF S!TypeOK
<1> QED BY <1>6, <1>7, <1>8, <1>10, <1>11 DEF SshInv

(* The first caller, or the first after the future was cancelled.          *)
LEMMA ConnectKeeps ==
  ASSUME SshInv, NEW c \in SshCaller, NEW g \in SshConn, S!Connect(c, g)
  PROVE  SshInv'
<1>1. S!TypeOK
  BY DEF SshInv
<1>2. /\ sshCaller[c] = "idle" /\ sshLink[g] \in {"none", "down"} /\ g # sshconn
      /\ \A d \in SshCaller : sshOn[d] # g
      /\ ~S!Pending /\ ~S!Published
  BY DEF S!Connect, S!Free, S!Pending, S!Published
<1>3. /\ sshconn' = g /\ sshFuture' = [sshFuture EXCEPT ![g] = "pending"]
      /\ sshValue' = [sshValue EXCEPT ![g] = None] /\ sshLink' = [sshLink EXCEPT ![g] = "dialing"]
      /\ sshCalm' = sshCalm /\ S!At(c, "connecting", g)
  BY DEF S!Connect
<1>4. /\ sshCaller' \in [SshCaller -> {"idle", "joining", "connecting", "opening"}]
      /\ sshOn' \in [SshCaller -> SshConn \cup {None}]
      /\ sshCaller'[c] = "connecting" /\ sshOn'[c] = g
      /\ \A d \in SshCaller \ {c} : sshCaller'[d] = sshCaller[d] /\ sshOn'[d] = sshOn[d]
  BY <1>1, <1>3, Moved
<1>5. /\ S!TypeOK' /\ sshFuture'[g] = "pending" /\ sshLink'[g] = "dialing"
      /\ \A h \in SshConn \ {g} : sshFuture'[h] = sshFuture[h] /\ sshLink'[h] = sshLink[h]
  BY <1>1, <1>3, <1>4 DEF S!TypeOK, S!FutureStates
<1>6. SshShape'
  <2>1. \A d \in SshCaller : IF sshCaller'[d] = "idle" THEN sshOn'[d] = None ELSE sshOn'[d] \in SshConn
    BY <1>4 DEF SshInv, SshShape
  <2>2. \A d \in SshCaller : Connects(d)' => sshLink'[sshOn'[d]] = "dialing"
    BY <1>2, <1>4, <1>5 DEF SshInv, SshShape, Connects
  <2>3. \A d, e \in SshCaller : Connects(d)' /\ Connects(e)' /\ sshOn'[d] = sshOn'[e] => d = e
    BY <1>2, <1>4 DEF SshInv, SshShape, Connects
  <2>4. \A d \in SshCaller : sshCaller'[d] = "opening" => sshLink'[sshOn'[d]] \in Rests
    BY <1>2, <1>4, <1>5 DEF SshInv, SshShape
  <2>5. ~S!Published'
    BY <1>3, <1>5 DEF S!Published
  <2> QED BY <2>1, <2>2, <2>3, <2>4, <2>5 DEF SshShape, Rests
<1>7. S!SshHandshakeIsBacked'
  <2>1. ASSUME NEW d \in SshCaller, sshCaller'[d] = "joining"
        PROVE  sshFuture'[sshOn'[d]] # "pending"
    <3>1. d # c /\ sshCaller[d] = "joining" /\ sshOn'[d] = sshOn[d]
      BY <1>4, <2>1
    <3>2. sshOn[d] \in SshConn \ {g}
      BY <1>2, <3>1 DEF SshInv, SshShape
    <3>3. sshFuture[sshOn[d]] # "pending"
      BY <1>2, <3>1, <3>2, SshNoneAssumption DEF SshInv, S!SshHandshakeIsBacked, S!Pending
    <3> QED BY <1>5, <3>1, <3>2, <3>3
  <2> QED BY <1>3, <1>4, <1>5, <2>1 DEF S!SshHandshakeIsBacked
<1>8. ASSUME sshCalm' PROVE \A d \in SshCaller : Connects(d)' => d = c
  BY <1>2, <1>3, <1>4, <1>8 DEF SshInv, CalmAttempt, Connects
<1>9. CalmAttempt'
  BY <1>3, <1>4, <1>5, <1>8, SshNoneAssumption DEF CalmAttempt, S!Pending
<1>10. S!SshOneSession'
  BY <1>2, <1>3, <1>5 DEF SshInv, S!SshOneSession
<1> QED BY <1>5, <1>6, <1>7, <1>9, <1>10 DEF SshInv

(* A caller cancelled while it awaits the future of another cancels that   *)
(* future, and keeps the invariant.                                        *)
LEMMA CancelJoinKeeps ==
  ASSUME SshInv, NEW c \in SshCaller, S!CancelJoin(c)
  PROVE  SshInv'
<1>1. S!TypeOK
  BY DEF SshInv
<1>2. CASE sshFuture[sshOn[c]] # "pending"
  <2>1. sshOn[c] \in SshConn
    BY DEF S!CancelJoin, SshInv, SshShape
  <2>2. sshFuture' = sshFuture
    BY <1>1, <1>2, <2>1 DEF S!CancelJoin, S!TypeOK
  <2>3. UNCHANGED <<S!futures, sshLink, sshCalm>> /\ S!At(c, "idle", None) /\ ~Connects(c)
    BY <1>1, <1>2, <2>2 DEF S!CancelJoin, S!futures, S!Leaves, Connects, S!TypeOK
  <2> QED BY <2>3, MovesOn
<1>3. CASE sshFuture[sshOn[c]] = "pending"
  <2>1. /\ sshOn[c] = sshconn /\ sshOn[c] \in SshConn /\ sshCaller[c] = "joining"
        /\ sshFuture' = [sshFuture EXCEPT ![sshconn] = "cancelled"]
        /\ ~sshCalm' /\ UNCHANGED <<sshconn, sshValue, sshLink>> /\ S!At(c, "idle", None)
    BY <1>1, <1>3 DEF S!CancelJoin, SshInv, SshShape, S!SshHandshakeIsBacked, S!Leaves, S!TypeOK
  <2>2. /\ sshCaller' \in [SshCaller -> {"idle", "joining", "connecting", "opening"}]
        /\ sshOn' \in [SshCaller -> SshConn \cup {None}]
        /\ sshCaller'[c] = "idle" /\ sshOn'[c] = None
        /\ \A d \in SshCaller \ {c} : sshCaller'[d] = sshCaller[d] /\ sshOn'[d] = sshOn[d]
    BY <1>1, <2>1, Moved
  <2>3. sshCalm' = FALSE
    BY <1>1, <1>3 DEF S!CancelJoin, S!TypeOK
  <2>4. /\ S!TypeOK' /\ sshFuture'[sshconn] = "cancelled"
        /\ \A h \in SshConn : sshFuture'[h] = "pending" => sshFuture[h] = "pending" /\ h # sshconn
    BY <1>1, <2>1, <2>2, <2>3 DEF S!TypeOK, S!FutureStates
  <2>5. SshShape'
    <3>1. \A d \in SshCaller : IF sshCaller'[d] = "idle" THEN sshOn'[d] = None ELSE sshOn'[d] \in SshConn
      BY <2>2 DEF SshInv, SshShape
    <3>2. \A d \in SshCaller : Connects(d)' => Connects(d) /\ sshOn'[d] = sshOn[d]
      BY <2>2 DEF Connects
    <3>3. \A d \in SshCaller : sshCaller'[d] = "opening" => sshCaller[d] = "opening" /\ sshOn'[d] = sshOn[d]
      BY <2>2
    <3>4. ~S!Published'
      BY <2>1, <2>4 DEF S!Published
    <3> QED BY <2>1, <3>1, <3>2, <3>3, <3>4 DEF SshInv, SshShape, Rests
  <2>6. S!SshHandshakeIsBacked'
    <3>1. ASSUME NEW d \in SshCaller, sshCaller'[d] = "joining"
          PROVE  sshFuture'[sshOn'[d]] # "pending"
      <4>1. d # c /\ sshCaller[d] = "joining" /\ sshOn'[d] = sshOn[d]
        BY <2>2, <3>1
      <4>2. sshOn[d] \in SshConn
        BY <4>1 DEF SshInv, SshShape
      <4> QED BY <2>4, <4>1, <4>2 DEF SshInv, S!SshHandshakeIsBacked
    <3> QED BY <2>1, <2>4, <3>1 DEF S!SshHandshakeIsBacked
  <2> QED BY <2>1, <2>4, <2>5, <2>6 DEF SshInv, CalmAttempt, S!SshOneSession
<1> QED BY <1>2, <1>3

(* asyncssh.connect returned and there is a future to settle.              *)
LEMMA ConnectedKeeps ==
  ASSUME SshInv, NEW c \in SshCaller, S!Connected(c)
  PROVE  SshInv'
<1>1. S!TypeOK
  BY DEF SshInv
<1>2. Connects(c) /\ sshOn[c] \in SshConn /\ sshLink' = [sshLink EXCEPT ![sshOn[c]] = "up"]
  BY DEF S!Connected, Connects, SshInv, SshShape
<1>3. CASE ~S!Pending /\ S!Fail(c)
  BY <1>2, <1>3, Forgotten DEF S!Fail, Connects
<1>4. CASE /\ S!Pending
           /\ sshFuture' = S!Settles("result") /\ sshValue' = [sshValue EXCEPT ![sshconn] = sshOn[c]]
           /\ S!At(c, "opening", sshOn[c])
           /\ UNCHANGED sshconn /\ sshCalm' = (sshCalm /\ sshconn = sshOn[c])
  <2>1. sshconn \in SshConn
    BY <1>1, <1>4 DEF S!TypeOK, S!Pending
  <2>2. /\ sshCaller' \in [SshCaller -> {"idle", "joining", "connecting", "opening"}]
        /\ sshOn' \in [SshCaller -> SshConn \cup {None}]
        /\ sshCaller'[c] = "opening" /\ sshOn'[c] = sshOn[c]
        /\ \A d \in SshCaller \ {c} : sshCaller'[d] = sshCaller[d] /\ sshOn'[d] = sshOn[d]
    BY <1>1, <1>2, <1>4, Moved
  <2>3. sshFuture' = [sshFuture EXCEPT ![sshconn] = "result"]
    BY <1>1, <1>4, <2>1 DEF S!Settles, S!Settled, S!TypeOK, S!Pending
  <2>4. /\ S!TypeOK' /\ sshFuture'[sshconn] = "result" /\ sshValue'[sshconn] = sshOn[c]
        /\ sshLink'[sshOn[c]] = "up"
        /\ \A h \in SshConn : sshFuture'[h] = "pending" => sshFuture[h] = "pending" /\ h # sshconn
        /\ \A h \in SshConn \ {sshOn[c]} : sshLink'[h] = sshLink[h]
    BY <1>1, <1>2, <1>4, <2>1, <2>2, <2>3 DEF S!TypeOK, S!FutureStates
  <2>5. \A d \in SshCaller : Connects(d)' => Connects(d) /\ d # c /\ sshOn'[d] = sshOn[d] /\ sshOn[d] # sshOn[c]
    BY <1>2, <2>2 DEF Connects, SshInv, SshShape
  <2>6. SshShape'
    <3>1. \A d \in SshCaller : IF sshCaller'[d] = "idle" THEN sshOn'[d] = None ELSE sshOn'[d] \in SshConn
      BY <1>2, <2>2 DEF SshInv, SshShape
    <3>2. ASSUME NEW d \in SshCaller, Connects(d)' PROVE sshLink'[sshOn'[d]] = "dialing"
      BY <2>4, <2>5, <3>2 DEF SshInv, SshShape, Connects
    <3>3. \A d, e \in SshCaller : Connects(d)' /\ Connects(e)' /\ sshOn'[d] = sshOn'[e] => d = e
      BY <2>5 DEF SshInv, SshShape
    <3>4. \A d \in SshCaller : sshCaller'[d] = "opening" => sshLink'[sshOn'[d]] \in Rests
      BY <2>2, <2>4 DEF SshInv, SshShape, Rests
    <3>5. sshValue'[sshconn'] \in SshConn /\ sshLink'[sshValue'[sshconn']] \in Rests
      BY <1>2, <1>4, <2>4 DEF Rests
    <3> QED BY <3>1, <3>2, <3>3, <3>4, <3>5 DEF SshShape, Rests
  <2>7. S!SshHandshakeIsBacked'
    <3>1. ASSUME NEW d \in SshCaller, sshCaller'[d] = "joining"
          PROVE  sshFuture'[sshOn'[d]] # "pending"
      <4>1. sshCaller[d] = "joining" /\ sshOn'[d] = sshOn[d]
        BY <2>2, <3>1
      <4>2. sshOn[d] \in SshConn
        BY <4>1 DEF SshInv, SshShape
      <4> QED BY <2>4, <4>1, <4>2 DEF SshInv, S!SshHandshakeIsBacked
    <3> QED BY <1>2, <1>4, <2>4, <3>1, SshNoneAssumption DEF S!SshHandshakeIsBacked
  <2>8. ASSUME sshCalm' PROVE \A d \in SshCaller : ~Connects(d)'
    BY <1>4, <2>5, <2>8 DEF SshInv, CalmAttempt
  <2>9. CalmAttempt'
    BY <2>8 DEF CalmAttempt
  <2>10. ASSUME sshCalm', NEW g \in SshConn, sshLink'[g] = "up"
         PROVE  S!Published' /\ sshValue'[sshconn'] = g
    <3>1. sshCalm /\ sshconn = sshOn[c]
      BY <1>4, <2>10
    <3>2. sshLink[g] # "up"
      BY <1>4, <3>1 DEF SshInv, S!SshOneSession, S!Published, S!Pending
    <3>3. g = sshOn[c]
      BY <2>4, <2>10, <3>2
    <3> QED BY <1>4, <2>1, <2>4, <3>3, SshNoneAssumption DEF S!Published
  <2>11. S!SshOneSession'
    BY <2>10 DEF S!SshOneSession
  <2> QED BY <2>4, <2>6, <2>7, <2>9, <2>11 DEF SshInv
<1> QED BY <1>3, <1>4 DEF S!Connected

(* A connection that is up ends, by itself or by close().                  *)
LEMMA LostKeeps ==
  ASSUME SshInv, NEW g \in SshConn, sshLink[g] = "up", sshLink' = [sshLink EXCEPT ![g] = "down"],
         UNCHANGED <<S!futures, S!callers, sshCalm>>
  PROVE  SshInv'
<1>1. UNCHANGED <<sshconn, sshFuture, sshValue, sshCaller, sshOn, sshCalm>>
  BY DEF S!futures, S!callers
<1>2. /\ sshLink' \in [SshConn -> {"none", "dialing", "up", "down"}]
      /\ \A h \in SshConn : sshLink'[h] = "up" => sshLink[h] = "up"
      /\ \A h \in SshConn : sshLink[h] = "dialing" => sshLink'[h] = "dialing"
      /\ \A h \in SshConn : sshLink[h] \in Rests => sshLink'[h] \in Rests
  BY DEF SshInv, S!TypeOK, Rests
<1>3. S!TypeOK'
  BY <1>1, <1>2 DEF SshInv, S!TypeOK
<1>4. SshShape'
  <2>1. \A c \in SshCaller : Connects(c)' => Connects(c) /\ sshOn[c] \in SshConn
    BY <1>1 DEF Connects, SshInv, SshShape
  <2>2. \A c \in SshCaller : sshCaller'[c] = "opening" => sshCaller[c] = "opening" /\ sshOn[c] \in SshConn
    BY <1>1 DEF SshInv, SshShape
  <2>3. S!Published' => S!Published
    BY <1>1 DEF S!Published
  <2> QED BY <1>1, <1>2, <2>1, <2>2, <2>3 DEF SshInv, SshShape, Rests
<1>5. S!SshHandshakeIsBacked'
  BY <1>1 DEF SshInv, S!SshHandshakeIsBacked
<1>6. CalmAttempt'
  BY <1>1 DEF SshInv, CalmAttempt, Connects, S!Pending
<1>7. S!SshOneSession'
  BY <1>1, <1>2 DEF SshInv, S!SshOneSession, S!Published
<1> QED BY <1>3, <1>4, <1>5, <1>6, <1>7 DEF SshInv

(* A caller that has the connection and opens its channel on it, or finds  *)
(* it gone and forgets it, keeps the invariant.                            *)
LEMMA UseResultKeeps ==
  ASSUME SshInv, NEW c \in SshCaller, ~Connects(c), S!UseResult(c), UNCHANGED sshLink,
         sshCaller[c] = "joining" => sshFuture[sshOn[c]] # "pending"
  PROVE  SshInv'
<1>1. CASE S!Published /\ S!At(c, "opening", sshValue[sshconn]) /\ UNCHANGED <<S!futures, sshCalm>>
  <2>1. sshValue[sshconn] \in SshConn /\ sshLink[sshValue[sshconn]] \in Rests
    BY <1>1 DEF SshInv, SshShape
  <2> QED BY <1>1, <2>1, MovesOn
<1>2. CASE S!Leaves(c) /\ UNCHANGED <<S!futures, sshCalm>>
  BY <1>2, MovesOn DEF S!Leaves
<1>3. CASE S!Fail(c)
  BY <1>3, Forgotten DEF S!Fail
<1> QED BY <1>1, <1>2, <1>3 DEF S!UseResult

-----------------------------------------------------------------------------
(* Every step of a caller of ProxySSH and of its connections keeps it.     *)
LEMMA SshStepInv == SshInv /\ [S!Next]_(S!vars) => SshInv'
<1> SUFFICES ASSUME SshInv, [S!Next]_(S!vars) PROVE SshInv'
  OBVIOUS
<1>1. CASE UNCHANGED S!vars
  <2>1. UNCHANGED <<sshconn, sshFuture, sshValue, sshLink, sshCaller, sshOn, sshCalm>>
    BY <1>1 DEF S!vars, S!futures, S!callers
  <2> QED BY <2>1 DEF SshInv, S!TypeOK, SshShape, S!SshHandshakeIsBacked, CalmAttempt, S!SshOneSession,
                      Connects, S!Published, S!Pending, Rests
<1>2. ASSUME NEW c \in SshCaller, NEW g \in SshConn, S!Connect(c, g) PROVE SshInv'
  BY <1>2, ConnectKeeps
<1>3. ASSUME NEW c \in SshCaller, S!Join(c) PROVE SshInv'
  <2>1. sshconn # None /\ sshconn \in SshConn /\ ~Connects(c)
    BY <1>3 DEF S!Join, S!Pending, SshInv, S!TypeOK, Connects
  <2> QED BY <1>3, <2>1, MovesOn DEF S!Join
<1>4. ASSUME NEW c \in SshCaller, S!Reuse(c) PROVE SshInv'
  BY <1>4, UseResultKeeps DEF S!Reuse, Connects
<1>5. ASSUME NEW c \in SshCaller, S!Resume(c) PROVE SshInv'
  <2>1. ~Connects(c) /\ sshFuture[sshOn[c]] # "pending" /\ UNCHANGED sshLink
    BY <1>5 DEF S!Resume, Connects
  <2>2. S!UseResult(c) \/ S!Fail(c) \/ (S!Leaves(c) /\ UNCHANGED <<S!futures, sshCalm>>)
    BY <1>5 DEF S!Resume
  <2>3. CASE S!UseResult(c)
    BY <2>1, <2>3, UseResultKeeps
  <2>4. CASE S!Fail(c)
    BY <2>1, <2>4, Forgotten DEF S!Fail
  <2>5. CASE S!Leaves(c) /\ UNCHANGED <<S!futures, sshCalm>>
    BY <2>1, <2>5, MovesOn DEF S!Leaves
  <2> QED BY <2>2, <2>3, <2>4, <2>5
<1>6. ASSUME NEW c \in SshCaller, S!CancelJoin(c) PROVE SshInv'
  BY <1>6, CancelJoinKeeps
<1>7. ASSUME NEW c \in SshCaller, S!Connected(c) PROVE SshInv'
  BY <1>7, ConnectedKeeps
<1>8. ASSUME NEW c \in SshCaller, S!ConnectFails(c) PROVE SshInv'
  BY <1>8, Forgotten DEF S!ConnectFails, S!Fail, Connects
<1>9. ASSUME NEW c \in SshCaller, S!ConnectCancelled(c) PROVE SshInv'
  BY <1>9, Forgotten DEF S!ConnectCancelled, Connects
<1>10. ASSUME NEW c \in SshCaller, S!Opened(c) \/ S!OpenCancelled(c) PROVE SshInv'
  BY <1>10, MovesOn DEF S!Opened, S!OpenCancelled, S!Leaves, Connects
<1>11. ASSUME NEW c \in SshCaller, S!OpenFails(c) PROVE SshInv'
  BY <1>11, Forgotten DEF S!OpenFails, S!Fail
<1>12. ASSUME NEW g \in SshConn, S!LinkLost(g) PROVE SshInv'
  BY <1>12, LostKeeps DEF S!LinkLost
<1>13. CASE S!Close
  <2>1. sshValue[sshconn] \in SshConn
    BY <1>13 DEF S!Close, SshInv, SshShape
  <2> QED BY <1>13, <2>1, LostKeeps DEF S!Close
<1> QED
  BY <1>1, <1>2, <1>3, <1>4, <1>5, <1>6, <1>7, <1>8, <1>9, <1>10, <1>11, <1>12, <1>13 DEF S!Next

(* So it holds in every reachable state, for any callers and connections.  *)
LEMMA Invariant == S!Spec => []SshInv
BY SshInitInv, SshStepInv, PTL DEF S!Spec

(* Every reachable state is type correct.                                  *)
THEOREM SshTypeCorrect == S!Spec => []S!TypeOK
BY Invariant, PTL DEF SshInv

(* The future other requests find is never a pending one that nobody will  *)
(* settle, whichever calls fail, time out or interfere.                    *)
THEOREM SshHandshakeAlwaysBacked == S!Spec => []S!SshHandshakeIsBacked
BY Invariant, PTL DEF SshInv

(* As long as callers forget only what is their own, no connection is up   *)
(* beside the published one.                                               *)
THEOREM OneSessionWhileCalm == S!Spec => []S!SshOneSession
BY Invariant, PTL DEF SshInv

(* The property of the run: both hold, in every reachable state.           *)
THEOREM SessionAlwaysSound == S!Spec => []SshSessionIsSound
BY Invariant, PTL DEF SshInv, SshSessionIsSound, S!SshSessionIsSound

-----------------------------------------------------------------------------
(***************************************************************************)
(* The graceful close of a CFP stream.                                     *)
(***************************************************************************)
CfpTypeOK ==
  /\ at \in [SshCaller -> {"idle", "lock", "done"} \union C!Inside]
  /\ holder \in SUBSET SshCaller /\ skipped \in SUBSET SshCaller
  /\ cfpLink \in {"open", "closing", "lost"}
  /\ heard \in BOOLEAN /\ blocked \in BOOLEAN /\ asked \in Nat

(* The lock keeps the others out; who is at the first drain() is before    *)
(* the question, and once it is asked the transport is closing or the one  *)
(* who asked still holds the lock.                                         *)
CfpInv ==
  /\ CfpTypeOK
  /\ \A c \in SshCaller : at[c] \in C!Inside => holder = {c}
  /\ \A c \in SshCaller : at[c] = "drain" => asked = 0
  /\ asked <= 1
  /\ asked # 0 /\ cfpLink = "open" => holder # {}
  /\ \A c \in SshCaller : at[c] = "done" /\ c \notin skipped => cfpLink # "open"

(* A connection nobody has asked to close satisfies the invariant.         *)
LEMMA CfpInit == C!Init => CfpInv
<1> SUFFICES ASSUME C!Init PROVE CfpInv
  OBVIOUS
<1>1. at \in [SshCaller -> {"idle"}]
  BY DEF C!Init
<1>2. \A c \in SshCaller : at[c] = "idle" /\ at[c] \notin C!Inside
  BY <1>1 DEF C!Inside
<1>3. CfpTypeOK
  BY <1>1 DEF C!Init, CfpTypeOK
<1>4. asked = 0
  BY DEF C!Init
<1> QED BY <1>2, <1>3, <1>4 DEF CfpInv

(* The end of a call, wherever it comes from.                              *)
LEMMA CfpOver ==
  ASSUME CfpInv, NEW c \in SshCaller, C!Over(c), holder = {c} \/ holder = {}
  PROVE  CfpInv'
<1> USE DEF C!Over
<1>1. CfpTypeOK'
  BY DEF CfpInv, CfpTypeOK, C!Inside
<1>2. at'[c] = "done" /\ \A e \in SshCaller : e # c => at'[e] = at[e]
  BY DEF CfpInv, CfpTypeOK
<1>3. \A e \in SshCaller : at'[e] \notin C!Inside
  <2> SUFFICES ASSUME NEW e \in SshCaller, at'[e] \in C!Inside PROVE FALSE
    OBVIOUS
  <2>1. e # c /\ at[e] \in C!Inside
    BY <1>2 DEF C!Inside
  <2> QED BY <2>1 DEF CfpInv
<1>4. cfpLink' # "open" /\ asked' = asked
  OBVIOUS
<1> QED BY <1>1, <1>3, <1>4 DEF CfpInv, C!Inside

(* Every step of graceful_close and of the worker keeps it.                *)
LEMMA CfpStep == CfpInv /\ [C!Next]_(C!vars) => CfpInv'
<1> SUFFICES ASSUME CfpInv, [C!Next]_(C!vars) PROVE CfpInv'
  OBVIOUS
<1> USE DEF CfpInv, CfpTypeOK, C!Inside
<1>1. ASSUME NEW c \in SshCaller, C!Ask(c) PROVE CfpInv'
  BY <1>1 DEF C!Ask
<1>2. ASSUME NEW c \in SshCaller, C!Enter(c) PROVE CfpInv'
  <2>1. CASE cfpLink = "open" /\ heard /\ C!Over(c)
    BY <1>2, <2>1, CfpOver DEF C!Enter
  <2>2. CASE /\ cfpLink # "open" /\ at' = [at EXCEPT ![c] = "done"]
             /\ UNCHANGED <<holder, heard, cfpLink, blocked, asked, skipped>>
    BY <1>2, <2>2 DEF C!Enter
  <2>3. CASE /\ cfpLink = "open" /\ at' = [at EXCEPT ![c] = "drain"] /\ holder' = {c}
             /\ UNCHANGED <<heard, cfpLink, blocked, asked, skipped>>
    <3>1. holder = {} /\ \A e \in SshCaller : at[e] \notin C!Inside
      BY <1>2 DEF C!Enter
    <3>2. asked = 0
      BY <2>3, <3>1
    <3> QED BY <2>3, <3>1, <3>2
  <2> QED BY <1>2, <2>1, <2>2, <2>3 DEF C!Enter
<1>3. ASSUME NEW c \in SshCaller, C!Drained(c) PROVE CfpInv'
  <2>1. holder = {c}
    BY <1>3 DEF C!Drained
  <2>2. CASE C!Over(c)
    BY <2>1, <2>2, CfpOver
  <2>3. CASE ~C!Over(c)
    <3>1. /\ at' = [at EXCEPT ![c] = IF @ = "drain" THEN "control" ELSE "wait"]
          /\ asked' = IF at[c] = "drain" THEN asked + 1 ELSE asked
          /\ UNCHANGED <<holder, heard, cfpLink, blocked, skipped>>
      BY <1>3, <2>3 DEF C!Drained
    <3>2. /\ at'[c] \in {"control", "wait"}
          /\ \A e \in SshCaller : e # c => at'[e] = at[e] /\ at[e] \notin C!Inside
      BY <2>1, <3>1
    <3>3. asked' \in Nat /\ asked' <= 1
      BY <3>1
    <3>4. CfpTypeOK'
      BY <3>1, <3>3
    <3> QED BY <2>1, <3>1, <3>2, <3>3, <3>4
  <2> QED BY <2>2, <2>3
<1>4. ASSUME NEW c \in SshCaller, C!Hears(c) PROVE CfpInv'
  BY <1>4 DEF C!Hears
<1>5. ASSUME NEW c \in SshCaller, C!TimesOut(c) PROVE CfpInv'
  BY <1>5, CfpOver DEF C!TimesOut
<1>6. ASSUME NEW c \in SshCaller, C!Cancel(c) PROVE CfpInv'
  <2>1. CASE at[c] \in C!Inside /\ C!Over(c)
    BY <2>1, CfpOver
  <2>2. CASE /\ at[c] = "lock" /\ at' = [at EXCEPT ![c] = "done"] /\ skipped' = skipped \union {c}
             /\ UNCHANGED <<holder, heard, cfpLink, blocked, asked>>
    BY <2>2
  <2> QED BY <1>6, <2>1, <2>2 DEF C!Cancel
<1>7. CASE C!WorkerCloses \/ C!WorkerStalls \/ C!WorkerReads
  BY <1>7 DEF C!WorkerCloses, C!WorkerStalls, C!WorkerReads
<1>8. CASE C!Lost \/ C!RawClose
  BY <1>8 DEF C!Lost, C!RawClose
<1>9. CASE UNCHANGED C!vars
  BY <1>9 DEF C!vars
<1> QED BY <1>1, <1>2, <1>3, <1>4, <1>5, <1>6, <1>7, <1>8, <1>9 DEF C!Next

(* However many channels ask for the graceful close of a CFP connection,   *)
(* in any order and with a cancellation, a loss or a close at any await:   *)
(* the worker is asked once at most, and a call that is over leaves a      *)
(* transport that is closing, unless it was cancelled before it had the    *)
(* lock (graceful_close in protocols/websocket.py).                        *)
THEOREM AlwaysAsksOnceAndCloses == C!Spec => []AsksOnceAndCloses
<1>1. CfpInv => AsksOnceAndCloses
  BY DEF CfpInv, AsksOnceAndCloses, C!AsksOnceAndCloses
<1> QED BY <1>1, CfpInit, CfpStep, PTL DEF C!Spec
=============================================================================
