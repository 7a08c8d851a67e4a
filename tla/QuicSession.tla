---------------------------- MODULE QuicSession ----------------------------
(***************************************************************************)
(* The one QUIC connection that all requests of a ProxyQUIC or ProxyH3     *)
(* share (quic.py): the task that owns it (_run_quic_connection), the      *)
(* callers that create it or wait for it (_wait_for_quic_connection), its  *)
(* termination, close(), and the table of UDP flows it carries             *)
(* (udp_open_connection).                                                  *)
(*                                                                         *)
(* One action is what runs between two awaits.  A Conn is one run of       *)
(* _run_quic_connection with its handshake future; a slot is used again    *)
(* when nothing refers to it any more.                                     *)
(***************************************************************************)
EXTENDS SharedFuture, Integers, Sequences, FiniteSets

CONSTANTS
  Caller,         \* requests that need a connection
  Addr,           \* UDP clients
  MAX_UDP_FLOWS

ASSUME SizeAssumption ==
  /\ IsFiniteSet(Caller) /\ MAX_UDP_FLOWS \in Nat \ {0}

VARIABLES
  handshake,  \* self.handshake
  connTask,   \* self._quic_connection_task
  waiters,    \* self._quic_waiters
  future,     \* the handshake future of a connection
  task,       \* how far its task is
  cancelled,  \* tasks that were asked to cancel
  closed,     \* connections whose protocol is closed
  flows,      \* quic_udpmap and quic_udp_replies, oldest first
  caller,     \* "waiting" for a handshake, or for a task to finish "closing"
  on          \* the connection a caller waits on

session == <<handshake, connTask, waiters>>
conns   == <<future, task, cancelled, closed>>
vars    == <<session, conns, flows, caller, on>>

(* "dialing" is the await of __aenter__, "connecting" of wait_connected,   *)
(* "up" of wait_closed; "skipped" was cancelled before its first step.     *)
Alive(g) == task[g] \in {"scheduled", "dialing", "connecting", "up"}

Free(g) ==
  /\ ~Alive(g) /\ g \notin {handshake, connTask}
  /\ \A c \in Caller : on[c] # g
  /\ \A i \in 1..Len(flows) : flows[i].conn # g

Init ==
  /\ handshake = None /\ connTask = None /\ waiters = 0
  /\ future = [g \in Conn |-> "none"] /\ task = [g \in Conn |-> "none"]
  /\ cancelled = {} /\ closed = {} /\ flows = <<>>
  /\ caller = [c \in Caller |-> "idle"] /\ on = [c \in Caller |-> None]

(***************************************************************************)
(* The callers.                                                            *)
(***************************************************************************)
(* udp_open_connection: a flow the table knows is used again, the oldest   *)
(* one gives way to a new one.                                             *)
Flow(a, g) ==
  IF \E i \in 1..Len(flows) : flows[i].addr = a THEN flows
  ELSE Append(IF Len(flows) >= MAX_UDP_FLOWS THEN Tail(flows) ELSE flows,
              [addr |-> a, conn |-> g])

(* The call returns g, for a stream or for a datagram.                     *)
Return(c, g) ==
  /\ caller' = [caller EXCEPT ![c] = "idle"] /\ on' = [on EXCEPT ![c] = None]
  /\ flows' = flows \/ \E a \in Addr : flows' = Flow(a, g)

Raise(c) ==
  /\ caller' = [caller EXCEPT ![c] = "idle"] /\ on' = [on EXCEPT ![c] = None]
  /\ UNCHANGED flows

Wait(c, st, g) ==
  /\ caller' = [caller EXCEPT ![c] = st] /\ on' = [on EXCEPT ![c] = g]
  /\ UNCHANGED flows

(* What the loop takes for the handshake: a connection that has closed     *)
(* does not count.                                                         *)
Current ==
  IF handshake # None /\ future[handshake] = "result" /\ handshake \in closed
    THEN None ELSE handshake

CreateAtOnce(c, g) ==
  /\ Current = None /\ Free(g)
  /\ handshake' = g /\ connTask' = g /\ waiters' = waiters + 1
  /\ future' = [future EXCEPT ![g] = "pending"]
  /\ task' = [task EXCEPT ![g] = "scheduled"]
  /\ cancelled' = cancelled \ {g} /\ closed' = closed \ {g}
  /\ Wait(c, "waiting", g)

(* Nobody is connecting and no old connection is still closing.            *)
Create(c, g) ==
  /\ Current = None /\ Free(g)
  /\ connTask # None => ~Alive(connTask)
  /\ handshake' = g /\ connTask' = g /\ waiters' = waiters + 1
  /\ future' = [future EXCEPT ![g] = "pending"]
  /\ task' = [task EXCEPT ![g] = "scheduled"]
  /\ cancelled' = cancelled \ {g} /\ closed' = closed \ {g}
  /\ Wait(c, "waiting", g)

(* The loop of _wait_for_quic_connection, up to its next await.            *)
Loop(c) ==
  \/ \E g \in Conn : Create(c, g)
  \/ /\ Current = None /\ connTask # None /\ Alive(connTask)
     /\ handshake' = None
     /\ Wait(c, "closing", connTask)
     /\ UNCHANGED <<connTask, waiters, conns>>
  \/ /\ Current # None /\ future[Current] = "pending"
     /\ waiters' = waiters + 1
     /\ Wait(c, "waiting", Current)
     /\ UNCHANGED <<handshake, connTask, conns>>
  \/ /\ Current # None /\ future[Current] = "result"
     /\ Return(c, Current)
     /\ UNCHANGED <<session, conns>>
  \/ /\ Current # None /\ future[Current] \in {"error", "cancelled"}
     /\ Raise(c)
     /\ UNCHANGED <<session, conns>>

Ask(c) == caller[c] = "idle" /\ Loop(c)

(* The old connection's task has ended; if it was cancelled, so is the     *)
(* caller that waited for it.                                              *)
ClosingOver(c) ==
  /\ caller[c] = "closing" /\ ~Alive(on[c])
  /\ \/ task[on[c]] = "done" /\ Loop(c)
     \/ task[on[c]] # "done" /\ Raise(c) /\ UNCHANGED <<session, conns>>

Resume(c) ==
  /\ caller[c] = "waiting" /\ future[on[c]] # "pending"
  /\ waiters' = waiters - 1
  /\ IF future[on[c]] = "result" THEN Return(c, on[c]) ELSE Raise(c)
  /\ UNCHANGED <<handshake, connTask, conns>>

(* A timeout or a cancellation of the caller: the last one takes the       *)
(* unfinished connection with it.  The task's first step was queued before *)
(* the caller could wait, and runs before the caller is woken.             *)
CancelWait(c) ==
  /\ caller[c] = "waiting" /\ task[on[c]] # "scheduled"
  /\ Raise(c)
  /\ waiters' = waiters - 1
  /\ cancelled' = IF handshake = on[c] /\ future[on[c]] = "pending" /\ waiters = 1
                     /\ connTask # None /\ Alive(connTask)
                    THEN cancelled \cup {connTask} ELSE cancelled
  /\ UNCHANGED <<handshake, connTask, future, task, closed>>

CancelClosing(c) ==
  /\ caller[c] = "closing"
  /\ Raise(c)
  /\ UNCHANGED <<session, conns>>

(***************************************************************************)
(* The connection.                                                         *)
(***************************************************************************)
ReleaseKeepsFlows(g) ==
  /\ handshake' = IF handshake = g THEN None ELSE handshake
  /\ connTask' = IF connTask = g THEN None ELSE connTask
  /\ UNCHANGED <<waiters, flows, caller, on>>

ReleaseKeepsHandshake(g) ==
  /\ connTask' = IF connTask = g THEN None ELSE connTask
  /\ flows' = <<>>
  /\ UNCHANGED <<handshake, waiters, caller, on>>

(* The finally clause.                                                     *)
Release(g) ==
  /\ handshake' = IF handshake = g THEN None ELSE handshake
  /\ connTask' = IF connTask = g THEN None ELSE connTask
  /\ flows' = <<>>
  /\ UNCHANGED <<waiters, caller, on>>

Start(g) ==
  /\ task[g] = "scheduled" /\ g \notin cancelled
  /\ task' = [task EXCEPT ![g] = "dialing"]
  /\ UNCHANGED <<session, future, cancelled, closed, flows, caller, on>>

Skip(g) ==
  /\ task[g] = "scheduled" /\ g \in cancelled
  /\ task' = [task EXCEPT ![g] = "skipped"]
  /\ UNCHANGED <<session, future, cancelled, closed, flows, caller, on>>

Dialed(g) ==
  /\ task[g] = "dialing" /\ g \notin cancelled
  /\ task' = [task EXCEPT ![g] = "connecting"]
  /\ UNCHANGED <<session, future, cancelled, closed, flows, caller, on>>

DialFails(g) ==
  /\ task[g] = "dialing" /\ g \notin cancelled
  /\ task' = [task EXCEPT ![g] = "done"]
  /\ future' = Settled(future, g, "error")
  /\ Release(g)
  /\ UNCHANGED <<cancelled, closed>>

(* wait_connected returns: publish the protocol.                           *)
Up(g) ==
  /\ task[g] = "connecting" /\ g \notin closed \cup cancelled
  /\ task' = [task EXCEPT ![g] = "up"]
  /\ future' = Settled(future, g, "result")
  /\ UNCHANGED <<session, cancelled, closed, flows, caller, on>>

(* The ConnectionTerminated event, in the middle of anything.              *)
Terminated(g) ==
  /\ task[g] \in {"connecting", "up"} /\ g \notin closed
  /\ closed' = closed \cup {g}
  /\ future' = IF handshake = g THEN Settled(future, g, "error") ELSE future
  /\ handshake' = IF handshake = g THEN None ELSE handshake
  /\ flows' = <<>>
  /\ UNCHANGED <<connTask, waiters, task, cancelled, caller, on>>

(* The task sees the end of its connection.  A caller whose future has its *)
(* result was woken two turns of the event loop earlier and goes first.    *)
Finish(g) ==
  /\ task[g] \in {"connecting", "up"} /\ g \in closed \ cancelled
  /\ \A c \in Caller : ~(on[c] = g /\ caller[c] = "waiting" /\ future[g] = "result")
  /\ task' = [task EXCEPT ![g] = "done"]
  /\ future' = Settled(future, g, "error")
  /\ Release(g)
  /\ UNCHANGED <<cancelled, closed>>

UnwindLeavesFuture(g) ==
  /\ task[g] \in {"dialing", "connecting", "up"} /\ g \in cancelled
  /\ task' = [task EXCEPT ![g] = "cancelled"]
  /\ closed' = IF task[g] = "dialing" THEN closed ELSE closed \cup {g}
  /\ Release(g)
  /\ UNCHANGED <<future, cancelled>>

(* A cancelled task closes the protocol it has and cancels the future.     *)
Unwind(g) ==
  /\ task[g] \in {"dialing", "connecting", "up"} /\ g \in cancelled
  /\ task' = [task EXCEPT ![g] = "cancelled"]
  /\ future' = Settled(future, g, "cancelled")
  /\ closed' = IF task[g] = "dialing" THEN closed ELSE closed \cup {g}
  /\ Release(g)
  /\ UNCHANGED cancelled

(* The timer of a connection that was closed by force ends it once more,   *)
(* and its event clears the flows of whatever connection is up by then.    *)
TerminatedLate(g) ==
  /\ task[g] = "cancelled" /\ g \in closed
  /\ flows # <<>> /\ flows' = <<>>
  /\ UNCHANGED <<session, conns, caller, on>>

(* close(): the registry cancels the connection's task like any other.     *)
Close ==
  /\ \E g \in Conn : Alive(g) /\ g \notin cancelled
  /\ cancelled' = cancelled \cup {g \in Conn : Alive(g)}
  /\ UNCHANGED <<session, future, task, closed, flows, caller, on>>

-----------------------------------------------------------------------------
Next ==
  \/ \E c \in Caller : \/ Ask(c) \/ ClosingOver(c) \/ Resume(c)
                       \/ CancelWait(c) \/ CancelClosing(c)
  \/ \E g \in Conn : \/ Start(g) \/ Skip(g) \/ Dialed(g) \/ DialFails(g) \/ Up(g)
                     \/ Terminated(g) \/ Finish(g) \/ Unwind(g) \/ TerminatedLate(g)
  \/ Close

(* Tasks that are ready go on, a name resolution ends, and QUIC's own idle *)
(* timeout ends a handshake that gets no answer.                           *)
Fairness ==
  /\ \A c \in Caller : WF_vars(Resume(c))
  /\ \A g \in Conn : WF_vars(Start(g) \/ Skip(g) \/ Dialed(g) \/ DialFails(g) \/ Up(g)
                             \/ (task[g] = "connecting" /\ Terminated(g))
                             \/ Finish(g) \/ Unwind(g))

Spec     == Init /\ [][Next]_vars
FairSpec == Spec /\ Fairness

-----------------------------------------------------------------------------
(* Every variable has its type.                                            *)
TypeOK ==
  /\ handshake \in Conn \cup {None} /\ connTask \in Conn \cup {None} /\ waiters \in Nat
  /\ future \in [Conn -> FutureStates]
  /\ task \in [Conn -> {"none", "scheduled", "dialing", "connecting", "up", "done",
                        "cancelled", "skipped"}]
  /\ cancelled \subseteq Conn /\ closed \subseteq Conn
  /\ flows \in Seq([addr : Addr, conn : Conn])
  /\ caller \in [Caller -> {"idle", "closing", "waiting"}]
  /\ on \in [Caller -> Conn \cup {None}]

(* _wait_for_quic_connection: "owning one async QUIC context per proxy":   *)
(* no second connection is begun while an older one is being closed.       *)
OneContext == \A f, g \in Conn : Alive(f) /\ Alive(g) => f = g

(* The published handshake is one to wait for or to use: it is pending and *)
(* its task will settle it, or its connection is up.  The one exception is *)
(* a task that close() cancelled before its first step.                    *)
HandshakeIsBacked ==
  handshake # None =>
    \/ future[handshake] = "pending" /\ (Alive(handshake) \/ task[handshake] = "skipped")
    \/ future[handshake] = "result" /\ task[handshake] = "up" /\ handshake \notin closed

(* A flow is a stream of the connection that is up: the table never hands  *)
(* a datagram the stream number of another connection.  The one exception  *)
(* is a connection that close() cancelled after its future had its result  *)
(* and before the caller went on.                                          *)
FlowsOfOneConnection ==
  \A i \in 1..Len(flows) :
    LET g == flows[i].conn
    IN  (task[g] = "up" /\ connTask = g) \/ task[g] = "cancelled"

(* Whoever waits for a handshake is answered, whatever happens to the      *)
(* connection, unless close() cancelled its task before its first step.    *)
WaiterAnswered ==
  [](\A g \in Conn : task[g] # "skipped") =>
    \A c \in Caller : caller[c] = "waiting" ~> caller[c] # "waiting"

(* In the words of SharedSession: a connection is being made until its     *)
(* future is settled, a task that is not over keeps its place, and a       *)
(* caller has its answer when the future is settled.                       *)
Life(g) ==
  IF future[g] = "pending" THEN "making"
  ELSE IF task[g] = "up" /\ g \notin closed THEN "up"
  ELSE IF Alive(g) THEN "ending" ELSE "down"

Stands(c) ==
  IF caller[c] # "waiting" THEN "idle"
  ELSE IF future[on[c]] = "pending" THEN "waiting"
  ELSE IF future[on[c]] = "result" THEN "served" ELSE "refused"

Shared == INSTANCE SharedSession WITH
  life   <- [g \in Conn |-> Life(g)],
  stands <- [c \in Caller |-> Stands(c)],
  on     <- [c \in Caller |-> IF caller[c] = "waiting" THEN on[c] ELSE None]

(* The proxy keeps the promise of SharedSession: one connection at a time, *)
(* one fate for all who wait for it, and a request that gives up takes no  *)
(* other with it.  (_wait_for_quic_connection, _run_quic_connection)       *)
SharesOneSession == Shared!Spec
=============================================================================
