---------------------------- MODULE TaskRegistry ----------------------------
(***************************************************************************)
(* The tasks of one owner: TaskRegistry (runtime/tasks.py), the datagram   *)
(* tasks a UDP listener puts into it (ProxySimple.udp_start_server), and   *)
(* the owner's close() and wait_closed() (server/connections.py).  A task  *)
(* is asyncio's: its first step comes some time after create_task, and a   *)
(* cancellation before that step means its coroutine never runs at all.    *)
(***************************************************************************)
EXTENDS Integers, FiniteSets

CONSTANTS
  Task,        \* tasks one behaviour can create
  UDP_TASK_LIMIT

ASSUME TaskAssumption == IsFiniteSet(Task) /\ UDP_TASK_LIMIT \in Nat \ {0}

VARIABLES
  life,       \* how far each task is
  kind,       \* "udp" for a datagram task, "other" for the rest
  cancelled,  \* tasks that were asked to cancel
  tracked,    \* the registry
  inflight,   \* udp_inflight
  wait,       \* wait_closed(): "idle", "waiting", "cancelling" (its caller was
              \* cancelled), "returned"
  snapshot,   \* the tasks wait_closed() gathers
  late        \* history: a task was created after that snapshot, or an earlier
              \* wait_closed() forgot one that is still alive

vars == <<life, kind, cancelled, tracked, inflight, wait, snapshot, late>>

In(st)   == {t \in Task : life[t] \in st}
Live     == In({"scheduled", "running"})
LiveUdp  == {t \in Live : kind[t] = "udp"}
Skipped  == {t \in In({"skipped"}) : kind[t] = "udp"}

Init ==
  /\ life = [t \in Task |-> "unused"]
  /\ kind = [t \in Task |-> "other"]
  /\ cancelled = {} /\ tracked = {}
  /\ inflight = 0
  /\ wait = "idle" /\ snapshot = {} /\ late = FALSE

(* create_task: tracked before it can run.                                 *)
Create(t, k) ==
  /\ life[t] = "unused"
  /\ life' = [life EXCEPT ![t] = "scheduled"]
  /\ kind' = [kind EXCEPT ![t] = k]
  /\ tracked' = tracked \cup {t}
  /\ late' = (late \/ wait # "idle")
  /\ UNCHANGED <<cancelled, wait, snapshot>>

(* datagram_received: refused at the limit, otherwise counted and queued.  *)
AtLimitOffByOne == inflight > UDP_TASK_LIMIT
AtLimit == inflight >= UDP_TASK_LIMIT

DatagramReceived(t) ==
  /\ ~AtLimit
  /\ inflight' = inflight + 1
  /\ Create(t, "udp")

(* Any other user of the registry: a TLS adapter of an accepted client, a  *)
(* tunnel's worker, a stream of a shared session.                          *)
Spawn(t) == Create(t, "other") /\ UNCHANGED inflight

(* The task's first step.                                                  *)
Start(t) ==
  /\ life[t] = "scheduled" /\ t \notin cancelled
  /\ life' = [life EXCEPT ![t] = "running"]
  /\ UNCHANGED <<kind, cancelled, tracked, inflight, wait, snapshot, late>>

(* Cancelled before it: neither the handler nor its finally clause runs.   *)
Skip(t) ==
  /\ life[t] = "scheduled" /\ t \in cancelled
  /\ life' = [life EXCEPT ![t] = "skipped"]
  /\ UNCHANGED <<kind, cancelled, tracked, inflight, wait, snapshot, late>>

EndForgetsOnCancel(t) ==
  /\ life[t] = "running"
  /\ life' = [life EXCEPT ![t] = "done"]
  /\ inflight' = IF kind[t] = "udp" /\ t \notin cancelled THEN inflight - 1 ELSE inflight
  /\ UNCHANGED <<kind, cancelled, tracked, wait, snapshot, late>>

(* The coroutine returns, fails, or is unwound by its cancellation; the    *)
(* finally clause of handle_datagram uncounts it.                          *)
End(t) ==
  /\ life[t] = "running"
  /\ life' = [life EXCEPT ![t] = "done"]
  /\ inflight' = IF kind[t] = "udp" THEN inflight - 1 ELSE inflight
  /\ UNCHANGED <<kind, cancelled, tracked, wait, snapshot, late>>

(* add_done_callback(self.discard)                                         *)
Discard(t) ==
  /\ life[t] \in {"done", "skipped"} /\ t \in tracked
  /\ tracked' = tracked \ {t}
  /\ UNCHANGED <<life, kind, cancelled, inflight, wait, snapshot, late>>

(* close(): cancel_all() asks every tracked task to end.                   *)
CancelAll ==
  /\ tracked # {}
  /\ cancelled' = cancelled \cup (tracked \cap Live)
  /\ UNCHANGED <<life, kind, tracked, inflight, wait, snapshot, late>>

(* wait_closed(): gather what is tracked now; nothing to gather is done    *)
(* at once.                                                                *)
WaitClosed ==
  /\ wait \in {"idle", "returned"}
  /\ snapshot' = tracked
  /\ wait' = IF tracked = {} THEN "returned" ELSE "waiting"
  /\ late' = (Live \ tracked # {})
  /\ UNCHANGED <<life, kind, cancelled, tracked, inflight>>

GatheredFirst == \E t \in snapshot : life[t] \in {"done", "skipped"}
Gathered == \A t \in snapshot : life[t] \in {"done", "skipped"}

(* gather() returned: the registry is cleared, whoever joined it since.    *)
WaitReturns ==
  /\ wait = "waiting" /\ Gathered
  /\ wait' = "returned"
  /\ tracked' = {}
  /\ UNCHANGED <<life, kind, cancelled, inflight, snapshot, late>>

(* The caller of wait_closed() is cancelled: gather passes it on to its    *)
(* children, still waits for every one of them, then raises, and the       *)
(* registry is not cleared.                                                *)
WaitCancelled ==
  /\ wait = "waiting"
  /\ wait' = "cancelling"
  /\ cancelled' = cancelled \cup (snapshot \cap Live)
  /\ UNCHANGED <<life, kind, tracked, inflight, snapshot, late>>

WaitRaises ==
  /\ wait = "cancelling" /\ Gathered
  /\ wait' = "idle"
  /\ UNCHANGED <<life, kind, cancelled, tracked, inflight, snapshot, late>>

Next ==
  \/ \E t \in Task : DatagramReceived(t) \/ Spawn(t) \/ Start(t) \/ Skip(t) \/ End(t) \/ Discard(t)
  \/ CancelAll \/ WaitClosed \/ WaitReturns \/ WaitCancelled \/ WaitRaises

Spec == Init /\ [][Next]_vars

-----------------------------------------------------------------------------
(* Every variable has its type.                                            *)
TypeOK ==
  /\ life \in [Task -> {"unused", "scheduled", "running", "done", "skipped"}]
  /\ kind \in [Task -> {"udp", "other"}]
  /\ cancelled \subseteq Task /\ tracked \subseteq Task /\ snapshot \subseteq Task
  /\ inflight \in Nat
  /\ wait \in {"idle", "waiting", "cancelling", "returned"} /\ late \in BOOLEAN

(* The admission counter is never below the datagram tasks that are alive, *)
(* so they never exceed the limit; the difference is exactly the tasks     *)
(* that were cancelled before their first step.                            *)
AdmissionCounts ==
  /\ inflight = Cardinality(LiveUdp) + Cardinality(Skipped)
  /\ Cardinality(LiveUdp) <= UDP_TASK_LIMIT

(* When wait_closed() has returned, no task was created since it took its  *)
(* snapshot, and no earlier call forgot one, nothing of the owner is alive *)
(* or tracked.                                                             *)
QuietAfterWait == wait = "returned" /\ ~late => Live = {} /\ tracked = {}
=============================================================================
