------------------------- MODULE TaskRegistryProofs -------------------------
(***************************************************************************)
(* TaskRegistry, for any number of tasks and any limit: its type, the      *)
(* exact meaning of the admission counter, and what wait_closed() leaves.  *)
(* Lifecycle, as L, for any listeners and requests: whom the shutdown      *)
(* reaches.                                                                *)
(***************************************************************************)
EXTENDS Program, FiniteSetTheorems, TLAPS

(* The type is inductive but for inflight \in Nat, which needs the count.  *)
Shape ==
  /\ life \in [Task -> {"unused", "scheduled", "running", "done", "skipped"}]
  /\ kind \in [Task -> {"udp", "other"}]
  /\ cancelled \subseteq Task /\ tracked \subseteq Task /\ snapshot \subseteq Task
  /\ inflight \in Int
  /\ wait \in {"idle", "waiting", "cancelling", "returned"} /\ late \in BOOLEAN

Counted == LiveUdp \cup Skipped

(* inflight counts the tasks that have not run their finally clause; a     *)
(* skipped one never will.                                                 *)
Count == inflight = Cardinality(Counted) /\ Cardinality(Counted) <= UDP_TASK_LIMIT

(* Nothing alive is outside the registry, or outside what the waiter       *)
(* gathered, unless a task came too late.                                  *)
Held ==
  ~late =>
    /\ Live \subseteq tracked
    /\ wait = "waiting" => Live \subseteq snapshot
    /\ wait = "returned" => Live = {} /\ tracked = {}

-----------------------------------------------------------------------------
(* Sets of tasks are finite.                                               *)
LEMMA Finite ==
  ASSUME NEW S, S \subseteq Task
  PROVE  IsFiniteSet(S) /\ Cardinality(S) \in Nat
BY TaskAssumption, FS_Subset, FS_CardinalityType

LEMMA ShapeInvariant == Spec => []Shape
<1>1. Init => Shape
  <2> SUFFICES ASSUME Init PROVE Shape
    OBVIOUS
  <2>1. life \in [Task -> {"unused", "scheduled", "running", "done", "skipped"}]
        /\ kind \in [Task -> {"udp", "other"}]
    BY DEF Init
  <2>2. cancelled \subseteq Task /\ tracked \subseteq Task /\ snapshot \subseteq Task
        /\ inflight \in Int
    BY DEF Init
  <2>3. wait = "idle" /\ late \in BOOLEAN
    BY Zenon DEF Init
  <2> QED BY <2>1, <2>2, <2>3 DEF Shape
<1>2. Shape /\ [Next]_vars => Shape'
  <2> SUFFICES ASSUME Shape, [Next]_vars PROVE Shape'
    OBVIOUS
  <2>1. ASSUME NEW t \in Task, DatagramReceived(t) PROVE Shape'
    BY <2>1 DEF Shape, DatagramReceived, Create
  <2>2. ASSUME NEW t \in Task, Spawn(t) PROVE Shape'
    BY <2>2 DEF Shape, Spawn, Create
  <2>3. ASSUME NEW t \in Task, Start(t) \/ Skip(t) PROVE Shape'
    BY <2>3 DEF Shape, Start, Skip
  <2>4. ASSUME NEW t \in Task, End(t) \/ Discard(t) PROVE Shape'
    BY <2>4 DEF Shape, End, Discard
  <2>5. ASSUME CancelAll \/ WaitCancelled PROVE Shape'
    BY <2>5 DEF Shape, CancelAll, WaitCancelled, Live, In
  <2>6. ASSUME WaitClosed \/ WaitReturns \/ WaitRaises PROVE Shape'
    <3>1. (Live \ tracked # {}) \in BOOLEAN
      OBVIOUS
    <3> QED BY <2>6, <3>1 DEF Shape, WaitClosed, WaitReturns, WaitRaises
  <2>7. ASSUME UNCHANGED vars PROVE Shape'
    BY <2>7 DEF Shape, vars
  <2> QED BY <2>1, <2>2, <2>3, <2>4, <2>5, <2>6, <2>7 DEF Next
<1> QED BY <1>1, <1>2, PTL DEF Spec

-----------------------------------------------------------------------------
(* A step that leaves every counted task counted, and no other, keeps the  *)
(* count.                                                                  *)
LEMMA CountKept ==
  ASSUME Count, UNCHANGED inflight, Counted' = Counted PROVE Count'
BY DEF Count

LEMMA CountInductive == Spec => []Count
<1>1. Init => Count
  <2> SUFFICES ASSUME Init PROVE Count
    OBVIOUS
  <2>1. Counted = {}
    BY DEF Init, Counted, LiveUdp, Skipped, Live, In
  <2> QED BY <2>1, FS_EmptySet, TaskAssumption DEF Init, Count
<1>2. Shape /\ Count /\ [Next]_vars => Count'
  <2> SUFFICES ASSUME Shape, Count, [Next]_vars PROVE Count'
    OBVIOUS
  <2>0. IsFiniteSet(Counted)
    BY Finite DEF Counted, LiveUdp, Skipped, Live, In
  <2>1. ASSUME NEW t \in Task, DatagramReceived(t) PROVE Count'
    <3>1. t \notin Counted /\ Counted' = Counted \cup {t}
      BY <2>1 DEF DatagramReceived, Create, Counted, LiveUdp, Skipped, Live, In, Shape
    <3>2. Cardinality(Counted') = Cardinality(Counted) + 1
      BY <3>1, <2>0, FS_AddElement
    <3>3. Cardinality(Counted) \in Nat /\ inflight < UDP_TASK_LIMIT
      BY <2>0, <2>1, FS_CardinalityType, TaskAssumption DEF DatagramReceived, AtLimit, Shape
    <3> QED BY <2>1, <3>2, <3>3, TaskAssumption DEF Count, DatagramReceived
  <2>2. ASSUME NEW t \in Task, Spawn(t) PROVE Count'
    <3>1. Counted' = Counted
      BY <2>2 DEF Spawn, Create, Counted, LiveUdp, Skipped, Live, In, Shape
    <3> QED BY <2>2, <3>1, CountKept DEF Spawn
  <2>3. ASSUME NEW t \in Task, Start(t) \/ Skip(t) PROVE Count'
    <3>1. Counted' = Counted
      BY <2>3 DEF Start, Skip, Counted, LiveUdp, Skipped, Live, In, Shape
    <3> QED BY <2>3, <3>1, CountKept DEF Start, Skip
  <2>4. ASSUME NEW t \in Task, End(t) PROVE Count'
    <3>1. CASE kind[t] = "udp"
      <4>1. t \in Counted /\ Counted' = Counted \ {t}
        BY <2>4, <3>1 DEF End, Counted, LiveUdp, Skipped, Live, In, Shape
      <4>2. Cardinality(Counted') = Cardinality(Counted) - 1
        BY <4>1, <2>0, FS_RemoveElement
      <4>3. Cardinality(Counted) \in Nat
        BY <2>0, FS_CardinalityType
      <4> QED BY <2>4, <3>1, <4>2, <4>3, TaskAssumption DEF Count, End
    <3>2. CASE kind[t] # "udp"
      <4>1. Counted' = Counted
        BY <2>4, <3>2 DEF End, Counted, LiveUdp, Skipped, Live, In, Shape
      <4> QED BY <2>4, <3>2, <4>1, CountKept DEF End
    <3> QED BY <3>1, <3>2
  <2>5. ASSUME NEW t \in Task, Discard(t) PROVE Count'
    BY <2>5, CountKept DEF Discard, Counted, LiveUdp, Skipped, Live, In
  <2>6. ASSUME CancelAll \/ WaitClosed \/ WaitReturns \/ WaitCancelled \/ WaitRaises PROVE Count'
    BY <2>6, CountKept
    DEF CancelAll, WaitClosed, WaitReturns, WaitCancelled, WaitRaises,
        Counted, LiveUdp, Skipped, Live, In
  <2>7. ASSUME UNCHANGED vars PROVE Count'
    BY <2>7, CountKept DEF vars, Counted, LiveUdp, Skipped, Live, In
  <2> QED BY <2>1, <2>2, <2>3, <2>4, <2>5, <2>6, <2>7 DEF Next
<1> QED BY <1>1, <1>2, ShapeInvariant, PTL DEF Spec

(* Counted is the disjoint union of the two sets AdmissionCounts adds up.  *)
LEMMA CountSplits ==
  Cardinality(Counted) = Cardinality(LiveUdp) + Cardinality(Skipped)
<1>1. LiveUdp \subseteq Task /\ Skipped \subseteq Task /\ LiveUdp \cap Skipped = {}
  BY DEF LiveUdp, Skipped, Live, In
<1>2. IsFiniteSet(LiveUdp) /\ IsFiniteSet(Skipped) /\ Cardinality(LiveUdp) \in Nat /\ Cardinality(Skipped) \in Nat
  BY <1>1, Finite
<1>3. Cardinality(LiveUdp \cap Skipped) = 0
  BY <1>1, FS_EmptySet
<1>4. Cardinality(LiveUdp \cup Skipped) =
        Cardinality(LiveUdp) + Cardinality(Skipped) - Cardinality(LiveUdp \cap Skipped)
  BY <1>2, FS_Union, Zenon
<1> QED BY <1>2, <1>3, <1>4 DEF Counted

(* The counter a listener admits datagrams by is the number of datagram    *)
(* tasks alive plus those cancelled before their first step: the live ones *)
(* never pass the limit, the skipped ones hold their share of it for good. *)
THEOREM AdmissionIsExact == Spec => []AdmissionCounts
<1>1. Count => AdmissionCounts
  <2> SUFFICES ASSUME Count PROVE AdmissionCounts
    OBVIOUS
  <2>1. LiveUdp \subseteq Task /\ Skipped \subseteq Task
    BY DEF LiveUdp, Skipped, Live, In
  <2>2. Cardinality(LiveUdp) \in Nat /\ Cardinality(Skipped) \in Nat
    BY <2>1, Finite
  <2> QED BY <2>2, CountSplits, TaskAssumption DEF Count, AdmissionCounts
<1> QED BY <1>1, CountInductive, PTL

(* Every variable has its type; the admission counter is never negative.   *)
THEOREM TypeCorrect == Spec => []TypeOK
<1>1. Shape /\ Count => TypeOK
  <2> SUFFICES ASSUME Shape, Count PROVE TypeOK
    OBVIOUS
  <2>1. Cardinality(Counted) \in Nat
    BY Finite DEF Counted, LiveUdp, Skipped, Live, In
  <2> QED BY <2>1 DEF Shape, Count, TypeOK
<1> QED BY <1>1, ShapeInvariant, CountInductive, PTL

-----------------------------------------------------------------------------
LEMMA HeldInductive == Spec => []Held
<1>1. Init => Held
  BY DEF Init, Held, Live, In
<1>2. Shape /\ Held /\ [Next]_vars => Held'
  <2> SUFFICES ASSUME Shape, Held, [Next]_vars PROVE Held'
    OBVIOUS
  <2>1. ASSUME NEW t \in Task, NEW k \in {"udp", "other"}, Create(t, k) PROVE Held'
    <3>1. Live' = Live \cup {t}
      BY <2>1 DEF Create, Live, In, Shape
    <3> QED BY <2>1, <3>1 DEF Create, Held, Shape
  <2>2. ASSUME NEW t \in Task, Start(t) \/ Skip(t) \/ End(t) PROVE Held'
    <3>1. Live' \subseteq Live
      BY <2>2 DEF Start, Skip, End, Live, In, Shape
    <3> QED BY <2>2, <3>1 DEF Start, Skip, End, Held
  <2>3. ASSUME NEW t \in Task, Discard(t) PROVE Held'
    <3>1. Live' = Live /\ t \notin Live
      BY <2>3 DEF Discard, Live, In
    <3> QED BY <2>3, <3>1 DEF Discard, Held
  <2>4. ASSUME CancelAll \/ WaitCancelled \/ WaitRaises PROVE Held'
    <3>1. Live' = Live
      BY <2>4 DEF CancelAll, WaitCancelled, WaitRaises, Live, In
    <3> QED BY <2>4, <3>1 DEF CancelAll, WaitCancelled, WaitRaises, Held
  <2>5. ASSUME WaitClosed PROVE Held'
    <3>1. Live' = Live
      BY <2>5 DEF WaitClosed, Live, In
    <3> QED BY <2>5, <3>1 DEF WaitClosed, Held
  <2>6. ASSUME WaitReturns PROVE Held'
    <3>1. Live' = Live /\ snapshot \cap Live = {}
      BY <2>6 DEF WaitReturns, Gathered, Live, In
    <3> QED BY <2>6, <3>1 DEF WaitReturns, Held
  <2>7. ASSUME UNCHANGED vars PROVE Held'
    BY <2>7 DEF vars, Held, Live, In
  <2> QED BY <2>1, <2>2, <2>3, <2>4, <2>5, <2>6, <2>7 DEF Next, DatagramReceived, Spawn
<1> QED BY <1>1, <1>2, ShapeInvariant, PTL DEF Spec

(* When wait_closed() has returned and nobody raced it, the owner is       *)
(* quiet: no task of it is alive and none is tracked.                      *)
THEOREM WaitLeavesQuiet == Spec => []QuietAfterWait
<1>1. Held => QuietAfterWait
  BY DEF Held, QuietAfterWait
<1> QED BY <1>1, HeldInductive, PTL

-----------------------------------------------------------------------------
(* main() above the registries, as L: whom its shutdown reaches.           *)

LStage == {"none", "queued", "refused", "created", "running", "posting", "cancelled",
           "leaving", "hidden", "done"}

LTypeOK ==
  /\ main \in {"new", "start", "run", "wait", "last", "over", "dead"} /\ load \in Nat
  /\ loop \in [Request -> Nat] /\ task \in [Request -> LStage]
  /\ link \in [Request -> {"none", "open", "closing", "lost"}]

(* A listener is up only while main() does not shut down: without it a     *)
(* connection could come in behind the cancellation.  A main() with no     *)
(* listener left has no request, and a handler that is through has closed  *)
(* its connection, so that every open one has a task to cancel.            *)
LInv ==
  /\ LTypeOK /\ L!ShutdownReachesAll
  /\ main \in {"wait", "last"} => servers = {}
  /\ \A c \in Request :
       /\ loop[c] <= load
       /\ main = "start" /\ servers = {} => loop[c] # load
       /\ link[c] = "open" => task[c] \notin {"none", "done"}

-----------------------------------------------------------------------------
(* The invariant at the start, and at every step.                          *)
LEMMA LInit == L!Init => LInv
BY DEF L!Init, LInv, LTypeOK, LStage, L!ShutdownReachesAll

(* A request of the running load that goes on: what it goes on to must be  *)
(* a task that was told, or a connection that is closed.                   *)
LEMMA LBecomes ==
  ASSUME LInv, NEW c \in Request, NEW st \in LStage,
         NEW ln \in {"none", "open", "closing", "lost"}, L!Mine(c), L!Becomes(c, st, ln),
         ln = "open" =>
           /\ link[c] = "open" /\ st \notin {"none", "done"}
           /\ st \in {"refused", "cancelled", "leaving", "hidden"}
              \/ task[c] \notin {"refused", "cancelled", "leaving", "hidden"}
  PROVE  LInv'
<1>1. /\ task' = [task EXCEPT ![c] = st] /\ link' = [link EXCEPT ![c] = ln]
      /\ UNCHANGED <<main, load, servers, loop>>
  BY DEF L!Becomes
<1>2. L!ShutdownReachesAll'
  BY <1>1, Z3 DEF LInv, LTypeOK, L!ShutdownReachesAll, L!Mine
<1> QED BY <1>1, <1>2 DEF LInv, LTypeOK

(* An interrupt, whoever raised it, tells every task of an open connection *)
(* that it is cancelled.                                                   *)
LEMMA LInterrupted ==
  ASSUME LInv, NEW now, now \in [Request -> LStage], L!Interrupted(now), L!Running,
         UNCHANGED <<load, loop>>,
         link' \in [Request -> {"none", "open", "closing", "lost"}],
         \A c \in Request : link'[c] = "open" => now[c] \notin {"none", "done"}
  PROVE  LInv'
<1>1. main' \in {"wait", "dead"} /\ (main' = "wait" => main = "run" /\ servers' = {})
  BY DEF L!Interrupted
<1>2. ASSUME main' = "wait", NEW c \in Request
      PROVE  /\ task'[c] \in LStage
             /\ loop[c] = load /\ now[c] \notin {"none", "done"}
                => task'[c] \in {"refused", "cancelled", "leaving", "hidden"}
             /\ task'[c] \in {"none", "done"} => now[c] = task'[c]
  <2>1. now[c] \in LStage
    OBVIOUS
  <2>2. task'[c] = IF loop[c] = load /\ now[c] \in DOMAIN L!Told THEN L!Told[now[c]] ELSE now[c]
    BY <1>1, <1>2 DEF L!Interrupted
  <2>3. DOMAIN L!Told = {"queued", "created", "running", "posting"}
    BY DEF L!Told
  <2>4. /\ L!Told["queued"] = "refused" /\ L!Told["created"] = "leaving"
        /\ L!Told["running"] = "cancelled" /\ L!Told["posting"] = "leaving"
    BY DEF L!Told
  <2> QED BY <2>1, <2>2, <2>3, <2>4 DEF LStage
<1>3. task' \in [Request -> LStage]
  <2>1. CASE main' = "wait"
    <3>1. \E f : task' = [c \in Request |-> f[c]]
      BY <1>1, <2>1 DEF L!Interrupted
    <3> QED BY <3>1, <1>2, <2>1
  <2>2. CASE main' # "wait"
    BY <1>1, <2>2 DEF L!Interrupted
  <2> QED BY <2>1, <2>2
<1>4. main' # "wait" => task' = now
  BY DEF L!Interrupted
<1>5. L!ShutdownReachesAll'
  BY <1>1, <1>2 DEF L!ShutdownReachesAll
<1>6. \A c \in Request : link'[c] = "open" => task'[c] \notin {"none", "done"}
  BY <1>2, <1>4
<1> QED BY <1>1, <1>3, <1>5, <1>6 DEF LInv, LTypeOK

(* One step per action; an interrupt is the only one that cancels.         *)
LEMMA LStep == LInv /\ [L!Next]_(L!vars) => LInv'
<1> SUFFICES ASSUME LInv, [L!Next]_(L!vars) PROVE LInv'
  OBVIOUS
<1> USE DEF LInv, LTypeOK, L!ShutdownReachesAll
<1>1. CASE L!Begin
  BY <1>1 DEF L!Begin, L!Enter, L!request
<1>2. CASE L!StartServer
  BY <1>2 DEF L!StartServer, L!request
<1>3. CASE L!Started
  BY <1>3 DEF L!Started, L!request
<1>4. CASE L!Signal
  BY <1>4, LInterrupted DEF L!Signal
<1>5. CASE L!Waited
  BY <1>5 DEF L!Waited, L!request
<1>6. CASE L!Restart
  BY <1>6 DEF L!Restart, L!Enter, L!request
<1>7. CASE L!Over
  BY <1>7 DEF L!Over, L!request
<1>8. ASSUME NEW c \in Request, NEW l \in L!Listener, L!Accept(c, l) PROVE LInv'
  BY <1>8 DEF L!Accept, L!Running, LStage
<1>9. ASSUME NEW c \in Request, L!ConnectionMade(c) PROVE LInv'
  <2>1. L!Shut(c) \in {"none", "closing", "lost"}
    BY DEF L!Shut
  <2> QED BY <1>9, <2>1, LBecomes DEF L!ConnectionMade, LStage
<1>10. ASSUME NEW c \in Request, L!HandlerStarts(c) PROVE LInv'
  BY <1>10, LBecomes DEF L!HandlerStarts, LStage
<1>11. ASSUME NEW c \in Request, L!Ends(c) \/ L!Unwinds(c) PROVE LInv'
  <2>1. L!Shut(c) \in {"none", "closing", "lost"}
    BY DEF L!Shut
  <2> QED BY <1>11, <2>1, LBecomes DEF L!Ends, L!Unwinds, LStage
<1>12. ASSUME NEW c \in Request, L!Hides(c) PROVE LInv'
  BY <1>12, LBecomes DEF L!Hides, LStage
<1>13. ASSUME NEW c \in Request, L!LinkLost(c) \/ L!Flushed(c) PROVE LInv'
  BY <1>13, LBecomes DEF L!LinkLost, L!Flushed
<1>14. ASSUME NEW c \in Request, L!Post(c) \/ L!ReplyFails(c) PROVE LInv'
  BY <1>14, LBecomes DEF L!Post, L!ReplyFails, LStage
<1>15. ASSUME NEW c \in Request, L!Replied(c) PROVE LInv'
  <2> DEFINE now == [task EXCEPT ![c] = "done"]
  <2>1. L!Mine(c) /\ L!Interrupted(now) /\ UNCHANGED <<load, loop>>
    BY <1>15 DEF L!Replied
  <2>2. /\ link' = [link EXCEPT ![c] = L!Shut(c)] /\ L!Shut(c) \in {"none", "closing", "lost"}
    BY <1>15 DEF L!Replied, L!Shut
  <2>3. /\ now \in [Request -> LStage]
        /\ link' \in [Request -> {"none", "open", "closing", "lost"}]
        /\ \A e \in Request : link'[e] = "open" => now[e] \notin {"none", "done"}
    BY <2>2 DEF LStage
  <2>4. L!Running
    BY <2>1 DEF L!Mine
  <2> HIDE DEF now
  <2> QED BY <2>1, <2>3, <2>4, LInterrupted
<1>16. CASE UNCHANGED L!vars
  BY <1>16 DEF L!vars, L!request
<1> QED
  BY <1>1, <1>2, <1>3, <1>4, <1>5, <1>6, <1>7, <1>8, <1>9, <1>10, <1>11, <1>12, <1>13, <1>14,
     <1>15, <1>16 DEF L!Next

(* When an interrupt is answered, every connection that is still open has  *)
(* a task that was told, for any number of listeners, requests and loads:  *)
(* also one that was accepted just before, whose handler has no task yet.  *)
(* Only a handler that hid what it was told can keep main() from ending.   *)
(* (app.py, main, _shutdown_servers)                                       *)
THEOREM ShutdownAlwaysReachesAll == L!Spec => []ShutdownReachesAll
<1>1. LInv => ShutdownReachesAll
  BY DEF LInv, ShutdownReachesAll
<1> QED BY LInit, LStep, <1>1, PTL DEF L!Spec
=============================================================================
