------------------------ MODULE ReverseTunnelProofs ------------------------
(***************************************************************************)
(* ReverseTunnel for any number of loops, connections, requests and health *)
(* checks: its type, and who owns an open connection at either end.        *)
(***************************************************************************)
EXTENDS ReverseTunnel, TLAPS

(* Nobody has used the connection since it was dialed.                     *)
Fresh(c) == given[c] = "none" /\ word[c] = "none" /\ handler[c] = "none"

Elements(s) == {s[i] : i \in 1..Len(s)}
Distinct(s) == \A i, j \in 1..Len(s) : s[i] = s[j] => i = j

Shape ==
  /\ TypeOK
  /\ \A t \in Taker : held[t] # None <=> taker[t] \in {"settling", "using"}

(* The exit: a loop is alone on its connection, which is open, tracked and *)
(* not yet with a handler.                                                 *)
LoopOwns ==
  /\ \A w \in Worker : dialed[w] # None =>
       /\ exitW[dialed[w]] = "open" /\ dialed[w] \in writers
       /\ handler[dialed[w]] = "none" /\ ~closed
  /\ \A v, w \in Worker : dialed[v] = dialed[w] /\ dialed[v] # None => v = w

(* The hub: a connection is fresh until it is given, and it is given only  *)
(* once.                                                                   *)
FreshUntilGiven ==
  /\ \A c \in Conn : hubW[c] = "auth" => Fresh(c) /\ c \notin Queued \cup Held
  /\ \A c \in Queued : Fresh(c)
  /\ \A t \in Taker : taker[t] = "settling" => Fresh(held[t])
  /\ \A c \in Conn : word[c] = "data" \/ handler[c] # "none" => given[c] = "user"

ExitInv == LoopOwns /\ ExitOpenIsOwned
HubInv  == FreshUntilGiven /\ HubOpenIsOwned

-----------------------------------------------------------------------------
(* Elements of a queue after a put and after a get.                        *)
LEMMA Appended ==
  ASSUME NEW q \in Seq(Conn), NEW c \in Conn
  PROVE  /\ Elements(Append(q, c)) = Elements(q) \cup {c}
         /\ Distinct(q) /\ c \notin Elements(q) => Distinct(Append(q, c))
<1>1. Append(q, c) \in Seq(Conn) /\ Len(Append(q, c)) = Len(q) + 1 /\ Len(q) \in Nat
  OBVIOUS
<1>2. \A i \in 1..Len(q) : Append(q, c)[i] = q[i]
  OBVIOUS
<1>3. Append(q, c)[Len(q) + 1] = c
  OBVIOUS
<1> QED BY <1>1, <1>2, <1>3 DEF Distinct, Elements

LEMMA Popped ==
  ASSUME NEW q \in Seq(Conn), q # <<>>, Distinct(q)
  PROVE  /\ Head(q) \in Elements(q) /\ Head(q) \in Conn /\ Distinct(Tail(q))
         /\ Elements(Tail(q)) = Elements(q) \ {Head(q)}
<1>1. Len(q) \in Nat /\ Len(q) >= 1 /\ Len(Tail(q)) = Len(q) - 1 /\ Tail(q) \in Seq(Conn)
  OBVIOUS
<1>2. Head(q) = q[1]
  OBVIOUS
<1>3. \A i \in 1..Len(Tail(q)) : Tail(q)[i] = q[i + 1]
  OBVIOUS
<1>4. Distinct(Tail(q))
  BY <1>1, <1>3 DEF Distinct
<1>5. ASSUME NEW x \in Elements(q), x # Head(q) PROVE x \in Elements(Tail(q))
  <2>1. PICK i \in 1..Len(q) : q[i] = x
    BY DEF Elements
  <2>2. i # 1 /\ i - 1 \in 1..Len(Tail(q))
    BY <2>1, <1>1, <1>2, <1>5
  <2>3. i \in Int /\ (i - 1) + 1 = i
    BY <2>1, <1>1
  <2>4. Tail(q)[i - 1] = q[(i - 1) + 1]
    BY <2>2, <1>3
  <2> QED BY <2>1, <2>2, <2>3, <2>4 DEF Elements
<1>6. ASSUME NEW x \in Elements(Tail(q)) PROVE x \in Elements(q) /\ x # Head(q)
  <2>1. PICK i \in 1..Len(Tail(q)) : Tail(q)[i] = x
    BY DEF Elements
  <2>2. q[i + 1] = x /\ i + 1 \in 1..Len(q) /\ i + 1 # 1
    BY <2>1, <1>1, <1>3
  <2>3. 1 \in 1..Len(q) /\ q[i + 1] # q[1]
    BY <2>2, <1>1 DEF Distinct
  <2> QED BY <2>2, <2>3, <1>2 DEF Elements
<1>7. Head(q) \in Elements(q) /\ Head(q) \in Conn
  BY <1>1, <1>2 DEF Elements
<1> QED BY <1>4, <1>5, <1>6, <1>7
-----------------------------------------------------------------------------
WatcherState == {"none", "new", "watching", "cancelled", "skipping", "done"}

LEMMA AfterCancelState == \A st \in WatcherState : AfterCancel(st) \in WatcherState
<1> SUFFICES ASSUME NEW st \in WatcherState PROVE AfterCancel(st) \in WatcherState
  OBVIOUS
<1>1. CASE st = "new"
  BY <1>1 DEF AfterCancel, WatcherState
<1>2. CASE st = "watching"
  BY <1>2 DEF AfterCancel, WatcherState
<1>3. CASE st \notin {"new", "watching"}
  BY <1>3 DEF AfterCancel, WatcherState
<1> QED BY <1>1, <1>2, <1>3

(* The types of the exit, of the hub and of the callers: a step that       *)
(* leaves one side alone keeps its part.                                   *)
ExitTypes ==
  /\ closed \in BOOLEAN
  /\ worker \in [Worker -> {"dialing", "greeting", "sleeping", "stopped"}]
  /\ dialed \in [Worker -> Conn \cup {None}]
  /\ \A w \in Worker : dialed[w] # None <=> worker[w] = "greeting"
  /\ writers \subseteq Conn
  /\ handler \in [Conn -> {"none", "scheduled", "running", "ended", "skipped"}]
  /\ exitW \in [Conn -> {"none", "open", "closed"}]
HubTypes ==
  /\ hubUp \in BOOLEAN /\ word \in [Conn -> {"none", "zero", "data"}]
  /\ hubW \in [Conn -> {"none", "auth", "open", "closed", "abandoned"}]
  /\ eof \in [Conn -> BOOLEAN] /\ watcher \in [Conn -> WatcherState]
TakeTypes ==
  /\ taker \in [Taker -> {"idle", "getting", "settling", "using"}]
  /\ held \in [Taker -> Conn \cup {None}]
  /\ \A t \in Taker : held[t] # None <=> taker[t] \in {"settling", "using"}
  /\ asked \subseteq Taker /\ given \in [Conn -> {"none", "user", "probe"}]

(* The parts make up the shape, before a step and after it.                *)
LEMMA ShapeParts ==
  /\ Shape <=> ExitTypes /\ HubTypes /\ TakeTypes /\ queue \in Seq(Conn)
  /\ Shape' <=> ExitTypes' /\ HubTypes' /\ TakeTypes' /\ queue' \in Seq(Conn)
BY DEF Shape, TypeOK, ExitTypes, HubTypes, TakeTypes, WatcherState

(* What the end of wait_open_connection does to the types.                 *)
LEMMA CheckedShape ==
  ASSUME Shape, NEW t \in Taker, NEW c \in Conn, Checked(t, c),
         UNCHANGED <<exit, hubUp, eof, watcher>>, queue' \in Seq(Conn)
  PROVE  Shape'
<1>1. t \in User \/ t \in Probe
  BY DEF Taker
<1>2. /\ given' \in [Conn -> {"none", "user", "probe"}] /\ asked' \subseteq Taker
      /\ word' \in [Conn -> {"none", "zero", "data"}]
      /\ hubW' \in [Conn -> {"none", "auth", "open", "closed", "abandoned"}]
  <2>1. /\ given \in [Conn -> {"none", "user", "probe"}] /\ asked \subseteq Taker
        /\ word \in [Conn -> {"none", "zero", "data"}]
        /\ hubW \in [Conn -> {"none", "auth", "open", "closed", "abandoned"}]
    BY DEF Shape, TypeOK
  <2>2. given' = [given EXCEPT ![c] = "user"] \/ given' = [given EXCEPT ![c] = "probe"] \/ given' = given
    BY DEF Checked, Give
  <2>3. asked' = asked \/ asked' = asked \ {t}
    BY DEF Checked, Give
  <2>4. (\E b \in FirstByte : word' = [word EXCEPT ![c] = b]) \/ word' = [word EXCEPT ![c] = "zero"] \/ word' = word
    BY DEF Checked, Give
  <2>5. hubW' = hubW \/ hubW' = [hubW EXCEPT ![c] = "closed"]
    BY DEF Checked, Give
  <2>6. word' \in [Conn -> {"none", "zero", "data"}]
    BY <2>1, <2>4, TakerAssumption
  <2> QED BY <2>1, <2>2, <2>3, <2>5, <2>6
<1>3. \/ taker' = [taker EXCEPT ![t] = "using"] /\ held' = [held EXCEPT ![t] = c]
      \/ taker' = [taker EXCEPT ![t] = "idle"] /\ held' = [held EXCEPT ![t] = None]
      \/ taker' = [taker EXCEPT ![t] = "getting"] /\ held' = [held EXCEPT ![t] = None]
  BY DEF Checked, Give
<1>3a. TakeTypes
  BY ShapeParts
<1>4. /\ taker' \in [Taker -> {"idle", "getting", "settling", "using"}]
      /\ held' \in [Taker -> Conn \cup {None}]
  <2>1. /\ taker \in [Taker -> {"idle", "getting", "settling", "using"}]
        /\ held \in [Taker -> Conn \cup {None}]
    BY <1>3a DEF TakeTypes
  <2> QED BY <1>3, <2>1
<1>5. \A s \in Taker : held'[s] # None <=> taker'[s] \in {"settling", "using"}
  BY <1>3, <1>3a, TakerAssumption DEF TakeTypes
<1>6. ExitTypes'
  BY ShapeParts DEF ExitTypes, exit
<1>7. HubTypes'
  BY <1>2, ShapeParts DEF HubTypes
<1>8. TakeTypes'
  BY <1>2, <1>4, <1>5 DEF TakeTypes
<1> QED BY <1>6, <1>7, <1>8, ShapeParts

LEMMA ShapeInductive == Shape /\ [Next]_vars => Shape'
<1> SUFFICES ASSUME Shape, [Next]_vars PROVE Shape'
  OBVIOUS
<1> USE TakerAssumption DEF Shape, TypeOK
<1>1. ASSUME NEW w \in Worker, NEW c \in Conn, Dialed(w, c) PROVE Shape'
  BY <1>1 DEF Dialed, Free
<1>2. ASSUME NEW w \in Worker, DialFails(w) \/ Wakes(w) PROVE Shape'
  BY <1>2 DEF DialFails, Wakes, hub, take
<1>3. ASSUME NEW w \in Worker, HandlerSpawned(w) PROVE Shape'
  BY <1>3 DEF HandlerSpawned, Redial, hub, take
<1>4. ASSUME NEW w \in Worker, Released(w) PROVE Shape'
  BY <1>4 DEF Released, Redial, hub, take
<1>5. ASSUME NEW w \in Worker, GreetBreaks(w) PROVE Shape'
  BY <1>5 DEF GreetBreaks, hub, take
<1>6. ASSUME NEW c \in Conn, HandlerStarts(c) \/ HandlerEnds(c) PROVE Shape'
  <2>1. /\ ExitTypes /\ HubTypes /\ TakeTypes /\ queue \in Seq(Conn)
    BY ShapeParts
  <2>2. /\ UNCHANGED <<closed, worker, dialed, writers, word, hubUp, hub, take>>
        /\ \E st \in {"running", "ended"} : handler' = [handler EXCEPT ![c] = st]
        /\ exitW' = exitW \/ exitW' = [exitW EXCEPT ![c] = "closed"]
    BY <1>6 DEF HandlerStarts, HandlerEnds
  <2> HIDE DEF Shape, TypeOK
  <2>3. ExitTypes'
    BY <2>1, <2>2 DEF ExitTypes
  <2>4. HubTypes' /\ TakeTypes' /\ queue' \in Seq(Conn)
    BY <2>1, <2>2 DEF HubTypes, TakeTypes, hub, take
  <2> QED BY <2>3, <2>4, ShapeParts
<1>7. ASSUME NEW c \in Conn, Enqueue(c) PROVE Shape'
  <2>1. queue' \in Seq(Conn)
    BY <1>7 DEF Enqueue
  <2> QED BY <1>7, <2>1 DEF Enqueue, exit, take
<1>8. ASSUME NEW c \in Conn, Abandon(c) \/ EofArrives(c) \/ WatcherStarts(c) PROVE Shape'
  <2>1. CASE Abandon(c)
    BY <2>1 DEF Abandon, exit, take
  <2>2. CASE EofArrives(c)
    <3>1. eof' = [eof EXCEPT ![c] = TRUE] /\ UNCHANGED <<exit, word, hubUp, hubW, queue, watcher, take>>
      BY <2>2 DEF EofArrives
    <3> QED BY <3>1 DEF exit, take
  <2>3. CASE WatcherStarts(c)
    BY <2>3 DEF WatcherStarts, exit, take
  <2> QED BY <1>8, <2>1, <2>2, <2>3
<1>9. ASSUME NEW c \in Conn, WatcherEnds(c) PROVE Shape'
  <2>1. /\ watcher' = [watcher EXCEPT ![c] = "done"]
        /\ hubW' = [hubW EXCEPT ![c] = "closed"] \/ hubW' = [hubW EXCEPT ![c] = hubW[c]]
    <3>1. CASE watcher[c] # "skipping" /\ eof[c] /\ hubW[c] = "open"
      BY <1>9, <3>1 DEF WatcherEnds
    <3>2. CASE ~(watcher[c] # "skipping" /\ eof[c] /\ hubW[c] = "open")
      BY <1>9, <3>2 DEF WatcherEnds
    <3> QED BY <3>1, <3>2
  <2>2. UNCHANGED <<exit, word, hubUp, eof, queue, take>>
    BY <1>9 DEF WatcherEnds
  <2> QED BY <2>1, <2>2 DEF exit, take
<1>10. ASSUME NEW t \in Taker, Ask(t) \/ TimesOut(t) PROVE Shape'
  <2>1. CASE Ask(t)
    BY <2>1 DEF Ask, exit, hub
  <2>2. CASE TimesOut(t)
    BY <2>2 DEF TimesOut, exit, hub
  <2> QED BY <1>10, <2>1, <2>2
<1>11. ASSUME NEW t \in Taker, Take(t) PROVE Shape'
  <2>1. Head(queue) \in Conn /\ queue' \in Seq(Conn)
    BY <1>11 DEF Take
  <2>2. CASE watcher[Head(queue)] = "done"
    BY <1>11, <2>1, <2>2, CheckedShape DEF Take
  <2>3. CASE watcher[Head(queue)] # "done"
    <3>1. watcher \in [Conn -> WatcherState]
      BY DEF WatcherState
    <3>2. watcher' = [watcher EXCEPT ![Head(queue)] = AfterCancel(watcher[Head(queue)])]
      BY <1>11, <2>3 DEF Take
    <3>3. AfterCancel(watcher[Head(queue)]) \in WatcherState
      BY <3>1, <2>1, AfterCancelState
    <3>4. watcher' \in [Conn -> WatcherState]
      BY <3>1, <3>2, <3>3
    <3>5. /\ taker' = [taker EXCEPT ![t] = "settling"]
          /\ held' = [held EXCEPT ![t] = Head(queue)]
      BY <1>11, <2>3 DEF Take
    <3>6. /\ taker' \in [Taker -> {"idle", "getting", "settling", "using"}]
          /\ held' \in [Taker -> Conn \cup {None}]
      BY <3>5, <2>1
    <3>7. \A s \in Taker : held'[s] # None <=> taker'[s] \in {"settling", "using"}
      BY <3>5, <2>1
    <3>8. UNCHANGED <<exit, word, hubUp, hubW, eof, asked, given>>
      BY <1>11, <2>3 DEF Take
    <3> HIDE DEF AfterCancel
    <3> QED BY <2>1, <3>4, <3>6, <3>7, <3>8 DEF exit, WatcherState
  <2> QED BY <2>2, <2>3
<1>12. ASSUME NEW t \in Taker, Settle(t) PROVE Shape'
  <2>1. held[t] \in Conn
    BY <1>12 DEF Settle
  <2>2. Checked(t, held[t]) /\ UNCHANGED <<exit, hubUp, eof, queue, watcher>>
    BY <1>12 DEF Settle
  <2>3. queue' \in Seq(Conn)
    BY <2>2
  <2> HIDE DEF Shape, TypeOK
  <2> QED BY <2>1, <2>2, <2>3, CheckedShape
<1>13. ASSUME NEW t \in Taker, Cancel(t) \/ UseEnds(t) PROVE Shape'
  <2>1. CASE Cancel(t)
    BY <2>1 DEF Cancel, exit, hub
  <2>2. CASE UseEnds(t)
    BY <2>2 DEF UseEnds, exit, hub
  <2> QED BY <1>13, <2>1, <2>2
<1>14. CASE Close
  BY <1>14 DEF Close, hub, take
<1>15. CASE HubCloses
  <2>1. watcher' \in [Conn -> WatcherState]
    BY <1>15, AfterCancelState DEF HubCloses, WatcherState
  <2> QED BY <1>15, <2>1 DEF HubCloses, exit, take, WatcherState
<1>16. CASE Flip
  BY <1>16 DEF Flip, exit, hub, take
<1>17. CASE UNCHANGED vars
  BY <1>17 DEF vars, exit, hub, take
<1> QED
  BY <1>1, <1>2, <1>3, <1>4, <1>5, <1>6, <1>7, <1>8, <1>9, <1>10, <1>11, <1>12, <1>13,
     <1>14, <1>15, <1>16, <1>17 DEF Next, Loop

-----------------------------------------------------------------------------
LEMMA ExitKept ==
  ASSUME ExitInv, UNCHANGED <<closed, dialed, writers, handler, exitW>>
  PROVE  ExitInv'
BY DEF ExitInv, LoopOwns, ExitOpenIsOwned

LEMMA ExitInductive == Shape /\ ExitInv /\ [Next]_vars => ExitInv'
<1> SUFFICES ASSUME Shape, ExitInv, [Next]_vars PROVE ExitInv'
  OBVIOUS
<1>0. /\ dialed \in [Worker -> Conn \cup {None}] /\ writers \subseteq Conn
      /\ \A w \in Worker : dialed[w] # None <=> worker[w] = "greeting"
      /\ handler \in [Conn -> {"none", "scheduled", "running", "ended", "skipped"}]
      /\ exitW \in [Conn -> {"none", "open", "closed"}]
  BY DEF Shape, TypeOK
<1>1. ASSUME NEW w \in Worker, NEW c \in Conn, Dialed(w, c) PROVE ExitInv'
  <2>1. /\ ~closed /\ UNCHANGED closed /\ exitW[c] # "open" /\ dialed[w] = None
        /\ dialed' = [dialed EXCEPT ![w] = c] /\ writers' = writers \cup {c}
        /\ exitW' = [exitW EXCEPT ![c] = "open"] /\ handler' = [handler EXCEPT ![c] = "none"]
    BY <1>0, <1>1 DEF Dialed, Free
  <2>2. \A v \in Worker : dialed[v] # c
    BY <2>1, <1>0, TakerAssumption DEF ExitInv, LoopOwns
  <2>3. LoopOwns'
    BY <2>1, <2>2, <1>0, TakerAssumption DEF ExitInv, LoopOwns
  <2>4. ExitOpenIsOwned'
    <3> SUFFICES ASSUME NEW d \in Conn, exitW'[d] = "open"
                 PROVE  \/ \E v \in Worker : dialed'[v] = d /\ d \in writers' /\ ~closed'
                        \/ handler'[d] \in {"scheduled", "running", "skipped"}
      BY DEF ExitOpenIsOwned
    <3>1. CASE d = c
      BY <3>1, <2>1, <1>0
    <3>2. CASE d # c
      <4>1. exitW[d] = "open" /\ handler'[d] = handler[d]
        BY <3>2, <2>1, <1>0
      <4>2. ASSUME NEW v \in Worker, dialed[v] = d, d \in writers
            PROVE  dialed'[v] = d /\ d \in writers' /\ ~closed'
        BY <4>2, <2>1, <1>0, TakerAssumption
      <4> QED BY <4>1, <4>2 DEF ExitInv, ExitOpenIsOwned
    <3> QED BY <3>1, <3>2
  <2> QED BY <2>3, <2>4 DEF ExitInv
<1>2. ASSUME NEW w \in Worker, DialFails(w) \/ Wakes(w) PROVE ExitInv'
  BY <1>2, ExitKept DEF DialFails, Wakes
<1>3. ASSUME NEW w \in Worker, HandlerSpawned(w) \/ Released(w) \/ GreetBreaks(w) PROVE ExitInv'
  <2> DEFINE c == dialed[w]
  <2>1. /\ c \in Conn /\ c # None /\ UNCHANGED closed
        /\ dialed' = [dialed EXCEPT ![w] = None]
        /\ writers' = writers \/ writers' = writers \ {c}
        /\ \/ exitW' = exitW /\ handler' = [handler EXCEPT ![c] = "scheduled"]
           \/ exitW' = [exitW EXCEPT ![c] = "closed"] /\ handler' = handler
    BY <1>0, <1>3 DEF HandlerSpawned, Released, GreetBreaks, Redial
  <2>2. \A v \in Worker \ {w} : dialed'[v] = dialed[v] /\ dialed[v] # c
    BY <2>1, <1>0 DEF ExitInv, LoopOwns
  <2>3. dialed'[w] = None
    BY <2>1, <1>0
  <2> HIDE DEF c
  <2>4. ASSUME NEW d \in Conn, d # c
        PROVE  exitW'[d] = exitW[d] /\ handler'[d] = handler[d] /\ (d \in writers => d \in writers')
    BY <2>1, <2>4, <1>0
  <2>5. LoopOwns'
    <3>1. ASSUME NEW v \in Worker, dialed'[v] # None
          PROVE  exitW'[dialed'[v]] = "open" /\ dialed'[v] \in writers'
                 /\ handler'[dialed'[v]] = "none" /\ ~closed'
      <4>1. v # w /\ dialed'[v] = dialed[v] /\ dialed[v] \in Conn /\ dialed[v] # c
        BY <3>1, <2>2, <2>3, <1>0
      <4>2. exitW[dialed[v]] = "open" /\ dialed[v] \in writers /\ handler[dialed[v]] = "none" /\ ~closed
        BY <4>1, <3>1 DEF ExitInv, LoopOwns
      <4> QED BY <4>1, <4>2, <2>4, <2>1
    <3>2. ASSUME NEW u \in Worker, NEW v \in Worker, dialed'[u] = dialed'[v], dialed'[v] # None
          PROVE  u = v
      BY <3>2, <2>2, <2>3 DEF ExitInv, LoopOwns
    <3> QED BY <3>1, <3>2 DEF LoopOwns
  <2>6. ASSUME NEW d \in Conn, exitW'[d] = "open"
        PROVE  \/ \E v \in Worker : dialed'[v] = d /\ d \in writers' /\ ~closed'
               \/ handler'[d] \in {"scheduled", "running", "skipped"}
    <3>1. CASE d = c
      BY <3>1, <2>1, <2>6, <1>0
    <3>2. CASE d # c
      <4>1. exitW[d] = "open"
        BY <3>2, <2>4, <2>6
      <4>2. CASE handler[d] \in {"scheduled", "running", "skipped"}
        BY <4>2, <3>2, <2>4
      <4>3. CASE \E v \in Worker : dialed[v] = d /\ d \in writers /\ ~closed
        <5>1. PICK v \in Worker : dialed[v] = d /\ d \in writers /\ ~closed
          BY <4>3
        <5>2. v # w
          BY <5>1, <3>2 DEF c
        <5> QED BY <5>1, <5>2, <2>1, <2>2, <2>4, <3>2
      <4> QED BY <4>1, <4>2, <4>3 DEF ExitInv, ExitOpenIsOwned
    <3> QED BY <3>1, <3>2
  <2> QED BY <2>5, <2>6 DEF ExitInv, ExitOpenIsOwned
<1>4. ASSUME NEW c \in Conn, HandlerStarts(c) PROVE ExitInv'
  <2>1. /\ handler[c] = "scheduled" /\ handler' = [handler EXCEPT ![c] = "running"]
        /\ UNCHANGED <<closed, dialed, writers, exitW>>
    BY <1>4 DEF HandlerStarts
  <2> QED BY <2>1, <1>0 DEF ExitInv, LoopOwns, ExitOpenIsOwned
<1>5. ASSUME NEW c \in Conn, HandlerEnds(c) PROVE ExitInv'
  <2>1. /\ handler[c] = "running" /\ handler' = [handler EXCEPT ![c] = "ended"]
        /\ exitW' = [exitW EXCEPT ![c] = "closed"] /\ UNCHANGED <<closed, dialed, writers>>
    BY <1>5 DEF HandlerEnds
  <2>2. \A w \in Worker : dialed[w] # c
    BY <2>1, TakerAssumption DEF ExitInv, LoopOwns
  <2> QED BY <2>1, <2>2, <1>0 DEF ExitInv, LoopOwns, ExitOpenIsOwned
<1>6. CASE Close
  <2>1. /\ dialed' = [w \in Worker |-> None]
        /\ exitW' = [c \in Conn |-> IF c \in writers THEN "closed" ELSE exitW[c]]
        /\ handler' = [c \in Conn |-> IF handler[c] = "scheduled" THEN "skipped" ELSE handler[c]]
    BY <1>6 DEF Close
  <2>2. LoopOwns'
    BY <2>1 DEF LoopOwns
  <2>3. ASSUME NEW d \in Conn, exitW'[d] = "open"
        PROVE  handler'[d] \in {"scheduled", "running", "skipped"}
    <3>1. d \notin writers /\ exitW[d] = "open"
      BY <2>1, <2>3
    <3>2. handler[d] \in {"scheduled", "running", "skipped"}
      BY <3>1 DEF ExitInv, ExitOpenIsOwned
    <3> QED BY <3>2, <2>1
  <2> QED BY <2>2, <2>3 DEF ExitInv, ExitOpenIsOwned
<1>7. ASSUME NEW c \in Conn, \/ Enqueue(c) \/ Abandon(c) \/ EofArrives(c)
                             \/ WatcherStarts(c) \/ WatcherEnds(c)
      PROVE  ExitInv'
  BY <1>7, ExitKept DEF Enqueue, Abandon, EofArrives, WatcherStarts, WatcherEnds, exit
<1>8. ASSUME NEW t \in Taker, \/ Ask(t) \/ Take(t) \/ Settle(t) \/ TimesOut(t)
                              \/ Cancel(t) \/ UseEnds(t)
      PROVE  ExitInv'
  BY <1>8, ExitKept DEF Ask, Take, Settle, TimesOut, Cancel, UseEnds, exit
<1>9. CASE HubCloses \/ Flip \/ UNCHANGED vars
  BY <1>9, ExitKept DEF HubCloses, Flip, vars, exit
<1> QED BY <1>1, <1>2, <1>3, <1>4, <1>5, <1>6, <1>7, <1>8, <1>9 DEF Next, Loop

-----------------------------------------------------------------------------
(* A step that leaves queue and callers alone, makes no connection the hub *)
(* had let go of open or pending, and uses none that is fresh.             *)
LEMMA HubKept ==
  ASSUME Shape, HubInv, UNCHANGED <<queue, held>>,
         \A t \in Taker : taker'[t] = "settling" => taker[t] = "settling",
         \A c \in Conn : /\ hubW'[c] \in {"auth", "open"} => hubW[c] = hubW'[c]
                         /\ Fresh(c) => Fresh(c)'
                         /\ word'[c] = "data" \/ handler'[c] # "none" => given'[c] = "user"
  PROVE  HubInv'
<1>1. Queued' = Queued /\ Held' = Held
  BY DEF Queued, Held
<1>2. Queued \subseteq Conn
  BY DEF Queued, Shape, TypeOK
<1>3. \A t \in Taker : taker[t] = "settling" => held[t] \in Conn
  BY DEF Shape, TypeOK
<1>4. FreshUntilGiven'
  BY <1>1, <1>2, <1>3 DEF HubInv, FreshUntilGiven
<1>5. HubOpenIsOwned'
  BY <1>1 DEF HubInv, HubOpenIsOwned
<1> QED BY <1>4, <1>5 DEF HubInv

(* The end of wait_open_connection, for a connection that is in the hands  *)
(* of its caller only.                                                     *)
LEMMA HubChecked ==
  ASSUME Shape, HubInv, NEW t \in Taker, NEW c \in Conn, Checked(t, c), Fresh(c),
         UNCHANGED exit, Distinct(queue)', c \notin Queued',
         Queued' \subseteq Queued, Queued \subseteq Queued' \cup {c},
         held[t] \in {None, c}, \A s \in Taker \ {t} : held[s] # c
  PROVE  HubInv'
<1>1. /\ Queued' \subseteq Conn /\ None \notin Conn /\ held \in [Taker -> Conn \cup {None}]
      /\ taker \in [Taker -> {"idle", "getting", "settling", "using"}]
      /\ hubW \in [Conn -> {"none", "auth", "open", "closed", "abandoned"}]
      /\ word \in [Conn -> {"none", "zero", "data"}]
      /\ given \in [Conn -> {"none", "user", "probe"}]
      /\ \A s \in Taker : held[s] # None <=> taker[s] \in {"settling", "using"}
  <2>1. Queued \subseteq Conn
    BY DEF Shape, TypeOK, Queued
  <2> QED BY <2>1, TakerAssumption DEF Shape, TypeOK
<1>2. /\ handler' = handler
      /\ \/ taker' = [taker EXCEPT ![t] = "using"] /\ held' = [held EXCEPT ![t] = c]
         \/ /\ taker' = [taker EXCEPT ![t] = "idle"] \/ taker' = [taker EXCEPT ![t] = "getting"]
            /\ held' = [held EXCEPT ![t] = None]
            /\ hubW' = [hubW EXCEPT ![c] = "closed"]
  BY DEF Checked, Give, exit
<1>3. hubW' = [hubW EXCEPT ![c] = "closed"] \/ hubW' = hubW
  BY DEF Checked, Give
<1>4. \/ given' = [given EXCEPT ![c] = "user"] /\ \E b \in FirstByte : word' = [word EXCEPT ![c] = b]
      \/ given' = [given EXCEPT ![c] = "probe"] /\ word' = [word EXCEPT ![c] = "zero"]
      \/ given' = given /\ word' = word
  BY DEF Checked, Give
<1>5. \A s \in Taker \ {t} : taker'[s] = taker[s] /\ held'[s] = held[s]
  BY <1>1, <1>2
<1>6. held'[t] \in {None, c} /\ taker'[t] # "settling"
  BY <1>1, <1>2
<1>7. \A d \in Conn \ {c} : /\ given'[d] = given[d] /\ word'[d] = word[d]
                            /\ hubW'[d] = hubW[d] /\ handler'[d] = handler[d]
  BY <1>1, <1>2, <1>3, <1>4
<1>8. \A d \in Conn : Held' \cap {d} # {} => d = c \/ d \in Held
  BY <1>5, <1>6, <1>1 DEF Held
<1>9. FreshUntilGiven'
  <2>1. hubW'[c] # "auth"
    <3>1. hubW[c] # "auth" \/ hubW'[c] = "closed"
      BY <1>1 DEF Checked, Give
    <3> QED BY <3>1, <1>1, <1>3
  <2>2. \A d \in Conn : hubW'[d] = "auth" => Fresh(d)' /\ d \notin Queued' \cup Held'
    BY <2>1, <1>7, <1>8 DEF HubInv, FreshUntilGiven, Fresh
  <2>3. \A d \in Queued' : Fresh(d)'
    BY <1>7, <1>1 DEF HubInv, FreshUntilGiven, Fresh
  <2>4. ASSUME NEW s \in Taker, taker'[s] = "settling" PROVE Fresh(held[s])'
    <3>1. s # t /\ taker[s] = "settling" /\ held'[s] = held[s]
      BY <1>5, <1>6, <2>4
    <3>2. held[s] \in Conn \ {c} /\ Fresh(held[s])
      BY <3>1, <1>1 DEF HubInv, FreshUntilGiven
    <3> QED BY <3>1, <3>2, <1>7 DEF Fresh
  <2>5. \A d \in Conn : word'[d] = "data" \/ handler'[d] # "none" => given'[d] = "user"
    <3>1. handler'[c] = "none" /\ (word'[c] = "data" => given'[c] = "user")
      BY <1>1, <1>2, <1>4 DEF Fresh
    <3>2. ASSUME NEW d \in Conn \ {c}, word'[d] = "data" \/ handler'[d] # "none" PROVE given'[d] = "user"
      <4>1. word[d] = "data" \/ handler[d] # "none"
        BY <3>2, <1>7
      <4>2. given[d] = "user"
        BY <4>1 DEF HubInv, FreshUntilGiven
      <4> QED BY <4>2, <1>7
    <3> QED BY <3>1, <3>2
  <2> QED BY <2>2, <2>3, <2>4, <2>5 DEF FreshUntilGiven
<1>10. HubOpenIsOwned'
  <2>1. \A r, s \in Taker : held'[r] = held'[s] /\ held'[r] # None => r = s
    BY <1>5, <1>6 DEF HubInv, HubOpenIsOwned
  <2>2. Queued' \cap Held' = {}
    BY <1>1, <1>8 DEF HubInv, HubOpenIsOwned
  <2>3. ASSUME NEW d \in Conn, hubW'[d] = "open" PROVE d \in Queued' \cup Held'
    <3>1. CASE d = c
      <4>1. held'[t] = c
        BY <3>1, <2>3, <1>1, <1>2
      <4> QED BY <3>1, <4>1 DEF Held
    <3>2. CASE d # c
      <4>1. d \in Queued \/ \E s \in Taker : held[s] = d
        BY <3>2, <2>3, <1>7 DEF HubInv, HubOpenIsOwned, Held
      <4>2. ASSUME NEW s \in Taker, held[s] = d PROVE held'[s] = d
        BY <4>2, <3>2, <1>1, <1>5
      <4> QED BY <4>1, <4>2, <3>2 DEF Held
    <3> QED BY <3>1, <3>2
  <2> QED BY <2>1, <2>2, <2>3 DEF HubOpenIsOwned, Distinct
<1> QED BY <1>9, <1>10 DEF HubInv

LEMMA HubInductive == Shape /\ ExitInv /\ HubInv /\ [Next]_vars => HubInv'
<1> SUFFICES ASSUME Shape, ExitInv, HubInv, [Next]_vars PROVE HubInv'
  OBVIOUS
<1>0. /\ queue \in Seq(Conn) /\ Queued \subseteq Conn /\ None \notin Conn
      /\ dialed \in [Worker -> Conn \cup {None}]
      /\ \A w \in Worker : dialed[w] # None <=> worker[w] = "greeting"
      /\ handler \in [Conn -> {"none", "scheduled", "running", "ended", "skipped"}]
      /\ hubW \in [Conn -> {"none", "auth", "open", "closed", "abandoned"}]
      /\ word \in [Conn -> {"none", "zero", "data"}]
      /\ given \in [Conn -> {"none", "user", "probe"}]
      /\ taker \in [Taker -> {"idle", "getting", "settling", "using"}]
      /\ held \in [Taker -> Conn \cup {None}]
      /\ \A t \in Taker : held[t] # None <=> taker[t] \in {"settling", "using"}
  <2>1. Queued \subseteq Conn
    BY DEF Shape, TypeOK, Queued
  <2> QED BY <2>1, TakerAssumption DEF Shape, TypeOK
<1>00. \A c \in Conn : word[c] = "data" \/ handler[c] # "none" => given[c] = "user"
  BY DEF HubInv, FreshUntilGiven
<1>1. ASSUME NEW w \in Worker, NEW c \in Conn, Dialed(w, c) PROVE HubInv'
  <2>1. /\ UNCHANGED <<queue, held, taker>> /\ c \notin Queued /\ c \notin Held
        /\ hubW' = [hubW EXCEPT ![c] = "auth"] /\ handler' = [handler EXCEPT ![c] = "none"]
        /\ given' = [given EXCEPT ![c] = "none"] /\ word' = [word EXCEPT ![c] = "none"]
    BY <1>1 DEF Dialed, Free
  <2>2. Queued' = Queued /\ Held' = Held
    BY <2>1 DEF Queued, Held
  <2>3. Fresh(c)'
    BY <2>1, <1>0 DEF Fresh
  <2>4. \A d \in Conn \ {c} : /\ hubW'[d] = hubW[d] /\ handler'[d] = handler[d]
                              /\ given'[d] = given[d] /\ word'[d] = word[d]
    BY <2>1, <1>0
  <2>5. \A d \in Conn : hubW'[d] = "auth" => Fresh(d)' /\ d \notin Queued' \cup Held'
    BY <2>1, <2>2, <2>3, <2>4 DEF HubInv, FreshUntilGiven, Fresh
  <2>6. \A d \in Queued' : Fresh(d)'
    BY <2>1, <2>2, <2>4, <1>0 DEF HubInv, FreshUntilGiven, Fresh
  <2>7. ASSUME NEW s \in Taker, taker'[s] = "settling" PROVE Fresh(held[s])'
    <3>1. held[s] \in Conn \ {c} /\ Fresh(held[s])
      BY <2>7, <2>1, <1>0 DEF HubInv, FreshUntilGiven, Held
    <3> QED BY <3>1, <2>1, <2>4 DEF Fresh
  <2>8. ASSUME NEW d \in Conn, word'[d] = "data" \/ handler'[d] # "none" PROVE given'[d] = "user"
    <3>1. d # c
      BY <2>8, <2>3 DEF Fresh
    <3> QED BY <3>1, <2>8, <2>4, <1>00
  <2>9. FreshUntilGiven'
    BY <2>5, <2>6, <2>7, <2>8 DEF FreshUntilGiven
  <2>10. HubOpenIsOwned'
    <3>1. \A d \in Conn : hubW'[d] = "open" => hubW[d] = "open"
      BY <2>1, <1>0
    <3> QED BY <3>1, <2>1, <2>2 DEF HubInv, HubOpenIsOwned
  <2> QED BY <2>9, <2>10 DEF HubInv
<1>2. ASSUME NEW w \in Worker, DialFails(w) \/ Wakes(w) PROVE HubInv'
  BY <1>2, <1>00, HubKept DEF DialFails, Wakes, hub, take, Fresh
<1>3. ASSUME NEW w \in Worker, HandlerSpawned(w) PROVE HubInv'
  <2> DEFINE c == dialed[w]
  <2>1. /\ c \in Conn /\ word[c] = "data" /\ UNCHANGED <<hubW, queue, taker, held, given>>
        /\ word' = [word EXCEPT ![c] = "none"] /\ handler' = [handler EXCEPT ![c] = "scheduled"]
    BY <1>3, <1>0 DEF HandlerSpawned, Used, hub, take
  <2> HIDE DEF c
  <2>2. \A d \in Conn : Fresh(d) => Fresh(d)'
    BY <2>1, <1>0 DEF Fresh
  <2>3. \A d \in Conn : word'[d] = "data" \/ handler'[d] # "none" => given'[d] = "user"
    BY <2>1, <1>0, <1>00
  <2> QED BY <2>1, <2>2, <2>3, HubKept
<1>4. ASSUME NEW w \in Worker, Released(w) PROVE HubInv'
  <2>1. dialed[w] \in Conn /\ UNCHANGED <<hubW, queue, taker, held, given, handler>>
        /\ word' = [word EXCEPT ![dialed[w]] = "none"]
    BY <1>4, <1>0 DEF Released, hub, take
  <2>2. \A d \in Conn : Fresh(d) => Fresh(d)'
    BY <2>1, <1>0 DEF Fresh
  <2>3. \A d \in Conn : word'[d] = "data" \/ handler'[d] # "none" => given'[d] = "user"
    BY <2>1, <1>0, <1>00
  <2> QED BY <2>1, <2>2, <2>3, HubKept
<1>5. ASSUME NEW w \in Worker, GreetBreaks(w) PROVE HubInv'
  BY <1>5, <1>00, HubKept DEF GreetBreaks, hub, take, Fresh
<1>6. ASSUME NEW c \in Conn, HandlerStarts(c) \/ HandlerEnds(c) PROVE HubInv'
  <2>1. /\ handler[c] # "none" /\ UNCHANGED <<hubW, queue, taker, held, given, word>>
        /\ handler' = [handler EXCEPT ![c] = "running"] \/ handler' = [handler EXCEPT ![c] = "ended"]
    BY <1>6 DEF HandlerStarts, HandlerEnds, hub, take
  <2>2. \A d \in Conn : Fresh(d) => Fresh(d)'
    BY <2>1, <1>0 DEF Fresh
  <2>3. \A d \in Conn : word'[d] = "data" \/ handler'[d] # "none" => given'[d] = "user"
    BY <2>1, <1>0, <1>00
  <2> QED BY <2>1, <2>2, <2>3, HubKept
<1>7. CASE Close
  <2>1. UNCHANGED <<hubW, queue, taker, held, given, word>>
        /\ handler' = [c \in Conn |-> IF handler[c] = "scheduled" THEN "skipped" ELSE handler[c]]
    BY <1>7 DEF Close, hub, take
  <2>2. \A d \in Conn : Fresh(d) => Fresh(d)'
    BY <2>1, <1>0 DEF Fresh
  <2>3. \A d \in Conn : word'[d] = "data" \/ handler'[d] # "none" => given'[d] = "user"
    BY <2>1, <1>0, <1>00
  <2> QED BY <2>1, <2>2, <2>3, HubKept
<1>8. ASSUME NEW c \in Conn, Enqueue(c) PROVE HubInv'
  <2>1. /\ hubW[c] = "auth" /\ queue' = Append(queue, c) /\ hubW' = [hubW EXCEPT ![c] = "open"]
        /\ UNCHANGED <<taker, held, given, word, handler>>
    BY <1>8 DEF Enqueue, exit, take
  <2>2. Fresh(c) /\ c \notin Queued /\ c \notin Held
    BY <2>1 DEF HubInv, FreshUntilGiven
  <2>3. Queued' = Queued \cup {c} /\ Distinct(queue)'
    <3>1. Queued = Elements(queue) /\ Queued' = Elements(queue')
      BY DEF Queued, Elements
    <3>2. Distinct(queue)
      BY DEF HubInv, HubOpenIsOwned, Distinct
    <3> QED BY <2>1, <2>2, <3>1, <3>2, <1>0, Appended
  <2>4. Held' = Held /\ \A d \in Conn : Fresh(d)' = Fresh(d)
    BY <2>1 DEF Held, Fresh
  <2>5. FreshUntilGiven'
    BY <2>1, <2>2, <2>3, <2>4, <1>0 DEF HubInv, FreshUntilGiven
  <2>6. HubOpenIsOwned'
    BY <2>1, <2>2, <2>3, <2>4, <1>0 DEF HubInv, HubOpenIsOwned, Distinct
  <2> QED BY <2>5, <2>6 DEF HubInv
<1>9. ASSUME NEW c \in Conn, Abandon(c) \/ EofArrives(c) \/ WatcherStarts(c) PROVE HubInv'
  <2>1. /\ UNCHANGED <<queue, taker, held, given, word, handler>>
        /\ hubW' = hubW \/ hubW' = [hubW EXCEPT ![c] = "abandoned"]
    BY <1>9 DEF Abandon, EofArrives, WatcherStarts, exit, take
  <2>2. \A d \in Conn : hubW'[d] \in {"auth", "open"} => hubW[d] = hubW'[d]
    BY <2>1, <1>0
  <2> QED BY <2>1, <2>2, <1>00, HubKept DEF Fresh
<1>10. ASSUME NEW c \in Conn, WatcherEnds(c) PROVE HubInv'
  <2>1. /\ UNCHANGED <<queue, taker, held, given, word, handler>>
        /\ \E x \in {"closed", hubW[c]} : hubW' = [hubW EXCEPT ![c] = x]
    BY <1>10 DEF WatcherEnds, exit, take
  <2>2. \A d \in Conn : hubW'[d] \in {"auth", "open"} => hubW[d] = hubW'[d]
    BY <2>1, <1>0
  <2> QED BY <2>1, <2>2, <1>00, HubKept DEF Fresh
<1>11. ASSUME NEW t \in Taker, Ask(t) \/ TimesOut(t) \/ Cancel(t) PROVE HubInv'
  <2>1. /\ UNCHANGED <<queue, held, given, word, handler, hubW>>
        /\ \/ taker' = taker \/ taker' = [taker EXCEPT ![t] = "getting"]
           \/ taker' = [taker EXCEPT ![t] = "idle"]
    BY <1>11 DEF Ask, TimesOut, Cancel, exit, hub
  <2>2. \A s \in Taker : taker'[s] = "settling" => taker[s] = "settling"
    BY <2>1, <1>0
  <2> QED BY <2>1, <2>2, <1>00, HubKept DEF Fresh
<1>12. ASSUME NEW t \in Taker, Take(t) PROVE HubInv'
  <2> DEFINE c == Head(queue)
  <2>1. /\ taker[t] = "getting" /\ queue # <<>> /\ queue' = Tail(queue) /\ UNCHANGED exit
    BY <1>12 DEF Take
  <2>2. Distinct(queue)
    BY DEF HubInv, HubOpenIsOwned, Distinct
  <2>3. /\ c \in Queued /\ c \in Conn /\ Distinct(queue)' /\ Queued' = Queued \ {c}
    <3>1. Queued = Elements(queue) /\ Queued' = Elements(queue')
      BY DEF Queued, Elements
    <3> QED BY <2>1, <2>2, <3>1, <1>0, Popped
  <2>4. /\ Fresh(c) /\ held[t] = None /\ \A s \in Taker : held[s] # c
    <3> HIDE DEF c
    <3>1. Fresh(c) /\ held[t] = None
      BY <2>1, <2>3, <1>0 DEF HubInv, FreshUntilGiven
    <3>2. Queued \cap Held = {}
      BY DEF HubInv, HubOpenIsOwned
    <3> QED BY <2>3, <3>1, <3>2 DEF Held
  <2>5. CASE watcher[c] = "done"
    <3>1. Checked(t, c)
      BY <1>12, <2>5 DEF Take
    <3> QED BY <3>1, <2>1, <2>3, <2>4, HubChecked
  <2>6. CASE watcher[c] # "done"
    <3>1. /\ taker' = [taker EXCEPT ![t] = "settling"] /\ held' = [held EXCEPT ![t] = c]
          /\ UNCHANGED <<word, hubW, given, handler>>
      BY <1>12, <2>6 DEF Take, exit
    <3> HIDE DEF c
    <3>2. held'[t] = c /\ \A s \in Taker \ {t} : taker'[s] = taker[s] /\ held'[s] = held[s]
      BY <3>1, <1>0
    <3>3. Held' \subseteq Held \cup {c} /\ Held \subseteq Held' \cup {None} /\ c \in Held'
      BY <3>2, <2>4 DEF Held
    <3>4. \A d \in Conn : Fresh(d)' = Fresh(d)
      BY <3>1 DEF Fresh
    <3>5. FreshUntilGiven'
      <4>1. \A d \in Conn : hubW'[d] = "auth" => Fresh(d)' /\ d \notin Queued' \cup Held'
        BY <3>1, <3>3, <3>4, <2>3 DEF HubInv, FreshUntilGiven
      <4>2. \A d \in Queued' : Fresh(d)'
        BY <3>4, <2>3, <1>0 DEF HubInv, FreshUntilGiven
      <4>3. ASSUME NEW s \in Taker, taker'[s] = "settling"
            PROVE  given'[held'[s]] = "none" /\ word'[held'[s]] = "none" /\ handler'[held'[s]] = "none"
        <5>1. CASE s = t
          BY <5>1, <3>1, <3>2, <2>4 DEF Fresh
        <5>2. CASE s # t
          BY <5>2, <4>3, <3>1, <3>2 DEF HubInv, FreshUntilGiven, Fresh
        <5> QED BY <5>1, <5>2
      <4> QED BY <4>1, <4>2, <4>3, <3>1, <1>00 DEF FreshUntilGiven, Fresh
    <3>6. HubOpenIsOwned'
      <4>1. \A r, s \in Taker : held'[r] = held'[s] /\ held'[r] # None => r = s
        BY <3>2, <2>4 DEF HubInv, HubOpenIsOwned
      <4>2. Queued' \cap Held' = {}
        BY <3>3, <2>3, <1>0 DEF HubInv, HubOpenIsOwned
      <4>3. \A d \in Conn : hubW'[d] = "open" => d \in Queued' \cup Held'
        BY <3>1, <3>3, <2>3, <1>0 DEF HubInv, HubOpenIsOwned
      <4> QED BY <4>1, <4>2, <4>3, <2>3 DEF HubOpenIsOwned, Distinct
    <3> QED BY <3>5, <3>6 DEF HubInv
  <2> QED BY <2>5, <2>6
<1>13. ASSUME NEW t \in Taker, Settle(t) PROVE HubInv'
  <2>1. taker[t] = "settling" /\ Checked(t, held[t]) /\ UNCHANGED <<exit, queue>>
    BY <1>13 DEF Settle
  <2>2. held[t] \in Conn /\ Fresh(held[t]) /\ \A s \in Taker \ {t} : held[s] # held[t]
    BY <2>1, <1>0 DEF HubInv, FreshUntilGiven, HubOpenIsOwned
  <2>3. Queued' = Queued /\ held[t] \notin Queued /\ Distinct(queue)'
    <3>1. Queued' = Queued
      BY <2>1 DEF Queued
    <3>2. Distinct(queue) /\ Distinct(queue)'
      BY <2>1 DEF HubInv, HubOpenIsOwned, Distinct
    <3>3. held[t] \in Held /\ Held \cap Queued = {}
      BY <2>1, <2>2 DEF Held, HubInv, HubOpenIsOwned
    <3> QED BY <3>1, <3>2, <3>3
  <2> QED BY <2>1, <2>2, <2>3, HubChecked
<1>14. ASSUME NEW t \in Taker, UseEnds(t) PROVE HubInv'
  <2> DEFINE c == held[t]
  <2>1. /\ c \in Conn /\ UNCHANGED <<queue, given, word, handler>>
        /\ taker' = [taker EXCEPT ![t] = "idle"] /\ held' = [held EXCEPT ![t] = None]
        /\ hubW' = [hubW EXCEPT ![c] = "closed"]
    BY <1>14, <1>0 DEF UseEnds, exit
  <2>2. Queued' = Queued /\ \A d \in Conn : Fresh(d)' = Fresh(d)
    BY <2>1 DEF Queued, Fresh
  <2>3. /\ held'[t] = None /\ taker'[t] = "idle"
        /\ \A s \in Taker \ {t} : taker'[s] = taker[s] /\ held'[s] = held[s]
    BY <2>1, <1>0
  <2>4. Held' \subseteq Held \cup {None} /\ Held \subseteq Held' \cup {c}
    BY <2>3 DEF Held
  <2> HIDE DEF c
  <2>5. hubW'[c] = "closed" /\ \A d \in Conn \ {c} : hubW'[d] = hubW[d]
    BY <2>1, <1>0
  <2>6. FreshUntilGiven'
    <3>1. \A d \in Conn : hubW'[d] = "auth" => Fresh(d)' /\ d \notin Queued' \cup Held'
      BY <2>2, <2>4, <2>5, <1>0 DEF HubInv, FreshUntilGiven
    <3>2. \A d \in Queued' : Fresh(d)'
      BY <2>2, <1>0 DEF HubInv, FreshUntilGiven
    <3>3. ASSUME NEW s \in Taker, taker'[s] = "settling"
          PROVE  given'[held'[s]] = "none" /\ word'[held'[s]] = "none" /\ handler'[held'[s]] = "none"
      <4>1. taker[s] = "settling" /\ held'[s] = held[s]
        BY <3>3, <2>3
      <4> QED BY <4>1, <2>1 DEF HubInv, FreshUntilGiven, Fresh
    <3> QED BY <3>1, <3>2, <3>3, <2>1, <1>00 DEF FreshUntilGiven, Fresh
  <2>7. HubOpenIsOwned'
    <3>1. \A r, s \in Taker : held'[r] = held'[s] /\ held'[r] # None => r = s
      BY <2>3 DEF HubInv, HubOpenIsOwned
    <3>2. Queued' \cap Held' = {}
      BY <2>2, <2>4, <1>0 DEF HubInv, HubOpenIsOwned
    <3>3. \A d \in Conn : hubW'[d] = "open" => d \in Queued' \cup Held'
      BY <2>2, <2>4, <2>5 DEF HubInv, HubOpenIsOwned
    <3> QED BY <3>1, <3>2, <3>3, <2>1 DEF HubInv, HubOpenIsOwned
  <2> QED BY <2>6, <2>7 DEF HubInv
<1>15. CASE HubCloses \/ Flip \/ UNCHANGED vars
  BY <1>15, <1>00, HubKept DEF HubCloses, Flip, vars, exit, hub, take, Fresh
<1> QED BY <1>1, <1>2, <1>3, <1>4, <1>5, <1>6, <1>7, <1>8, <1>9, <1>10, <1>11, <1>12, <1>13,
          <1>14, <1>15 DEF Next, Loop

-----------------------------------------------------------------------------
Inv == Shape /\ ExitInv /\ HubInv

LEMMA InitInv == Init => Inv
<1> SUFFICES ASSUME Init PROVE Inv
  OBVIOUS
<1>1. Queued = {} /\ queue \in Seq(Conn)
  BY DEF Init, Queued
<1>2. Shape
  BY <1>1, TakerAssumption DEF Init, Shape, TypeOK
<1>3. ExitInv
  BY DEF Init, ExitInv, LoopOwns, ExitOpenIsOwned
<1>4. HubInv
  BY <1>1 DEF Init, HubInv, FreshUntilGiven, HubOpenIsOwned
<1> QED BY <1>2, <1>3, <1>4 DEF Inv

LEMMA Invariant == Spec => []Inv
<1>1. Inv /\ [Next]_vars => Inv'
  BY ShapeInductive, ExitInductive, HubInductive DEF Inv
<1> QED BY <1>1, InitInv, PTL DEF Spec

(* Every reachable state of both ends is type correct.                     *)
THEOREM TypeCorrect == Spec => []TypeOK
<1>1. Inv => TypeOK
  BY DEF Inv, Shape
<1> QED BY <1>1, Invariant, PTL

(* The exit never starts a handler for a health check or for a connection  *)
(* the hub has not given to a request.                                     *)
THEOREM HandlersAreForRequests == Spec => []HandlersServeRequests
<1>1. Inv => HandlersServeRequests
  BY DEF Inv, HubInv, FreshUntilGiven, HandlersServeRequests
<1> QED BY <1>1, Invariant, PTL

(* No authenticated connection is lost or handed out twice at the hub.     *)
THEOREM HubAlwaysOwns == Spec => []HubOpenIsOwned
<1>1. Inv => HubOpenIsOwned
  BY DEF Inv, HubInv
<1> QED BY <1>1, Invariant, PTL

(* No connection of the exit is open without somebody to close it.         *)
THEOREM ExitAlwaysOwns == Spec => []ExitOpenIsOwned
<1>1. Inv => ExitOpenIsOwned
  BY DEF Inv, ExitInv
<1> QED BY <1>1, Invariant, PTL
=============================================================================
