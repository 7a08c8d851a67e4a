------------------------- MODULE StreamProxyProofs -------------------------
(***************************************************************************)
(* Proofs about the TCP service, for any number of clients and remotes,    *)
(* any rules and any of the four scheduling algorithms.                    *)
(***************************************************************************)
EXTENDS StreamProxy, FiniteSetTheorems, TLAPS

N == Cardinality(Remote)

LEMMA RemoteCount == N \in Nat
BY RemoteAssumption, FS_CardinalityType DEF N

-----------------------------------------------------------------------------
(* Types, with what the stage of a handler says of its other variables.    *)

Busy == {"opening", "preparing", "relaying", "closing"}

(* How the stage, the channels, the chosen remote and the writers of one   *)
(* client agree.                                                           *)
Lifecycle(c) ==
  /\ pc[c] \in Busy => via[c] \in Upstream
  /\ pc[c] \in {"accepting", "local", "opening"} => remoteW[c] = "none"
  /\ pc[c] \notin {"relaying", "closing"} => \A d \in Dir : chan[c][d] = "none"
  /\ pc[c] = "closing" => abrupt[c]
  /\ chan[c]["out"] = "ended" => remoteW[c] = "closed"
  /\ chan[c]["out"] = "skipped" => pc[c] = "closing"

TInv ==
  /\ TypeOK
  /\ \A c \in Client : Lifecycle(c)
  /\ checker.st = "probing" => checker.at \in Remote

(* The rotation of a list keeps its length and its members' type.          *)
LEMMA RotatedType ==
  ASSUME NEW n \in Nat, NEW order \in [1..n -> Remote], NEW k \in 1..n
  PROVE  MoveToEnd(order, k) \in [1..n -> Remote]
<1>1. Len(order) = n
  OBVIOUS
<1> QED BY <1>1 DEF MoveToEnd

(* A choice of schedule() is a position of an eligible remote.             *)
LEMMA ChoiceIsEligible ==
  ASSUME NEW alg, NEW order, NEW S, NEW load, alg \in Algorithms,
         NEW k \in Choices(alg, order, S, load)
  PROVE  k \in S
BY DEF Choices, Firsts, LeastLoaded, Algorithms

(* Where the health check goes next is well typed.                         *)
LEMMA NextProbeType ==
  ASSUME NEW n \in Nat, rserver \in [1..n -> Remote],
         NEW i \in 0..n, NEW p \in NextProbe(i)
  PROVE  /\ p \in [st : {"asleep", "probing", "dead"}, pos : 0..n, at : Remote \cup {None}]
         /\ p.st = "probing" => p.at \in Remote
<1>1. Len(rserver) = n
  OBVIOUS
<1>2. ASSUME NEW j \in 1..n, p = Probing(j) PROVE rserver[j] \in Remote
  OBVIOUS
<1> QED BY <1>1, <1>2 DEF NextProbe, Probing, Asleep, Firsts

(* A channel that ends leaves the stage of its handler and its channels    *)
(* agreed, whether or not its exception breaks the relay.                  *)
LEMMA ChannelEndsTyped ==
  ASSUME TInv, NEW c \in Client, NEW d \in Dir, NEW b \in BOOLEAN, ChannelEnds(c, d, b)
  PROVE  TInv'
<1>1. /\ chan[c][d] = "running"
      /\ chan' = [chan EXCEPT ![c][d] = "ended"]
      /\ \/ connections' = connections
         \/ connections' = [connections EXCEPT ![via[c]] = connections[via[c]] - 1]
      /\ \/ d = "out" /\ remoteW' = [remoteW EXCEPT ![c] = "closed"] /\ clientW' = clientW
         \/ d = "in" /\ clientW' = [clientW EXCEPT ![c] = "closed"] /\ remoteW' = remoteW
      /\ \/ pc' = [pc EXCEPT ![c] = "closing"] /\ abrupt' = [abrupt EXCEPT ![c] = TRUE]
         \/ pc' = pc /\ abrupt' = abrupt
  BY DEF ChannelEnds, Dir
<1>2. UNCHANGED <<via, checker, algorithm, rserver, alive, up, passed>>
  BY DEF ChannelEnds
<1>3. /\ pc \in [Client -> PC] /\ abrupt \in [Client -> BOOLEAN]
      /\ chan \in [Client -> [Dir -> Chan]] /\ connections \in [Upstream -> Int]
      /\ clientW \in [Client -> {"none", "open", "closed"}]
      /\ remoteW \in [Client -> {"none", "open", "closed"}]
  BY DEF TInv, TypeOK
<1>4. \A x \in Client : Lifecycle(x)
  BY DEF TInv
<1>5. "closing" \in PC /\ "ended" \in Chan /\ "closing" \in Busy
  BY DEF PC, Chan, Busy
<1>6. pc[c] \in {"relaying", "closing"} /\ via[c] \in Upstream
  BY <1>1, <1>3, <1>4 DEF Lifecycle, Busy
<1>7. TypeOK'
  <2>1. pc' \in [Client -> PC] /\ abrupt' \in [Client -> BOOLEAN]
    <3>1. pc \in [Client -> PC] /\ abrupt \in [Client -> BOOLEAN]
      BY <1>3
    <3>2. \/ pc' = [pc EXCEPT ![c] = "closing"] /\ abrupt' = [abrupt EXCEPT ![c] = TRUE]
          \/ pc' = pc /\ abrupt' = abrupt
      BY <1>1
    <3> QED BY <3>1, <3>2, <1>5
  <2>2. chan' \in [Client -> [Dir -> Chan]]
    BY <1>1, <1>3, <1>5
  <2>3. connections' \in [Upstream -> Int]
    BY <1>1, <1>3, <1>6
  <2>4. /\ clientW' \in [Client -> {"none", "open", "closed"}]
        /\ remoteW' \in [Client -> {"none", "open", "closed"}]
    BY <1>1, <1>3
  <2> QED BY <2>1, <2>2, <2>3, <2>4, <1>2 DEF TInv, TypeOK, Upstream
<1>8. ASSUME NEW x \in Client, x # c PROVE Lifecycle(x)'
  <2>1. /\ pc'[x] = pc[x] /\ abrupt'[x] = abrupt[x] /\ via'[x] = via[x]
        /\ chan'[x] = chan[x] /\ remoteW'[x] = remoteW[x]
    BY <1>1, <1>2, <1>3, <1>8
  <2> QED BY <2>1, <1>4 DEF Lifecycle, Upstream
<1>9. Lifecycle(c)'
  <2>1. chan'[c] = [chan[c] EXCEPT ![d] = "ended"] /\ chan[c] \in [Dir -> Chan]
    BY <1>1, <1>3
  <2>2. /\ pc'[c] \in {"relaying", "closing"} /\ via'[c] = via[c]
        /\ pc'[c] = "closing" => abrupt'[c]
        /\ pc[c] = "closing" => pc'[c] = "closing"
    BY <1>1, <1>2, <1>3, <1>4, <1>6 DEF Lifecycle
  <2>3. chan'[c]["out"] = "ended" => remoteW'[c] = "closed"
    BY <1>1, <1>3, <1>4, <2>1 DEF Lifecycle, Dir
  <2>4. chan'[c]["out"] = "skipped" => pc'[c] = "closing"
    BY <2>1, <2>2, <1>4 DEF Lifecycle, Dir
  <2> QED BY <2>2, <2>3, <2>4, <1>6 DEF Lifecycle, Upstream
<1>10. checker' = checker /\ (checker.st = "probing" => checker.at \in Remote)
  BY <1>2 DEF TInv
<1> HIDE DEF Lifecycle, TypeOK
<1> QED BY <1>7, <1>8, <1>9, <1>10 DEF TInv

LEMMA TInvInit == Init => TInv
BY RemoteCount DEF Init, TInv, TypeOK, Lifecycle, Busy, Asleep, PC, Chan, N, Upstream, Dir, Algorithms

LEMMA TInvStep == TInv /\ [Next]_vars => TInv'
<1> SUFFICES ASSUME TInv, [Next]_vars PROVE TInv'
  OBVIOUS
<1> USE RemoteCount, RemoteAssumption DEF TInv, TypeOK, Lifecycle, Busy, N, Upstream, Dir, PC, Chan
<1>1. ASSUME NEW c \in Client, Accept(c) PROVE TInv'
  BY <1>1 DEF Accept, pool
<1>2. ASSUME NEW c \in Client, Refuse(c) PROVE TInv'
  BY <1>2 DEF Refuse, Finish, pool
<1>3. ASSUME NEW c \in Client, Local(c) PROVE TInv'
  BY <1>3 DEF Local, pool
<1>4. ASSUME NEW c \in Client, LocalEnds(c) PROVE TInv'
  BY <1>4 DEF LocalEnds, Finish, pool
<1>5. ASSUME NEW c \in Client, NEW h \in Host, Schedule(c, h) PROVE TInv'
  <2> DEFINE S == Eligible(rserver, OkFor(h))
  <2>1. ASSUME NEW k \in Choices(algorithm, rserver, S, connections), Pick(c, h, k),
               pc' = [pc EXCEPT ![c] = "opening"], UNCHANGED <<clientW, chan>>
        PROVE  TInv'
    <3>1. k \in 1..N /\ rserver[k] \in Remote
      BY ChoiceIsEligible DEF Eligible
    <3>2. rserver' \in [1..N -> Remote]
      BY <2>1, <3>1, RotatedType DEF Pick, Rotated
    <3>3. passed' \in [Remote -> Nat]
      BY <2>1 DEF Pick
    <3> QED BY <1>5, <2>1, <3>1, <3>2, <3>3 DEF Schedule, Pick
  <2>2. CASE /\ via' = [via EXCEPT ![c] = Direct]
             /\ pc' = [pc EXCEPT ![c] = "opening"]
             /\ UNCHANGED <<clientW, chan, rserver, passed>>
    BY <1>5, <2>2 DEF Schedule
  <2>3. CASE Finish(c) /\ UNCHANGED <<rserver, passed>>
    BY <1>5, <2>3 DEF Schedule, Finish
  <2> QED BY <1>5, <2>1, <2>2, <2>3 DEF Schedule
<1>6. ASSUME NEW c \in Client, Opened(c) PROVE TInv'
  BY <1>6 DEF Opened, pool
<1>7. ASSUME NEW c \in Client, OpenFails(c) PROVE TInv'
  BY <1>7 DEF OpenFails, Finish, pool
<1>8. ASSUME NEW c \in Client, Prepared(c) PROVE TInv'
  BY <1>8 DEF Prepared, pool
<1>9. ASSUME NEW c \in Client, PrepareFails(c) PROVE TInv'
  BY <1>9 DEF PrepareFails, Finish, pool
<1>10. ASSUME NEW c \in Client, PrepareBreaks(c) PROVE TInv'
  BY <1>10 DEF PrepareBreaks, Finish, pool
<1>11. ASSUME NEW c \in Client, Cancel(c) PROVE TInv'
  BY <1>11 DEF Cancel, Finish, pool
<1>12. ASSUME NEW c \in Client, CancelRelay(c) PROVE TInv'
  BY <1>12 DEF CancelRelay, pool
<1>13. ASSUME NEW c \in Client, RelayEnds(c) PROVE TInv'
  BY <1>13 DEF RelayEnds, Finish, pool
<1>14. ASSUME NEW c \in Client, NEW d \in Dir, ChannelStarts(c, d) PROVE TInv'
  BY <1>14 DEF ChannelStarts
<1>15. ASSUME NEW c \in Client, NEW d \in Dir, NEW b \in BOOLEAN, ChannelEnds(c, d, b) PROVE TInv'
  <2> HIDE DEF TInv, TypeOK, Lifecycle
  <2> QED BY <1>15, ChannelEndsTyped
<1>16. ASSUME NEW c \in Client, NEW d \in Dir, ChannelSkipped(c, d) PROVE TInv'
  BY <1>16 DEF ChannelSkipped, pool
<1>17. CASE Wake
  <2>1. /\ checker' \in [st : {"asleep", "probing", "dead"}, pos : 0..N, at : Remote \cup {None}]
        /\ checker'.st = "probing" => checker'.at \in Remote
    <3>1. rserver \in [1..N -> Remote] /\ 0 \in 0..N /\ N \in Nat
      OBVIOUS
    <3>2. checker' \in NextProbe(0)
      BY <1>17 DEF Wake
    <3> HIDE DEF TInv, TypeOK, N
    <3> QED BY <3>1, <3>2, NextProbeType
  <2> QED BY <1>17, <2>1 DEF Wake, pool, handlers
<1>18. CASE Probed
  <2>1. /\ checker' \in [st : {"asleep", "probing", "dead"}, pos : 0..N, at : Remote \cup {None}]
        /\ checker'.st = "probing" => checker'.at \in Remote
    BY <1>18, NextProbeType DEF Probed
  <2>2. alive' \in [Upstream -> BOOLEAN]
    BY <1>18 DEF Probed
  <2> QED BY <1>18, <2>1, <2>2 DEF Probed, handlers
<1>19. CASE CheckerStops
  BY <1>19 DEF CheckerStops, Dead, pool, handlers
<1>20. ASSUME NEW r \in Remote, Flip(r) PROVE TInv'
  BY <1>20 DEF Flip, handlers
<1>21. CASE UNCHANGED vars
  BY <1>21 DEF vars, handlers, pool
<1>22. ASSUME NEW c \in Client, Handler(c) PROVE TInv'
  <2> HIDE DEF TInv
  <2> QED
    BY <1>1, <1>2, <1>3, <1>4, <1>5, <1>6, <1>7, <1>8, <1>9, <1>10, <1>11, <1>12, <1>13,
       <1>22 DEF Handler
<1>23. ASSUME NEW c \in Client, Channel(c) PROVE TInv'
  <2> HIDE DEF TInv, Dir
  <2> QED BY <1>14, <1>15, <1>16, <1>23 DEF Channel
<1> HIDE DEF TInv
<1> QED
  BY <1>17, <1>18, <1>19, <1>20, <1>21, <1>22, <1>23 DEF Next

(* Every reachable state of the service is well typed.                     *)
THEOREM TypeCorrect == Spec => []TypeOK
<1>1. TInv => TypeOK
  BY DEF TInv
<1> QED BY <1>1, TInvInit, TInvStep, PTL DEF Spec

-----------------------------------------------------------------------------
(* The shared list under rotation.                                         *)

(* Moving one entry to the end permutes the list: entries before it stay,  *)
(* those after it move one place forward.                                  *)
LEMMA MoveToEndPermutes ==
  ASSUME NEW n \in Nat, NEW order \in [1..n -> Remote], NEW k \in 1..n,
         Members(order) = Remote, NoRepeat(order)
  PROVE  /\ Members(MoveToEnd(order, k)) = Remote
         /\ NoRepeat(MoveToEnd(order, k))
<1> DEFINE m == MoveToEnd(order, k)
<1>1. Len(order) = n /\ m \in [1..n -> Remote] /\ Len(m) = n
  BY RotatedType
<1>2. \A i \in 1..n : m[i] = IF i < k THEN order[i]
                             ELSE IF i < n THEN order[i + 1] ELSE order[k]
  BY <1>1 DEF MoveToEnd
<1> HIDE DEF m
<1>3. NoRepeat(m)
  <2> SUFFICES ASSUME NEW i \in 1..n, NEW j \in 1..n, m[i] = m[j] PROVE i = j
    BY <1>1 DEF NoRepeat
  <2>1. \A a, b \in 1..n : order[a] = order[b] => a = b
    BY <1>1 DEF NoRepeat
  <2> QED BY <1>2, <2>1
<1>4. Members(m) = Remote
  <2>1. Members(m) \subseteq Remote
    BY <1>1 DEF Members
  <2>2. ASSUME NEW r \in Remote PROVE r \in Members(m)
    <3>1. PICK i \in 1..n : order[i] = r
      BY <1>1 DEF Members
    <3>2. CASE i < k
      <4>1. m[i] = r
        BY <1>2, <3>1, <3>2
      <4> QED BY <1>1, <4>1 DEF Members
    <3>3. CASE i = k
      <4>1. m[n] = r /\ n \in 1..n
        BY <1>2, <3>1, <3>3
      <4> QED BY <1>1, <4>1 DEF Members
    <3>4. CASE i > k
      <4>1. m[i - 1] = r /\ (i - 1) \in 1..n
        BY <1>2, <3>1, <3>4
      <4> QED BY <1>1, <4>1 DEF Members
    <3> QED BY <3>2, <3>3, <3>4
  <2> QED BY <2>1, <2>2
<1> QED BY <1>3, <1>4 DEF m

(* A step leaves the list and the history of picks alone, or picks.        *)
LEMMA OnlyPickMoves ==
  ASSUME [Next]_vars
  PROVE  \/ UNCHANGED <<algorithm, rserver, passed>>
         \/ /\ UNCHANGED algorithm
            /\ \E c \in Client, h \in Host :
                 \E k \in Choices(algorithm, rserver, Eligible(rserver, OkFor(h)), connections) :
                   Pick(c, h, k)
<1>1. ASSUME NEW c \in Client, NEW h \in Host, Schedule(c, h)
      PROVE  \/ UNCHANGED <<algorithm, rserver, passed>>
             \/ /\ UNCHANGED algorithm
                /\ \E k \in Choices(algorithm, rserver, Eligible(rserver, OkFor(h)), connections) :
                     Pick(c, h, k)
  BY <1>1 DEF Schedule
<1>2. ASSUME NEW c \in Client, Handler(c), \A h \in Host : ~Schedule(c, h)
      PROVE  UNCHANGED <<algorithm, rserver, passed>>
  BY <1>2 DEF Handler, Accept, Refuse, Local, LocalEnds, Opened, OpenFails, Prepared,
     PrepareFails, PrepareBreaks, Cancel, CancelRelay, RelayEnds, pool
<1>3. ASSUME NEW c \in Client, Channel(c)
      PROVE  UNCHANGED <<algorithm, rserver, passed>>
  BY <1>3 DEF Channel, ChannelStarts, ChannelSkipped, ChannelEnds, pool
<1>4. ASSUME Wake \/ Probed \/ CheckerStops \/ \E r \in Remote : Flip(r)
      PROVE  UNCHANGED <<algorithm, rserver, passed>>
  BY <1>4 DEF Wake, Probed, CheckerStops, Flip, pool
<1>5. ASSUME UNCHANGED vars PROVE UNCHANGED <<algorithm, rserver, passed>>
  BY <1>5 DEF vars, pool
<1> QED BY <1>1, <1>2, <1>3, <1>4, <1>5 DEF Next

(* The inductive invariant behind round robin's fairness: a remote that    *)
(* was passed over p times stands at least p places before the end.        *)
Waiting ==
  \A i \in 1..N :
    passed[rserver[i]] <= (IF algorithm = "rr" THEN N - i ELSE 0)

ListInv == NoRemoteLost /\ Waiting

LEMMA ListInvInit == Init => ListInv
BY RemoteCount DEF Init, ListInv, NoRemoteLost, Waiting, N

LEMMA ListInvStep == TInv /\ ListInv /\ [Next]_vars => ListInv'
<1> SUFFICES ASSUME TInv, ListInv, [Next]_vars PROVE ListInv'
  OBVIOUS
<1>1. /\ rserver \in [1..N -> Remote] /\ Len(rserver) = N /\ N \in Nat
      /\ passed \in [Remote -> Nat] /\ algorithm \in Algorithms
  BY RemoteCount DEF TInv, TypeOK, N
<1>2. CASE UNCHANGED <<algorithm, rserver, passed>>
  BY <1>2 DEF ListInv, NoRemoteLost, Waiting
<1>3. ASSUME NEW c \in Client, NEW h \in Host, UNCHANGED algorithm,
             NEW k \in Choices(algorithm, rserver, Eligible(rserver, OkFor(h)), connections),
             Pick(c, h, k)
      PROVE  ListInv'
  <2>1. k \in 1..N /\ rserver[k] \in OkFor(h) /\ rserver[k] \in Remote
    BY <1>1, ChoiceIsEligible DEF Eligible
  <2>2. CASE algorithm # "rr"
    BY <1>1, <1>3, <2>1, <2>2 DEF Pick, Rotated, ListInv, NoRemoteLost, Waiting
  <2>3. CASE algorithm = "rr"
    <3>1. rserver' = MoveToEnd(rserver, k)
      BY <1>3, <2>3 DEF Pick, Rotated
    <3>2. NoRemoteLost'
      BY <1>1, <2>1, <3>1, MoveToEndPermutes DEF ListInv, NoRemoteLost
    <3>3. ASSUME NEW j \in 1..N, rserver[j] \in OkFor(h) PROVE k <= j
      BY <1>1, <2>3, <3>3 DEF Choices, Firsts, Eligible
    <3>4. \A i \in 1..N : rserver'[i] = IF i < k THEN rserver[i]
                                        ELSE IF i < N THEN rserver[i + 1] ELSE rserver[k]
      BY <1>1, <3>1 DEF MoveToEnd
    <3>5. ASSUME NEW i \in 1..N PROVE passed'[rserver'[i]] <= N - i
      <4>1. \A q \in Remote :
              passed'[q] = IF q = rserver[k] \/ q \notin OkFor(h) THEN 0 ELSE passed[q] + 1
        BY <1>3, <2>3 DEF Pick
      <4>2. \A a \in 1..N : passed[rserver[a]] <= N - a /\ rserver[a] \in Remote
        BY <1>1, <2>3 DEF ListInv, Waiting
      <4>3. CASE i < k
        <5>1. rserver'[i] = rserver[i] /\ rserver[i] \in Remote
          BY <2>1, <3>4, <4>2, <4>3
        <5>2. rserver[i] \notin OkFor(h)
          BY <1>1, <2>1, <3>3, <4>3
        <5> QED BY <1>1, <4>1, <5>1, <5>2
      <4>4. CASE i >= k /\ i < N
        <5>1. rserver'[i] = rserver[i + 1] /\ (i + 1) \in 1..N
          BY <1>1, <2>1, <3>4, <4>4
        <5>2. /\ passed[rserver[i + 1]] <= N - (i + 1)
              /\ passed[rserver[i + 1]] \in Nat /\ rserver[i + 1] \in Remote
          BY <1>1, <4>2, <5>1
        <5>3. passed'[rserver[i + 1]] = 0 \/ passed'[rserver[i + 1]] = passed[rserver[i + 1]] + 1
          BY <4>1, <5>2
        <5> QED BY <1>1, <5>1, <5>2, <5>3
      <4>5. CASE i >= k /\ i = N
        BY <1>1, <2>1, <3>4, <4>1, <4>5
      <4> QED BY <1>1, <2>1, <4>3, <4>4, <4>5
    <3> QED BY <1>3, <2>3, <3>2, <3>5 DEF ListInv, Waiting
  <2> QED BY <2>2, <2>3
<1> QED BY <1>2, <1>3, OnlyPickMoves

(* The list of remotes is never damaged by concurrent rotations.           *)
THEOREM RemotesAreKept == Spec => []NoRemoteLost
<1>1. ListInv => NoRemoteLost
  BY DEF ListInv
<1> QED BY <1>1, TInvInit, TInvStep, ListInvInit, ListInvStep, PTL DEF Spec

(* No eligible remote is passed over by as many picks as there are remotes. *)
THEOREM RoundRobinIsFair == Spec => []RoundRobinFair
<1>1. TInv /\ ListInv => RoundRobinFair
  <2> SUFFICES ASSUME TInv, ListInv, NEW r \in Remote PROVE passed[r] < N
    BY DEF RoundRobinFair, N
  <2>1. rserver \in [1..N -> Remote] /\ Len(rserver) = N /\ N \in Nat /\ passed[r] \in Nat
    BY RemoteCount DEF TInv, TypeOK, N
  <2>2. PICK i \in 1..N : rserver[i] = r
    BY <2>1 DEF ListInv, NoRemoteLost, Members
  <2> QED BY <2>1, <2>2 DEF ListInv, Waiting
<1> QED BY <1>1, TInvInit, TInvStep, ListInvInit, ListInvStep, PTL DEF Spec

-----------------------------------------------------------------------------
(* The load counters.                                                      *)

Runs(c, r)  == via[c] = r /\ chan[c]["out"] = "running"
Running(r)  == {c \in Client : Runs(c, r)}

LEMMA RunningIsFinite ==
  ASSUME NEW r PROVE IsFiniteSet(Running(r)) /\ IsFiniteSet(Running(r)')
<1>1. Running(r) \in SUBSET Client /\ Running(r)' \in SUBSET Client
  BY DEF Running
<1> QED BY <1>1, RemoteAssumption, FS_Subset, Zenon

(* The only steps that move a load counter start or end an outbound        *)
(* channel; every other step leaves the running outbound channels alone.   *)
LoadKept ==
  /\ connections' = connections
  /\ \A c \in Client, r \in Upstream : Runs(c, r)' <=> Runs(c, r)

LEMMA OnlyOutboundMoves ==
  ASSUME TInv, [Next]_vars
  PROVE  \/ LoadKept
         \/ \E c \in Client : ChannelStarts(c, "out")
         \/ \E c \in Client, b \in BOOLEAN : ChannelEnds(c, "out", b)
<1>0. /\ via \in [Client -> Upstream \cup {None}] /\ pc \in [Client -> PC]
      /\ chan \in [Client -> [Dir -> Chan]]
      /\ \A c \in Client : pc[c] \notin {"relaying", "closing"} => chan[c]["out"] = "none"
  BY DEF TInv, TypeOK, Lifecycle, Dir
<1>1. ASSUME NEW c \in Client, Handler(c) PROVE LoadKept
  <2>1. ASSUME Finish(c), connections' = connections, chan[c]["out"] # "running"
        PROVE  LoadKept
    BY <1>0, <2>1 DEF Finish, LoadKept, Runs, Dir
  <2>2. CASE Accept(c)
    BY <1>0, <2>2 DEF Accept, LoadKept, Runs, Dir, pool
  <2>3. CASE Refuse(c) \/ LocalEnds(c) \/ OpenFails(c)
    BY <1>0, <2>1, <2>3 DEF Refuse, LocalEnds, OpenFails, pool
  <2>4. CASE PrepareFails(c) \/ PrepareBreaks(c) \/ Cancel(c) \/ RelayEnds(c)
    BY <1>0, <2>1, <2>4 DEF PrepareFails, PrepareBreaks, Cancel, RelayEnds, pool, Dir
  <2>5. CASE Local(c) \/ Opened(c) \/ CancelRelay(c)
    BY <1>0, <2>5 DEF Local, Opened, CancelRelay, LoadKept, Runs, pool
  <2>6. CASE Prepared(c)
    BY <1>0, <2>6 DEF Prepared, LoadKept, Runs, Dir, pool
  <2>7. ASSUME NEW h \in Host, Schedule(c, h) PROVE LoadKept
    <3>1. chan[c]["out"] = "none" /\ connections' = connections
      BY <1>0, <2>7 DEF Schedule
    <3>2. CASE Finish(c)
      BY <2>1, <3>1, <3>2
    <3>3. CASE chan' = chan /\ \E r : via' = [via EXCEPT ![c] = r]
      BY <1>0, <3>1, <3>3 DEF LoadKept, Runs
    <3> QED BY <2>7, <3>2, <3>3 DEF Schedule, Pick
  <2> QED BY <1>1, <2>2, <2>3, <2>4, <2>5, <2>6, <2>7 DEF Handler
<1>2. ASSUME NEW c \in Client, Channel(c)
      PROVE  \/ LoadKept
             \/ ChannelStarts(c, "out")
             \/ \E b \in BOOLEAN : ChannelEnds(c, "out", b)
  <2>1. CASE ChannelStarts(c, "in")
    BY <1>0, <2>1 DEF ChannelStarts, LoadKept, Runs, Dir
  <2>2. ASSUME NEW b \in BOOLEAN, ChannelEnds(c, "in", b) PROVE LoadKept
    BY <1>0, <2>2 DEF ChannelEnds, LoadKept, Runs, Dir
  <2>3. ASSUME NEW d \in Dir, ChannelSkipped(c, d) PROVE LoadKept
    BY <1>0, <2>3 DEF ChannelSkipped, LoadKept, Runs, Dir, pool
  <2> QED BY <1>2, <2>1, <2>2, <2>3 DEF Channel, Dir
<1>3. ASSUME Wake \/ Probed \/ CheckerStops \/ (\E r \in Remote : Flip(r)) \/ UNCHANGED vars
      PROVE  LoadKept
  BY <1>3 DEF Wake, Probed, CheckerStops, Flip, vars, handlers, pool, LoadKept, Runs
<1> QED BY <1>1, <1>2, <1>3 DEF Next

LEMMA LoadInit == Init => LoadIsExact
<1> SUFFICES ASSUME Init, NEW r \in Upstream
             PROVE connections[r] = Cardinality(Running(r))
  BY DEF LoadIsExact, Running, Runs
<1>1. Running(r) = {}
  BY DEF Init, Running, Runs, Dir
<1> QED BY <1>1, FS_EmptySet DEF Init

LEMMA LoadStep == TInv /\ LoadIsExact /\ [Next]_vars => LoadIsExact'
<1> SUFFICES ASSUME TInv, LoadIsExact, [Next]_vars, NEW r \in Upstream
             PROVE  connections'[r] = Cardinality(Running(r)')
  BY DEF LoadIsExact, Running, Runs
<1>0. /\ via \in [Client -> Upstream \cup {None}] /\ connections \in [Upstream -> Int]
      /\ chan \in [Client -> [Dir -> Chan]]
      /\ \A c \in Client : chan[c]["out"] # "none" => via[c] \in Upstream
      /\ connections[r] = Cardinality(Running(r))
  BY DEF TInv, TypeOK, Lifecycle, Dir, LoadIsExact, Running, Runs, Busy
<1>1. CASE LoadKept
  <2>1. Running(r)' = Running(r)
    BY <1>1 DEF LoadKept, Running
  <2> QED BY <1>0, <1>1, <2>1 DEF LoadKept
<1>2. ASSUME NEW c \in Client, ChannelStarts(c, "out")
      PROVE  connections'[r] = Cardinality(Running(r)')
  <2>1. /\ via' = via /\ via[c] \in Upstream /\ chan[c]["out"] = "new"
        /\ chan' = [chan EXCEPT ![c]["out"] = "running"]
        /\ connections' = [connections EXCEPT ![via[c]] = @ + 1]
    BY <1>0, <1>2 DEF ChannelStarts
  <2>2. \A x \in Client : Runs(x, r)' <=> Runs(x, r) \/ (x = c /\ via[c] = r)
    BY <1>0, <2>1 DEF Runs, Dir
  <2>3. CASE via[c] = r
    <3>1. Running(r)' = Running(r) \cup {c} /\ c \notin Running(r)
      BY <2>1, <2>2, <2>3 DEF Running, Runs
    <3>2. Cardinality(Running(r) \cup {c}) = Cardinality(Running(r)) + 1
      BY <3>1, RunningIsFinite, FS_AddElement
    <3> QED BY <1>0, <2>1, <2>3, <3>1, <3>2
  <2>4. CASE via[c] # r
    <3>1. Running(r)' = Running(r)
      BY <2>2, <2>4 DEF Running
    <3> QED BY <1>0, <2>1, <2>4, <3>1
  <2> QED BY <2>3, <2>4
<1>3. ASSUME NEW c \in Client, NEW b \in BOOLEAN, ChannelEnds(c, "out", b)
      PROVE  connections'[r] = Cardinality(Running(r)')
  <2>1. /\ via' = via /\ via[c] \in Upstream /\ chan[c]["out"] = "running"
        /\ chan' = [chan EXCEPT ![c]["out"] = "ended"]
        /\ connections' = [connections EXCEPT ![via[c]] = @ - 1]
    BY <1>0, <1>3 DEF ChannelEnds
  <2>2. \A x \in Client : Runs(x, r)' <=> Runs(x, r) /\ x # c
    BY <1>0, <2>1 DEF Runs, Dir
  <2>3. CASE via[c] = r
    <3>1. Running(r)' = Running(r) \ {c} /\ c \in Running(r)
      BY <2>1, <2>2, <2>3 DEF Running, Runs
    <3>2. Cardinality(Running(r) \ {c}) = Cardinality(Running(r)) - 1
      BY <3>1, RunningIsFinite, FS_RemoveElement
    <3> QED BY <1>0, <2>1, <2>3, <3>1, <3>2
  <2>4. CASE via[c] # r
    <3>1. Running(r)' = Running(r)
      BY <2>2, <2>4 DEF Running, Runs
    <3> QED BY <1>0, <2>1, <2>4, <3>1
  <2> QED BY <2>3, <2>4
<1> QED BY <1>1, <1>2, <1>3, OnlyOutboundMoves

(* The counter that 'lc' compares counts the running outbound channels.    *)
THEOREM LoadStaysExact == Spec => []LoadIsExact
BY TInvInit, TInvStep, LoadInit, LoadStep, PTL DEF Spec

-----------------------------------------------------------------------------
(* What finished handlers leave behind.                                    *)

LEMMA CleanInit == Init => NothingLeftOpen
BY DEF Init, NothingLeftOpen

LEMMA CleanStep == TInv /\ NothingLeftOpen /\ [Next]_vars => NothingLeftOpen'
<1> SUFFICES ASSUME TInv, NothingLeftOpen, [Next]_vars PROVE NothingLeftOpen'
  OBVIOUS
<1>0. /\ pc \in [Client -> PC] /\ clientW \in [Client -> {"none", "open", "closed"}]
      /\ remoteW \in [Client -> {"none", "open", "closed"}]
      /\ abrupt \in [Client -> BOOLEAN]
      /\ chan \in [Client -> [Dir -> Chan]]
      /\ \A c \in Client : Lifecycle(c)
  BY DEF TInv, TypeOK
<1> USE <1>0 DEF NothingLeftOpen
<1>1. ASSUME NEW c \in Client, Finish(c), \A x \in Client \ {c} : remoteW'[x] = remoteW[x] /\ abrupt'[x] = abrupt[x],
             remoteW'[c] = "open" => abrupt'[c]
      PROVE  NothingLeftOpen'
  BY <1>1 DEF Finish
<1>2. ASSUME NEW c \in Client, Refuse(c) \/ LocalEnds(c) \/ OpenFails(c) PROVE NothingLeftOpen'
  BY <1>1, <1>2 DEF Refuse, LocalEnds, OpenFails, Lifecycle
<1>3. ASSUME NEW c \in Client, PrepareFails(c) \/ PrepareBreaks(c) \/ Cancel(c)
      PROVE  NothingLeftOpen'
  BY <1>1, <1>3 DEF PrepareFails, PrepareBreaks, Cancel
<1>4. ASSUME NEW c \in Client, RelayEnds(c) PROVE NothingLeftOpen'
  BY <1>1, <1>4 DEF RelayEnds, Lifecycle, Dir
<1>5. ASSUME NEW c \in Client, NEW h \in Host, Schedule(c, h) PROVE NothingLeftOpen'
  <2>1. CASE Finish(c)
    BY <1>1, <1>5, <2>1 DEF Schedule, Lifecycle
  <2>2. CASE pc' = [pc EXCEPT ![c] = "opening"] /\ clientW' = clientW
    BY <1>5, <2>2 DEF Schedule
  <2> QED BY <1>5, <2>1, <2>2 DEF Schedule
<1>6. ASSUME NEW c \in Client, Accept(c) \/ Local(c) \/ Opened(c) \/ Prepared(c) \/ CancelRelay(c)
      PROVE  NothingLeftOpen'
  BY <1>6 DEF Accept, Local, Opened, Prepared, CancelRelay
<1>7. ASSUME NEW c \in Client, NEW d \in Dir, ChannelStarts(c, d) \/ ChannelSkipped(c, d)
      PROVE  NothingLeftOpen'
  BY <1>7 DEF ChannelStarts, ChannelSkipped
<1>8. ASSUME NEW c \in Client, NEW d \in Dir, NEW b \in BOOLEAN, ChannelEnds(c, d, b)
      PROVE  NothingLeftOpen'
  <2>1. pc[c] \in {"relaying", "closing"} /\ pc'[c] # "done"
    <3>1. pc[c] \in {"relaying", "closing"}
      BY <1>8 DEF ChannelEnds, Lifecycle
    <3>2. pc' = pc \/ pc' = [pc EXCEPT ![c] = "closing"]
      BY <1>8 DEF ChannelEnds
    <3> QED BY <3>1, <3>2
  <2>2. ASSUME NEW x \in Client, x # c
        PROVE  /\ pc'[x] = pc[x] /\ abrupt'[x] = abrupt[x]
               /\ remoteW'[x] = remoteW[x] /\ clientW'[x] = clientW[x]
    BY <1>8, <2>2 DEF ChannelEnds
  <2> QED BY <2>1, <2>2
<1>9. ASSUME Wake \/ Probed \/ CheckerStops \/ (\E r \in Remote : Flip(r)) \/ UNCHANGED vars
      PROVE  NothingLeftOpen'
  BY <1>9 DEF Wake, Probed, CheckerStops, Flip, vars, handlers
<1>10. ASSUME NEW c \in Client, Handler(c) PROVE NothingLeftOpen'
  <2> HIDE <1>0 DEF NothingLeftOpen
  <2> QED BY <1>2, <1>3, <1>4, <1>5, <1>6, <1>10 DEF Handler
<1>11. ASSUME NEW c \in Client, Channel(c) PROVE NothingLeftOpen'
  <2> HIDE <1>0 DEF NothingLeftOpen
  <2> QED BY <1>7, <1>8, <1>11 DEF Channel
<1> HIDE <1>0 DEF NothingLeftOpen
<1> QED BY <1>9, <1>10, <1>11 DEF Next

(* Finished handlers have closed their sockets, unless they ended abruptly. *)
THEOREM NothingIsLeftOpen == Spec => []NothingLeftOpen
BY TInvInit, TInvStep, CleanInit, CleanStep, PTL DEF Spec
=============================================================================
