---------------------------- MODULE StreamProxy ----------------------------
(***************************************************************************)
(* The TCP service: stream_handler and _open_upstream (server/handlers.py) *)
(* for several clients at once, the remotes they share (liveness flag,     *)
(* load counter, order of the list that 'rr' rotates), the relay's two     *)
(* channels as tasks of one TaskGroup (relay.py, protocols/base.py), and   *)
(* check_server_alive (server/connections.py), which walks the same list.  *)
(*                                                                         *)
(* One action is what runs between two awaits.  What travels through the   *)
(* channels is the subject of module Relay.                                *)
(***************************************************************************)
EXTENDS Scheduling

CONSTANTS
  Client,     \* slots for client connections; a finished slot is used again
  Remote,     \* configured remotes
  Plain,      \* those whose type is exactly ProxyDirect: never probed
  Rule,       \* Rule[r]: the hosts match_rule of r accepts
  Host,       \* destinations that need an upstream
  Direct,     \* the DIRECT sentinel
  None

ASSUME RemoteAssumption ==
  /\ IsFiniteSet(Client) /\ IsFiniteSet(Remote) /\ Plain \subseteq Remote
  /\ Rule \in [Remote -> SUBSET Host]
  /\ Direct \notin Remote /\ None \notin Remote \cup {Direct}

VARIABLES
  algorithm,    \* -s, fixed at start
  rserver,      \* the list of remotes, in its current order
  alive,        \* remote.alive
  up,           \* environment: the remote answers
  connections,  \* remote.connections
  pc,           \* where the handler of a client is
  via,          \* roption of the client
  clientW,      \* the client's writer
  remoteW,      \* the upstream writer
  chan,         \* the two channel tasks of a client
  abrupt,       \* history: the handler ended by cancellation or by an error
                \* that the code around the upstream writer does not catch
  checker,      \* check_server_alive
  passed        \* history: picks since r was picked while r was eligible

handlers == <<pc, via, clientW, remoteW, chan, abrupt>>
pool     == <<algorithm, rserver, alive, up, connections, passed>>
vars     == <<handlers, pool, checker>>

Upstream == Remote \cup {Direct}
Dir      == {"in", "out"}   \* upstream to client, client to upstream

(* "local" is the echo or empty service, "closing" a TaskGroup that was    *)
(* told to stop and waits for its children.                                *)
PC    == {"idle", "accepting", "local", "opening", "preparing", "relaying",
          "closing", "done"}
Chan  == {"none", "new", "running", "ended", "skipped"}

Asleep     == [st |-> "asleep", pos |-> 0, at |-> None]
Dead       == [st |-> "dead", pos |-> 0, at |-> None]
-----------------------------------------------------------------------------
Init ==
  /\ algorithm \in Algorithms
  /\ rserver \in {s \in [1..Cardinality(Remote) -> Remote] :
                     Members(s) = Remote /\ NoRepeat(s)}
  /\ alive = [r \in Upstream |-> TRUE]
  /\ up \in {u \in [Remote -> BOOLEAN] : \A r \in Plain : u[r]}
  /\ connections = [r \in Upstream |-> 0]
  /\ pc = [c \in Client |-> "idle"]
  /\ via = [c \in Client |-> None]
  /\ clientW = [c \in Client |-> "none"]
  /\ remoteW = [c \in Client |-> "none"]
  /\ chan = [c \in Client |-> [d \in Dir |-> "none"]]
  /\ abrupt = [c \in Client |-> FALSE]
  /\ checker = Asleep
  /\ passed = [r \in Remote |-> 0]

(***************************************************************************)
(* The handler.                                                            *)
(***************************************************************************)
(* A client connects: the handler task runs up to proto.accept.            *)
Accept(c) ==
  /\ pc[c] \in {"idle", "done"}
  /\ pc' = [pc EXCEPT ![c] = "accepting"]
  /\ via' = [via EXCEPT ![c] = None]
  /\ clientW' = [clientW EXCEPT ![c] = "open"]
  /\ remoteW' = [remoteW EXCEPT ![c] = "none"]
  /\ chan' = [chan EXCEPT ![c] = [d \in Dir |-> "none"]]
  /\ abrupt' = [abrupt EXCEPT ![c] = FALSE]
  /\ UNCHANGED <<pool, checker>>

(* The finally clause of stream_handler, reached on every path; then the   *)
(* handler's locals are gone.                                              *)
Finish(c) ==
  /\ pc' = [pc EXCEPT ![c] = "done"]
  /\ clientW' = [clientW EXCEPT ![c] = "closed"]
  /\ via' = [via EXCEPT ![c] = None]
  /\ chan' = [chan EXCEPT ![c] = [d \in Dir |-> "none"]]

(* accept fails, or the destination is blocked.                            *)
Refuse(c) ==
  /\ pc[c] = "accepting"
  /\ Finish(c)
  /\ UNCHANGED <<remoteW, abrupt, pool, checker>>

(* 'echo' and 'empty': one channel from the client to itself.              *)
Local(c) ==
  /\ pc[c] = "accepting"
  /\ pc' = [pc EXCEPT ![c] = "local"]
  /\ UNCHANGED <<via, clientW, remoteW, chan, abrupt, pool, checker>>

LocalEnds(c) ==
  /\ pc[c] = "local"
  /\ Finish(c)
  /\ UNCHANGED <<remoteW, abrupt, pool, checker>>

(* schedule(...) or DIRECT, and the call of open_connection that follows   *)
(* without an await.                                                       *)
OkFor(h) == {r \in Remote : alive[r] /\ h \in Rule[r]}

Pick(c, h, k) ==
  LET r == rserver[k] IN
  /\ via' = [via EXCEPT ![c] = r]
  /\ rserver' = Rotated(algorithm, rserver, k)
  /\ passed' = [q \in Remote |-> IF q = r \/ q \notin OkFor(h) THEN 0
                                 ELSE IF algorithm = "rr" THEN passed[q] + 1 ELSE 0]

Schedule(c, h) ==
  LET S == Eligible(rserver, OkFor(h)) IN
  /\ pc[c] = "accepting"
  /\ \/ /\ S # {}
        /\ \E k \in Choices(algorithm, rserver, S, connections) : Pick(c, h, k)
        /\ pc' = [pc EXCEPT ![c] = "opening"]
        /\ UNCHANGED <<clientW, chan>>
     \/ /\ S = {} /\ algorithm # "rr"
        /\ via' = [via EXCEPT ![c] = Direct]
        /\ pc' = [pc EXCEPT ![c] = "opening"]
        /\ UNCHANGED <<clientW, chan, rserver, passed>>
     \/ /\ S = {} /\ algorithm = "rr"       \* falls through to the raise
        /\ Finish(c)
        /\ UNCHANGED <<rserver, passed>>
  /\ UNCHANGED <<remoteW, abrupt, algorithm, alive, up, connections, checker>>

(* open_connection returns a stream, or fails, or times out.               *)
Opened(c) ==
  /\ pc[c] = "opening"
  /\ via[c] \in Remote => up[via[c]]
  /\ pc' = [pc EXCEPT ![c] = "preparing"]
  /\ remoteW' = [remoteW EXCEPT ![c] = "open"]
  /\ UNCHANGED <<via, clientW, chan, abrupt, pool, checker>>

OpenFails(c) ==
  /\ pc[c] = "opening"
  /\ Finish(c)
  /\ UNCHANGED <<remoteW, abrupt, pool, checker>>

(* prepare_connection and client_connected succeed: modstat, then the      *)
(* TaskGroup creates both channel tasks.                                   *)
Prepared(c) ==
  /\ pc[c] = "preparing"
  /\ pc' = [pc EXCEPT ![c] = "relaying"]
  /\ chan' = [chan EXCEPT ![c] = [d \in Dir |-> "new"]]
  /\ UNCHANGED <<via, clientW, remoteW, abrupt, pool, checker>>

PrepareFailsLeavesOpen(c) ==
  /\ pc[c] = "preparing"
  /\ Finish(c)
  /\ UNCHANGED <<remoteW, abrupt, pool, checker>>

(* A failure of the kinds _open_upstream lists closes the upstream.        *)
PrepareFails(c) ==
  /\ pc[c] = "preparing"
  /\ remoteW' = [remoteW EXCEPT ![c] = "closed"]
  /\ Finish(c)
  /\ UNCHANGED <<abrupt, pool, checker>>

(* Any other exception passes it by: only stream_handler's finally runs.   *)
PrepareBreaks(c) ==
  /\ pc[c] = "preparing"
  /\ abrupt' = [abrupt EXCEPT ![c] = TRUE]
  /\ Finish(c)
  /\ UNCHANGED <<remoteW, pool, checker>>

(* Cancellation at one of the handler's own awaits.                        *)
Cancel(c) ==
  /\ pc[c] \in {"accepting", "local", "opening", "preparing"}
  /\ abrupt' = [abrupt EXCEPT ![c] = TRUE]
  /\ Finish(c)
  /\ UNCHANGED <<remoteW, pool, checker>>

(* Cancellation while the TaskGroup waits for its children.                *)
CancelRelay(c) ==
  /\ pc[c] = "relaying"
  /\ pc' = [pc EXCEPT ![c] = "closing"]
  /\ abrupt' = [abrupt EXCEPT ![c] = TRUE]
  /\ UNCHANGED <<via, clientW, remoteW, chan, pool, checker>>

-----------------------------------------------------------------------------
(* BaseProtocol.channel as a task.  Only the outbound one counts on the    *)
(* remote; each closes the writer it feeds.                                *)
ChannelStarts(c, d) ==
  /\ chan[c][d] = "new" /\ pc[c] = "relaying"
  /\ chan' = [chan EXCEPT ![c][d] = "running"]
  /\ connections' = IF d = "out" THEN [connections EXCEPT ![via[c]] = @ + 1]
                                 ELSE connections
  /\ UNCHANGED <<pc, via, clientW, remoteW, abrupt, checker,
                 algorithm, rserver, alive, up, passed>>

ChannelEndsForgets(c, d, breaks) ==
  /\ chan[c][d] = "running"
  /\ chan' = [chan EXCEPT ![c][d] = "ended"]
  /\ connections' = IF d = "out" /\ ~breaks THEN [connections EXCEPT ![via[c]] = @ - 1]
                                             ELSE connections
  /\ IF d = "out" THEN remoteW' = [remoteW EXCEPT ![c] = "closed"] /\ UNCHANGED clientW
                  ELSE clientW' = [clientW EXCEPT ![c] = "closed"] /\ UNCHANGED remoteW
  /\ IF breaks THEN /\ pc' = [pc EXCEPT ![c] = "closing"]
                    /\ abrupt' = [abrupt EXCEPT ![c] = TRUE]
               ELSE UNCHANGED <<pc, abrupt>>
  /\ UNCHANGED <<via, checker, algorithm, rserver, alive, up, passed>>

(* The loop ends, or an exception or a cancellation unwinds it: the        *)
(* finally clause runs.  An exception channel does not catch makes the     *)
(* TaskGroup cancel the other channel.                                     *)
ChannelEnds(c, d, breaks) ==
  /\ chan[c][d] = "running"
  /\ chan' = [chan EXCEPT ![c][d] = "ended"]
  /\ connections' = IF d = "out" THEN [connections EXCEPT ![via[c]] = @ - 1]
                                 ELSE connections
  /\ IF d = "out" THEN remoteW' = [remoteW EXCEPT ![c] = "closed"] /\ UNCHANGED clientW
                  ELSE clientW' = [clientW EXCEPT ![c] = "closed"] /\ UNCHANGED remoteW
  /\ IF breaks THEN /\ pc' = [pc EXCEPT ![c] = "closing"]
                    /\ abrupt' = [abrupt EXCEPT ![c] = TRUE]
               ELSE UNCHANGED <<pc, abrupt>>
  /\ UNCHANGED <<via, checker, algorithm, rserver, alive, up, passed>>

(* A task cancelled before its first step never enters its try block.      *)
ChannelSkipped(c, d) ==
  /\ chan[c][d] = "new" /\ pc[c] = "closing"
  /\ chan' = [chan EXCEPT ![c][d] = "skipped"]
  /\ UNCHANGED <<pc, via, clientW, remoteW, abrupt, pool, checker>>

RelayEndsUnskipped(c) ==
  /\ pc[c] \in {"relaying", "closing"}
  /\ \A d \in Dir : chan[c][d] = "ended"
  /\ Finish(c)
  /\ UNCHANGED <<remoteW, abrupt, pool, checker>>

(* The TaskGroup returns when both children are finished.                  *)
RelayEnds(c) ==
  /\ pc[c] \in {"relaying", "closing"}
  /\ \A d \in Dir : chan[c][d] \in {"ended", "skipped"}
  /\ Finish(c)
  /\ UNCHANGED <<remoteW, abrupt, pool, checker>>

(***************************************************************************)
(* check_server_alive.  The for statement keeps a position into the list,  *)
(* which a rotation during the probe shifts under it.                      *)
(***************************************************************************)
Probing(i) == [st |-> "probing", pos |-> i, at |-> rserver[i]]

(* Where the loop is next, after position i.                               *)
NextProbe(i) ==
  LET later == {j \in (i + 1)..Len(rserver) : rserver[j] \notin Plain} IN
  IF later = {} THEN {Asleep} ELSE {Probing(j) : j \in Firsts(later)}

Wake ==
  /\ checker.st = "asleep"
  /\ checker' \in NextProbe(0)
  /\ UNCHANGED <<handlers, pool>>

ProbedOnlyDown ==
  /\ checker.st = "probing"
  /\ alive' = [alive EXCEPT ![checker.at] = @ /\ up[checker.at]]
  /\ checker' \in NextProbe(checker.pos)
  /\ UNCHANGED <<handlers, algorithm, rserver, up, connections, passed>>

(* The probe answers within its 3 seconds, or it fails.                    *)
Probed ==
  /\ checker.st = "probing"
  /\ alive' = [alive EXCEPT ![checker.at] = up[checker.at]]
  /\ checker' \in NextProbe(checker.pos)
  /\ UNCHANGED <<handlers, algorithm, rserver, up, connections, passed>>

(* Cancellation returns; an exception outside the list ends the task.      *)
CheckerStops ==
  /\ checker.st # "dead"
  /\ checker' = Dead
  /\ UNCHANGED <<handlers, pool>>

(* The environment: a proxy goes down or comes back.                       *)
Flip(r) ==
  /\ r \notin Plain
  /\ up' = [up EXCEPT ![r] = ~@]
  /\ UNCHANGED <<handlers, algorithm, rserver, alive, connections, passed, checker>>

-----------------------------------------------------------------------------
Handler(c) ==
  \/ Accept(c) \/ Refuse(c) \/ Local(c) \/ LocalEnds(c)
  \/ \E h \in Host : Schedule(c, h)
  \/ Opened(c) \/ OpenFails(c) \/ Prepared(c) \/ PrepareFails(c) \/ PrepareBreaks(c)
  \/ Cancel(c) \/ CancelRelay(c) \/ RelayEnds(c)

Channel(c) ==
  \E d \in Dir : \/ ChannelStarts(c, d) \/ ChannelSkipped(c, d)
                 \/ \E b \in BOOLEAN : ChannelEnds(c, d, b)

Next ==
  \/ \E c \in Client : Handler(c) \/ Channel(c)
  \/ Wake \/ Probed \/ CheckerStops
  \/ \E r \in Remote : Flip(r)

(* The loop runs every task that is ready: the checker's timer fires and   *)
(* its probe ends (it has a timeout); a TaskGroup that was told to stop    *)
(* unwinds its children.                                                   *)
Unwind(c) ==
  \/ RelayEnds(c)
  \/ /\ pc[c] = "closing"
     /\ \E d \in Dir : ChannelSkipped(c, d) \/ ChannelEnds(c, d, FALSE)

Fairness ==
  /\ WF_vars(Wake) /\ WF_vars(Probed)
  /\ \A c \in Client : WF_vars(Unwind(c))

Spec     == Init /\ [][Next]_vars
FairSpec == Spec /\ Fairness

-----------------------------------------------------------------------------
(* Every variable has its type.                                            *)
TypeOK ==
  /\ algorithm \in Algorithms
  /\ rserver \in [1..Cardinality(Remote) -> Remote]
  /\ alive \in [Upstream -> BOOLEAN] /\ up \in [Remote -> BOOLEAN]
  /\ connections \in [Upstream -> Int]
  /\ pc \in [Client -> PC] /\ via \in [Client -> Upstream \cup {None}]
  /\ clientW \in [Client -> {"none", "open", "closed"}]
  /\ remoteW \in [Client -> {"none", "open", "closed"}]
  /\ chan \in [Client -> [Dir -> Chan]]
  /\ abrupt \in [Client -> BOOLEAN]
  /\ checker \in [st : {"asleep", "probing", "dead"},
                  pos : 0..Cardinality(Remote), at : Remote \cup {None}]
  /\ passed \in [Remote -> Nat]

(* However choices, rotations and probes interleave, the shared list keeps *)
(* every configured remote, once.                                          *)
NoRemoteLost == Members(rserver) = Remote /\ NoRepeat(rserver)

(* The load counter that 'lc' compares is the number of outbound channels  *)
(* running on the remote, whichever way handlers end.                      *)
LoadIsExact ==
  \A r \in Upstream :
    connections[r] = Cardinality({c \in Client : via[c] = r /\ chan[c]["out"] = "running"})

(* A finished handler has closed its client, and the upstream it opened    *)
(* unless it ended by cancellation or by an error nobody lists.            *)
NothingLeftOpen ==
  \A c \in Client : pc[c] = "done" =>
    /\ clientW[c] = "closed"
    /\ remoteW[c] = "open" => abrupt[c]

(* Round robin is fair: a remote that stays eligible is picked at least    *)
(* once in as many requests as there are remotes.                          *)
RoundRobinFair == \A r \in Remote : passed[r] < Cardinality(Remote)

(* A remote that stays down (up) is found dead (alive) by the health check *)
(* while the check runs, once 'rr' has stopped rotating the list it walks: *)
(* rotations can make it skip the same remote in every round.              *)
HealthFollowsReality ==
  ([](checker.st # "dead") /\ <>[][FALSE]_rserver) =>
    \A r \in Remote \ Plain : /\ <>[](~up[r]) => <>[](~alive[r])
                              /\ <>[](up[r]) => <>[](alive[r])

(* A relay that was told to stop ends its handler.                         *)
StopEndsHandler == \A c \in Client : pc[c] = "closing" ~> pc[c] = "done"
=============================================================================
