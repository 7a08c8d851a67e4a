--------------------------- MODULE ReverseTunnel ---------------------------
(***************************************************************************)
(* ProxyBackward (server/connections.py) at both ends of a reverse tunnel. *)
(* The exit keeps one loop per slot that dials the hub, authenticates and  *)
(* waits for a first byte (start_server_run); the hub queues what dials in *)
(* with a watcher each (start_backward_client, watch_connection), and      *)
(* whoever needs an upstream takes from the queue (wait_open_connection):  *)
(* requests, and the health check, which writes a zero byte and closes.    *)
(*                                                                         *)
(* One action is what runs between two awaits.  A Conn is a slot that is   *)
(* used again once both ends let go of it.                                 *)
(***************************************************************************)
EXTENDS Integers, Sequences

CONSTANTS
  Worker,      \* range(backward_num)
  Conn,        \* connections that exist at one time
  User, Probe, \* requests, health checks
  FirstByte,   \* what the first byte of a request can be: "zero" is possible
               \* when it belongs to a random initialization vector
  None

Taker == User \cup Probe

ASSUME TakerAssumption ==
  /\ User \cap Probe = {} /\ None \notin Conn
  /\ FirstByte \subseteq {"zero", "data"}

VARIABLES
  closed,   \* the exit's self.closed
  worker,   \* start_server_run, per loop
  dialed,   \* the connection a loop is on
  writers,  \* self.writers of the exit
  handler,  \* the exit's handler task of a connection
  exitW,    \* the exit's writer
  word,     \* the hub's first byte, until the exit reads it
  hubUp,    \* environment: the hub can be reached
  hubW,     \* the hub's writer; "auth" while the credentials are read
  eof,      \* the hub's reader is at its end
  queue,    \* self.conn
  watcher,  \* the watcher task of a queued connection
  taker,    \* wait_open_connection, per caller
  held,     \* the connection a caller took
  asked,    \* callers that were told to cancel and have not ended
  given     \* history: what the connection was given to

exit == <<closed, worker, dialed, writers, handler, exitW>>
hub  == <<hubW, eof, queue, watcher>>
take == <<taker, held, asked, given>>
vars == <<exit, word, hubUp, hub, take>>

Queued == {queue[i] : i \in 1..Len(queue)}
Held   == {held[t] : t \in Taker}

Init ==
  /\ closed = FALSE /\ hubUp = TRUE
  /\ worker = [w \in Worker |-> "dialing"] /\ dialed = [w \in Worker |-> None]
  /\ writers = {} /\ handler = [c \in Conn |-> "none"]
  /\ exitW = [c \in Conn |-> "none"] /\ word = [c \in Conn |-> "none"]
  /\ hubW = [c \in Conn |-> "none"] /\ eof = [c \in Conn |-> FALSE]
  /\ queue = <<>> /\ watcher = [c \in Conn |-> "none"]
  /\ taker = [t \in Taker |-> "idle"] /\ held = [t \in Taker |-> None]
  /\ asked = {} /\ given = [c \in Conn |-> "none"]

(***************************************************************************)
(* The exit: start_server_run.  close() cancels every loop, and a          *)
(* cancellation comes before the result of whatever the loop awaited, so   *)
(* no loop takes a step once closed is set.                                *)
(***************************************************************************)
Free(c) ==
  /\ exitW[c] \in {"none", "closed"} /\ hubW[c] \in {"none", "closed", "abandoned"}
  /\ handler[c] \in {"none", "ended"} /\ watcher[c] \in {"none", "done"}
  /\ c \notin Queued \cup Held

DialedUntracked(w, c) ==
  /\ worker[w] = "dialing" /\ ~closed /\ hubUp /\ Free(c)
  /\ worker' = [worker EXCEPT ![w] = "greeting"]
  /\ dialed' = [dialed EXCEPT ![w] = c]
  /\ exitW' = [exitW EXCEPT ![c] = "open"]
  /\ hubW' = [hubW EXCEPT ![c] = "auth"]
  /\ handler' = [handler EXCEPT ![c] = "none"]
  /\ watcher' = [watcher EXCEPT ![c] = "none"]
  /\ given' = [given EXCEPT ![c] = "none"]
  /\ word' = [word EXCEPT ![c] = "none"]
  /\ eof' = [eof EXCEPT ![c] = FALSE]
  /\ UNCHANGED <<closed, writers, hubUp, queue, taker, held, asked>>

(* The connection is up: send the credentials, track the writer, wait.     *)
Dialed(w, c) ==
  /\ worker[w] = "dialing" /\ ~closed /\ hubUp /\ Free(c)
  /\ worker' = [worker EXCEPT ![w] = "greeting"]
  /\ dialed' = [dialed EXCEPT ![w] = c]
  /\ writers' = writers \cup {c}
  /\ exitW' = [exitW EXCEPT ![c] = "open"]
  /\ hubW' = [hubW EXCEPT ![c] = "auth"]
  /\ handler' = [handler EXCEPT ![c] = "none"]
  /\ watcher' = [watcher EXCEPT ![c] = "none"]
  /\ given' = [given EXCEPT ![c] = "none"]
  /\ word' = [word EXCEPT ![c] = "none"]
  /\ eof' = [eof EXCEPT ![c] = FALSE]
  /\ UNCHANGED <<closed, hubUp, queue, taker, held, asked>>

DialFails(w) ==
  /\ worker[w] = "dialing" /\ ~hubUp
  /\ worker' = [worker EXCEPT ![w] = "sleeping"]
  /\ UNCHANGED <<closed, dialed, writers, handler, exitW, word, hubUp, hub, take>>

Wakes(w) ==
  /\ worker[w] = "sleeping"
  /\ worker' = [worker EXCEPT ![w] = "dialing"]
  /\ UNCHANGED <<closed, dialed, writers, handler, exitW, word, hubUp, hub, take>>

(* The iteration is over: the writer is forgotten, the next dial starts.   *)
Redial(w) ==
  /\ worker' = [worker EXCEPT ![w] = "dialing"]
  /\ dialed' = [dialed EXCEPT ![w] = None]
  /\ writers' = writers \ {dialed[w]}

UsedAny(c) == word[c] # "none"
Used(c)    == word[c] = "data"

(* A byte that is not zero: put it back and give the stream to a handler.  *)
HandlerSpawned(w) ==
  LET c == dialed[w] IN
  /\ worker[w] = "greeting" /\ Used(c)
  /\ word' = [word EXCEPT ![c] = "none"]
  /\ handler' = [handler EXCEPT ![c] = "scheduled"]
  /\ Redial(w)
  /\ UNCHANGED <<closed, exitW, hubUp, hub, take>>

(* A zero byte, or none within SOCKET_TIMEOUT.                             *)
Released(w) ==
  LET c == dialed[w] IN
  /\ worker[w] = "greeting" /\ word[c] \in {"none", "zero"}
  /\ word' = [word EXCEPT ![c] = "none"]
  /\ exitW' = [exitW EXCEPT ![c] = "closed"]
  /\ Redial(w)
  /\ UNCHANGED <<closed, handler, hubUp, hub, take>>

GreetBreaksStops(w) ==
  LET c == dialed[w] IN
  /\ worker[w] = "greeting" /\ word[c] = "none" /\ (hubW[c] = "closed" \/ ~hubUp)
  /\ exitW' = [exitW EXCEPT ![c] = "closed"]
  /\ worker' = [worker EXCEPT ![w] = "stopped"]
  /\ dialed' = [dialed EXCEPT ![w] = None]
  /\ UNCHANGED <<closed, writers, handler, word, hubUp, hub, take>>

(* The end of the stream or an error instead of a byte: close, back off;   *)
(* the writer stays in self.writers.                                       *)
GreetBreaks(w) ==
  LET c == dialed[w] IN
  /\ worker[w] = "greeting" /\ word[c] = "none" /\ (hubW[c] = "closed" \/ ~hubUp)
  /\ exitW' = [exitW EXCEPT ![c] = "closed"]
  /\ worker' = [worker EXCEPT ![w] = "sleeping"]
  /\ dialed' = [dialed EXCEPT ![w] = None]
  /\ UNCHANGED <<closed, writers, handler, word, hubUp, hub, take>>

HandlerStarts(c) ==
  /\ handler[c] = "scheduled"
  /\ handler' = [handler EXCEPT ![c] = "running"]
  /\ UNCHANGED <<closed, worker, dialed, writers, exitW, word, hubUp, hub, take>>

(* stream_handler returns, fails or unwinds: its finally closes the writer.*)
HandlerEnds(c) ==
  /\ handler[c] = "running"
  /\ handler' = [handler EXCEPT ![c] = "ended"]
  /\ exitW' = [exitW EXCEPT ![c] = "closed"]
  /\ UNCHANGED <<closed, worker, dialed, writers, word, hubUp, hub, take>>

(* close(): every task is cancelled and every tracked writer closed.  A    *)
(* handler that has not run its first step never will.                     *)
Close ==
  /\ ~closed
  /\ closed' = TRUE
  /\ worker' = [w \in Worker |-> "stopped"]
  /\ dialed' = [w \in Worker |-> None]
  /\ exitW' = [c \in Conn |-> IF c \in writers THEN "closed" ELSE exitW[c]]
  /\ handler' = [c \in Conn |-> IF handler[c] = "scheduled" THEN "skipped" ELSE handler[c]]
  /\ UNCHANGED <<writers, word, hubUp, hub, take>>

(***************************************************************************)
(* The hub: start_backward_client and watch_connection.                    *)
(***************************************************************************)
(* The credentials match: queue the connection, with a watcher.            *)
Enqueue(c) ==
  /\ hubW[c] = "auth"
  /\ hubW' = [hubW EXCEPT ![c] = "open"]
  /\ watcher' = [watcher EXCEPT ![c] = "new"]
  /\ queue' = Append(queue, c)
  /\ UNCHANGED <<exit, word, hubUp, eof, take>>

(* They do not, or do not come: the handler returns without a close.       *)
Abandon(c) ==
  /\ hubW[c] = "auth"
  /\ hubW' = [hubW EXCEPT ![c] = "abandoned"]
  /\ UNCHANGED <<exit, word, hubUp, eof, queue, watcher, take>>

(* The exit closed its end.                                                *)
EofArrives(c) ==
  /\ hubW[c] \in {"auth", "open"} /\ exitW[c] = "closed" /\ ~eof[c]
  /\ eof' = [eof EXCEPT ![c] = TRUE]
  /\ UNCHANGED <<exit, word, hubUp, hubW, queue, watcher, take>>

WatcherStarts(c) ==
  /\ watcher[c] = "new"
  /\ watcher' = [watcher EXCEPT ![c] = "watching"]
  /\ UNCHANGED <<exit, word, hubUp, hubW, eof, queue, take>>

WatcherEndsInFinally(c) ==
  /\ (watcher[c] = "watching" /\ eof[c]) \/ watcher[c] = "cancelled"
  /\ watcher' = [watcher EXCEPT ![c] = "done"]
  /\ hubW' = [hubW EXCEPT ![c] = IF eof[c] /\ @ = "open" THEN "closed" ELSE @]
  /\ UNCHANGED <<exit, word, hubUp, eof, queue, take>>

(* read() saw the end, or the task is unwound: the finally clause closes a *)
(* connection that is at its end.  "skipping" was cancelled before its     *)
(* first step and has no finally clause to run.                            *)
WatcherEnds(c) ==
  /\ (watcher[c] = "watching" /\ eof[c]) \/ watcher[c] \in {"cancelled", "skipping"}
  /\ watcher' = [watcher EXCEPT ![c] = "done"]
  /\ hubW' = [hubW EXCEPT ![c] = IF watcher[c] # "skipping" /\ eof[c] /\ @ = "open"
                                   THEN "closed" ELSE @]
  /\ UNCHANGED <<exit, word, hubUp, eof, queue, take>>

AfterCancel(st) == CASE st = "new" -> "skipping" [] st = "watching" -> "cancelled" [] OTHER -> st

(* close() of the hub's ProxyBackward: it tracks the watchers, but none of *)
(* the queued writers.                                                     *)
HubCloses ==
  /\ \E c \in Conn : watcher[c] \in {"new", "watching"}
  /\ watcher' = [c \in Conn |-> AfterCancel(watcher[c])]
  /\ UNCHANGED <<exit, word, hubUp, hubW, eof, queue, take>>

(***************************************************************************)
(* The hub: wait_open_connection and its callers.                          *)
(***************************************************************************)
Ask(t) ==
  /\ taker[t] = "idle"
  /\ taker' = [taker EXCEPT ![t] = "getting"]
  /\ UNCHANGED <<exit, word, hubUp, hub, held, asked, given>>

(* A healthy connection is returned: a request sends its first byte, the   *)
(* health check a zero byte and closes.                                    *)
Give(t, c) ==
  /\ given' = [given EXCEPT ![c] = IF t \in User THEN "user" ELSE "probe"]
  /\ IF t \in User
       THEN /\ taker' = [taker EXCEPT ![t] = "using"]
            /\ held' = [held EXCEPT ![t] = c]
            /\ \E b \in FirstByte : word' = [word EXCEPT ![c] = b]
            /\ UNCHANGED <<hubW, asked>>
       ELSE /\ taker' = [taker EXCEPT ![t] = "idle"]
            /\ held' = [held EXCEPT ![t] = None]
            /\ word' = [word EXCEPT ![c] = "zero"]
            /\ hubW' = [hubW EXCEPT ![c] = "closed"]
            /\ asked' = asked \ {t}

(* The test after the watcher is gone: a dead one is closed and the next   *)
(* one awaited.                                                            *)
Checked(t, c) ==
  \/ ~eof[c] /\ hubW[c] = "open" /\ Give(t, c)
  \/ /\ eof[c] \/ hubW[c] # "open"
     /\ taker' = [taker EXCEPT ![t] = "getting"]
     /\ held' = [held EXCEPT ![t] = None]
     /\ hubW' = [hubW EXCEPT ![c] = "closed"]
     /\ UNCHANGED <<word, asked, given>>

(* get() returns: cancel the watcher and await it; one that has already    *)
(* ended is not waited for.                                                *)
Take(t) ==
  LET c == Head(queue) IN
  /\ taker[t] = "getting" /\ queue # <<>>
  /\ queue' = Tail(queue)
  /\ IF watcher[c] = "done"
       THEN Checked(t, c) /\ UNCHANGED watcher
       ELSE /\ taker' = [taker EXCEPT ![t] = "settling"]
            /\ held' = [held EXCEPT ![t] = c]
            /\ watcher' = [watcher EXCEPT ![c] = AfterCancel(@)]
            /\ UNCHANGED <<word, hubW, asked, given>>
  /\ UNCHANGED <<exit, hubUp, eof>>

Settle(t) ==
  LET c == held[t] IN
  /\ taker[t] = "settling" /\ watcher[c] = "done"
  /\ Checked(t, c)
  /\ UNCHANGED <<exit, hubUp, eof, queue, watcher>>

(* The timeout of open_connection while the queue is empty.  During        *)
(* "settling" it has no effect: suppress() swallows it.                    *)
TimesOut(t) ==
  /\ taker[t] = "getting"
  /\ taker' = [taker EXCEPT ![t] = "idle"]
  /\ asked' = asked \ {t}
  /\ UNCHANGED <<exit, word, hubUp, hub, held, given>>

CancelDrops(t) ==
  /\ taker[t] \in {"getting", "settling"} /\ t \notin asked
  /\ taker' = [taker EXCEPT ![t] = "idle"]
  /\ held' = [held EXCEPT ![t] = None]
  /\ UNCHANGED <<exit, word, hubUp, hub, asked, given>>

(* The caller is cancelled: so too here.                                   *)
Cancel(t) ==
  /\ taker[t] \in {"getting", "settling"} /\ t \notin asked
  /\ IF taker[t] = "getting"
       THEN taker' = [taker EXCEPT ![t] = "idle"] /\ UNCHANGED asked
       ELSE asked' = asked \cup {t} /\ UNCHANGED taker
  /\ UNCHANGED <<exit, word, hubUp, hub, held, given>>

(* The request is over: its relay closes the upstream.                     *)
UseEnds(t) ==
  /\ taker[t] = "using"
  /\ taker' = [taker EXCEPT ![t] = "idle"]
  /\ held' = [held EXCEPT ![t] = None]
  /\ hubW' = [hubW EXCEPT ![held[t]] = "closed"]
  /\ asked' = asked \ {t}
  /\ UNCHANGED <<exit, word, hubUp, eof, queue, watcher, given>>

(* The environment.                                                        *)
Flip == hubUp' = ~hubUp /\ UNCHANGED <<exit, word, hub, take>>

-----------------------------------------------------------------------------
Loop(w) ==
  \/ \E c \in Conn : Dialed(w, c)
  \/ DialFails(w) \/ Wakes(w) \/ HandlerSpawned(w) \/ Released(w) \/ GreetBreaks(w)

Next ==
  \/ \E w \in Worker : Loop(w)
  \/ \E c \in Conn : \/ HandlerStarts(c) \/ HandlerEnds(c) \/ Enqueue(c) \/ Abandon(c)
                     \/ EofArrives(c) \/ WatcherStarts(c) \/ WatcherEnds(c)
  \/ \E t \in Taker : Ask(t) \/ Take(t) \/ Settle(t) \/ TimesOut(t) \/ Cancel(t) \/ UseEnds(t)
  \/ Close \/ HubCloses \/ Flip

(* Every loop and every task the event loop has ready goes on, and the     *)
(* timers fire.  Requests and handlers need not end.                       *)
Fairness ==
  /\ \A w \in Worker : WF_vars(Loop(w))
  /\ \A c \in Conn : WF_vars(WatcherStarts(c) \/ WatcherEnds(c)) /\ WF_vars(EofArrives(c))
  /\ \A t \in Taker : WF_vars(Settle(t))

Spec     == Init /\ [][Next]_vars
FairSpec == Spec /\ Fairness

-----------------------------------------------------------------------------
(* Every variable has its type.                                            *)
TypeOK ==
  /\ closed \in BOOLEAN /\ hubUp \in BOOLEAN
  /\ worker \in [Worker -> {"dialing", "greeting", "sleeping", "stopped"}]
  /\ dialed \in [Worker -> Conn \cup {None}]
  /\ \A w \in Worker : dialed[w] # None <=> worker[w] = "greeting"
  /\ writers \subseteq Conn
  /\ handler \in [Conn -> {"none", "scheduled", "running", "ended", "skipped"}]
  /\ exitW \in [Conn -> {"none", "open", "closed"}]
  /\ word \in [Conn -> {"none", "zero", "data"}]
  /\ hubW \in [Conn -> {"none", "auth", "open", "closed", "abandoned"}]
  /\ eof \in [Conn -> BOOLEAN] /\ queue \in Seq(Conn)
  /\ watcher \in [Conn -> {"none", "new", "watching", "cancelled", "skipping", "done"}]
  /\ taker \in [Taker -> {"idle", "getting", "settling", "using"}]
  /\ held \in [Taker -> Conn \cup {None}]
  /\ asked \subseteq Taker /\ given \in [Conn -> {"none", "user", "probe"}]

(* The exit serves nothing but requests: a handler runs on a connection    *)
(* only if the hub gave it to a request, never for a health check.         *)
HandlersServeRequests ==
  \A c \in Conn : handler[c] # "none" => given[c] = "user"

(* At the hub every authenticated connection that is open has exactly one  *)
(* owner: the queue, once, or one caller of wait_open_connection.          *)
HubOpenIsOwned ==
  /\ \A i, j \in 1..Len(queue) : queue[i] = queue[j] => i = j
  /\ \A s, t \in Taker : held[s] = held[t] /\ held[s] # None => s = t
  /\ Queued \cap Held = {}
  /\ \A c \in Conn : hubW[c] = "open" => c \in Queued \cup Held

(* At the exit every open connection belongs to a loop, whose writer       *)
(* close() will find, or to a handler; so close() releases them all but    *)
(* those whose handler was cancelled before its first step.                *)
ExitOpenIsOwned ==
  \A c \in Conn : exitW[c] = "open" =>
    \/ \E w \in Worker : dialed[w] = c /\ c \in writers /\ ~closed
    \/ handler[c] \in {"scheduled", "running", "skipped"}

(* While the exit is not closed, a loop gets back to an authenticated      *)
(* connection whatever the hub did to the ones before, once the hub can be *)
(* reached and has connections to spare.                                   *)
TunnelComesBack ==
  ([]~closed /\ <>[]hubUp) =>
    \A w \in Worker : []<>(worker[w] = "greeting" \/ \A c \in Conn : ~Free(c))

(* Nobody waits forever for a watcher: a caller that took a connection     *)
(* gets to test it.                                                        *)
TakerSettles == \A t \in Taker : taker[t] = "settling" ~> taker[t] # "settling"

(***************************************************************************)
(* What the repository says and the code does not keep.                    *)
(***************************************************************************)
(* check_server_alive updates availability "without hiding cancellation":  *)
(* a check that was cancelled does not go on to use a connection.          *)
CancellationIsNotHidden ==
  [][\A p \in Probe, c \in Conn : p \in asked => ~(given[c] = "none" /\ given'[c] = "probe" /\ held[p] = c)]_vars
=============================================================================
