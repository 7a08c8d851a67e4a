----------------------------- MODULE Lifecycle -----------------------------
(***************************************************************************)
(* main(): start every listener, run the loop until an interrupt, shut     *)
(* down, and start over if the administration endpoint asked for it.  The  *)
(* interrupt is a signal, or is raised by the handler of the POST itself.  *)
(*                                                                         *)
(* A request is an accepted connection with its handler, or a datagram     *)
(* with its task.  asyncio's Server.wait_closed() waits for the transports *)
(* of the connections and for no task, so the two are kept apart.          *)
(***************************************************************************)
EXTENDS Naturals

CONSTANTS
  Tcp,        \* listeners whose wait_closed() waits for their connections
  Udp,        \* listeners that have no wait_closed()
  Request,
  MaxLoads    \* bound: how often main() may be entered

Listener == Tcp \union Udp

VARIABLES
  pc,       \* main(): "new", "start", "run", "wait" (wait_closed), "last"
            \* (shutdown_asyncgens), "over", or "dead" by an interrupt that
            \* nobody catches
  load,     \* how often main() has been entered: every load has its loop
  untried,  \* listeners that have not been started yet
  servers,  \* listeners that are up
  reload,   \* admin.config['reload']
  asked,    \* history: a POST asked for it during this load
  owner,    \* the listener of a request
  loop,     \* the load it belongs to
  link,     \* its transport: "none", "open", "closing" (close() was called),
            \* "lost" (connection_lost: the listener no longer counts it)
  task      \* "none"; "queued": connection_made is, and the accepting task
            \* waits for it, or "refused": that task was cancelled; "created":
            \* before its first step; "running"; "posting": it has set the
            \* flag and sends its reply; "cancelled"; "leaving": cancelled
            \* where nothing can hide it; "hidden": it took the cancellation
            \* for another one and runs on; "done"

request == <<owner, loop, link, task>>
vars    == <<pc, load, untried, servers, reload, asked, request>>

Running == pc \in {"start", "run", "wait", "last"}
Mine(c) == Running /\ loop[c] = load   \* its loop is the one that runs

Init ==
  /\ pc = "new" /\ load = 0 /\ untried = {} /\ servers = {}
  /\ reload = FALSE /\ asked = FALSE
  /\ owner = [c \in Request |-> CHOOSE l \in Listener : TRUE]
  /\ loop = [c \in Request |-> 0]
  /\ link = [c \in Request |-> "none"] /\ task = [c \in Request |-> "none"]

(* main() up to _start_servers(); whoever enters it again has reset the    *)
(* flag.                                                                   *)
EnterKeepsFlag ==
  /\ pc' = "start" /\ load' = load + 1 /\ untried' = Listener /\ servers' = {}
  /\ UNCHANGED reload /\ asked' = FALSE

Enter ==
  /\ pc' = "start" /\ load' = load + 1 /\ untried' = Listener /\ servers' = {}
  /\ reload' = FALSE /\ asked' = FALSE
Begin == pc = "new" /\ Enter /\ UNCHANGED request

(* One listener after the other, streams first; one that fails does not    *)
(* stop the rest.                                                          *)
StartServer ==
  \E l \in untried :
    /\ pc = "start" /\ (l \in Tcp \/ untried \intersect Tcp = {})
    /\ untried' = untried \ {l}
    /\ servers' \in {servers, servers \union {l}}
    /\ UNCHANGED <<pc, load, reload, asked, request>>

Started ==
  /\ pc = "start" /\ untried = {}
  /\ pc' = IF servers = {} THEN "wait" ELSE "run"
  /\ UNCHANGED <<load, untried, servers, reload, asked, request>>

(* all_tasks() has the handlers and the tasks that accept a connection.    *)
ToldHandlers == [created |-> "leaving", running |-> "cancelled", posting |-> "leaving"]
Told ==
  [queued  |-> "refused",
   created |-> "leaving", running |-> "cancelled", posting |-> "leaving"]

(* _shutdown_servers(), up to its first await: every task is cancelled and *)
(* every listener closed.  Outside of run_forever() nobody catches the     *)
(* interrupt.                                                              *)
Interrupted(now) ==
  IF pc = "run"
    THEN /\ pc' = "wait" /\ servers' = {}
         /\ task' = [c \in Request |-> IF loop[c] = load /\ now[c] \in DOMAIN Told
                                         THEN Told[now[c]] ELSE now[c]]
    ELSE pc' = "dead" /\ task' = now /\ UNCHANGED servers

Signal ==
  /\ Running /\ Interrupted(task)
  /\ UNCHANGED <<load, untried, reload, asked, owner, loop, link>>

(***************************************************************************)
(* The requests, while the loop they belong to runs.                       *)
(***************************************************************************)
(* A connection counts from the first step of the task that accepts it.    *)
Accept(c, l) ==
  /\ Running /\ l \in servers /\ task[c] = "none"
  /\ owner' = [owner EXCEPT ![c] = l] /\ loop' = [loop EXCEPT ![c] = load]
  /\ link' = [link EXCEPT ![c] = IF l \in Tcp THEN "open" ELSE "none"]
  /\ task' = [task EXCEPT ![c] = IF l \in Tcp THEN "queued" ELSE "created"]
  /\ UNCHANGED <<pc, load, untried, servers, reload, asked>>

Becomes(c, st, ln) ==
  /\ task' = [task EXCEPT ![c] = st] /\ link' = [link EXCEPT ![c] = ln]
  /\ UNCHANGED <<pc, load, untried, servers, owner, loop>>
Keeps == UNCHANGED <<reload, asked>>

(* transport.close(), of one that may be closed already.                   *)
Shut(c) == IF link[c] = "open" THEN "closing" ELSE link[c]

(* The handler gets its task; an accepting task that was cancelled closes  *)
(* the transport right after, before anything was read from it.            *)
ConnectionMade(c) ==
  /\ Mine(c) /\ Keeps
  /\ \/ task[c] = "queued" /\ Becomes(c, "created", link[c])
     \/ task[c] = "refused" /\ Becomes(c, "created", Shut(c))

HandlerStarts(c) ==
  Mine(c) /\ task[c] = "created" /\ Becomes(c, "running", link[c]) /\ Keeps
Ends(c) ==
  Mine(c) /\ task[c] \in {"running", "hidden"} /\ Becomes(c, "done", Shut(c)) /\ Keeps

(* The finally clause of the handler closes the writer; for a handler that *)
(* never had a step, asyncio does it.                                      *)
Unwinds(c) ==
  Mine(c) /\ task[c] \in {"cancelled", "leaving"} /\ Becomes(c, "done", Shut(c)) /\ Keeps

(* A handler that waits for a connection of a reverse tunnel may take its  *)
(* cancellation for that of the watcher.                                   *)
Hides(c) ==
  /\ Mine(c) /\ task[c] = "cancelled" /\ owner[c] \in Tcp
  /\ Becomes(c, "hidden", link[c]) /\ Keeps

(* The transport goes with the peer, wherever the handler is, or once it   *)
(* was closed and the peer has taken what was written.                     *)
LinkLost(c) ==
  /\ Mine(c) /\ link[c] = "open" /\ task[c] \notin {"queued", "refused"}
  /\ Becomes(c, task[c], "lost") /\ Keeps
Flushed(c) == Mine(c) /\ link[c] = "closing" /\ Becomes(c, task[c], "lost") /\ Keeps

(* The POST: the flag is set, the reply awaited, the interrupt raised;     *)
(* when the client is gone before it took the reply there is none.         *)
Post(c) ==
  /\ Mine(c) /\ task[c] = "running" /\ link[c] = "open" /\ load < MaxLoads
  /\ Becomes(c, "posting", link[c]) /\ reload' = TRUE /\ asked' = TRUE
ReplyFails(c) ==
  Mine(c) /\ task[c] = "posting" /\ link[c] = "lost" /\ Becomes(c, "done", "lost") /\ Keeps
Replied(c) ==
  /\ Mine(c) /\ task[c] = "posting" /\ Interrupted([task EXCEPT ![c] = "done"])
  /\ link' = [link EXCEPT ![c] = Shut(c)]
  /\ UNCHANGED <<load, untried, reload, asked, owner, loop>>

-----------------------------------------------------------------------------
(* wait_closed() of every listener that has one: its transports are gone.  *)
(* Of a handler whose peer went first nothing is awaited.                  *)
Waited ==
  /\ pc = "wait"
  /\ \A c \in Request : loop[c] = load /\ owner[c] \in Tcp => link[c] \in {"none", "lost"}
  /\ pc' = "last"
  /\ UNCHANGED <<load, untried, servers, reload, asked, request>>

(* main() is entered again, with the arguments of the first time, or the   *)
(* program is over.                                                        *)
Restart == pc = "last" /\ reload /\ load < MaxLoads /\ Enter /\ UNCHANGED request
Over ==
  /\ pc = "last" /\ ~reload /\ pc' = "over"
  /\ UNCHANGED <<load, untried, servers, reload, asked, request>>

Next ==
  \/ Begin \/ StartServer \/ Started \/ Signal \/ Waited \/ Restart \/ Over
  \/ \E c \in Request :
       \/ \E l \in Listener : Accept(c, l)
       \/ ConnectionMade(c) \/ HandlerStarts(c) \/ Ends(c) \/ Unwinds(c) \/ Hides(c)
       \/ LinkLost(c) \/ Flushed(c) \/ Post(c) \/ ReplyFails(c) \/ Replied(c)

(* The loop runs what is ready, a task that was cancelled unwinds, and a   *)
(* client takes what it is sent or goes away.  A request may last forever. *)
Fairness ==
  /\ WF_vars(StartServer \/ Started \/ Waited \/ Restart \/ Over)
  /\ \A c \in Request : WF_vars(ConnectionMade(c) \/ HandlerStarts(c) \/ Unwinds(c)) /\ WF_vars(Flushed(c))

Spec == Init /\ [][Next]_vars /\ Fairness

---------------------------------------------------------------------------
(* Every connection that is still open when the tasks have been cancelled  *)
(* has a task that was told so: also one that was accepted just before,    *)
(* whose handler has no task yet and gets one only afterwards.  No other   *)
(* can hold up wait_closed().  (app.py, _shutdown_servers)                 *)
ShutdownReachesAll ==
  pc \in {"wait", "last"} =>
    \A c \in Request : loop[c] = load /\ link[c] = "open"
                       => task[c] \in {"refused", "cancelled", "leaving", "hidden"}

(* An interrupt is answered: main() starts again when a POST of this load  *)
(* asked for it, and ends otherwise.  The exceptions are a handler that    *)
(* hides its cancellation, for as long as its client stays, and a second   *)
(* interrupt, which kills the program.                                     *)
(* (app.py, main, _shutdown_servers; admin.py, configs_handler)            *)
HeldUp == \E c \in Request : Mine(c) /\ task[c] = "hidden" /\ link[c] = "open"
InterruptIsAnswered ==
  /\ pc = "wait" /\ ~asked ~> pc \in {"over", "dead"} \/ HeldUp
  /\ pc = "wait" /\ asked ~> pc \in {"start", "dead"} \/ HeldUp
=============================================================================
