# Verification of pproxy

TLA+ models of the pproxy server (`src/pproxy`), the TLC configurations that check them on
small instances, and TLAPS proofs of their main properties for every value of the constants.

pproxy runs on one asyncio event loop. Nothing is preempted: the only places where another
handler can get in are the `await`s and the callbacks of asyncio. Every model here follows
that rule: **one action is what runs between two awaits**, or one callback. A cancellation
may arrive at any await, and a task that is cancelled before its first step never runs at
all: its `finally` clause is not reached. Many of the defects that unit tests miss live
there.

## 1. The system

| part | state it keeps | operations | talks to | hard behaviour |
|---|---|---|---|---|
| Stream service (`server/handlers.py`) | per connection: two writers | `stream_handler`, `_open_upstream`, `_relay_stream` | scheduling, relay, protocols | failure and cancellation at every await; what is closed on which path |
| Scheduling (`server/common.py`) | the shared list of remotes, `alive`, `connections` | `schedule` | every handler, the health check | the list is rotated under an iteration; counters move at other handlers' awaits |
| Health check (`server/connections.py`) | its position in that list | `check_server_alive` | remotes | runs forever or not at all |
| Relay (`relay.py`, `protocols/base.py`) | two channels, `pending_drain` | `channel`, `relay_with_taskgroup`, `close_writer` | two transports | half-close, reset, back-pressure, cancellation |
| UDP association table (`server/connections.py`) | `udpmap`, `udp_lru`, load counter, packet buffers | touch, discard, evict, open, `connection_made` / `lost` / `received`, `close` | datagram handlers | a table read before an await and written after it |
| UDP admission and task registry (`server/connections.py`, `runtime/tasks.py`) | `udp_inflight`, the set of tasks | `create_task`, `cancel_all`, `wait_closed` | all owners | cancellation before the first step; tasks born during shutdown |
| Reverse tunnel (`ProxyBackward`) | loops, `writers`, the queue of idle connections, watchers | `start_server_run`, `start_backward_client`, `wait_open_connection`, `close` | two processes, health check | who owns an idle connection; cancellation of a caller that cancels |
| HTTP/2 (`h2.py`) | shared handshake, stream table, per-stream buffer and two events | event loop, `get_stream`, `wait_h2_connection` | scheduling | lost wake-ups, stale session |
| QUIC, HTTP/3 (`quic.py`) | shared connection task, waiters, UDP flow table | `wait_quic_connection`, `connection_terminated` | scheduling | events of an old connection against a new one |
| SSH (`ssh.py`) | shared session future | `wait_ssh_connection`, `wait_open_connection` | scheduling | shared future cancelled by one waiter |
| HTTP/3 streams (`quic.py`) | the registry of streams, a reader and a writer for each | `open_stream`, `quic_event_received`, `http_event_received`, `close_stream` | relay, handlers | an end or a termination that must reach both channels; when a stream may be forgotten |
| WebSocket and CFP (`websocket.py`, `protocols/websocket.py`) | frame decoder, close event and lock | `feed_data`, `write_frame`, `graceful_close` | relay | frames split anywhere, close against close |
| TLS adapter (`tls.py`) | memory buffers, relay task | `sslwrap` | every protocol | ordering of EOF and data |
| Protocol negotiation (`protocols/`) | none shared | `guess`, `accept`, `connect` | handlers | short reads, handshakes that share one stream |
| Ciphers, plugins (`cipher.py`, `cipherpy.py`, `plugin.py`) | nonces, buffers | encrypt, decrypt, patch | streams | chunk boundaries, counters of the two sides, bytes that arrived before a layer was installed |
| Application (`app.py`, `admin.py`) | list of servers | start, shutdown, reload | everything | order of cancel, close and wait |

What makes each part correct:

- *Stream service*: a finished handler has closed what it opened; a handler that is told to
  stop ends.
- *Scheduling*: no remote is lost, round robin is fair, the load counter is the load, every
  request gets an upstream.
- *Health check*: `alive` comes to agree with reality.
- *Relay*: bytes in order and at most once; a clean end is complete; the write buffer is
  bounded; when one end is over both sockets are let go.
- *UDP table*: map and access order agree, one association per client, the counter is the
  number of associations, the limit holds.
- *Registry*: admission is exact; after `wait_closed` nothing is running.
- *Reverse tunnel*: every open connection has one owner at each end; the tunnel comes back;
  the exit serves requests only.
- *Shared sessions* (HTTP/2, QUIC, SSH): one live session at a time, no waiter stuck, a dead
  session is replaced.
- *HTTP/3 streams*: the end of a stream ends its relay.
- *WebSocket, ciphers, plugins*: what is delivered does not depend on how the bytes were
  cut.
- *CFP*: the worker is asked to close once, and the close comes to its end.
- *Negotiation*: only users get in, both sides agree on the destination, and a handshake
  takes its own bytes and no other.
- *Application*: an interrupt is answered, by a restart exactly when one was asked for.

The list of hazards, each at its line, is in `PROJECT.json`; the properties below are named
there next to the hazard they would catch.

## 2. Modules

| module | models | state and actions against the code |
|---|---|---|
| `UdpAssociation` | the UDP table of `ProxyDirect` | `udpmap`, `lru`, `connections`, `buf` are the attributes of those names; an `Assoc` is one run of `udp_open_connection` whose `stage` says between which two awaits it is; `Open`, `Reuse`, `Create`, `ConnectionMade`, `DatagramReceived`, `ConnectionLost`, `Fail`, `Cancel`, `Close` |
| `Scheduling` | `schedule()` | operators without state: which positions of the list each algorithm may choose, and what the list is afterwards |
| `StreamProxy` | `stream_handler`, `_open_upstream`, `check_server_alive` | extends `Scheduling`; `pc` is the await a handler is at, `checker` the position of the health check in the list |
| `Relay` | the two channels of a connection | byte counts in the reader, the channel, the write buffer and at the peer; flow control of asyncio as the channel uses it |
| `StreamPair` | abstract: what relaying one connection promises | `Relay` implements it (`KeepsPromise`) |
| `TaskRegistry` | `TaskRegistry` and the datagram limit | `life` of a task as asyncio has it; `tracked` is the set; `wait`, `snapshot` the run of `wait_closed` |
| `ReverseTunnel` | `ProxyBackward` at both ends | `worker`, `dialed`, `writers`, `handler` at the exit; `queue`, `watcher`, `taker`, `held` at the hub; `exitW` and `hubW` are the two ends of one connection |
| `QuicSession` | the shared connection of `ProxyQUIC` and `ProxyH3` | `handshake`, `connTask`, `waiters`, `flows` are the attributes; a `Conn` is one run of `_run_quic_connection`, `task` the await it is at, `future` its handshake future; `caller` and `on` say where in `_wait_for_quic_connection` a request is |
| `SharedSession` | abstract: what a session that several requests share promises them | `QuicSession` implements it (`SharesOneSession`) |
| `SharedFuture` | the future several requests await | its states and `Settled`: the first to settle it decides, and a cancellation settles it too |
| `SshSession` | the shared connection of `ProxySSH` | `sshconn` is the attribute, `future` and `value` the futures it held; a `Conn` is one call of `asyncssh.connect`, `link` its connection; `caller` and `on` say what a request awaits |
| `H2Session` | the shared handshake of `ProxyH2` and its read loop | `handshake` is the state of the one future, `task` the await `handler` is at, `gone` that the connection ended |
| `H2Stream` | the write side of the streams of one HTTP/2 connection | `streams` is the table, `buf` and `closed` the writer's; `job` is the event `write_job` awaits, `woken` that it was set; `connWindow` and `window` are the h2 library's credit, `over` and `headed` its state of the connection and of the streams (`headed` begins empty where the requests are ours and full where they are the peer's) |
| `H3Stream` | the request streams of one HTTP/3 connection, at either end | `streams` is the registry, `eof` and `data` what a reader holds, `closed` the writer; `reads` and `writes` are the two channels of the relay |
| `Handshake` | `guess`, `accept` and `connect` of the protocols, `registry.accept`, `prepare_connection` | `client` is the round of `connect()`, `server` the protocol and phase of `accept()`; `wire` and `buf` the bytes in flight and in the StreamReader |
| `Framing` | one direction under `StreamCipherAdapter`, the plugins and one-time authentication | `enc` and `dec` the layers of the writer and of the reader with their counters and buffers; `Attach` and `Patch` install a layer over bytes that have already come |
| `Frames` | a WebSocket frame and its bytes | its fields and limits, `xor_mask_bytes`, `write_frame` |
| `WebSocket` | `WebSocketStream` | extends `Frames`; `ws` is the adapter; `feed_data` a function of what is buffered, `wire` the bytes not yet arrived |
| `CfpClose` | `graceful_close` | `at` the await a caller is at, `holder` the lock, `heard` the close event |
| `Lifecycle` | `main()`, `_start_servers`, `_shutdown_servers`, the reload of `admin.py` | `pc` is where `main()` is; a connection or datagram has a `task` and, apart from it, a transport (`link`): the shutdown cancels the one and waits for the other |
| `Connection`, `Decoders`, `Sessions`, `Program` | composition: `Relay` beside `Handshake`; `Framing` beside `WebSocket`; the three sessions, `H3Stream` and `CfpClose`; `TaskRegistry` and `Lifecycle` | declare the variables of the modules they bring together, and name their properties, for the runs and the proofs alike |
| `MCUdpAssociation`, `MCRelay`, `MCSessions`, `MCTaskRegistry` | several modules under one question | a behaviour is one of one module, chosen at the start; the others rest. The modules share no state, so nothing is hidden by this and their interleavings are not multiplied |
| `MCStreamProxy` | an instance | constants and symmetry only |
| `MCH2Stream` | `H2Stream` with the history of its buffers (`late`) | for `WrittenIsSent` only |
| `...Proofs` | TLAPS proofs | extend the module they are about; `SessionProofs` is about `Sessions`, `DecoderProofs` about `Decoders`, `RelayProofs` is about `Connection`, that is `Relay` and `Handshake`; `TaskRegistryProofs` about `Program` |

`Scheduling` is the part of `StreamProxy` that needs no state. `StreamProxy` treats what
flows through a relay as one step, `Relay` treats what is around one relay as given (`stop`,
`shut`); `StreamPair` is what `StreamProxy` may assume of it. `QuicSession` is what a
`StreamProxy` handler waits for when its remote is a QUIC one: its `Cancel` there is a
`CancelWait` here, its failed open a `Raise`. `SshSession` and `H2Session` answer the same
request in their own way: SSH's callers connect themselves and settle whatever future is
published when they are done, HTTP/2 has one future for the life of the proxy. `H2Stream`
starts when `H2Session` has its result: who opens the connection is the session's business;
its end (`Terminated`) is in both, because the streams meet it at their next send. A stream
may be opened on a connection that is over, which the session still hands out. `H3Stream`
likewise starts with a connection that is up. `Handshake` is the inside of what is one step
(`accepting`, `open`) in `StreamProxy`; what it leaves in the two streams is what `Relay`
starts with (`NothingAtTheSeam`). `Framing` and `WebSocket` sit between the two streams and the socket;
`CfpClose` is what a channel of `Relay` does at its end when the remote is a CFP worker.
`Lifecycle` sees a registry only as the set of tasks it cancels. What `TaskRegistry` says of
a task cancelled before its first step is a case of its own in `StreamProxy` (`skipped`),
`ReverseTunnel` (`skipped`, `skipping`) and `QuicSession` (`skipped`).

The history variables are `calm` (`UdpAssociation`: none of the four races happened so far;
`SshSession`: no caller cancelled, settled or forgot a session that was not its own),
`abrupt` (`StreamProxy`: the handler ended by a cancellation or an error its clause does not
list), `late` (`TaskRegistry`: a task was created during `wait_closed`; `MCH2Stream`: a stream
was written to after it was closed), `raised` (`H2Stream`: a starved stream got credit by a
change of settings) and `lowered` (a change of settings took credit away), `torn`
(`Framing`: a decoder that promises nothing took a cut piece), `why` (`Handshake`: a
timeout, an unreachable destination or a guess that saw too little), `abandoned`
(`H3Stream`) and `asked` (`Lifecycle`). They let a property be stated exactly: it holds
unless that happened, and a violation run or a mutant shows that the exception is needed.
`given` (`ReverseTunnel`) and `passed` (`StreamProxy`) record what was handed out.

Mutated definitions stand before the definition they mutate (`...Keeps...`, `...OffByOne`).
They are part of no specification; each makes the property it belongs to fail, which shows
that the property can see such a bug.

## 3. Runs

| run | instance | checks |
|---|---|---|
| `udp_association` | table: 3 clients, 3 association attempts, table of 1, at most 2 in flight, 5 datagrams; stacks: 4 bytes, AEAD packets of 2, plugin frames of 3, records of 4, a nonce that wraps at 3; WebSocket: 3 frames, lengths in the second byte up to 2, frames up to 5, messages up to 3 | `TablesAgree`, `InOrder`, `CalmAccounting`, `CalmBound`, `CalmReachable`; `PreservedUnlessTorn`; `CutsDoNotMatter` |
| `udp_one_association` | the same with 2 clients | violated: `OneAssociationPerClient` |
| `stream_proxy` | 2 handlers, 2 remotes, 2 hosts, all four algorithms | `LoadIsExact`, `NothingLeftOpen`, `RoundRobinFair` |
| `relay` | relay: 1 byte from the client, 4 from the upstream, chunks and drain interval of 2, water marks 0; handshakes: every protocol with right, wrong and no credentials, every form of the address, one-time authentication wanted and needed or not, and every chain of two | `WriteBufferBounded`, `KeepsPromise`, `OneEndStopsBoth`; `PeersAgree`, `NothingAtTheSeam`, `CompatibleMeet` |
| `task_registry` | registry: 3 tasks, limit 2; service: 1 handler, 3 remotes of which one is never probed; program: 1 TCP and 1 UDP listener, 3 requests, 3 loads | `AdmissionCounts`, `QuietAfterWait`; `HealthFollowsReality`, `StopEndsHandler`; `ShutdownReachesAll`, `InterruptIsAnswered` |
| `reverse_tunnel` | 1 loop, 2 connections, 1 request, 1 health check | `HandlersServeRequests`, `HubOpenIsOwned`, `ExitOpenIsOwned`, `TunnelComesBack`, `TakerSettles` |
| `tunnel_hides_cancellation` | the same | violated: `CancellationIsNotHidden` |
| `sessions` | QUIC: 2 requests, 3 connections, 2 UDP clients, a flow table of 1; SSH: 3 requests, 2 connections; HTTP/2: 2 requests; HTTP/3: 2 streams, limit 1, both ends; CFP: 3 callers | `SharesOneSession`, `HandshakeIsBacked`, `FlowsOfOneConnection`; `SshSessionIsSound`; `EveryWaiterAnswered` (all three sessions); `H3EndStopsBoth`; `AsksOnceAndCloses`, `GracefulCloseEnds` |
| `h2_future_orphaned` | 2 requests | violated: `PendingIsBacked` |
| `h2_stream` | 2 streams with a buffer of 2, windows of 1 | `NeverPastWindow`, `StarvedForAReason`, `FailsForAReason`, `CreditIsUsed`, `CloseEndsJob` |
| `h2_drops_data` | the same | violated: `WrittenIsSent` |
| `h3_stream_forgotten` | 2 streams, limit 1 | violated: `ForgottenAfterBothFinish` |

The type invariants of the modules with proofs are proved and not checked again, as are
`NoRemoteLost` (the remotes are the ones configured), `CleanEndIsComplete` (a relay that
ended cleanly passed everything on) and `OneContext` (one QUIC connection at a time, which
`SharesOneSession` says again).

**Why the bounds are enough.** A table of one entry makes every open at the limit an
eviction, and three attempts give the three-way race (one open replaced by a second while a
third evicts). Two handlers and two remotes reach every order of choosing, rotating and
probing that involves a pair; under fairness (`task_registry`) there are three remotes
because a rotation that hides a remote from the check needs a third. In `relay` the upstream
can overrun the client's buffer (four bytes against a water mark of zero and a drain
interval of two) while the client, one byte, has every stage to itself. Three tasks are one
more than the datagram limit, and one more than a snapshot that can be raced. Two
connections of one loop let one be idle in the hub's queue while the loop is on the next; a
request and a health check are the two kinds of callers, and they compete for the same
connection. Three QUIC connections are one that is up, one that is still closing and one
that a caller is still told about; a slot is used again only when nothing refers to it.
Three SSH requests are one that connects, one that waits and one whose failure forgets the
session of the other two; two SSH connections let the one that was forgotten come up beside
its successor. A buffer of two against windows of one lets a stream starve with data left,
settings can take such a window below zero, and two streams share the credit of the
connection. Of the stacks, four bytes fill two AEAD packets and overflow a plugin frame and
a record, and a nonce that wraps at 3 wraps within one behaviour, in the middle of a packet;
the bytes arrive in pieces of every size, before and after a layer is attached. Three
WebSocket frames are a message in parts with a control frame between them, or a Close with
something behind it; the frame and message limits each are exceeded by one of the frames. A
chain of two handshakes has the one seam there is: where the answer to the first and the
request of the second meet in one stream. Two streams of HTTP/3 against a limit of one make
the server refuse one. Three CFP callers are one that closes, one that waits for the lock
and one that finds the transport closing. Three requests are one that is cancelled, one that
posts the reload and one that is accepted just before the interrupt; three loads are two
reloads. The proofs
hold for all sizes, so a bound that hid a safety violation would show there.

**Fairness.** Weak fairness is given to what asyncio itself keeps doing: a task that is
ready takes its step (`Unwind`, `Channel`, `Skip`, `Settle`, the watchers), a
timer that is armed fires (`Wake`, `Wakes`), a callback that is due comes (`Lost`, `Arrive`,
`Flush`). A remote, a peer, a request and a handler are never required to do anything:
`OneEndStopsBoth` holds with a peer that never sends, `HealthFollowsReality` assumes only
that the probe, which has its own 3 second timeout, ends. `Flush` is fair because a
transport whose peer does not read is eventually reset by the kernel. `TunnelComesBack`
assumes that the hub can be reached from some point on; `HealthFollowsReality` that no
request rotates the list any more, because a rotation can make the check miss the same
remote every round. For `EveryWaiterAnswered` the QUIC part assumes that a name resolution
ends and that QUIC's own idle timeout ends a handshake nobody answers; the peer owes
nothing. The SSH part assumes that a request ends what it awaits, which its timeout
(`open_connection`) makes it do, and not that the waiter itself gives up; the HTTP/2 part
only that the read loop, once it left its loop, goes on. In `H2Stream` only a write job that
has something to wake for is fair; neither credit nor a close has to come. In `H3Stream` a
channel that has something to read, an end included, goes on. `GracefulCloseEnds` assumes in
its statement that the worker reads in the end or the connection breaks, because the drains
have no limit; the wait for the worker's Close has one, and its timer fires. In `Lifecycle`
the loop runs what is ready, a cancelled task unwinds or hides its cancellation, and a
client takes what it is sent or goes away once its transport was closed; a request may last
forever, and so may a handler that hides its cancellation. No run uses strong fairness.

`CHECK_DEADLOCK` is off everywhere: all the modelled parts may come to rest (all tasks
ended, all attempts used, everything closed).

## 4. What the runs found

Five runs end in a counterexample. Each is a place where the code does not do what its
documentation says; the quotation is in `PROJECT.json` under `findings`.

1. `udp_open_connection` reads the table before the await and writes it after: two datagrams
   of one client open two associations, of which the table keeps one.
2. `ProxyBackward.wait_open_connection` suppresses the cancellation of its own caller while
   it awaits the watcher it cancelled, so a cancelled health check goes on to spend a
   connection.
3. `write_job` looks at `closed` before it looks at the buffer: what was written before
   `close()` is dropped when the job had no turn between the two.
4. `ProxyH2.wait_h2_connection` publishes the handshake future before it dials and leaves it
   pending when the dial fails: every later request of that remote waits for nobody, until
   its own timeout.
5. `close()` of an HTTP/3 writer forgets the stream, and `close_stream` forgets it as soon
   as one side has finished, where the docstring says both: when the local side of a relay
   ends first, neither data nor an end nor the termination of the connection reaches the
   reader any more.

What the passing runs show beside that: the accounting of the UDP table goes wrong only
through one of the four races `calm` names (an open for an address that already has one in
progress, a failed or cancelled open, an eviction of an association without transport, a
late `connection_lost` that discards the entry of a newer association); the admission
counter is off by exactly the tasks that were cancelled before their first step; an upstream
writer is left open only by a cancellation or an unlisted error between `open_connection`
and the relay; a QUIC handshake is left pending only when `close()` cancels its task before
the first step, and the flow table holds a stream of a dead connection only when `close()`
cancelled that connection after its handshake had its result and before the caller went on.
A cancelled QUIC connection ends a second time when its timer fires (`TerminatedLate`) and
then empties the flow table of the connection that replaced it; its clients get new streams
with their next datagram and lose the replies on the old ones. A job of an HTTP/2 stream
that waits for credit is not woken by a raise of the peer's initial window, nor by anything
once the peer ended its half of the stream: `StarvedForAReason` is limited to streams still
in the table, and `CloseEndsJob` to jobs that do not wait for credit. A stream closed while
its window is below zero fails its job in the h2 library instead of ending it. A GOAWAY, or an
error in what the peer sent, closes the connection for the library and is told to no stream:
a job fails at its next send, and one that waits for data or for credit waits on.
`FailsForAReason` names these reasons, and a stream whose headers were never sent; what it
rules out is a send that fails for want of credit alone, which the loop over a closed stream
comes close to (a chunk of no bytes is sent, and the library takes it).
`StarvedForAReason` guards what `docs/PERFORMANCE.md` (line 191) reports as fixed: updates
of the connection's window that no stream heard of. `TaskRegistry.wait_closed` clears the
whole set after waiting for a snapshot, so a task created meanwhile runs on, tracked by
nobody; `QuietAfterWait` is limited to waits nobody raced in this way (`late`).

The shared SSH and HTTP/2 sessions await the future itself, so one request that times out
while it waits cancels the future of all of them (QUIC shields its own). An SSH call settles
and forgets the future that is published when it ends, which may be a newer one: the
connection it thereby leaves behind is up, carries the channels opened on it, and is out of
the reach of `close()`. The half of `SshSessionIsSound` about one session holds while
`calm`: what spoils a session is a waiter that is cancelled, a caller that fails on a future
of somebody else, or a channel that one server refuses while the connection is fine. In
HTTP/2 the one future is never replaced, so a handshake that failed, was cancelled by a
waiter or whose connection died later answers all requests from then on; the streams of a
connection that died are told nothing. Last, with `rr` and no eligible remote, `schedule`
falls through to the configuration error meant for unknown algorithms: the handler of
`StreamProxy` closes its client and ends where the other algorithms send the request DIRECT.

*Handshakes.* The client of HTTP and WebSocket reads a response head and goes on whatever
its status says, so `PeersAgree` claims nothing of a refused HTTP hop but that the server
let nobody in. `AuthTable` is made for each connection, so what it remembers is never asked
for a second time. A protocol is guessed from what the first `read()` returns and not asked
again when more arrives: `CompatibleMeet` excludes guesses that saw less than they asked for
(`why`).

*Framing.* Two decoders promise less than the others (`torn`): the ticket plugin compares
what it has with the length of the payload and forgets the header, so a record that lacks no
more bytes than its header is taken short; and `rc4` has an empty initialization vector,
which the code takes for one that has not been sent yet, so its key stream starts over with
every write and every piece. With anything else, `PreservedUnlessTorn` says that nothing is
lost whatever the cuts, wherever the layer is attached. The counter of AEAD packets wraps at
`1 << NONCE_LENGTH`, that is 4096, on both sides alike. In `WebSocket`, frames behind a
Close are still delivered when they come in the same piece and are lost when they do not,
which `CutsDoNotMatter` leaves open.

*HTTP/3.* The end of the peer's half of a stream also ends ours: the writer is closed by the
channel that read it. A stream beyond the limit is ignored without an answer.

*Application.* A connection accepted just before the interrupt has no handler task to
cancel; what is cancelled is the task that accepts it, which closes the transport right
after `connection_made`, so its handler runs over a closed connection and does not hold up
the exit (`ShutdownReachesAll`). What does hold it up is a handler that takes its
cancellation for that of the watcher (finding 2), for as long as its client stays
(`HeldUp`). `wait_closed()` counts transports: a cancelled handler whose client went first
is not waited for, and what it had yet to close stays open in a loop that does not run
again. A second interrupt during start or shutdown is caught by nobody. The flag for a
reload is set before the reply to the POST is awaited and stays set when that reply fails,
so a later Ctrl-C restarts.

*Recorded, not caught.* Where the code as it is does what a hazard fears, a property that
excludes it (`calm`, `abrupt`, `why`, `torn`, `raised`, `late`) says what holds without it
and would not see it. `PROJECT.json` lists such a hazard with a `note` and without that
property, or with the property and the half it does cover.

## 5. Proofs

TLAPS proves the following for every value of the constants, from the named assumptions of
the modules (finite sets of clients, positive limits, sentinels outside the sets they mark).
All eight proof modules are checked to the last leaf.

| module | theorems | inductive invariant and why it is needed |
|---|---|---|
| `UdpAssociationProofs` | `TypeCorrect`, `TablesAlwaysAgree`, `CalmAlwaysReachable`, `CalmAlwaysAccounted`, `CalmAlwaysBounded`, `DatagramsStayInOrder` | `TInv` (types, known clients, agreeing tables). `CalmMap`: while calm, every live association is mapped to by its client, every mapping is live, and an address being resolved is unmapped; without the last conjunct `Create` could replace a mapping. `Counts` adds the counter, with the cardinality of the attempts in flight. `OrderInv`: what was sent and what is buffered rises, and all of it came before the next datagram |
| `StreamProxyProofs` | `TypeCorrect`, `RemotesAreKept`, `RoundRobinIsFair`, `LoadStaysExact`, `NothingIsLeftOpen` | `Lifecycle` ties the stage of a handler to its channels and writers. For fairness, `Waiting`: a remote that was passed over p times stands at least p places before the end of the list, so nobody waits longer than the list is long |
| `RelayProofs`, relay | `TypeCorrect`, `CleanEndsAreComplete`, `WriteBuffersAreBounded`, `RelayKeepsPromise` | conservation of bytes (arrived = read buffer + write buffer + received unless the side is broken), `paused` whenever the buffer is above the high mark, and that a channel which is not in `drain` has put no more than `pend` bytes on top of that mark; the refinement maps every step of `Relay` to a step of `StreamPair` or a stutter |
| `RelayProofs`, handshakes: the server alone | `OnlyUsersGetIn` | `HsInv`: everybody before the hop the server is at has been let in, and whoever is at it once the server dials (`HsCount`), which makes the next entry the one of this hop; a protocol that learns its user before the request has learned it when it reads the request (`HsKnown`), so no phase can be skipped |
| `RelayProofs`, handshakes: both ends | `PeersAlwaysAgree`, `NoByteAtTheSeam`, `CompatibleSidesMeet` | `PeerInv`: all that goes up over a chain, and all that comes down, is one sequence laid out before the first step (`Up`, `Down`); each end is at a known place of each (`SentUp`, `ReadUp`, `SentDown`, `HeardDown`), and what is buffered and in flight is exactly what lies between (`UpFlow`, `DownFlow`). A server that has taken the bytes is its client's protocol at a phase that goes with its place, or one that will refuse them (`Learned`); an answer on its way means that its hop was admitted (`Vouched`); and sides configured alike have not given up (`Going`) |
| `TaskRegistryProofs`, registry | `TypeCorrect`, `AdmissionIsExact`, `WaitLeavesQuiet` | the counter equals the cardinality of the live and the skipped datagram tasks, which changes by one element per step; while `wait_closed` waits, everything alive is in its snapshot unless `late` |
| `TaskRegistryProofs`, lifecycle | `ShutdownAlwaysReachesAll` | `LInv`: an open connection has a task that is neither missing nor done, so that there is one to cancel; no listener is up while `main()` shuts down, without which a connection could come in behind the cancellation; and a `main()` none of whose listeners came up has no request, because it shuts down without a cancellation |
| `ReverseTunnelProofs` | `TypeCorrect`, `HandlersAreForRequests`, `HubAlwaysOwns`, `ExitAlwaysOwns` | `LoopOwns`: a loop is alone on its connection, which is open, tracked and without a handler. `FreshUntilGiven`: a connection that is being authenticated, queued or tested has not been used, and the first two are in nobody's hands; so `Give` gives it once and its first byte is the caller's |
| `SessionProofs`, QUIC | `TypeCorrect`, `OneContextAlways`, `HandshakeAlwaysBacked`, `FlowsAlwaysOfOne` | `OneTask`: a task that has not ended is the one the session knows, from which `OneContext` follows and which lets a new connection be made without looking at the others. `Shape`: the waiter count is the number of callers that wait. `WaiterUp`: a caller about to take a protocol takes one whose task has not seen its end; without it the flow table could receive a stream of a finished connection |
| `SessionProofs`, QUIC as a shared session | `QuicSharesOneSession` | `Settling`: a future is pending exactly while its task is on the way to settle it or was cancelled before its first step, and then it is the published one. So a step that settles a future finds nobody else at work, and a caller that finds the handshake pending joins the one connection there is; every step of `QuicSession` is a step of `SharedSession` or a stutter |
| `SessionProofs`, SSH | `SshTypeCorrect`, `SshHandshakeAlwaysBacked`, `OneSessionWhileCalm`, `SessionAlwaysSound` | `Shape`: two callers never connect for the same slot, and what is opened on or published is a connection that was up. `CalmAttempt`: while calm, whoever connects does so for the pending future that is published, which makes the connection it brings up the published one. `Forgotten` is the lemma for every way a call can fail |
| `SessionProofs`, CFP | `AlwaysAsksOnceAndCloses` | `CfpInv`: who is between the drains holds the lock, who is at the first `drain()` is there before the question, and once the question is out the transport is closing or its asker still has the lock |
| `H2StreamProofs` | `TypeCorrect`, `CreditIsKept`, `NobodyStarvesInVain`, `FailuresHaveReasons` | the invariants are inductive together with the type; `FailsForAReason` needs the first half of `NeverPastWindow`, because a connection window below zero would be another way to fail; what it has to exclude is a send that fails on a connection that is up, with headers, no reset and windows never lowered |
| `DecoderProofs`, WebSocket | `WsTypeCorrect`, `CutsNeverMatter` | `WsInv`: k frames are decoded and none of them was bad; what was delivered, is kept of an open message and was answered is what those k frames say; the buffer followed by what is on the wire is the bytes of the frames after them, or what is left of frame k + 1 once its header is read; and an open adapter has gone as far as its buffer goes. The last conjunct is what makes the end of the bytes the end of the frames |
| `DecoderProofs`, framing | `NothingLostUnlessTorn` | `FInv`: between what a layer is still to get from below and what it is still to deliver above, its reader standing at d and its writer at e, there is a relation (`Spans`: whole frames in order, a stretch of the key stream, an initialization vector that has or has not come); four such relations make a `Chain` from the bytes under way to the bytes above the ciphers and the plugin, and `Held` says how these complete what the reader holds: as they are, as the request, as chunks of one-time authentication the reader does not know yet, or as chunks it knows |

Each proof has one step per action, and below it one per conjunct the action can disturb;
what sequences do under put and get (`Appended`, `Popped`, `ListGrows`), what a rotation
does to a list (`MoveToEndPermutes`), what a pop does to the access order (`WithoutPresent`)
and what a concatenation of sequences is made of (`FlattenConcat`, `Regroup`, `Shift`) are
lemmas of their own. Where a fact is about every length, its proof takes the least number
that would be an exception (`Least`, from the least-element theorem of the library) and
leads it to a contradiction; so the loop of `feed_data` is followed round by round
(`OneRound`, `WholeLoop`) without an induction theorem.

The proof about `Framing` goes from a frame to the connection. A frame that a layer makes is
one its decoder recognizes by its head, takes whole, finds sound and gives back (`FrameSits`,
one lemma per kind of frame); the pieces of a write give the write back (`SplitIs`), so what
a layer makes of a write are frames that carry it (`EncodeFrames`); and the decoder's loop
takes the frames that are all there and stops in front of the next (`LoopTells`,
`DecodeFramed`). Hence one layer of the reader takes from its relation and one of the writer
adds to it (`TakeLayer`, `PassLayer`), and so do four on top of each other (`ThroughChain`,
`DownChain`, `WriteChain`). What is left is the order of installation: `Attach` over an
opening that some plugins take for themselves (`OpeningIs`, `ExpectedIs`), and `Patch` over
chunks that were already delivered as they were (`GivenChunks`). The proof assumes of the
constants what `StackOK` and `BoundsOK` name: stacks of the kinds `prepare_ciphers` makes,
and that data and frames stay below `Modulus`, as the lengths of the code's frames stay
below the width of their fields. `FInv` quantifies over sequences of any length, so no run
checks it; the run checks what it implies.

The proof about `Handshake` is for chains of any length, any destination and payload, and any
cuts of the bytes. It assumes `HopsOK`: names are numbers that are no byte of a protocol,
an address has one of the three forms, and the protocols a server tries are told apart by
their first bytes (`ToldApart`). The last is a condition on the configuration that
`registry.accept` relies on and does not check: it asks the protocols in the order they are
given, and the first that does not say no has the connection. With `ss` and no users in front
of `socks4`, the code takes the version of a SOCKS4 request for the type of an IPv6 address,
and nothing could be said about the two ends. What a wrong guess may do is named
(`Mistakes`): HTTP takes the GET of a WebSocket, and SOCKS4 a Shadowsocks request with an
IPv6 address (one that begins with a byte other than 01, on which SOCKS4 goes on); both
refuse it later, and `PeerInv` says so. The run's chains satisfy the assumption, wrong
guesses included.

The proof goes from the fields of a message to the chain. A buffer that agrees with a text as
far as it goes (`Agrees`) is read into the same fields as the text, or into too few to go on
(`ScanTwo` to `ScanFour`, one lemma per kind of field); so each server makes of a prefix of
what its own client writes either nothing or what the client meant (`Understood`: one lemma
per protocol and phase, from `HeadServer` to `RequestServer`), and each client the same of
its answer (`Heard`). A guess sees the first bytes of the text (`GuessOwn`, `GuessOther`).
The texts of the hops follow one another (`Laid`), and a stream between two places loses its
front to a read and grows at its end with a write (`StreamTakes`, `StreamSends`). Then there
is one lemma per step of `Handshake` (`SayKeeps`, `HearKeeps`, `GuessKeeps`, `ReadKeeps`,
`ReachKeeps`, ...). That the two ends never both wait (`MeetFromInv`) comes from the places
alone: a server that waits in the hop of its client lacks bytes its client has yet to write,
so the client waits for an answer the server gave before it began to wait (`NeitherFirst`);
if the two are at different hops, one of them is past what it is said to wait for.

Only model-checked: everything temporal (`HealthFollowsReality`, `StopEndsHandler`,
`OneEndStopsBoth`, `TunnelComesBack`, `TakerSettles`,
`EveryWaiterAnswered`, `CreditIsUsed`, `CloseEndsJob`, `H3EndStopsBoth`,
`GracefulCloseEnds`, `InterruptIsAnswered`), because the prover
has neither fairness nor ENABLED; and the counterexamples. Every invariant that a run checks
is proved, and so are both refinements.

## 6. Not modelled, and abstractions

- *Bytes.* In `StreamProxy` a negotiation is one step that succeeds with some destination,
  fails, or is cancelled; `Handshake` has its bytes. There a field of fixed size is one
  token, names are numbers, and an HTTP head is its method or status, its credentials, its
  target and its end. In `Framing` a byte is a number below a prime, encryption a shift that
  depends on the position in the key stream, a checksum a number computed from what it
  covers, compression a reversal: what is looked at is who counts what and where the cuts
  are, not the strength of a cipher. The first byte a request sends through a tunnel is
  `"zero"` or `"data"`, because under a cipher it belongs to a random initialization vector;
  a request whose first byte is zero is dropped by the exit like a health check, and the
  model has that behaviour.
- *Negotiation.* Plain HTTP requests and their rewriting (`http_channel`, `HTTPOnly`), the
  admin protocol, transparent destinations the kernel tells and the datagram forms of the
  protocols are not in `Handshake`; neither is `WS.accept` without a parameter, which is a
  tunnel. The server of CFP is an external worker; the model gives it the answers its client
  expects.
- *Framing.* One-time authentication writes the length of a chunk in two bytes, which a
  write of 65536 bytes or more exceeds; the model has no such write. A WebSocket over a
  cipher, whose layers the reader and the writer put on in different orders, would need
  `WebSocket` and `Framing` on one stream. `PacketCipher` (datagrams) is not in it.
- *Lifecycle.* `wait_closed()` waits for the transports of its listener, as asyncio's own
  loop does since Python 3.12.1; with uvloop installed it returns at once, and main() then
  ends earlier. The listener of a reverse tunnel waits for its own tasks, which is
  `TaskRegistry`'s business; it is not among `Tcp`. What a request holds besides its client
  connection is `StreamProxy`'s. Daemon mode, the system proxy and the test mode are not in it.
- *The event loop.* StreamReader, transports, tasks and queues are asyncio's and are
  modelled from how pproxy uses them (marked external in the map).
- *Reverse tunnel.* The exit's back-off time, the number of dead entries that pile up in the
  hub's queue and the writers that stay in `writers` after a failure are not counted: a
  `Conn` is a slot that is used again only when both ends let go of it.
- *QUIC.* aioquic is modelled by its callbacks and by what its awaits return. A stream of
  HTTP/3 carries one block of headers: trailers, and headers that end the stream (a FIN on
  HEADERS), are not in `H3Stream`, nor is a reset of the stream by the peer's QUIC, nor the
  handler of a plain QUIC listener.
- *CFP.* Only the channel that writes to the worker asks for the graceful close in the code
  (`protocols/base.py`, line 72). `CfpClose` lets several callers ask, which is what the lock
  is there for and more than the program does.
- *SSH.* asyncssh is modelled by what its awaits return. A chain of SSH jumps opens its
  inner connections inside `opening`; the channel bridge of `patch_stream` and the SSH
  listener are not in the model.
- *HTTP/2.* Data is counted, frames are not; the read side of a stream is asyncio's
  StreamReader and has no flow control of its own here.
- *Not modelled:* the TLS stream of `tls.py`: what its relay does in which order is decided
  by the `ssl` memory buffers, whose states the code does not show. `datagram_handler`
  beyond its admission. Reporting, system proxy settings, URI parsing and diagnostics have
  no protocol of their own and will not be.


## 7. Plan

Done, in this order: `UdpAssociation`, `Scheduling` and `StreamProxy`, `Relay` with
`StreamPair`, `TaskRegistry`, `ReverseTunnel`, `QuicSession`, `H2Stream`, `SshSession` (each
with its proofs), `H2Session`, `CfpClose`, `H3Stream`, `Lifecycle`, `WebSocket`, `Framing`,
`Handshake`, `SharedSession`.

What is left, by how much it would add:

1. Plain HTTP forwarding (`http_channel`): how it recognizes the next request in a
   connection it already relays.
2. A cipher and a WebSocket on one stream, for the order of their layers.
3. The TLS stream of `tls.py`, if its library is given states from its documentation.

`SshSession` and `H2Session` do not implement `SharedSession` and are not meant to: a request
that gives up cancels the future all the others await. What they do promise is
`SshSessionIsSound` and `EveryWaiterAnswered`.
