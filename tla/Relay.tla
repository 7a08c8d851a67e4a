------------------------------- MODULE Relay -------------------------------
(***************************************************************************)
(* The bytes of one relayed connection: the two channels of                *)
(* relay_with_taskgroup (relay.py, protocols/base.py) between the client's *)
(* socket and the upstream's.  The channel that reads socket s writes      *)
(* Other(s), and closes it when it ends.                                   *)
(*                                                                         *)
(* Bytes are counted, not named: every queue is first in, first out, so a  *)
(* count says which prefix of the stream a place holds.  The StreamReader, *)
(* the transport and its flow control are asyncio's, modelled from how the *)
(* channel uses them.                                                      *)
(***************************************************************************)
EXTENDS Integers, FiniteSets

CONSTANTS
  MaxSend,   \* bound: bytes the peer of each socket sends
  Chunk,     \* read(65536)
  Drain,     \* DRAIN_BUFFER_SIZE
  High, Low, \* the transport's water marks
  RLimit     \* the StreamReader's limit: it stops reading above 2 * RLimit

Socket   == {"client", "upstream"}
Other(s) == IF s = "client" THEN "upstream" ELSE "client"

ASSUME SizeAssumption ==
  /\ MaxSend \in [Socket -> Nat] /\ Chunk \in Nat \ {0} /\ Drain \in Nat \ {0}
  /\ High \in Nat /\ Low \in 0..High /\ RLimit \in Nat

VARIABLES
  sent,     \* bytes the peer of a socket has sent
  fin,      \* the peer of a socket will send no more
  arrived,  \* how many of them the StreamReader was fed
  rbuf,     \* how many of those nobody has read
  eof,      \* feed_eof was called
  exc,      \* the reader has an exception
  sock,     \* the transport
  wbuf,     \* bytes in the transport's write buffer
  paused,   \* pause_writing is in force
  got,      \* bytes the peer of a socket has received
  ch,       \* the channel that reads a socket
  pend,     \* pending_drain of that channel
  clean,    \* normal_eof: its loop saw the end of the stream
  stop,     \* the TaskGroup is unwinding
  shut      \* ProxyDirect.close closed the client's writer

peers   == <<sent, fin, got>>
readers == <<arrived, rbuf, eof, exc>>
writers == <<sock, wbuf, paused>>
tasks   == <<ch, pend, clean, stop, shut>>
vars    == <<peers, readers, writers, tasks>>

AtEof(s)     == eof[s] /\ rbuf[s] = 0
IsClosing(s) == sock[s] # "open"

Init ==
  /\ sent = [s \in Socket |-> 0] /\ fin = [s \in Socket |-> FALSE]
  /\ arrived = [s \in Socket |-> 0] /\ rbuf = [s \in Socket |-> 0]
  /\ eof = [s \in Socket |-> FALSE] /\ exc = [s \in Socket |-> FALSE]
  /\ sock = [s \in Socket |-> "open"] /\ wbuf = [s \in Socket |-> 0]
  /\ paused = [s \in Socket |-> FALSE] /\ got = [s \in Socket |-> 0]
  /\ ch = [s \in Socket |-> "new"] /\ pend = [s \in Socket |-> 0]
  /\ clean = [s \in Socket |-> FALSE] /\ stop = FALSE /\ shut = FALSE

(***************************************************************************)
(* The peers and the transports.                                           *)
(***************************************************************************)
PeerSends(s) ==
  /\ ~fin[s] /\ sent[s] < MaxSend[s]
  /\ sent' = [sent EXCEPT ![s] = @ + 1]
  /\ UNCHANGED <<fin, got, readers, writers, tasks>>

PeerFinishes(s) ==
  /\ ~fin[s]
  /\ fin' = [fin EXCEPT ![s] = TRUE]
  /\ UNCHANGED <<sent, got, readers, writers, tasks>>

Reading(s) == sock[s] = "open" /\ rbuf[s] <= 2 * RLimit

(* data_received: the reader is fed until its buffer is too long.          *)
Arrive(s) ==
  /\ Reading(s) /\ arrived[s] < sent[s]
  /\ \E n \in 1..(sent[s] - arrived[s]) :
       /\ n <= Chunk
       /\ arrived' = [arrived EXCEPT ![s] = @ + n]
       /\ rbuf' = [rbuf EXCEPT ![s] = @ + n]
  /\ UNCHANGED <<peers, eof, exc, writers, tasks>>

(* eof_received: the write side stays open.                                *)
ArriveEof(s) ==
  /\ Reading(s) /\ fin[s] /\ arrived[s] = sent[s] /\ ~eof[s]
  /\ eof' = [eof EXCEPT ![s] = TRUE]
  /\ UNCHANGED <<peers, arrived, rbuf, exc, writers, tasks>>

(* The peer takes bytes of the write buffer; at the low-water mark a       *)
(* channel that waits in drain() goes on.                                  *)
Flush(s) ==
  /\ sock[s] # "lost" /\ wbuf[s] > 0
  /\ wbuf' = [wbuf EXCEPT ![s] = @ - 1]
  /\ got' = [got EXCEPT ![s] = @ + 1]
  /\ paused' = [paused EXCEPT ![s] = @ /\ wbuf[s] - 1 > Low]
  /\ UNCHANGED <<sent, fin, readers, sock, tasks>>

(* connection_lost after close(), once the buffer is empty.                *)
Lost(s) ==
  /\ sock[s] = "closing" /\ wbuf[s] = 0
  /\ sock' = [sock EXCEPT ![s] = "lost"]
  /\ eof' = [eof EXCEPT ![s] = TRUE]
  /\ UNCHANGED <<peers, arrived, rbuf, exc, wbuf, paused, tasks>>

(* The connection breaks: what the transport held is gone.                 *)
Reset(s) ==
  /\ sock[s] # "lost"
  /\ sock' = [sock EXCEPT ![s] = "lost"]
  /\ exc' = [exc EXCEPT ![s] = TRUE]
  /\ wbuf' = [wbuf EXCEPT ![s] = 0]
  /\ paused' = [paused EXCEPT ![s] = FALSE]
  /\ UNCHANGED <<peers, arrived, rbuf, eof, tasks>>

(***************************************************************************)
(* BaseProtocol.channel.                                                   *)
(***************************************************************************)
Over(s) == ch[s] \in {"ended", "skipped"}

EndedAborts(s) ==
  /\ ch' = [ch EXCEPT ![s] = "ended"]
  /\ sock' = [sock EXCEPT ![Other(s)] = "lost"]

EndedKeepsOpen(s) ==
  /\ ch' = [ch EXCEPT ![s] = "ended"]
  /\ UNCHANGED sock

(* close_writer in the finally clause.                                     *)
Ended(s) ==
  LET w == Other(s) IN
  /\ ch' = [ch EXCEPT ![s] = "ended"]
  /\ sock' = [sock EXCEPT ![w] = IF @ = "open" THEN "closing" ELSE @]

(* The while condition, evaluated with the variables' new values.          *)
Continue(s) ==
  IF (eof[s] /\ rbuf'[s] = 0) \/ IsClosing(Other(s))
    THEN Ended(s) ELSE ch' = [ch EXCEPT ![s] = "reading"] /\ UNCHANGED sock

(* First step of the task: normal_eof is what at_eof() says before it.     *)
Start(s) ==
  /\ ch[s] = "new" /\ ~stop
  /\ clean' = [clean EXCEPT ![s] = AtEof(s)]
  /\ IF AtEof(s) \/ IsClosing(Other(s))
       THEN Ended(s)
       ELSE ch' = [ch EXCEPT ![s] = "reading"] /\ UNCHANGED sock
  /\ UNCHANGED <<peers, readers, wbuf, paused, pend, stop, shut>>

(* A transport that is lost, or closed with nothing left to send, swallows *)
(* what is written to it.                                                  *)
Accepts(w) == sock[w] = "open" \/ (sock[w] = "closing" /\ wbuf[w] > 0)

EnoughNever(p) == FALSE
Enough(p)      == p >= Drain

(* read() returns data: write it, and drain() when enough was written      *)
(* since the last drain; only drain() says that the transport is lost.     *)
Forward(s) ==
  LET w == Other(s)
      n == IF rbuf[s] < Chunk THEN rbuf[s] ELSE Chunk
      p == pend[s] + n
  IN
  /\ ch[s] = "reading" /\ rbuf[s] > 0 /\ ~exc[s]
  /\ rbuf' = [rbuf EXCEPT ![s] = @ - n]
  /\ IF Accepts(w)
       THEN /\ wbuf' = [wbuf EXCEPT ![w] = @ + n]
            /\ paused' = [paused EXCEPT ![w] = @ \/ wbuf[w] + n > High]
       ELSE UNCHANGED <<wbuf, paused>>
  /\ pend' = [pend EXCEPT ![s] = IF Enough(p) THEN 0 ELSE p]
  /\ IF Enough(p) /\ sock[w] = "lost" THEN Ended(s)
     ELSE IF Enough(p) /\ paused'[w]
       THEN ch' = [ch EXCEPT ![s] = "draining"] /\ UNCHANGED sock
       ELSE Continue(s)
  /\ UNCHANGED <<peers, arrived, eof, exc, clean, stop, shut>>

(* drain() returns, or raises because the connection was lost meanwhile.   *)
Drained(s) ==
  LET w == Other(s) IN
  /\ ch[s] = "draining" /\ (~paused[w] \/ sock[w] = "lost")
  /\ IF sock[w] = "lost" \/ AtEof(s) \/ IsClosing(w)
       THEN Ended(s) ELSE ch' = [ch EXCEPT ![s] = "reading"] /\ UNCHANGED sock
  /\ UNCHANGED <<peers, readers, wbuf, paused, pend, clean, stop, shut>>

(* read() returns b'': the end of the stream.                              *)
SeesEof(s) ==
  /\ ch[s] = "reading" /\ AtEof(s) /\ ~exc[s]
  /\ clean' = [clean EXCEPT ![s] = TRUE]
  /\ Ended(s)
  /\ UNCHANGED <<peers, readers, wbuf, paused, pend, stop, shut>>

(* read() raises: the reader's exception comes before its buffer.          *)
SeesReset(s) ==
  /\ ch[s] = "reading" /\ exc[s]
  /\ Ended(s)
  /\ UNCHANGED <<peers, readers, wbuf, paused, pend, clean, stop, shut>>

(* The handler is cancelled, or a channel raised what it does not catch:   *)
(* the TaskGroup cancels what still runs.                                  *)
Stop ==
  /\ ~stop /\ \E s \in Socket : ~Over(s)
  /\ stop' = TRUE
  /\ UNCHANGED <<peers, readers, writers, ch, pend, clean, shut>>

Cancelled(s) ==
  /\ stop /\ ~Over(s)
  /\ IF ch[s] = "new" THEN ch' = [ch EXCEPT ![s] = "skipped"] /\ UNCHANGED sock
                      ELSE Ended(s)
  /\ UNCHANGED <<peers, readers, wbuf, paused, pend, clean, stop, shut>>

(* ProxyDirect.close closes the writer of the client.                      *)
CloseListener ==
  /\ sock["client"] = "open"
  /\ sock' = [sock EXCEPT !["client"] = "closing"]
  /\ shut' = TRUE
  /\ UNCHANGED <<peers, readers, wbuf, paused, ch, pend, clean, stop>>

(* stream_handler's finally closes the client once both channels ended.    *)
HandlerEnds ==
  /\ \A s \in Socket : Over(s)
  /\ sock["client"] = "open"
  /\ sock' = [sock EXCEPT !["client"] = "closing"]
  /\ UNCHANGED <<peers, readers, wbuf, paused, tasks>>

-----------------------------------------------------------------------------
Transport(s) == Arrive(s) \/ ArriveEof(s) \/ Flush(s) \/ Lost(s)
Channel(s) ==
  \/ Start(s) \/ Forward(s) \/ Drained(s) \/ SeesEof(s) \/ SeesReset(s) \/ Cancelled(s)

Next ==
  \/ \E s \in Socket : \/ PeerSends(s) \/ PeerFinishes(s) \/ Reset(s)
                       \/ Transport(s) \/ Channel(s)
  \/ Stop \/ CloseListener \/ HandlerEnds

(* The loop runs every ready task and polls every socket; peers take what  *)
(* is sent to them.                                                        *)
Fairness ==
  /\ \A s \in Socket : /\ WF_vars(Arrive(s) \/ ArriveEof(s)) /\ WF_vars(Flush(s))
                        /\ WF_vars(Lost(s)) /\ WF_vars(Channel(s))
  /\ WF_vars(HandlerEnds)

Spec     == Init /\ [][Next]_vars
FairSpec == Spec /\ Fairness

-----------------------------------------------------------------------------
(* Every variable has its type.                                            *)
TypeOK ==
  /\ sent \in [Socket -> Nat] /\ fin \in [Socket -> BOOLEAN]
  /\ arrived \in [Socket -> Nat] /\ rbuf \in [Socket -> Nat]
  /\ eof \in [Socket -> BOOLEAN] /\ exc \in [Socket -> BOOLEAN]
  /\ sock \in [Socket -> {"open", "closing", "lost"}]
  /\ wbuf \in [Socket -> Nat] /\ paused \in [Socket -> BOOLEAN]
  /\ got \in [Socket -> Nat]
  /\ ch \in [Socket -> {"new", "reading", "draining", "ended", "skipped"}]
  /\ pend \in [Socket -> 0..(Drain - 1)]
  /\ clean \in [Socket -> BOOLEAN] /\ stop \in BOOLEAN /\ shut \in BOOLEAN

(* A channel that ended because it saw the end of its stream has handed    *)
(* every byte the reader was fed to the other side, which has received it  *)
(* or will: only the loss of that side takes bytes away.                   *)
CleanEndIsComplete ==
  \A s \in Socket :
    clean[s] /\ ch[s] = "ended" /\ ~exc[Other(s)] =>
      arrived[s] = got[Other(s)] + wbuf[Other(s)]

(* Back-pressure: a peer that does not read costs at most this much.       *)
WriteBufferBounded ==
  \A s \in Socket : wbuf[s] <= High + (Drain - 1) + Chunk

(* Once a side is finished or broken, or the service closes the client,    *)
(* both sockets are let go, unless the channel that would have closed the  *)
(* upstream was cancelled before its first step.                           *)
OneEndStopsBoth ==
  \A s \in Socket :
    (fin[s] \/ sock[s] # "open") ~>
      ((\A t \in Socket : sock[t] = "lost") \/ ch["client"] = "skipped")

(* The relay keeps the promise of StreamPair.                              *)
Pair == INSTANCE StreamPair WITH
  offered   <- sent,
  finished  <- fin,
  delivered <- got,
  closed    <- [s \in Socket |-> sock[s] = "lost"],
  broken    <- stop \/ shut \/ \E s \in Socket : exc[s]

KeepsPromise == Pair!Spec
=============================================================================
