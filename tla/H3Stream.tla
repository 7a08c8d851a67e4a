------------------------------ MODULE H3Stream ------------------------------
(* The streams of one HTTP/3 connection, on either end of it: the registry *)
(* conn.streams, the reader and writer pairs made for it, and the two      *)
(* channels that relay each of them.  The peer sends one block of headers  *)
(* on a stream, then data, and may end it; the connection may terminate    *)
(* at any time.                                                            *)
EXTENDS FiniteSets, Naturals

CONSTANTS
  Stream,         \* the streams of the connection
  MAX_UDP_FLOWS   \* which limits the streams a server accepts, too

VARIABLES
  server_side,
  up,         \* the connection has not terminated
  streams,    \* the registry: the streams events are forwarded to
  phase,      \* of a stream: "unused", "refused", "opened", "relay", "over"
  ended,      \* streams the peer has ended
  data,       \* streams whose reader holds bytes
  eof,        \* streams whose reader was fed the end
  closed,     \* streams whose writer is closed
  reads,      \* the channel that reads the stream: "none", "run" or "done"
  writes,     \* the channel that writes it
  local,      \* the socket on the other side of the relay: "open", "ended"
              \* by its peer, or "closing" because a channel closed it
  abandoned   \* history: we closed the writer before the stream ended

chans == <<reads, writes, local>>
vars  == <<server_side, up, streams, phase, ended, data, eof, closed, chans, abandoned>>

Init ==
  /\ server_side \in BOOLEAN /\ up = TRUE /\ streams = {}
  /\ phase = [s \in Stream |-> "unused"]
  /\ ended = {} /\ data = {} /\ eof = {} /\ closed = {} /\ abandoned = {}
  /\ reads = [s \in Stream |-> "none"] /\ writes = [s \in Stream |-> "none"]
  /\ local = [s \in Stream |-> "open"]

(* open_stream(), for a client that has a live connection.                 *)
Open(s) ==
  /\ ~server_side /\ up /\ phase[s] = "unused"
  /\ phase' = [phase EXCEPT ![s] = "opened"] /\ streams' = streams \union {s}
  /\ UNCHANGED <<server_side, up, ended, data, eof, closed, chans, abandoned>>

(* The headers of a new stream: a handler, or nothing at all once there    *)
(* are too many.                                                           *)
HeadersReceived(s) ==
  /\ server_side /\ up /\ phase[s] = "unused"
  /\ IF Cardinality(streams) >= MAX_UDP_FLOWS
     THEN phase' = [phase EXCEPT ![s] = "refused"] /\ UNCHANGED streams
     ELSE phase' = [phase EXCEPT ![s] = "opened"] /\ streams' = streams \union {s}
  /\ UNCHANGED <<server_side, up, ended, data, eof, closed, chans, abandoned>>

(* close() of the writer: the registry forgets the stream.                 *)
CloseWriter(s) ==
  /\ closed' = closed \union {s} /\ streams' = streams \ {s}
  /\ abandoned' = IF s \in eof THEN abandoned ELSE abandoned \union {s}

DataLosesTheEnd(s) ==
  \E bytes, last \in BOOLEAN :
    /\ up /\ phase[s] # "unused" /\ s \notin ended /\ (bytes \/ last)
    /\ ended' = IF last THEN ended \union {s} ELSE ended
    /\ data' = IF bytes /\ s \in streams THEN data \union {s} ELSE data
    /\ IF ~bytes /\ last /\ s \in streams
       THEN eof' = eof \union {s} /\ closed' = closed \union {s} /\ streams' = streams \ {s}
       ELSE UNCHANGED <<eof, closed, streams>>
    /\ UNCHANGED <<server_side, up, phase, chans, abandoned>>
(* Data of the peer, its last or not.  The end of its side closes ours.    *)
DataReceived(s) ==
  \E bytes, last \in BOOLEAN :
    /\ up /\ phase[s] # "unused" /\ s \notin ended /\ (bytes \/ last)
    /\ ended' = IF last THEN ended \union {s} ELSE ended
    /\ data' = IF bytes /\ s \in streams THEN data \union {s} ELSE data
    /\ IF last /\ s \in streams
       THEN eof' = eof \union {s} /\ closed' = closed \union {s} /\ streams' = streams \ {s}
       ELSE UNCHANGED <<eof, closed, streams>>
    /\ UNCHANGED <<server_side, up, phase, chans, abandoned>>

Terminated ==
  /\ up /\ up' = FALSE
  /\ eof' = eof \union streams /\ closed' = closed \union streams /\ streams' = {}
  /\ UNCHANGED <<server_side, phase, ended, data, chans, abandoned>>

(* The handler, or the client's prepare_connection, gives up or relays; a  *)
(* channel whose writer is closed already does not start.                  *)
Refuse(s) ==
  /\ phase[s] = "opened" /\ phase' = [phase EXCEPT ![s] = "over"]
  /\ CloseWriter(s)
  /\ UNCHANGED <<server_side, up, ended, data, eof, chans>>

Relay(s) ==
  /\ phase[s] = "opened" /\ phase' = [phase EXCEPT ![s] = "relay"]
  /\ reads' = [reads EXCEPT ![s] = "run"]
  /\ writes' = [writes EXCEPT ![s] = IF s \in closed THEN "done" ELSE "run"]
  /\ UNCHANGED <<server_side, up, streams, ended, data, eof, closed, local, abandoned>>

(* The channel that reads the stream: it forwards what there is, and when  *)
(* the stream ends, or it finds the socket it writes closing, it is over   *)
(* and closes that socket.                                                 *)
Read(s) ==
  /\ reads[s] = "run" /\ (s \in data \/ s \in eof)
  /\ data' = data \ {s}
  /\ IF s \in eof \/ local[s] = "closing"
     THEN reads' = [reads EXCEPT ![s] = "done"] /\ local' = [local EXCEPT ![s] = "closing"]
     ELSE UNCHANGED <<reads, local>>
  /\ UNCHANGED <<server_side, up, streams, phase, ended, eof, closed, writes, abandoned>>

(* The channel that writes the stream: it ends with the socket it reads,   *)
(* or when it was given bytes and finds the writer closed.                 *)
WriteEnds(s) ==
  /\ writes[s] = "run" /\ writes' = [writes EXCEPT ![s] = "done"]
  /\ IF s \in closed THEN UNCHANGED <<closed, streams, abandoned>> ELSE CloseWriter(s)
  /\ UNCHANGED <<server_side, up, phase, ended, data, eof, reads, local>>
LocalOver(s)   == local[s] # "open" /\ WriteEnds(s)
LocalSends(s)  == local[s] = "open" /\ s \in closed /\ WriteEnds(s)

(* The peer of the other socket has no more to say.                        *)
LocalEnds(s) ==
  /\ phase[s] = "relay" /\ local[s] = "open" /\ local' = [local EXCEPT ![s] = "ended"]
  /\ UNCHANGED <<server_side, up, streams, phase, ended, data, eof, closed, reads, writes, abandoned>>

Next ==
  \/ \E s \in Stream :
       \/ Open(s) \/ HeadersReceived(s) \/ DataReceived(s) \/ Refuse(s) \/ Relay(s)
       \/ Read(s) \/ LocalOver(s) \/ LocalSends(s) \/ LocalEnds(s)
  \/ Terminated

Fairness == \A s \in Stream : WF_vars(Read(s)) /\ WF_vars(LocalOver(s))
Spec == Init /\ [][Next]_vars /\ Fairness

---------------------------------------------------------------------------
(* When the peer ends a stream, or the connection terminates, both of its  *)
(* channels come to their end, unless this side had closed the writer      *)
(* first.  (quic.py, quic_event_received, http_event_received)             *)
H3EndStopsBoth ==
  \A s \in Stream :
    phase[s] = "relay" /\ (s \in ended \/ ~up)
      ~> (reads[s] = "done" /\ writes[s] = "done") \/ s \in abandoned

(* "Forget an HTTP/3 stream after both sides finish."  (quic.py,           *)
(* close_stream)                                                           *)
ForgottenAfterBothFinish ==
  \A s \in Stream : phase[s] = "relay" /\ s \notin streams => s \in eof /\ s \in closed
=============================================================================
