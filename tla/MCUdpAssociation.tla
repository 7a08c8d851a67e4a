-------------------------- MODULE MCUdpAssociation --------------------------
(* Three ways the proxy carries bytes: the datagrams of an association,    *)
(* the frames under a stream, and the messages of a WebSocket.  A          *)
(* behaviour is one of one kind, chosen at the start; the others rest.     *)
(*                                                                         *)
(* Association attempts and client addresses are interchangeable.          *)
EXTENDS UdpAssociation, Decoders, TLC

(* The stacks: every cipher in each direction under every opening, the     *)
(* plugins that frame plain text, rc4, and one-time authentication.        *)
Stack(c, p, o, w, r) == [cipher |-> c, plugin |-> p, opening |-> o, writer |-> w, request |-> r]
MCStacks ==
  {Stack(c, "none", o, w, 0) : c \in {"stream", "aead"}, o \in {"none", "http", "ticket"}, w \in {"client", "server"}}
    \union {Stack("stream", p, o, "client", 0) : p \in {"simple", "deflate"}, o \in {"none", "ticket"}}
    \union {Stack(c, "none", o, "client", 2) : c \in {"stream", "aead"}, o \in {"none", "ticket"}}
    \union {Stack("rc4", "none", "none", "client", 0)}

(* The frames: of every kind, in one or several parts, oversized,          *)
(* reserved, unmasked.                                                     *)
Sent(op, data) == [op |-> op, fin |-> TRUE, rsv |-> FALSE, masked |-> TRUE, data |-> data]
MCFrames ==
  {Sent(2, <<1>>), Sent(1, <<2, 3, 4>>), Sent(0, <<5, 6>>), Sent(8, <<3>>), Sent(9, <<4>>), Sent(10, <<>>),
   Sent(2, <<1, 2, 3, 4, 5, 6>>), Sent(9, <<1, 2, 3>>), Sent(3, <<>>),
   [Sent(2, <<7, 8>>) EXCEPT !.fin = FALSE], [Sent(0, <<>>) EXCEPT !.fin = FALSE],
   [Sent(9, <<>>) EXCEPT !.fin = FALSE], [Sent(2, <<1>>) EXCEPT !.rsv = TRUE], [Sent(2, <<1>>) EXCEPT !.masked = FALSE]}

VARIABLE kind

MCInit ==
  /\ kind \in {"datagrams", "stream", "websocket"} /\ Init /\ L!Init /\ W!Init
  /\ kind # "stream" => stack = Stack("rc4", "none", "none", "client", 0)

MCNext ==
  /\ UNCHANGED kind
  /\ \/ kind = "datagrams" /\ Next /\ UNCHANGED <<framing, socket>>
     \/ kind = "stream" /\ L!Next /\ UNCHANGED <<vars, socket>>
     \/ kind = "websocket" /\ W!Next /\ UNCHANGED <<vars, framing>>

MCSpec == MCInit /\ [][MCNext]_<<kind, vars, framing, socket>>

Symmetry == Permutations(Assoc) \cup Permutations(Addr)
=============================================================================
