----------------------------- MODULE WebSocket -----------------------------
(* WebSocketStream: frames that arrive in pieces, decoded as far as the    *)
(* buffer allows.  The peer sends any of a set of frames, good and bad.    *)
EXTENDS Frames, SequencesExt

VARIABLES
  sent,     \* the frames of the peer
  wire,     \* their bytes, not yet arrived
  attached, \* the adapter is installed
  ws        \* the adapter: what is buffered, decoded, delivered and answered

vars == <<sent, wire, attached, ws>>

None == [op |-> -1]
After(s, n) == SubSeq(s, n + 1, Len(s))

(* _fail(): the writer is closed and the error goes to the transport.      *)
Fail(s) == [s EXCEPT !.failed = TRUE, !.closed = TRUE]

(* _emit_message()                                                         *)
Emit(s, payload) ==
  LET all == s.message \o payload
  IN IF Len(all) > MAX_MESSAGE_SIZE THEN Fail(s)
     ELSE IF s.frame.fin THEN [s EXCEPT !.message = <<>>, !.open = FALSE, !.out = @ \o all]
     ELSE [s EXCEPT !.message = all, !.open = TRUE]

HandleCloseTwice(s, payload) == [s EXCEPT !.answers = Append(@, [op |-> CLOSE, data |-> payload]),
                                          !.close_sent = TRUE, !.closed = TRUE]
HandleClose(s, payload) ==
  [s EXCEPT !.answers = IF s.close_sent THEN @ ELSE Append(@, [op |-> CLOSE, data |-> payload]),
            !.close_sent = TRUE, !.closed = TRUE]

(* _handle_frame()                                                         *)
Handle(s, payload) ==
  CASE s.frame.op = CONT  -> IF s.open THEN Emit(s, payload) ELSE Fail(s)
    [] s.frame.op \in {1, 2} -> IF s.open THEN Fail(s) ELSE Emit(s, payload)
    [] s.frame.op = PING  -> [s EXCEPT !.answers = Append(@, [op |-> PONG, data |-> payload])]
    [] s.frame.op = CLOSE -> HandleClose(s, payload)
    [] s.frame.op = PONG  -> s
    [] OTHER              -> Fail(s)

(* One round of the loop of feed_data(): a header, or the payload of the   *)
(* header before.                                                          *)
Header(s) ==
  LET first  == s.buffer[1] % 32
      masked == s.buffer[2] >= Masked
      marker == IF masked THEN s.buffer[2] - Masked ELSE s.buffer[2]
      size   == 2 + (IF marker >= Medium THEN 1 ELSE 0) + (IF masked THEN 1 ELSE 0)
      op     == first % 16
      n      == IF marker >= Medium THEN s.buffer[3] ELSE marker
  IN IF s.buffer[1] >= 32 \/ masked # expect_masked THEN Fail(s)
     ELSE IF Len(s.buffer) < size THEN s
     ELSE IF (op >= 8 /\ (first < 16 \/ n > Small)) \/ n > MAX_FRAME_SIZE THEN Fail(s)
     ELSE [s EXCEPT !.frame = [op |-> op, fin |-> first >= 16, masked |-> masked, size |-> n],
                    !.buffer = After(@, size)]
Payload(s) ==
  LET data == SubSeq(s.buffer, 1, s.frame.size)
      done == Handle(s, IF s.frame.masked THEN xor_mask_bytes(data) ELSE data)
  IN IF Len(s.buffer) < s.frame.size THEN s
     ELSE [done EXCEPT !.buffer = After(@, s.frame.size), !.frame = None]
Round(s) == IF s.failed THEN s
            ELSE IF s.frame # None THEN Payload(s)
            ELSE IF Len(s.buffer) < 2 THEN s ELSE Header(s)

feed_data(s, data) ==
  LET full == [s EXCEPT !.buffer = @ \o data]
      n    == 2 * Len(full.buffer) + 1
      run[i \in 0..n] == IF i = 0 THEN full ELSE Round(run[i - 1])
  IN IF s.closed THEN s ELSE run[n]

---------------------------------------------------------------------------
Init ==
  /\ sent = <<>> /\ wire = <<>> /\ attached = FALSE
  /\ ws = [buffer |-> <<>>, frame |-> None, message |-> <<>>, open |-> FALSE, out |-> <<>>, answers |-> <<>>,
           closed |-> FALSE, close_sent |-> FALSE, failed |-> FALSE]

PeerSends ==
  /\ Len(sent) < MaxFrames
  /\ \E f \in PeerFrames : sent' = Append(sent, f) /\ wire' = wire \o write_frame(f)
  /\ UNCHANGED <<attached, ws>>

(* A piece arrives; before the adapter is there the reader keeps it.       *)
Arrive ==
  /\ \E n \in 1..Len(wire) :
       /\ wire' = After(wire, n)
       /\ ws' = IF attached THEN feed_data(ws, SubSeq(wire, 1, n)) ELSE [ws EXCEPT !.buffer = @ \o SubSeq(wire, 1, n)]
  /\ UNCHANGED <<sent, attached>>

(* attach() takes over what the reader holds.                              *)
Attach ==
  /\ ~attached
  /\ attached' = TRUE /\ ws' = feed_data(ws, <<>>)
  /\ UNCHANGED <<sent, wire>>

Next == PeerSends \/ Arrive \/ Attach
Spec == Init /\ [][Next]_vars

---------------------------------------------------------------------------
(* The same read off the frames themselves.                                *)
Data(i)   == sent[i].op < CLOSE
Ends(i)   == Data(i) /\ sent[i].fin
First(S, otherwise) == IF S = {} THEN otherwise ELSE CHOOSE i \in S : \A j \in S : i <= j
Latest(S) == IF S = {} THEN 0 ELSE CHOOSE i \in S : \A j \in S : i >= j

(* The data frame before i leaves its message open.                        *)
Open(i)  == LET d == Latest({j \in 1..(i - 1) : Data(j)}) IN d > 0 /\ ~sent[d].fin
Bytes(a, b) == FlattenSeq([i \in 1..(b - a + 1) |-> IF Data(a + i - 1) THEN sent[a + i - 1].data ELSE <<>>])
Message(i) == Bytes(Latest({j \in 1..(i - 1) : Ends(j)}) + 1, i)
Bad(i) ==
  LET f == sent[i]
  IN \/ f.rsv \/ f.masked # expect_masked \/ f.op \notin {CONT, 1, 2, CLOSE, PING, PONG}
     \/ f.op >= CLOSE /\ (~f.fin \/ Len(f.data) > Small)
     \/ Len(f.data) > MAX_FRAME_SIZE
     \/ Data(i) /\ ((f.op = CONT) # Open(i) \/ Len(Message(i)) > MAX_MESSAGE_SIZE)
FirstBad   == First({i \in DOMAIN sent : Bad(i)}, Len(sent) + 1)
FirstClose == First({i \in 1..(FirstBad - 1) : sent[i].op = CLOSE}, FirstBad)

(* What the first n frames deliver, and what is to be answered to them.    *)
Delivered(n) == Bytes(1, Latest({i \in 1..n : Ends(i)}))
Answered(n)  ==
  FlattenSeq([i \in 1..n |-> CASE sent[i].op = PING -> <<[op |-> PONG, data |-> sent[i].data]>>
                               [] i = FirstClose    -> <<[op |-> CLOSE, data |-> sent[i].data]>>
                               [] OTHER             -> <<>>])

(* What is delivered and answered depends on the frames and not on how     *)
(* their bytes were cut: the messages that are complete, in order, until   *)
(* the first frame that is not allowed, with one answer to every ping and  *)
(* to the first Close only.  What follows a Close is left open: it is      *)
(* still decoded if it came in the same piece.  (websocket.py, feed_data)  *)
CutsDoNotMatter ==
  LET last == FirstBad - 1
      over == attached /\ wire = <<>>
  IN /\ IsPrefix(ws.out, Delivered(last)) /\ IsPrefix(ws.answers, Answered(last))
     /\ ws.failed => FirstBad <= Len(sent)
     /\ over => IsPrefix(Delivered(IF FirstClose <= last THEN FirstClose ELSE last), ws.out)
     /\ over /\ FirstClose > last => ws.answers = Answered(last) /\ (ws.failed <=> FirstBad <= Len(sent))
=============================================================================
