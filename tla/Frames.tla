------------------------------- MODULE Frames -------------------------------
(* The frames of a WebSocket connection and the bytes they travel as.      *)
(* A byte is a number; a length beyond Small, and a masking key, is one.   *)
EXTENDS Integers, Sequences

CONSTANTS
  PeerFrames,        \* the frames the peer may send
  MaxFrames,         \* bound: how many of them
  Small,             \* 125: the longest length in the second byte, and of a control frame
  MAX_FRAME_SIZE, MAX_MESSAGE_SIZE,
  expect_masked      \* the frames of the peer are masked

Frame == [op : 0..15, fin : BOOLEAN, rsv : BOOLEAN, masked : BOOLEAN, data : Seq(Int)]

ASSUME FrameAssumption == \A f \in PeerFrames : f \in Frame
ASSUME SizeAssumption  == Small \in Nat /\ MAX_FRAME_SIZE \in Nat /\ MAX_MESSAGE_SIZE \in Nat
ASSUME MaskAssumption  == expect_masked \in BOOLEAN

CONT  == 0
CLOSE == 8
PING  == 9
PONG  == 10

(* The second byte: a length, or what says that a longer one follows, and  *)
(* the mask bit: 126, 127 and 128 for 125.                                 *)
Medium == Small + 1
Long   == Small + 2
Masked == Small + 3

Key == 77
xor_mask_bytes(data) == [i \in DOMAIN data |-> Key - data[i]]

(* write_frame(), and what a peer may do wrong: reserved bits, a masking   *)
(* state that is not agreed, a length without the short form.              *)
write_frame(f) ==
  LET n == Len(f.data)
  IN <<f.op + (IF f.fin THEN 16 ELSE 0) + (IF f.rsv THEN 32 ELSE 0),
       (IF n <= Small THEN n ELSE IF n <= 2 * Small THEN Medium ELSE Long) + (IF f.masked THEN Masked ELSE 0)>>
     \o (IF n <= Small THEN <<>> ELSE <<n>>)
     \o (IF f.masked THEN <<Key>> \o xor_mask_bytes(f.data) ELSE f.data)
=============================================================================
