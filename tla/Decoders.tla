------------------------------ MODULE Decoders ------------------------------
(* The two decoders that are fed pieces of a stream: the frames and        *)
(* ciphers under a connection, and the messages of a WebSocket.            *)
EXTENDS Frames

CONSTANTS Stacks, MaxData, PACKET_LIMIT, PluginLimit, RecordLimit, NonceLimit

VARIABLES
  stack, written, enc, line, raw, stage_, dec, out, torn,
  frames, piece, attached, ws

framing == <<stack, written, enc, line, raw, stage_, dec, out, torn>>
socket  == <<frames, piece, attached, ws>>

L == INSTANCE Framing WITH wire <- line, stage <- stage_
W == INSTANCE WebSocket WITH sent <- frames, wire <- piece

ASSUME StackAssumption  == L!StackOK
ASSUME BoundsAssumption == L!BoundsOK

(* The properties of both, named for the run.                              *)
PreservedUnlessTorn == L!PreservedUnlessTorn
CutsDoNotMatter     == W!CutsDoNotMatter
=============================================================================
