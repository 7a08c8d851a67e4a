----------------------------- MODULE Connection -----------------------------
(* One connection: its relay, and as H the handshakes that come before it. *)
(* They share no state: what the handshakes leave in the two streams is    *)
(* what the relay starts with.                                             *)
EXTENDS Relay

CONSTANTS Chain, Payload, Back

VARIABLES hops, wire, hsbuf, client, server, admitted, why
hs == <<hops, wire, hsbuf, client, server, admitted, why>>

H == INSTANCE Handshake WITH buf <- hsbuf

ASSUME ChainAssumption == H!ChainTypeOK
ASSUME HopsAssumption  == H!HopsOK

(* The properties of the handshakes, named for the run.                    *)
PeersAgree       == H!PeersAgree
NothingAtTheSeam == H!NothingAtTheSeam
CompatibleMeet   == H!CompatibleMeet
=============================================================================
