------------------------------ MODULE MCRelay ------------------------------
(* One connection: its handshakes, and its relay.  A behaviour is of the   *)
(* one kind or the other, chosen at the start.                             *)
(*                                                                         *)
(* In the relay a client sends little and an upstream more than the write  *)
(* buffer of the client may hold.                                          *)
EXTENDS Connection

CONSTANTS FromClient, FromUpstream

MCMaxSend == [s \in Socket |-> IF s = "client" THEN FromClient ELSE FromUpstream]

(* The hops: every protocol against its own server, with the right, the    *)
(* wrong and no credentials, every form of the address, one-time           *)
(* authentication or not, and every pair of protocols as a chain.  What    *)
(* the client sends first looks like SOCKS, and has the end of a head.     *)
Hop(proto, tries) == [proto |-> proto, tries |-> tries, auth |-> 0, users |-> {}, atyp |-> 3,
                      ota |-> FALSE, needota |-> FALSE, dest |-> <<21, 22, 80>>]
Default == <<"http", "socks4", "socks5">>
Sixth   == <<10, 13, 80>>

Plain  == {Hop(p, Default) : p \in {"http", "socks4", "socks5"}}
            \union {Hop(p, <<p, "http">>) : p \in {"ws", "cfp", "ssr", "ss", "h2", "tunnel", "trojan"}}
            \union {Hop("http", <<"trojan", "http">>)}
Users  == {[h EXCEPT !.auth = a, !.users = u] : h \in Plain, a \in {0, 31, 32}, u \in {{}, {31}}}
Typed  == {[Hop(p, tries) EXCEPT !.atyp = IF d = Sixth THEN 4 ELSE 1, !.dest = d] :
             p \in {"socks5", "ss"}, tries \in {Default, <<"ss">>}, d \in {<<10, 80>>, Sixth}}
OneTime == {[Hop("ss", <<"ss">>) EXCEPT !.ota = o, !.needota = n] : o, n \in BOOLEAN}
First  == {[h EXCEPT !.dest = <<11, 81>>] : h \in Plain}

MCChain   == {<<h>> : h \in Users \union Typed \union OneTime} \union (First \X Plain)
MCPayload == <<4, 10>>
MCBack    == <<5>>

VARIABLE kind

MCInit == kind \in {"relay", "handshake"} /\ Init /\ H!Init
            /\ (kind = "relay" => hops = <<Hop("http", Default)>>)
MCNext ==
  /\ UNCHANGED kind
  /\ \/ kind = "relay" /\ Next /\ UNCHANGED hs
     \/ kind = "handshake" /\ H!Next /\ UNCHANGED vars
MCSpec == MCInit /\ [][MCNext]_<<kind, vars, hs>> /\ Fairness
=============================================================================
