----------------------------- MODULE Handshake -----------------------------
(* One connection from its first byte to the end of the handshakes: the    *)
(* connect() of the client side against accept() of the server side, over  *)
(* a chain of proxies that share the same two byte streams.                *)
(*                                                                         *)
(* A byte of the protocols is a small number.  A field of fixed size is    *)
(* one token, a field with a length before it is as many tokens as the     *)
(* length says, and a request or response head of HTTP is its method or    *)
(* status, its credentials, its target and the blank line that ends it.    *)
(* The network delivers what was sent in pieces of any size, so every      *)
(* read may find any prefix of what is coming.                             *)
EXTENDS Integers, Sequences, SequencesExt

CONSTANTS
  Chain,        \* the chains of hops a behaviour may have
  Payload,      \* what the client sends after its handshakes
  Back          \* what the target sends back

None == 0
BLANK == 10
CRLF  == 13

(* A hop has the protocol its client speaks, the protocols its server      *)
(* tries in order, the credentials of the one and the users of the other,  *)
(* the type of address its client sends, one-time authentication wanted    *)
(* by the client and needed by the server, and the destination: the name   *)
(* or address of the next proxy or of the target, then the port.           *)

Protocol == {"http", "h2", "ws", "cfp", "socks4", "socks5", "trojan", "ss", "ssr", "tunnel"}

(* Somebody is asked at every hop.                                         *)
ChainTypeOK ==
  \A c \in Chain :
    /\ c \in Seq(ToSet(c)) /\ c # <<>>
    /\ \A i \in DOMAIN c : c[i].tries \in Seq(Protocol) /\ c[i].tries # <<>>

VARIABLES
  hops,     \* the chain of this behaviour
  wire,     \* sent in each direction and not yet arrived
  buf,      \* arrived in each direction and not yet read
  client,   \* the hop and round of connect(), and how it stands
  server,   \* the hop, protocol and phase of accept(), and how it stands
  admitted, \* the destination and user of every hop accepted so far
  why       \* what has gone wrong that is not the fault of the code

vars == <<hops, wire, buf, client, server, admitted, why>>

---------------------------------------------------------------------------
(* Reading fields.                                                         *)

Byte       == -1
Counted    == -2
Address    == -3
Until0     == -4
UntilBlank == -5
AddressSum == -6

(* How many tokens the field takes at the start of s: 0 when they are not  *)
(* all there, -1 when they cannot be that field.                           *)
FieldSize(f, s) ==
  LET counted(at) == IF Len(s) < at \/ Len(s) < at + s[at] THEN 0 ELSE at + s[at]
      plus(n, k)  == IF n = 0 \/ Len(s) < n + k THEN 0 ELSE n + k
      sum         == IF f = AddressSum /\ s[1] >= 16 THEN 1 ELSE 0
  IN IF s = <<>> THEN 0
     ELSE CASE f = Byte       -> 1
            [] f = Counted    -> counted(1)
            [] f = Until0     -> SelectInSeq(s, LAMBDA b : b = 0)
            [] f = UntilBlank -> SelectInSeq(s, LAMBDA b : b = BLANK)
            [] f \in {Address, AddressSum} -> CASE s[1] \in {1, 17} -> plus(3, sum)
                                                [] s[1] \in {4, 20} -> plus(4, sum)
                                                [] s[1] \in {3, 19} -> plus(counted(2), 1 + sum)
                                                [] OTHER            -> -1
            [] OTHER          -> IF s[1] = f THEN 1 ELSE -1

After(s, n) == SubSeq(s, n + 1, Len(s))

(* One more field of s, behind those of r, and all of them, the way a run  *)
(* of read_exactly and read_until calls takes them.                        *)
TakeField(f, s, r) ==
  LET n == FieldSize(f, After(s, r.at))
  IN IF r.st # "ok" THEN r
     ELSE IF n = 0 THEN [r EXCEPT !.st = "more"]
     ELSE IF n < 0 THEN [r EXCEPT !.st = "bad"]
     ELSE [st |-> "ok", at |-> r.at + n, got |-> Append(r.got, SubSeq(s, r.at + 1, r.at + n))]
Scan(fields, s) ==
  LET upto[i \in 0..Len(fields)] ==
        IF i = 0 THEN [st |-> "ok", at |-> 0, got |-> <<>>] ELSE TakeField(fields[i], s, upto[i - 1])
  IN upto[Len(fields)]

(* A SOCKS address on the wire, the destination in it, its checksum.       *)
Packed(type, dest) ==
  IF type \in {3, 19} THEN <<type, Len(dest) - 1>> \o dest ELSE <<type>> \o dest
DestOf(address)  == After(address, IF address[1] \in {3, 19} THEN 2 ELSE 1)
Sum(address)     == 200 + (FoldLeft(+, 0, address) % 50)
(* The one address record that getaddrinfo gives for a name.               *)
Resolved(dest)   == <<100 + Head(dest), Last(dest)>>

---------------------------------------------------------------------------
(* The client: what connect() writes in each round and what it then reads. *)

Rounds(h) == IF h.proto # "socks5" THEN <<"request">>
             ELSE IF h.auth = None THEN <<"methods", "request">> ELSE <<"methods", "auth", "request">>

Key(h)   == IF h.auth = None THEN <<>> ELSE <<h.auth, h.auth>>
Hash(u)  == <<150 + u, 150 + u>>

(* connect() of a protocol: what it writes, and the answer it reads.       *)
Exchange(says, hears) == [says |-> says, hears |-> hears]

Socks5Connect(h, round) ==
  CASE round = "methods" -> LET m == IF h.auth = None THEN 0 ELSE 2 IN Exchange(<<5, 1, m>>, <<5, m>>)
    [] round = "auth"    -> Exchange(<<1, 1, h.auth, 1, h.auth>>, <<1, 0>>)
    [] OTHER             -> Exchange(<<5, 1, 0>> \o Packed(h.atyp, h.dest), <<5, 0, 0, Address>>)
Socks4Connect(h) ==
  Exchange(<<4, 1, Last(h.dest), Head(Resolved(h.dest))>> \o (IF h.auth = None THEN <<>> ELSE <<h.auth>>) \o <<0>>,
           <<0, 90, Byte, Byte>>)
SsrConnect(h)    == Exchange(Key(h) \o Packed(h.atyp, h.dest), <<>>)
SsConnect(h)     == LET a == Packed(16 + h.atyp, h.dest)
                    IN IF h.ota THEN Exchange(Key(h) \o a \o <<Sum(a)>>, <<>>) ELSE SsrConnect(h)
TrojanConnect(h) == Exchange(Hash(h.auth) \o <<CRLF, 1>> \o Packed(h.atyp, h.dest) \o <<CRLF>>, <<>>)
HttpConnect(h)   == Exchange(<<67, 79, h.auth>> \o h.dest \o <<BLANK>>, <<UntilBlank>>)
H2Connect(h)     == Exchange(<<67, 79, h.auth>> \o h.dest \o <<BLANK>>, <<>>)
WsConnect(h)     == Exchange(<<71, 69, h.auth, BLANK>>, <<UntilBlank>>)
CfpConnect(h)    == Exchange(<<71, 69, h.auth>> \o h.dest \o <<BLANK>>, <<101, UntilBlank>>)
TunnelConnect(h) == Exchange(<<>>, <<>>)

Connect(h, round) ==
  CASE h.proto = "socks5" -> Socks5Connect(h, round)
    [] h.proto = "socks4" -> Socks4Connect(h)
    [] h.proto = "http"   -> HttpConnect(h)
    [] h.proto = "h2"     -> H2Connect(h)
    [] h.proto = "ws"     -> WsConnect(h)
    [] h.proto = "cfp"    -> CfpConnect(h)
    [] h.proto = "trojan" -> TrojanConnect(h)
    [] h.proto = "ss"     -> SsConnect(h)
    [] h.proto = "ssr"    -> SsrConnect(h)
    [] h.proto = "tunnel" -> TunnelConnect(h)

---------------------------------------------------------------------------
(* The server: the first bytes that guess() looks at, the fields accept()  *)
(* reads in each phase, and what it makes of them.                         *)

(* The credentials of the users a guess compares the first bytes with.     *)
MarkSize(p, h) == CASE p \in {"http", "ws", "trojan"} -> 2
                    [] p \in {"ss", "ssr"}             -> IF h.users = {} THEN 1 ELSE 2
                    [] p \in {"socks4", "socks5"}      -> 1
                    [] OTHER                           -> 0

HttpGuess(head)      == head \in {<<67, 79>>, <<71, 69>>}
WsGuess(head)        == head = <<71, 69>>
TrojanGuess(h, head) == head \in {Hash(u) : u \in IF h.users = {} THEN {None} ELSE h.users}
SsrGuess(h, head)    == IF h.users = {} THEN head[1] \in {1, 3, 4, 17, 19, 20} ELSE head \in {<<u, u>> : u \in h.users}
Socks4Guess(head)    == head = <<4>>
Socks5Guess(head)    == head = <<5>>
Matches(p, h, head) ==
  CASE p = "http"          -> HttpGuess(head)
    [] p = "ws"            -> WsGuess(head)
    [] p = "trojan"        -> TrojanGuess(h, head)
    [] p \in {"ss", "ssr"} -> SsrGuess(h, head)
    [] p = "socks4"        -> Socks4Guess(head)
    [] p = "socks5"        -> Socks5Guess(head)
    [] OTHER               -> TRUE

TakenAlways(p, h) == MarkSize(p, h)
(* What a guess that matched keeps; a head that did not match, and those   *)
(* of HTTP and of a Shadowsocks address, are rolled back.                  *)
Taken(p, h) == IF p \in {"http", "ws"} \/ (p \in {"ss", "ssr"} /\ h.users = {}) THEN 0 ELSE MarkSize(p, h)

TrojanRequestToPort == <<CRLF, 1, Address>>
TrojanRequest == <<CRLF, 1, Address, CRLF>>
Socks5Reads(phase) == CASE phase = "methods" -> <<Counted>>
                        [] phase = "auth"    -> <<1, Counted, Counted>>
                        [] OTHER             -> <<5, 1, 0, Address>>
Socks4Request == <<1, Byte, Byte, Until0>>
SsrRequest    == <<Address>>
SsRequest     == <<AddressSum>>
HeadRequest   == <<UntilBlank>>
Reads(p, phase) ==
  CASE p = "socks5" -> Socks5Reads(phase)
    [] p = "socks4" -> Socks4Request
    [] p = "trojan" -> TrojanRequest
    [] p = "ssr"    -> SsrRequest
    [] p = "ss"     -> SsRequest
    [] p = "tunnel" -> <<>>
    [] OTHER        -> HeadRequest

Refuse(reply)            == [st |-> "closed", reply |-> reply, phase |-> "request", dest |-> <<>>, user |-> None]
Goes(phase, reply, user) == [st |-> "read", reply |-> reply, phase |-> phase, dest |-> <<>>, user |-> user]
Admit(reply, dest, user) == [st |-> "dial", reply |-> reply, phase |-> "request", dest |-> dest, user |-> user]

(* The authentication table is made for one connection, so it remembers    *)
(* nobody when the request is read.                                        *)
Remembered == None
KnowsAnyone(h, u) == TRUE
Knows(h, u) == h.users = {} \/ Remembered # None \/ u \in h.users

(* What accept() does with the fields g of its phase: a refusal, another   *)
(* phase, or the destination and user; u is the user known so far.         *)
Socks5Accept(h, phase, u, g) ==
  CASE phase = "methods" ->
         LET asked == After(g[1], 1)
         IN IF h.users = {} \/ (Remembered # None /\ 0 \in ToSet(asked)) THEN Goes("request", <<5, 0>>, u)
            ELSE IF 2 \in ToSet(asked) THEN Goes("auth", <<5, 2>>, u) ELSE Refuse(<<>>)
    [] phase = "auth" -> IF g[2] = g[3] /\ g[2][2] \in h.users THEN Goes("request", <<1, 0>>, g[2][2]) ELSE Refuse(<<>>)
    [] OTHER          -> Admit(<<5, 0, 0>> \o g[4], DestOf(g[4]), u)
Socks4Accept(h, g) ==
  LET id == IF Len(g[4]) = 1 THEN None ELSE g[4][1]
  IN IF Knows(h, id) THEN Admit(<<0, 90>> \o g[2] \o g[3], g[3] \o g[2], id) ELSE Refuse(<<>>)
TrojanAccept(u, g) == Admit(<<>>, DestOf(g[3]), u)
SsrAccept(u, g)    == Admit(<<>>, DestOf(g[1]), u)
SsAccept(h, u, g) ==
  LET ota == g[1][1] >= 16
      a   == IF ota THEN Front(g[1]) ELSE g[1]
  IN IF (h.needota => ota) /\ (ota => Last(g[1]) = Sum(a)) THEN Admit(<<>>, DestOf(a), u) ELSE Refuse(<<>>)

(* A head is its method, its credentials, and the target up to the blank   *)
(* line.  A GET without a host is no request to a proxy.                   *)
TargetOf(m) == SubSeq(m, 4, Len(m) - 1)
Unauthorized == <<47, BLANK>>
HttpAccept(h, m) == IF m[1] = 71 THEN Refuse(<<>>)
                    ELSE IF Knows(h, m[3]) THEN Admit(<<>>, TargetOf(m), m[3]) ELSE Refuse(Unauthorized)
H2Accept(h, m)   == IF Knows(h, m[3]) THEN Admit(<<>>, TargetOf(m), m[3]) ELSE Refuse(<<>>)
(* The destination of a tunnel and of a WebSocket server is configured.    *)
WsAccept(h, m)   == IF Knows(h, m[3]) THEN Admit(<<101, BLANK>>, h.dest, m[3]) ELSE Refuse(Unauthorized)
TunnelAccept(h, u) == Admit(<<>>, h.dest, u)
(* The server of CFP is the worker, which is not in the repository.        *)
CfpAccept(h, m)  == IF Knows(h, m[3]) THEN Admit(<<101, BLANK>>, TargetOf(m), m[3]) ELSE Refuse(Unauthorized)

Accepts(p, h, phase, u, g) ==
  CASE p = "socks5" -> Socks5Accept(h, phase, u, g)
    [] p = "socks4" -> Socks4Accept(h, g)
    [] p = "trojan" -> TrojanAccept(u, g)
    [] p = "ssr"    -> SsrAccept(u, g)
    [] p = "ss"     -> SsAccept(h, u, g)
    [] p = "tunnel" -> TunnelAccept(h, u)
    [] p = "http"   -> HttpAccept(h, g[1])
    [] p = "h2"     -> H2Accept(h, g[1])
    [] p = "ws"     -> WsAccept(h, g[1])
    [] p = "cfp"    -> CfpAccept(h, g[1])

(* CONNECT alone is answered when the destination has been reached.        *)
Connected(p) == IF p = "http" THEN <<200, BLANK>> ELSE <<>>

---------------------------------------------------------------------------
(* The chains a configuration may have.                                    *)

(* A name is none of the numbers that mean something else.                 *)
Name == 21..149

(* The forms a destination may have.                                       *)
DestOK(h) ==
  /\ h.dest \in Seq(Nat) /\ h.atyp \in {1, 3, 4}
  /\ h.atyp = 1 => Len(h.dest) = 2
  /\ h.atyp = 4 => Len(h.dest) = 3
  /\ h.atyp = 3 => Len(h.dest) >= 2
  /\ h.proto \in {"http", "h2", "cfp"} => BLANK \notin ToSet(h.dest)

(* A protocol that takes the first bytes of another for its own and        *)
(* refuses the rest: HTTP the GET of a WebSocket, SOCKS4 an IPv6 address.  *)
First(h) == Connect(h, Rounds(h)[1]).says
Mistakes(p, h) ==
  \/ p = "http" /\ h.proto = "ws"
  \/ p = "socks4" /\ h.proto \in {"ss", "ssr"} /\ h.auth = None /\ h.atyp = 4 /\ Head(h.dest) # 1

(* The protocols a server tries are told apart by their first bytes: one   *)
(* that is not this client's takes none of what it writes first, in        *)
(* whatever pieces it comes, or refuses it and stands behind the client's  *)
(* own.  A protocol that takes everything ends the list.                   *)
ToldApart(h) ==
  /\ \A i \in DOMAIN h.tries :
       h.tries[i] # h.proto /\ (\A j \in 1..(i - 1) : MarkSize(h.tries[j], h) > 0) =>
         /\ MarkSize(h.tries[i], h) > 0
         /\ \/ \A n \in 1..MarkSize(h.tries[i], h) : ~Matches(h.tries[i], h, SubSeq(First(h), 1, n))
            \/ Mistakes(h.tries[i], h) /\ (h.proto \in ToSet(h.tries) => \E j \in 1..(i - 1) : h.tries[j] = h.proto)
  /\ h.proto = "tunnel" => h.tries[1] = "tunnel"

HopOK(h) ==
  /\ h.proto \in Protocol /\ h.auth \in {None} \union Name /\ h.users \subseteq Name
  /\ h.ota \in BOOLEAN /\ h.needota \in BOOLEAN
  /\ DestOK(h) /\ ToldApart(h)

HopsOK ==
  /\ \A c \in Chain : \A i \in DOMAIN c : HopOK(c[i])
  /\ Payload \in Seq(Int) /\ Back \in Seq(Int)

---------------------------------------------------------------------------
Init ==
  /\ hops \in Chain
  /\ wire = [up |-> <<>>, down |-> <<>>] /\ buf = wire
  /\ client = [hop |-> 1, round |-> 1, st |-> "say"]
  /\ server = [hop |-> 1, try |-> 1, phase |-> "request", user |-> None, st |-> "guess"]
  /\ admitted = <<>> /\ why = {}

(* A piece of what is in flight arrives.                                   *)
Arrive(d) ==
  /\ \E n \in 1..Len(wire[d]) :
       /\ wire' = [wire EXCEPT ![d] = After(@, n)]
       /\ buf' = [buf EXCEPT ![d] = @ \o SubSeq(wire[d], 1, n)]
  /\ UNCHANGED <<hops, client, server, admitted, why>>

(* A write adds to what is in flight.                                      *)
Sends(d, data) == wire' = [wire EXCEPT ![d] = @ \o data]

(* connect() writes the message of its round.                              *)
Say ==
  LET h == hops[client.hop]
  IN /\ client.st = "say"
     /\ Sends("up", Connect(h, Rounds(h)[client.round]).says)
     /\ client' = [client EXCEPT !.st = "hear"]
     /\ UNCHANGED <<hops, buf, server, admitted, why>>

(* connect() has the whole answer: the next round, the next hop of the     *)
(* chain, or the first bytes of the client.  A wrong answer ends it.       *)
Hear ==
  LET h == hops[client.hop]
      a == Scan(Connect(h, Rounds(h)[client.round]).hears, buf.down)
  IN /\ client.st = "hear" /\ a.st # "more"
     /\ buf' = [buf EXCEPT !.down = After(@, a.at)]
     /\ client' = IF a.st = "bad" THEN [client EXCEPT !.st = "failed"]
                  ELSE IF client.round < Len(Rounds(h)) THEN [client EXCEPT !.round = @ + 1, !.st = "say"]
                  ELSE IF client.hop < Len(hops) THEN [hop |-> client.hop + 1, round |-> 1, st |-> "say"]
                  ELSE [client EXCEPT !.st = "connected"]
     /\ IF client'.st = "connected" THEN Sends("up", Payload) ELSE UNCHANGED wire
     /\ UNCHANGED <<hops, server, admitted, why>>

(* accept() asks the next protocol of the list, which sees what has        *)
(* arrived, up to the size of its mark.  The last refusal closes.          *)
Guess ==
  LET h == hops[server.hop]  p == h.tries[server.try]
      n == MarkSize(p, h)    head == SubSeq(buf.up, 1, IF Len(buf.up) < n THEN Len(buf.up) ELSE n)
  IN /\ server.st = "guess" /\ (n > 0 => buf.up # <<>>)
     /\ IF Matches(p, h, head)
        THEN /\ buf' = [buf EXCEPT !.up = After(@, Taken(p, h))]
             /\ server' = [server EXCEPT !.st = "read", !.phase = IF p = "socks5" THEN "methods" ELSE "request",
                                         !.user = IF p \in {"trojan", "ss", "ssr"} /\ h.users # {} THEN CHOOSE u \in h.users :
                                                      head \in {Hash(u), <<u, u>>} ELSE None]
        ELSE /\ server' = IF server.try < Len(h.tries) THEN [server EXCEPT !.try = @ + 1]
                                                       ELSE [server EXCEPT !.st = "closed"]
             /\ UNCHANGED buf
     /\ why' = IF Len(head) < n /\ p = h.proto THEN why \union {"cut"} ELSE why
     /\ UNCHANGED <<hops, wire, client, admitted>>

(* accept() has every field of its phase.                                  *)
Read ==
  LET h == hops[server.hop]  p == h.tries[server.try]
      a == Scan(Reads(p, server.phase), buf.up)
      o == IF a.st = "bad" THEN Refuse(<<>>) ELSE Accepts(p, h, server.phase, server.user, a.got)
  IN /\ server.st = "read" /\ a.st # "more"
     /\ buf' = [buf EXCEPT !.up = After(@, a.at)]
     /\ Sends("down", o.reply)
     /\ server' = [server EXCEPT !.st = o.st, !.phase = o.phase, !.user = o.user]
     /\ admitted' = IF o.st = "dial" THEN Append(admitted, [dest |-> o.dest, user |-> o.user]) ELSE admitted
     /\ UNCHANGED <<hops, client, why>>

(* The server reaches the destination, which is the next proxy of the      *)
(* chain or the target, or it does not and closes.                         *)
Reach ==
  LET p == hops[server.hop].tries[server.try]
  IN /\ server.st = "dial"
     /\ \/ /\ server.hop < Len(hops)
           /\ Sends("down", Connected(p))
           /\ server' = [hop |-> server.hop + 1, try |-> 1, phase |-> "request", user |-> None, st |-> "guess"]
           /\ UNCHANGED why
        \/ /\ server.hop = Len(hops)
           /\ Sends("down", Connected(p) \o Back)
           /\ server' = [server EXCEPT !.st = "relay"]
           /\ UNCHANGED why
        \/ /\ server' = [server EXCEPT !.st = "closed"]
           /\ why' = why \union {"unreachable"}
           /\ UNCHANGED wire
     /\ UNCHANGED <<hops, buf, client, admitted>>

(* An end that waits for more than it has.                                 *)
ClientWaits ==
  /\ client.st = "hear"
  /\ Scan(Connect(hops[client.hop], Rounds(hops[client.hop])[client.round]).hears, buf.down).st = "more"
ServerWaits ==
  LET h == hops[server.hop]  p == h.tries[server.try]
  IN \/ server.st = "guess" /\ MarkSize(p, h) > 0 /\ buf.up = <<>>
     \/ server.st = "read" /\ Scan(Reads(p, server.phase), buf.up).st = "more"

(* The other end has closed and all it sent has been read: the read meets  *)
(* the end of the stream.                                                  *)
MeetEnd ==
  /\ \/ server.st = "closed" /\ ClientWaits /\ wire.down = <<>>
        /\ client' = [client EXCEPT !.st = "failed"] /\ UNCHANGED server
     \/ client.st = "failed" /\ ServerWaits /\ wire.up = <<>>
        /\ server' = [server EXCEPT !.st = "closed"] /\ UNCHANGED client
  /\ UNCHANGED <<hops, wire, buf, admitted, why>>

(* A read that waits longer than the timeout of the socket.                *)
TimesOut ==
  /\ \/ /\ client.st = "hear" /\ client' = [client EXCEPT !.st = "failed"] /\ UNCHANGED server
     \/ /\ server.st \in {"guess", "read"} /\ server' = [server EXCEPT !.st = "closed"] /\ UNCHANGED client
  /\ why' = why \union {"timeout"}
  /\ UNCHANGED <<hops, wire, buf, admitted>>

Next == \/ \E d \in {"up", "down"} : Arrive(d)
        \/ Say \/ Hear \/ Guess \/ Read \/ Reach \/ MeetEnd \/ TimesOut

Spec == Init /\ [][Next]_vars

---------------------------------------------------------------------------
(* A pair that is configured alike.                                        *)
Compatible(h) ==
  /\ h.proto \in ToSet(h.tries)
  /\ h.users # {} => h.auth \in h.users
  /\ h.users = {} /\ h.proto \in {"socks5", "trojan", "ss", "ssr"} => h.auth = None
  /\ h.needota => h.ota

Answered == {"socks4", "socks5", "cfp"}
Passed(i) == client.hop > i \/ client.st = "connected"

(* A server that has users lets in nobody else, whatever protocol it took  *)
(* the bytes for and in whatever pieces they came, unless it may take them *)
(* for a tunnel, which asks for nobody.                                    *)
(* (AuthTable; guess and accept of socks.py, http.py, websocket.py)        *)
OnlyUsers ==
  \A i \in DOMAIN admitted :
    hops[i].users # {} /\ "tunnel" \notin ToSet(hops[i].tries) => admitted[i].user \in hops[i].users

(* Whoever is let in is a user, and the one its client named; the server   *)
(* reaches the destination its own client asked for, however the bytes     *)
(* were cut; and a client that checks the answer goes on only when its     *)
(* server has let it in.                                                   *)
(* (socks.py, http.py, protocols/websocket.py: connect against accept)     *)
PeersAgree ==
  /\ OnlyUsers
  /\ \A i \in DOMAIN admitted :
       LET h == hops[i]
       IN /\ admitted[i].dest = IF h.proto = "socks4" THEN Resolved(h.dest) ELSE h.dest
          /\ h.users # {} /\ h.proto # "tunnel" => admitted[i].user = h.auth
  /\ \A i \in DOMAIN hops : Passed(i) /\ hops[i].proto \in Answered => Len(admitted) >= i

(* The handshakes take their own bytes and no other: what is left in the   *)
(* streams when they are over is exactly what the two ends wrote, so the   *)
(* relay neither loses nor invents a byte at the seam.                     *)
(* (registry.accept, rollback, prepare_connection through a chain)         *)
NothingAtTheSeam ==
  /\ server.st = "relay" => buf.up \o wire.up = IF client.st = "connected" THEN Payload ELSE <<>>
  /\ client.st = "connected" /\ server.st # "closed" =>
       buf.down \o wire.down = IF server.st = "relay" THEN Back ELSE <<>>

(* Two sides configured alike come together over every hop: neither gives  *)
(* up and the two never wait for each other, unless a read timed out, the  *)
(* destination was unreachable, or a guess saw less of the first bytes     *)
(* than it asked for: read() returns what is there, and the protocol is    *)
(* not asked again.  (registry.accept, rollback, prepare_connection)       *)
CompatibleMeet ==
  why = {} /\ (\A i \in DOMAIN hops : Compatible(hops[i])) =>
    /\ client.st # "failed" /\ server.st # "closed"
    /\ (ClientWaits \/ client.st = "connected") /\ (ServerWaits \/ server.st = "relay") /\ wire.up = <<>> /\ wire.down = <<>>
         => client.st = "connected" /\ server.st = "relay"
=============================================================================
