--------------------------- MODULE UdpAssociation ---------------------------
(***************************************************************************)
(* The UDP association table of a proxy strategy: ProxyDirect.udp_touch,   *)
(* udp_discard, udp_evict_if_needed, udp_open_connection and close         *)
(* (server/connections.py).  Every callback and every stretch of a         *)
(* coroutine between two awaits is one action, as the event loop runs it.  *)
(*                                                                         *)
(* Opening an association suspends twice: while the upstream name is       *)
(* resolved (before the Protocol object exists) and between the creation   *)
(* of the Protocol and its connection_made callback.  What other handlers  *)
(* do to the table in those two windows is what this module is about.      *)
(***************************************************************************)
EXTENDS Integers, Sequences, FiniteSets

CONSTANTS
  Addr,        \* client addresses
  Assoc,       \* calls of udp_open_connection that open an endpoint
  NoAddr,      \* the address of an Assoc that was not used yet
  Limit,       \* UDP_LIMIT
  TaskLimit,   \* how many handlers can be inside udp_open_connection
  MaxPackets   \* bound: client datagrams in one behaviour

ASSUME LimitAssumption  == Limit \in Nat \ {0}
ASSUME TaskAssumption   == TaskLimit \in Nat \ {0}
ASSUME PacketAssumption == MaxPackets \in Nat
ASSUME NoAddrAssumption == NoAddr \notin Addr

VARIABLES
  stage,        \* life of each association attempt
  client,       \* the address an attempt was opened for
  udpmap,       \* client address -> association, a partial function
  lru,          \* udp_lru: addresses, least recently used first
  connections,  \* the load counter of the strategy
  buf,          \* databuf: datagrams that wait for connection_made
  sent,         \* datagrams handed to the association's transport
  npkt,         \* number of client datagrams so far
  calm          \* history: none of the races below has happened yet

vars == <<stage, client, udpmap, lru, connections, buf, sent, npkt, calm>>

(* "resolving": inside create_datagram_endpoint, no Protocol object.       *)
(* "created"  : Protocol exists, transport attribute still None.           *)
(* "aborting" : as "created", but the opening task was cancelled.          *)
(* "closing"  : transport.close() called, connection_lost pending.         *)
Stage == {"unused", "resolving", "created", "aborting", "open", "closing",
          "gone", "failed"}

In(st)       == {o \in Assoc : stage[o] \in st}
InFlight     == In({"resolving", "created"})
Unconnected  == {"created", "aborting"}

(***************************************************************************)
(* The OrderedDict: popping a key and moving a key to the end.             *)
(***************************************************************************)
Keys(s) == {s[i] : i \in 1..Len(s)}

Distinct(s) == \A i, j \in 1..Len(s) : s[i] = s[j] => i = j

Without(s, a) ==
  IF a \in Keys(s)
    THEN LET k == CHOOSE i \in 1..Len(s) : s[i] = a
         IN  [i \in 1..(Len(s) - 1) |-> IF i < k THEN s[i] ELSE s[i + 1]]
    ELSE s

Touched(s, a) == Append(Without(s, a), a)

Drop(f, a)     == [x \in DOMAIN f \ {a} |-> f[x]]
Bind(f, a, v)  == [x \in DOMAIN f \cup {a} |-> IF x = a THEN v ELSE f[x]]

udp_touch(a, o) ==
  /\ udpmap' = Bind(udpmap, a, o)
  /\ lru' = Touched(lru, a)

(* The count goes down only when the map had an entry for the address.     *)
udp_discardKeepsOrder(a) ==
  /\ lru' = lru
  /\ udpmap' = Drop(udpmap, a)
  /\ connections' = IF a \in DOMAIN udpmap THEN connections - 1 ELSE connections

udp_discardKeepsCount(a) ==
  /\ lru' = Without(lru, a)
  /\ udpmap' = Drop(udpmap, a)
  /\ connections' = connections

udp_discard(a) ==
  /\ lru' = Without(lru, a)
  /\ udpmap' = Drop(udpmap, a)
  /\ connections' = IF a \in DOMAIN udpmap THEN connections - 1 ELSE connections

-----------------------------------------------------------------------------
Init ==
  /\ stage = [o \in Assoc |-> "unused"]
  /\ client = [o \in Assoc |-> NoAddr]
  /\ udpmap = [a \in {} |-> NoAddr]
  /\ lru = <<>>
  /\ connections = 0
  /\ buf = [o \in Assoc |-> <<>>]
  /\ sent = [o \in Assoc |-> <<>>]
  /\ npkt = 0
  /\ calm = TRUE

(* The client already has an association: Protocol.new_data_arrived.  A    *)
(* transport that is closing drops what it is given.                       *)
Reuse(a) ==
  LET o == udpmap[a] IN
  /\ npkt < MaxPackets
  /\ a \in DOMAIN udpmap
  /\ npkt' = npkt + 1
  /\ buf' = IF stage[o] \in Unconnected
              THEN [buf EXCEPT ![o] = Append(@, npkt + 1)] ELSE buf
  /\ sent' = IF stage[o] = "open"
               THEN [sent EXCEPT ![o] = Append(@, npkt + 1)] ELSE sent
  /\ udp_touch(a, o)
  /\ UNCHANGED <<stage, client, connections, calm>>

(* No association yet: count one, evict if the table is full, and start    *)
(* create_datagram_endpoint, which resolves the remote name.               *)
FullOffByOne == Len(lru) > Limit
Full == Len(lru) >= Limit

(* The evicted association is closed only if it has a transport already.   *)
AfterEvictionLeftOpen(st) == st
AfterEviction(st) == IF st = "open" THEN "closing" ELSE st

Open(o, a) ==
  LET victim == udpmap[Head(lru)] IN
  /\ npkt < MaxPackets
  /\ stage[o] = "unused"
  /\ a \notin DOMAIN udpmap
  /\ Cardinality(InFlight) < TaskLimit
  /\ npkt' = npkt + 1
  /\ client' = [client EXCEPT ![o] = a]
  /\ buf' = [buf EXCEPT ![o] = <<npkt + 1>>]
  /\ \/ /\ ~Full
        /\ connections' = connections + 1
        /\ stage' = [stage EXCEPT ![o] = "resolving"]
        /\ UNCHANGED <<udpmap, lru>>
     \/ /\ Full
        /\ connections' = connections        \* + 1 here, - 1 in udp_discard
        /\ lru' = Tail(lru)
        /\ udpmap' = Drop(udpmap, Head(lru))
        /\ stage' = [stage EXCEPT
                       ![victim] = AfterEviction(@),
                       ![o] = "resolving"]
  /\ calm' = /\ calm
             /\ \A p \in In({"resolving"}) : client[p] # a
             /\ Full => stage[victim] \notin Unconnected
  /\ UNCHANGED sent

(* The name is resolved: the loop calls the factory, and Protocol.__init__ *)
(* publishes the association.                                              *)
Create(o) ==
  /\ stage[o] = "resolving"
  /\ stage' = [stage EXCEPT ![o] = "created"]
  /\ udp_touch(client[o], o)
  /\ UNCHANGED <<client, connections, buf, sent, npkt, calm>>

(* Resolution or the socket fails, or the task is cancelled here: the      *)
(* exception leaves udp_open_connection, and the count stays.              *)
Fail(o) ==
  /\ stage[o] = "resolving"
  /\ stage' = [stage EXCEPT ![o] = "failed"]
  /\ calm' = FALSE
  /\ UNCHANGED <<client, udpmap, lru, connections, buf, sent, npkt>>

(* Cancellation while the loop waits for connection_made closes the        *)
(* transport; connection_made was queued before and still runs first.      *)
Cancel(o) ==
  /\ stage[o] = "created"
  /\ stage' = [stage EXCEPT ![o] = "aborting"]
  /\ UNCHANGED <<client, udpmap, lru, connections, buf, sent, npkt, calm>>

(* Protocol.connection_made: send the buffered datagrams, then touch.  An  *)
(* opening that was cancelled closes the transport right after, so its     *)
(* datagrams are sent as well; the close is part of this step.             *)
ConnectionMadeKeepsBuffer(o) ==
  /\ stage[o] \in Unconnected
  /\ stage' = [stage EXCEPT ![o] = IF @ = "created" THEN "open" ELSE "closing"]
  /\ sent' = [sent EXCEPT ![o] = @ \o buf[o]]
  /\ udp_touch(client[o], o)
  /\ UNCHANGED <<client, connections, buf, npkt, calm>>

ConnectionMade(o) ==
  /\ stage[o] \in Unconnected
  /\ stage' = [stage EXCEPT ![o] = IF @ = "created" THEN "open" ELSE "closing"]
  /\ sent' = [sent EXCEPT ![o] = @ \o buf[o]]
  /\ buf' = [buf EXCEPT ![o] = <<>>]
  /\ udp_touch(client[o], o)
  /\ UNCHANGED <<client, connections, npkt, calm>>

(* Protocol.datagram_received: reply to the client, then touch.            *)
DatagramReceived(o) ==
  /\ stage[o] = "open"
  /\ udp_touch(client[o], o)
  /\ UNCHANGED <<stage, client, connections, buf, sent, npkt, calm>>

(* Protocol.connection_lost discards by address, whoever is mapped there.  *)
ConnectionLost(o) ==
  /\ stage[o] = "closing"
  /\ stage' = [stage EXCEPT ![o] = "gone"]
  /\ udp_discard(client[o])
  /\ calm' = (calm /\ (client[o] \in DOMAIN udpmap => udpmap[client[o]] = o))
  /\ UNCHANGED <<client, buf, sent, npkt>>

(* ProxyDirect.close: close the transport of every mapped association.     *)
Close ==
  LET mapped == {udpmap[a] : a \in DOMAIN udpmap} IN
  /\ \E o \in mapped : stage[o] = "open"
  /\ stage' = [o \in Assoc |-> IF o \in mapped /\ stage[o] = "open"
                                 THEN "closing" ELSE stage[o]]
  /\ UNCHANGED <<client, udpmap, lru, connections, buf, sent, npkt, calm>>

Next ==
  \/ \E a \in Addr : Reuse(a)
  \/ \E o \in Assoc, a \in Addr : Open(o, a)
  \/ \E o \in Assoc : \/ Create(o) \/ Fail(o) \/ Cancel(o)
                      \/ ConnectionMade(o) \/ DatagramReceived(o)
                      \/ ConnectionLost(o)
  \/ Close

Spec == Init /\ [][Next]_vars

-----------------------------------------------------------------------------
(* Every variable has its type; the table holds only created associations. *)
TypeOK ==
  /\ stage \in [Assoc -> Stage]
  /\ client \in [Assoc -> Addr \cup {NoAddr}]
  /\ DOMAIN udpmap \subseteq Addr
  /\ udpmap \in [DOMAIN udpmap -> Assoc]
  /\ lru \in Seq(Addr)
  /\ connections \in Int
  /\ buf \in [Assoc -> Seq(1..MaxPackets)]
  /\ sent \in [Assoc -> Seq(1..MaxPackets)]
  /\ npkt \in 0..MaxPackets
  /\ calm \in BOOLEAN

(* udp_lru and udpmap hold the same addresses, each once, in every         *)
(* interleaving: the eviction in udp_evict_if_needed never pops an address *)
(* without an association (it would dereference None.transport).           *)
TablesAgree ==
  /\ DOMAIN udpmap = Keys(lru)
  /\ Distinct(lru)

(* Datagrams of a client leave an association in the order they arrived,   *)
(* the buffered ones before those sent after connection_made.              *)
InOrder ==
  \A o \in Assoc : LET s == sent[o] \o buf[o]
                   IN  \A i, j \in 1..Len(s) : i < j => s[i] < s[j]

(* As long as none of the four races happened, the strategy's load counter *)
(* (what 'lc' scheduling reads) is the number of table entries plus the    *)
(* associations still being resolved.                                      *)
CalmAccounting ==
  calm => connections = Len(lru) + Cardinality(In({"resolving"}))

(* Without a race, the table exceeds UDP_LIMIT by no more than the opens   *)
(* that can be in flight at once.                                          *)
CalmBound == calm => Len(lru) <= Limit - 1 + TaskLimit

(* Without a race, an association whose transport is up is the one its     *)
(* client is mapped to: it can be found for reuse, eviction and shutdown.  *)
CalmReachable ==
  calm => \A o \in In({"created", "open"}) :
             client[o] \in DOMAIN udpmap /\ udpmap[client[o]] = o

(***************************************************************************)
(* What the repository says and the code does not keep.                    *)
(***************************************************************************)
(* udp_open_connection: "Open or reuse one remote UDP association for a    *)
(* client address."                                                        *)
OneAssociationPerClient ==
  \A o, p \in In({"open"}) : client[o] = client[p] => o = p
=============================================================================
