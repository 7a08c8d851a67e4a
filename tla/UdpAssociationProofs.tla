------------------------ MODULE UdpAssociationProofs ------------------------
(***************************************************************************)
(* Proofs about the UDP association table, for any number of clients,      *)
(* association attempts, table limit and task limit.                       *)
(***************************************************************************)
EXTENDS UdpAssociation, FiniteSetTheorems, TLAPS

-----------------------------------------------------------------------------
(* Operations on the access order.                                         *)

(* Popping a present key keeps the other keys, each once.                  *)
LEMMA WithoutPresent ==
  ASSUME NEW S, NEW s \in Seq(S), NEW a \in Keys(s), Distinct(s)
  PROVE  /\ Without(s, a) \in Seq(S)
         /\ Len(Without(s, a)) = Len(s) - 1
         /\ Keys(Without(s, a)) = Keys(s) \ {a}
         /\ Distinct(Without(s, a))
<1> DEFINE k == CHOOSE i \in 1..Len(s) : s[i] = a
           w == [i \in 1..(Len(s) - 1) |-> IF i < k THEN s[i] ELSE s[i + 1]]
<1>1. /\ k \in 1..Len(s)
      /\ s[k] = a
  BY DEF Keys
<1>2. Without(s, a) = w
  BY DEF Without
<1> HIDE DEF k
<1>3. Len(s) \in Nat /\ Len(s) >= 1
  BY <1>1
<1>4. \A i \in 1..(Len(s) - 1) : w[i] \in S
  BY <1>1, <1>3
<1>5. w \in Seq(S) /\ Len(w) = Len(s) - 1
  <2>1. w \in [1..(Len(s) - 1) -> S]
    BY <1>4
  <2>2. Len(s) - 1 \in Nat
    BY <1>3
  <2> QED BY <2>1, <2>2
<1>6. Keys(w) = Keys(s) \ {a}
  <2>1. ASSUME NEW x \in Keys(w) PROVE x \in Keys(s) \ {a}
    <3>1. PICK i \in 1..(Len(s) - 1) : x = w[i]
      BY <1>5, <2>1 DEF Keys
    <3>2. CASE i < k
      BY <1>1, <1>3, <3>1, <3>2 DEF Keys, Distinct
    <3>3. CASE ~(i < k)
      BY <1>1, <1>3, <3>1, <3>3 DEF Keys, Distinct
    <3> QED BY <3>2, <3>3
  <2>2. ASSUME NEW x \in Keys(s) \ {a} PROVE x \in Keys(w)
    <3>1. PICK j \in 1..Len(s) : x = s[j]
      BY <2>2 DEF Keys
    <3>2. j # k
      BY <1>1, <2>2, <3>1
    <3>3. CASE j < k
      <4>1. j \in 1..(Len(s) - 1) /\ w[j] = x
        BY <1>1, <1>3, <3>1, <3>3
      <4> QED BY <4>1, <1>5 DEF Keys
    <3>4. CASE j > k
      <4>1. (j - 1) \in 1..(Len(s) - 1) /\ w[j - 1] = x
        BY <1>1, <1>3, <3>1, <3>4
      <4> QED BY <4>1, <1>5 DEF Keys
    <3> QED BY <1>1, <3>1, <3>2, <3>3, <3>4
  <2> QED BY <2>1, <2>2
<1>7. Distinct(w)
  <2> SUFFICES ASSUME NEW i \in 1..(Len(s) - 1), NEW j \in 1..(Len(s) - 1),
                      w[i] = w[j]
               PROVE  i = j
    BY <1>5 DEF Distinct
  <2> QED BY <1>1, <1>3 DEF Distinct
<1> QED BY <1>2, <1>5, <1>6, <1>7

(* Popping any key, present or not.                                        *)
LEMMA WithoutAny ==
  ASSUME NEW S, NEW s \in Seq(S), NEW a, Distinct(s)
  PROVE  /\ Without(s, a) \in Seq(S)
         /\ Keys(Without(s, a)) = Keys(s) \ {a}
         /\ Distinct(Without(s, a))
         /\ a \notin Keys(s) => Without(s, a) = s
<1>1. CASE a \in Keys(s)
  BY <1>1, WithoutPresent
<1>2. CASE a \notin Keys(s)
  BY <1>2 DEF Without
<1> QED BY <1>1, <1>2

(* Moving a key to the end keeps the keys, each once.                      *)
LEMMA TouchedProps ==
  ASSUME NEW S, NEW s \in Seq(S), NEW a \in S, Distinct(s)
  PROVE  /\ Touched(s, a) \in Seq(S)
         /\ Keys(Touched(s, a)) = Keys(s) \cup {a}
         /\ Distinct(Touched(s, a))
         /\ Len(Touched(s, a)) =
              IF a \in Keys(s) THEN Len(s) ELSE Len(s) + 1
<1> DEFINE w == Without(s, a)
<1>1. /\ w \in Seq(S)
      /\ Keys(w) = Keys(s) \ {a}
      /\ Distinct(w)
      /\ a \notin Keys(s) => w = s
      /\ a \in Keys(s) => Len(w) = Len(s) - 1
  BY WithoutAny, WithoutPresent
<1> HIDE DEF w
<1>2. Touched(s, a) = Append(w, a)
  BY DEF Touched, w
<1>3. Keys(Append(w, a)) = Keys(w) \cup {a}
  <2>1. ASSUME NEW x \in Keys(Append(w, a)) PROVE x \in Keys(w) \cup {a}
    BY <1>1, <2>1 DEF Keys
  <2>2. ASSUME NEW x \in Keys(w) PROVE x \in Keys(Append(w, a))
    <3>1. PICK i \in 1..Len(w) : x = w[i]
      BY <2>2 DEF Keys
    <3>2. i \in 1..Len(Append(w, a)) /\ Append(w, a)[i] = x
      BY <1>1, <3>1
    <3> QED BY <3>2 DEF Keys
  <2>3. a \in Keys(Append(w, a))
    <3>1. /\ (Len(w) + 1) \in 1..Len(Append(w, a))
          /\ Append(w, a)[Len(w) + 1] = a
      BY <1>1
    <3> QED BY <3>1 DEF Keys
  <2> QED BY <2>1, <2>2, <2>3
<1>4. Distinct(Append(w, a))
  <2>1. a \notin Keys(w)
    BY <1>1
  <2> SUFFICES ASSUME NEW i \in 1..(Len(w) + 1), NEW j \in 1..(Len(w) + 1),
                      Append(w, a)[i] = Append(w, a)[j]
               PROVE  i = j
    BY <1>1 DEF Distinct
  <2> QED BY <1>1, <2>1 DEF Distinct, Keys
<1>5. Append(w, a) \in Seq(S) /\ Len(Append(w, a)) = Len(w) + 1
  BY <1>1
<1> QED BY <1>1, <1>2, <1>3, <1>4, <1>5

(* Popping the least recently used key.                                    *)
LEMMA TailProps ==
  ASSUME NEW S, NEW s \in Seq(S), Len(s) > 0, Distinct(s)
  PROVE  /\ Head(s) \in Keys(s)
         /\ Tail(s) \in Seq(S)
         /\ Len(Tail(s)) = Len(s) - 1
         /\ Keys(Tail(s)) = Keys(s) \ {Head(s)}
         /\ Distinct(Tail(s))
<1>1. /\ Head(s) = s[1]
      /\ Tail(s) \in Seq(S)
      /\ Len(Tail(s)) = Len(s) - 1
      /\ \A i \in 1..(Len(s) - 1) : Tail(s)[i] = s[i + 1]
  OBVIOUS
<1>2. Head(s) \in Keys(s)
  BY <1>1 DEF Keys
<1>3. ASSUME NEW x \in Keys(Tail(s)) PROVE x \in Keys(s) \ {Head(s)}
  <2>1. PICK i \in 1..(Len(s) - 1) : x = s[i + 1]
    BY <1>1, <1>3 DEF Keys
  <2> QED BY <1>1, <2>1 DEF Keys, Distinct
<1>4. ASSUME NEW x \in Keys(s) \ {Head(s)} PROVE x \in Keys(Tail(s))
  <2>1. PICK j \in 1..Len(s) : x = s[j]
    BY <1>4 DEF Keys
  <2>2. (j - 1) \in 1..Len(Tail(s)) /\ Tail(s)[j - 1] = x
    BY <1>1, <1>4, <2>1
  <2> QED BY <2>2 DEF Keys
<1>5. Distinct(Tail(s))
  BY <1>1 DEF Distinct
<1> QED BY <1>1, <1>2, <1>3, <1>4, <1>5

-----------------------------------------------------------------------------
(***************************************************************************)
(* The tables agree.  The strengthening only needs to know that an attempt *)
(* that was started has a client address.                                  *)
(***************************************************************************)
ClientKnown == \A o \in Assoc : stage[o] # "unused" => client[o] \in Addr

(* Holds in every run: types, and the agreement of udpmap and udp_lru.     *)
TInv == TypeOK /\ ClientKnown /\ TablesAgree

(* udp_touch preserves the types and the agreement of the tables.          *)
LEMMA TouchTables ==
  ASSUME TInv, NEW a \in Addr, NEW o \in Assoc, udp_touch(a, o)
  PROVE  /\ DOMAIN udpmap' \subseteq Addr
         /\ udpmap' \in [DOMAIN udpmap' -> Assoc]
         /\ lru' \in Seq(Addr)
         /\ TablesAgree'
         /\ DOMAIN udpmap' = DOMAIN udpmap \cup {a}
<1>1. lru \in Seq(Addr) /\ Distinct(lru) /\ DOMAIN udpmap = Keys(lru)
  BY DEF TInv, TypeOK, TablesAgree
<1>2. /\ lru' \in Seq(Addr)
      /\ Keys(lru') = Keys(lru) \cup {a}
      /\ Distinct(lru')
  BY <1>1, TouchedProps DEF udp_touch
<1>3. /\ DOMAIN udpmap' = DOMAIN udpmap \cup {a}
      /\ udpmap' \in [DOMAIN udpmap' -> Assoc]
  BY DEF udp_touch, Bind, TInv, TypeOK
<1>4. DOMAIN udpmap' \subseteq Addr
  BY <1>3 DEF TInv, TypeOK
<1> QED BY <1>1, <1>2, <1>3, <1>4 DEF TablesAgree

(* udp_discard preserves them too.                                         *)
LEMMA DiscardTables ==
  ASSUME TInv, NEW a \in Addr, udp_discard(a)
  PROVE  /\ DOMAIN udpmap' \subseteq Addr
         /\ udpmap' \in [DOMAIN udpmap' -> Assoc]
         /\ lru' \in Seq(Addr)
         /\ connections' \in Int
         /\ TablesAgree'
         /\ DOMAIN udpmap' = DOMAIN udpmap \ {a}
<1>1. lru \in Seq(Addr) /\ Distinct(lru) /\ DOMAIN udpmap = Keys(lru)
  BY DEF TInv, TypeOK, TablesAgree
<1>2. /\ lru' \in Seq(Addr)
      /\ Keys(lru') = Keys(lru) \ {a}
      /\ Distinct(lru')
  BY <1>1, WithoutAny DEF udp_discard
<1>3. /\ DOMAIN udpmap' = DOMAIN udpmap \ {a}
      /\ udpmap' \in [DOMAIN udpmap' -> Assoc]
      /\ connections' \in Int
  BY DEF udp_discard, Drop, TInv, TypeOK
<1>4. DOMAIN udpmap' \subseteq Addr
  BY <1>3 DEF TInv, TypeOK
<1> QED BY <1>1, <1>2, <1>3, <1>4 DEF TablesAgree

(* When the table is full it has a head, which is mapped.                  *)
LEMMA FullHead ==
  ASSUME TInv, Full
  PROVE  /\ Head(lru) \in DOMAIN udpmap
         /\ udpmap[Head(lru)] \in Assoc
         /\ Tail(lru) \in Seq(Addr)
         /\ Len(Tail(lru)) = Len(lru) - 1
         /\ Keys(Tail(lru)) = Keys(lru) \ {Head(lru)}
         /\ Distinct(Tail(lru))
<1>1. lru \in Seq(Addr) /\ Distinct(lru) /\ DOMAIN udpmap = Keys(lru)
  BY DEF TInv, TypeOK, TablesAgree
<1>2. Len(lru) > 0
  BY <1>1, LimitAssumption DEF Full
<1>3. udpmap \in [DOMAIN udpmap -> Assoc]
  BY DEF TInv, TypeOK
<1> QED BY <1>1, <1>2, <1>3, TailProps

(* What Open does to the stages: it starts o, and it closes the victim of  *)
(* a full table if the victim has a transport.                             *)
LEMMA OpenStage ==
  ASSUME TInv, NEW o \in Assoc, NEW a \in Addr, Open(o, a)
  PROVE  /\ stage' \in [Assoc -> Stage]
         /\ stage'[o] = "resolving"
         /\ \A p \in Assoc \ {o} :
              stage'[p] = IF Full /\ p = udpmap[Head(lru)] /\ stage[p] = "open"
                            THEN "closing" ELSE stage[p]
<1>0. stage \in [Assoc -> Stage]
  BY DEF TInv, TypeOK
<1>1. CASE ~Full
  BY <1>0, <1>1 DEF Open, Stage
<1>2. CASE Full
  <2> DEFINE v == udpmap[Head(lru)]
  <2>1. v \in Assoc
    BY <1>2, FullHead
  <2>2. stage' = [stage EXCEPT ![v] = IF stage[v] = "open" THEN "closing"
                                                        ELSE stage[v],
                               ![o] = "resolving"]
    BY <1>2 DEF Open, AfterEviction
  <2> HIDE DEF v
  <2>3. \A p \in Assoc : stage'[p] = IF p = o THEN "resolving"
                                    ELSE IF p = v /\ stage[p] = "open"
                                      THEN "closing" ELSE stage[p]
    BY <1>0, <2>1, <2>2
  <2>4. stage' \in [Assoc -> Stage]
    BY <1>0, <2>1, <2>2 DEF Stage
  <2> QED BY <1>2, <2>3, <2>4 DEF v
<1> QED BY <1>1, <1>2

(* The strengthening holds initially and is preserved by every step.       *)
LEMMA TInvInit == Init => TInv
<1> SUFFICES ASSUME Init PROVE TInv
  OBVIOUS
<1>1. TypeOK
  BY PacketAssumption DEF Init, TypeOK, Stage
<1>2. TablesAgree
  BY DEF Init, TablesAgree, Keys, Distinct
<1>3. ClientKnown
  BY DEF Init, ClientKnown
<1> QED BY <1>1, <1>2, <1>3 DEF TInv

LEMMA TInvNext == TInv /\ [Next]_vars => TInv'
<1> SUFFICES ASSUME TInv, [Next]_vars PROVE TInv'
  OBVIOUS
<1>0. TypeOK /\ ClientKnown /\ TablesAgree
  BY DEF TInv
<1>1. ASSUME NEW a \in Addr, Reuse(a) PROVE TInv'
  <2>1. udpmap[a] \in Assoc /\ udp_touch(a, udpmap[a])
    BY <1>0, <1>1 DEF Reuse, TypeOK
  <2>2. /\ npkt' \in 0..MaxPackets /\ npkt + 1 \in 1..MaxPackets
        /\ stage' \in [Assoc -> Stage] /\ client' \in [Assoc -> Addr \cup {NoAddr}]
        /\ connections' \in Int /\ calm' \in BOOLEAN
    BY <1>0, <1>1, PacketAssumption DEF Reuse, TypeOK
  <2>3. buf' \in [Assoc -> Seq(1..MaxPackets)]
    <3>1. Append(buf[udpmap[a]], npkt + 1) \in Seq(1..MaxPackets)
      BY <1>0, <2>1, <2>2 DEF TypeOK
    <3> QED BY <1>0, <1>1, <3>1 DEF Reuse, TypeOK
  <2>4. sent' \in [Assoc -> Seq(1..MaxPackets)]
    <3>1. Append(sent[udpmap[a]], npkt + 1) \in Seq(1..MaxPackets)
      BY <1>0, <2>1, <2>2 DEF TypeOK
    <3> QED BY <1>0, <1>1, <3>1 DEF Reuse, TypeOK
  <2>5. ClientKnown'
    BY <1>0, <1>1 DEF Reuse, ClientKnown
  <2> QED BY <2>1, <2>2, <2>3, <2>4, <2>5, TouchTables DEF TInv, TypeOK
<1>2. ASSUME NEW o \in Assoc, NEW a \in Addr, Open(o, a) PROVE TInv'
  <2>1. /\ npkt' \in 0..MaxPackets /\ npkt + 1 \in 1..MaxPackets
        /\ connections' \in Int /\ calm' \in BOOLEAN
        /\ client' \in [Assoc -> Addr \cup {NoAddr}]
        /\ sent' \in [Assoc -> Seq(1..MaxPackets)]
    BY <1>0, <1>2, PacketAssumption DEF Open, TypeOK
  <2>2. buf' \in [Assoc -> Seq(1..MaxPackets)]
    <3>1. <<npkt + 1>> \in Seq(1..MaxPackets)
      BY <2>1
    <3> QED BY <1>0, <1>2, <3>1 DEF Open, TypeOK
  <2>3. stage' \in [Assoc -> Stage]
    BY <1>2, OpenStage
  <2>4. ClientKnown'
    BY <1>0, <1>2, OpenStage DEF Open, TypeOK, ClientKnown
  <2>5. /\ DOMAIN udpmap' \subseteq Addr
        /\ udpmap' \in [DOMAIN udpmap' -> Assoc]
        /\ lru' \in Seq(Addr)
        /\ TablesAgree'
    <3>1. CASE ~Full
      BY <1>0, <1>2, <3>1 DEF Open, TypeOK, TablesAgree
    <3>2. CASE Full
      BY <1>0, <1>2, <3>2, FullHead DEF Open, TypeOK, TablesAgree, Drop
    <3> QED BY <3>1, <3>2
  <2> QED BY <2>1, <2>2, <2>3, <2>4, <2>5 DEF TInv, TypeOK
<1>3. ASSUME NEW o \in Assoc, Create(o) PROVE TInv'
  <2>1. client[o] \in Addr /\ udp_touch(client[o], o)
    BY <1>0, <1>3 DEF Create, ClientKnown
  <2>2. ClientKnown' /\ stage' \in [Assoc -> Stage]
    BY <1>0, <1>3 DEF Create, ClientKnown, TypeOK, Stage
  <2> QED BY <1>0, <1>3, <2>1, <2>2, TouchTables DEF Create, TInv, TypeOK
<1>4. ASSUME NEW o \in Assoc, Fail(o) PROVE TInv'
  BY <1>0, <1>4 DEF Fail, TInv, TypeOK, Stage, ClientKnown, TablesAgree
<1>5. ASSUME NEW o \in Assoc, Cancel(o) PROVE TInv'
  BY <1>0, <1>5 DEF Cancel, TInv, TypeOK, Stage, ClientKnown, TablesAgree
<1>6. ASSUME NEW o \in Assoc, ConnectionMade(o) PROVE TInv'
  <2>1. client[o] \in Addr /\ udp_touch(client[o], o)
    BY <1>0, <1>6 DEF ConnectionMade, ClientKnown, Unconnected
  <2>2. ClientKnown' /\ stage' \in [Assoc -> Stage]
    BY <1>0, <1>6 DEF ConnectionMade, ClientKnown, TypeOK, Stage, Unconnected
  <2>3. sent' \in [Assoc -> Seq(1..MaxPackets)]
    <3>1. (sent[o] \o buf[o]) \in Seq(1..MaxPackets)
      BY <1>0 DEF TypeOK
    <3> QED BY <1>0, <1>6, <3>1 DEF ConnectionMade, TypeOK
  <2>4. buf' \in [Assoc -> Seq(1..MaxPackets)]
    BY <1>0, <1>6 DEF ConnectionMade, TypeOK
  <2> QED BY <1>0, <1>6, <2>1, <2>2, <2>3, <2>4, TouchTables
          DEF ConnectionMade, TInv, TypeOK
<1>7. ASSUME NEW o \in Assoc, DatagramReceived(o) PROVE TInv'
  <2>1. client[o] \in Addr /\ udp_touch(client[o], o)
    BY <1>0, <1>7 DEF DatagramReceived, ClientKnown
  <2>2. ClientKnown'
    BY <1>0, <1>7 DEF DatagramReceived, ClientKnown
  <2> QED BY <1>0, <1>7, <2>1, <2>2, TouchTables DEF DatagramReceived, TInv, TypeOK
<1>8. ASSUME NEW o \in Assoc, ConnectionLost(o) PROVE TInv'
  <2>1. client[o] \in Addr /\ udp_discard(client[o])
    BY <1>0, <1>8 DEF ConnectionLost, ClientKnown
  <2>2. ClientKnown' /\ stage' \in [Assoc -> Stage] /\ calm' \in BOOLEAN
    BY <1>0, <1>8 DEF ConnectionLost, ClientKnown, TypeOK, Stage
  <2> QED BY <1>0, <1>8, <2>1, <2>2, DiscardTables DEF ConnectionLost, TInv, TypeOK
<1>9. CASE Close
  BY <1>0, <1>9 DEF Close, TInv, TypeOK, Stage, ClientKnown, TablesAgree
<1>10. CASE UNCHANGED vars
  BY <1>0, <1>10 DEF vars, TInv, TypeOK, ClientKnown, TablesAgree, Keys, Distinct
<1> QED BY <1>1, <1>2, <1>3, <1>4, <1>5, <1>6, <1>7, <1>8, <1>9, <1>10 DEF Next

(* Type correctness of the association table, for every instance.          *)
THEOREM TypeCorrect == Spec => []TypeOK
<1>1. TInv => TypeOK
  BY DEF TInv
<1> QED BY <1>1, TInvInit, TInvNext, PTL DEF Spec

(* udpmap and udp_lru agree in every interleaving of opens, callbacks,     *)
(* evictions, failures, cancellations and close: the eviction always finds *)
(* an association to close.                                                *)
THEOREM TablesAlwaysAgree == Spec => []TablesAgree
<1>1. TInv => TablesAgree
  BY DEF TInv
<1> QED BY <1>1, TInvInit, TInvNext, PTL DEF Spec

-----------------------------------------------------------------------------
(***************************************************************************)
(* Runs without a race.  The invariant ties each mapped address to the     *)
(* association opened for it, each association with a transport to its     *)
(* entry, and each open in progress to an address that is not mapped.      *)
(***************************************************************************)
MappedIsOurs ==
  \A a \in DOMAIN udpmap :
    /\ client[udpmap[a]] = a
    /\ stage[udpmap[a]] \in {"created", "aborting", "open", "closing"}

LiveIsMapped ==
  \A o \in In({"created", "aborting", "open"}) :
    client[o] \in DOMAIN udpmap /\ udpmap[client[o]] = o

ResolvingIsUnmapped ==
  \A o \in In({"resolving"}) :
    /\ client[o] \notin DOMAIN udpmap
    /\ \A p \in In({"resolving"}) : client[o] = client[p] => o = p

CalmMap == calm => MappedIsOurs /\ LiveIsMapped /\ ResolvingIsUnmapped

LEMMA CalmMapInit == Init => CalmMap
BY DEF Init, CalmMap, MappedIsOurs, LiveIsMapped, ResolvingIsUnmapped, In

(* A touch by the association that owns the entry changes no entry.        *)
LEMMA TouchOwn ==
  ASSUME NEW a \in DOMAIN udpmap, TInv, udp_touch(a, udpmap[a])
  PROVE  udpmap' = udpmap
BY DEF udp_touch, Bind, TInv, TypeOK

LEMMA CalmMapNext == TInv /\ CalmMap /\ [Next]_vars => CalmMap'
<1> SUFFICES ASSUME TInv, CalmMap, [Next]_vars, calm'
             PROVE  (MappedIsOurs /\ LiveIsMapped /\ ResolvingIsUnmapped)'
  BY DEF CalmMap
<1>0. /\ TypeOK /\ ClientKnown
      /\ stage \in [Assoc -> Stage]
      /\ client \in [Assoc -> Addr \cup {NoAddr}]
      /\ udpmap \in [DOMAIN udpmap -> Assoc]
  BY DEF TInv, TypeOK
<1>c. ASSUME calm PROVE MappedIsOurs /\ LiveIsMapped /\ ResolvingIsUnmapped
  BY <1>c DEF CalmMap
<1>1. ASSUME NEW a \in Addr, Reuse(a)
      PROVE  (MappedIsOurs /\ LiveIsMapped /\ ResolvingIsUnmapped)'
  <2>1. udpmap' = udpmap /\ calm
    BY <1>1, TouchOwn DEF Reuse
  <2> QED BY <1>1, <1>c, <2>1
          DEF Reuse, MappedIsOurs, LiveIsMapped, ResolvingIsUnmapped, In
<1>2. ASSUME NEW o \in Assoc, NEW a \in Addr, Open(o, a)
      PROVE  (MappedIsOurs /\ LiveIsMapped /\ ResolvingIsUnmapped)'
  <2>1. /\ calm
        /\ stage[o] = "unused"
        /\ a \notin DOMAIN udpmap
        /\ \A p \in In({"resolving"}) : client[p] # a
        /\ Full => stage[udpmap[Head(lru)]] \notin Unconnected
        /\ client' = [client EXCEPT ![o] = a]
    BY <1>2 DEF Open
  <2>2. MappedIsOurs /\ LiveIsMapped /\ ResolvingIsUnmapped
    BY <2>1, <1>c
  <2>3. /\ client'[o] = a
        /\ \A p \in Assoc \ {o} : client'[p] = client[p]
    BY <1>0, <2>1
  <2>4. \A b \in DOMAIN udpmap : udpmap[b] \in Assoc \ {o}
    BY <1>0, <2>1, <2>2 DEF MappedIsOurs
  <2>5. CASE ~Full
    <3>1. udpmap' = udpmap
      BY <1>2, <2>5 DEF Open
    <3>2. /\ stage'[o] = "resolving"
          /\ \A p \in Assoc \ {o} : stage'[p] = stage[p]
      BY <1>2, <2>5, OpenStage
    <3> QED BY <2>1, <2>2, <2>3, <2>4, <3>1, <3>2
            DEF MappedIsOurs, LiveIsMapped, ResolvingIsUnmapped, In
  <2>6. CASE Full
    <3> DEFINE h == Head(lru)
               v == udpmap[h]
    <3>1. h \in DOMAIN udpmap /\ v \in Assoc \ {o}
      BY <2>4, <2>6, FullHead
    <3>2. udpmap' = Drop(udpmap, h)
      BY <1>2, <2>6 DEF Open
    <3>3. /\ stage'[o] = "resolving"
          /\ \A p \in Assoc \ {o} :
               stage'[p] = IF p = v /\ stage[p] = "open" THEN "closing"
                                                        ELSE stage[p]
      BY <1>2, <2>6, OpenStage
    <3>4. stage[v] \notin Unconnected /\ client[v] = h
      BY <2>1, <2>2, <2>6, <3>1 DEF MappedIsOurs
    <3>5. stage'[v] = "closing"
      BY <2>2, <3>1, <3>3, <3>4 DEF MappedIsOurs, Unconnected
    <3> HIDE DEF h, v
    <3>6. /\ DOMAIN udpmap' = DOMAIN udpmap \ {h}
          /\ \A b \in DOMAIN udpmap' : udpmap'[b] = udpmap[b]
      BY <3>2 DEF Drop
    <3>7. MappedIsOurs'
      BY <2>2, <2>3, <2>4, <3>3, <3>6 DEF MappedIsOurs
    <3>8. LiveIsMapped'
      <4> SUFFICES ASSUME NEW p \in Assoc,
                          stage'[p] \in {"created", "aborting", "open"}
                   PROVE  client'[p] \in DOMAIN udpmap' /\ udpmap'[client'[p]] = p
        BY DEF LiveIsMapped, In
      <4>1. p # o /\ p # v /\ stage'[p] = stage[p]
        BY <3>3, <3>5
      <4>2. client[p] \in DOMAIN udpmap /\ udpmap[client[p]] = p
        BY <2>2, <4>1 DEF LiveIsMapped, In
      <4>3. client[p] # h
        BY <4>1, <4>2 DEF v
      <4> QED BY <2>3, <3>6, <4>1, <4>2, <4>3
    <3>9. ResolvingIsUnmapped'
      BY <2>1, <2>2, <2>3, <3>3, <3>6 DEF ResolvingIsUnmapped, In
    <3> QED BY <3>7, <3>8, <3>9
  <2> QED BY <2>5, <2>6
<1>3. ASSUME NEW o \in Assoc, Create(o)
      PROVE  (MappedIsOurs /\ LiveIsMapped /\ ResolvingIsUnmapped)'
  <2>1. /\ calm /\ stage[o] = "resolving" /\ client' = client
        /\ stage' = [stage EXCEPT ![o] = "created"]
        /\ udpmap' = Bind(udpmap, client[o], o)
    BY <1>3 DEF Create, udp_touch
  <2>2. MappedIsOurs /\ LiveIsMapped /\ ResolvingIsUnmapped
    BY <2>1, <1>c
  <2>3. client[o] \notin DOMAIN udpmap
    BY <2>1, <2>2 DEF ResolvingIsUnmapped, In
  <2>4. /\ DOMAIN udpmap' = DOMAIN udpmap \cup {client[o]}
        /\ udpmap'[client[o]] = o
        /\ \A b \in DOMAIN udpmap : udpmap'[b] = udpmap[b]
    BY <2>1, <2>3 DEF Bind
  <2>5. /\ stage'[o] = "created"
        /\ \A p \in Assoc \ {o} : stage'[p] = stage[p]
    BY <1>0, <2>1
  <2>6. \A b \in DOMAIN udpmap : udpmap[b] \in Assoc \ {o}
    BY <1>0, <2>1, <2>2 DEF MappedIsOurs
  <2>7. MappedIsOurs'
    BY <2>1, <2>2, <2>4, <2>5, <2>6 DEF MappedIsOurs
  <2>8. LiveIsMapped'
    BY <2>1, <2>2, <2>4, <2>5 DEF LiveIsMapped, In
  <2>9. ResolvingIsUnmapped'
    BY <2>1, <2>2, <2>4, <2>5 DEF ResolvingIsUnmapped, In
  <2> QED BY <2>7, <2>8, <2>9
<1>4. ASSUME NEW o \in Assoc, Fail(o)
      PROVE  (MappedIsOurs /\ LiveIsMapped /\ ResolvingIsUnmapped)'
  BY <1>4 DEF Fail
<1>5. ASSUME NEW o \in Assoc, Cancel(o)
      PROVE  (MappedIsOurs /\ LiveIsMapped /\ ResolvingIsUnmapped)'
  <2>1. /\ calm /\ stage[o] = "created"
        /\ client' = client /\ udpmap' = udpmap
        /\ stage'[o] = "aborting"
        /\ \A p \in Assoc \ {o} : stage'[p] = stage[p]
    BY <1>0, <1>5 DEF Cancel
  <2> QED BY <1>0, <1>c, <2>1
          DEF MappedIsOurs, LiveIsMapped, ResolvingIsUnmapped, In
<1>6. ASSUME NEW o \in Assoc, ConnectionMade(o)
      PROVE  (MappedIsOurs /\ LiveIsMapped /\ ResolvingIsUnmapped)'
  <2>1. /\ calm /\ stage[o] \in {"created", "aborting"} /\ client' = client
        /\ stage'[o] \in {"open", "closing"}
        /\ \A p \in Assoc \ {o} : stage'[p] = stage[p]
        /\ udp_touch(client[o], o)
    BY <1>0, <1>6 DEF ConnectionMade, Unconnected
  <2>2. MappedIsOurs /\ LiveIsMapped /\ ResolvingIsUnmapped
    BY <2>1, <1>c
  <2>3. client[o] \in DOMAIN udpmap /\ udpmap[client[o]] = o
    BY <2>1, <2>2 DEF LiveIsMapped, In
  <2>4. udpmap' = udpmap
    BY <2>1, <2>3, TouchOwn
  <2> QED BY <1>0, <2>1, <2>2, <2>3, <2>4
          DEF MappedIsOurs, LiveIsMapped, ResolvingIsUnmapped, In
<1>7. ASSUME NEW o \in Assoc, DatagramReceived(o)
      PROVE  (MappedIsOurs /\ LiveIsMapped /\ ResolvingIsUnmapped)'
  <2>1. /\ calm /\ stage[o] = "open" /\ client' = client /\ stage' = stage
        /\ udp_touch(client[o], o)
    BY <1>7 DEF DatagramReceived
  <2>2. client[o] \in DOMAIN udpmap /\ udpmap[client[o]] = o
    BY <1>c, <2>1 DEF LiveIsMapped, In
  <2>3. udpmap' = udpmap
    BY <2>1, <2>2, TouchOwn
  <2> QED BY <1>c, <2>1, <2>3
          DEF MappedIsOurs, LiveIsMapped, ResolvingIsUnmapped, In
<1>8. ASSUME NEW o \in Assoc, ConnectionLost(o)
      PROVE  (MappedIsOurs /\ LiveIsMapped /\ ResolvingIsUnmapped)'
  <2>1. /\ calm /\ stage[o] = "closing" /\ client' = client
        /\ stage'[o] = "gone"
        /\ \A p \in Assoc \ {o} : stage'[p] = stage[p]
        /\ udpmap' = Drop(udpmap, client[o])
        /\ client[o] \in DOMAIN udpmap => udpmap[client[o]] = o
    BY <1>0, <1>8 DEF ConnectionLost, udp_discard
  <2>2. MappedIsOurs /\ LiveIsMapped /\ ResolvingIsUnmapped
    BY <2>1, <1>c
  <2>3. /\ DOMAIN udpmap' = DOMAIN udpmap \ {client[o]}
        /\ \A b \in DOMAIN udpmap' : udpmap'[b] = udpmap[b]
    BY <2>1 DEF Drop
  <2>4. MappedIsOurs'
    <3> SUFFICES ASSUME NEW b \in DOMAIN udpmap'
                 PROVE  /\ client'[udpmap'[b]] = b
                        /\ stage'[udpmap'[b]]
                             \in {"created", "aborting", "open", "closing"}
      BY DEF MappedIsOurs
    <3>1. udpmap[b] \in Assoc \ {o} /\ udpmap'[b] = udpmap[b]
      BY <1>0, <2>2, <2>3 DEF MappedIsOurs
    <3> QED BY <2>1, <2>2, <2>3, <3>1 DEF MappedIsOurs
  <2>5. LiveIsMapped'
    BY <2>1, <2>2, <2>3 DEF LiveIsMapped, In
  <2>6. ResolvingIsUnmapped'
    BY <2>1, <2>2, <2>3 DEF ResolvingIsUnmapped, In
  <2> QED BY <2>4, <2>5, <2>6
<1>9. CASE Close
  <2>1. /\ calm /\ client' = client /\ udpmap' = udpmap
        /\ \A p \in Assoc :
             \/ stage'[p] = stage[p]
             \/ stage[p] = "open" /\ stage'[p] = "closing"
    <3>1. calm /\ client' = client /\ udpmap' = udpmap
      BY <1>9 DEF Close
    <3> DEFINE M == {udpmap[a] : a \in DOMAIN udpmap}
    <3>2. stage' = [p \in Assoc |-> IF p \in M /\ stage[p] = "open"
                                      THEN "closing" ELSE stage[p]]
      BY <1>9 DEF Close
    <3> HIDE DEF M
    <3>4. \A p \in Assoc :
             \/ stage'[p] = stage[p]
             \/ stage[p] = "open" /\ stage'[p] = "closing"
      BY <3>2
    <3> QED BY <3>1, <3>4
  <2> QED BY <1>0, <1>c, <2>1
          DEF MappedIsOurs, LiveIsMapped, ResolvingIsUnmapped, In
<1>10. CASE UNCHANGED vars
  BY <1>c, <1>10 DEF vars, MappedIsOurs, LiveIsMapped, ResolvingIsUnmapped, In
<1> QED BY <1>1, <1>2, <1>3, <1>4, <1>5, <1>6, <1>7, <1>8, <1>9, <1>10 DEF Next

(* In a run without a race, every association with a transport is the one  *)
(* its client is mapped to.                                                *)
THEOREM CalmAlwaysReachable == Spec => []CalmReachable
<1>1. CalmMap => CalmReachable
  BY DEF CalmMap, CalmReachable, LiveIsMapped, In
<1> QED BY <1>1, TInvInit, TInvNext, CalmMapInit, CalmMapNext, PTL DEF Spec

-----------------------------------------------------------------------------
(***************************************************************************)
(* Counting.  The opens in flight never exceed the task limit; without a   *)
(* race the counter is what the table and the pending opens account for,   *)
(* and an open either finds room or replaces an entry.                     *)
(***************************************************************************)
Resolving == In({"resolving"})

FlightInv == IsFiniteSet(InFlight) /\ Cardinality(InFlight) <= TaskLimit

Counts ==
  calm => /\ connections = Len(lru) + Cardinality(Resolving)
          /\ Len(lru) + Cardinality(Resolving) <= Limit - 1 + TaskLimit

(* The pending opens are finitely many, and among those in flight.         *)
LEMMA ResolvingFinite ==
  ASSUME FlightInv
  PROVE  /\ IsFiniteSet(Resolving)
         /\ Cardinality(Resolving) \in Nat
         /\ Cardinality(InFlight) \in Nat
         /\ Cardinality(Resolving) <= Cardinality(InFlight)
<1>1. Resolving \subseteq InFlight
  BY DEF Resolving, InFlight, In
<1> QED BY <1>1, FS_Subset, FS_CardinalityType DEF FlightInv

(* A task that leaves the two awaits leaves the set in flight.             *)
LEMMA Leaves ==
  ASSUME NEW o \in Assoc, FlightInv, InFlight' = InFlight \ {o}
  PROVE  FlightInv'
<1>1. /\ IsFiniteSet(InFlight \ {o})
      /\ Cardinality(InFlight \ {o}) <= Cardinality(InFlight)
  <2>1. IsFiniteSet(InFlight) /\ Cardinality(InFlight) \in Nat
    BY FS_CardinalityType DEF FlightInv
  <2>2. /\ IsFiniteSet(InFlight \ {o})
        /\ Cardinality(InFlight \ {o}) =
             IF o \in InFlight THEN Cardinality(InFlight) - 1
                               ELSE Cardinality(InFlight)
    BY <2>1, FS_RemoveElement, Zenon
  <2> QED BY <2>1, <2>2
<1>2. Cardinality(InFlight) \in Nat /\ Cardinality(InFlight \ {o}) \in Nat
  BY <1>1, FS_CardinalityType DEF FlightInv
<1>3. Cardinality(InFlight \ {o}) <= TaskLimit
  BY <1>1, <1>2, TaskAssumption DEF FlightInv
<1> QED BY <1>1, <1>3 DEF FlightInv

LEMMA FlightNext == TInv /\ FlightInv /\ [Next]_vars => FlightInv'
<1> SUFFICES ASSUME TInv, FlightInv, [Next]_vars PROVE FlightInv'
  OBVIOUS
<1>0. stage \in [Assoc -> Stage] /\ udpmap \in [DOMAIN udpmap -> Assoc]
  BY DEF TInv, TypeOK
<1>1. ASSUME NEW o \in Assoc, NEW a \in Addr, Open(o, a) PROVE FlightInv'
  <2>1. InFlight' = InFlight \cup {o} /\ o \notin InFlight
    BY <1>1, OpenStage DEF Open, InFlight, In
  <2>2. Cardinality(InFlight) < TaskLimit
    BY <1>1 DEF Open
  <2>3. /\ IsFiniteSet(InFlight \cup {o})
        /\ Cardinality(InFlight \cup {o}) =
             IF o \in InFlight THEN Cardinality(InFlight)
                               ELSE Cardinality(InFlight) + 1
    BY FS_AddElement, Zenon DEF FlightInv
  <2>4. Cardinality(InFlight) \in Nat
    BY FS_CardinalityType DEF FlightInv
  <2>5. Cardinality(InFlight \cup {o}) <= TaskLimit
    BY <2>1, <2>2, <2>3, <2>4, TaskAssumption
  <2> QED BY <2>1, <2>3, <2>5 DEF FlightInv
<1>2. ASSUME NEW o \in Assoc, Create(o) PROVE FlightInv'
  <2>1. InFlight' = InFlight
    BY <1>0, <1>2 DEF Create, InFlight, In
  <2> QED BY <2>1 DEF FlightInv
<1>3. ASSUME NEW o \in Assoc, Fail(o) \/ Cancel(o) \/ ConnectionMade(o)
      PROVE  FlightInv'
  <2>1. CASE o \in InFlight
    <3>1. InFlight' = InFlight \ {o}
      BY <1>0, <1>3 DEF Fail, Cancel, ConnectionMade, Unconnected, InFlight, In
    <3> QED BY <3>1, Leaves
  <2>2. CASE o \notin InFlight
    <3>1. InFlight' = InFlight
      BY <1>0, <1>3, <2>2
         DEF Fail, Cancel, ConnectionMade, Unconnected, InFlight, In
    <3> QED BY <3>1 DEF FlightInv
  <2> QED BY <2>1, <2>2
<1>4. ASSUME NEW o \in Assoc, ConnectionLost(o) PROVE FlightInv'
  <2>1. InFlight' = InFlight
    BY <1>0, <1>4 DEF ConnectionLost, InFlight, In
  <2> QED BY <2>1 DEF FlightInv
<1>5. CASE Close
  <2>1. stage' = [p \in Assoc |->
                    IF p \in {udpmap[a] : a \in DOMAIN udpmap}
                         /\ stage[p] = "open" THEN "closing" ELSE stage[p]]
    BY <1>5 DEF Close
  <2>2. InFlight' = InFlight
    BY <1>0, <2>1 DEF InFlight, In
  <2> QED BY <2>2 DEF FlightInv
<1>6. ASSUME stage' = stage PROVE FlightInv'
  BY <1>6 DEF FlightInv, InFlight, In
<1> QED BY <1>1, <1>2, <1>3, <1>4, <1>5, <1>6
        DEF Next, vars, Reuse, DatagramReceived

(* A step that leaves stages, counter and the length of the order alone.   *)
LEMMA CountsSame ==
  ASSUME Counts, calm' => calm, Resolving' = Resolving,
         connections' = connections, Len(lru') = Len(lru)
  PROVE  Counts'
BY DEF Counts

(* A touch of a mapped address does not change the size of the table.      *)
LEMMA TouchSize ==
  ASSUME TInv, NEW a \in Addr, NEW o, udp_touch(a, o)
  PROVE  Len(lru') = IF a \in DOMAIN udpmap THEN Len(lru) ELSE Len(lru) + 1
<1>1. lru \in Seq(Addr) /\ Distinct(lru) /\ DOMAIN udpmap = Keys(lru)
  BY DEF TInv, TypeOK, TablesAgree
<1> QED BY <1>1, TouchedProps DEF udp_touch

LEMMA CountsNext ==
  TInv /\ CalmMap /\ FlightInv /\ FlightInv' /\ Counts /\ [Next]_vars => Counts'
<1> SUFFICES ASSUME TInv, CalmMap, FlightInv, FlightInv', Counts, [Next]_vars
             PROVE  Counts'
  OBVIOUS
<1>0. /\ stage \in [Assoc -> Stage]
      /\ lru \in Seq(Addr) /\ Len(lru) \in Nat /\ connections \in Int
      /\ Distinct(lru) /\ DOMAIN udpmap = Keys(lru)
      /\ IsFiniteSet(Resolving) /\ Cardinality(Resolving) \in Nat
      /\ Cardinality(Resolving) <= Cardinality(InFlight)
      /\ Cardinality(InFlight) \in Nat
      /\ Limit \in Nat /\ TaskLimit \in Nat
  BY ResolvingFinite, LimitAssumption, TaskAssumption
     DEF TInv, TypeOK, TablesAgree
<1>1. ASSUME NEW a \in Addr, Reuse(a) PROVE Counts'
  <2>1. Len(lru') = Len(lru)
    BY <1>1, TouchSize DEF Reuse
  <2>2. Resolving' = Resolving /\ connections' = connections /\ calm' = calm
    BY <1>1 DEF Reuse, Resolving, In
  <2> QED BY <2>1, <2>2, CountsSame
<1>2. ASSUME NEW o \in Assoc, NEW a \in Addr, Open(o, a) PROVE Counts'
  <2>1. Resolving' = Resolving \cup {o} /\ o \notin Resolving
    BY <1>2, OpenStage DEF Open, Resolving, In
  <2>2. Cardinality(Resolving') = Cardinality(Resolving) + 1
    BY <1>0, <2>1, FS_AddElement
  <2>3. calm' => calm
    BY <1>2 DEF Open
  <2>4. CASE ~Full
    <3>1. connections' = connections + 1 /\ lru' = lru /\ Len(lru) <= Limit - 1
      BY <1>0, <1>2, <2>4 DEF Open, Full
    <3>2. o \in InFlight' /\ Cardinality(InFlight) < TaskLimit
      BY <1>2, OpenStage DEF Open, InFlight, In
    <3> QED BY <1>0, <2>2, <2>3, <3>1, <3>2 DEF Counts
  <2>5. CASE Full
    <3>1. connections' = connections /\ Len(lru') = Len(lru) - 1
      BY <1>2, <2>5, FullHead DEF Open
    <3> QED BY <1>0, <2>2, <2>3, <3>1 DEF Counts
  <2> QED BY <2>4, <2>5
<1>3. ASSUME NEW o \in Assoc, Create(o) PROVE Counts'
  <2>1. Resolving' = Resolving \ {o} /\ o \in Resolving
    BY <1>0, <1>3 DEF Create, Resolving, In
  <2>2. Cardinality(Resolving') = Cardinality(Resolving) - 1
    BY <1>0, <2>1, FS_RemoveElement
  <2>3. connections' = connections /\ calm' = calm
    BY <1>3 DEF Create
  <2>4. ASSUME calm PROVE Len(lru') = Len(lru) + 1
    <3>1. client[o] \in Addr /\ client[o] \notin DOMAIN udpmap
      BY <1>3, <2>1, <2>4 DEF CalmMap, ResolvingIsUnmapped, Resolving,
                              Create, TInv, ClientKnown
    <3> QED BY <1>3, <3>1, TouchSize DEF Create
  <2> QED BY <1>0, <2>2, <2>3, <2>4 DEF Counts
<1>4. ASSUME NEW o \in Assoc, Fail(o) PROVE Counts'
  BY <1>4 DEF Fail, Counts
<1>5. ASSUME NEW o \in Assoc, Cancel(o) PROVE Counts'
  <2>1. Resolving' = Resolving
    BY <1>0, <1>5 DEF Cancel, Resolving, In
  <2> QED BY <1>5, <2>1, CountsSame DEF Cancel
<1>6. ASSUME NEW o \in Assoc, ConnectionMade(o) PROVE Counts'
  <2>1. Resolving' = Resolving
    BY <1>0, <1>6 DEF ConnectionMade, Unconnected, Resolving, In
  <2>2. ASSUME calm PROVE Len(lru') = Len(lru)
    <3>1. client[o] \in DOMAIN udpmap /\ client[o] \in Addr
      BY <1>6, <2>2 DEF CalmMap, LiveIsMapped, In, ConnectionMade, Unconnected,
                        TInv, ClientKnown
    <3> QED BY <1>6, <3>1, TouchSize DEF ConnectionMade
  <2> QED BY <1>6, <2>1, <2>2 DEF ConnectionMade, Counts
<1>7. ASSUME NEW o \in Assoc, DatagramReceived(o) PROVE Counts'
  <2>1. Resolving' = Resolving
    BY <1>7 DEF DatagramReceived, Resolving, In
  <2>2. ASSUME calm PROVE Len(lru') = Len(lru)
    <3>1. client[o] \in DOMAIN udpmap /\ client[o] \in Addr
      BY <1>7, <2>2 DEF CalmMap, LiveIsMapped, In, DatagramReceived,
                        TInv, ClientKnown
    <3> QED BY <1>7, <3>1, TouchSize DEF DatagramReceived
  <2> QED BY <1>7, <2>1, <2>2 DEF DatagramReceived, Counts
<1>8. ASSUME NEW o \in Assoc, ConnectionLost(o) PROVE Counts'
  <2>1. Resolving' = Resolving
    BY <1>0, <1>8 DEF ConnectionLost, Resolving, In
  <2>2. calm' => calm
    BY <1>8 DEF ConnectionLost
  <2>3. CASE client[o] \in DOMAIN udpmap
    <3>1. connections' = connections - 1 /\ Len(lru') = Len(lru) - 1
      BY <1>0, <1>8, <2>3, WithoutPresent DEF ConnectionLost, udp_discard
    <3> QED BY <1>0, <2>1, <2>2, <3>1 DEF Counts
  <2>4. CASE client[o] \notin DOMAIN udpmap
    <3>1. connections' = connections /\ lru' = lru
      BY <1>0, <1>8, <2>4, WithoutAny DEF ConnectionLost, udp_discard
    <3> QED BY <2>1, <2>2, <3>1, CountsSame
  <2> QED BY <2>3, <2>4
<1>9. CASE Close
  <2>1. stage' = [p \in Assoc |->
                    IF p \in {udpmap[a] : a \in DOMAIN udpmap}
                         /\ stage[p] = "open" THEN "closing" ELSE stage[p]]
    BY <1>9 DEF Close
  <2>2. Resolving' = Resolving
    BY <1>0, <2>1 DEF Resolving, In
  <2> QED BY <1>9, <2>2, CountsSame DEF Close
<1>10. CASE UNCHANGED vars
  <2>1. Resolving' = Resolving
    BY <1>10 DEF vars, Resolving, In
  <2> QED BY <1>10, <2>1, CountsSame DEF vars
<1> QED BY <1>1, <1>2, <1>3, <1>4, <1>5, <1>6, <1>7, <1>8, <1>9, <1>10 DEF Next

LEMMA CountsInit == Init => FlightInv /\ Counts
<1> SUFFICES ASSUME Init PROVE FlightInv /\ Counts
  OBVIOUS
<1>1. InFlight = {} /\ Resolving = {}
  BY DEF Init, InFlight, Resolving, In
<1> QED BY <1>1, FS_EmptySet, LimitAssumption, TaskAssumption
        DEF Init, FlightInv, Counts

(* Without a race the load counter is exactly the table plus the opens     *)
(* that are still resolving.                                               *)
THEOREM CalmAlwaysAccounted == Spec => []CalmAccounting
<1>1. Counts => CalmAccounting
  BY DEF Counts, CalmAccounting, Resolving
<1> QED BY <1>1, TInvInit, TInvNext, CalmMapInit, CalmMapNext, CountsInit,
           FlightNext, CountsNext, PTL DEF Spec

(* Without a race the table holds at most UDP_LIMIT - 1 entries more than  *)
(* the opens that can be in flight: the bound is on concurrency, not on    *)
(* the number of clients.                                                  *)
THEOREM CalmAlwaysBounded == Spec => []CalmBound
<1>1. TInv /\ FlightInv /\ Counts => CalmBound
  BY ResolvingFinite, LimitAssumption, TaskAssumption
     DEF Counts, CalmBound, TInv, TypeOK
<1> QED BY <1>1, TInvInit, TInvNext, CalmMapInit, CalmMapNext, CountsInit,
           FlightNext, CountsNext, PTL DEF Spec
-----------------------------------------------------------------------------
(***************************************************************************)
(* Order.  A datagram is numbered as it arrives and is appended either to  *)
(* the buffer or to what was sent, and one of the two is empty: nothing is *)
(* sent before connection_made, nothing is buffered after it.              *)
(***************************************************************************)
Upto(s, n) == \A i \in 1..Len(s) : s[i] <= n
Rising(s)  == \A i, j \in 1..Len(s) : i < j => s[i] < s[j]

Before == {"unused", "resolving", "created", "aborting", "failed"}

OneSide(o) == IF stage[o] \in Before THEN sent[o] = <<>> ELSE buf[o] = <<>>
Lined(s)   == Upto(s, npkt) /\ Rising(s)

OrderInv == \A o \in Assoc : OneSide(o) /\ Lined(sent[o]) /\ Lined(buf[o])

(* The datagram that arrives is later than every one before it.            *)
LEMMA AppendRises ==
  ASSUME NEW n \in Nat, NEW s \in Seq(Nat), Upto(s, n), Rising(s)
  PROVE  Upto(Append(s, n + 1), n + 1) /\ Rising(Append(s, n + 1))
<1> DEFINE t == Append(s, n + 1)
<1>1. /\ Len(t) = Len(s) + 1 /\ Len(s) \in Nat /\ t[Len(s) + 1] = n + 1
      /\ \A i \in 1..Len(s) : t[i] = s[i] /\ s[i] \in Nat /\ s[i] <= n
  BY DEF Upto
<1> HIDE DEF t
<1>2. Upto(t, n + 1)
  BY <1>1 DEF Upto
<1>3. ASSUME NEW i \in 1..Len(t), NEW j \in 1..Len(t), i < j PROVE t[i] < t[j]
  <2>1. i \in 1..Len(s)
    BY <1>1, <1>3
  <2>2. CASE j \in 1..Len(s)
    BY <1>1, <1>3, <2>1, <2>2 DEF Rising
  <2>3. CASE j = Len(s) + 1
    BY <1>1, <2>1, <2>3
  <2> QED BY <1>1, <2>2, <2>3
<1> QED BY <1>2, <1>3 DEF t, Rising

(* Counting further keeps what is lined up so.                             *)
LEMMA UptoGrows ==
  ASSUME NEW n \in Nat, NEW s \in Seq(Nat), Upto(s, n)
  PROVE  Upto(s, n + 1)
<1>1. \A i \in 1..Len(s) : s[i] \in Nat
  OBVIOUS
<1> QED BY <1>1 DEF Upto

LEMMA OrderTypes ==
  ASSUME TInv
  PROVE  /\ npkt \in Nat /\ stage \in [Assoc -> Stage]
         /\ sent \in [Assoc -> Seq(Nat)] /\ buf \in [Assoc -> Seq(Nat)]
<1>1. /\ npkt \in 0..MaxPackets /\ stage \in [Assoc -> Stage]
      /\ sent \in [Assoc -> Seq(1..MaxPackets)] /\ buf \in [Assoc -> Seq(1..MaxPackets)]
  BY DEF TInv, TypeOK
<1>2. \A q \in Seq(1..MaxPackets) : q \in Seq(Nat)
  BY PacketAssumption
<1> QED BY <1>1, <1>2, PacketAssumption

(* Stages move within the two halves, and no datagram is touched.          *)
LEMMA OrderKept ==
  ASSUME OrderInv, UNCHANGED <<buf, sent, npkt>>,
         \A o \in Assoc : stage'[o] \in Before <=> stage[o] \in Before
  PROVE  OrderInv'
BY DEF OrderInv, OneSide, Lined

LEMMA OrderInit == Init => OrderInv
BY DEF Init, OrderInv, OneSide, Lined, Upto, Rising, Before

LEMMA OrderNext == TInv /\ OrderInv /\ [Next]_vars => OrderInv'
<1> SUFFICES ASSUME TInv, OrderInv, [Next]_vars PROVE OrderInv'
  OBVIOUS
<1>0. /\ npkt \in Nat /\ stage \in [Assoc -> Stage]
      /\ sent \in [Assoc -> Seq(Nat)] /\ buf \in [Assoc -> Seq(Nat)]
  BY OrderTypes
<1>00. \A o \in Assoc : OneSide(o) /\ Lined(sent[o]) /\ Lined(buf[o])
  BY DEF OrderInv
<1>1. ASSUME NEW a \in Addr, Reuse(a) PROVE OrderInv'
  <2> DEFINE o == udpmap[a]
  <2>1. /\ o \in Assoc /\ npkt' = npkt + 1 /\ stage' = stage
        /\ buf' = IF stage[o] \in Unconnected THEN [buf EXCEPT ![o] = Append(@, npkt + 1)] ELSE buf
        /\ sent' = IF stage[o] = "open" THEN [sent EXCEPT ![o] = Append(@, npkt + 1)] ELSE sent
    BY <1>1 DEF Reuse, TInv, TypeOK
  <2> HIDE DEF o
  <2> SUFFICES ASSUME NEW p \in Assoc PROVE OneSide(p)' /\ Lined(sent[p])' /\ Lined(buf[p])'
    BY DEF OrderInv
  <2>2. OneSide(p) /\ Lined(sent[p]) /\ Lined(buf[p])
    BY <1>00
  <2>3. OneSide(p)'
    BY <1>0, <2>1, <2>2 DEF OneSide, Before, Unconnected
  <2>4. \/ sent'[p] = sent[p]
        \/ sent'[p] = Append(sent[p], npkt + 1)
    BY <1>0, <2>1
  <2>5. \/ buf'[p] = buf[p]
        \/ buf'[p] = Append(buf[p], npkt + 1)
    BY <1>0, <2>1
  <2>6. sent[p] \in Seq(Nat) /\ buf[p] \in Seq(Nat)
    BY <1>0
  <2> QED BY <1>0, <2>1, <2>2, <2>3, <2>4, <2>5, <2>6, AppendRises, UptoGrows DEF Lined
<1>2. ASSUME NEW o \in Assoc, NEW a \in Addr, Open(o, a) PROVE OrderInv'
  <2>1. /\ npkt' = npkt + 1 /\ stage[o] = "unused" /\ sent' = sent
        /\ buf' = [buf EXCEPT ![o] = <<npkt + 1>>]
    BY <1>2 DEF Open
  <2>2. /\ stage'[o] = "resolving"
        /\ \A p \in Assoc \ {o} : stage'[p] \in Before <=> stage[p] \in Before
    BY <1>2, OpenStage DEF Before
  <2> SUFFICES ASSUME NEW p \in Assoc PROVE OneSide(p)' /\ Lined(sent[p])' /\ Lined(buf[p])'
    BY DEF OrderInv
  <2>3. OneSide(p) /\ Lined(sent[p]) /\ Lined(buf[p])
    BY <1>00
  <2>4. sent[p] \in Seq(Nat) /\ buf[p] \in Seq(Nat)
    BY <1>0
  <2>5. Lined(sent[p])'
    BY <1>0, <2>1, <2>3, <2>4, UptoGrows DEF Lined
  <2>6. CASE p = o
    <3>1. buf'[p] = <<npkt + 1>> /\ OneSide(p)'
      BY <1>0, <2>1, <2>2, <2>3, <2>6 DEF OneSide, Before
    <3>2. Lined(buf[p])'
      BY <1>0, <2>1, <3>1 DEF Lined, Upto, Rising
    <3> QED BY <2>5, <3>1, <3>2
  <2>7. CASE p # o
    <3>1. buf'[p] = buf[p] /\ (stage'[p] \in Before <=> stage[p] \in Before)
      BY <1>0, <2>1, <2>2, <2>7
    <3>2. Lined(buf[p])'
      BY <1>0, <2>1, <2>3, <2>4, <3>1, UptoGrows DEF Lined
    <3> QED BY <2>1, <2>3, <2>5, <3>1, <3>2 DEF OneSide
  <2> QED BY <2>6, <2>7
<1>3. ASSUME NEW o \in Assoc, Create(o) \/ Fail(o) \/ Cancel(o) \/ DatagramReceived(o) \/ ConnectionLost(o)
      PROVE  OrderInv'
  <2>1. UNCHANGED <<buf, sent, npkt>>
    BY <1>3 DEF Create, Fail, Cancel, DatagramReceived, ConnectionLost
  <2>2. \A p \in Assoc : stage'[p] \in Before <=> stage[p] \in Before
    BY <1>0, <1>3 DEF Create, Fail, Cancel, DatagramReceived, ConnectionLost, Before
  <2> QED BY <2>1, <2>2, OrderKept
<1>4. ASSUME NEW o \in Assoc, ConnectionMade(o) PROVE OrderInv'
  <2>1. /\ stage[o] \in Unconnected /\ npkt' = npkt
        /\ stage' = [stage EXCEPT ![o] = IF @ = "created" THEN "open" ELSE "closing"]
        /\ sent' = [sent EXCEPT ![o] = @ \o buf[o]]
        /\ buf' = [buf EXCEPT ![o] = <<>>]
    BY <1>4 DEF ConnectionMade
  <2> SUFFICES ASSUME NEW p \in Assoc PROVE OneSide(p)' /\ Lined(sent[p])' /\ Lined(buf[p])'
    BY DEF OrderInv
  <2>2. OneSide(p) /\ Lined(sent[p]) /\ Lined(buf[p])
    BY <1>00
  <2>3. CASE p = o
    <3>1. sent[p] = <<>> /\ stage'[p] \notin Before /\ buf'[p] = <<>>
      BY <1>0, <2>1, <2>2, <2>3 DEF OneSide, Before, Unconnected
    <3>2. sent'[p] = <<>> \o buf[p]
      BY <1>0, <2>1, <2>3, <3>1
    <3>3. <<>> \o buf[p] = buf[p]
      BY <1>0
    <3>4. Lined(buf[p])'
      BY <3>1 DEF Lined, Upto, Rising
    <3>5. Lined(sent[p])'
      BY <2>1, <2>2, <3>2, <3>3 DEF Lined
    <3> QED BY <3>1, <3>4, <3>5 DEF OneSide
  <2>4. CASE p # o
    <3>1. stage'[p] = stage[p] /\ sent'[p] = sent[p] /\ buf'[p] = buf[p]
      BY <1>0, <2>1, <2>4
    <3> QED BY <2>1, <2>2, <3>1 DEF OneSide, Lined
  <2> QED BY <2>3, <2>4
<1>5. CASE Close
  <2>1. UNCHANGED <<buf, sent, npkt>>
    BY <1>5 DEF Close
  <2>2. \A p \in Assoc : stage'[p] \in Before <=> stage[p] \in Before
    BY <1>0, <1>5 DEF Close, Before
  <2> QED BY <2>1, <2>2, OrderKept
<1>6. CASE UNCHANGED vars
  BY <1>6, OrderKept DEF vars
<1> QED BY <1>1, <1>2, <1>3, <1>4, <1>5, <1>6 DEF Next

(* Datagrams leave an association in the order they arrived, whatever the  *)
(* table, the loop and the tasks do in between.                            *)
THEOREM DatagramsStayInOrder == Spec => []InOrder
<1>1. TInv /\ OrderInv => InOrder
  <2> SUFFICES ASSUME TInv, OrderInv, NEW o \in Assoc
               PROVE  Rising(sent[o] \o buf[o])
    BY DEF InOrder, Rising
  <2>1. sent[o] \in Seq(Nat) /\ buf[o] \in Seq(Nat)
    BY OrderTypes
  <2>2. sent[o] \o buf[o] \in {sent[o], buf[o]}
    <3>1. sent[o] = <<>> \/ buf[o] = <<>>
      BY DEF OrderInv, OneSide
    <3>2. <<>> \o buf[o] = buf[o] /\ sent[o] \o <<>> = sent[o]
      BY <2>1
    <3> QED BY <3>1, <3>2
  <2> QED BY <2>2 DEF OrderInv, Lined
<1> QED BY <1>1, TInvInit, TInvNext, OrderInit, OrderNext, PTL DEF Spec
=============================================================================
