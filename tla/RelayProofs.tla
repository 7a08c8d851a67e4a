---------------------------- MODULE RelayProofs ----------------------------
(***************************************************************************)
(* Proofs about the relay of one connection, for any amount of data and    *)
(* any buffer sizes; and, as H, about the handshakes before it, for any    *)
(* chain of hops.                                                          *)
(***************************************************************************)
EXTENDS Connection, Sequences, WellFoundedInduction, TLAPS

-----------------------------------------------------------------------------
(* The inductive invariant.                                                *)

Active(s) == ch[s] \in {"new", "reading", "draining"}

(* Everything the reader of s was fed is unread, on its way or delivered.  *)
Whole(s) == arrived[s] = rbuf[s] + wbuf[Other(s)] + got[Other(s)]

(* Nothing is delivered that was not sent.                                 *)
Flow(s) ==
  /\ rbuf[s] + wbuf[Other(s)] + got[Other(s)] <= arrived[s]
  /\ arrived[s] <= sent[s]
  /\ eof[s] => sock[s] = "lost" \/ (fin[s] /\ arrived[s] = sent[s])

(* What a channel's stage says of the sockets.                             *)
Stage(s) ==
  /\ Active(s) \/ clean[s] => exc[Other(s)] \/ Whole(s)
  /\ clean[s] => ch[s] = "ended" /\ AtEof(s)
  /\ ch[s] = "ended" => sock[Other(s)] # "open"
  /\ ch[s] = "skipped" => stop
  /\ exc[s] => sock[s] = "lost"
  /\ ch[s] = "new" => pend[s] = 0

(* A socket is closed for a reason.                                        *)
Broken == stop \/ shut \/ \E s \in Socket : exc[s]

Reason(s) ==
  sock[Other(s)] = "closing" =>
    \/ Broken
    \/ sock[s] = "lost"
    \/ fin[s] /\ arrived[s] = sent[s] /\ rbuf[s] = 0 /\ Whole(s)

(* Flow control of the socket that the channel of s writes to.             *)
Pressure(s) ==
  LET w == Other(s) IN
  /\ paused[w] => wbuf[w] > Low
  /\ ~paused[w] => wbuf[w] <= High
  /\ sock[w] = "lost" => wbuf[w] = 0
  /\ ch[s] \in {"new", "reading"} => wbuf[w] <= High + pend[s]
  /\ wbuf[w] <= High + (Drain - 1) + Chunk

Inv ==
  /\ TypeOK
  /\ \A s \in Socket : Flow(s) /\ Stage(s) /\ Reason(s) /\ Pressure(s)

LEMMA InvInit == Init => Inv
<1> SUFFICES ASSUME Init PROVE Inv
  OBVIOUS
<1> USE SizeAssumption DEF Init
<1>1. TypeOK
  <2>1. 0 \in 0..(Drain - 1)
    OBVIOUS
  <2> QED BY <2>1 DEF TypeOK
<1>2. ASSUME NEW s \in Socket
      PROVE  Other(s) \in Socket /\ Flow(s) /\ Stage(s) /\ Reason(s) /\ Pressure(s)
  <2>1. Other(s) \in Socket
    BY DEF Socket, Other
  <2> QED BY <2>1 DEF Flow, Stage, Reason, Pressure, Active, Whole, AtEof
<1> QED BY <1>1, <1>2 DEF Inv

LEMMA InvStep == Inv /\ [Next]_vars => Inv'
<1> SUFFICES ASSUME Inv, [Next]_vars PROVE Inv'
  OBVIOUS
<1> USE SizeAssumption DEF Inv, TypeOK, Flow, Stage, Reason, Pressure, Active, Whole, Broken, Socket, Other, AtEof
<1>1. ASSUME NEW s \in Socket, PeerSends(s) PROVE Inv'
  BY <1>1 DEF PeerSends, readers, writers, tasks
<1>2. ASSUME NEW s \in Socket, PeerFinishes(s) PROVE Inv'
  BY <1>2 DEF PeerFinishes, readers, writers, tasks
<1>3. ASSUME NEW s \in Socket, Reset(s) PROVE Inv'
  BY <1>3 DEF Reset, peers, tasks
<1>4. ASSUME NEW s \in Socket, Arrive(s) PROVE Inv'
  BY <1>4 DEF Arrive, Reading, peers, writers, tasks
<1>5. ASSUME NEW s \in Socket, ArriveEof(s) PROVE Inv'
  BY <1>5 DEF ArriveEof, Reading, peers, writers, tasks
<1>6. ASSUME NEW s \in Socket, Flush(s) PROVE Inv'
  BY <1>6 DEF Flush, readers, tasks
<1>7. ASSUME NEW s \in Socket, Lost(s) PROVE Inv'
  BY <1>7 DEF Lost, peers, tasks
<1>8. ASSUME NEW s \in Socket, Start(s) PROVE Inv'
  BY <1>8 DEF Start, Ended, IsClosing, peers, readers
<1>9. ASSUME NEW s \in Socket, Forward(s) PROVE Inv'
  <2> DEFINE w == Other(s)
             n == IF rbuf[s] < Chunk THEN rbuf[s] ELSE Chunk
             p == pend[s] + n
  <2>1. /\ w \in Socket /\ w # s /\ Other(w) = s /\ Socket = {s, w}
        /\ n \in Nat /\ n >= 1 /\ n <= rbuf[s] /\ n <= Chunk /\ p \in Nat
        /\ ch[s] = "reading" /\ ~exc[s] /\ rbuf' = [rbuf EXCEPT ![s] = @ - n]
        /\ pend' = [pend EXCEPT ![s] = IF p >= Drain THEN 0 ELSE p]
        /\ UNCHANGED <<sent, fin, got, arrived, eof, exc, clean, stop, shut>>
    BY <1>9 DEF Forward, Enough, peers
  <2>2. /\ \/ /\ Accepts(w)
              /\ wbuf' = [wbuf EXCEPT ![w] = @ + n]
              /\ paused' = [paused EXCEPT ![w] = @ \/ wbuf[w] + n > High]
           \/ /\ ~Accepts(w)
              /\ UNCHANGED <<wbuf, paused>>
    BY <1>9 DEF Forward
  <2>3. \/ /\ ch' = [ch EXCEPT ![s] = "ended"]
           /\ sock' = [sock EXCEPT ![w] = IF @ = "open" THEN "closing" ELSE @]
           /\ sock[w] # "open" \/ (eof[s] /\ rbuf'[s] = 0)
        \/ /\ ch' = [ch EXCEPT ![s] = "draining"] /\ UNCHANGED sock
           /\ p >= Drain /\ paused'[w]
        \/ /\ ch' = [ch EXCEPT ![s] = "reading"] /\ UNCHANGED sock
           /\ sock[w] = "open" /\ (p >= Drain => ~paused'[w])
    BY <1>9 DEF Forward, Continue, Ended, IsClosing, Enough
  <2> HIDE DEF n, p, w
  <2>4. p = pend[s] + n
    BY DEF p
  <2>5. TypeOK'
    <3>1. pend' \in [Socket -> 0..(Drain - 1)]
      BY <2>1
    <3>2. rbuf' \in [Socket -> Nat]
      BY <2>1
    <3>3. wbuf' \in [Socket -> Nat] /\ paused' \in [Socket -> BOOLEAN]
      <4>1. CASE Accepts(w)
        <5> DEFINE b == paused[w] \/ wbuf[w] + n > High
        <5>1. b \in BOOLEAN
          OBVIOUS
        <5>2. paused' = [paused EXCEPT ![w] = b]
          BY <2>2, <4>1
        <5> HIDE DEF b
        <5>3. paused' \in [Socket -> BOOLEAN]
          BY <5>1, <5>2
        <5>4. wbuf' \in [Socket -> Nat]
          BY <2>1, <2>2, <4>1
        <5> QED BY <5>3, <5>4
      <4>2. CASE ~Accepts(w)
        BY <2>2, <4>2
      <4> QED BY <4>1, <4>2
    <3>4. /\ sock' \in [Socket -> {"open", "closing", "lost"}]
          /\ ch' \in [Socket -> {"new", "reading", "draining", "ended", "skipped"}]
      BY <2>1, <2>3
    <3> QED BY <2>1, <3>1, <3>2, <3>3, <3>4
  <2>6. Flow(s)' /\ Flow(w)'
    BY <2>1, <2>2, <2>3 DEF Accepts
  <2>7. Stage(s)' /\ Stage(w)'
    BY <2>1, <2>2, <2>3, <2>4 DEF Accepts
  <2>8. Reason(s)' /\ Reason(w)'
    BY <2>1, <2>2, <2>3 DEF Accepts
  <2>9. Pressure(w)'
    BY <2>1, <2>2, <2>3 DEF Accepts
  <2>10. Pressure(s)'
    <3>1. /\ wbuf[w] \in Nat /\ wbuf[w] <= High + pend[s] /\ pend[s] <= Drain - 1
          /\ pend[s] \in Nat /\ pend'[s] = IF p >= Drain THEN 0 ELSE p
          /\ paused[w] => wbuf[w] > Low
          /\ ~paused[w] => wbuf[w] <= High
          /\ sock[w] = "lost" => wbuf[w] = 0
      BY <2>1
    <3>2. CASE Accepts(w)
      <4>1. /\ wbuf'[w] = wbuf[w] + n
            /\ paused'[w] <=> paused[w] \/ wbuf[w] + n > High
            /\ sock'[w] # "lost"
        BY <2>1, <2>2, <2>3, <3>2 DEF Accepts
      <4>2. ch'[s] \in {"new", "reading"} => (p >= Drain => ~paused'[w])
        BY <2>1, <2>3
      <4> HIDE DEF Inv, TypeOK
      <4>3. wbuf'[w] <= High + (Drain - 1) + Chunk
        BY <2>1, <3>1, <4>1
      <4>4. /\ paused'[w] => wbuf'[w] > Low
            /\ ~paused'[w] => wbuf'[w] <= High
        BY <2>1, <3>1, <4>1
      <4>5. ch'[s] \in {"new", "reading"} => wbuf'[w] <= High + pend'[s]
        <5>1. CASE p >= Drain
          BY <2>1, <3>1, <4>2, <4>4, <5>1
        <5>2. CASE ~(p >= Drain)
          BY <2>1, <2>4, <3>1, <4>1, <5>2
        <5> QED BY <5>1, <5>2
      <4> QED BY <2>1, <4>1, <4>3, <4>4, <4>5
    <3>3. CASE ~Accepts(w)
      <4>1. sock[w] # "open" /\ wbuf[w] = 0 /\ wbuf'[w] = 0 /\ ~paused'[w]
        BY <2>1, <2>2, <3>1, <3>3 DEF Accepts
      <4>2. ch'[s] \notin {"new", "reading"}
        BY <2>1, <2>3, <4>1
      <4> QED BY <2>1, <3>1, <4>1, <4>2
    <3> QED BY <3>2, <3>3
  <2> HIDE DEF Flow, Stage, Reason, Pressure, TypeOK, Socket, Other
  <2> QED BY <2>1, <2>5, <2>6, <2>7, <2>8, <2>9, <2>10
<1>10. ASSUME NEW s \in Socket, Drained(s) PROVE Inv'
  BY <1>10 DEF Drained, Ended, IsClosing, peers, readers
<1>11. ASSUME NEW s \in Socket, SeesEof(s) PROVE Inv'
  BY <1>11 DEF SeesEof, Ended, peers, readers
<1>12. ASSUME NEW s \in Socket, SeesReset(s) PROVE Inv'
  BY <1>12 DEF SeesReset, Ended, peers, readers
<1>13. ASSUME NEW s \in Socket, Cancelled(s) PROVE Inv'
  BY <1>13 DEF Cancelled, Over, Ended, peers, readers
<1>14. CASE Stop
  BY <1>14 DEF Stop, peers, readers, writers
<1>15. CASE CloseListener
  BY <1>15 DEF CloseListener, peers, readers
<1>16. CASE HandlerEnds
  BY <1>16 DEF HandlerEnds, Over, peers, readers, tasks
<1>17. CASE UNCHANGED vars
  BY <1>17 DEF vars, peers, readers, writers, tasks
<1> HIDE DEF Inv, Socket
<1> QED
  BY <1>1, <1>2, <1>3, <1>4, <1>5, <1>6, <1>7, <1>8, <1>9, <1>10, <1>11, <1>12, <1>13,
     <1>14, <1>15, <1>16, <1>17 DEF Next, Transport, Channel

(* Every reachable state of a relayed connection is well typed.            *)
THEOREM TypeCorrect == Spec => []TypeOK
<1>1. Inv => TypeOK
  BY DEF Inv
<1> QED BY <1>1, InvInit, InvStep, PTL DEF Spec

(* A channel that ended on the end of its stream loses no byte of it.      *)
THEOREM CleanEndsAreComplete == Spec => []CleanEndIsComplete
<1>1. Inv => CleanEndIsComplete
  BY DEF Inv, TypeOK, Stage, Whole, AtEof, CleanEndIsComplete, Socket, Other
<1> QED BY <1>1, InvInit, InvStep, PTL DEF Spec

(* What a slow peer can make the proxy hold is bounded.                    *)
THEOREM WriteBuffersAreBounded == Spec => []WriteBufferBounded
<1>1. Inv => WriteBufferBounded
  BY DEF Inv, Pressure, WriteBufferBounded, Socket, Other
<1> QED BY <1>1, InvInit, InvStep, PTL DEF Spec

-----------------------------------------------------------------------------
(* The relay implements StreamPair.                                        *)

Gone == [s \in Socket |-> sock[s] = "lost"]

LEMMA RefineInit == Init => Pair!Init
BY DEF Init, Pair!Init, Socket

LEMMA RefineStep == Inv /\ [Next]_vars => [Pair!Next]_(Pair!vars)
<1> SUFFICES ASSUME Inv, [Next]_vars PROVE [Pair!Next]_(Pair!vars)
  OBVIOUS
<1>0. /\ TypeOK
      /\ \A s \in Socket : Flow(s) /\ Stage(s) /\ Reason(s)
      /\ \A s \in Socket : Other(s) \in Socket /\ Other(s) # s /\ Other(Other(s)) = s
  BY DEF Inv, Socket, Other
<1>1. ASSUME UNCHANGED <<sent, fin, got>>, Gone' = Gone, Broken' <=> Broken
      PROVE  UNCHANGED Pair!vars
  <2>1. Broken' = Broken
    BY <1>1 DEF Broken
  <2> QED BY <1>1, <2>1 DEF Pair!vars, Gone, Broken
<1>2. ASSUME NEW s \in Socket, PeerSends(s) PROVE Pair!Offer(s)
  BY <1>2 DEF PeerSends, Pair!Offer, readers, writers, tasks
<1>3. ASSUME NEW s \in Socket, PeerFinishes(s) PROVE Pair!Finish(s)
  BY <1>3 DEF PeerFinishes, Pair!Finish, readers, writers, tasks
<1>4. ASSUME NEW s \in Socket, Flush(s) PROVE Pair!Deliver(Other(s), s)
  <2>1. Flow(Other(s)) /\ Other(Other(s)) = s
    BY <1>0
  <2>2. got[s] < sent[Other(s)]
    BY <1>0, <1>4, <2>1 DEF Flush, Flow, TypeOK
  <2> QED BY <1>0, <1>4, <2>2 DEF Flush, Pair!Deliver, readers, tasks
<1>5. ASSUME NEW t \in Socket, Lost(t) PROVE Pair!Close(Other(t), t)
  <2>1. Reason(Other(t)) /\ Other(Other(t)) = t /\ sock[t] = "closing" /\ wbuf[t] = 0
    BY <1>0, <1>5 DEF Lost
  <2>2. \/ Broken
        \/ sock[Other(t)] = "lost"
        \/ fin[Other(t)] /\ got[t] = sent[Other(t)]
    BY <1>0, <2>1 DEF Reason, Whole, TypeOK
  <2>3. Gone' = [Gone EXCEPT ![t] = TRUE]
    BY <1>0, <1>5 DEF Lost, Gone, TypeOK
  <2>4. UNCHANGED <<sent, fin, got, stop, shut, exc>>
    BY <1>5 DEF Lost, peers, tasks
  <2> QED BY <1>0, <2>2, <2>3, <2>4 DEF Pair!Close, Gone, Broken
<1>6. ASSUME NEW s \in Socket, Reset(s) PROVE Pair!Break
  <2>1. Broken'
    BY <1>0, <1>6 DEF Reset, Broken, TypeOK
  <2>2. Gone' = [t \in Socket |-> Gone[t] \/ t \in {s}]
    BY <1>0, <1>6 DEF Reset, Gone, TypeOK
  <2>3. UNCHANGED <<sent, fin, got>>
    BY <1>6 DEF Reset, peers
  <2> QED BY <2>1, <2>2, <2>3 DEF Pair!Break, Gone, Broken
<1>7. ASSUME Stop PROVE Pair!Break
  <2>1. Broken' /\ Gone' = [t \in Socket |-> Gone[t] \/ t \in {}] /\ UNCHANGED <<sent, fin, got>>
    BY <1>7 DEF Stop, Broken, Gone, peers, writers
  <2>2. \E T \in SUBSET Socket : Gone' = [t \in Socket |-> Gone[t] \/ t \in T]
    BY <2>1, {} \in SUBSET Socket, Zenon
  <2> QED BY <2>1, <2>2 DEF Pair!Break, Gone, Broken
<1>8. ASSUME CloseListener PROVE Pair!Break
  <2>1. Broken' /\ UNCHANGED <<sent, fin, got>>
    BY <1>8 DEF CloseListener, Broken, peers
  <2>2. Gone' = [t \in Socket |-> Gone[t] \/ t \in {}]
    BY <1>0, <1>8 DEF CloseListener, Gone, TypeOK
  <2>3. \E T \in SUBSET Socket : Gone' = [t \in Socket |-> Gone[t] \/ t \in T]
    BY <2>2, {} \in SUBSET Socket, Zenon
  <2> QED BY <2>1, <2>3 DEF Pair!Break, Gone, Broken
<1>9. ASSUME NEW s \in Socket, Arrive(s) \/ ArriveEof(s) PROVE UNCHANGED Pair!vars
  BY <1>1, <1>9 DEF Arrive, ArriveEof, Gone, Broken, peers, writers, tasks
<1>10. ASSUME NEW s \in Socket, Channel(s) PROVE UNCHANGED Pair!vars
  <2>1. ASSUME sock' = sock \/ sock' = [sock EXCEPT ![Other(s)] = IF @ = "open" THEN "closing" ELSE @]
        PROVE  Gone' = Gone
    BY <1>0, <2>1 DEF Gone, TypeOK
  <2>2. /\ UNCHANGED <<sent, fin, got, stop, shut, exc>>
        /\ sock' = sock \/ sock' = [sock EXCEPT ![Other(s)] = IF @ = "open" THEN "closing" ELSE @]
    BY <1>10 DEF Channel, Start, Forward, Drained, SeesEof, SeesReset, Cancelled, Continue,
       Ended, peers, readers
  <2> QED BY <1>1, <2>1, <2>2 DEF Broken
<1>11. ASSUME HandlerEnds PROVE UNCHANGED Pair!vars
  <2>1. UNCHANGED <<sent, fin, got, stop, shut, exc>> /\ Gone' = Gone
    BY <1>0, <1>11 DEF HandlerEnds, Gone, TypeOK, peers, readers, tasks
  <2> QED BY <1>1, <2>1 DEF Broken
<1>12. ASSUME UNCHANGED vars PROVE UNCHANGED Pair!vars
  BY <1>1, <1>12 DEF vars, peers, readers, writers, tasks, Gone, Broken
<1> QED
  BY <1>0, <1>2, <1>3, <1>4, <1>5, <1>6, <1>7, <1>8, <1>9, <1>10, <1>11, <1>12
     DEF Next, Transport, Pair!Next

(* Bytes come out in order and once, none after an end was closed, and the *)
(* first end to close has received everything, unless something broke.     *)
THEOREM RelayKeepsPromise == Spec => KeepsPromise
BY InvInit, InvStep, RefineInit, RefineStep, PTL DEF Spec, KeepsPromise, Pair!Spec

-----------------------------------------------------------------------------
(* The handshakes that come before the relay, as H: who is let in.         *)

(* A sequence of whatever it holds.                                        *)
IsList(s) == s \in Seq({s[i] : i \in DOMAIN s})

Here  == hops[server.hop]
Asked == Here.tries[server.try]

Known(u) == Here.users = {} \/ u \in Here.users

(* The server is at one hop of the chain and asks one protocol of it.      *)
HsShape ==
  /\ hops \in Chain /\ IsList(admitted)
  /\ server = [hop |-> server.hop, try |-> server.try, phase |-> server.phase, user |-> server.user, st |-> server.st]
  /\ server.st \in {"guess", "read", "dial", "relay", "closed"}
  /\ server.hop \in DOMAIN hops /\ server.try \in DOMAIN Here.tries

(* Everybody before this hop has been let in, and whoever is at it once    *)
(* the server dials.                                                       *)
HsCount ==
  /\ server.st \in {"guess", "read"} => Len(admitted) = server.hop - 1
  /\ server.st \in {"dial", "relay"} => Len(admitted) = server.hop

(* A protocol that learns its user before the request has learned it when  *)
(* it reads the request.                                                   *)
HsKnown ==
  server.st = "read" =>
    /\ Asked \in {"trojan", "ss", "ssr"} => Known(server.user)
    /\ Asked = "socks5" => server.phase \in {"methods", "auth"} \/ Known(server.user)

HsInv == HsShape /\ HsCount /\ HsKnown /\ H!OnlyUsers

-----------------------------------------------------------------------------
(* A sequence after a put.                                                 *)
LEMMA ListGrows ==
  ASSUME NEW s, NEW e, IsList(s)
  PROVE  /\ IsList(Append(s, e)) /\ Len(s) \in Nat /\ Len(Append(s, e)) = Len(s) + 1
         /\ \A i \in 1..Len(s) : Append(s, e)[i] = s[i]
         /\ Append(s, e)[Len(s) + 1] = e
         /\ DOMAIN s = 1..Len(s) /\ DOMAIN Append(s, e) = 1..(Len(s) + 1)
<1> DEFINE S == {s[i] : i \in DOMAIN s} \cup {e}
           t == Append(s, e)
<1>1. s \in Seq(S)
  BY DEF IsList
<1>2. t \in Seq(S) /\ Len(s) \in Nat /\ Len(t) = Len(s) + 1 /\ DOMAIN s = 1..Len(s) /\ DOMAIN t = 1..Len(t)
  BY <1>1
<1>3. (\A i \in 1..Len(s) : t[i] = s[i]) /\ t[Len(s) + 1] = e
  BY <1>1
<1>4. IsList(t)
  <2> DEFINE R == {t[i] : i \in DOMAIN t}
  <2> HIDE DEF t
  <2>1. t = [i \in 1..Len(t) |-> t[i]] /\ Len(t) \in Nat
    BY <1>2
  <2>2. \A i \in 1..Len(t) : t[i] \in R
    BY <1>2
  <2>3. t \in [1..Len(t) -> R]
    BY <2>1, <2>2
  <2>4. t \in Seq(R)
    BY <2>1, <2>3
  <2> QED BY <2>4 DEF IsList
<1> QED BY <1>2, <1>3, <1>4

-----------------------------------------------------------------------------
(* What accept() of any protocol answers: another phase only under SOCKS5, *)
(* and a request is admitted, or waited for, for a user alone.             *)
LEMMA AcceptsOnlyUsers ==
  ASSUME NEW h, NEW p \in H!Protocol, NEW phase, NEW u, NEW g,
         p \in {"trojan", "ss", "ssr"} => h.users = {} \/ u \in h.users,
         p = "socks5" => phase \in {"methods", "auth"} \/ h.users = {} \/ u \in h.users
  PROVE  LET o == H!Accepts(p, h, phase, u, g)
         IN /\ o.st \in {"closed", "read", "dial"}
            /\ o.st = "read" => /\ p = "socks5"
                                /\ o.phase = "auth" \/ h.users = {} \/ o.user \in h.users
            /\ o.st = "dial" /\ p # "tunnel" => h.users = {} \/ o.user \in h.users
<1> USE DEF H!Refuse, H!Goes, H!Admit, H!Knows, H!Remembered, H!None
<1>1. CASE p = "socks5"
  <2>1. CASE phase = "methods"
    BY <1>1, <2>1 DEF H!Accepts, H!Socks5Accept
  <2>2. CASE phase = "auth"
    BY <1>1, <2>2 DEF H!Accepts, H!Socks5Accept
  <2>3. CASE phase \notin {"methods", "auth"}
    BY <1>1, <2>3 DEF H!Accepts, H!Socks5Accept
  <2> QED BY <2>1, <2>2, <2>3
<1>2. CASE p = "socks4"
  BY <1>2 DEF H!Accepts, H!Socks4Accept
<1>3. CASE p \in {"trojan", "ssr", "ss"}
  BY <1>3 DEF H!Accepts, H!TrojanAccept, H!SsrAccept, H!SsAccept
<1>4. CASE p = "tunnel"
  BY <1>4 DEF H!Accepts, H!TunnelAccept
<1>5. CASE p \in {"http", "h2"}
  BY <1>5 DEF H!Accepts, H!HttpAccept, H!H2Accept
<1>6. CASE p \in {"ws", "cfp"}
  BY <1>6 DEF H!Accepts, H!WsAccept, H!CfpAccept
<1> QED BY <1>1, <1>2, <1>3, <1>4, <1>5, <1>6 DEF H!Protocol

(* A guess that matched has found the user whose mark the first bytes are. *)
LEMMA GuessFindsUser ==
  ASSUME NEW h, NEW p \in {"trojan", "ss", "ssr"}, NEW head, H!Matches(p, h, head), h.users # {}
  PROVE  \E u \in h.users : head \in {H!Hash(u), <<u, u>>}
BY DEF H!Matches, H!TrojanGuess, H!SsrGuess

-----------------------------------------------------------------------------
(* A chain is a sequence of hops, each with a sequence of protocols.       *)
LEMMA ChainIsList ==
  ASSUME H!ChainTypeOK, NEW c \in Chain
  PROVE  /\ Len(c) \in Nat \ {0} /\ DOMAIN c = 1..Len(c)
         /\ \A i \in DOMAIN c :
              /\ Len(c[i].tries) \in Nat \ {0} /\ DOMAIN c[i].tries = 1..Len(c[i].tries)
              /\ \A j \in DOMAIN c[i].tries : c[i].tries[j] \in H!Protocol
<1>1. /\ c \in Seq(H!ToSet(c)) /\ c # <<>>
      /\ \A i \in DOMAIN c : c[i].tries \in Seq(H!Protocol) /\ c[i].tries # <<>>
  BY DEF H!ChainTypeOK
<1>2. ASSUME NEW S, NEW s \in Seq(S), s # <<>>
      PROVE  Len(s) \in Nat \ {0} /\ DOMAIN s = 1..Len(s) /\ \A j \in DOMAIN s : s[j] \in S
  BY <1>2
<1>3. Len(c) \in Nat \ {0} /\ DOMAIN c = 1..Len(c)
  BY <1>1, <1>2
<1> QED BY <1>1, <1>2, <1>3

(* The invariant at the start, and at every step.                          *)
LEMMA HsInit == H!ChainTypeOK /\ H!Init => HsInv
<1> SUFFICES ASSUME H!ChainTypeOK, H!Init PROVE HsInv
  OBVIOUS
<1>1. /\ hops \in Chain /\ admitted = <<>> 
      /\ server = [hop |-> 1, try |-> 1, phase |-> "request", user |-> H!None, st |-> "guess"]
  BY DEF H!Init
<1>2. 1 \in DOMAIN hops /\ 1 \in DOMAIN hops[1].tries
  <2>1. 1 \in DOMAIN hops
    BY <1>1, ChainIsList
  <2> QED BY <1>1, <2>1, ChainIsList
<1>3. IsList(<<>>) /\ Len(<<>>) = 0 /\ DOMAIN <<>> = {}
  BY DEF IsList
<1> QED BY <1>1, <1>2, <1>3 DEF HsInv, HsShape, HsCount, HsKnown, H!OnlyUsers, Here

LEMMA HsStep == H!ChainTypeOK /\ HsInv /\ [H!Next]_(H!vars) => HsInv'
<1> SUFFICES ASSUME H!ChainTypeOK, HsInv, [H!Next]_(H!vars) PROVE HsInv'
  OBVIOUS
<1> DEFINE h == hops[server.hop]
           p == h.tries[server.try]
<1>0. /\ h = Here /\ p = Asked /\ server.try \in DOMAIN h.tries /\ server.hop \in DOMAIN hops /\ hops \in Chain
      /\ p \in H!Protocol
  <2>1. server.try \in DOMAIN h.tries /\ server.hop \in DOMAIN hops /\ hops \in Chain
    BY DEF HsInv, HsShape, Here
  <2> QED BY <2>1, ChainIsList DEF Here, Asked
<1>1. ASSUME UNCHANGED <<hops, server, admitted>> PROVE HsInv'
  BY <1>1 DEF HsInv, HsShape, HsCount, HsKnown, IsList, Here, Asked, Known, H!OnlyUsers
<1>2. ASSUME server' = [server EXCEPT !.st = "closed"], UNCHANGED <<hops, admitted>> PROVE HsInv'
  <2>1. /\ server'.hop = server.hop /\ server'.try = server.try /\ server'.st = "closed"
        /\ server' = [hop |-> server'.hop, try |-> server'.try, phase |-> server'.phase, user |-> server'.user,
                      st |-> server'.st]
    BY <1>2 DEF HsInv, HsShape
  <2> QED BY <1>2, <2>1 DEF HsInv, HsShape, HsCount, HsKnown, IsList, Here, H!OnlyUsers
<1>3. CASE H!Guess
  <2> DEFINE n    == H!MarkSize(p, h)
             head == SubSeq(hsbuf.up, 1, IF Len(hsbuf.up) < n THEN Len(hsbuf.up) ELSE n)
             user == CHOOSE u \in h.users : head \in {H!Hash(u), <<u, u>>}
  <2>0. UNCHANGED <<hops, admitted>> /\ server.st = "guess"
    BY <1>3 DEF H!Guess
  <2>1. CASE H!Matches(p, h, head)
    <3>1. server' = [server EXCEPT !.st = "read", !.phase = IF p = "socks5" THEN "methods" ELSE "request",
                                   !.user = IF p \in {"trojan", "ss", "ssr"} /\ h.users # {} THEN user ELSE H!None]
      BY <1>3, <2>1 DEF H!Guess
    <3> HIDE DEF head, user
    <3>2. /\ server'.hop = server.hop /\ server'.try = server.try /\ server'.st = "read"
          /\ server'.phase = (IF p = "socks5" THEN "methods" ELSE "request")
          /\ server'.user = (IF p \in {"trojan", "ss", "ssr"} /\ h.users # {} THEN user ELSE H!None)
          /\ server' = [hop |-> server'.hop, try |-> server'.try, phase |-> server'.phase, user |-> server'.user,
                        st |-> server'.st]
      BY <3>1 DEF HsInv, HsShape
    <3>3. p \in {"trojan", "ss", "ssr"} /\ h.users # {} => user \in h.users
      <4> SUFFICES ASSUME p \in {"trojan", "ss", "ssr"}, h.users # {} PROVE user \in h.users
        OBVIOUS
      <4> HIDE DEF p, h
      <4>1. \E u \in h.users : head \in {H!Hash(u), <<u, u>>}
        BY <2>1, GuessFindsUser
      <4> QED BY <4>1 DEF user
    <3>4. Here' = h /\ Asked' = p
      BY <2>0, <3>2 DEF Here, Asked
    <3>5. HsKnown'
      BY <3>2, <3>3, <3>4 DEF HsKnown, Known
    <3> QED BY <2>0, <3>2, <3>4, <3>5 DEF HsInv, HsShape, HsCount, IsList, H!OnlyUsers, Here
  <2>2. CASE ~H!Matches(p, h, head)
    <3>1. server' = IF server.try < Len(h.tries) THEN [server EXCEPT !.try = @ + 1]
                                                 ELSE [server EXCEPT !.st = "closed"]
      BY <1>3, <2>2 DEF H!Guess
    <3>2. CASE server.try < Len(h.tries)
      <4>1. /\ server'.hop = server.hop /\ server'.try = server.try + 1 /\ server'.st = "guess"
            /\ server' = [hop |-> server'.hop, try |-> server'.try, phase |-> server'.phase, user |-> server'.user,
                          st |-> server'.st]
        BY <2>0, <3>1, <3>2 DEF HsInv, HsShape
      <4>2. Len(h.tries) \in Nat /\ DOMAIN h.tries = 1..Len(h.tries)
        BY <1>0, ChainIsList
      <4>3. server.try + 1 \in DOMAIN h.tries
        BY <1>0, <3>2, <4>2
      <4> QED BY <2>0, <4>1, <4>3 DEF HsInv, HsShape, HsCount, HsKnown, IsList, Here, H!OnlyUsers
    <3>3. CASE ~(server.try < Len(h.tries))
      BY <2>0, <3>1, <3>3, <1>2
    <3> QED BY <3>2, <3>3
  <2> QED BY <2>1, <2>2
<1>4. CASE H!Read
  <2> DEFINE a == H!Scan(H!Reads(p, server.phase), hsbuf.up)
             o == IF a.st = "bad" THEN H!Refuse(<<>>) ELSE H!Accepts(p, h, server.phase, server.user, a.got)
  <2>0. /\ server.st = "read" /\ UNCHANGED hops
        /\ server' = [server EXCEPT !.st = o.st, !.phase = o.phase, !.user = o.user]
        /\ admitted' = IF o.st = "dial" THEN Append(admitted, [dest |-> o.dest, user |-> o.user]) ELSE admitted
    BY <1>4 DEF H!Read
  <2>1. /\ o.st \in {"closed", "read", "dial"}
        /\ o.st = "read" => p = "socks5" /\ (o.phase = "auth" \/ h.users = {} \/ o.user \in h.users)
        /\ o.st = "dial" /\ p # "tunnel" => h.users = {} \/ o.user \in h.users
    <3>1. /\ p \in {"trojan", "ss", "ssr"} => h.users = {} \/ server.user \in h.users
          /\ p = "socks5" => server.phase \in {"methods", "auth"} \/ h.users = {} \/ server.user \in h.users
      BY <1>0, <2>0 DEF HsInv, HsKnown, Known
    <3>2. CASE a.st = "bad"
      BY <3>2 DEF H!Refuse
    <3>3. CASE a.st # "bad"
      <4> HIDE DEF a
      <4> QED BY <1>0, <3>1, <3>3, AcceptsOnlyUsers
    <3> QED BY <3>2, <3>3
  <2> HIDE DEF a, o
  <2>2. /\ server'.hop = server.hop /\ server'.try = server.try /\ server'.st = o.st
        /\ server'.phase = o.phase /\ server'.user = o.user
        /\ server' = [hop |-> server'.hop, try |-> server'.try, phase |-> server'.phase, user |-> server'.user,
                      st |-> server'.st]
    BY <2>0 DEF HsInv, HsShape
  <2>3. Here' = h /\ Asked' = p
    BY <2>0, <2>2 DEF Here, Asked
  <2>4. HsKnown'
    BY <2>1, <2>2, <2>3 DEF HsKnown, Known
  <2>5. CASE o.st # "dial"
    BY <1>0, <2>0, <2>1, <2>2, <2>3, <2>4, <2>5 DEF HsInv, HsShape, HsCount, IsList, H!OnlyUsers, Here
  <2>6. CASE o.st = "dial"
    <3> DEFINE e == [dest |-> o.dest, user |-> o.user]
    <3>1. /\ admitted' = Append(admitted, e) /\ IsList(admitted') /\ Len(admitted) \in Nat
          /\ Len(admitted') = Len(admitted) + 1 /\ DOMAIN admitted = 1..Len(admitted)
          /\ DOMAIN admitted' = 1..(Len(admitted) + 1)
          /\ \A i \in 1..Len(admitted) : admitted'[i] = admitted[i]
          /\ admitted'[Len(admitted) + 1] = e
      <4>1. IsList(admitted) /\ admitted' = Append(admitted, e)
        BY <2>0, <2>6 DEF HsInv, HsShape
      <4> HIDE DEF e
      <4> QED BY <4>1, ListGrows
    <3>2. Len(admitted) + 1 = server.hop
      <4>1. server.hop \in Int
        BY <1>0, ChainIsList
      <4> QED BY <2>0, <3>1, <4>1 DEF HsInv, HsCount
    <3>3. h.users # {} /\ "tunnel" \notin H!ToSet(h.tries) => o.user \in h.users
      BY <1>0, <2>1, <2>6 DEF H!ToSet
    <3>4. H!OnlyUsers'
      <4> SUFFICES ASSUME NEW i \in DOMAIN admitted',
                          hops'[i].users # {}, "tunnel" \notin H!ToSet(hops'[i].tries)
                   PROVE  admitted'[i].user \in hops'[i].users
        BY DEF H!OnlyUsers
      <4>1. CASE i \in 1..Len(admitted)
        BY <2>0, <3>1, <4>1 DEF HsInv, H!OnlyUsers
      <4>2. CASE i = Len(admitted) + 1
        BY <2>0, <3>1, <3>2, <3>3, <4>2
      <4> QED BY <3>1, <4>1, <4>2
    <3>5. HsShape'
      BY <1>0, <2>0, <2>2, <2>3, <2>6, <3>1 DEF HsShape, HsInv
    <3>6. HsCount'
      BY <2>2, <2>6, <3>1, <3>2 DEF HsCount
    <3> QED BY <2>4, <3>4, <3>5, <3>6 DEF HsInv
  <2> QED BY <2>5, <2>6
<1>5. CASE H!Reach
  <2>0. server.st = "dial" /\ UNCHANGED <<hops, admitted>>
    BY <1>5 DEF H!Reach
  <2>1. CASE server' = [server EXCEPT !.st = "closed"]
    BY <1>2, <2>0, <2>1
  <2>2. CASE server' = [server EXCEPT !.st = "relay"]
    <3>1. /\ server'.hop = server.hop /\ server'.try = server.try /\ server'.st = "relay"
          /\ server' = [hop |-> server'.hop, try |-> server'.try, phase |-> server'.phase, user |-> server'.user,
                        st |-> server'.st]
      BY <2>2 DEF HsInv, HsShape
    <3> QED BY <2>0, <3>1 DEF HsInv, HsShape, HsCount, HsKnown, IsList, Here, H!OnlyUsers
  <2>3. CASE /\ server.hop < Len(hops)
             /\ server' = [hop |-> server.hop + 1, try |-> 1, phase |-> "request", user |-> H!None, st |-> "guess"]
    <3>1. Len(hops) \in Nat /\ DOMAIN hops = 1..Len(hops)
      BY <1>0, ChainIsList
    <3>2. server.hop + 1 \in DOMAIN hops
      BY <1>0, <2>3, <3>1
    <3>3. 1 \in DOMAIN hops[server.hop + 1].tries
      BY <1>0, <3>2, ChainIsList
    <3>4. Len(admitted) = (server.hop + 1) - 1
      BY <1>0, <2>0, <3>1 DEF HsInv, HsCount
    <3>5. server'.hop = server.hop + 1 /\ server'.try = 1 /\ server'.st = "guess"
      BY <2>3
    <3> QED BY <2>0, <2>3, <3>2, <3>3, <3>4, <3>5 DEF HsInv, HsShape, HsCount, HsKnown, IsList, Here, H!OnlyUsers
  <2> QED BY <1>5, <2>1, <2>2, <2>3 DEF H!Reach
<1>6. CASE H!MeetEnd
  BY <1>6, <1>1, <1>2 DEF H!MeetEnd
<1>7. CASE H!TimesOut
  BY <1>7, <1>1, <1>2 DEF H!TimesOut
<1>8. CASE (\E d \in {"up", "down"} : H!Arrive(d)) \/ H!Say \/ H!Hear \/ UNCHANGED H!vars
  BY <1>8, <1>1 DEF H!Arrive, H!Say, H!Hear, H!vars
<1> QED BY <1>3, <1>4, <1>5, <1>6, <1>7, <1>8 DEF H!Next

(* No chain and no way to cut the bytes lets anybody past a server with    *)
(* users who is not one of them: neither a protocol that was not meant, nor*)
(* a phase that was skipped.  (guess and accept of every protocol)         *)
THEOREM OnlyUsersGetIn ==
  ASSUME H!ChainTypeOK PROVE H!Spec => []H!OnlyUsers
<1>1. HsInv => H!OnlyUsers
  BY DEF HsInv
<1> QED BY HsInit, HsStep, <1>1, PTL DEF H!Spec

-----------------------------------------------------------------------------
(* Sequences.                                                              *)

(* A sequence of whatever it holds, as a function.                         *)
LEMMA ListIs ==
  ASSUME NEW s, IsList(s)
  PROVE  Len(s) \in Nat /\ DOMAIN s = 1..Len(s) /\ s = [i \in 1..Len(s) |-> s[i]]
<1> DEFINE S == {s[i] : i \in DOMAIN s}
<1>1. s \in Seq(S)
  BY DEF IsList
<1> HIDE DEF S
<1> QED BY <1>1

(* A function on 1..n is a sequence of n things.                           *)
LEMMA ListMade ==
  ASSUME NEW s, NEW n \in Nat, s = [i \in 1..n |-> s[i]]
  PROVE  IsList(s) /\ Len(s) = n
<1> DEFINE S == {s[i] : i \in DOMAIN s}
<1>1. DOMAIN s = 1..n
  OBVIOUS
<1>2. s \in [1..n -> S]
  BY <1>1
<1>3. s \in Seq(S) /\ Len(s) = n
  <2> HIDE DEF S
  <2> QED BY <1>2
<1> QED BY <1>3 DEF IsList

(* Sequences of the same length with the same things are the same.         *)
LEMMA ListsEqual ==
  ASSUME NEW a, NEW b, IsList(a), IsList(b), Len(a) = Len(b), \A i \in 1..Len(a) : a[i] = b[i]
  PROVE  a = b
<1>1. a = [i \in 1..Len(a) |-> a[i]] /\ b = [i \in 1..Len(a) |-> b[i]]
  BY ListIs
<1> DEFINE n == Len(a)
<1> HIDE DEF n
<1>2. a = [i \in 1..n |-> a[i]] /\ b = [i \in 1..n |-> b[i]] /\ \A i \in 1..n : a[i] = b[i]
  BY <1>1 DEF n
<1>3. [i \in 1..n |-> a[i]] = [i \in 1..n |-> b[i]]
  BY <1>2
<1> QED BY <1>2, <1>3

(* What stands where in a \o b.                                            *)
LEMMA ConcatIs ==
  ASSUME NEW a, NEW b, IsList(a), IsList(b)
  PROVE  /\ IsList(a \o b) /\ Len(a \o b) = Len(a) + Len(b)
         /\ \A i \in 1..Len(a) : (a \o b)[i] = a[i]
         /\ \A i \in 1..Len(b) : (a \o b)[Len(a) + i] = b[i]
<1> DEFINE S == {a[i] : i \in DOMAIN a} \cup {b[i] : i \in DOMAIN b}
<1>1. a \in Seq(S) /\ b \in Seq(S)
  BY DEF IsList
<1> HIDE DEF S
<1>2. a \o b \in Seq(S) /\ Len(a \o b) = Len(a) + Len(b) /\ Len(a) \in Nat /\ Len(b) \in Nat
  BY <1>1
<1>3. /\ \A i \in 1..Len(a) : (a \o b)[i] = a[i]
      /\ \A i \in 1..Len(b) : (a \o b)[Len(a) + i] = b[i]
  BY <1>1
<1>4. IsList(a \o b)
  <2> DEFINE c == a \o b
  <2>0. c \in Seq(S)
    BY <1>2
  <2> HIDE DEF c
  <2>1. c = [i \in 1..Len(c) |-> c[i]] /\ Len(c) \in Nat
    BY <2>0
  <2>2. IsList(c)
    BY <2>1, ListMade
  <2> QED BY <2>2 DEF c
<1> QED BY <1>2, <1>3, <1>4

(* What stands where in a part of s.                                       *)
LEMMA PartIs ==
  ASSUME NEW s, IsList(s), NEW m \in Nat, NEW n \in Nat, m <= n, n <= Len(s)
  PROVE  /\ IsList(SubSeq(s, m + 1, n)) /\ Len(SubSeq(s, m + 1, n)) = n - m
         /\ \A i \in 1..(n - m) : SubSeq(s, m + 1, n)[i] = s[m + i]
<1> DEFINE S == {s[i] : i \in DOMAIN s}
           c == SubSeq(s, m + 1, n)
<1>1. s \in Seq(S)
  BY DEF IsList
<1> HIDE DEF S
<1>2. c \in Seq(S) /\ Len(c) = n - m /\ Len(c) \in Nat
  BY <1>1
<1>3. \A i \in 1..(n - m) : c[i] = s[m + i]
  BY <1>1
<1>4. c = [i \in 1..Len(c) |-> c[i]]
  BY <1>2
<1> HIDE DEF c
<1>5. IsList(c)
  BY <1>2, <1>4, ListMade
<1> QED BY <1>2, <1>3, <1>5 DEF c

(* What stands where behind the first n of s.                              *)
LEMMA AfterIs ==
  ASSUME NEW s, IsList(s), NEW n \in Nat, n <= Len(s)
  PROVE  /\ IsList(H!After(s, n)) /\ Len(H!After(s, n)) = Len(s) - n
         /\ \A i \in 1..(Len(s) - n) : H!After(s, n)[i] = s[n + i]
BY ListIs, PartIs DEF H!After

(* What stands where in a tuple.                                           *)
LEMMA TuplesAre ==
  ASSUME NEW x, NEW y, NEW z, NEW w
  PROVE  /\ IsList(<<>>) /\ Len(<<>>) = 0
         /\ IsList(<<x>>) /\ Len(<<x>>) = 1 /\ <<x>>[1] = x
         /\ IsList(<<x, y>>) /\ Len(<<x, y>>) = 2 /\ <<x, y>>[1] = x /\ <<x, y>>[2] = y
         /\ IsList(<<x, y, z>>) /\ Len(<<x, y, z>>) = 3 /\ <<x, y, z>>[1] = x /\ <<x, y, z>>[2] = y /\ <<x, y, z>>[3] = z
         /\ IsList(<<x, y, z, w>>) /\ Len(<<x, y, z, w>>) = 4 /\ <<x, y, z, w>>[1] = x /\ <<x, y, z, w>>[2] = y
         /\ <<x, y, z, w>>[3] = z /\ <<x, y, z, w>>[4] = w
<1>1. IsList(<<>>) /\ Len(<<>>) = 0
  BY DEF IsList
<1>2. IsList(<<x>>) /\ Len(<<x>>) = 1 /\ <<x>>[1] = x
  BY DEF IsList
<1>3. IsList(<<x, y>>) /\ Len(<<x, y>>) = 2 /\ <<x, y>>[1] = x /\ <<x, y>>[2] = y
  BY DEF IsList
<1>4. IsList(<<x, y, z>>) /\ Len(<<x, y, z>>) = 3 /\ <<x, y, z>>[1] = x /\ <<x, y, z>>[2] = y /\ <<x, y, z>>[3] = z
  BY DEF IsList
<1>5. IsList(<<x, y, z, w>>) /\ Len(<<x, y, z, w>>) = 4 /\ <<x, y, z, w>>[1] = x /\ <<x, y, z, w>>[2] = y
      /\ <<x, y, z, w>>[3] = z /\ <<x, y, z, w>>[4] = w
  BY DEF IsList
<1> QED BY <1>1, <1>2, <1>3, <1>4, <1>5

-----------------------------------------------------------------------------
(* Scans: what fields a message is read into, for every message.           *)

(* A set of natural numbers that is not empty has a least element.         *)
LEMMA Least ==
  ASSUME NEW T, T \subseteq Nat, T # {}
  PROVE  \E m \in T : \A x \in T : m <= x
<1> DEFINE R == OpToRel(<, Nat)
<1>1. IsWellFoundedOn(R, Nat)
  BY NatLessThanWellFounded, Zenon
<1> HIDE DEF R
<1>2. PICK m \in T : \A y \in T : ~(<<y, m>> \in R)
  BY <1>1, WFMin, Zenon
<1>3. \A y \in T : ~(y < m)
  BY <1>2 DEF R, OpToRel
<1> QED BY <1>3

(* A set that holds 0 and with a number the next one holds all of them.    *)
LEMMA Induction ==
  ASSUME NEW T, T \subseteq Nat, 0 \in T, \A n \in T : n + 1 \in T
  PROVE  T = Nat
<1> SUFFICES ASSUME Nat \ T # {} PROVE FALSE
  OBVIOUS
<1>1. PICK m \in Nat \ T : \A x \in Nat \ T : m <= x
  BY Least
<1>2. m # 0 /\ m - 1 \in Nat
  BY <1>1
<1>3. m - 1 \in T
  BY <1>1, <1>2
<1> QED BY <1>1, <1>2, <1>3

(* The function that Scan defines by its own values, and one for each      *)
(* sequence of sequences: what its first n put together make.              *)
IsScan(g, fields, s, n) ==
  g = [i \in 0..n |-> IF i = 0 THEN [st |-> "ok", at |-> 0, got |-> <<>>] ELSE H!TakeField(fields[i], s, g[i - 1])]

(* A scan of every number of fields exists.                                *)
LEMMA ScanExists ==
  ASSUME NEW fields, NEW s, NEW n \in Nat
  PROVE  \E g : IsScan(g, fields, s, n)
<1> DEFINE x == [st |-> "ok", at |-> 0, got |-> <<>>]
           T == {m \in Nat : \E g : IsScan(g, fields, s, m)}
<1>1. 0 \in T
  <2> DEFINE g == [i \in 0..0 |-> x]
  <2> HIDE DEF x
  <2>1. g = [i \in 0..0 |-> IF i = 0 THEN x ELSE H!TakeField(fields[i], s, g[i - 1])]
    <3>1. \A i \in 0..0 : i = 0
      OBVIOUS
    <3> QED BY <3>1
  <2> HIDE DEF g
  <2> QED BY <2>1 DEF IsScan, x
<1>2. ASSUME NEW m \in T PROVE m + 1 \in T
  <2>1. m \in Nat /\ m + 1 \in Nat
    OBVIOUS
  <2>2. PICK g : IsScan(g, fields, s, m)
    BY Zenon
  <2> HIDE DEF x
  <2> DEFINE h == [i \in 0..(m + 1) |-> IF i <= m THEN g[i] ELSE H!TakeField(fields[m + 1], s, g[m])]
  <2>3. \A i \in 0..m : g[i] = IF i = 0 THEN x ELSE H!TakeField(fields[i], s, g[i - 1])
    BY <2>2 DEF IsScan, x
  <2>4. ASSUME NEW i \in 0..(m + 1) PROVE h[i] = IF i = 0 THEN x ELSE H!TakeField(fields[i], s, h[i - 1])
    <3>1. CASE i \in 0..m
      <4>1. i # 0 => i - 1 \in 0..m /\ i - 1 <= m /\ i - 1 \in 0..(m + 1)
        BY <2>1, <3>1
      <4>2. h[i] = g[i] /\ (i # 0 => h[i - 1] = g[i - 1])
        BY <2>1, <3>1, <4>1
      <4> HIDE DEF h
      <4> QED BY <2>3, <3>1, <4>2
    <3>2. CASE i = m + 1
      <4>1. i # 0 /\ i - 1 = m /\ m \in 0..(m + 1) /\ ~(i <= m)
        BY <2>1, <3>2
      <4>2. h[i] = H!TakeField(fields[m + 1], s, g[m]) /\ h[m] = g[m]
        BY <2>1, <4>1
      <4> HIDE DEF h
      <4> QED BY <3>2, <4>1, <4>2
    <3> QED BY <2>1, <3>1, <3>2
  <2>5. h = [i \in 0..(m + 1) |-> h[i]]
    OBVIOUS
  <2> HIDE DEF h
  <2>6. IsScan(h, fields, s, m + 1)
    BY <2>4, <2>5 DEF IsScan, x
  <2> QED BY <2>1, <2>6
<1> HIDE DEF T
<1>3. T = Nat
  <2>1. T \subseteq Nat
    BY DEF T
  <2> QED BY <1>1, <1>2, <2>1, Induction
<1> QED BY <1>3 DEF T

(* Scan is what the equations of a scan make of the last field.            *)
LEMMA ScanIs ==
  ASSUME NEW fields, NEW s, NEW n \in Nat, Len(fields) = n
  PROVE  \E g : IsScan(g, fields, s, n) /\ H!Scan(fields, s) = g[n]
<1> DEFINE Is(g) == g = [i \in 0..Len(fields) |-> IF i = 0 THEN [st |-> "ok", at |-> 0, got |-> <<>>]
                                                   ELSE H!TakeField(fields[i], s, g[i - 1])]
           F == CHOOSE g : Is(g)
<1>1. H!Scan(fields, s) = F[Len(fields)]
  BY DEF H!Scan
<1>2. \E g : Is(g)
  <2>1. \E g : IsScan(g, fields, s, Len(fields))
    BY ScanExists
  <2> QED BY <2>1 DEF IsScan
<1>3. Is(F)
  <2> HIDE DEF Is
  <2> QED BY <1>2, Zenon
<1> QED BY <1>1, <1>3 DEF IsScan

(* A field of s behind the first k takes all up to m.                      *)
Fits(f, s, k, m) == k <= Len(s) => H!FieldSize(f, H!After(s, k)) = IF m <= Len(s) THEN m - k ELSE 0

(* The fields of s lie at these places, and were taken from there.         *)
LieAt(fields, n, s, at) ==
  /\ Len(fields) = n /\ at \in [0..n -> Nat] /\ at[0] = 0
  /\ \A i \in 1..n : at[i - 1] < at[i] /\ Fits(fields[i], s, at[i - 1], at[i])
TakenAt(a, n, s, at) ==
  /\ at[n] <= Len(s) => /\ a.st = "ok" /\ a.at = at[n]
                        /\ \A i \in 1..n : a.got[i] = SubSeq(s, at[i - 1] + 1, at[i])
  /\ ~(at[n] <= Len(s)) => a.st = "more"

(* Fields that lie one behind the other in s are taken one by one, and     *)
(* waited for when they are not all there.                                 *)
LEMMA ScanTakes ==
  ASSUME NEW fields, NEW n \in Nat, NEW s, IsList(s), NEW at, LieAt(fields, n, s, at)
  PROVE  TakenAt(H!Scan(fields, s), n, s, at)
<1>a. Len(fields) = n /\ at \in [0..n -> Nat] /\ at[0] = 0
  BY DEF LieAt
<1>b. \A i \in 1..n :
           /\ at[i - 1] < at[i]
           /\ at[i - 1] <= Len(s) =>
                H!FieldSize(fields[i], H!After(s, at[i - 1])) = IF at[i] <= Len(s) THEN at[i] - at[i - 1] ELSE 0
  BY DEF LieAt, Fits
<1>1. PICK g : IsScan(g, fields, s, n) /\ H!Scan(fields, s) = g[n]
  BY <1>a, ScanIs
<1> SUFFICES
         /\ at[n] <= Len(s) => /\ H!Scan(fields, s).st = "ok" /\ H!Scan(fields, s).at = at[n]
                               /\ \A i \in 1..n : H!Scan(fields, s).got[i] = SubSeq(s, at[i - 1] + 1, at[i])
         /\ ~(at[n] <= Len(s)) => H!Scan(fields, s).st = "more"
  BY DEF TakenAt
<1> USE <1>a, <1>b
<1>2. \A i \in 0..n : g[i] = IF i = 0 THEN [st |-> "ok", at |-> 0, got |-> <<>>]
                                     ELSE H!TakeField(fields[i], s, g[i - 1])
  BY <1>1 DEF IsScan
<1>3. Len(s) \in Nat /\ \A i \in 0..n : at[i] \in Nat
  BY ListIs
<1> DEFINE Ok(k, r)    == /\ r = [st |-> "ok", at |-> at[k], got |-> r.got] /\ IsList(r.got) /\ Len(r.got) = k
                         /\ \A i \in 1..k : r.got[i] = SubSeq(s, at[i - 1] + 1, at[i])
           Holds(k, r) == (at[k] <= Len(s) => Ok(k, r)) /\ (~(at[k] <= Len(s)) => r.st = "more")
           T == {k \in Nat : k <= n => Holds(k, g[k])}
<1>4. 0 \in T
  <2>1. g[0] = [st |-> "ok", at |-> 0, got |-> <<>>]
    BY <1>2
  <2>2. IsList(<<>>) /\ Len(<<>>) = 0
    BY TuplesAre
  <2> QED BY <1>3, <2>1, <2>2
<1>5. ASSUME NEW k \in T PROVE k + 1 \in T
  <2>0. k \in Nat /\ (k <= n => Holds(k, g[k]))
    <3> HIDE DEF Holds
    <3> QED OBVIOUS
  <2>1. k \in Nat /\ k + 1 \in Nat
    BY <2>0
  <2> SUFFICES ASSUME k + 1 <= n PROVE Holds(k + 1, g[k + 1])
    BY <2>1
  <2> DEFINE r == g[k]
             f == fields[k + 1]
             z == H!FieldSize(f, H!After(s, at[k]))
             e == SubSeq(s, at[k] + 1, at[k + 1])
  <2>2. Holds(k, r)
    <3>1. k <= n
      BY <2>1
    <3> HIDE DEF Holds
    <3> QED BY <2>0, <3>1
  <2>3. g[k + 1] = H!TakeField(f, s, r) /\ k + 1 \in 1..n /\ (k + 1) - 1 = k /\ k \in 0..n /\ k + 1 \in 0..n
    <3>1. k + 1 \in 0..n /\ k + 1 # 0 /\ (k + 1) - 1 = k /\ k \in 0..n /\ k + 1 \in 1..n
      BY <2>1
    <3> QED BY <1>2, <3>1
  <2>4. at[k] \in Nat /\ at[k + 1] \in Nat /\ at[k] < at[k + 1] 
    BY <1>3, <2>3
  <2>5. at[k] <= Len(s) => z = IF at[k + 1] <= Len(s) THEN at[k + 1] - at[k] ELSE 0
    BY <2>3
  <2> HIDE DEF T, z, f
  <2>6. CASE ~(at[k] <= Len(s))
    <3> DEFINE q == g[k + 1]
    <3>1. r.st = "more"
      BY <2>2, <2>6
    <3>2. q = r
      BY <2>3, <3>1 DEF H!TakeField
    <3>3. ~(at[k + 1] <= Len(s))
      BY <1>3, <2>4, <2>6
    <3> HIDE DEF q, r
    <3> QED BY <3>1, <3>2, <3>3 DEF q
  <2>7. CASE at[k] <= Len(s) /\ ~(at[k + 1] <= Len(s))
    <3>1. Ok(k, r)
      BY <2>2, <2>7
    <3>2. z = 0
      BY <2>5, <2>7
    <3> HIDE DEF r
    <3>3. r.st = "ok" /\ r.at = at[k]
      BY <3>1
    <3>4. H!TakeField(f, s, r) = [r EXCEPT !.st = "more"]
      BY <3>2, <3>3 DEF H!TakeField, z
    <3>5. [r EXCEPT !.st = "more"].st = "more"
      BY <3>1
    <3>6. g[k + 1].st = "more"
      BY <2>3, <3>4, <3>5
    <3> QED BY <2>7, <3>6
  <2>8. CASE at[k] <= Len(s) /\ at[k + 1] <= Len(s)
    <3>1. Ok(k, r)
      BY <2>2, <2>8
    <3>2. z = at[k + 1] - at[k] /\ z # 0 /\ ~(z < 0) /\ at[k] + z = at[k + 1]
      BY <2>4, <2>5, <2>8
    <3> HIDE DEF r
    <3>3. r.st = "ok" /\ r.at = at[k] /\ IsList(r.got) /\ Len(r.got) = k
      BY <3>1
    <3>4. H!TakeField(f, s, r) = [st |-> "ok", at |-> at[k + 1], got |-> Append(r.got, e)]
      BY <3>2, <3>3 DEF H!TakeField, z
    <3> DEFINE w == Append(r.got, e)
    <3>5. IsList(w) /\ Len(w) = k + 1 /\ w[k + 1] = e /\ \A i \in 1..k : w[i] = r.got[i]
      <4> DEFINE l == r.got
      <4>1. IsList(l) /\ Len(l) = k
        BY <3>3
      <4> HIDE DEF l
      <4>2. /\ IsList(Append(l, e)) /\ Len(Append(l, e)) = Len(l) + 1
            /\ \A i \in 1..Len(l) : Append(l, e)[i] = l[i]
            /\ Append(l, e)[Len(l) + 1] = e
        <5> HIDE DEF e
        <5> QED BY <4>1, ListGrows
      <4> QED BY <4>1, <4>2 DEF l
    <3> DEFINE q == g[k + 1]
    <3>6. q = [st |-> "ok", at |-> at[k + 1], got |-> w]
      BY <2>3, <3>4
    <3> HIDE DEF w
    <3>7. \A i \in 1..(k + 1) : w[i] = SubSeq(s, at[i - 1] + 1, at[i])
      <4> SUFFICES ASSUME NEW i \in 1..(k + 1) PROVE w[i] = SubSeq(s, at[i - 1] + 1, at[i])
        OBVIOUS
      <4>1. CASE i \in 1..k
        BY <3>1, <3>5, <4>1
      <4>2. CASE i = k + 1
        BY <2>3, <3>5, <4>2
      <4> QED BY <2>1, <4>1, <4>2
    <3> HIDE DEF q
    <3>8. Ok(k + 1, q)
      BY <3>5, <3>6, <3>7
    <3> QED BY <2>8, <3>8 DEF q
  <2> QED BY <2>6, <2>7, <2>8
<1> HIDE DEF T
<1>6. T = Nat
  <2>1. T \subseteq Nat
    BY DEF T
  <2> QED BY <1>4, <1>5, <2>1, Induction
<1>7. Holds(n, g[n])
  <2> HIDE DEF Holds
  <2>1. n \in T /\ n <= n
    BY <1>6
  <2> QED BY <2>1 DEF T
<1> DEFINE a == H!Scan(fields, s)
<1>8. Holds(n, a)
  <2> HIDE DEF Holds
  <2> QED BY <1>1, <1>7
<1> HIDE DEF a
<1>9. Ok(n, a) => /\ a.st = "ok" /\ a.at = at[n] /\ \A i \in 1..n : a.got[i] = SubSeq(s, at[i - 1] + 1, at[i])
  OBVIOUS
<1> QED BY <1>8, <1>9 DEF a

(* Fields once refused or waited for are not taken.                        *)
LEMMA ScanStops ==
  ASSUME NEW fields, NEW s, NEW n \in Nat, NEW g, IsScan(g, fields, s, n), NEW k \in 0..n, g[k].st # "ok"
  PROVE  g[n].st # "ok"
<1> DEFINE T == {m \in Nat : k <= m /\ m <= n => g[m].st # "ok"}
<1>1. \A i \in 0..n : g[i] = IF i = 0 THEN [st |-> "ok", at |-> 0, got |-> <<>>]
                                     ELSE H!TakeField(fields[i], s, g[i - 1])
  BY DEF IsScan
<1>2. 0 \in T
  BY <1>1
<1>3. ASSUME NEW m \in T PROVE m + 1 \in T
  <2>1. m \in Nat /\ m + 1 \in Nat
    OBVIOUS
  <2> SUFFICES ASSUME k <= m + 1, m + 1 <= n PROVE g[m + 1].st # "ok"
    BY <2>1
  <2>2. CASE k = m + 1
    BY <2>2
  <2>3. CASE k # m + 1
    <3>1. k <= m /\ m <= n /\ m + 1 \in 0..n /\ m + 1 # 0 /\ (m + 1) - 1 = m
      BY <2>1, <2>3
    <3>2. g[m].st # "ok"
      BY <3>1
    <3>3. g[m + 1] = H!TakeField(fields[m + 1], s, g[m])
      BY <1>1, <3>1
    <3> QED BY <3>2, <3>3 DEF H!TakeField
  <2> QED BY <2>2, <2>3
<1> HIDE DEF T
<1>4. T = Nat
  <2>1. T \subseteq Nat
    BY DEF T
  <2> QED BY <1>2, <1>3, <2>1, Induction
<1> QED BY <1>4 DEF T

(* A scan whose first field is missing or refused, or whose second is      *)
(* behind a first of one byte, does not succeed.                           *)
LEMMA ScanRefuses ==
  ASSUME NEW fields, NEW n \in Nat, Len(fields) = n, n >= 1, NEW s, IsList(s),
         \/ H!FieldSize(fields[1], s) = 0 \/ H!FieldSize(fields[1], s) < 0
         \/ /\ n >= 2 /\ H!FieldSize(fields[1], s) = 1
            /\ \/ H!FieldSize(fields[2], H!After(s, 1)) = 0
               \/ H!FieldSize(fields[2], H!After(s, 1)) < 0
  PROVE  H!Scan(fields, s).st # "ok"
<1>1. PICK g : IsScan(g, fields, s, n) /\ H!Scan(fields, s) = g[n]
  BY ScanIs
<1>2. \A i \in 0..n : g[i] = IF i = 0 THEN [st |-> "ok", at |-> 0, got |-> <<>>]
                                     ELSE H!TakeField(fields[i], s, g[i - 1])
  BY <1>1 DEF IsScan
<1>3. H!After(s, 0) = s
  <2>1. Len(s) \in Nat
    BY ListIs
  <2>2. /\ IsList(H!After(s, 0)) /\ Len(H!After(s, 0)) = Len(s)
        /\ \A i \in 1..Len(s) : H!After(s, 0)[i] = s[i]
    <3>1. /\ IsList(H!After(s, 0)) /\ Len(H!After(s, 0)) = Len(s) - 0
          /\ \A i \in 1..(Len(s) - 0) : H!After(s, 0)[i] = s[0 + i]
      BY <2>1, AfterIs
    <3> QED BY <2>1, <3>1
  <2> QED BY <2>2, ListsEqual
<1>4. g[0] = [st |-> "ok", at |-> 0, got |-> <<>>] /\ g[1] = H!TakeField(fields[1], s, g[0])
  BY <1>2
<1>5. CASE H!FieldSize(fields[1], s) = 0 \/ H!FieldSize(fields[1], s) < 0
  <2>1. g[1].st # "ok"
    <3> DEFINE r == g[0]
               f == fields[1]
    <3>1. r.st = "ok" /\ r.at = 0 /\ [r EXCEPT !.st = "more"].st # "ok" /\ [r EXCEPT !.st = "bad"].st # "ok"
      BY <1>4
    <3>2. g[1] = H!TakeField(f, s, r)
      BY <1>4
    <3>3. H!FieldSize(f, s) = 0 \/ H!FieldSize(f, s) < 0
      BY <1>5
    <3> HIDE DEF r, f
    <3> QED BY <1>3, <3>1, <3>2, <3>3 DEF H!TakeField
  <2> QED BY <1>1, <2>1, ScanStops
<1>6. CASE /\ n >= 2 /\ H!FieldSize(fields[1], s) = 1
           /\ H!FieldSize(fields[2], H!After(s, 1)) = 0 \/ H!FieldSize(fields[2], H!After(s, 1)) < 0
  <2>1. g[1] = [st |-> "ok", at |-> 1, got |-> Append(<<>>, SubSeq(s, 1, 1))]
    <3> DEFINE r == g[0]
               f == fields[1]
    <3>1. r.st = "ok" /\ r.at = 0 /\ r.got = <<>>
      BY <1>4
    <3>2. g[1] = H!TakeField(f, s, r)
      BY <1>4
    <3>3. H!FieldSize(f, s) = 1
      BY <1>6
    <3> HIDE DEF r, f
    <3>4. H!After(s, r.at) = s /\ r.at + 1 = 1
      BY <1>3, <3>1
    <3>5. H!TakeField(f, s, r) = [st |-> "ok", at |-> r.at + 1, got |-> Append(r.got, SubSeq(s, r.at + 1, r.at + 1))]
      <4> DEFINE z == H!FieldSize(f, H!After(s, r.at))
      <4>1. z = 1
        BY <3>3, <3>4
      <4>2. z # 0 /\ ~(z < 0) /\ r.at + z = r.at + 1
        BY <4>1
      <4> HIDE DEF z
      <4> QED BY <3>1, <4>2 DEF H!TakeField, z
    <3> QED BY <3>1, <3>2, <3>4, <3>5
  <2>2. g[2] = H!TakeField(fields[2], s, g[1])
    BY <1>2, <1>6
  <2>3. g[2].st # "ok"
    <3> DEFINE r == g[1]
               f == fields[2]
    <3>1. r.st = "ok" /\ r.at = 1 /\ [r EXCEPT !.st = "more"].st # "ok" /\ [r EXCEPT !.st = "bad"].st # "ok"
      BY <2>1
    <3>2. g[2] = H!TakeField(f, s, r)
      BY <2>2
    <3>3. H!FieldSize(f, H!After(s, 1)) = 0 \/ H!FieldSize(f, H!After(s, 1)) < 0
      BY <1>6
    <3> HIDE DEF r, f
    <3> QED BY <3>1, <3>2, <3>3 DEF H!TakeField
  <2> QED BY <1>1, <1>6, <2>3, ScanStops
<1> QED BY <1>5, <1>6

-----------------------------------------------------------------------------
(* Sequences put together, one after the other.                            *)

(* The first k of n sequences put together, for every k.                   *)
Joined(n, l) == LET t[k \in 0..n] == IF k = 0 THEN <<>> ELSE t[k - 1] \o l[k] IN t

IsJoined(t, n, l) == t = [k \in 0..n |-> IF k = 0 THEN <<>> ELSE t[k - 1] \o l[k]]

(* Sequences can be put together, one after the other.                     *)
LEMMA JoinedExists ==
  ASSUME NEW n \in Nat, NEW l
  PROVE  \E t : IsJoined(t, n, l)
<1> DEFINE T == {m \in Nat : \E t : IsJoined(t, m, l)}
<1>1. 0 \in T
  <2> DEFINE t == [i \in 0..0 |-> <<>>]
  <2>1. t = [i \in 0..0 |-> IF i = 0 THEN <<>> ELSE t[i - 1] \o l[i]]
    <3>1. \A i \in 0..0 : i = 0
      OBVIOUS
    <3> QED BY <3>1
  <2> HIDE DEF t
  <2> QED BY <2>1 DEF IsJoined
<1>2. ASSUME NEW m \in T PROVE m + 1 \in T
  <2>1. m \in Nat /\ m + 1 \in Nat
    OBVIOUS
  <2>2. PICK g : IsJoined(g, m, l)
    BY Zenon
  <2> DEFINE w == g[m] \o l[m + 1]
  <2> HIDE DEF w
  <2> DEFINE h == [i \in 0..(m + 1) |-> IF i <= m THEN g[i] ELSE w]
  <2>3. \A i \in 0..m : g[i] = IF i = 0 THEN <<>> ELSE g[i - 1] \o l[i]
    BY <2>2 DEF IsJoined
  <2>4. ASSUME NEW i \in 0..(m + 1) PROVE h[i] = IF i = 0 THEN <<>> ELSE h[i - 1] \o l[i]
    <3>1. CASE i \in 0..m
      <4>1. i # 0 => i - 1 \in 0..m /\ i - 1 <= m /\ i - 1 \in 0..(m + 1)
        BY <2>1, <3>1
      <4>2. h[i] = g[i] /\ (i # 0 => h[i - 1] = g[i - 1])
        BY <2>1, <3>1, <4>1
      <4> HIDE DEF h
      <4>3. g[i] = IF i = 0 THEN <<>> ELSE g[i - 1] \o l[i]
        BY <2>3, <3>1
      <4> QED BY <4>2, <4>3
    <3>2. CASE i = m + 1
      <4>1. i # 0 /\ i - 1 = m /\ m \in 0..(m + 1) /\ ~(i <= m)
        BY <2>1, <3>2
      <4>2. h[i] = w /\ h[m] = g[m]
        BY <2>1, <4>1
      <4> HIDE DEF h
      <4> QED BY <3>2, <4>1, <4>2 DEF w
    <3> QED BY <2>1, <3>1, <3>2
  <2>5. h = [i \in 0..(m + 1) |-> h[i]]
    OBVIOUS
  <2> HIDE DEF h
  <2>6. IsJoined(h, m + 1, l)
    BY <2>4, <2>5 DEF IsJoined
  <2> QED BY <2>1, <2>6
<1> HIDE DEF T
<1>3. T = Nat
  <2>1. T \subseteq Nat
    BY DEF T
  <2> QED BY <1>1, <1>2, <2>1, Induction
<1> QED BY <1>3 DEF T

(* What t says of the sequences l it puts together: how long the parts     *)
(* are, and where each of them lies in the whole.                          *)
Joins(t, n, l) ==
  /\ t[0] = <<>> /\ \A i \in 0..n : IsList(t[i]) /\ Len(t[i]) \in Nat
  /\ \A i \in 1..n : Len(t[i]) = Len(t[i - 1]) + Len(l[i])
  /\ \A i \in 0..n : \A j \in i..n : Len(t[i]) <= Len(t[j])
  /\ \A i \in 1..n : \A k \in 1..Len(l[i]) : t[n][Len(t[i - 1]) + k] = l[i][k]

(* Joined puts them together.                                              *)
LEMMA JoinedIs ==
  ASSUME NEW n \in Nat, NEW l, \A i \in 1..n : IsList(l[i])
  PROVE  Joins(Joined(n, l), n, l)
<1> DEFINE Is(g) == g = [k \in 0..n |-> IF k = 0 THEN <<>> ELSE g[k - 1] \o l[k]]
           t == CHOOSE g : Is(g)
<1>1. Joined(n, l) = t
  BY DEF Joined
<1>2. Is(t)
  <2>1. \E g : Is(g)
    BY JoinedExists DEF IsJoined
  <2> HIDE DEF Is
  <2> QED BY <2>1, Zenon
<1> HIDE DEF t
<1>3. t[0] = <<>> /\ \A i \in 1..n : t[i] = t[i - 1] \o l[i]
  <2>1. \A i \in 0..n : t[i] = IF i = 0 THEN <<>> ELSE t[i - 1] \o l[i]
    BY <1>2
  <2>2. 0 \in 0..n /\ \A i \in 1..n : i \in 0..n /\ i # 0
    OBVIOUS
  <2> QED BY <2>1, <2>2, Zenon
<1>4. \A i \in 0..n : IsList(t[i])
  <2> DEFINE T == {m \in Nat : m <= n => IsList(t[m])}
  <2>1. 0 \in T
    BY <1>3, TuplesAre
  <2>2. ASSUME NEW m \in T PROVE m + 1 \in T
    <3>1. m \in Nat /\ m + 1 \in Nat
      OBVIOUS
    <3> SUFFICES ASSUME m + 1 <= n PROVE IsList(t[m + 1])
      BY <3>1
    <3>2. m + 1 \in 1..n /\ (m + 1) - 1 = m /\ IsList(t[m])
      BY <3>1
    <3>3. t[m + 1] = t[m] \o l[m + 1] /\ IsList(l[m + 1])
      <4>1. t[m + 1] = t[(m + 1) - 1] \o l[m + 1]
        BY <1>3, <3>2, Zenon
      <4> QED BY <3>2, <4>1
    <3> QED BY <3>2, <3>3, ConcatIs
  <2> HIDE DEF T
  <2>3. T = Nat
    <3>1. T \subseteq Nat
      BY DEF T
    <3> QED BY <2>1, <2>2, <3>1, Induction
  <2> QED BY <2>3 DEF T
<1>5. ASSUME NEW i \in 1..n
      PROVE  /\ i - 1 \in 0..n /\ i \in 0..n /\ Len(t[i - 1]) \in Nat /\ Len(t[i]) \in Nat /\ Len(l[i]) \in Nat
             /\ Len(t[i]) = Len(t[i - 1]) + Len(l[i])
             /\ \A k \in 1..Len(t[i - 1]) : t[i][k] = t[i - 1][k]
             /\ \A k \in 1..Len(l[i]) : t[i][Len(t[i - 1]) + k] = l[i][k]
  <2>1. i - 1 \in 0..n /\ i \in 0..n
    OBVIOUS
  <2> DEFINE a == t[i - 1]
             b == l[i]
  <2>2. t[i] = a \o b
    BY <1>3
  <2>3. IsList(a) /\ IsList(b)
    BY <1>4, <2>1
  <2> HIDE DEF a, b
  <2>4. /\ Len(a \o b) = Len(a) + Len(b)
        /\ \A k \in 1..Len(a) : (a \o b)[k] = a[k]
        /\ \A k \in 1..Len(b) : (a \o b)[Len(a) + k] = b[k]
    BY <2>3, ConcatIs
  <2>5. Len(a) \in Nat /\ Len(b) \in Nat
    BY <2>3, ListIs
  <2>6. Len(a \o b) \in Nat
    BY <2>4, <2>5
  <2> QED BY <2>1, <2>2, <2>4, <2>5, <2>6 DEF a, b
<1>6. \A i \in 0..n : Len(t[i]) \in Nat
  BY <1>4, ListIs
(* A longer part begins as a shorter one.                                  *)
<1>7. ASSUME NEW i \in 0..n, NEW j \in i..n
      PROVE  Len(t[i]) <= Len(t[j]) /\ \A k \in 1..Len(t[i]) : t[j][k] = t[i][k]
  <2> DEFINE T == {m \in Nat : i <= m /\ m <= n =>
                                 Len(t[i]) <= Len(t[m]) /\ \A k \in 1..Len(t[i]) : t[m][k] = t[i][k]}
  <2>1. 0 \in T
    <3>1. i <= 0 => i = 0
      OBVIOUS
    <3> QED BY <1>6, <3>1
  <2>2. ASSUME NEW m \in T PROVE m + 1 \in T
    <3>1. m \in Nat /\ m + 1 \in Nat
      OBVIOUS
    <3> SUFFICES ASSUME i <= m + 1, m + 1 <= n
                 PROVE  Len(t[i]) <= Len(t[m + 1]) /\ \A k \in 1..Len(t[i]) : t[m + 1][k] = t[i][k]
      BY <3>1
    <3>2. CASE i = m + 1
      BY <1>6, <3>2
    <3>3. CASE i # m + 1
      <4>1. i <= m /\ m <= n /\ m + 1 \in 1..n /\ (m + 1) - 1 = m
        BY <3>1, <3>3
      <4>2. Len(t[i]) <= Len(t[m]) /\ \A k \in 1..Len(t[i]) : t[m][k] = t[i][k]
        BY <4>1
      <4>3. /\ Len(t[m]) \in Nat /\ Len(t[m + 1]) \in Nat /\ Len(l[m + 1]) \in Nat
            /\ Len(t[m + 1]) = Len(t[m]) + Len(l[m + 1])
            /\ \A k \in 1..Len(t[m]) : t[m + 1][k] = t[m][k]
        <5> DEFINE q == m + 1
        <5>1. q \in 1..n /\ q - 1 = m
          BY <4>1
        <5> HIDE DEF q
        <5>2. /\ Len(t[q - 1]) \in Nat /\ Len(t[q]) \in Nat /\ Len(l[q]) \in Nat
              /\ Len(t[q]) = Len(t[q - 1]) + Len(l[q])
              /\ \A k \in 1..Len(t[q - 1]) : t[q][k] = t[q - 1][k]
          BY <1>5, <5>1
        <5> QED BY <5>1, <5>2 DEF q
      <4> HIDE DEF T
      <4>4. Len(t[i]) \in Nat /\ Len(t[i]) <= Len(t[m + 1])
        <5>1. Len(t[i]) \in Nat
          BY <1>6
        <5> DEFINE a == Len(t[i])
                   b == Len(t[m])
                   c == Len(t[m + 1])
                   d == Len(l[m + 1])
        <5>2. a \in Nat /\ b \in Nat /\ c \in Nat /\ d \in Nat /\ a <= b /\ c = b + d
          BY <4>2, <4>3, <5>1
        <5> HIDE DEF a, b, c, d
        <5>3. a <= c
          BY <5>2
        <5> QED BY <5>2, <5>3 DEF a, c
      <4>5. \A k \in 1..Len(t[i]) : k \in 1..Len(t[m])
        BY <4>2, <4>3, <4>4
      <4> QED BY <4>2, <4>3, <4>4, <4>5
    <3> QED BY <3>2, <3>3
  <2> HIDE DEF T
  <2>3. T = Nat
    <3>1. T \subseteq Nat
      BY DEF T
    <3> QED BY <2>1, <2>2, <3>1, Induction
  <2>4. j \in T /\ i <= j /\ j <= n
    BY <2>3
  <2> QED BY <2>4 DEF T
<1>8. ASSUME NEW i \in 1..n, NEW k \in 1..Len(l[i]) PROVE t[n][Len(t[i - 1]) + k] = l[i][k]
  <2>1. /\ Len(t[i - 1]) \in Nat /\ Len(t[i]) \in Nat /\ Len(l[i]) \in Nat
        /\ Len(t[i]) = Len(t[i - 1]) + Len(l[i]) /\ t[i][Len(t[i - 1]) + k] = l[i][k]
    BY <1>5
  <2>2. i \in 0..n /\ n \in i..n /\ Len(t[i - 1]) + k \in 1..Len(t[i])
    <3> DEFINE a == Len(t[i - 1])
               b == Len(l[i])
               c == Len(t[i])
    <3>1. a \in Nat /\ b \in Nat /\ c \in Nat /\ c = a + b /\ k \in 1..b
      BY <2>1
    <3> HIDE DEF a, b, c
    <3>2. a + k \in 1..c
      BY <3>1
    <3> QED BY <3>2 DEF a, c
  <2> QED BY <1>7, <2>1, <2>2
<1> QED BY <1>1, <1>3, <1>4, <1>5, <1>6, <1>7, <1>8 DEF Joins

-----------------------------------------------------------------------------
(* The fields of the protocols.                                            *)

(* The kinds of fields are told apart, and none is a number.               *)
LEMMA Kinds ==
  /\ H!Byte \notin {H!Counted, H!Address, H!AddressSum, H!Until0, H!UntilBlank}
  /\ H!Counted \notin {H!Byte, H!Address, H!AddressSum, H!Until0, H!UntilBlank}
  /\ H!Until0 \notin {H!Byte, H!Counted, H!Address, H!AddressSum, H!UntilBlank}
  /\ H!UntilBlank \notin {H!Byte, H!Counted, H!Address, H!AddressSum, H!Until0}
  /\ H!Address \notin {H!Byte, H!Counted, H!AddressSum, H!Until0, H!UntilBlank}
  /\ H!AddressSum \notin {H!Byte, H!Counted, H!Address, H!Until0, H!UntilBlank}
  /\ {H!Byte, H!Counted, H!Address, H!AddressSum, H!Until0, H!UntilBlank} \cap Nat = {}
BY DEF H!Byte, H!Counted, H!Address, H!AddressSum, H!Until0, H!UntilBlank

(* A field that is one number, given or not.                               *)
LEMMA NumberField ==
  ASSUME NEW f \in Nat, NEW s, IsList(s), Len(s) >= 1 => s[1] = f
  PROVE  H!FieldSize(f, s) = IF 1 <= Len(s) THEN 1 ELSE 0
<1>1. f \notin {H!Byte, H!Counted, H!Until0, H!UntilBlank, H!Address, H!AddressSum}
  BY DEF H!Byte, H!Counted, H!Address, H!AddressSum, H!Until0, H!UntilBlank
<1>2. Len(s) \in Nat /\ (s = <<>> <=> Len(s) = 0)
  <2>1. Len(s) \in Nat /\ (Len(s) = 0 => s = <<>>)
    BY ListIs, TuplesAre, ListsEqual
  <2> QED BY <2>1, TuplesAre
<1> QED BY <1>1, <1>2 DEF H!FieldSize

(* Only the empty sequence has no length.                                  *)
LEMMA EmptyIs ==
  ASSUME NEW s, IsList(s)
  PROVE  Len(s) \in Nat /\ (s = <<>> <=> Len(s) = 0)
<1>1. Len(s) \in Nat
  BY ListIs
<1>2. IsList(<<>>) /\ Len(<<>>) = 0
  BY TuplesAre
<1>3. ASSUME Len(s) = 0 PROVE s = <<>>
  <2>1. \A i \in 1..Len(s) : s[i] = (<<>>)[i]
    BY <1>3
  <2> QED BY <1>2, <1>3, <2>1, ListsEqual
<1> QED BY <1>1, <1>2, <1>3

(* How long a field of one byte is.                                        *)
LEMMA ByteField ==
  ASSUME NEW s, IsList(s)
  PROVE  H!FieldSize(H!Byte, s) = IF 1 <= Len(s) THEN 1 ELSE 0
<1>1. Len(s) \in Nat /\ (s = <<>> <=> Len(s) = 0)
  BY EmptyIs
<1> QED BY <1>1, Kinds DEF H!FieldSize

(* Another number than the one given is refused.                           *)
LEMMA WrongField ==
  ASSUME NEW f \in Nat, NEW s, IsList(s), Len(s) >= 1 => s[1] # f
  PROVE  H!FieldSize(f, s) = 0 \/ H!FieldSize(f, s) < 0
<1>1. f \notin {H!Byte, H!Counted, H!Until0, H!UntilBlank, H!Address, H!AddressSum}
  BY DEF H!Byte, H!Counted, H!Address, H!AddressSum, H!Until0, H!UntilBlank
<1>2. Len(s) \in Nat /\ (s = <<>> <=> Len(s) = 0)
  BY EmptyIs
<1>3. H!FieldSize(f, s) = IF s = <<>> THEN 0 ELSE -1
  BY <1>1, <1>2 DEF H!FieldSize
<1> QED BY <1>3

(* Nothing holds no field.                                                 *)
LEMMA NoField ==
  ASSUME NEW f, NEW s, IsList(s), Len(s) = 0
  PROVE  H!FieldSize(f, s) = 0
BY EmptyIs DEF H!FieldSize

(* How long a field is that a number counts.                               *)
LEMMA CountedField ==
  ASSUME NEW n \in Nat, NEW s, IsList(s), Len(s) >= 1 => s[1] = n
  PROVE  H!FieldSize(H!Counted, s) = IF 1 + n <= Len(s) THEN 1 + n ELSE 0
<1>1. Len(s) \in Nat /\ (s = <<>> <=> Len(s) = 0)
  BY EmptyIs
<1>2. H!FieldSize(H!Counted, s) = IF s = <<>> THEN 0 ELSE IF Len(s) < 1 \/ Len(s) < 1 + s[1] THEN 0 ELSE 1 + s[1]
  BY Kinds DEF H!FieldSize
<1> QED BY <1>1, <1>2

(* A field up to a number that is not in it before its end.                *)
LEMMA UntilField ==
  ASSUME NEW s, IsList(s), NEW m \in Nat \ {0}, NEW b, NEW f,
         (f = H!Until0 /\ b = 0) \/ (f = H!UntilBlank /\ b = H!BLANK),
         m <= Len(s) => s[m] = b, \A j \in 1..(m - 1) : j <= Len(s) => s[j] # b
  PROVE  H!FieldSize(f, s) = IF m <= Len(s) THEN m ELSE 0
<1>1. Len(s) \in Nat /\ (s = <<>> <=> Len(s) = 0)
  BY EmptyIs
<1> DEFINE I == {i \in 1..Len(s) : s[i] = b}
           z == IF I # {} THEN H!Min(I) ELSE 0
<1>2. H!FieldSize(f, s) = IF s = <<>> THEN 0 ELSE z
  <2>1. CASE f = H!Until0 /\ b = 0
    <3>1. z = H!SelectInSeq(s, LAMBDA x : x = 0)
      BY <2>1 DEF H!SelectInSeq
    <3> HIDE DEF z
    <3> QED BY <2>1, <3>1, Kinds, Zenon DEF H!FieldSize
  <2>2. CASE f = H!UntilBlank /\ b = H!BLANK
    <3>1. z = H!SelectInSeq(s, LAMBDA x : x = H!BLANK)
      BY <2>2 DEF H!SelectInSeq
    <3> HIDE DEF z
    <3> QED BY <2>2, <3>1, Kinds, Zenon DEF H!FieldSize
  <2> QED BY <2>1, <2>2
<1>3. CASE m <= Len(s)
  <2>1. m \in I /\ \A i \in I : m <= i
    BY <1>1, <1>3
  <2> HIDE DEF I
  <2>2. H!Min(I) = m
    <3>1. H!Min(I) \in I /\ \A y \in I : H!Min(I) <= y
      BY <2>1 DEF H!Min
    <3>2. H!Min(I) <= m /\ m <= H!Min(I) /\ H!Min(I) \in Int
      BY <2>1, <3>1 DEF I
    <3> QED BY <3>2
  <2>3. s # <<>>
    BY <1>1, <1>3
  <2> QED BY <1>2, <1>3, <2>1, <2>2, <2>3
<1>4. CASE ~(m <= Len(s))
  <2>1. I = {}
    BY <1>1, <1>4
  <2> HIDE DEF I
  <2> QED BY <1>2, <1>4, <2>1
<1> QED BY <1>3, <1>4

(* The form of an address, and how long it is on the wire.                 *)
AddressOK(type, dest) ==
  /\ IsList(dest) /\ type \in {1, 3, 4, 17, 19, 20}
  /\ type \in {1, 17} => Len(dest) = 2
  /\ type \in {4, 20} => Len(dest) = 3
  /\ type \in {3, 19} => Len(dest) >= 2

IsPacked(a, type, dest) ==
  LET k == IF type \in {3, 19} THEN 2 ELSE 1
  IN /\ IsList(a) /\ Len(a) = k + Len(dest) /\ a[1] = type
     /\ type \in {3, 19} => a[2] = Len(dest) - 1
     /\ \A i \in 1..Len(dest) : a[k + i] = dest[i]
     /\ H!DestOf(a) = dest

(* How an address is packed.                                               *)
LEMMA PackedIs ==
  ASSUME NEW type, NEW dest, AddressOK(type, dest)
  PROVE  IsPacked(H!Packed(type, dest), type, dest)
<1> DEFINE a == H!Packed(type, dest)
           k == IF type \in {3, 19} THEN 2 ELSE 1
           x == IF type \in {3, 19} THEN <<type, Len(dest) - 1>> ELSE <<type>>
<1>1. a = x \o dest
  BY DEF H!Packed
<1>2. IsList(x) /\ Len(x) = k /\ x[1] = type /\ (type \in {3, 19} => x[2] = Len(dest) - 1) /\ k \in Nat
  BY TuplesAre
<1> HIDE DEF a, x
<1>3. IsList(dest) /\ Len(dest) \in Nat
  BY ListIs DEF AddressOK
<1>4. /\ IsList(a) /\ Len(a) = k + Len(dest) /\ a[1] = type
      /\ type \in {3, 19} => a[2] = Len(dest) - 1
      /\ \A i \in 1..Len(dest) : a[k + i] = dest[i]
  <2>1. /\ IsList(a) /\ Len(a) = Len(x) + Len(dest) /\ (\A i \in 1..Len(x) : a[i] = x[i])
        /\ \A i \in 1..Len(dest) : a[Len(x) + i] = dest[i]
    <3>1. /\ IsList(x \o dest) /\ Len(x \o dest) = Len(x) + Len(dest)
          /\ \A i \in 1..Len(x) : (x \o dest)[i] = x[i]
          /\ \A i \in 1..Len(dest) : (x \o dest)[Len(x) + i] = dest[i]
      <4>1. IsList(x) /\ IsList(dest)
        BY <1>2, <1>3
      <4> QED BY <4>1, ConcatIs
    <3> QED BY <1>1, <3>1
  <2>2. 1 \in 1..Len(x) /\ (type \in {3, 19} => 2 \in 1..Len(x))
    BY <1>2
  <2> QED BY <1>2, <2>1, <2>2
<1>5. H!DestOf(a) = dest
  <2>1. H!DestOf(a) = H!After(a, k)
    BY <1>4 DEF H!DestOf
  <2>2. k <= Len(a) /\ Len(a) - k = Len(dest)
    BY <1>2, <1>3, <1>4
  <2> HIDE DEF k
  <2>3. /\ IsList(H!After(a, k)) /\ Len(H!After(a, k)) = Len(dest)
        /\ \A i \in 1..Len(dest) : H!After(a, k)[i] = a[k + i]
    <3>1. /\ IsList(H!After(a, k)) /\ Len(H!After(a, k)) = Len(a) - k
          /\ \A i \in 1..(Len(a) - k) : H!After(a, k)[i] = a[k + i]
      BY <1>2, <1>4, <2>2, AfterIs
    <3> QED BY <2>2, <3>1
  <2>4. H!After(a, k) = dest
    BY <1>3, <1>4, <2>3, ListsEqual
  <2> QED BY <2>1, <2>4
<1> QED BY <1>4, <1>5 DEF a, IsPacked

(* How long a field is that holds a packed address.                        *)
LEMMA AddressField ==
  ASSUME NEW type, NEW dest, AddressOK(type, dest), NEW s, IsList(s), NEW f, NEW k,
         \/ f = H!Address /\ type \in {1, 3, 4} /\ k = 0
         \/ f = H!AddressSum /\ k = IF type >= 16 THEN 1 ELSE 0,
         \A i \in 1..2 : i <= Len(s) /\ i <= Len(H!Packed(type, dest)) => s[i] = H!Packed(type, dest)[i]
  PROVE  H!FieldSize(f, s) = IF Len(H!Packed(type, dest)) + k <= Len(s) THEN Len(H!Packed(type, dest)) + k ELSE 0
<1> DEFINE a == H!Packed(type, dest)
           z == H!FieldSize(f, s)
<1>1. Len(s) \in Nat /\ (s = <<>> <=> Len(s) = 0) /\ Len(dest) \in Nat
  BY EmptyIs, ListIs DEF AddressOK
<1>2. /\ Len(a) = (IF type \in {3, 19} THEN 2 ELSE 1) + Len(dest) /\ a[1] = type
      /\ type \in {3, 19} => a[2] = Len(dest) - 1
  BY PackedIs DEF IsPacked
<1> HIDE DEF a
<1>3. Len(a) \in Nat /\ Len(a) >= 2
  <2>1. type \in {1, 3, 4, 17, 19, 20}
    BY DEF AddressOK
  <2>2. Len(dest) \in Nat /\ Len(dest) >= 2
    BY <1>1, <2>1 DEF AddressOK
  <2>3. Len(a) = 1 + Len(dest) \/ Len(a) = 2 + Len(dest)
    BY <1>2
  <2> QED BY <2>2, <2>3
<1>4. /\ Len(s) >= 1 => s[1] = type
      /\ Len(s) >= 2 /\ type \in {3, 19} => s[2] = Len(dest) - 1
  <2>1. \A i \in 1..2 : i <= Len(s) => s[i] = a[i]
    BY <1>3 DEF a
  <2> QED BY <1>1, <1>2, <2>1
<1>5. ASSUME s = <<>> PROVE z = 0
  BY <1>5 DEF H!FieldSize
<1>6. ASSUME s # <<>>
      PROVE  z = CASE type \in {1, 17} -> IF Len(s) < 3 + k THEN 0 ELSE 3 + k
                   [] type \in {4, 20} -> IF Len(s) < 4 + k THEN 0 ELSE 4 + k
                   [] type \in {3, 19} -> LET n == IF Len(s) < 2 \/ Len(s) < 2 + s[2] THEN 0 ELSE 2 + s[2]
                                          IN IF n = 0 \/ Len(s) < n + (1 + k) THEN 0 ELSE n + (1 + k)
                   [] OTHER -> -1
  <2>1. s[1] = type /\ f \notin {H!Byte, H!Counted, H!Until0, H!UntilBlank}
    BY <1>1, <1>4, <1>6 DEF H!Byte, H!Counted, H!Address, H!AddressSum, H!Until0, H!UntilBlank
  <2>2. k = IF f = H!AddressSum /\ s[1] >= 16 THEN 1 ELSE 0
    BY <2>1 DEF H!Address, H!AddressSum
  <2>3. f \in {H!Address, H!AddressSum}
    OBVIOUS
  <2> QED BY <1>6, <2>1, <2>2, <2>3 DEF H!FieldSize
<1>7. k \in {0, 1}
  OBVIOUS
<1>8. z = IF Len(a) + k <= Len(s) THEN Len(a) + k ELSE 0
  <2> HIDE DEF z
  <2>1. CASE s = <<>>
    BY <1>1, <1>3, <1>5, <1>7, <2>1
  <2>2. CASE s # <<>> /\ type \in {1, 17}
    <3>1. Len(a) = 3 /\ z = IF Len(s) < 3 + k THEN 0 ELSE 3 + k
      <4>1. type \notin {3, 19} /\ Len(dest) = 2
        BY <2>2 DEF AddressOK
      <4>2. Len(a) = 3
        BY <1>2, <4>1
      <4>3. z = IF Len(s) < 3 + k THEN 0 ELSE 3 + k
        BY <1>6, <2>2
      <4> QED BY <4>2, <4>3
    <3> QED BY <1>1, <1>7, <3>1
  <2>3. CASE s # <<>> /\ type \in {4, 20}
    <3>1. Len(a) = 4 /\ z = IF Len(s) < 4 + k THEN 0 ELSE 4 + k
      <4>1. type \notin {3, 19} /\ Len(dest) = 3
        BY <2>3 DEF AddressOK
      <4>2. Len(a) = 4
        BY <1>2, <4>1
      <4>3. z = IF Len(s) < 4 + k THEN 0 ELSE 4 + k
        BY <1>6, <2>3
      <4> QED BY <4>2, <4>3
    <3> QED BY <1>1, <1>7, <3>1
  <2>4. CASE s # <<>> /\ type \in {3, 19}
    BY <1>1, <1>2, <1>4, <1>6, <1>7, <2>4 DEF AddressOK
  <2> QED BY <2>1, <2>2, <2>3, <2>4 DEF AddressOK
<1> QED BY <1>8 DEF a

(* The sequences of a set are sequences.                                   *)
LEMMA SeqIsList ==
  ASSUME NEW S, NEW s \in Seq(S)
  PROVE  IsList(s)
<1>1. s = [i \in 1..Len(s) |-> s[i]] /\ Len(s) \in Nat
  OBVIOUS
<1> QED BY <1>1, ListMade

(* A field of one byte, or of one number, takes one byte.                  *)
LEMMA NumberFits ==
  ASSUME NEW f, NEW s, IsList(s), NEW k \in Nat, NEW q, q = k + 1,
         f = H!Byte \/ (f \in Nat /\ (k + 1 <= Len(s) => s[k + 1] = f))
  PROVE  Fits(f, s, k, q)
<1> SUFFICES ASSUME k <= Len(s)
             PROVE  H!FieldSize(f, H!After(s, k)) = IF k + 1 <= Len(s) THEN (k + 1) - k ELSE 0
  BY DEF Fits
<1> DEFINE t == H!After(s, k)
<1>1. /\ IsList(t) /\ Len(t) = Len(s) - k /\ Len(s) \in Nat
      /\ \A i \in 1..(Len(s) - k) : t[i] = s[k + i]
  BY AfterIs, ListIs
<1> HIDE DEF t
<1>2. /\ 1 <= Len(t) <=> k + 1 <= Len(s)
      /\ Len(t) >= 1 => t[1] = s[k + 1]
  BY <1>1
<1>3. H!FieldSize(f, t) = IF 1 <= Len(t) THEN 1 ELSE 0
  <2>1. CASE f = H!Byte
    BY <1>1, <2>1, ByteField
  <2>2. CASE f # H!Byte
    <3>1. Len(t) >= 1 => t[1] = f
      BY <1>1, <1>2, <2>2
    <3> QED BY <1>1, <2>2, <3>1, NumberField
  <2> QED BY <2>1, <2>2
<1> QED BY <1>1, <1>2, <1>3 DEF t

(* A counted field takes its count and what it counts.                     *)
LEMMA CountedFits ==
  ASSUME NEW n \in Nat, NEW s, IsList(s), NEW k \in Nat, k + 1 <= Len(s) => s[k + 1] = n, NEW q, q = k + 1 + n
  PROVE  Fits(H!Counted, s, k, q)
<1> SUFFICES ASSUME k <= Len(s)
             PROVE  H!FieldSize(H!Counted, H!After(s, k)) = IF k + 1 + n <= Len(s) THEN (k + 1 + n) - k ELSE 0
  BY DEF Fits
<1> DEFINE t == H!After(s, k)
<1>1. /\ IsList(t) /\ Len(t) = Len(s) - k /\ Len(s) \in Nat
      /\ \A i \in 1..(Len(s) - k) : t[i] = s[k + i]
  BY AfterIs, ListIs
<1> HIDE DEF t
<1>2. /\ 1 + n <= Len(t) <=> k + 1 + n <= Len(s)
      /\ Len(t) >= 1 => t[1] = n
  BY <1>1
<1>3. H!FieldSize(H!Counted, t) = IF 1 + n <= Len(t) THEN 1 + n ELSE 0
  BY <1>1, <1>2, CountedField
<1> QED BY <1>1, <1>2, <1>3 DEF t

(* A field up to a mark takes all up to the first one.                     *)
LEMMA UntilFits ==
  ASSUME NEW s, IsList(s), NEW k \in Nat, NEW m \in Nat \ {0}, NEW b, NEW f,
         (f = H!Until0 /\ b = 0) \/ (f = H!UntilBlank /\ b = H!BLANK),
         k + m <= Len(s) => s[k + m] = b, \A j \in 1..(m - 1) : k + j <= Len(s) => s[k + j] # b,
         NEW q, q = k + m
  PROVE  Fits(f, s, k, q)
<1> SUFFICES ASSUME k <= Len(s)
             PROVE  H!FieldSize(f, H!After(s, k)) = IF k + m <= Len(s) THEN (k + m) - k ELSE 0
  BY DEF Fits
<1> DEFINE t == H!After(s, k)
<1>1. /\ IsList(t) /\ Len(t) = Len(s) - k /\ Len(s) \in Nat
      /\ \A i \in 1..(Len(s) - k) : t[i] = s[k + i]
  BY AfterIs, ListIs
<1> HIDE DEF t
<1>2. /\ m <= Len(t) <=> k + m <= Len(s)
      /\ m <= Len(t) => t[m] = b
      /\ \A j \in 1..(m - 1) : j <= Len(t) => t[j] # b
  BY <1>1
<1>3. H!FieldSize(f, t) = IF m <= Len(t) THEN m ELSE 0
  BY <1>1, <1>2, UntilField
<1> QED BY <1>1, <1>2, <1>3 DEF t

(* A field of an address takes the packed address.                         *)
LEMMA AddressFits ==
  ASSUME NEW type, NEW dest, AddressOK(type, dest), NEW s, IsList(s), NEW k \in Nat, NEW f, NEW e,
         \/ f = H!Address /\ type \in {1, 3, 4} /\ e = 0
         \/ f = H!AddressSum /\ e = IF type >= 16 THEN 1 ELSE 0,
         \A i \in 1..2 : k + i <= Len(s) /\ i <= Len(H!Packed(type, dest)) => s[k + i] = H!Packed(type, dest)[i],
         NEW q, q = k + Len(H!Packed(type, dest)) + e
  PROVE  Fits(f, s, k, q)
<1> DEFINE t == H!After(s, k)
           a == H!Packed(type, dest)
<1> SUFFICES ASSUME k <= Len(s)
             PROVE  H!FieldSize(f, t) = IF k + Len(a) + e <= Len(s) THEN (k + Len(a) + e) - k ELSE 0
  BY DEF Fits
<1>1. /\ IsList(t) /\ Len(t) = Len(s) - k /\ Len(s) \in Nat
      /\ \A i \in 1..(Len(s) - k) : t[i] = s[k + i]
  BY AfterIs, ListIs
<1>2. IsList(a) /\ Len(a) \in Nat /\ e \in Nat
  BY PackedIs, ListIs DEF IsPacked
<1> HIDE DEF t
<1>3. \A i \in 1..2 : i <= Len(t) /\ i <= Len(a) => t[i] = a[i]
  BY <1>1
<1>4. H!FieldSize(f, t) = IF Len(a) + e <= Len(t) THEN Len(a) + e ELSE 0
  BY <1>1, <1>3, AddressField
<1> HIDE DEF a
<1> QED BY <1>1, <1>2, <1>4

(* One field, and as many as a request has.                                *)
LEMMA ScanOne ==
  ASSUME NEW f, NEW s, IsList(s),
         NEW m \in Nat, 0 < m,
         Fits(f, s, 0, m)
  PROVE  LET a == H!Scan(<<f>>, s)
         IN /\ m <= Len(s) => /\ a.st = "ok" /\ a.at = m
                               /\ a.got[1] = SubSeq(s, 1, m)
            /\ ~(m <= Len(s)) => a.st = "more"
<1> DEFINE at == [i \in 0..1 |-> IF i = 0 THEN 0 ELSE m]
           fs == <<f>>
           a == H!Scan(fs, s)
<1>1. at \in [0..1 -> Nat] /\ at[0] = 0 /\ at[1] = m
  OBVIOUS
<1>2. Len(fs) = 1 /\ fs[1] = f
  BY TuplesAre
<1>3. \A i \in 1..1 : (i = 1 /\ i - 1 = 0)
  OBVIOUS
<1> HIDE DEF at, fs
<1>4. LieAt(fs, 1, s, at)
  BY <1>1, <1>2, <1>3 DEF LieAt
<1>5. TakenAt(a, 1, s, at)
  BY <1>4, ScanTakes
<1> HIDE DEF a
<1>6. /\ m <= Len(s) => a.st = "ok" /\ a.at = m /\ \A i \in 1..1 : a.got[i] = SubSeq(s, at[i - 1] + 1, at[i])
      /\ ~(m <= Len(s)) => a.st = "more"
  BY <1>1, <1>5 DEF TakenAt
<1>7. 1 \in 1..1 /\ 1 - 1 = 0 /\ 0 + 1 = 1
  OBVIOUS
<1> QED BY <1>1, <1>6, <1>7 DEF fs, a

(* A scan of two fields that lie one behind the other.                     *)
LEMMA ScanTwo ==
  ASSUME NEW f1, NEW f2, NEW s, IsList(s),
         NEW m1 \in Nat, NEW m2 \in Nat, 0 < m1, m1 < m2,
         Fits(f1, s, 0, m1), Fits(f2, s, m1, m2)
  PROVE  LET a == H!Scan(<<f1, f2>>, s)
         IN /\ m2 <= Len(s) => /\ a.st = "ok" /\ a.at = m2
                               /\ a.got[1] = SubSeq(s, 1, m1)
                               /\ a.got[2] = SubSeq(s, m1 + 1, m2)
            /\ ~(m2 <= Len(s)) => a.st = "more"
<1> DEFINE at == [i \in 0..2 |-> IF i = 0 THEN 0 ELSE IF i = 1 THEN m1 ELSE m2]
           fs == <<f1, f2>>
           a == H!Scan(fs, s)
<1>1. at \in [0..2 -> Nat] /\ at[0] = 0 /\ at[1] = m1 /\ at[2] = m2
  OBVIOUS
<1>2. Len(fs) = 2 /\ fs[1] = f1 /\ fs[2] = f2
  BY TuplesAre
<1>3. \A i \in 1..2 : (i = 1 /\ i - 1 = 0) \/ (i = 2 /\ i - 1 = 1)
  OBVIOUS
<1> HIDE DEF at, fs
<1>4. LieAt(fs, 2, s, at)
  BY <1>1, <1>2, <1>3 DEF LieAt
<1>5. TakenAt(a, 2, s, at)
  BY <1>4, ScanTakes
<1> HIDE DEF a
<1>6. /\ m2 <= Len(s) => a.st = "ok" /\ a.at = m2 /\ \A i \in 1..2 : a.got[i] = SubSeq(s, at[i - 1] + 1, at[i])
      /\ ~(m2 <= Len(s)) => a.st = "more"
  BY <1>1, <1>5 DEF TakenAt
<1>7. 1 \in 1..2 /\ 1 - 1 = 0 /\ 2 \in 1..2 /\ 2 - 1 = 1 /\ 0 + 1 = 1
  OBVIOUS
<1> QED BY <1>1, <1>6, <1>7 DEF fs, a

Lie3(f1, f2, f3, s, m1, m2, m3) ==
  /\ m1 \in Nat /\ m2 \in Nat /\ m3 \in Nat /\ 0 < m1 /\ m1 < m2 /\ m2 < m3
  /\ Fits(f1, s, 0, m1) /\ Fits(f2, s, m1, m2) /\ Fits(f3, s, m2, m3)
Took3(a, s, m1, m2, m3) ==
  /\ m3 <= Len(s) => /\ a.st = "ok" /\ a.at = m3
                        /\ a.got[1] = SubSeq(s, 1, m1)
                        /\ a.got[2] = SubSeq(s, m1 + 1, m2)
                        /\ a.got[3] = SubSeq(s, m2 + 1, m3)
  /\ ~(m3 <= Len(s)) => a.st = "more"

(* A scan of three such fields.                                            *)
LEMMA ScanThree ==
  ASSUME NEW f1, NEW f2, NEW f3, NEW s, IsList(s),
         NEW m1, NEW m2, NEW m3, Lie3(f1, f2, f3, s, m1, m2, m3)
  PROVE  Took3(H!Scan(<<f1, f2, f3>>, s), s, m1, m2, m3)
<1> DEFINE at == [i \in 0..3 |-> IF i = 0 THEN 0 ELSE IF i = 1 THEN m1 ELSE IF i = 2 THEN m2 ELSE m3]
           fs == <<f1, f2, f3>>
           a == H!Scan(fs, s)
<1>1. at \in [0..3 -> Nat] /\ at[0] = 0 /\ at[1] = m1 /\ at[2] = m2 /\ at[3] = m3
  BY DEF Lie3
<1>2. Len(fs) = 3 /\ fs[1] = f1 /\ fs[2] = f2 /\ fs[3] = f3
  BY TuplesAre
<1>3. \A i \in 1..3 : (i = 1 /\ i - 1 = 0) \/ (i = 2 /\ i - 1 = 1) \/ (i = 3 /\ i - 1 = 2)
  OBVIOUS
<1> HIDE DEF at, fs
<1>4. LieAt(fs, 3, s, at)
  BY <1>1, <1>2, <1>3 DEF LieAt, Lie3
<1>5. TakenAt(a, 3, s, at)
  BY <1>4, ScanTakes
<1> HIDE DEF a
<1>6. /\ m3 <= Len(s) => a.st = "ok" /\ a.at = m3 /\ \A i \in 1..3 : a.got[i] = SubSeq(s, at[i - 1] + 1, at[i])
      /\ ~(m3 <= Len(s)) => a.st = "more"
  BY <1>1, <1>5 DEF TakenAt
<1>7. 1 \in 1..3 /\ 1 - 1 = 0 /\ 2 \in 1..3 /\ 2 - 1 = 1 /\ 3 \in 1..3 /\ 3 - 1 = 2 /\ 0 + 1 = 1
  OBVIOUS
<1> QED BY <1>1, <1>6, <1>7 DEF fs, a, Took3

Lie4(f1, f2, f3, f4, s, m1, m2, m3, m4) ==
  /\ m1 \in Nat /\ m2 \in Nat /\ m3 \in Nat /\ m4 \in Nat /\ 0 < m1 /\ m1 < m2 /\ m2 < m3 /\ m3 < m4
  /\ Fits(f1, s, 0, m1) /\ Fits(f2, s, m1, m2) /\ Fits(f3, s, m2, m3) /\ Fits(f4, s, m3, m4)
Took4(a, s, m1, m2, m3, m4) ==
  /\ m4 <= Len(s) => /\ a.st = "ok" /\ a.at = m4
                        /\ a.got[1] = SubSeq(s, 1, m1)
                        /\ a.got[2] = SubSeq(s, m1 + 1, m2)
                        /\ a.got[3] = SubSeq(s, m2 + 1, m3)
                        /\ a.got[4] = SubSeq(s, m3 + 1, m4)
  /\ ~(m4 <= Len(s)) => a.st = "more"

(* A scan of four such fields.                                             *)
LEMMA ScanFour ==
  ASSUME NEW f1, NEW f2, NEW f3, NEW f4, NEW s, IsList(s),
         NEW m1, NEW m2, NEW m3, NEW m4, Lie4(f1, f2, f3, f4, s, m1, m2, m3, m4)
  PROVE  Took4(H!Scan(<<f1, f2, f3, f4>>, s), s, m1, m2, m3, m4)
<1> DEFINE at == [i \in 0..4 |-> IF i = 0 THEN 0 ELSE IF i = 1 THEN m1 ELSE IF i = 2 THEN m2 ELSE IF i = 3 THEN m3 ELSE m4]
           fs == <<f1, f2, f3, f4>>
           a == H!Scan(fs, s)
<1>1. at \in [0..4 -> Nat] /\ at[0] = 0 /\ at[1] = m1 /\ at[2] = m2 /\ at[3] = m3 /\ at[4] = m4
  BY DEF Lie4
<1>2. Len(fs) = 4 /\ fs[1] = f1 /\ fs[2] = f2 /\ fs[3] = f3 /\ fs[4] = f4
  BY TuplesAre
<1>3. \A i \in 1..4 : (i = 1 /\ i - 1 = 0) \/ (i = 2 /\ i - 1 = 1) \/ (i = 3 /\ i - 1 = 2) \/ (i = 4 /\ i - 1 = 3)
  OBVIOUS
<1> HIDE DEF at, fs
<1>4. LieAt(fs, 4, s, at)
  BY <1>1, <1>2, <1>3 DEF LieAt, Lie4
<1>5. TakenAt(a, 4, s, at)
  BY <1>4, ScanTakes
<1> HIDE DEF a
<1>6. /\ m4 <= Len(s) => a.st = "ok" /\ a.at = m4 /\ \A i \in 1..4 : a.got[i] = SubSeq(s, at[i - 1] + 1, at[i])
      /\ ~(m4 <= Len(s)) => a.st = "more"
  BY <1>1, <1>5 DEF TakenAt
<1>7. 1 \in 1..4 /\ 1 - 1 = 0 /\ 2 \in 1..4 /\ 2 - 1 = 1 /\ 3 \in 1..4 /\ 3 - 1 = 2 /\ 4 \in 1..4 /\ 4 - 1 = 3 /\ 0 + 1 = 1
  OBVIOUS
<1> QED BY <1>1, <1>6, <1>7 DEF fs, a, Took4

(* x lies in s from k to m, and is what is taken there.                    *)
LiesIn(x, s, k, m) ==
  /\ IsList(s) /\ IsList(x) /\ k \in Nat /\ m \in Nat /\ k <= m /\ m <= Len(s) /\ Len(x) = m - k
  /\ \A j \in 1..Len(x) : s[k + j] = x[j]

(* The piece of s that x lies in is x.                                     *)
LEMMA PieceIs ==
  ASSUME NEW s, NEW k, NEW m, NEW x, LiesIn(x, s, k, m), NEW q, q = k + 1
  PROVE  SubSeq(s, q, m) = x
<1>1. /\ IsList(SubSeq(s, k + 1, m)) /\ Len(SubSeq(s, k + 1, m)) = m - k
      /\ \A i \in 1..(m - k) : SubSeq(s, k + 1, m)[i] = s[k + i]
  BY PartIs DEF LiesIn
<1> DEFINE y == SubSeq(s, k + 1, m)
<1>2. IsList(y) /\ IsList(x) /\ Len(y) = Len(x) /\ \A i \in 1..Len(y) : y[i] = x[i]
  BY <1>1 DEF LiesIn
<1> HIDE DEF y
<1>3. y = x
  BY <1>2, ListsEqual
<1> QED BY <1>3 DEF y

-----------------------------------------------------------------------------
(* What a client writes and a server answers, and a server that reads it.  *)

(* t is a, then b; and a, then b, then c.                                  *)
Is2(t, a, b) ==
  /\ IsList(t) /\ Len(a) \in Nat /\ Len(b) \in Nat /\ Len(t) = Len(a) + Len(b)
  /\ \A i \in 1..Len(a) : t[i] = a[i]
  /\ \A i \in 1..Len(b) : t[Len(a) + i] = b[i]
Is3(t, a, b, c) ==
  /\ IsList(t) /\ Len(a) \in Nat /\ Len(b) \in Nat /\ Len(c) \in Nat /\ Len(t) = Len(a) + Len(b) + Len(c)
  /\ \A i \in 1..Len(a) : t[i] = a[i]
  /\ \A i \in 1..Len(b) : t[Len(a) + i] = b[i]
  /\ \A i \in 1..Len(c) : t[Len(a) + Len(b) + i] = c[i]

(* A sequence put together of two.                                         *)
LEMMA Both ==
  ASSUME NEW a, NEW b, IsList(a), IsList(b)
  PROVE  Is2(a \o b, a, b)
<1>1. Len(a) \in Nat /\ Len(b) \in Nat
  BY ListIs
<1>2. /\ IsList(a \o b) /\ Len(a \o b) = Len(a) + Len(b)
      /\ \A i \in 1..Len(a) : (a \o b)[i] = a[i]
      /\ \A i \in 1..Len(b) : (a \o b)[Len(a) + i] = b[i]
  BY ConcatIs
<1> QED BY <1>1, <1>2 DEF Is2

(* A sequence put together of three.                                       *)
LEMMA Three ==
  ASSUME NEW a, NEW b, NEW c, IsList(a), IsList(b), IsList(c)
  PROVE  Is3((a \o b) \o c, a, b, c)
<1> DEFINE x == a \o b
           t == x \o c
<1>1. Is2(x, a, b)
  BY Both
<1>2. Is2(t, x, c)
  <2>1. IsList(x)
    BY <1>1 DEF Is2
  <2> HIDE DEF x
  <2> QED BY <2>1, Both
<1> HIDE DEF x, t
<1> DEFINE n == Len(a)
           m == Len(b)
           r == Len(c)
<1>3. /\ n \in Nat /\ m \in Nat /\ r \in Nat /\ Len(x) = n + m /\ IsList(t) /\ Len(t) = n + m + r
      /\ \A i \in 1..n : x[i] = a[i]
      /\ \A i \in 1..m : x[n + i] = b[i]
      /\ \A i \in 1..(n + m) : t[i] = x[i]
      /\ \A i \in 1..r : t[n + m + i] = c[i]
  BY <1>1, <1>2 DEF Is2
<1> HIDE DEF n, m, r
<1>4. \A i \in 1..n : t[i] = a[i]
  <2>1. \A i \in 1..n : i \in 1..(n + m)
    BY <1>3
  <2> QED BY <1>3, <2>1
<1>5. \A i \in 1..m : t[n + i] = b[i]
  <2>1. \A i \in 1..m : n + i \in 1..(n + m)
    BY <1>3
  <2> QED BY <1>3, <2>1
<1>6. Is3(t, a, b, c)
  BY <1>3, <1>4, <1>5 DEF Is3, n, m, r
<1> QED BY <1>6 DEF t, x

(* As far as s goes, it is t behind the first k.                           *)
Agrees(s, t, k) == IsList(s) /\ \A j \in 1..Len(s) : k + j \in 1..Len(t) => s[j] = t[k + j]

(* The place i of t is b in s, and x lies in t behind i.                   *)
Place(s, t, k, i, b) == Agrees(s, t, k) /\ IsList(t) /\ k \in Nat /\ i \in Nat /\ k <= i /\ b = i - k
HasAt(t, i, x) == IsList(x) /\ Len(x) \in Nat /\ i + Len(x) <= Len(t) /\ \A j \in 1..Len(x) : t[i + j] = x[j]

(* A place in a text that the buffer agrees with.                          *)
LEMMA PlaceIs ==
  ASSUME NEW s, NEW t, NEW k, NEW i, NEW b, Place(s, t, k, i, b)
  PROVE  /\ IsList(s) /\ Len(s) \in Nat /\ Len(t) \in Nat /\ b \in Nat /\ i \in Nat
         /\ \A j \in 1..Len(s) : b + j <= Len(s) /\ i + j <= Len(t) => s[b + j] = t[i + j]
<1>1. IsList(s) /\ Len(s) \in Nat /\ Len(t) \in Nat /\ b \in Nat /\ i \in Nat /\ k \in Nat /\ b = i - k
  BY ListIs DEF Agrees, Place
<1>2. ASSUME NEW j \in 1..Len(s), b + j <= Len(s), i + j <= Len(t) PROVE s[b + j] = t[i + j]
  <2>1. b + j \in 1..Len(s) /\ k + (b + j) = i + j /\ i + j \in 1..Len(t)
    BY <1>1, <1>2
  <2> QED BY <2>1 DEF Agrees, Place
<1> QED BY <1>1, <1>2

(* A field that lies in t, taken out of s.                                 *)
LEMMA AgreesPiece ==
  ASSUME NEW s, NEW t, NEW k, NEW i, NEW b, Place(s, t, k, i, b), NEW x, HasAt(t, i, x),
         NEW e, e = b + Len(x), e <= Len(s), NEW q, q = b + 1
  PROVE  SubSeq(s, q, e) = x
<1>1. /\ IsList(s) /\ Len(s) \in Nat /\ Len(t) \in Nat /\ b \in Nat /\ i \in Nat
      /\ \A j \in 1..Len(s) : b + j <= Len(s) /\ i + j <= Len(t) => s[b + j] = t[i + j]
  BY PlaceIs
<1> DEFINE n == Len(x)
<1>2. IsList(x) /\ n \in Nat /\ i + n <= Len(t) /\ \A j \in 1..n : t[i + j] = x[j]
  BY DEF HasAt
<1> HIDE DEF n
<1>3. b \in Nat /\ e \in Nat /\ b <= e /\ n = e - b /\ e <= Len(s)
  BY <1>1, <1>2 DEF n
<1>4. \A j \in 1..n : s[b + j] = x[j]
  <2>1. \A j \in 1..n : j \in 1..Len(s) /\ b + j <= Len(s) /\ i + j <= Len(t)
    BY <1>1, <1>2, <1>3
  <2> QED BY <1>1, <1>2, <2>1
<1>5. LiesIn(x, s, b, e)
  BY <1>1, <1>2, <1>3, <1>4 DEF LiesIn, n
<1> QED BY <1>5, PieceIs

(* A head: three fields, a target, and the blank line.                     *)
HeadOf(x, y, z, d) == <<x, y, z>> \o d \o <<H!BLANK>>
IsHead(t, x, y, z, d) ==
  /\ IsList(t) /\ IsList(d) /\ Len(d) \in Nat /\ Len(t) = 4 + Len(d)
  /\ t[1] = x /\ t[2] = y /\ t[3] = z /\ t[4 + Len(d)] = H!BLANK
  /\ \A i \in 1..Len(d) : t[3 + i] = d[i]
  /\ H!TargetOf(t) = d

(* What stands where in a head.                                            *)
LEMMA HeadIs ==
  ASSUME NEW x, NEW y, NEW z, NEW d, IsList(d)
  PROVE  IsHead(HeadOf(x, y, z, d), x, y, z, d)
<1> DEFINE a == <<x, y, z>>
           c == <<H!BLANK>>
           t == (a \o d) \o c
<1>1. IsList(a) /\ IsList(c) /\ Len(a) = 3 /\ a[1] = x /\ a[2] = y /\ a[3] = z /\ Len(c) = 1 /\ c[1] = H!BLANK
  BY TuplesAre
<1> HIDE DEF a, c
<1>2. Is3(t, a, d, c)
  BY <1>1, Three
<1> HIDE DEF t
<1>3. /\ IsList(t) /\ Len(d) \in Nat /\ Len(t) = 4 + Len(d)
      /\ \A i \in 1..3 : t[i] = a[i]
      /\ \A i \in 1..Len(d) : t[3 + i] = d[i]
      /\ \A i \in 1..1 : t[3 + Len(d) + i] = c[i]
  BY <1>1, <1>2 DEF Is3
<1>4. t[1] = x /\ t[2] = y /\ t[3] = z
  <2>1. 1 \in 1..3 /\ 2 \in 1..3 /\ 3 \in 1..3
    OBVIOUS
  <2> QED BY <1>1, <1>3, <2>1
<1>5. t[4 + Len(d)] = H!BLANK
  <2>1. 1 \in 1..1 /\ 3 + Len(d) + 1 = 4 + Len(d)
    BY <1>3
  <2> QED BY <1>1, <1>3, <2>1
<1>6. H!TargetOf(t) = d
  <2>1. H!TargetOf(t) = SubSeq(t, 3 + 1, 3 + Len(d))
    <3>1. Len(t) - 1 = 3 + Len(d) /\ 3 + 1 = 4
      BY <1>3
    <3> QED BY <3>1 DEF H!TargetOf
  <2> DEFINE e == 3 + Len(d)
  <2>2. e \in Nat /\ 3 <= e /\ e <= Len(t) /\ Len(d) = e - 3 /\ 3 \in Nat
    BY <1>3
  <2> HIDE DEF e
  <2>3. LiesIn(d, t, 3, e)
    BY <1>3, <2>2 DEF LiesIn
  <2>4. SubSeq(t, 3 + 1, e) = d
    BY <2>3, PieceIs
  <2> QED BY <2>1, <2>4 DEF e
<1>7. IsHead(t, x, y, z, d)
  BY <1>3, <1>4, <1>5, <1>6 DEF IsHead
<1> QED BY <1>7 DEF HeadOf, t, a, c

(* A head is read to its blank line and no further.                        *)
LEMMA HeadRead ==
  ASSUME NEW t, NEW x, NEW y, NEW z, NEW d, IsHead(t, x, y, z, d), H!BLANK \notin {x, y, z},
         \A i \in 1..Len(d) : d[i] # H!BLANK, NEW s, Agrees(s, t, 0)
  PROVE  LET a == H!Scan(<<H!UntilBlank>>, s)
         IN /\ Len(t) <= Len(s) => a.st = "ok" /\ a.at = Len(t) /\ a.got[1] = t
            /\ ~(Len(t) <= Len(s)) => a.st = "more"
<1> DEFINE m == Len(t)
           a == H!Scan(<<H!UntilBlank>>, s)
<1>1. /\ IsList(t) /\ IsList(s) /\ Len(s) \in Nat /\ Len(d) \in Nat /\ m = 4 + Len(d) /\ m \in Nat \ {0}
      /\ \A j \in 1..Len(s) : j <= m => s[j] = t[j]
  <2>1. IsList(t) /\ IsList(s) /\ Len(s) \in Nat /\ Len(d) \in Nat /\ m = 4 + Len(d)
    BY ListIs DEF IsHead, Agrees
  <2>2. ASSUME NEW j \in 1..Len(s), j <= m PROVE s[j] = t[j]
    <3>1. 0 + j = j /\ j \in 1..m
      BY <2>1, <2>2
    <3> QED BY <3>1 DEF Agrees
  <2> QED BY <2>1, <2>2
<1>2. t[m] = H!BLANK /\ \A j \in 1..(m - 1) : t[j] # H!BLANK
  <2>1. t[m] = H!BLANK
    BY <1>1 DEF IsHead
  <2>2. ASSUME NEW j \in 1..(m - 1) PROVE t[j] # H!BLANK
    <3>1. CASE j <= 3
      <4>1. j = 1 \/ j = 2 \/ j = 3
        BY <3>1
      <4> QED BY <4>1 DEF IsHead
    <3>2. CASE ~(j <= 3)
      <4>1. j - 3 \in 1..Len(d) /\ 3 + (j - 3) = j
        BY <1>1, <3>2
      <4>2. t[3 + (j - 3)] = d[j - 3]
        BY <4>1 DEF IsHead
      <4> QED BY <4>1, <4>2
    <3> QED BY <3>1, <3>2
  <2> QED BY <2>1, <2>2
<1> HIDE DEF m
<1>3. Fits(H!UntilBlank, s, 0, m)
  <2>1. /\ 0 + m <= Len(s) => s[0 + m] = H!BLANK
        /\ \A j \in 1..(m - 1) : 0 + j <= Len(s) => s[0 + j] # H!BLANK
        /\ m = 0 + m /\ 0 \in Nat
    <3>1. 0 + m = m /\ \A j \in 1..(m - 1) : 0 + j = j /\ j <= m
      BY <1>1
    <3>2. m <= Len(s) => s[m] = H!BLANK
      BY <1>1, <1>2
    <3>3. \A j \in 1..(m - 1) : j <= Len(s) => s[j] # H!BLANK
      <4>1. \A j \in 1..(m - 1) : j <= Len(s) => j \in 1..Len(s) /\ j <= m
        BY <1>1
      <4> QED BY <1>1, <1>2, <4>1
    <3> QED BY <3>1, <3>2, <3>3
  <2> QED BY <1>1, <2>1, UntilFits
<1>4. /\ m <= Len(s) => a.st = "ok" /\ a.at = m /\ a.got[1] = SubSeq(s, 1, m)
      /\ ~(m <= Len(s)) => a.st = "more"
  <2>1. 0 < m /\ m \in Nat
    BY <1>1
  <2> QED BY <1>1, <1>3, <2>1, ScanOne
<1>5. ASSUME m <= Len(s) PROVE SubSeq(s, 1, m) = t
  <2>1. 0 \in Nat /\ 0 <= m /\ Len(t) = m - 0 /\ 0 + 1 = 1 /\ \A j \in 1..Len(t) : 0 + j = j /\ j \in 1..Len(s) /\ j <= m
    BY <1>1, <1>5 DEF m
  <2>2. \A j \in 1..Len(t) : s[0 + j] = t[j]
    BY <1>1, <2>1
  <2>3. LiesIn(t, s, 0, m)
    BY <1>1, <1>5, <2>1, <2>2 DEF LiesIn
  <2> QED BY <2>1, <2>3, PieceIs
<1> QED BY <1>4, <1>5 DEF m, a

(* All that the client of a hop writes, and the whole answer of a server   *)
(* that lets it in.                                                        *)
Says(h, round) == H!Connect(h, round).says
Hears(h, round) == H!Connect(h, round).hears
Text(h) ==
  IF h.proto = "socks5"
  THEN (Says(h, "methods") \o (IF h.auth = H!None THEN <<>> ELSE Says(h, "auth"))) \o Says(h, "request")
  ELSE Says(h, "request")
Reply(h) ==
  CASE h.proto = "socks5" -> ((IF h.users = {} THEN <<5, 0>> ELSE <<5, 2, 1, 0>>) \o <<5, 0, 0>>) \o H!Packed(h.atyp, h.dest)
    [] h.proto = "socks4" -> <<0, 90, H!Last(h.dest), Head(H!Resolved(h.dest))>>
    [] h.proto = "http" -> <<200, H!BLANK>>
    [] h.proto \in {"ws", "cfp"} -> <<101, H!BLANK>>
    [] OTHER -> <<>>

(* What the server has read and answered when a phase begins, and what it  *)
(* has read when the phase ends.                                           *)
Eaten(h, p, phase) ==
  IF p # "socks5" THEN H!Taken(p, h)
  ELSE CASE phase = "methods" -> 1 [] phase = "auth" -> 3 [] OTHER -> IF h.users = {} THEN 3 ELSE 8
Told(h, p, phase) ==
  IF p # "socks5" THEN 0
  ELSE CASE phase = "methods" -> 0 [] phase = "auth" -> 2 [] OTHER -> IF h.users = {} THEN 2 ELSE 4
Want(h, phase) ==
  IF h.proto # "socks5" THEN Len(Text(h))
  ELSE CASE phase = "methods" -> 3 [] phase = "auth" -> 8 [] OTHER -> Len(Text(h))

(* A server that reads a phase for u has let in whom it knows so far.      *)
Ready(h, phase, u) ==
  /\ h.proto # "socks5" => phase = "request"
  /\ h.proto = "socks5" =>
       /\ phase \in {"methods", "auth", "request"}
       /\ phase = "auth" => h.users # {} /\ h.auth # H!None
       /\ phase = "request" /\ h.users # {} => h.auth # H!None /\ u = h.auth
  /\ h.proto \in {"trojan", "ss", "ssr"} =>
       /\ h.users = {} => h.auth = H!None
       /\ h.users # {} => h.auth \in h.users /\ u = h.auth

IsPart(x, t, from, to) ==
  IsList(x) /\ Len(x) = to - from /\ \A j \in 1..Len(x) : x[j] = t[from + j]

(* What a server makes of a phase that its own client wrote.               *)
Refused(h, o) ==
  /\ o.st = "closed" /\ ~H!Compatible(h)
  /\ o.reply = <<>> \/ (h.proto \in {"http", "ws", "cfp"} /\ o.reply = H!Unauthorized)
GoneOn(h, phase, o) ==
  /\ o.st = "read" /\ h.proto = "socks5" /\ Ready(h, o.phase, o.user)
  /\ Eaten(h, "socks5", o.phase) = Want(h, phase)
  /\ IsPart(o.reply, Reply(h), Told(h, "socks5", phase), Told(h, "socks5", o.phase))
LetIn(h, phase, o) ==
  /\ o.st = "dial" /\ Want(h, phase) = Len(Text(h))
  /\ o.dest = (IF h.proto = "socks4" THEN H!Resolved(h.dest) ELSE h.dest)
  /\ h.users # {} /\ h.proto # "tunnel" => o.user = h.auth
  /\ IsPart(o.reply, Reply(h), Told(h, h.proto, phase), Len(Reply(h)) - Len(H!Connected(h.proto)))
Understood(h, phase, u, s) ==
  LET a == H!Scan(H!Reads(h.proto, phase), s)
      n == Want(h, phase) - Eaten(h, h.proto, phase)
      o == H!Accepts(h.proto, h, phase, u, a.got)
  IN /\ n <= Len(s) => a.st = "ok" /\ a.at = n /\ (Refused(h, o) \/ GoneOn(h, phase, o) \/ LetIn(h, phase, o))
     /\ ~(n <= Len(s)) => a.st = "more"

(* A hop that a configuration may have.                                    *)
HopFine(h) ==
  /\ h.proto \in H!Protocol /\ h.auth \in {H!None} \cup 21..149 /\ h.users \subseteq 21..149
  /\ h.ota \in BOOLEAN /\ h.needota \in BOOLEAN
  /\ h.dest \in Seq(Nat) /\ IsList(h.dest) /\ Len(h.dest) \in Nat /\ Len(h.dest) >= 2
  /\ h.atyp \in {1, 3, 4} /\ AddressOK(h.atyp, h.dest) /\ AddressOK(16 + h.atyp, h.dest)
  /\ h.proto \in {"http", "h2", "cfp"} => \A i \in 1..Len(h.dest) : h.dest[i] # H!BLANK

(* What the assumption about hops says of one, in the words of the proofs. *)
LEMMA HopIsFine ==
  ASSUME NEW h, H!HopOK(h)
  PROVE  HopFine(h)
<1>1. /\ h.proto \in H!Protocol /\ h.auth \in {H!None} \cup 21..149 /\ h.users \subseteq 21..149
      /\ h.ota \in BOOLEAN /\ h.needota \in BOOLEAN /\ H!DestOK(h)
  BY DEF H!HopOK, H!Name
<1>2. h.dest \in Seq(Nat) /\ h.atyp \in {1, 3, 4}
  BY <1>1 DEF H!DestOK
<1>3. IsList(h.dest) /\ Len(h.dest) \in Nat
  BY <1>2, SeqIsList
<1>4. (h.atyp = 1 => Len(h.dest) = 2) /\ (h.atyp = 4 => Len(h.dest) = 3) /\ (h.atyp = 3 => Len(h.dest) >= 2)
  BY <1>1 DEF H!DestOK
<1>5. AddressOK(h.atyp, h.dest) /\ AddressOK(16 + h.atyp, h.dest) /\ Len(h.dest) >= 2
  <2>1. CASE h.atyp = 1
    <3>1. 16 + h.atyp = 17
      BY <2>1
    <3> QED BY <1>3, <1>4, <2>1, <3>1 DEF AddressOK
  <2>2. CASE h.atyp = 3
    <3>1. 16 + h.atyp = 19
      BY <2>2
    <3> QED BY <1>3, <1>4, <2>2, <3>1 DEF AddressOK
  <2>3. CASE h.atyp = 4
    <3>1. 16 + h.atyp = 20
      BY <2>3
    <3> QED BY <1>3, <1>4, <2>3, <3>1 DEF AddressOK
  <2> QED BY <1>2, <2>1, <2>2, <2>3
<1>6. ASSUME h.proto \in {"http", "h2", "cfp"}, NEW i \in 1..Len(h.dest) PROVE h.dest[i] # H!BLANK
  <2>1. H!BLANK \notin H!ToSet(h.dest)
    BY <1>1, <1>6 DEF H!DestOK
  <2>2. i \in DOMAIN h.dest
    BY <1>3, ListIs
  <2> QED BY <2>1, <2>2 DEF H!ToSet
<1> QED BY <1>1, <1>2, <1>3, <1>5, <1>6 DEF HopFine

(* The empty sequence is one, of length 0.                                 *)
LEMMA NothingIs ==
  IsList(<<>>) /\ Len(<<>>) = 0
BY DEF IsList

(* Nothing is the part between a place and itself.                         *)
LEMMA NothingIsPart ==
  ASSUME NEW t, NEW k \in Int
  PROVE  IsPart(<<>>, t, k, k)
<1>1. k - k = 0 /\ \A j \in 1..0 : FALSE
  OBVIOUS
<1> QED BY <1>1, NothingIs DEF IsPart

(* The servers that read a head.                                           *)
HeadRest(h) == IF h.proto = "ws" THEN <<>> ELSE h.dest
Verb(h) == IF h.proto \in {"http", "h2"} THEN <<67, 79>> ELSE <<71, 69>>

(* What the client of a protocol with a head writes.                       *)
LEMMA HeadText ==
  ASSUME NEW h, HopFine(h), h.proto \in {"http", "h2", "ws", "cfp"}
  PROVE  /\ IsHead(Text(h), Verb(h)[1], Verb(h)[2], h.auth, HeadRest(h))
         /\ H!BLANK \notin {Verb(h)[1], Verb(h)[2], h.auth}
         /\ \A i \in 1..Len(HeadRest(h)) : HeadRest(h)[i] # H!BLANK
<1>1. IsList(HeadRest(h)) /\ \A i \in 1..Len(HeadRest(h)) : HeadRest(h)[i] # H!BLANK
  <2>1. CASE h.proto = "ws"
    <3>1. HeadRest(h) = <<>> /\ \A i \in 1..0 : FALSE
      BY <2>1 DEF HeadRest
    <3> QED BY <3>1, NothingIs
  <2>2. CASE h.proto # "ws"
    BY <2>2 DEF HeadRest, HopFine
  <2> QED BY <2>1, <2>2
<1>2. Text(h) = HeadOf(Verb(h)[1], Verb(h)[2], h.auth, HeadRest(h))
  <2>1. CASE h.proto = "http"
    BY <2>1 DEF Text, Says, H!Connect, H!HttpConnect, H!Exchange, HeadOf, Verb, HeadRest
  <2>2. CASE h.proto = "h2"
    BY <2>2 DEF Text, Says, H!Connect, H!H2Connect, H!Exchange, HeadOf, Verb, HeadRest
  <2>3. CASE h.proto = "cfp"
    BY <2>3 DEF Text, Says, H!Connect, H!CfpConnect, H!Exchange, HeadOf, Verb, HeadRest
  <2>4. CASE h.proto = "ws"
    <3> DEFINE x == HeadOf(71, 69, h.auth, <<>>)
               t == <<71, 69, h.auth, H!BLANK>>
    <3>1. Text(h) = t /\ HeadRest(h) = <<>> /\ Verb(h)[1] = 71 /\ Verb(h)[2] = 69
      BY <2>4 DEF Text, Says, H!Connect, H!WsConnect, H!Exchange, Verb, HeadRest
    <3>2. IsHead(x, 71, 69, h.auth, <<>>)
      BY TuplesAre, HeadIs
    <3>3. IsList(t) /\ Len(t) = 4 /\ t[1] = 71 /\ t[2] = 69 /\ t[3] = h.auth /\ t[4] = H!BLANK
      BY TuplesAre
    <3> HIDE DEF x, t
    <3>4. IsList(x) /\ Len(x) = 4 /\ x[1] = 71 /\ x[2] = 69 /\ x[3] = h.auth /\ x[4] = H!BLANK
      BY <3>2, TuplesAre DEF IsHead
    <3>5. \A i \in 1..Len(x) : x[i] = t[i]
      <4>1. \A i \in 1..4 : i = 1 \/ i = 2 \/ i = 3 \/ i = 4
        OBVIOUS
      <4> QED BY <3>3, <3>4, <4>1
    <3>6. x = t
      BY <3>3, <3>4, <3>5, ListsEqual
    <3> QED BY <3>1, <3>6 DEF x
  <2> QED BY <2>1, <2>2, <2>3, <2>4
<1>3. H!BLANK \notin {Verb(h)[1], Verb(h)[2], h.auth}
  <2>1. H!BLANK = 10 /\ h.auth # 10
    <3>1. h.auth = 0 \/ h.auth \in 21..149
      BY DEF HopFine, H!None
    <3> QED BY <3>1 DEF H!BLANK
  <2>2. (Verb(h)[1] = 67 /\ Verb(h)[2] = 79) \/ (Verb(h)[1] = 71 /\ Verb(h)[2] = 69)
    BY DEF Verb
  <2> QED BY <2>1, <2>2
<1> QED BY <1>1, <1>2, <1>3, HeadIs

(* A server of HTTP, HTTP/2, WebSocket or CFP reads its own client right.  *)
LEMMA HeadServer ==
  ASSUME NEW h, HopFine(h), h.proto \in {"http", "h2", "ws", "cfp"}, NEW phase, NEW u, Ready(h, phase, u),
         NEW s, Agrees(s, Text(h), Eaten(h, h.proto, phase))
  PROVE  Understood(h, phase, u, s)
<1> DEFINE t == Text(h)
           a == H!Scan(<<H!UntilBlank>>, s)
           o == H!Accepts(h.proto, h, phase, u, a.got)
<1>1. H!Reads(h.proto, phase) = <<H!UntilBlank>>
  BY DEF H!Reads, H!HeadRequest
<1>2. Eaten(h, h.proto, phase) = 0 /\ Want(h, phase) = Len(t) /\ Told(h, h.proto, phase) = 0
  BY DEF Eaten, Want, Told, H!Taken, H!MarkSize
<1>3. IsHead(t, Verb(h)[1], Verb(h)[2], h.auth, HeadRest(h))
  BY HeadText
<1>4. /\ Len(t) <= Len(s) => a.st = "ok" /\ a.at = Len(t) /\ a.got[1] = t
      /\ ~(Len(t) <= Len(s)) => a.st = "more"
  <2>1. Agrees(s, t, 0)
    BY <1>2
  <2> HIDE DEF t
  <2>2. H!BLANK \notin {Verb(h)[1], Verb(h)[2], h.auth} /\ \A i \in 1..Len(HeadRest(h)) : HeadRest(h)[i] # H!BLANK
    BY HeadText
  <2> QED BY <1>3, <2>1, <2>2, HeadRead
<1>5. Len(t) \in Nat /\ t[1] = Verb(h)[1] /\ t[3] = h.auth /\ H!TargetOf(t) = HeadRest(h)
  BY <1>3 DEF IsHead
<1>6. ASSUME a.got[1] = t PROVE Refused(h, o) \/ LetIn(h, phase, o)
  <2> HIDE DEF a, t
  <2>1. CASE H!Knows(h, h.auth)
    <3>1. h.users # {} => o.user = h.auth
      BY <1>5, <1>6, <2>1 DEF H!Accepts, H!HttpAccept, H!H2Accept, H!WsAccept, H!CfpAccept, H!Admit, Verb
    <3>2. o.st = "dial" /\ o.dest = h.dest
      BY <1>5, <1>6, <2>1 DEF H!Accepts, H!HttpAccept, H!H2Accept, H!WsAccept, H!CfpAccept, H!Admit, Verb, HeadRest
    <3>3. IsPart(o.reply, Reply(h), 0, Len(Reply(h)) - Len(H!Connected(h.proto)))
      <4>1. CASE h.proto \in {"http", "h2"}
        <5>1. o.reply = <<>>
          BY <1>5, <1>6, <2>1, <4>1 DEF H!Accepts, H!HttpAccept, H!H2Accept, H!Admit, Verb
        <5>2. Reply(h) = H!Connected(h.proto)
          BY <4>1 DEF Reply, H!Connected
        <5>3. Len(Reply(h)) - Len(H!Connected(h.proto)) = 0
          <6>1. Reply(h) = <<200, H!BLANK>> \/ Reply(h) = <<>>
            BY <4>1 DEF Reply
          <6>2. Len(Reply(h)) \in Nat
            BY <6>1, TuplesAre
          <6> QED BY <5>2, <6>2
        <5> QED BY <5>1, <5>3, NothingIsPart
      <4>2. CASE h.proto \in {"ws", "cfp"}
        <5>1. o.reply = <<101, H!BLANK>>
          BY <1>5, <1>6, <2>1, <4>2 DEF H!Accepts, H!WsAccept, H!CfpAccept, H!Admit
        <5>2. Reply(h) = <<101, H!BLANK>> /\ H!Connected(h.proto) = <<>>
          BY <4>2 DEF Reply, H!Connected
        <5> DEFINE r == <<101, H!BLANK>>
        <5>3. IsList(r) /\ Len(r) = 2 /\ Len(<<>>) = 0
          BY TuplesAre
        <5> HIDE DEF r
        <5>4. IsPart(r, r, 0, Len(r) - 0)
          BY <5>3 DEF IsPart
        <5> QED BY <5>1, <5>2, <5>3, <5>4 DEF r
      <4> QED BY <4>1, <4>2
    <3> QED BY <1>2, <3>1, <3>2, <3>3 DEF LetIn, t
  <2>2. CASE ~H!Knows(h, h.auth)
    <3>1. h.users # {} /\ h.auth \notin h.users
      BY <2>2 DEF H!Knows
    <3>2. ~H!Compatible(h)
      BY <3>1 DEF H!Compatible
    <3>3. o.st = "closed" /\ (o.reply = <<>> \/ (h.proto \in {"http", "ws", "cfp"} /\ o.reply = H!Unauthorized))
      BY <1>5, <1>6, <2>2 DEF H!Accepts, H!HttpAccept, H!H2Accept, H!WsAccept, H!CfpAccept, H!Refuse, Verb
    <3> QED BY <3>2, <3>3 DEF Refused
  <2> QED BY <2>1, <2>2
<1>7. Want(h, phase) - Eaten(h, h.proto, phase) = Len(t)
  BY <1>2, <1>5
<1> HIDE DEF a, t, o
<1> QED BY <1>1, <1>4, <1>6, <1>7 DEF Understood, a, o

(* Fields of t behind i, in an s that agrees with t behind k.              *)
LEMMA NumberLies ==
  ASSUME NEW s, NEW t, NEW k, NEW i, NEW b, Place(s, t, k, i, b), i < Len(t), NEW f,
         f = H!Byte \/ (f \in Nat /\ t[i + 1] = f), NEW q, q = b + 1
  PROVE  Fits(f, s, b, q)
<1>1. /\ IsList(s) /\ Len(s) \in Nat /\ Len(t) \in Nat /\ b \in Nat /\ i \in Nat
      /\ \A j \in 1..Len(s) : b + j <= Len(s) /\ i + j <= Len(t) => s[b + j] = t[i + j]
  BY PlaceIs
<1>2. f = H!Byte \/ (f \in Nat /\ (b + 1 <= Len(s) => s[b + 1] = f))
  BY <1>1
<1> QED BY <1>1, <1>2, NumberFits

(* A counted field of the text is a field of the buffer.                   *)
LEMMA CountedLies ==
  ASSUME NEW s, NEW t, NEW k, NEW i, NEW b, Place(s, t, k, i, b), i < Len(t), NEW n \in Nat,
         t[i + 1] = n, NEW q, q = b + 1 + n
  PROVE  Fits(H!Counted, s, b, q)
<1>1. /\ IsList(s) /\ Len(s) \in Nat /\ Len(t) \in Nat /\ b \in Nat /\ i \in Nat
      /\ \A j \in 1..Len(s) : b + j <= Len(s) /\ i + j <= Len(t) => s[b + j] = t[i + j]
  BY PlaceIs
<1>2. b + 1 <= Len(s) => s[b + 1] = n
  BY <1>1
<1> QED BY <1>1, <1>2, CountedFits

(* So is one up to a mark,                                                 *)
LEMMA UntilLies ==
  ASSUME NEW s, NEW t, NEW k, NEW i, NEW b, Place(s, t, k, i, b), NEW m \in Nat \ {0}, i + m <= Len(t),
         NEW c, NEW f, (f = H!Until0 /\ c = 0) \/ (f = H!UntilBlank /\ c = H!BLANK),
         t[i + m] = c, \A j \in 1..(m - 1) : t[i + j] # c, NEW q, q = b + m
  PROVE  Fits(f, s, b, q)
<1>1. /\ IsList(s) /\ Len(s) \in Nat /\ Len(t) \in Nat /\ b \in Nat /\ i \in Nat
      /\ \A j \in 1..Len(s) : b + j <= Len(s) /\ i + j <= Len(t) => s[b + j] = t[i + j]
  BY PlaceIs
<1>2. ASSUME NEW j \in 1..m, b + j <= Len(s) PROVE s[b + j] = t[i + j]
  <2>1. j \in 1..Len(s) /\ i + j <= Len(t)
    BY <1>1, <1>2
  <2> QED BY <1>1, <1>2, <2>1
<1>3. b + m <= Len(s) => s[b + m] = c
  BY <1>2
<1>4. \A j \in 1..(m - 1) : b + j <= Len(s) => s[b + j] # c
  <2>1. \A j \in 1..(m - 1) : j \in 1..m
    OBVIOUS
  <2> QED BY <1>2, <2>1
<1> QED BY <1>1, <1>3, <1>4, UntilFits

(* and an address.                                                         *)
LEMMA AddressLies ==
  ASSUME NEW s, NEW t, NEW k, NEW i, NEW b, Place(s, t, k, i, b),
         NEW type, NEW dest, AddressOK(type, dest), NEW a, a = H!Packed(type, dest), HasAt(t, i, a), NEW f, NEW e,
         \/ f = H!Address /\ type \in {1, 3, 4} /\ e = 0
         \/ f = H!AddressSum /\ e = (IF type >= 16 THEN 1 ELSE 0),
         NEW q, q = b + Len(a) + e
  PROVE  Fits(f, s, b, q)
<1>1. /\ IsList(s) /\ Len(s) \in Nat /\ Len(t) \in Nat /\ b \in Nat /\ i \in Nat
      /\ \A j \in 1..Len(s) : b + j <= Len(s) /\ i + j <= Len(t) => s[b + j] = t[i + j]
  BY PlaceIs
<1>2. IsList(a) /\ Len(a) \in Nat /\ i + Len(a) <= Len(t) /\ \A j \in 1..Len(a) : t[i + j] = a[j]
  BY DEF HasAt
<1>3. ASSUME NEW j \in 1..2, b + j <= Len(s), j <= Len(a) PROVE s[b + j] = a[j]
  <2>1. j \in 1..Len(s) /\ i + j <= Len(t) /\ j \in 1..Len(a)
    BY <1>1, <1>2, <1>3
  <2> QED BY <1>1, <1>2, <1>3, <2>1
<1>4. \A j \in 1..2 : b + j <= Len(s) /\ j <= Len(H!Packed(type, dest)) => s[b + j] = H!Packed(type, dest)[j]
  BY <1>3
<1> HIDE DEF H!Packed
<1> QED BY <1>1, <1>4, AddressFits

(* All of Packed(h.atyp, h.dest) and what comes of it.                     *)
LEMMA AddressIs ==
  ASSUME NEW h, HopFine(h), NEW type \in {h.atyp, 16 + h.atyp}
  PROVE  /\ IsList(H!Packed(type, h.dest)) /\ Len(H!Packed(type, h.dest)) \in Nat /\ Len(H!Packed(type, h.dest)) >= 3
         /\ H!Packed(type, h.dest)[1] = type /\ H!DestOf(H!Packed(type, h.dest)) = h.dest
         /\ AddressOK(type, h.dest) /\ (type = h.atyp => type < 16) /\ (type = 16 + h.atyp => type >= 16)
<1>1. AddressOK(type, h.dest) /\ Len(h.dest) \in Nat /\ Len(h.dest) >= 2 /\ h.atyp \in {1, 3, 4}
  BY DEF HopFine
<1> DEFINE a == H!Packed(type, h.dest)
<1>2. IsPacked(a, type, h.dest)
  BY <1>1, PackedIs
<1> HIDE DEF a
<1>5. IsList(a) /\ Len(a) = (IF type \in {3, 19} THEN 2 ELSE 1) + Len(h.dest) /\ a[1] = type /\ H!DestOf(a) = h.dest
  BY <1>2 DEF IsPacked
<1>3. Len(a) \in Nat /\ Len(a) >= 3
  <2> DEFINE d == Len(h.dest)
  <2>1. d \in Nat /\ d >= 2 /\ (Len(a) = 1 + d \/ Len(a) = 2 + d)
    BY <1>1, <1>5
  <2> HIDE DEF d
  <2> QED BY <2>1
<1>4. (type = h.atyp => type < 16) /\ (type = 16 + h.atyp => type >= 16)
  BY <1>1
<1> QED BY <1>1, <1>3, <1>4, <1>5 DEF a

(* A server of the tunnel protocol reads its own client right.             *)
LEMMA TunnelServer ==
  ASSUME NEW h, HopFine(h), h.proto = "tunnel", NEW phase, NEW u, Ready(h, phase, u),
         NEW s, Agrees(s, Text(h), Eaten(h, h.proto, phase))
  PROVE  Understood(h, phase, u, s)
<1>1. Text(h) = <<>> /\ Reply(h) = <<>> /\ H!Connected(h.proto) = <<>> /\ H!Reads(h.proto, phase) = <<>>
  BY DEF Text, Says, H!Connect, H!TunnelConnect, H!Exchange, Reply, H!Connected, H!Reads
<1>2. Eaten(h, h.proto, phase) = 0 /\ Want(h, phase) = 0 /\ Told(h, h.proto, phase) = 0 /\ Len(Text(h)) = 0
  BY <1>1, NothingIs DEF Eaten, Want, Told, H!Taken, H!MarkSize
<1>3. H!Scan(<<>>, s).st = "ok" /\ H!Scan(<<>>, s).at = 0
  <2> DEFINE a == H!Scan(<<>>, s)
             at == [i \in 0..0 |-> 0]
  <2>1. LieAt(<<>>, 0, s, at)
    <3>1. at \in [0..0 -> Nat] /\ at[0] = 0 /\ \A i \in 1..0 : FALSE
      OBVIOUS
    <3> HIDE DEF at
    <3> QED BY <3>1, NothingIs DEF LieAt
  <2>2. at[0] = 0 /\ IsList(s) /\ Len(s) \in Nat
    BY ListIs DEF Agrees
  <2> HIDE DEF at
  <2>3. TakenAt(a, 0, s, at)
    BY <2>1, <2>2, ScanTakes
  <2> HIDE DEF a
  <2>4. a.st = "ok" /\ a.at = 0
    BY <2>2, <2>3 DEF TakenAt
  <2> QED BY <2>4 DEF a
<1> DEFINE o == H!Accepts(h.proto, h, phase, u, H!Scan(<<>>, s).got)
<1>4. o.st = "dial" /\ o.dest = h.dest /\ o.reply = <<>>
  BY DEF H!Accepts, H!TunnelAccept, H!Admit
<1> HIDE DEF o
<1>5. IsPart(o.reply, Reply(h), 0, 0)
  BY <1>4, NothingIsPart
<1>6. LetIn(h, phase, o)
  BY <1>1, <1>2, <1>4, <1>5, NothingIs DEF LetIn
<1>7. Len(s) \in Nat
  BY ListIs DEF Agrees
<1> QED BY <1>1, <1>2, <1>3, <1>6, <1>7 DEF Understood, o

(* A server of Trojan reads its own client right.                          *)
LEMMA TrojanServer ==
  ASSUME NEW h, HopFine(h), h.proto = "trojan", NEW phase, NEW u, Ready(h, phase, u),
         NEW s, Agrees(s, Text(h), Eaten(h, h.proto, phase))
  PROVE  Understood(h, phase, u, s)
<1> DEFINE p == H!Packed(h.atyp, h.dest)
           x == <<150 + h.auth, 150 + h.auth>>
           y == <<H!CRLF, 1>>
           z == <<H!CRLF>>
           t == Text(h)
           n == Len(p)
<1>1. t = ((x \o y) \o p) \o z
  BY DEF Text, Says, H!Connect, H!TrojanConnect, H!Exchange, H!Hash
<1>2. /\ IsList(p) /\ Len(p) \in Nat /\ Len(p) >= 3 /\ p[1] = h.atyp /\ H!DestOf(p) = h.dest /\ AddressOK(h.atyp, h.dest)
      /\ h.atyp \in {1, 3, 4}
  BY AddressIs DEF HopFine
<1>3. IsList(x) /\ Len(x) = 2 /\ IsList(y) /\ Len(y) = 2 /\ y[1] = H!CRLF /\ y[2] = 1 /\ IsList(z) /\ Len(z) = 1 /\ z[1] = H!CRLF
  <2> HIDE DEF p, t
  <2>1. IsList(x) /\ Len(x) = 2
    <3> DEFINE v == 150 + h.auth
    <3> HIDE DEF v
    <3>1. IsList(<<v, v>>) /\ Len(<<v, v>>) = 2
      BY TuplesAre
    <3> QED BY <3>1 DEF v
  <2>2. IsList(y) /\ Len(y) = 2 /\ y[1] = H!CRLF /\ y[2] = 1
    BY TuplesAre
  <2>3. IsList(z) /\ Len(z) = 1 /\ z[1] = H!CRLF
    BY TuplesAre
  <2> HIDE DEF x, y, z
  <2> QED BY <2>1, <2>2, <2>3
<1>4. IsList(t) /\ Len(t) = 5 + n /\ t[3] = H!CRLF /\ t[4] = 1 /\ (\A j \in 1..n : t[4 + j] = p[j]) /\ t[5 + n] = H!CRLF
  <2> HIDE DEF p, x, y, z, t
  <2> DEFINE v == x \o y
  <2>1. Is2(v, x, y)
    BY <1>3, Both
  <2>2. Is3(t, v, p, z)
    <3>1. IsList(v)
      BY <2>1 DEF Is2
    <3> HIDE DEF v
    <3>2. Is3((v \o p) \o z, v, p, z)
      BY <1>2, <1>3, <3>1, Three
    <3> QED BY <1>1, <3>2 DEF v
  <2> HIDE DEF v
  <2>3. Len(v) = 4 /\ v[3] = H!CRLF /\ v[4] = 1
    <3>1. 1 \in 1..2 /\ 2 \in 1..2 /\ 2 + 1 = 3 /\ 2 + 2 = 4
      OBVIOUS
    <3>2. Len(v) = 2 + 2 /\ \A i \in 1..2 : v[2 + i] = y[i]
      BY <1>3, <2>1 DEF Is2
    <3> QED BY <1>3, <3>1, <3>2
  <2>4. /\ IsList(t) /\ Len(t) = 4 + n + 1
        /\ \A i \in 1..4 : t[i] = v[i]
        /\ \A i \in 1..n : t[4 + i] = p[i]
        /\ \A i \in 1..1 : t[4 + n + i] = z[i]
    BY <1>3, <2>2, <2>3 DEF Is3
  <2>5. 3 \in 1..4 /\ 4 \in 1..4 /\ 1 \in 1..1 /\ 4 + n + 1 = 5 + n
    BY <1>2
  <2> QED BY <1>3, <2>3, <2>4, <2>5
<1>5. Eaten(h, h.proto, phase) = 2 /\ Want(h, phase) = Len(t) /\ Told(h, h.proto, phase) = 0
  BY DEF Eaten, Want, Told, H!Taken, H!MarkSize
<1>6. H!Reads(h.proto, phase) = <<H!CRLF, 1, H!Address, H!CRLF>>
  BY DEF H!Reads, H!TrojanRequest
<1>7. Agrees(s, t, 2) /\ IsList(s)
  BY <1>5 DEF Agrees
<1> HIDE DEF p, x, y, z, t
<1> DEFINE a == H!Scan(<<H!CRLF, 1, H!Address, H!CRLF>>, s)
<1>8. Fits(H!CRLF, s, 0, 1) /\ Fits(1, s, 1, 2) /\ Fits(H!Address, s, 2, 2 + n) /\ Fits(H!CRLF, s, 2 + n, 3 + n)
  <2> DEFINE i == 4 + n
             b == 2 + n
             q == 3 + n
  <2>0. n \in Nat /\ H!CRLF \in Nat /\ i \in Nat /\ b \in Nat /\ q = b + 1 /\ i = b + 2 /\ q < Len(t) /\ b = 2 + n
    BY <1>2, <1>4 DEF H!CRLF
  <2>1. Place(s, t, 2, 2, 0) /\ Place(s, t, 2, 3, 1) /\ Place(s, t, 2, 4, 2) /\ Place(s, t, 2, i, b)
    BY <1>4, <1>7, <2>0 DEF Place
  <2>2. 2 < Len(t) /\ 3 < Len(t) /\ i < Len(t) /\ t[2 + 1] = H!CRLF /\ t[3 + 1] = 1 /\ t[i + 1] = H!CRLF /\ 1 = 0 + 1 /\ 2 = 1 + 1
    BY <1>4, <2>0
  <2> HIDE DEF i, b, q, H!CRLF, H!Address
  <2>3. Fits(H!CRLF, s, 0, 1) /\ Fits(1, s, 1, 2) /\ Fits(H!CRLF, s, b, q)
    BY <2>0, <2>1, <2>2, NumberLies
  <2>4. HasAt(t, 4, p) /\ p = H!Packed(h.atyp, h.dest) /\ b = 2 + Len(p) + 0
    BY <1>2, <1>4, <2>0 DEF HasAt, p
  <2>5. Fits(H!Address, s, 2, b)
    BY <1>2, <2>1, <2>4, AddressLies
  <2> QED BY <2>3, <2>5 DEF b, q
<1>9. /\ 3 + n <= Len(s) => a.st = "ok" /\ a.at = 3 + n /\ a.got[3] = SubSeq(s, 2 + 1, 2 + n)
      /\ ~(3 + n <= Len(s)) => a.st = "more"
  <2> DEFINE m1 == 1
             m2 == 2
             m3 == 2 + n
             m4 == 3 + n
             c == H!CRLF
             w == H!Scan(<<c, m1, H!Address, c>>, s)
  <2>1. m1 \in Nat /\ m2 \in Nat /\ m3 \in Nat /\ m4 \in Nat /\ 0 < m1 /\ m1 < m2 /\ m2 < m3 /\ m3 < m4
    BY <1>2
  <2>2. Fits(c, s, 0, m1) /\ Fits(m1, s, m1, m2) /\ Fits(H!Address, s, m2, m3) /\ Fits(c, s, m3, m4) /\ w = a
    BY <1>8
  <2> HIDE DEF m1, m2, m3, m4, c, a, n
  <2>3. Lie4(c, m1, H!Address, c, s, m1, m2, m3, m4)
    BY <2>1, <2>2 DEF Lie4
  <2>4. Took4(w, s, m1, m2, m3, m4)
    BY <1>7, <2>3, ScanFour
  <2> HIDE DEF w
  <2> QED BY <2>2, <2>4 DEF m1, m2, m3, m4, Took4
<1>10. ASSUME 3 + n <= Len(s) PROVE SubSeq(s, 2 + 1, 2 + n) = p
  <2> DEFINE e == 2 + n
  <2>1. e = 2 + Len(p) /\ e <= Len(s) /\ Place(s, t, 2, 4, 2) /\ HasAt(t, 4, p)
    <3>1. Len(s) \in Nat /\ n \in Nat
      BY <1>2, <1>7, ListIs
    <3> QED BY <1>2, <1>4, <1>7, <1>10, <3>1 DEF HasAt, Place
  <2> HIDE DEF e
  <2>2. SubSeq(s, 2 + 1, e) = p
    BY <2>1, AgreesPiece
  <2> QED BY <2>2 DEF e
<1> DEFINE o == H!Accepts(h.proto, h, phase, u, a.got)
<1>11. ASSUME a.got[3] = p PROVE LetIn(h, phase, o)
  <2> HIDE DEF a
  <2>1. o.st = "dial" /\ o.dest = h.dest /\ o.user = u /\ o.reply = <<>>
    BY <1>2, <1>11 DEF H!Accepts, H!TrojanAccept, H!Admit
  <2>2. h.users # {} => u = h.auth
    BY DEF Ready
  <2>3. Reply(h) = <<>> /\ H!Connected(h.proto) = <<>>
    BY DEF Reply, H!Connected
  <2> HIDE DEF o
  <2>4. IsPart(o.reply, Reply(h), 0, 0)
    BY <2>1, NothingIsPart
  <2> QED BY <1>5, <2>1, <2>2, <2>3, <2>4, NothingIs DEF LetIn, t
<1>12. Want(h, phase) - Eaten(h, h.proto, phase) = 3 + n
  BY <1>2, <1>4, <1>5
<1> HIDE DEF a, o, n
<1> QED BY <1>6, <1>9, <1>10, <1>11, <1>12 DEF Understood, a, o

(* Nothing adds nothing.                                                   *)
LEMMA NothingAdds ==
  ASSUME NEW a, IsList(a)
  PROVE  a \o <<>> = a /\ <<>> \o a = a
<1>1. Is2(a \o <<>>, a, <<>>) /\ Is2(<<>> \o a, <<>>, a)
  BY NothingIs, Both
<1> DEFINE x == a \o <<>>
           y == <<>> \o a
<1>2. IsList(x) /\ IsList(y) /\ Len(a) \in Nat /\ Len(x) = Len(a) + 0 /\ Len(y) = 0 + Len(a)
      /\ (\A i \in 1..Len(a) : x[i] = a[i]) /\ \A i \in 1..Len(a) : y[0 + i] = a[i]
  BY <1>1, NothingIs DEF Is2
<1> HIDE DEF x, y
<1>3. Len(x) = Len(a) /\ Len(y) = Len(a) /\ \A i \in 1..Len(a) : 0 + i = i
  BY <1>2
<1>4. x = a /\ y = a
  <2>1. (\A i \in 1..Len(x) : x[i] = a[i]) /\ \A i \in 1..Len(y) : y[i] = a[i]
    BY <1>2, <1>3
  <2> QED BY <1>2, <1>3, <2>1, ListsEqual
<1> QED BY <1>4 DEF x, y

(* The order in which sequences are put together does not matter.          *)
LEMMA ConcatAssociates ==
  ASSUME NEW a, NEW b, NEW c, IsList(a), IsList(b), IsList(c)
  PROVE  (a \o b) \o c = a \o (b \o c)
<1> DEFINE x == (a \o b) \o c
           v == b \o c
           y == a \o v
           n == Len(a)
           m == Len(b)
           r == Len(c)
<1>1. Is3(x, a, b, c)
  BY Three
<1>2. Is2(v, b, c)
  BY Both
<1>3. Is2(y, a, v)
  <2>1. IsList(v)
    BY <1>2 DEF Is2
  <2> HIDE DEF v
  <2> QED BY <2>1, Both
<1> HIDE DEF x, v, y
<1>4. /\ n \in Nat /\ m \in Nat /\ r \in Nat /\ IsList(x) /\ IsList(y) /\ Len(x) = n + m + r /\ Len(y) = n + (m + r)
      /\ (\A i \in 1..n : x[i] = a[i]) /\ (\A i \in 1..m : x[n + i] = b[i]) /\ (\A i \in 1..r : x[n + m + i] = c[i])
      /\ (\A i \in 1..n : y[i] = a[i]) /\ (\A i \in 1..(m + r) : y[n + i] = v[i])
      /\ (\A i \in 1..m : v[i] = b[i]) /\ (\A i \in 1..r : v[m + i] = c[i])
  BY <1>1, <1>2, <1>3 DEF Is2, Is3
<1> HIDE DEF n, m, r
<1>5. ASSUME NEW i \in 1..Len(x) PROVE x[i] = y[i]
  <2>1. CASE i <= n
    <3>1. i \in 1..n
      BY <1>4, <2>1
    <3> QED BY <1>4, <3>1
  <2>2. CASE ~(i <= n) /\ i <= n + m
    <3>1. i - n \in 1..m /\ i - n \in 1..(m + r) /\ n + (i - n) = i
      BY <1>4, <2>2
    <3>2. x[n + (i - n)] = b[i - n] /\ y[n + (i - n)] = v[i - n] /\ v[i - n] = b[i - n]
      BY <1>4, <3>1
    <3> QED BY <3>1, <3>2
  <2>3. CASE ~(i <= n + m)
    <3> DEFINE j == i - (n + m)
    <3>1. j \in 1..r /\ m + j \in 1..(m + r) /\ n + (m + j) = i /\ n + m + j = i
      BY <1>4, <2>3
    <3> HIDE DEF j
    <3>2. x[n + m + j] = c[j] /\ y[n + (m + j)] = v[m + j] /\ v[m + j] = c[j]
      BY <1>4, <3>1
    <3> QED BY <3>1, <3>2
  <2> QED BY <1>4, <2>1, <2>2, <2>3
<1>6. x = y
  <2>1. Len(x) = Len(y)
    BY <1>4
  <2> QED BY <1>4, <1>5, <2>1, ListsEqual
<1> QED BY <1>6 DEF x, y, v

(* Shadowsocks: the address, and the checksum a client may send behind it. *)
Type(h) == IF h.proto = "ss" /\ h.ota THEN 16 + h.atyp ELSE h.atyp
SumOf(h) == IF h.proto = "ss" /\ h.ota THEN <<H!Sum(H!Packed(Type(h), h.dest))>> ELSE <<>>
Request(h) == H!Packed(Type(h), h.dest) \o SumOf(h)

(* What the client of Shadowsocks writes behind its key.                   *)
LEMMA RequestIs ==
  ASSUME NEW h, HopFine(h), h.proto \in {"ss", "ssr"}
  PROVE  LET p == H!Packed(Type(h), h.dest)
             r == Request(h)
             e == IF h.proto = "ss" /\ h.ota THEN 1 ELSE 0
         IN /\ IsList(p) /\ Len(p) \in Nat /\ Len(p) >= 3 /\ H!DestOf(p) = h.dest /\ AddressOK(Type(h), h.dest)
            /\ IsList(r) /\ Len(r) = Len(p) + e /\ r[1] = Type(h) /\ (\A j \in 1..Len(p) : r[j] = p[j])
            /\ Type(h) >= 16 <=> h.proto = "ss" /\ h.ota
            /\ e = 0 => r = p
            /\ e = 1 => H!Front(r) = p /\ H!Last(r) = H!Sum(p)
            /\ Text(h) = H!Key(h) \o r
<1> DEFINE p == H!Packed(Type(h), h.dest)
           r == Request(h)
           e == IF h.proto = "ss" /\ h.ota THEN 1 ELSE 0
           c == SumOf(h)
<1>1. Type(h) \in {h.atyp, 16 + h.atyp} /\ h.ota \in BOOLEAN
  BY DEF Type, HopFine
<1>2. /\ IsList(p) /\ Len(p) \in Nat /\ Len(p) >= 3 /\ p[1] = Type(h) /\ H!DestOf(p) = h.dest /\ AddressOK(Type(h), h.dest)
      /\ (Type(h) = h.atyp => Type(h) < 16) /\ (Type(h) = 16 + h.atyp => Type(h) >= 16)
  BY <1>1, AddressIs
<1>3. Type(h) >= 16 <=> h.proto = "ss" /\ h.ota
  <2>1. CASE h.proto = "ss" /\ h.ota
    <3>1. Type(h) = 16 + h.atyp
      BY <2>1 DEF Type
    <3> QED BY <1>2, <2>1, <3>1
  <2>2. CASE ~(h.proto = "ss" /\ h.ota)
    <3>1. Type(h) = h.atyp /\ h.atyp \in {1, 3, 4}
      BY <2>2 DEF Type, HopFine
    <3>2. ~(Type(h) >= 16)
      BY <3>1
    <3> QED BY <2>2, <3>2
  <2> QED BY <2>1, <2>2
<1>4. IsList(c) /\ Len(c) = e /\ (e = 1 => c[1] = H!Sum(p)) /\ r = p \o c
  <2>1. r = p \o c
    BY DEF Request
  <2>2. CASE h.proto = "ss" /\ h.ota
    <3>1. c = <<H!Sum(p)>>
      BY <2>2 DEF SumOf
    <3> HIDE DEF c, p
    <3>2. IsList(c) /\ Len(c) = 1 /\ c[1] = H!Sum(p)
      BY <3>1, TuplesAre
    <3> QED BY <2>1, <2>2, <3>2
  <2>3. CASE ~(h.proto = "ss" /\ h.ota)
    <3>1. c = <<>>
      BY <2>3 DEF SumOf
    <3> HIDE DEF c, p
    <3> QED BY <2>1, <2>3, <3>1, NothingIs
  <2> QED BY <2>2, <2>3
<1>5. Text(h) = H!Key(h) \o r
  <2>1. CASE h.proto = "ssr"
    <3>1. c = <<>> /\ Text(h) = H!Key(h) \o p
      BY <2>1 DEF Text, Says, H!Connect, H!SsrConnect, H!Exchange, Type, SumOf
    <3> HIDE DEF p, c
    <3>2. p \o c = p
      BY <1>2, <3>1, NothingAdds
    <3> QED BY <1>4, <3>1, <3>2
  <2>2. CASE h.proto = "ss" /\ ~h.ota
    <3>1. c = <<>> /\ Text(h) = H!Key(h) \o p
      BY <2>2 DEF Text, Says, H!Connect, H!SsConnect, H!SsrConnect, H!Exchange, Type, SumOf
    <3> HIDE DEF p, c
    <3>2. p \o c = p
      BY <1>2, <3>1, NothingAdds
    <3> QED BY <1>4, <3>1, <3>2
  <2>3. CASE h.proto = "ss" /\ h.ota
    <3>1. c = <<H!Sum(p)>> /\ Text(h) = (H!Key(h) \o p) \o <<H!Sum(p)>>
      BY <2>3 DEF Text, Says, H!Connect, H!SsConnect, H!Exchange, Type, SumOf
    <3> DEFINE k == H!Key(h)
    <3>2. IsList(k)
      BY TuplesAre DEF H!Key
    <3> HIDE DEF p, c, k
    <3>3. (k \o p) \o c = k \o (p \o c)
      BY <1>2, <1>4, <3>2, ConcatAssociates
    <3> QED BY <1>4, <3>1, <3>3 DEF k
  <2> QED BY <1>1, <2>1, <2>2, <2>3
<1> HIDE DEF p, r, c
<1>6. Is2(r, p, c)
  BY <1>2, <1>4, Both
<1>7. /\ IsList(r) /\ Len(r) = Len(p) + e /\ (\A j \in 1..Len(p) : r[j] = p[j])
      /\ \A j \in 1..e : r[Len(p) + j] = c[j]
  BY <1>4, <1>6 DEF Is2
<1>8. r[1] = Type(h)
  <2>1. 1 \in 1..Len(p)
    BY <1>2
  <2> QED BY <1>2, <1>7, <2>1
<1>9. ASSUME e = 0 PROVE r = p
  <2>1. IsList(r) /\ IsList(p) /\ Len(r) = Len(p) /\ \A j \in 1..Len(r) : r[j] = p[j]
    BY <1>2, <1>7, <1>9
  <2> QED BY <2>1, ListsEqual
<1>10. ASSUME e = 1 PROVE H!Front(r) = p /\ H!Last(r) = H!Sum(p)
  <2> DEFINE n == Len(p)
  <2>1. n \in Nat /\ Len(r) = n + 1 /\ \A j \in 1..n : r[0 + j] = p[j]
    <3>1. Len(p) \in Nat /\ Len(r) = Len(p) + 1 /\ \A j \in 1..Len(p) : 0 + j = j
      BY <1>2, <1>7, <1>10
    <3> QED BY <1>7, <3>1
  <2>2. LiesIn(p, r, 0, n)
    <3>1. 0 \in Nat /\ n \in Nat /\ 0 <= n /\ n <= Len(r) /\ n = n - 0
      BY <2>1
    <3> QED BY <1>2, <1>7, <2>1, <3>1 DEF LiesIn
  <2>3. SubSeq(r, 1, n) = p
    <3>1. 1 = 0 + 1
      OBVIOUS
    <3> HIDE DEF n
    <3> QED BY <2>2, <3>1, PieceIs
  <2>4. H!Front(r) = p
    <3>1. Len(r) - 1 = n
      BY <2>1
    <3> QED BY <2>3, <3>1 DEF H!Front
  <2>5. r[n + 1] = c[1]
    <3>1. 1 \in 1..e
      BY <1>10
    <3> QED BY <1>7, <3>1
  <2>6. H!Last(r) = H!Sum(p)
    <3>1. r[Len(r)] = c[1]
      BY <2>1, <2>5
    <3> QED BY <1>4, <1>10, <3>1 DEF H!Last
  <2> QED BY <2>4, <2>6
<1> QED BY <1>2, <1>3, <1>5, <1>7, <1>8, <1>9, <1>10 DEF p, r

(* A server of Shadowsocks reads its own client right, with the one-time   *)
(* sum and without.                                                        *)
LEMMA ShadowServer ==
  ASSUME NEW h, HopFine(h), h.proto \in {"ss", "ssr"}, NEW phase, NEW u, Ready(h, phase, u),
         NEW s, Agrees(s, Text(h), Eaten(h, h.proto, phase))
  PROVE  Understood(h, phase, u, s)
<1> DEFINE p == H!Packed(Type(h), h.dest)
           r == Request(h)
           e == IF h.proto = "ss" /\ h.ota THEN 1 ELSE 0
           t == Text(h)
           f == IF h.proto = "ss" THEN H!AddressSum ELSE H!Address
           k == Len(H!Key(h))
           n == Len(r)
<1>1. /\ IsList(p) /\ Len(p) \in Nat /\ Len(p) >= 3 /\ H!DestOf(p) = h.dest /\ AddressOK(Type(h), h.dest)
      /\ IsList(r) /\ Len(r) = Len(p) + e /\ r[1] = Type(h) /\ (\A j \in 1..Len(p) : r[j] = p[j])
      /\ Type(h) >= 16 <=> h.proto = "ss" /\ h.ota
      /\ e = 0 => r = p
      /\ e = 1 => H!Front(r) = p /\ H!Last(r) = H!Sum(p)
      /\ t = H!Key(h) \o r
  BY RequestIs
<1>2. h.auth \in {0} \cup 21..149 /\ h.users \subseteq 21..149 /\ h.ota \in BOOLEAN /\ h.needota \in BOOLEAN /\ h.atyp \in {1, 3, 4}
  BY DEF HopFine, H!None
<1>3. IsList(H!Key(h)) /\ k \in {0, 2} /\ Eaten(h, h.proto, phase) = k
  <2>1. CASE h.users = {}
    <3>1. H!Key(h) = <<>>
      BY <2>1 DEF Ready, H!Key
    <3>2. Eaten(h, h.proto, phase) = 0
      BY <2>1 DEF Eaten, H!Taken
    <3> QED BY <3>1, <3>2, NothingIs
  <2>2. CASE h.users # {}
    <3>1. h.auth # H!None
      BY <1>2, <2>2 DEF Ready, H!None
    <3>2. H!Key(h) = <<h.auth, h.auth>>
      BY <3>1 DEF H!Key
    <3>3. Eaten(h, h.proto, phase) = 2
      BY <2>2 DEF Eaten, H!Taken, H!MarkSize
    <3> DEFINE x == <<h.auth, h.auth>>
    <3>4. IsList(x) /\ Len(x) = 2
      BY TuplesAre
    <3> HIDE DEF x
    <3>5. IsList(H!Key(h)) /\ k = 2
      BY <3>2, <3>4 DEF x
    <3> QED BY <3>3, <3>5
  <2> QED BY <2>1, <2>2
<1>4. Want(h, phase) = Len(t) /\ Told(h, h.proto, phase) = 0
  BY DEF Want, Told
<1>5. H!Reads(h.proto, phase) = <<f>>
  BY DEF H!Reads, H!SsRequest, H!SsrRequest
<1>6. Agrees(s, t, k) /\ IsList(s) /\ Len(s) \in Nat
  BY <1>3, ListIs DEF Agrees
<1> DEFINE a == H!Scan(<<f>>, s)
           o == H!Accepts(h.proto, h, phase, u, a.got)
<1> HIDE DEF p, r, t, k
<1>7. Is2(t, H!Key(h), r)
  BY <1>1, <1>3, Both
<1>8. Len(t) = k + n /\ n \in Nat /\ k \in Nat /\ n >= 3 /\ HasAt(t, k, r) /\ HasAt(t, k, p) /\ IsList(t)
  <2>1. IsList(t) /\ Len(t) = k + n /\ n \in Nat /\ k \in Nat /\ \A j \in 1..n : t[k + j] = r[j]
    BY <1>7 DEF Is2, k
  <2>2. n >= 3 /\ Len(p) <= n
    BY <1>1
  <2>3. HasAt(t, k, r)
    BY <1>1, <2>1 DEF HasAt
  <2>4. HasAt(t, k, p)
    <3>1. k + Len(p) <= Len(t)
      BY <1>1, <2>1, <2>2
    <3>2. \A j \in 1..Len(p) : j \in 1..n
      BY <1>1, <2>1, <2>2
    <3> QED BY <1>1, <2>1, <3>1, <3>2 DEF HasAt
  <2> QED BY <2>1, <2>2, <2>3, <2>4
<1>9. Place(s, t, k, k, 0)
  BY <1>6, <1>8 DEF Place
<1>10. Fits(f, s, 0, n)
  <2>1. /\ \/ f = H!Address /\ Type(h) \in {1, 3, 4} /\ e = 0
           \/ f = H!AddressSum /\ e = (IF Type(h) >= 16 THEN 1 ELSE 0)
        /\ n = 0 + Len(p) + e /\ p = H!Packed(Type(h), h.dest)
    <3>1. h.proto = "ssr" => Type(h) \in {1, 3, 4}
      BY <1>2 DEF Type
    <3>2. n = 0 + Len(p) + e
      BY <1>1
    <3>3. p = H!Packed(Type(h), h.dest)
      BY DEF p
    <3> QED BY <1>1, <3>1, <3>2, <3>3
  <2> HIDE DEF f, e, n, H!Address, H!AddressSum
  <2> QED BY <1>1, <1>8, <1>9, <2>1, AddressLies
<1> HIDE DEF f
<1>11. /\ n <= Len(s) => a.st = "ok" /\ a.at = n /\ a.got[1] = SubSeq(s, 1, n)
       /\ ~(n <= Len(s)) => a.st = "more"
  <2>1. 0 < n /\ n \in Nat
    BY <1>8
  <2> HIDE DEF n
  <2> QED BY <1>6, <1>10, <2>1, ScanOne
<1>12. ASSUME n <= Len(s) PROVE SubSeq(s, 1, n) = r
  <2>1. n = 0 + Len(r) /\ 1 = 0 + 1
    BY <1>8
  <2> HIDE DEF n
  <2> QED BY <1>8, <1>9, <1>12, <2>1, AgreesPiece
<1>13. ASSUME a.got[1] = r PROVE Refused(h, o) \/ LetIn(h, phase, o)
  <2> HIDE DEF a
  <2>1. Reply(h) = <<>> /\ H!Connected(h.proto) = <<>>
    BY DEF Reply, H!Connected
  <2>2. h.users # {} => u = h.auth
    BY DEF Ready
  <2>3. ASSUME o.st = "dial", o.dest = h.dest, o.user = u, o.reply = <<>> PROVE LetIn(h, phase, o)
    <3> HIDE DEF o
    <3>1. IsPart(o.reply, Reply(h), 0, 0)
      BY <2>3, NothingIsPart
    <3> QED BY <1>4, <2>1, <2>2, <2>3, <3>1, NothingIs DEF LetIn, t
  <2>4. CASE h.proto = "ssr"
    <3>1. r = p
      BY <1>1, <2>4
    <3>2. o.st = "dial" /\ o.dest = h.dest /\ o.user = u /\ o.reply = <<>>
      BY <1>1, <1>13, <2>4, <3>1 DEF H!Accepts, H!SsrAccept, H!Admit
    <3> QED BY <2>3, <3>2
  <2>5. CASE h.proto = "ss" /\ h.ota
    <3>1. r[1] >= 16 /\ H!Front(r) = p /\ H!Last(r) = H!Sum(p)
      BY <1>1, <2>5
    <3>2. o.st = "dial" /\ o.dest = h.dest /\ o.user = u /\ o.reply = <<>>
      BY <1>1, <1>13, <2>5, <3>1 DEF H!Accepts, H!SsAccept, H!Admit
    <3> QED BY <2>3, <3>2
  <2>6. CASE h.proto = "ss" /\ ~h.ota
    <3>1. ~(r[1] >= 16) /\ r = p
      BY <1>1, <2>6
    <3>2. CASE h.needota
      <4>1. o.st = "closed" /\ o.reply = <<>> /\ ~H!Compatible(h)
        BY <1>13, <2>6, <3>1, <3>2 DEF H!Accepts, H!SsAccept, H!Refuse, H!Compatible
      <4> QED BY <4>1 DEF Refused
    <3>3. CASE ~h.needota
      <4>1. o.st = "dial" /\ o.dest = h.dest /\ o.user = u /\ o.reply = <<>>
        BY <1>1, <1>13, <2>6, <3>1, <3>3 DEF H!Accepts, H!SsAccept, H!Admit
      <4> QED BY <2>3, <4>1
    <3> QED BY <3>2, <3>3
  <2> QED BY <1>2, <2>4, <2>5, <2>6
<1>14. Want(h, phase) - Eaten(h, h.proto, phase) = n
  BY <1>3, <1>4, <1>8
<1> HIDE DEF a, o, n
<1> QED BY <1>5, <1>11, <1>12, <1>13, <1>14 DEF Understood, a, o

(* Tuples put together.                                                    *)
PairOf(x, y)       == <<x>> \o <<y>> = <<x, y>>
FourOf(x, y, z, w) == (<<x, y>> \o <<z>>) \o <<w>> = <<x, y, z, w>>

LEMMA TuplesJoin ==
  ASSUME NEW x, NEW y, NEW z, NEW w
  PROVE  PairOf(x, y) /\ FourOf(x, y, z, w)
<1> SUFFICES <<x>> \o <<y>> = <<x, y>> /\ (<<x, y>> \o <<z>>) \o <<w>> = <<x, y, z, w>>
  BY DEF PairOf, FourOf
<1> DEFINE a == <<x>>
           b == <<y>>
           c == <<z>>
           d == <<w>>
           p == <<x, y>>
           q == <<x, y, z, w>>
<1>1. /\ IsList(a) /\ Len(a) = 1 /\ a[1] = x /\ IsList(b) /\ Len(b) = 1 /\ b[1] = y
      /\ IsList(c) /\ Len(c) = 1 /\ c[1] = z /\ IsList(d) /\ Len(d) = 1 /\ d[1] = w
  BY TuplesAre
<1>2. IsList(p) /\ Len(p) = 2 /\ p[1] = x /\ p[2] = y
  BY TuplesAre
<1>3. IsList(q) /\ Len(q) = 4 /\ q[1] = x /\ q[2] = y /\ q[3] = z /\ q[4] = w
  BY TuplesAre
<1>0. 1 \in 1..1 /\ 1 \in 1..2 /\ 2 \in 1..2 /\ 1 + 1 = 2 /\ 2 + 1 = 3 /\ 2 + 1 + 1 = 4
  OBVIOUS
<1>4. a \o b = p
  <2> HIDE DEF a, b, p
  <2> DEFINE e == a \o b
  <2>1. Is2(e, a, b)
    BY <1>1, Both
  <2> HIDE DEF e
  <2>2. IsList(e) /\ Len(e) = 1 + 1 /\ (\A i \in 1..1 : e[i] = a[i]) /\ \A i \in 1..1 : e[1 + i] = b[i]
    BY <1>1, <2>1 DEF Is2
  <2>3. Len(e) = 2 /\ e[1] = x /\ e[2] = y
    BY <1>0, <1>1, <2>2
  <2>4. \A i \in 1..Len(e) : e[i] = p[i]
    <3>1. \A i \in 1..2 : i = 1 \/ i = 2
      OBVIOUS
    <3> QED BY <1>2, <2>3, <3>1
  <2>5. e = p
    BY <1>2, <2>2, <2>3, <2>4, ListsEqual
  <2> QED BY <2>5 DEF e
<1>5. (p \o c) \o d = q
  <2> HIDE DEF c, d, p, q
  <2> DEFINE e == (p \o c) \o d
  <2>1. Is3(e, p, c, d)
    BY <1>1, <1>2, Three
  <2> HIDE DEF e
  <2>2. /\ IsList(e) /\ Len(e) = 2 + 1 + 1 /\ (\A i \in 1..2 : e[i] = p[i]) /\ (\A i \in 1..1 : e[2 + i] = c[i])
        /\ \A i \in 1..1 : e[2 + 1 + i] = d[i]
    BY <1>1, <1>2, <2>1 DEF Is3
  <2>3. Len(e) = 4 /\ e[1] = x /\ e[2] = y /\ e[3] = z /\ e[4] = w
    BY <1>0, <1>1, <1>2, <2>2
  <2>4. \A i \in 1..Len(e) : e[i] = q[i]
    <3>1. \A i \in 1..4 : i = 1 \/ i = 2 \/ i = 3 \/ i = 4
      OBVIOUS
    <3> QED BY <1>3, <2>3, <3>1
  <2>5. e = q
    BY <1>3, <2>2, <2>3, <2>4, ListsEqual
  <2> QED BY <2>5 DEF e
<1> QED BY <1>4, <1>5

(* SOCKS4: the port and the address by number, and the user up to a zero.  *)
LEMMA Socks4Server ==
  ASSUME NEW h, HopFine(h), h.proto = "socks4", NEW phase, NEW u, Ready(h, phase, u),
         NEW s, Agrees(s, Text(h), Eaten(h, h.proto, phase))
  PROVE  Understood(h, phase, u, s)
<1> DEFINE x == H!Last(h.dest)
           y == Head(H!Resolved(h.dest))
           v == <<4, 1, x, y>>
           c == IF h.auth = H!None THEN <<>> ELSE <<h.auth>>
           z == <<0>>
           t == Text(h)
           d == c \o z
           l == Len(c)
<1>1. t = (v \o c) \o z
  BY DEF Text, Says, H!Connect, H!Socks4Connect, H!Exchange
<1>2. /\ IsList(v) /\ Len(v) = 4 /\ v[1] = 4 /\ v[2] = 1 /\ v[3] = x /\ v[4] = y
      /\ IsList(z) /\ Len(z) = 1 /\ z[1] = 0
  <2> HIDE DEF x, y
  <2> QED BY TuplesAre
<1>3. /\ IsList(c) /\ l \in {0, 1} /\ (l = 0 <=> h.auth = H!None) /\ (l = 1 => c[1] = h.auth /\ h.auth # 0)
  <2>1. CASE h.auth = H!None
    <3>1. c = <<>>
      BY <2>1
    <3> HIDE DEF c
    <3> QED BY <2>1, <3>1, NothingIs
  <2>2. CASE h.auth # H!None
    <3>1. c = <<h.auth>>
      BY <2>2
    <3> HIDE DEF c
    <3>2. IsList(c) /\ Len(c) = 1 /\ c[1] = h.auth
      BY <3>1, TuplesAre
    <3> QED BY <2>2, <3>2 DEF H!None
  <2> QED BY <2>1, <2>2
<1>4. H!Resolved(h.dest) = <<y, x>>
  BY DEF H!Resolved
<1> HIDE DEF x, y, v, c, z, t
<1>5. Is2(d, c, z) /\ Is3(t, v, c, z)
  BY <1>1, <1>2, <1>3, Both, Three
<1>6. /\ IsList(t) /\ Len(t) = 5 + l /\ t[2] = 1 /\ t[3] = x /\ t[4] = y
      /\ (l = 1 => t[5] = h.auth) /\ t[5 + l] = 0
  <2>1. /\ IsList(t) /\ Len(t) = 4 + l + 1 /\ (\A i \in 1..4 : t[i] = v[i])
        /\ (\A i \in 1..l : t[4 + i] = c[i]) /\ \A i \in 1..1 : t[4 + l + i] = z[i]
    BY <1>2, <1>5 DEF Is3
  <2>2. 2 \in 1..4 /\ 3 \in 1..4 /\ 4 \in 1..4 /\ 1 \in 1..1 /\ (l = 1 => 1 \in 1..l) /\ 4 + 1 = 5 /\ 4 + l + 1 = 5 + l
    BY <1>3
  <2>3. t[4 + l + 1] = z[1] /\ (l = 1 => t[4 + 1] = c[1])
    BY <2>1, <2>2
  <2> QED BY <1>2, <1>3, <2>1, <2>2, <2>3
<1>7. IsList(d) /\ Len(d) = 1 + l /\ (l = 1 => d[1] = h.auth)
  <2>1. IsList(d) /\ Len(d) = l + 1 /\ \A i \in 1..l : d[i] = c[i]
    BY <1>2, <1>5 DEF Is2
  <2> QED BY <1>3, <2>1
<1> HIDE DEF d
<1>8. Eaten(h, h.proto, phase) = 1 /\ Want(h, phase) = Len(t) /\ Told(h, h.proto, phase) = 0
  BY DEF Eaten, Want, Told, H!Taken, H!MarkSize, t
<1>9. H!Reads(h.proto, phase) = <<1, H!Byte, H!Byte, H!Until0>>
  BY DEF H!Reads, H!Socks4Request
<1>10. Agrees(s, t, 1) /\ IsList(s) /\ Len(s) \in Nat
  BY <1>8, ListIs DEF Agrees, t
<1> DEFINE a == H!Scan(<<1, H!Byte, H!Byte, H!Until0>>, s)
           n == 4 + l
<1>11. n \in Nat /\ 3 < n /\ n = 3 + (l + 1) /\ l + 1 \in Nat \ {0} /\ Len(t) = n + 1
  BY <1>3, <1>6
<1> HIDE DEF n
<1>12. Place(s, t, 1, 1, 0) /\ Place(s, t, 1, 2, 1) /\ Place(s, t, 1, 3, 2) /\ Place(s, t, 1, 4, 3)
  BY <1>6, <1>10 DEF Place
<1>13. Fits(1, s, 0, 1) /\ Fits(H!Byte, s, 1, 2) /\ Fits(H!Byte, s, 2, 3) /\ Fits(H!Until0, s, 3, n)
  <2>1. 1 < Len(t) /\ 2 < Len(t) /\ 3 < Len(t) /\ t[1 + 1] = 1 /\ 1 = 0 + 1 /\ 2 = 1 + 1 /\ 3 = 2 + 1 /\ 1 \in Nat
    BY <1>6, <1>11
  <2> HIDE DEF H!Byte, H!Until0
  <2>2. Fits(1, s, 0, 1)
    BY <1>12, <2>1, NumberLies
  <2>3. Fits(H!Byte, s, 1, 2)
    BY <1>12, <2>1, NumberLies
  <2>4. Fits(H!Byte, s, 2, 3)
    BY <1>12, <2>1, NumberLies
  <2>5. Fits(H!Until0, s, 3, n)
    <3> DEFINE m == l + 1
    <3>1. m \in Nat \ {0} /\ 4 + m <= Len(t) /\ t[4 + m] = 0 /\ n = 3 + m
      <4>1. 4 + m = 5 + l
        BY <1>3
      <4> QED BY <1>6, <1>11, <4>1
    <3>2. \A j \in 1..(m - 1) : t[4 + j] # 0
      <4>1. \A j \in 1..(m - 1) : l = 1 /\ 4 + j = 5
        <5>1. m - 1 = l
          BY <1>3
        <5> HIDE DEF m, l
        <5>2. \A j \in 1..l : l = 1 /\ 4 + j = 5
          BY <1>3
        <5> QED BY <5>1, <5>2
      <4> QED BY <1>3, <1>6, <4>1
    <3> DEFINE b == 3
    <3>3. Place(s, t, 1, 4, b) /\ n = b + m
      BY <1>12, <3>1
    <3> HIDE DEF m, b
    <3>4. Fits(H!Until0, s, b, n)
      <4> DEFINE f == H!Until0
                 e == 0
      <4>1. (f = H!Until0 /\ e = 0) \/ (f = H!UntilBlank /\ e = H!BLANK)
        OBVIOUS
      <4>2. t[4 + m] = e /\ \A j \in 1..(m - 1) : t[4 + j] # e
        BY <3>1, <3>2
      <4>3. 4 + m <= Len(t) /\ m \in Nat \ {0}
        BY <3>1
      <4> HIDE DEF f, e
      <4>4. Fits(f, s, b, n)
        BY <3>3, <4>1, <4>2, <4>3, UntilLies
      <4> QED BY <4>4 DEF f
    <3> QED BY <3>4 DEF b
  <2> QED BY <2>2, <2>3, <2>4, <2>5
<1>14. /\ n <= Len(s) => /\ a.st = "ok" /\ a.at = n /\ a.got[2] = SubSeq(s, 1 + 1, 2) /\ a.got[3] = SubSeq(s, 2 + 1, 3)
                         /\ a.got[4] = SubSeq(s, 3 + 1, n)
       /\ ~(n <= Len(s)) => a.st = "more"
  <2> DEFINE m1 == 1
             m2 == 2
             m3 == 3
             f == 1
  <2>1. m1 \in Nat /\ m2 \in Nat /\ m3 \in Nat /\ n \in Nat /\ 0 < m1 /\ m1 < m2 /\ m2 < m3 /\ m3 < n
    BY <1>11
  <2>2. Fits(f, s, 0, m1) /\ Fits(H!Byte, s, m1, m2) /\ Fits(H!Byte, s, m2, m3) /\ Fits(H!Until0, s, m3, n)
    BY <1>13
  <2> DEFINE g == H!Byte
             e == H!Until0
             w == H!Scan(<<f, g, g, e>>, s)
  <2>3. Fits(f, s, 0, m1) /\ Fits(g, s, m1, m2) /\ Fits(g, s, m2, m3) /\ Fits(e, s, m3, n) /\ w = a
    BY <2>2
  <2> HIDE DEF m1, m2, m3, f, g, e, a
  <2>4. Lie4(f, g, g, e, s, m1, m2, m3, n)
    BY <2>1, <2>3 DEF Lie4
  <2>5. Took4(w, s, m1, m2, m3, n)
    BY <1>10, <2>4, ScanFour
  <2> HIDE DEF w
  <2> QED BY <2>3, <2>5 DEF m1, m2, m3, Took4
<1>15. ASSUME n <= Len(s)
       PROVE  SubSeq(s, 1 + 1, 2) = <<x>> /\ SubSeq(s, 2 + 1, 3) = <<y>> /\ SubSeq(s, 3 + 1, n) = d
  <2> DEFINE xs == <<x>>
             ys == <<y>>
  <2>1. IsList(xs) /\ Len(xs) = 1 /\ xs[1] = x /\ IsList(ys) /\ Len(ys) = 1 /\ ys[1] = y
    BY TuplesAre
  <2> HIDE DEF xs, ys
  <2>2. HasAt(t, 2, xs) /\ HasAt(t, 3, ys)
    <3>1. 2 + 1 <= Len(t) /\ 3 + 1 <= Len(t) /\ (\A j \in 1..1 : t[2 + j] = x) /\ \A j \in 1..1 : t[3 + j] = y
      <4>1. \A j \in 1..1 : 2 + j = 3 /\ 3 + j = 4
        OBVIOUS
      <4> QED BY <1>6, <1>11, <4>1
    <3>2. \A j \in 1..1 : j = 1
      OBVIOUS
    <3> QED BY <2>1, <3>1, <3>2 DEF HasAt
  <2>3. HasAt(t, 4, d)
    <3>1. 4 + Len(d) <= Len(t) /\ Len(d) \in Nat
      BY <1>3, <1>6, <1>7
    <3>2. \A j \in 1..Len(d) : t[4 + j] = d[j]
      <4>1. Is2(d, c, z) /\ Is3(t, v, c, z)
        BY <1>5
      <4>2. /\ \A i \in 1..l : d[i] = c[i]
            /\ \A i \in 1..1 : d[l + i] = z[i]
            /\ \A i \in 1..l : t[4 + i] = c[i]
            /\ \A i \in 1..1 : t[4 + l + i] = z[i]
        BY <1>2, <4>1 DEF Is2, Is3
      <4>3. ASSUME NEW j \in 1..Len(d) PROVE t[4 + j] = d[j]
        <5>1. CASE j \in 1..l
          BY <4>2, <5>1
        <5>2. CASE j \notin 1..l
          <6>1. j = l + 1 /\ 4 + j = 4 + l + 1 /\ 1 \in 1..1
            BY <1>3, <1>7, <5>2
          <6>2. d[l + 1] = z[1] /\ t[4 + l + 1] = z[1]
            BY <4>2, <6>1
          <6> QED BY <6>1, <6>2
        <5> QED BY <5>1, <5>2
      <4> QED BY <4>3
    <3> QED BY <1>7, <3>1, <3>2 DEF HasAt
  <2>4. /\ 2 = 1 + Len(xs) /\ 3 = 2 + Len(ys) /\ n = 3 + Len(d) /\ 2 <= Len(s) /\ 3 <= Len(s)
        /\ Place(s, t, 1, 2, 1) /\ Place(s, t, 1, 3, 2) /\ Place(s, t, 1, 4, 3)
    BY <1>7, <1>10, <1>11, <1>12, <1>15, <2>1, <1>3
  <2> DEFINE m1 == 1
             m2 == 2
             m3 == 3
  <2>8. /\ m2 = m1 + Len(xs) /\ m3 = m2 + Len(ys) /\ n = m3 + Len(d) /\ m2 <= Len(s) /\ m3 <= Len(s) /\ n <= Len(s)
        /\ Place(s, t, 1, 2, m1) /\ Place(s, t, 1, 3, m2) /\ Place(s, t, 1, 4, m3)
    BY <1>15, <2>4
  <2> HIDE DEF m1, m2, m3
  <2>5. SubSeq(s, m1 + 1, m2) = xs
    <3> DEFINE q == m1 + 1
    <3>1. q = m1 + 1 /\ m2 = m1 + Len(xs) /\ m2 <= Len(s) /\ Place(s, t, 1, 2, m1) /\ HasAt(t, 2, xs)
      BY <2>2, <2>8
    <3> HIDE DEF q, l
    <3>2. SubSeq(s, q, m2) = xs
      BY <3>1, AgreesPiece
    <3> QED BY <3>2 DEF q
  <2>6. SubSeq(s, m2 + 1, m3) = ys
    <3> DEFINE q == m2 + 1
    <3>1. q = m2 + 1 /\ m3 = m2 + Len(ys) /\ m3 <= Len(s) /\ Place(s, t, 1, 3, m2) /\ HasAt(t, 3, ys)
      BY <2>2, <2>8
    <3> HIDE DEF q, l
    <3>2. SubSeq(s, q, m3) = ys
      BY <3>1, AgreesPiece
    <3> QED BY <3>2 DEF q
  <2>7. SubSeq(s, m3 + 1, n) = d
    <3> DEFINE q == m3 + 1
    <3>1. q = m3 + 1 /\ n = m3 + Len(d) /\ n <= Len(s) /\ Place(s, t, 1, 4, m3) /\ HasAt(t, 4, d)
      BY <2>3, <2>8
    <3> HIDE DEF q, l
    <3>2. SubSeq(s, q, n) = d
      BY <3>1, AgreesPiece
    <3> QED BY <3>2 DEF q
  <2> QED BY <2>5, <2>6, <2>7 DEF xs, ys, m1, m2, m3
<1> DEFINE o == H!Accepts(h.proto, h, phase, u, a.got)
<1>16. ASSUME a.got[2] = <<x>>, a.got[3] = <<y>>, a.got[4] = d PROVE Refused(h, o) \/ LetIn(h, phase, o)
  <2> HIDE DEF a
  <2> DEFINE id == IF Len(d) = 1 THEN H!None ELSE d[1]
  <2>1. id = h.auth
    BY <1>3, <1>7
  <2>2. o = IF H!Knows(h, id) THEN H!Admit((<<0, 90>> \o <<x>>) \o <<y>>, <<y>> \o <<x>>, id) ELSE H!Refuse(<<>>)
    BY <1>16 DEF H!Accepts, H!Socks4Accept
  <2> HIDE DEF id, o
  <2>3. CASE H!Knows(h, h.auth)
    <3> DEFINE r == <<0, 90, x, y>>
    <3>1. o.st = "dial" /\ o.dest = H!Resolved(h.dest) /\ o.user = h.auth /\ o.reply = r
      <4>1. (<<0, 90>> \o <<x>>) \o <<y>> = r /\ <<y>> \o <<x>> = H!Resolved(h.dest)
        <5>1. <<y>> \o <<x>> = <<y, x>>
          <6>1. PairOf(y, x)
            BY TuplesJoin
          <6> QED BY <6>1 DEF PairOf
        <5>2. (<<0, 90>> \o <<x>>) \o <<y>> = <<0, 90, x, y>>
          <6> DEFINE i == 0
                     j == 90
          <6> HIDE DEF i, j
          <6>1. FourOf(i, j, x, y)
            BY TuplesJoin
          <6> QED BY <6>1 DEF FourOf, i, j
        <5> QED BY <1>4, <5>1, <5>2, Zenon
      <4>2. o = H!Admit(r, H!Resolved(h.dest), h.auth)
        BY <2>1, <2>2, <2>3, <4>1
      <4> HIDE DEF r
      <4> QED BY <4>2 DEF H!Admit
    <3>2. Reply(h) = r /\ H!Connected(h.proto) = <<>>
      BY DEF Reply, H!Connected, x, y
    <3>3. IsList(r) /\ Len(r) = 4
      BY TuplesAre
    <3> HIDE DEF r
    <3>4. IsPart(o.reply, Reply(h), 0, Len(Reply(h)) - Len(H!Connected(h.proto)))
      <4>1. Len(r) = Len(r) - 0 /\ \A j \in 1..Len(r) : 0 + j = j
        BY <3>3
      <4> QED BY <3>1, <3>2, <3>3, <4>1, NothingIs DEF IsPart
    <3> QED BY <1>8, <3>1, <3>4 DEF LetIn, t
  <2>4. CASE ~H!Knows(h, h.auth)
    <3>1. o.st = "closed" /\ o.reply = <<>>
      BY <2>1, <2>2, <2>4 DEF H!Refuse
    <3>2. ~H!Compatible(h)
      BY <2>4 DEF H!Compatible, H!Knows
    <3> QED BY <3>1, <3>2 DEF Refused
  <2> QED BY <2>3, <2>4
<1>17. Want(h, phase) - Eaten(h, h.proto, phase) = n
  BY <1>8, <1>11
<1> HIDE DEF a, o
<1> QED BY <1>9, <1>14, <1>15, <1>16, <1>17 DEF Understood, a, o

(* SOCKS5: the methods, the user if the server asks for one, the request.  *)
Methods(h) == <<5, 1, IF h.auth = H!None THEN 0 ELSE 2>>
User(h) == IF h.auth = H!None THEN <<>> ELSE <<1, 1, h.auth, 1, h.auth>>
Ask(h) == <<5, 1, 0>> \o H!Packed(h.atyp, h.dest)
Granted(h) == IF h.users = {} THEN <<5, 0>> ELSE <<5, 2, 1, 0>>

(* What stands where in a tuple of five.                                   *)
LEMMA FiveAre ==
  ASSUME NEW x, NEW y, NEW z, NEW v, NEW w
  PROVE  LET t == <<x, y, z, v, w>>
         IN IsList(t) /\ Len(t) = 5 /\ t[1] = x /\ t[2] = y /\ t[3] = z /\ t[4] = v /\ t[5] = w
BY DEF IsList

(* Two bytes are a part of a text that has them there.                     *)
LEMMA PairIsPart ==
  ASSUME NEW x, NEW y, NEW t, NEW k \in Nat, NEW e, e = k + 2, t[k + 1] = x, t[k + 2] = y
  PROVE  IsPart(<<x, y>>, t, k, e)
<1> DEFINE p == <<x, y>>
<1>1. IsList(p) /\ Len(p) = 2 /\ p[1] = x /\ p[2] = y
  BY TuplesAre
<1> HIDE DEF p
<1>2. e - k = 2 /\ \A j \in 1..2 : j = 1 \/ j = 2
  OBVIOUS
<1>3. IsPart(p, t, k, e)
  BY <1>1, <1>2 DEF IsPart
<1> QED BY <1>3 DEF p

(* What stands where in a SOCKS5 request.                                  *)
LEMMA AskIs ==
  ASSUME NEW h, HopFine(h)
  PROVE  LET p == H!Packed(h.atyp, h.dest)
             t == Ask(h)
         IN /\ IsList(p) /\ Len(p) \in Nat /\ Len(p) >= 3 /\ H!DestOf(p) = h.dest /\ AddressOK(h.atyp, h.dest) /\ h.atyp \in {1, 3, 4}
            /\ IsList(t) /\ Len(t) = 3 + Len(p) /\ t[1] = 5 /\ t[2] = 1 /\ t[3] = 0 /\ \A i \in 1..Len(p) : t[3 + i] = p[i]
<1> DEFINE p == H!Packed(h.atyp, h.dest)
           t == Ask(h)
           v == <<5, 1, 0>>
<1>1. /\ IsList(p) /\ Len(p) \in Nat /\ Len(p) >= 3 /\ H!DestOf(p) = h.dest /\ AddressOK(h.atyp, h.dest)
      /\ h.atyp \in {1, 3, 4}
  BY AddressIs DEF HopFine
<1>2. IsList(v) /\ Len(v) = 3 /\ v[1] = 5 /\ v[2] = 1 /\ v[3] = 0
  BY TuplesAre
<1>3. t = v \o p
  BY DEF Ask
<1> HIDE DEF p, t, v
<1>4. Is2(t, v, p)
  BY <1>1, <1>2, <1>3, Both
<1>5. IsList(t) /\ Len(t) = 3 + Len(p) /\ (\A i \in 1..3 : t[i] = v[i]) /\ \A i \in 1..Len(p) : t[3 + i] = p[i]
  BY <1>2, <1>4 DEF Is2
<1>6. 1 \in 1..3 /\ 2 \in 1..3 /\ 3 \in 1..3
  OBVIOUS
<1> QED BY <1>1, <1>2, <1>5, <1>6 DEF p, t

(* All that the client of SOCKS5 writes.                                   *)
LEMMA Socks5Text ==
  ASSUME NEW h, HopFine(h), h.proto = "socks5"
  PROVE  LET t == Text(h)
             k == 3 + Len(User(h))
         IN /\ IsList(t) /\ Len(t) \in Nat /\ k = (IF h.auth = H!None THEN 3 ELSE 8) /\ Len(t) = k + Len(Ask(h))
            /\ t[1] = 5 /\ t[2] = 1 /\ t[3] = (IF h.auth = H!None THEN 0 ELSE 2)
            /\ h.auth # H!None => t[4] = 1 /\ t[5] = 1 /\ t[6] = h.auth /\ t[7] = 1 /\ t[8] = h.auth
            /\ HasAt(t, k, Ask(h))
<1> DEFINE t == Text(h)
           m == IF h.auth = H!None THEN 0 ELSE 2
           v == Methods(h)
           w == User(h)
           x == Ask(h)
<1>1. t = (v \o w) \o x
  BY DEF Text, Says, H!Connect, H!Socks5Connect, H!Exchange, Methods, User, Ask
<1>2. IsList(v) /\ Len(v) = 3 /\ v[1] = 5 /\ v[2] = 1 /\ v[3] = m
  <2>1. v = <<5, 1, m>>
    BY DEF Methods
  <2> HIDE DEF m, v
  <2> QED BY <2>1, TuplesAre
<1>3. /\ IsList(w) /\ Len(w) = IF h.auth = H!None THEN 0 ELSE 5
      /\ h.auth # H!None => w[1] = 1 /\ w[2] = 1 /\ w[3] = h.auth /\ w[4] = 1 /\ w[5] = h.auth
  <2>1. CASE h.auth = H!None
    <3>1. w = <<>>
      BY <2>1 DEF User
    <3> QED BY <2>1, <3>1, NothingIs
  <2>2. CASE h.auth # H!None
    <3>1. w = <<1, 1, h.auth, 1, h.auth>>
      BY <2>2 DEF User
    <3> HIDE DEF w
    <3> QED BY <2>2, <3>1, FiveAre
  <2> QED BY <2>1, <2>2
<1>4. IsList(x) /\ Len(x) \in Nat
  BY AskIs
<1> HIDE DEF t, v, w, x
<1>5. Is3(t, v, w, x)
  BY <1>1, <1>2, <1>3, <1>4, Three
<1>6. /\ IsList(t) /\ Len(t) = 3 + Len(w) + Len(x)
      /\ (\A i \in 1..3 : t[i] = v[i])
      /\ (\A i \in 1..Len(w) : t[3 + i] = w[i])
      /\ \A i \in 1..Len(x) : t[3 + Len(w) + i] = x[i]
  BY <1>2, <1>5 DEF Is3
<1>7. t[1] = 5 /\ t[2] = 1 /\ t[3] = m
  <2>1. 1 \in 1..3 /\ 2 \in 1..3 /\ 3 \in 1..3
    OBVIOUS
  <2> QED BY <1>2, <1>6, <2>1
<1>8. h.auth # H!None => t[4] = 1 /\ t[5] = 1 /\ t[6] = h.auth /\ t[7] = 1 /\ t[8] = h.auth
  <2> SUFFICES ASSUME h.auth # H!None PROVE t[4] = 1 /\ t[5] = 1 /\ t[6] = h.auth /\ t[7] = 1 /\ t[8] = h.auth
    OBVIOUS
  <2>1. /\ 1 \in 1..Len(w) /\ 2 \in 1..Len(w) /\ 3 \in 1..Len(w) /\ 4 \in 1..Len(w) /\ 5 \in 1..Len(w)
        /\ 3 + 1 = 4 /\ 3 + 2 = 5 /\ 3 + 3 = 6 /\ 3 + 4 = 7 /\ 3 + 5 = 8
    BY <1>3
  <2>2. t[3 + 1] = w[1] /\ t[3 + 2] = w[2] /\ t[3 + 3] = w[3] /\ t[3 + 4] = w[4] /\ t[3 + 5] = w[5]
    BY <1>6, <2>1
  <2> QED BY <1>3, <2>1, <2>2
<1>9. Len(w) \in Nat /\ 3 + Len(w) = (IF h.auth = H!None THEN 3 ELSE 8) /\ Len(t) \in Nat
  BY <1>3, <1>4, <1>6
<1>10. HasAt(t, 3 + Len(w), x)
  <2>1. 3 + Len(w) + Len(x) <= Len(t)
    BY <1>4, <1>6, <1>9
  <2> QED BY <1>4, <1>6, <2>1 DEF HasAt
<1> QED BY <1>6, <1>7, <1>8, <1>9, <1>10 DEF t, w, x

(* All that the server of SOCKS5 answers.                                  *)
LEMMA Socks5Reply ==
  ASSUME NEW h, HopFine(h), h.proto = "socks5"
  PROVE  LET r == Reply(h)
             p == H!Packed(h.atyp, h.dest)
             k == Told(h, "socks5", "request")
         IN /\ IsList(r) /\ Len(r) \in Nat /\ k = (IF h.users = {} THEN 2 ELSE 4) /\ Len(r) = k + 3 + Len(p)
            /\ r[1] = 5 /\ (h.users = {} => r[2] = 0) /\ (h.users # {} => r[2] = 2 /\ r[3] = 1 /\ r[4] = 0)
            /\ r[k + 1] = 5 /\ r[k + 2] = 0 /\ r[k + 3] = 0 /\ \A i \in 1..Len(p) : r[k + 3 + i] = p[i]
<1> DEFINE r == Reply(h)
           p == H!Packed(h.atyp, h.dest)
           k == Told(h, "socks5", "request")
           v == Granted(h)
           w == <<5, 0, 0>>
<1>1. r = (v \o w) \o p
  BY DEF Reply, Granted
<1>2. k = IF h.users = {} THEN 2 ELSE 4
  BY DEF Told
<1>3. /\ IsList(v) /\ Len(v) = k /\ v[1] = 5 /\ (h.users = {} => v[2] = 0)
      /\ (h.users # {} => v[2] = 2 /\ v[3] = 1 /\ v[4] = 0)
  <2>1. CASE h.users = {}
    <3>1. v = <<5, 0>>
      BY <2>1 DEF Granted
    <3> HIDE DEF v
    <3> QED BY <1>2, <2>1, <3>1, TuplesAre
  <2>2. CASE h.users # {}
    <3>1. v = <<5, 2, 1, 0>>
      BY <2>2 DEF Granted
    <3> HIDE DEF v
    <3> QED BY <1>2, <2>2, <3>1, TuplesAre
  <2> QED BY <2>1, <2>2
<1>4. IsList(w) /\ Len(w) = 3 /\ w[1] = 5 /\ w[2] = 0 /\ w[3] = 0
  BY TuplesAre
<1>5. IsList(p) /\ Len(p) \in Nat
  BY AskIs
<1> HIDE DEF r, p, v, w, k
<1>6. Is3(r, v, w, p)
  BY <1>1, <1>3, <1>4, <1>5, Three
<1>7. /\ IsList(r) /\ Len(r) = k + 3 + Len(p) /\ (\A i \in 1..k : r[i] = v[i]) /\ (\A i \in 1..3 : r[k + i] = w[i])
      /\ \A i \in 1..Len(p) : r[k + 3 + i] = p[i]
  BY <1>3, <1>4, <1>6 DEF Is3
<1>8. r[1] = 5 /\ (h.users = {} => r[2] = 0) /\ (h.users # {} => r[2] = 2 /\ r[3] = 1 /\ r[4] = 0)
  <2>1. 1 \in 1..k /\ 2 \in 1..k /\ (h.users # {} => 3 \in 1..k /\ 4 \in 1..k)
    BY <1>2
  <2> QED BY <1>3, <1>7, <2>1
<1>9. r[k + 1] = 5 /\ r[k + 2] = 0 /\ r[k + 3] = 0
  <2>1. 1 \in 1..3 /\ 2 \in 1..3 /\ 3 \in 1..3
    OBVIOUS
  <2> QED BY <1>4, <1>7, <2>1
<1>10. Len(r) \in Nat
  BY <1>2, <1>5, <1>7
<1> QED BY <1>2, <1>7, <1>8, <1>9, <1>10 DEF r, p, k

(* A SOCKS5 server reads the methods of its own client right,              *)
LEMMA MethodsServer ==
  ASSUME NEW h, HopFine(h), h.proto = "socks5", NEW u, NEW s, Agrees(s, Text(h), 1)
  PROVE  Understood(h, "methods", u, s)
<1> DEFINE t == Text(h)
           m == IF h.auth = H!None THEN 0 ELSE 2
           x == <<1, m>>
           a == H!Scan(<<H!Counted>>, s)
           o == H!Socks5Accept(h, "methods", u, a.got)
<1>1. IsList(t) /\ Len(t) \in Nat /\ Len(t) >= 3 /\ t[2] = 1 /\ t[3] = m
  <2>1. /\ IsList(t) /\ Len(t) \in Nat /\ 3 + Len(User(h)) = (IF h.auth = H!None THEN 3 ELSE 8)
        /\ Len(t) = 3 + Len(User(h)) + Len(Ask(h)) /\ t[2] = 1 /\ t[3] = m
    BY Socks5Text
  <2>2. Len(Ask(h)) \in Nat
    BY AskIs, ListIs
  <2> HIDE DEF t, m
  <2> QED BY <2>1, <2>2
<1>2. IsList(x) /\ Len(x) = 2 /\ x[1] = 1 /\ x[2] = m
  <2> HIDE DEF m
  <2> QED BY TuplesAre
<1>3. IsList(s) /\ Len(s) \in Nat
  BY ListIs DEF Agrees
<1> HIDE DEF t, x
<1>4. Place(s, t, 1, 1, 0)
  BY <1>1 DEF Place, t
<1>5. HasAt(t, 1, x)
  <2>1. 1 + 1 = 2 /\ 1 + 2 = 3 /\ \A j \in 1..2 : j = 1 \/ j = 2
    OBVIOUS
  <2> QED BY <1>1, <1>2, <2>1 DEF HasAt
<1>6. Fits(H!Counted, s, 0, 2)
  <2> DEFINE n == 1
             q == 2
  <2>1. n \in Nat /\ t[1 + 1] = n /\ 1 < Len(t) /\ q = 0 + 1 + n
    BY <1>1
  <2> HIDE DEF n, q
  <2>2. Fits(H!Counted, s, 0, q)
    BY <1>4, <2>1, CountedLies
  <2> QED BY <2>2 DEF q
<1>7. /\ 2 <= Len(s) => a.st = "ok" /\ a.at = 2 /\ a.got[1] = SubSeq(s, 1, 2)
      /\ ~(2 <= Len(s)) => a.st = "more"
  <2> DEFINE q == 2
  <2>1. 0 < q /\ q \in Nat /\ Fits(H!Counted, s, 0, q)
    BY <1>6
  <2> HIDE DEF q
  <2>2. /\ q <= Len(s) => a.st = "ok" /\ a.at = q /\ a.got[1] = SubSeq(s, 1, q)
        /\ ~(q <= Len(s)) => a.st = "more"
    BY <1>3, <2>1, ScanOne
  <2> QED BY <2>2 DEF q
<1>8. ASSUME 2 <= Len(s) PROVE SubSeq(s, 1, 2) = x
  <2> DEFINE e == 2
             q == 1
  <2>1. e = 0 + Len(x) /\ e <= Len(s) /\ q = 0 + 1
    BY <1>2, <1>8
  <2> HIDE DEF e, q
  <2>2. SubSeq(s, q, e) = x
    BY <1>4, <1>5, <2>1, AgreesPiece
  <2> QED BY <2>2 DEF q, e
<1>9. Want(h, "methods") = 3 /\ Eaten(h, "socks5", "methods") = 1 /\ Told(h, "socks5", "methods") = 0
  BY DEF Want, Eaten, Told
<1>10. H!Reads(h.proto, "methods") = <<H!Counted>>
  BY DEF H!Reads, H!Socks5Reads
<1>11. ASSUME a.got[1] = x PROVE Refused(h, o) \/ GoneOn(h, "methods", o)
  <2> HIDE DEF a
  <2>1. H!ToSet(H!After(x, 1)) = {m}
    <3> DEFINE y == H!After(x, 1)
    <3>1. IsList(y) /\ Len(y) = 1 /\ y[1] = m
      <4>1. /\ IsList(H!After(x, 1)) /\ Len(H!After(x, 1)) = Len(x) - 1
            /\ \A i \in 1..(Len(x) - 1) : H!After(x, 1)[i] = x[1 + i]
        <5> DEFINE n == 1
        <5>1. n \in Nat /\ n <= Len(x)
          BY <1>2
        <5> HIDE DEF n, m
        <5>2. /\ IsList(H!After(x, n)) /\ Len(H!After(x, n)) = Len(x) - n
              /\ \A i \in 1..(Len(x) - n) : H!After(x, n)[i] = x[n + i]
          BY <1>2, <5>1, AfterIs
        <5> QED BY <5>2 DEF n
      <4>2. 1 \in 1..1 /\ Len(x) - 1 = 1 /\ 1 + 1 = 2
        BY <1>2
      <4>3. H!After(x, 1)[1] = x[1 + 1]
        BY <4>1, <4>2
      <4> QED BY <1>2, <4>1, <4>2, <4>3
    <3> HIDE DEF y, m
    <3>2. DOMAIN y = {1}
      BY <3>1, ListIs
    <3>3. {y[i] : i \in DOMAIN y} = {m}
      BY <3>1, <3>2
    <3>4. H!ToSet(y) = {m}
      BY <3>3 DEF H!ToSet
    <3> QED BY <3>4 DEF y
  <2>2. o = IF h.users = {} THEN H!Goes("request", <<5, 0>>, u)
            ELSE IF 2 \in {m} THEN H!Goes("auth", <<5, 2>>, u) ELSE H!Refuse(<<>>)
    BY <1>11, <2>1 DEF H!Socks5Accept, H!Remembered, H!None
  <2> HIDE DEF o
  <2>3. /\ IsList(Reply(h)) /\ Reply(h)[1] = 5 /\ (h.users = {} => Reply(h)[2] = 0)
        /\ (h.users # {} => Reply(h)[2] = 2)
    BY Socks5Reply
  <2>4. CASE h.users = {}
    <3>1. o.st = "read" /\ o.phase = "request" /\ o.user = u /\ o.reply = <<5, 0>>
      BY <2>2, <2>4 DEF H!Goes
    <3>2. Ready(h, "request", u)
      BY <2>4 DEF Ready
    <3>3. Eaten(h, "socks5", "request") = 3 /\ Told(h, "socks5", "request") = 2
      BY <2>4 DEF Eaten, Told
    <3>4. IsPart(<<5, 0>>, Reply(h), 0, 2)
      <4> DEFINE k == 0
                 i == k + 1
                 j == k + 2
      <4>1. k \in Nat /\ i = 1 /\ j = 2
        OBVIOUS
      <4>2. Reply(h)[i] = 5 /\ Reply(h)[j] = 0
        BY <2>3, <2>4, <4>1
      <4> QED BY <4>1, <4>2, PairIsPart
    <3> QED BY <1>9, <3>1, <3>2, <3>3, <3>4 DEF GoneOn
  <2>5. CASE h.users # {} /\ h.auth # H!None
    <3>1. o.st = "read" /\ o.phase = "auth" /\ o.user = u /\ o.reply = <<5, 2>>
      BY <2>2, <2>5 DEF H!Goes
    <3>2. Ready(h, "auth", u)
      BY <2>5 DEF Ready
    <3>3. Eaten(h, "socks5", "auth") = 3 /\ Told(h, "socks5", "auth") = 2
      BY <2>5 DEF Eaten, Told
    <3>4. IsPart(<<5, 2>>, Reply(h), 0, 2)
      <4> DEFINE k == 0
                 i == k + 1
                 j == k + 2
      <4>1. k \in Nat /\ i = 1 /\ j = 2
        OBVIOUS
      <4>2. Reply(h)[i] = 5 /\ Reply(h)[j] = 2
        BY <2>3, <2>5, <4>1
      <4> QED BY <4>1, <4>2, PairIsPart
    <3> QED BY <1>9, <3>1, <3>2, <3>3, <3>4 DEF GoneOn
  <2>6. CASE h.users # {} /\ h.auth = H!None
    <3>1. o.st = "closed" /\ o.reply = <<>>
      BY <2>2, <2>6 DEF H!Refuse
    <3>2. ~H!Compatible(h)
      <4>1. h.auth \notin h.users
        <5>1. h.users \subseteq 21..149
          BY DEF HopFine
        <5> QED BY <2>6, <5>1 DEF H!None
      <4> QED BY <2>6, <4>1 DEF H!Compatible
    <3> QED BY <3>1, <3>2 DEF Refused
  <2> QED BY <2>4, <2>5, <2>6
<1>12. H!Accepts(h.proto, h, "methods", u, a.got) = o
  BY DEF H!Accepts
<1> HIDE DEF a, o
<1> QED BY <1>7, <1>8, <1>9, <1>10, <1>11, <1>12 DEF Understood, a

(* the user it asked for,                                                  *)
LEMMA AuthServer ==
  ASSUME NEW h, HopFine(h), h.proto = "socks5", NEW u, Ready(h, "auth", u), NEW s, Agrees(s, Text(h), 3)
  PROVE  Understood(h, "auth", u, s)
<1> DEFINE t == Text(h)
           x == <<1, h.auth>>
           a == H!Scan(<<1, H!Counted, H!Counted>>, s)
           o == H!Socks5Accept(h, "auth", u, a.got)
<1>1. h.users # {} /\ h.auth # H!None
  BY DEF Ready
<1>2. IsList(t) /\ Len(t) \in Nat /\ Len(t) >= 8 /\ t[4] = 1 /\ t[5] = 1 /\ t[6] = h.auth /\ t[7] = 1 /\ t[8] = h.auth
  <2>1. /\ IsList(t) /\ Len(t) \in Nat /\ 3 + Len(User(h)) = (IF h.auth = H!None THEN 3 ELSE 8)
        /\ Len(t) = 3 + Len(User(h)) + Len(Ask(h))
        /\ h.auth # H!None => t[4] = 1 /\ t[5] = 1 /\ t[6] = h.auth /\ t[7] = 1 /\ t[8] = h.auth
    BY Socks5Text
  <2>2. Len(Ask(h)) \in Nat
    BY AskIs, ListIs
  <2> HIDE DEF t
  <2> QED BY <1>1, <2>1, <2>2
<1>3. IsList(x) /\ Len(x) = 2 /\ x[1] = 1 /\ x[2] = h.auth
  BY TuplesAre
<1>4. IsList(s) /\ Len(s) \in Nat
  BY ListIs DEF Agrees
<1> HIDE DEF t, x
<1>5. Place(s, t, 3, 3, 0) /\ Place(s, t, 3, 4, 1) /\ Place(s, t, 3, 6, 3)
  BY <1>2 DEF Place, t
<1>6. HasAt(t, 4, x) /\ HasAt(t, 6, x)
  <2>1. 4 + 1 = 5 /\ 4 + 2 = 6 /\ 6 + 1 = 7 /\ 6 + 2 = 8 /\ \A j \in 1..2 : j = 1 \/ j = 2
    OBVIOUS
  <2> QED BY <1>2, <1>3, <2>1 DEF HasAt
<1>7. Fits(1, s, 0, 1) /\ Fits(H!Counted, s, 1, 3) /\ Fits(H!Counted, s, 3, 5)
  <2> DEFINE f == 1
             b0 == 0
             b1 == 1
             b3 == 3
             b5 == 5
  <2>1. /\ f \in Nat /\ b1 = b0 + 1 /\ b3 = b1 + 1 + f /\ b5 = b3 + 1 + f
        /\ Place(s, t, 3, 3, b0) /\ Place(s, t, 3, 4, b1) /\ Place(s, t, 3, 6, b3)
        /\ t[3 + 1] = f /\ t[4 + 1] = f /\ t[6 + 1] = f /\ 3 < Len(t) /\ 4 < Len(t) /\ 6 < Len(t)
    BY <1>2, <1>5
  <2> HIDE DEF f, b0, b1, b3, b5
  <2>2. Fits(f, s, b0, b1)
    BY <2>1, NumberLies
  <2>3. Fits(H!Counted, s, b1, b3)
    BY <2>1, CountedLies
  <2>4. Fits(H!Counted, s, b3, b5)
    BY <2>1, CountedLies
  <2> QED BY <2>2, <2>3, <2>4 DEF f, b0, b1, b3, b5
<1>8. /\ 5 <= Len(s) => a.st = "ok" /\ a.at = 5 /\ a.got[2] = SubSeq(s, 1 + 1, 3) /\ a.got[3] = SubSeq(s, 3 + 1, 5)
      /\ ~(5 <= Len(s)) => a.st = "more"
  <2> DEFINE f == 1
             g == H!Counted
             m1 == 1
             m2 == 3
             m3 == 5
             w == H!Scan(<<f, g, g>>, s)
  <2>1. w = a /\ m1 \in Nat /\ m2 \in Nat /\ m3 \in Nat /\ 0 < m1 /\ m1 < m2 /\ m2 < m3
        /\ Fits(f, s, 0, m1) /\ Fits(g, s, m1, m2) /\ Fits(g, s, m2, m3)
    BY <1>7
  <2> HIDE DEF f, g, m1, m2, m3, a
  <2>2. Lie3(f, g, g, s, m1, m2, m3)
    BY <2>1 DEF Lie3
  <2>3. Took3(w, s, m1, m2, m3)
    BY <1>4, <2>2, ScanThree
  <2> HIDE DEF w
  <2> QED BY <2>1, <2>3 DEF Took3, m1, m2, m3
<1>9. ASSUME 5 <= Len(s) PROVE SubSeq(s, 1 + 1, 3) = x /\ SubSeq(s, 3 + 1, 5) = x
  <2> DEFINE b1 == 1
             b3 == 3
             b5 == 5
             p == b1 + 1
             q == b3 + 1
  <2>1. /\ b3 = b1 + Len(x) /\ b5 = b3 + Len(x) /\ b3 <= Len(s) /\ b5 <= Len(s) /\ p = b1 + 1 /\ q = b3 + 1
        /\ Place(s, t, 3, 4, b1) /\ Place(s, t, 3, 6, b3)
    BY <1>3, <1>4, <1>5, <1>9
  <2> HIDE DEF b1, b3, b5, p, q
  <2>2. SubSeq(s, p, b3) = x
    <3>1. p = b1 + 1 /\ b3 = b1 + Len(x) /\ b3 <= Len(s) /\ Place(s, t, 3, 4, b1) /\ HasAt(t, 4, x)
      BY <1>6, <2>1
    <3> QED BY <3>1, AgreesPiece
  <2>3. SubSeq(s, q, b5) = x
    <3>1. q = b3 + 1 /\ b5 = b3 + Len(x) /\ b5 <= Len(s) /\ Place(s, t, 3, 6, b3) /\ HasAt(t, 6, x)
      BY <1>6, <2>1
    <3> QED BY <3>1, AgreesPiece
  <2> QED BY <2>2, <2>3 DEF b1, b3, b5, p, q
<1>10. Want(h, "auth") = 8 /\ Eaten(h, "socks5", "auth") = 3 /\ Told(h, "socks5", "auth") = 2
  BY DEF Want, Eaten, Told
<1>11. H!Reads(h.proto, "auth") = <<1, H!Counted, H!Counted>>
  BY DEF H!Reads, H!Socks5Reads
<1>12. ASSUME a.got[2] = x, a.got[3] = x PROVE Refused(h, o) \/ GoneOn(h, "auth", o)
  <2> HIDE DEF a
  <2>1. o = IF h.auth \in h.users THEN H!Goes("request", <<1, 0>>, h.auth) ELSE H!Refuse(<<>>)
    BY <1>3, <1>12 DEF H!Socks5Accept
  <2> HIDE DEF o
  <2>2. IsList(Reply(h)) /\ (h.users # {} => Reply(h)[3] = 1 /\ Reply(h)[4] = 0)
    BY Socks5Reply
  <2>3. CASE h.auth \in h.users
    <3>1. o.st = "read" /\ o.phase = "request" /\ o.user = h.auth /\ o.reply = <<1, 0>>
      BY <2>1, <2>3 DEF H!Goes
    <3>2. Ready(h, "request", h.auth)
      BY <1>1 DEF Ready
    <3>3. Eaten(h, "socks5", "request") = 8 /\ Told(h, "socks5", "request") = 4
      BY <1>1 DEF Eaten, Told
    <3>4. IsPart(<<1, 0>>, Reply(h), 2, 4)
      <4> DEFINE k == 2
                 i == k + 1
                 j == k + 2
      <4>1. k \in Nat /\ i = 3 /\ j = 4
        OBVIOUS
      <4>2. Reply(h)[i] = 1 /\ Reply(h)[j] = 0
        BY <1>1, <2>2, <4>1
      <4>3. 4 = k + 2
        OBVIOUS
      <4> QED BY <4>1, <4>2, <4>3, PairIsPart
    <3> QED BY <1>10, <3>1, <3>2, <3>3, <3>4 DEF GoneOn
  <2>4. CASE h.auth \notin h.users
    <3>1. o.st = "closed" /\ o.reply = <<>>
      BY <2>1, <2>4 DEF H!Refuse
    <3>2. ~H!Compatible(h)
      BY <1>1, <2>4 DEF H!Compatible
    <3> QED BY <3>1, <3>2 DEF Refused
  <2> QED BY <2>3, <2>4
<1>13. H!Accepts(h.proto, h, "auth", u, a.got) = o
  BY DEF H!Accepts
<1> HIDE DEF a, o
<1> QED BY <1>8, <1>9, <1>10, <1>11, <1>12, <1>13 DEF Understood, a

(* and the request, unless the client has written a user nobody asked it   *)
(* for.                                                                    *)
LEMMA RequestServer ==
  ASSUME NEW h, HopFine(h), h.proto = "socks5", NEW u, Ready(h, "request", u),
         NEW s, Agrees(s, Text(h), Eaten(h, "socks5", "request")),
         h.users = {} /\ h.auth # H!None => Len(s) = 0
  PROVE  Understood(h, "request", u, s)
<1> DEFINE t == Text(h)
           p == H!Packed(h.atyp, h.dest)
           k == Eaten(h, "socks5", "request")
           a == H!Scan(<<5, 1, 0, H!Address>>, s)
           o == H!Socks5Accept(h, "request", u, a.got)
           n == 3 + Len(p)
<1>1. /\ IsList(p) /\ Len(p) \in Nat /\ Len(p) >= 3 /\ H!DestOf(p) = h.dest /\ AddressOK(h.atyp, h.dest) /\ h.atyp \in {1, 3, 4}
      /\ IsList(Ask(h)) /\ Len(Ask(h)) = n /\ Ask(h)[1] = 5 /\ Ask(h)[2] = 1 /\ Ask(h)[3] = 0
      /\ \A i \in 1..Len(p) : Ask(h)[3 + i] = p[i]
  BY AskIs
<1>2. /\ IsList(t) /\ Len(t) \in Nat /\ 3 + Len(User(h)) = (IF h.auth = H!None THEN 3 ELSE 8)
      /\ Len(t) = 3 + Len(User(h)) + Len(Ask(h)) /\ HasAt(t, 3 + Len(User(h)), Ask(h))
  BY Socks5Text
<1>3. k = (IF h.users = {} THEN 3 ELSE 8) /\ (h.users # {} => h.auth # H!None /\ u = h.auth)
  BY DEF Eaten, Ready
<1>4. IsList(s) /\ Len(s) \in Nat /\ n \in Nat /\ 3 < n
  BY <1>1, ListIs DEF Agrees
<1>5. p = H!Packed(h.atyp, h.dest)
  OBVIOUS
<1>6. Agrees(s, t, k)
  OBVIOUS
<1> HIDE DEF t, p, k
<1>7. /\ Fits(5, s, 0, 1) /\ Fits(1, s, 1, 2) /\ Fits(0, s, 2, 3) /\ Fits(H!Address, s, 3, n)
      /\ Len(s) > 0 => Place(s, t, k, k + 3, 3) /\ HasAt(t, k + 3, p) /\ k + n = Len(t)
  <2>1. CASE h.users = {} /\ h.auth # H!None
    <3>1. Len(s) = 0
      BY <2>1
    <3>2. ASSUME NEW f, NEW m \in Nat \ {0} PROVE Fits(f, s, 0, m)
      <4>1. IsList(H!After(s, 0)) /\ Len(H!After(s, 0)) = 0
        <5>1. 0 \in Nat /\ 0 <= Len(s) /\ Len(s) - 0 = 0
          BY <3>1
        <5> QED BY <1>4, <5>1, AfterIs
      <4>2. H!FieldSize(f, H!After(s, 0)) = 0
        BY <4>1, NoField
      <4> QED BY <3>1, <4>2 DEF Fits
    <3>3. ~(1 <= Len(s)) /\ ~(2 <= Len(s)) /\ ~(3 <= Len(s)) /\ 1 \in Nat \ {0}
      BY <3>1
    <3>4. Fits(5, s, 0, 1)
      BY <3>2, <3>3
    <3> QED BY <3>1, <3>3, <3>4 DEF Fits
  <2>2. CASE ~(h.users = {} /\ h.auth # H!None)
    <3>1. k = 3 + Len(User(h)) /\ (k = 3 \/ k = 8)
      BY <1>2, <1>3, <2>2
    <3>2. Len(t) = k + n /\ HasAt(t, k, Ask(h)) /\ k \in Nat
      BY <1>1, <1>2, <3>1
    <3>3. t[k + 1] = 5 /\ t[k + 2] = 1 /\ t[k + 3] = 0 /\ \A i \in 1..Len(p) : t[k + 3 + i] = p[i]
      <4>1. \A j \in 1..n : t[k + j] = Ask(h)[j]
        BY <1>1, <3>2 DEF HasAt
      <4>2. 1 \in 1..n /\ 2 \in 1..n /\ 3 \in 1..n /\ \A i \in 1..Len(p) : 3 + i \in 1..n /\ k + 3 + i = k + (3 + i)
        BY <1>1, <1>4, <3>2
      <4> QED BY <1>1, <4>1, <4>2
    <3> DEFINE i0 == k
               i1 == k + 1
               i2 == k + 2
               i3 == k + 3
               b0 == 0
               b1 == 1
               b2 == 2
               b3 == 3
    <3>4. Place(s, t, k, i0, b0) /\ Place(s, t, k, i1, b1) /\ Place(s, t, k, i2, b2) /\ Place(s, t, k, i3, b3)
      <4>1. i0 = k /\ i1 \in Nat /\ i2 \in Nat /\ i3 \in Nat /\ i1 - k = 1 /\ i2 - k = 2 /\ i3 - k = 3 /\ k <= i1 /\ k <= i2 /\ k <= i3 /\ k - k = 0
        BY <3>2
      <4> HIDE DEF i1, i2, i3
      <4> QED BY <1>2, <1>6, <3>2, <4>1 DEF Place
    <3>5. HasAt(t, i3, p)
      <4>1. i3 + Len(p) <= Len(t)
        BY <1>4, <3>2, <1>1
      <4> QED BY <1>1, <3>3, <4>1 DEF HasAt
    <3>6. /\ t[i0 + 1] = 5 /\ t[i1 + 1] = 1 /\ t[i2 + 1] = 0 /\ i0 < Len(t) /\ i1 < Len(t) /\ i2 < Len(t)
          /\ b1 = b0 + 1 /\ b2 = b1 + 1 /\ b3 = b2 + 1 /\ n = b3 + Len(p) + 0
      <4>1. i0 + 1 = k + 1 /\ i1 + 1 = k + 2 /\ i2 + 1 = k + 3
        BY <3>2
      <4>2. i0 < Len(t) /\ i1 < Len(t) /\ i2 < Len(t)
        BY <1>4, <3>2
      <4> QED BY <1>1, <3>3, <4>1, <4>2
    <3> DEFINE f5 == 5
               f1 == 1
               f0 == 0
    <3>7. f5 \in Nat /\ f1 \in Nat /\ f0 \in Nat /\ t[i0 + 1] = f5 /\ t[i1 + 1] = f1 /\ t[i2 + 1] = f0
      BY <3>6
    <3> HIDE DEF i0, i1, i2, i3, b0, b1, b2, b3, f5, f1, f0, n
    <3>8. Fits(f5, s, b0, b1)
      BY <3>4, <3>6, <3>7, NumberLies
    <3>9. Fits(f1, s, b1, b2)
      BY <3>4, <3>6, <3>7, NumberLies
    <3>10. Fits(f0, s, b2, b3)
      BY <3>4, <3>6, <3>7, NumberLies
    <3>11. Fits(H!Address, s, b3, n)
      <4> DEFINE f == H!Address
                 e == 0
      <4>1. (f = H!Address /\ h.atyp \in {1, 3, 4} /\ e = 0) \/ (f = H!AddressSum /\ e = (IF h.atyp >= 16 THEN 1 ELSE 0))
        BY <1>1
      <4>2. n = b3 + Len(p) + e
        BY <3>6
      <4> HIDE DEF f, e
      <4>3. Fits(f, s, b3, n)
        BY <1>1, <1>5, <3>4, <3>5, <4>1, <4>2, AddressLies
      <4> QED BY <4>3 DEF f
    <3> QED BY <3>2, <3>4, <3>5, <3>8, <3>9, <3>10, <3>11 DEF b0, b1, b2, b3, f5, f1, f0, i3
  <2> QED BY <2>1, <2>2
<1> HIDE DEF n
<1>8. /\ n <= Len(s) => a.st = "ok" /\ a.at = n /\ a.got[4] = SubSeq(s, 3 + 1, n)
      /\ ~(n <= Len(s)) => a.st = "more"
  <2> DEFINE f5 == 5
             f1 == 1
             f0 == 0
             g == H!Address
             m1 == 1
             m2 == 2
             m3 == 3
             w == H!Scan(<<f5, f1, f0, g>>, s)
  <2>1. w = a /\ m1 \in Nat /\ m2 \in Nat /\ m3 \in Nat /\ n \in Nat /\ 0 < m1 /\ m1 < m2 /\ m2 < m3 /\ m3 < n
        /\ Fits(f5, s, 0, m1) /\ Fits(f1, s, m1, m2) /\ Fits(f0, s, m2, m3) /\ Fits(g, s, m3, n)
    BY <1>4, <1>7
  <2> HIDE DEF f5, f1, f0, g, m1, m2, m3, a
  <2>2. Lie4(f5, f1, f0, g, s, m1, m2, m3, n)
    BY <2>1 DEF Lie4
  <2>3. Took4(w, s, m1, m2, m3, n)
    BY <1>4, <2>2, ScanFour
  <2> HIDE DEF w
  <2> QED BY <2>1, <2>3 DEF Took4, m3
<1>9. ASSUME n <= Len(s) PROVE SubSeq(s, 3 + 1, n) = p
  <2> DEFINE b == 3
             i == k + 3
             q == b + 1
  <2>1. n = b + Len(p) /\ Place(s, t, k, i, b) /\ HasAt(t, i, p) /\ q = b + 1
    BY <1>4, <1>7, <1>9 DEF n
  <2> HIDE DEF b, i, q
  <2>2. SubSeq(s, q, n) = p
    BY <1>9, <2>1, AgreesPiece
  <2> QED BY <2>2 DEF q, b
<1>10. Want(h, "request") = Len(t) /\ Told(h, "socks5", "request") = (IF h.users = {} THEN 2 ELSE 4)
  BY DEF Want, Told, t
<1>11. H!Reads(h.proto, "request") = <<5, 1, 0, H!Address>>
  BY DEF H!Reads, H!Socks5Reads
<1>12. ASSUME a.got[4] = p PROVE LetIn(h, "request", o)
  <2> HIDE DEF a
  <2> DEFINE v == <<5, 0, 0>>
             r == v \o p
  <2>1. o = H!Admit(r, H!DestOf(p), u)
    BY <1>12 DEF H!Socks5Accept
  <2> HIDE DEF o
  <2>2. o.st = "dial" /\ o.dest = h.dest /\ o.user = u /\ o.reply = r
    <3> HIDE DEF r
    <3> QED BY <1>1, <2>1 DEF H!Admit
  <2>3. IsList(v) /\ Len(v) = 3 /\ v[1] = 5 /\ v[2] = 0 /\ v[3] = 0
    BY TuplesAre
  <2> HIDE DEF v
  <2>4. Is2(r, v, p)
    BY <1>1, <2>3, Both
  <2> HIDE DEF r
  <2> DEFINE y == Reply(h)
             j == Told(h, "socks5", "request")
  <2>5. /\ IsList(y) /\ Len(y) = j + 3 + Len(p) /\ j \in Nat
        /\ y[j + 1] = 5 /\ y[j + 2] = 0 /\ y[j + 3] = 0 /\ \A i \in 1..Len(p) : y[j + 3 + i] = p[i]
    <3>1. LET rr == Reply(h)
              pp == H!Packed(h.atyp, h.dest)
              kk == Told(h, "socks5", "request")
          IN /\ IsList(rr) /\ Len(rr) = kk + 3 + Len(pp)
             /\ rr[kk + 1] = 5 /\ rr[kk + 2] = 0 /\ rr[kk + 3] = 0 /\ \A i \in 1..Len(pp) : rr[kk + 3 + i] = pp[i]
      BY Socks5Reply
    <3> QED BY <1>10, <3>1 DEF p
  <2> HIDE DEF y, j
  <2>6. IsPart(r, y, j, Len(y) - 0)
    <3>1. IsList(r) /\ Len(r) = 3 + Len(p) /\ (\A i \in 1..3 : r[i] = v[i]) /\ \A i \in 1..Len(p) : r[3 + i] = p[i]
      BY <2>3, <2>4 DEF Is2
    <3>2. Len(r) = (Len(y) - 0) - j
      BY <1>1, <2>5, <3>1
    <3>3. ASSUME NEW i \in 1..Len(r) PROVE r[i] = y[j + i]
      <4>1. CASE i <= 3
        <5>1. i = 1 \/ i = 2 \/ i = 3
          BY <4>1
        <5>2. 1 \in 1..3 /\ 2 \in 1..3 /\ 3 \in 1..3
          OBVIOUS
        <5>3. r[1] = 5 /\ r[2] = 0 /\ r[3] = 0
          BY <2>3, <3>1, <5>2
        <5> QED BY <2>5, <5>1, <5>3
      <4>2. CASE ~(i <= 3)
        <5>1. i - 3 \in 1..Len(p) /\ 3 + (i - 3) = i /\ j + 3 + (i - 3) = j + i
          BY <1>1, <2>5, <3>1, <4>2
        <5>2. r[3 + (i - 3)] = p[i - 3] /\ y[j + 3 + (i - 3)] = p[i - 3]
          BY <2>5, <3>1, <5>1
        <5> QED BY <5>1, <5>2
      <4> QED BY <4>1, <4>2
    <3> QED BY <3>1, <3>2, <3>3 DEF IsPart
  <2>7. Len(H!Connected(h.proto)) = 0
    BY NothingIs DEF H!Connected
  <2> QED BY <1>3, <1>10, <2>2, <2>6, <2>7 DEF LetIn, y, j, t
<1>13. H!Accepts(h.proto, h, "request", u, a.got) = o
  BY DEF H!Accepts
<1>14. Want(h, "request") - Eaten(h, "socks5", "request") = n \/ (Len(s) = 0 /\ Want(h, "request") - Eaten(h, "socks5", "request") > 0)
  <2>1. CASE h.users = {} /\ h.auth # H!None
    <3>1. Len(t) = 8 + n /\ k = 3
      BY <1>1, <1>2, <1>3, <2>1
    <3>2. Len(s) = 0
      BY <2>1
    <3>3. Want(h, "request") - k > 0
      BY <1>4, <1>10, <3>1
    <3> QED BY <3>2, <3>3 DEF k
  <2>2. CASE ~(h.users = {} /\ h.auth # H!None)
    <3>1. k = 3 + Len(User(h)) /\ (k = 3 \/ k = 8)
      BY <1>2, <1>3, <2>2
    <3>2. Len(t) = k + n
      BY <1>1, <1>2, <3>1
    <3>3. Want(h, "request") - k = n
      BY <1>4, <1>10, <3>1, <3>2
    <3> QED BY <3>3 DEF k
  <2> QED BY <2>1, <2>2
<1>15. CASE Want(h, "request") - Eaten(h, "socks5", "request") = n
  <2> HIDE DEF a, o
  <2> QED BY <1>8, <1>9, <1>11, <1>12, <1>13, <1>15 DEF Understood, a
<1>16. CASE Len(s) = 0 /\ Want(h, "request") - Eaten(h, "socks5", "request") > 0
  <2> HIDE DEF a, o
  <2>1. ~(n <= Len(s))
    BY <1>4, <1>16
  <2> DEFINE z == Want(h, "request") - Eaten(h, "socks5", "request")
  <2>2. ~(z <= Len(s))
    <3>1. z \in Int
      BY <1>2, <1>3, <1>10 DEF k
    <3> HIDE DEF z
    <3>2. z > 0
      BY <1>16 DEF z
    <3> QED BY <1>16, <3>1, <3>2
  <2> QED BY <1>8, <1>11, <1>13, <2>1, <2>2 DEF Understood, a
<1> QED BY <1>14, <1>15, <1>16

-----------------------------------------------------------------------------
(* Every server, every phase.                                              *)

(* What a server makes of a phase that its own client wrote, of every      *)
(* protocol.                                                               *)
LEMMA Understands ==
  ASSUME NEW h, HopFine(h), NEW phase, NEW u, Ready(h, phase, u),
         NEW s, Agrees(s, Text(h), Eaten(h, h.proto, phase)),
         h.proto = "socks5" /\ phase = "request" /\ h.users = {} /\ h.auth # H!None => Len(s) = 0
  PROVE  Understood(h, phase, u, s)
<1>1. CASE h.proto \in {"http", "h2", "ws", "cfp"}
  BY <1>1, HeadServer
<1>2. CASE h.proto = "tunnel"
  BY <1>2, TunnelServer
<1>3. CASE h.proto = "trojan"
  BY <1>3, TrojanServer
<1>4. CASE h.proto \in {"ss", "ssr"}
  BY <1>4, ShadowServer
<1>5. CASE h.proto = "socks4"
  BY <1>5, Socks4Server
<1>6. CASE h.proto = "socks5"
  <2>1. phase \in {"methods", "auth", "request"}
    BY <1>6 DEF Ready
  <2>2. CASE phase = "methods"
    <3>1. Agrees(s, Text(h), 1)
      BY <1>6, <2>2 DEF Eaten
    <3> QED BY <1>6, <2>2, <3>1, MethodsServer
  <2>3. CASE phase = "auth"
    <3>1. Agrees(s, Text(h), 3)
      BY <1>6, <2>3 DEF Eaten
    <3> QED BY <1>6, <2>3, <3>1, AuthServer
  <2>4. CASE phase = "request"
    BY <1>6, <2>4, RequestServer
  <2> QED BY <2>1, <2>2, <2>3, <2>4
<1>7. h.proto \in H!Protocol
  BY DEF HopFine
<1> QED BY <1>1, <1>2, <1>3, <1>4, <1>5, <1>6, <1>7 DEF H!Protocol

(* A run of reads is over, waits, or has failed.                           *)
LEMMA ScanStates ==
  ASSUME NEW fields, NEW s, Len(fields) \in Nat
  PROVE  H!Scan(fields, s).st \in {"ok", "more", "bad"}
<1> DEFINE n == Len(fields)
<1>1. PICK g : IsScan(g, fields, s, n) /\ H!Scan(fields, s) = g[n]
  BY ScanIs
<1>2. \A i \in 0..n : g[i] = IF i = 0 THEN [st |-> "ok", at |-> 0, got |-> <<>>]
                                      ELSE H!TakeField(fields[i], s, g[i - 1])
  BY <1>1 DEF IsScan
<1> HIDE DEF n
<1> DEFINE S == {"ok", "more", "bad"}
           T == {m \in Nat : m <= n => g[m].st \in S /\ "st" \in DOMAIN g[m]}
<1>3. 0 \in T
  <2>1. 0 <= n => g[0] = [st |-> "ok", at |-> 0, got |-> <<>>]
    BY <1>2, n \in Nat DEF n
  <2> QED BY <2>1
<1>4. ASSUME NEW m \in T PROVE m + 1 \in T
  <2>1. m \in Nat /\ m + 1 \in Nat
    OBVIOUS
  <2> SUFFICES ASSUME m + 1 <= n
               PROVE  g[m + 1].st \in S /\ "st" \in DOMAIN g[m + 1]
    BY <2>1
  <2>2. m <= n /\ m + 1 \in 0..n /\ m + 1 # 0 /\ (m + 1) - 1 = m
    BY <2>1, n \in Nat DEF n
  <2>3. g[m].st \in S /\ "st" \in DOMAIN g[m]
    BY <2>2
  <2>4. g[m + 1] = H!TakeField(fields[m + 1], s, g[m])
    BY <1>2, <2>2
  <2> HIDE DEF T
  <2> DEFINE r == g[m]
             f == fields[m + 1]
             k == H!FieldSize(f, H!After(s, r.at))
  <2>5. \/ g[m + 1] = r
        \/ g[m + 1] = [r EXCEPT !.st = "more"]
        \/ g[m + 1] = [r EXCEPT !.st = "bad"]
        \/ g[m + 1] = [st |-> "ok", at |-> r.at + k, got |-> Append(r.got, SubSeq(s, r.at + 1, r.at + k))]
    BY <2>4 DEF H!TakeField
  <2> HIDE DEF k, r
  <2> QED BY <2>3, <2>5 DEF r
<1> HIDE DEF T
<1>5. T = Nat
  <2>1. T \subseteq Nat
    BY DEF T
  <2> QED BY <1>3, <1>4, <2>1, Induction
<1>6. n \in T /\ n <= n
  BY <1>5 DEF n
<1>7. g[n].st \in S
  BY <1>6 DEF T
<1> QED BY <1>1, <1>7

-----------------------------------------------------------------------------
(* The rounds of a client.                                                 *)

(* What a protocol that took the bytes of another does with them.          *)
LEMMA MistakenRefuses ==
  ASSUME NEW h, HopFine(h), NEW p, H!Mistakes(p, h), NEW s, Agrees(s, Text(h), H!Taken(p, h)), NEW u,
         H!Scan(H!Reads(p, "request"), s).st # "more"
  PROVE  LET a == H!Scan(H!Reads(p, "request"), s)
         IN (IF a.st = "bad" THEN H!Refuse(<<>>) ELSE H!Accepts(p, h, "request", u, a.got)) = H!Refuse(<<>>)
<1> DEFINE a == H!Scan(H!Reads(p, "request"), s)
<1>1. CASE p = "http" /\ h.proto = "ws"
  <2>1. H!Reads(p, "request") = <<H!UntilBlank>> /\ H!Taken(p, h) = 0
    BY <1>1 DEF H!Reads, H!HeadRequest, H!Taken
  <2> DEFINE t == Text(h)
  <2>2. /\ IsHead(t, 71, 69, h.auth, HeadRest(h)) /\ H!BLANK \notin {71, 69, h.auth}
        /\ \A i \in 1..Len(HeadRest(h)) : HeadRest(h)[i] # H!BLANK
    BY <1>1, HeadText DEF Verb
  <2>3. Agrees(s, t, 0)
    BY <2>1
  <2> HIDE DEF t
  <2>4. LET b == H!Scan(<<H!UntilBlank>>, s)
        IN (Len(t) <= Len(s) => b.st = "ok" /\ b.got[1] = t) /\ (~(Len(t) <= Len(s)) => b.st = "more")
    BY <2>2, <2>3, HeadRead
  <2>5. a.st = "ok" /\ a.got[1] = t
    BY <2>1, <2>4
  <2>6. t[1] = 71
    BY <2>2 DEF IsHead
  <2> HIDE DEF a
  <2>7. H!Accepts(p, h, "request", u, a.got) = H!Refuse(<<>>)
    BY <1>1, <2>5, <2>6 DEF H!Accepts, H!HttpAccept
  <2> QED BY <2>5, <2>7 DEF a
<1>2. CASE p = "socks4" /\ h.proto \in {"ss", "ssr"} /\ h.auth = H!None /\ h.atyp = 4 /\ Head(h.dest) # 1
  <2> DEFINE f == <<1, H!Byte, H!Byte, H!Until0>>
             t == Text(h)
  <2>1. H!Reads(p, "request") = f /\ H!Taken(p, h) = 1
    BY <1>2 DEF H!Reads, H!Socks4Request, H!Taken, H!MarkSize
  <2>2. Agrees(s, t, 1)
    BY <2>1
  <2>3. IsList(t) /\ Len(t) >= 3 /\ Len(t) \in Nat /\ t[2] # 1
    <3> DEFINE q == H!Packed(Type(h), h.dest)
               r == Request(h)
    <3>1. /\ IsList(q) /\ Len(q) \in Nat /\ Len(q) >= 3 /\ AddressOK(Type(h), h.dest)
          /\ IsList(r) /\ Len(r) >= Len(q) /\ Len(r) \in Nat /\ (\A j \in 1..Len(q) : r[j] = q[j])
          /\ t = H!Key(h) \o r
      BY <1>2, RequestIs
    <3>2. IsPacked(q, Type(h), h.dest)
      BY <3>1, PackedIs
    <3>3. Type(h) \in {4, 20} /\ IsList(h.dest) /\ Len(h.dest) >= 2 /\ h.dest[1] # 1 /\ Len(h.dest) \in Nat
      <4>1. Type(h) \in {4, 20}
        BY <1>2 DEF Type
      <4>2. Head(h.dest) = h.dest[1]
        BY DEF Head
      <4> QED BY <1>2, <4>1, <4>2 DEF HopFine
    <3> HIDE DEF q, r
    <3>4. q[1 + 1] = h.dest[1]
      <4>1. 1 \in 1..Len(h.dest)
        BY <3>3
      <4>2. (IF Type(h) \in {3, 19} THEN 2 ELSE 1) = 1
        BY <3>3
      <4>3. \A i \in 1..Len(h.dest) : q[1 + i] = h.dest[i]
        BY <3>2, <4>2 DEF IsPacked
      <4> QED BY <4>1, <4>3
    <3>5. t = r
      <4>1. H!Key(h) = <<>>
        BY <1>2 DEF H!Key
      <4> QED BY <3>1, <4>1, NothingAdds
    <3>6. r[2] = q[2]
      BY <3>1
    <3> QED BY <3>1, <3>3, <3>4, <3>5, <3>6
  <2> HIDE DEF t
  <2>4. IsList(s) /\ Len(s) \in Nat /\ (Len(s) >= 1 => s[1] # 1)
    <3>1. IsList(s) /\ Len(s) \in Nat
      BY <2>2, ListIs DEF Agrees
    <3> QED BY <2>2, <2>3, <3>1 DEF Agrees
  <2>5. IsList(f) /\ Len(f) = 4 /\ f[1] = 1
    BY TuplesAre
  <2> HIDE DEF f
  <2>6. H!FieldSize(f[1], s) = 0 \/ H!FieldSize(f[1], s) < 0
    <3>1. H!FieldSize(1, s) = 0 \/ H!FieldSize(1, s) < 0
      BY <2>4, WrongField
    <3> QED BY <2>5, <3>1
  <2>7. H!Scan(f, s).st # "ok"
    BY <2>4, <2>5, <2>6, ScanRefuses
  <2>8. H!Scan(f, s).st \in {"ok", "more", "bad"}
    BY <2>5, ScanStates
  <2> QED BY <2>1, <2>7, <2>8
<1> QED BY <1>1, <1>2 DEF H!Mistakes

-----------------------------------------------------------------------------
(* The rounds of a client: what it has written and heard when one begins.  *)
Turns(h) == IF h.proto # "socks5" THEN 1 ELSE IF h.auth = H!None THEN 2 ELSE 3
Asking(h, r) == IF r = 1 THEN 0 ELSE IF r > Turns(h) THEN Len(Text(h)) ELSE IF r = 2 THEN 3 ELSE 8
Answer(h, r) == IF r = 1 THEN 0 ELSE IF r > Turns(h) THEN Len(Reply(h)) ELSE 2 * (r - 1)
Round(h, r) == H!Rounds(h)[r]

(* How many rounds a client has, and which.                                *)
LEMMA TurnsAre ==
  ASSUME NEW h
  PROVE  /\ Len(H!Rounds(h)) = Turns(h) /\ Turns(h) \in 1..3
         /\ h.proto # "socks5" => Round(h, 1) = "request"
         /\ h.proto = "socks5" => /\ Turns(h) >= 2 /\ Round(h, 1) = "methods" /\ Round(h, Turns(h)) = "request"
                                  /\ Turns(h) = 3 => Round(h, 2) = "auth"
BY TuplesAre DEF H!Rounds, Turns, Round

(* How what a client writes begins: enough to tell it by.                  *)
Begins(h, x, y) ==
  CASE h.proto \in {"http", "h2"} -> x = 67 /\ y = 79
    [] h.proto \in {"ws", "cfp"}  -> x = 71 /\ y = 69
    [] h.proto = "socks4"         -> x = 4
    [] h.proto = "socks5"         -> x = 5
    [] h.proto = "trojan"         -> x = 150 + h.auth /\ y = 150 + h.auth
    [] h.proto \in {"ss", "ssr"}  -> IF h.auth = H!None THEN x = Type(h) ELSE x = h.auth /\ y = h.auth
    [] OTHER                      -> TRUE
TextFine(h) ==
  LET t == Text(h)
  IN /\ IsList(t) /\ Len(t) \in Nat
     /\ h.proto = "tunnel" => Len(t) = 0
     /\ h.proto # "tunnel" => Len(t) >= 2 /\ Begins(h, t[1], t[2])

(* Two and more make a list that begins as the first does.                 *)
LEMMA BeginsAs ==
  ASSUME NEW a, NEW b, IsList(a), IsList(b), NEW x, NEW y, Len(a) >= 2, a[1] = x, a[2] = y
  PROVE  LET t == a \o b IN IsList(t) /\ Len(t) \in Nat /\ Len(t) >= 2 /\ t[1] = x /\ t[2] = y
<1> DEFINE t == a \o b
<1>1. Is2(t, a, b)
  BY Both
<1>2. Len(a) \in Nat /\ Len(b) \in Nat
  BY ListIs
<1> HIDE DEF t
<1>3. IsList(t) /\ Len(t) = Len(a) + Len(b) /\ (\A i \in 1..Len(a) : t[i] = a[i]) /\ 1 \in 1..Len(a) /\ 2 \in 1..Len(a)
  BY <1>1, <1>2 DEF Is2
<1> QED BY <1>2, <1>3 DEF t

(* What a client writes is enough to tell it by.                           *)
LEMMA TextIsFine ==
  ASSUME NEW h, HopFine(h)
  PROVE  TextFine(h)
<1> DEFINE t == Text(h)
<1>1. CASE h.proto \in {"http", "h2", "ws", "cfp"}
  <2>1. IsHead(t, Verb(h)[1], Verb(h)[2], h.auth, HeadRest(h))
    BY <1>1, HeadText
  <2>2. IsList(t) /\ Len(t) \in Nat /\ Len(t) >= 2 /\ t[1] = Verb(h)[1] /\ t[2] = Verb(h)[2]
    BY <2>1 DEF IsHead
  <2> HIDE DEF t
  <2> QED BY <1>1, <2>2 DEF TextFine, Begins, Verb, t
<1>2. CASE h.proto = "tunnel"
  <2>1. t = <<>>
    BY <1>2 DEF Text, Says, H!Connect, H!TunnelConnect, H!Exchange
  <2> QED BY <1>2, <2>1, NothingIs DEF TextFine
<1>3. CASE h.proto = "trojan"
  <2> DEFINE p == H!Packed(h.atyp, h.dest)
             w == 150 + h.auth
             x == <<w, w>>
             y == <<H!CRLF, 1>>
             z == <<H!CRLF>>
             r == x \o y
             q == r \o p
  <2>1. t = q \o z
    BY <1>3 DEF Text, Says, H!Connect, H!TrojanConnect, H!Exchange, H!Hash
  <2>2. IsList(p)
    BY AddressIs
  <2> HIDE DEF w, p
  <2>3. IsList(x) /\ Len(x) >= 2 /\ x[1] = w /\ x[2] = w /\ IsList(y) /\ IsList(z)
    <3>1. IsList(x) /\ Len(x) = 2 /\ x[1] = w /\ x[2] = w
      BY TuplesAre
    <3>2. IsList(y) /\ IsList(z)
      BY TuplesAre
    <3> QED BY <3>1, <3>2
  <2> HIDE DEF x, y, z
  <2>4. IsList(r) /\ Len(r) >= 2 /\ r[1] = w /\ r[2] = w
    BY <2>3, BeginsAs
  <2> HIDE DEF r
  <2>5. IsList(q) /\ Len(q) >= 2 /\ q[1] = w /\ q[2] = w
    BY <2>2, <2>4, BeginsAs
  <2> HIDE DEF q, t
  <2>6. IsList(t) /\ Len(t) \in Nat /\ Len(t) >= 2 /\ t[1] = w /\ t[2] = w
    BY <2>1, <2>3, <2>5, BeginsAs
  <2> QED BY <1>3, <2>6 DEF TextFine, Begins, t, w
<1>4. CASE h.proto \in {"ss", "ssr"}
  <2> DEFINE r == Request(h)
             c == H!Key(h)
  <2>1. IsList(r) /\ Len(r) \in Nat /\ Len(r) >= 2 /\ r[1] = Type(h) /\ t = c \o r
    <3> DEFINE p == H!Packed(Type(h), h.dest)
               e == IF h.proto = "ss" /\ h.ota THEN 1 ELSE 0
    <3>1. Len(p) \in Nat /\ Len(p) >= 3 /\ IsList(r) /\ Len(r) = Len(p) + e /\ r[1] = Type(h) /\ t = c \o r
      BY <1>4, RequestIs
    <3> HIDE DEF p, r, t, c
    <3> QED BY <3>1
  <2>2. CASE h.auth = H!None
    <3>1. t = r
      <4>1. c = <<>>
        BY <2>2 DEF H!Key
      <4> QED BY <2>1, <4>1, NothingAdds
    <3> HIDE DEF r, t, c
    <3> QED BY <1>4, <2>1, <2>2, <3>1 DEF TextFine, Begins, t
  <2>3. CASE h.auth # H!None
    <3>1. c = <<h.auth, h.auth>>
      BY <2>3 DEF H!Key
    <3> HIDE DEF r, t, c
    <3>2. IsList(c) /\ Len(c) >= 2 /\ c[1] = h.auth /\ c[2] = h.auth
      <4>1. IsList(c) /\ Len(c) = 2 /\ c[1] = h.auth /\ c[2] = h.auth
        BY <3>1, TuplesAre
      <4> QED BY <4>1
    <3>3. IsList(t) /\ Len(t) \in Nat /\ Len(t) >= 2 /\ t[1] = h.auth /\ t[2] = h.auth
      BY <2>1, <3>2, BeginsAs
    <3> QED BY <1>4, <2>3, <3>3 DEF TextFine, Begins, t
  <2> QED BY <2>2, <2>3
<1>5. CASE h.proto = "socks4"
  <2> DEFINE x == H!Last(h.dest)
             y == Head(H!Resolved(h.dest))
             v == <<4, 1, x, y>>
             c == IF h.auth = H!None THEN <<>> ELSE <<h.auth>>
             z == <<0>>
             r == v \o c
  <2>1. t = r \o z
    BY <1>5 DEF Text, Says, H!Connect, H!Socks4Connect, H!Exchange
  <2> HIDE DEF x, y
  <2>2. IsList(v) /\ Len(v) >= 2 /\ v[1] = 4 /\ v[2] = 1 /\ IsList(z)
    <3>1. IsList(v) /\ Len(v) = 4 /\ v[1] = 4 /\ v[2] = 1
      BY TuplesAre
    <3>2. IsList(z)
      BY TuplesAre
    <3> QED BY <3>1, <3>2
  <2>3. IsList(c)
    <3>1. c = <<>> \/ c = <<h.auth>>
      OBVIOUS
    <3> HIDE DEF c
    <3> QED BY <3>1, TuplesAre
  <2> HIDE DEF c, v, z
  <2>4. IsList(r) /\ Len(r) >= 2 /\ r[1] = 4 /\ r[2] = 1
    BY <2>2, <2>3, BeginsAs
  <2> HIDE DEF r, t
  <2>5. IsList(t) /\ Len(t) \in Nat /\ Len(t) >= 2 /\ t[1] = 4 /\ t[2] = 1
    BY <2>1, <2>2, <2>4, BeginsAs
  <2> QED BY <1>5, <2>5 DEF TextFine, Begins, t
<1>6. CASE h.proto = "socks5"
  <2> DEFINE k == 3 + Len(User(h))
  <2>1. IsList(t) /\ Len(t) \in Nat /\ k = (IF h.auth = H!None THEN 3 ELSE 8) /\ Len(t) = k + Len(Ask(h)) /\ t[1] = 5
    BY <1>6, Socks5Text
  <2>2. Len(Ask(h)) \in Nat
    BY AskIs, ListIs
  <2> HIDE DEF k, t
  <2>3. Len(t) >= 2
    BY <2>1, <2>2
  <2> QED BY <1>6, <2>1, <2>3 DEF TextFine, Begins, t
<1>7. h.proto \in H!Protocol
  BY DEF HopFine
<1> QED BY <1>1, <1>2, <1>3, <1>4, <1>5, <1>6, <1>7 DEF H!Protocol

(* The first thing a client writes is what its whole text begins with.     *)
LEMMA FirstIs ==
  ASSUME NEW h, HopFine(h), h.proto # "tunnel"
  PROVE  LET f == H!First(h)
         IN IsList(f) /\ Len(f) \in Nat /\ Len(f) >= 2 /\ f[1] = Text(h)[1] /\ f[2] = Text(h)[2]
<1>1. H!First(h) = Says(h, Round(h, 1))
  BY DEF H!First, Says, Round
<1>2. CASE h.proto # "socks5"
  <2>1. H!First(h) = Text(h)
    BY <1>1, <1>2, TurnsAre DEF Text
  <2> QED BY <2>1, TextIsFine DEF TextFine
<1>3. CASE h.proto = "socks5"
  <2> DEFINE m == IF h.auth = H!None THEN 0 ELSE 2
             f == <<5, 1, m>>
  <2>1. Round(h, 1) = "methods"
    BY <1>3, TurnsAre
  <2>2. H!First(h) = f
    BY <1>1, <1>3, <2>1 DEF Says, H!Connect, H!Socks5Connect, H!Exchange
  <2> HIDE DEF m
  <2>3. IsList(f) /\ Len(f) = 3 /\ f[1] = 5 /\ f[2] = 1
    BY TuplesAre
  <2> HIDE DEF f
  <2>4. Text(h)[1] = 5 /\ Text(h)[2] = 1
    BY <1>3, Socks5Text
  <2> QED BY <2>2, <2>3, <2>4
<1> QED BY <1>2, <1>3

-----------------------------------------------------------------------------
(* What a client hears.                                                    *)

(* A text is a part of itself.                                             *)
LEMMA AllIsPart ==
  ASSUME NEW t, IsList(t), NEW e, e = Len(t)
  PROVE  IsPart(t, t, 0, e)
<1>1. Len(t) \in Nat
  BY ListIs
<1> QED BY <1>1 DEF IsPart

(* So is what stands somewhere in it.                                      *)
LEMMA HasIsPart ==
  ASSUME NEW t, NEW x, NEW k \in Nat, HasAt(t, k, x), NEW e, e = k + Len(x)
  PROVE  IsPart(x, t, k, e)
BY DEF HasAt, IsPart

(* What a client has written when a round begins and when it ends.         *)
Spoken(h, r) ==
  /\ Asking(h, r) \in Nat /\ Asking(h, r + 1) \in Nat
  /\ Asking(h, r) <= Asking(h, r + 1) /\ Asking(h, r + 1) <= Len(Text(h))
  /\ h.proto # "tunnel" => Asking(h, r + 1) >= 2
  /\ IsPart(Says(h, Round(h, r)), Text(h), Asking(h, r), Asking(h, r + 1))

(* What a client writes in a round is the part of its text up to there.    *)
LEMMA ClientSays ==
  ASSUME NEW h, HopFine(h), NEW r \in 1..Turns(h)
  PROVE  Spoken(h, r)
<1> DEFINE t == Text(h)
<1>0. r \in 1..3 /\ r >= 1 /\ r <= Turns(h)
  BY TurnsAre
<1>1. IsList(t) /\ Len(t) \in Nat /\ (h.proto # "tunnel" => Len(t) >= 2)
  BY TextIsFine DEF TextFine
<1>2. CASE h.proto # "socks5"
  <2>1. Turns(h) = 1 /\ r = 1
    BY <1>0, <1>2 DEF Turns
  <2>2. Asking(h, r) = 0 /\ Asking(h, r + 1) = Len(t)
    BY <2>1 DEF Asking
  <2>3. Says(h, Round(h, r)) = t
    BY <1>2, <2>1, TurnsAre DEF Text
  <2> HIDE DEF t
  <2>4. IsPart(t, t, 0, Len(t))
    BY <1>1, AllIsPart
  <2> QED BY <1>1, <2>2, <2>3, <2>4 DEF Spoken, t
<1>3. CASE h.proto = "socks5"
  <2> DEFINE k == 3 + Len(User(h))
             a == Ask(h)
             m == IF h.auth = H!None THEN 0 ELSE 2
             v == <<5, 1, m>>
             w == <<1, 1, h.auth, 1, h.auth>>
  <2>1. /\ k = (IF h.auth = H!None THEN 3 ELSE 8) /\ Len(t) = k + Len(a) /\ HasAt(t, k, a)
        /\ t[1] = 5 /\ t[2] = 1 /\ t[3] = m
        /\ h.auth # H!None => t[4] = 1 /\ t[5] = 1 /\ t[6] = h.auth /\ t[7] = 1 /\ t[8] = h.auth
    BY <1>3, Socks5Text
  <2>2. IsList(a) /\ Len(a) \in Nat
    BY AskIs, ListIs
  <2>3. Turns(h) = (IF h.auth = H!None THEN 2 ELSE 3)
    BY <1>3 DEF Turns
  <2> HIDE DEF t, k, a
  <2>4. Len(t) \in Nat /\ Len(t) >= 3 /\ (h.auth # H!None => Len(t) >= 8) /\ k \in Nat
    BY <2>1, <2>2
  <2>5. CASE r = 1
    <3>1. Asking(h, r) = 0 /\ Asking(h, r + 1) = 3
      BY <2>3, <2>5 DEF Asking
    <3>2. Says(h, Round(h, r)) = v
      BY <1>3, <2>5, TurnsAre DEF Says, H!Connect, H!Socks5Connect, H!Exchange
    <3> HIDE DEF m
    <3>3. IsList(v) /\ Len(v) = 3 /\ v[1] = 5 /\ v[2] = 1 /\ v[3] = m
      BY TuplesAre
    <3> HIDE DEF v
    <3>4. HasAt(t, 0, v)
      <4>1. \A j \in 1..3 : j = 1 \/ j = 2 \/ j = 3
        OBVIOUS
      <4> QED BY <2>1, <2>4, <3>3, <4>1 DEF HasAt
    <3>5. IsPart(v, t, 0, 3)
      <4>1. 3 = 0 + Len(v)
        BY <3>3
      <4> QED BY <3>4, <4>1, HasIsPart
    <3> QED BY <1>3, <2>4, <3>1, <3>2, <3>5 DEF Spoken, t
  <2>6. CASE r # 1 /\ r = Turns(h)
    <3>1. Asking(h, r) = k /\ Asking(h, r + 1) = Len(t)
      BY <2>1, <2>3, <2>6 DEF Asking, t
    <3>2. Says(h, Round(h, r)) = a
      BY <1>3, <2>6, TurnsAre DEF Says, H!Connect, H!Socks5Connect, H!Exchange, Ask, a
    <3>3. IsPart(a, t, k, Len(t))
      BY <2>1, <2>4, HasIsPart
    <3> QED BY <1>3, <2>1, <2>2, <2>4, <3>1, <3>2, <3>3 DEF Spoken, t
  <2>7. CASE r # 1 /\ r # Turns(h)
    <3>1. r = 2 /\ h.auth # H!None /\ Turns(h) = 3
      BY <1>0, <2>3, <2>7
    <3>2. Asking(h, r) = 3 /\ Asking(h, r + 1) = 8
      BY <3>1 DEF Asking
    <3>3. Says(h, Round(h, r)) = w
      BY <1>3, <3>1, TurnsAre DEF Says, H!Connect, H!Socks5Connect, H!Exchange
    <3>4. IsList(w) /\ Len(w) = 5 /\ w[1] = 1 /\ w[2] = 1 /\ w[3] = h.auth /\ w[4] = 1 /\ w[5] = h.auth
      BY FiveAre
    <3> HIDE DEF w
    <3>5. HasAt(t, 3, w)
      <4>1. \A j \in 1..5 : j = 1 \/ j = 2 \/ j = 3 \/ j = 4 \/ j = 5
        OBVIOUS
      <4>2. t[3 + 1] = w[1] /\ t[3 + 2] = w[2] /\ t[3 + 3] = w[3] /\ t[3 + 4] = w[4] /\ t[3 + 5] = w[5]
        BY <2>1, <3>1, <3>4
      <4> QED BY <2>4, <3>1, <3>4, <4>1, <4>2 DEF HasAt
    <3>6. IsPart(w, t, 3, 8)
      <4>1. 8 = 3 + Len(w)
        BY <3>4
      <4> QED BY <3>5, <4>1, HasIsPart
    <3> QED BY <1>3, <2>4, <3>1, <3>2, <3>3, <3>6 DEF Spoken, t
  <2> QED BY <2>5, <2>6, <2>7
<1> QED BY <1>2, <1>3

(* The whole answer of a server.                                           *)
ReplyFine(h) ==
  LET t == Reply(h)
  IN /\ IsList(t) /\ Len(t) \in Nat
     /\ h.proto \in {"http", "ws", "cfp"} => Len(t) = 2 /\ t[2] = H!BLANK /\ t[1] = IF h.proto = "http" THEN 200 ELSE 101
     /\ h.proto = "socks4" => Len(t) = 4 /\ t[1] = 0 /\ t[2] = 90
     /\ h.proto = "socks5" => Len(t) >= 2
     /\ h.proto \in {"h2", "tunnel", "trojan", "ss", "ssr"} => Len(t) = 0

(* What a server answers in a phase is the part of its whole answer up to  *)
(* there.                                                                  *)
LEMMA ReplyIsFine ==
  ASSUME NEW h, HopFine(h)
  PROVE  ReplyFine(h)
<1> DEFINE t == Reply(h)
<1>1. CASE h.proto \in {"http", "ws", "cfp"}
  <2> DEFINE x == IF h.proto = "http" THEN 200 ELSE 101
  <2>1. t = <<x, H!BLANK>>
    BY <1>1 DEF Reply
  <2> HIDE DEF x, t
  <2>2. IsList(t) /\ Len(t) = 2 /\ t[1] = x /\ t[2] = H!BLANK
    BY <2>1, TuplesAre
  <2> QED BY <1>1, <2>2 DEF ReplyFine, t, x
<1>2. CASE h.proto = "socks4"
  <2> DEFINE x == H!Last(h.dest)
             y == Head(H!Resolved(h.dest))
  <2>1. t = <<0, 90, x, y>>
    BY <1>2 DEF Reply
  <2> HIDE DEF x, y, t
  <2>2. IsList(t) /\ Len(t) = 4 /\ t[1] = 0 /\ t[2] = 90
    BY <2>1, TuplesAre
  <2> QED BY <1>2, <2>2 DEF ReplyFine, t
<1>3. CASE h.proto = "socks5"
  <2> DEFINE p == H!Packed(h.atyp, h.dest)
             k == Told(h, "socks5", "request")
  <2>1. IsList(t) /\ Len(t) \in Nat /\ k = (IF h.users = {} THEN 2 ELSE 4) /\ Len(t) = k + 3 + Len(p)
    BY <1>3, Socks5Reply
  <2>2. Len(p) \in Nat
    BY AskIs
  <2> HIDE DEF t, p, k
  <2>3. Len(t) >= 2
    BY <2>1, <2>2
  <2> QED BY <1>3, <2>1, <2>3 DEF ReplyFine, t
<1>4. CASE h.proto \in {"h2", "tunnel", "trojan", "ss", "ssr"}
  <2>1. t = <<>>
    BY <1>4 DEF Reply
  <2> QED BY <1>4, <2>1, NothingIs DEF ReplyFine
<1>5. h.proto \in H!Protocol
  BY DEF HopFine
<1> QED BY <1>1, <1>2, <1>3, <1>4, <1>5 DEF H!Protocol

(* A field that is the number at a place.                                  *)
Numbered(f, x) == f = H!Byte \/ (f \in Nat /\ x = f)

(* A scan of two bytes that the buffer has,                                *)
LEMMA PairRead ==
  ASSUME NEW s, NEW t, NEW k \in Nat, Agrees(s, t, k), IsList(t), k + 2 <= Len(t),
         NEW f1, NEW f2, Numbered(f1, t[k + 1]), Numbered(f2, t[k + 2])
  PROVE  LET a == H!Scan(<<f1, f2>>, s)
         IN /\ 2 <= Len(s) => a.st = "ok" /\ a.at = 2
            /\ ~(2 <= Len(s)) => a.st = "more"
<1> DEFINE i1 == k + 1
           b0 == 0
           b1 == 1
           b2 == 2
<1>1. Len(t) \in Nat /\ IsList(s)
  BY ListIs DEF Agrees
<1>2. i1 \in Nat /\ k <= i1 /\ b0 = k - k /\ b1 = i1 - k /\ k <= k /\ k < Len(t) /\ i1 < Len(t) /\ k + 2 = i1 + 1
  BY <1>1
<1>3. b1 = b0 + 1 /\ b2 = b1 + 1 /\ 0 < b1 /\ b1 < b2 /\ b1 \in Nat /\ b2 \in Nat
  OBVIOUS
<1>4. Numbered(f2, t[i1 + 1])
  BY <1>2
<1> HIDE DEF i1, b0, b1, b2
<1>5. Place(s, t, k, k, b0) /\ Place(s, t, k, i1, b1)
  BY <1>2 DEF Place
<1>6. Fits(f1, s, b0, b1) /\ Fits(f2, s, b1, b2)
  BY <1>2, <1>3, <1>4, <1>5, NumberLies DEF Numbered
<1>7. Fits(f1, s, 0, b1)
  BY <1>6 DEF b0
<1>8. LET a == H!Scan(<<f1, f2>>, s)
      IN (b2 <= Len(s) => a.st = "ok" /\ a.at = b2) /\ (~(b2 <= Len(s)) => a.st = "more")
  BY <1>1, <1>3, <1>6, <1>7, ScanTwo
<1> QED BY <1>8 DEF b2

(* of three and a field behind them,                                       *)
LEMMA FourRead ==
  ASSUME NEW s, NEW t, NEW k \in Nat, Agrees(s, t, k), IsList(t), k + 3 <= Len(t),
         NEW f1, NEW f2, NEW f3, NEW f4, NEW n \in Nat, n > 3,
         Numbered(f1, t[k + 1]), Numbered(f2, t[k + 2]), Numbered(f3, t[k + 3]), Fits(f4, s, 3, n)
  PROVE  LET a == H!Scan(<<f1, f2, f3, f4>>, s)
         IN /\ n <= Len(s) => a.st = "ok" /\ a.at = n
            /\ ~(n <= Len(s)) => a.st = "more"
<1> DEFINE i1 == k + 1
           i2 == k + 2
           b0 == 0
           b1 == 1
           b2 == 2
           b3 == 3
<1>1. Len(t) \in Nat /\ IsList(s)
  BY ListIs DEF Agrees
<1>2. /\ i1 \in Nat /\ i2 \in Nat /\ k <= i1 /\ k <= i2 /\ b0 = k - k /\ b1 = i1 - k /\ b2 = i2 - k /\ k <= k
      /\ k < Len(t) /\ i1 < Len(t) /\ i2 < Len(t) /\ k + 2 = i1 + 1 /\ k + 3 = i2 + 1
  BY <1>1
<1>3. /\ b1 = b0 + 1 /\ b2 = b1 + 1 /\ b3 = b2 + 1 /\ 0 < b1 /\ b1 < b2 /\ b2 < b3 /\ b3 < n
      /\ b1 \in Nat /\ b2 \in Nat /\ b3 \in Nat
  OBVIOUS
<1>4. Numbered(f2, t[i1 + 1]) /\ Numbered(f3, t[i2 + 1])
  BY <1>2
<1>5. Fits(f4, s, b3, n)
  OBVIOUS
<1> HIDE DEF i1, i2, b0, b1, b2, b3
<1>6. Place(s, t, k, k, b0) /\ Place(s, t, k, i1, b1) /\ Place(s, t, k, i2, b2)
  BY <1>2 DEF Place
<1>7. Fits(f1, s, b0, b1)
  BY <1>2, <1>3, <1>6, NumberLies DEF Numbered
<1>8. Fits(f2, s, b1, b2)
  BY <1>2, <1>3, <1>4, <1>6, NumberLies DEF Numbered
<1>9. Fits(f3, s, b2, b3)
  BY <1>2, <1>3, <1>4, <1>6, NumberLies DEF Numbered
<1>10. Fits(f1, s, 0, b1)
  BY <1>7 DEF b0
<1>11. Lie4(f1, f2, f3, f4, s, b1, b2, b3, n)
  BY <1>3, <1>5, <1>8, <1>9, <1>10 DEF Lie4
<1>12. Took4(H!Scan(<<f1, f2, f3, f4>>, s), s, b1, b2, b3, n)
  BY <1>1, <1>11, ScanFour
<1> QED BY <1>12 DEF Took4

(* and of nothing.                                                         *)
LEMMA NoneRead ==
  ASSUME NEW s, IsList(s)
  PROVE  H!Scan(<<>>, s).st = "ok" /\ H!Scan(<<>>, s).at = 0
<1> DEFINE a == H!Scan(<<>>, s)
           at == [i \in 0..0 |-> 0]
<1>1. LieAt(<<>>, 0, s, at)
  <2>1. at \in [0..0 -> Nat] /\ at[0] = 0 /\ \A i \in 1..0 : FALSE
    OBVIOUS
  <2> HIDE DEF at
  <2> QED BY <2>1, NothingIs DEF LieAt
<1>2. at[0] = 0 /\ Len(s) \in Nat
  BY ListIs
<1> HIDE DEF at
<1>3. TakenAt(a, 0, s, at)
  BY <1>1, <1>2, ScanTakes
<1> HIDE DEF a
<1>4. a.st = "ok" /\ a.at = 0
  BY <1>2, <1>3 DEF TakenAt
<1> QED BY <1>4 DEF a

(* The number that begins s, or stands behind its first, is another.       *)
LEMMA PairRefused ==
  ASSUME NEW s, IsList(s), NEW f1 \in Nat, NEW f2 \in Nat, Len(s) >= 1 => s[1] = f1, Len(s) >= 2 => s[2] # f2
  PROVE  H!Scan(<<f1, f2>>, s).st # "ok"
<1> DEFINE f == <<f1, f2>>
<1>1. IsList(f) /\ Len(f) = 2 /\ f[1] = f1 /\ f[2] = f2
  BY TuplesAre
<1> HIDE DEF f
<1>2. Len(s) \in Nat
  BY ListIs
<1>3. H!FieldSize(f1, s) = IF 1 <= Len(s) THEN 1 ELSE 0
  BY NumberField
<1>4. CASE Len(s) = 0
  BY <1>1, <1>3, <1>4, ScanRefuses
<1>5. CASE Len(s) >= 1
  <2> DEFINE r == H!After(s, 1)
  <2>1. IsList(r) /\ Len(r) = Len(s) - 1 /\ \A i \in 1..(Len(s) - 1) : r[i] = s[1 + i]
    BY <1>2, <1>5, AfterIs
  <2> HIDE DEF r
  <2>2. Len(r) >= 1 => r[1] # f2
    BY <1>2, <2>1
  <2>3. H!FieldSize(f2, r) = 0 \/ H!FieldSize(f2, r) < 0
    BY <2>1, <2>2, WrongField
  <2>4. H!FieldSize(f[1], s) = 1
    BY <1>1, <1>2, <1>3, <1>5
  <2>5. H!FieldSize(f[2], H!After(s, 1)) = 0 \/ H!FieldSize(f[2], H!After(s, 1)) < 0
    BY <1>1, <2>3 DEF r
  <2> DEFINE n == 2
  <2>6. n \in Nat /\ Len(f) = n /\ n >= 1 /\ n >= 2
    BY <1>1
  <2> HIDE DEF n
  <2>7. \/ H!FieldSize(f[1], s) = 0 \/ H!FieldSize(f[1], s) < 0
        \/ /\ n >= 2 /\ H!FieldSize(f[1], s) = 1
           /\ \/ H!FieldSize(f[2], H!After(s, 1)) = 0
              \/ H!FieldSize(f[2], H!After(s, 1)) < 0
    BY <2>4, <2>5, <2>6
  <2>8. H!Scan(f, s).st # "ok"
    BY <2>6, <2>7, ScanRefuses
  <2> QED BY <2>8 DEF f
<1> QED BY <1>2, <1>4, <1>5 DEF f

(* Both ends of a SOCKS5 hop speak of users, or neither does.              *)
Matching(h) == h.proto = "socks5" => (h.auth = H!None <=> h.users = {})

(* Sides that fit: the server asks for the user that the client has.       *)
LEMMA CompatibleMatches ==
  ASSUME NEW h, HopFine(h), H!Compatible(h)
  PROVE  Matching(h)
<1>1. h.users \subseteq 21..149 /\ H!None = 0
  BY DEF HopFine, H!None
<1>2. h.users # {} => h.auth \in h.users
  BY DEF H!Compatible
<1>3. h.proto = "socks5" /\ h.users = {} => h.auth = H!None
  BY DEF H!Compatible
<1>4. 0 \notin 21..149
  OBVIOUS
<1> QED BY <1>1, <1>2, <1>3, <1>4 DEF Matching

(* What a client has heard when a round begins and when it ends, and what  *)
(* it makes of the part of the answer that has come.                       *)
Listened(h, r) ==
  /\ Answer(h, r) \in Nat /\ Answer(h, r + 1) \in Nat
  /\ Answer(h, r) <= Answer(h, r + 1) /\ Answer(h, r + 1) <= Len(Reply(h))
Heard(h, r, s) ==
  LET a == H!Scan(Hears(h, Round(h, r)), s)
      n == Answer(h, r + 1) - Answer(h, r)
  IN /\ Matching(h) => /\ n <= Len(s) => a.st = "ok" /\ a.at = n
                       /\ ~(n <= Len(s)) => a.st = "more"
     /\ ~Matching(h) => a.st # "ok"

(* The client waits for no more than its server answers.                   *)
LEMMA AnswersAre ==
  ASSUME NEW h, HopFine(h), NEW r \in 1..Turns(h)
  PROVE  Listened(h, r)
<1>0. r \in 1..3 /\ r >= 1 /\ r <= Turns(h)
  BY TurnsAre
<1>1. CASE h.proto # "socks5"
  <2>1. Turns(h) = 1 /\ r = 1
    BY <1>0, <1>1 DEF Turns
  <2>2. Answer(h, r) = 0 /\ Answer(h, r + 1) = Len(Reply(h)) /\ Len(Reply(h)) \in Nat
    BY <2>1, ReplyIsFine DEF Answer, ReplyFine
  <2> QED BY <2>2 DEF Listened
<1>2. CASE h.proto = "socks5"
  <2> DEFINE p == H!Packed(h.atyp, h.dest)
             k == Told(h, "socks5", "request")
             n == Len(Reply(h))
  <2>1. n \in Nat /\ k = (IF h.users = {} THEN 2 ELSE 4) /\ n = k + 3 + Len(p) /\ Len(p) \in Nat /\ Len(p) >= 3
    BY <1>2, Socks5Reply, AskIs
  <2>2. Turns(h) = 2 \/ Turns(h) = 3
    BY <1>2 DEF Turns
  <2> HIDE DEF p, k
  <2>3. Answer(h, r) = 2 * (r - 1) /\ Answer(h, r + 1) = (IF r = Turns(h) THEN n ELSE 2 * r)
    BY <1>0, <2>2 DEF Answer
  <2> HIDE DEF n
  <2>4. n >= 8
    BY <2>1
  <2> DEFINE u == Answer(h, r)
             v == Answer(h, r + 1)
  <2>5. u \in {0, 2, 4} /\ (v = n \/ (v \in {2, 4} /\ u <= v))
    <3>1. r = 1 \/ r = 2 \/ r = 3
      BY <1>0
    <3>2. r = 3 => r = Turns(h)
      BY <1>0, <2>2
    <3> HIDE DEF u, v
    <3>3. u = 2 * (r - 1) /\ v = (IF r = Turns(h) THEN n ELSE 2 * r)
      BY <2>3 DEF u, v
    <3> QED BY <3>1, <3>2, <3>3
  <2> HIDE DEF u, v
  <2>6. u \in Nat /\ v \in Nat /\ u <= v /\ v <= n
    BY <2>1, <2>4, <2>5
  <2> QED BY <2>6 DEF Listened, n, u, v
<1> QED BY <1>1, <1>2

(* The client of a protocol of one round.                                  *)
LEMMA OneHears ==
  ASSUME NEW h, HopFine(h), h.proto # "socks5", NEW s, Agrees(s, Reply(h), 0)
  PROVE  Heard(h, 1, s)
<1> DEFINE t == Reply(h)
           f == Hears(h, "request")
<1>1. Matching(h) /\ Round(h, 1) = "request" /\ Turns(h) = 1
  BY TurnsAre DEF Matching, Turns
<1>2. Answer(h, 1) = 0 /\ Answer(h, 1 + 1) = Len(t) /\ Len(t) \in Nat
  BY <1>1, ReplyIsFine DEF Answer, ReplyFine
<1>3. IsList(s) /\ IsList(t) /\ Len(s) \in Nat
  BY ReplyIsFine, ListIs DEF Agrees, ReplyFine
<1> SUFFICES /\ Len(t) <= Len(s) => H!Scan(f, s).st = "ok" /\ H!Scan(f, s).at = Len(t)
             /\ ~(Len(t) <= Len(s)) => H!Scan(f, s).st = "more"
  BY <1>1, <1>2 DEF Heard
<1>4. CASE h.proto \in {"http", "ws"}
  <2> DEFINE b == 0
             m == 2
             g == H!UntilBlank
             c == H!BLANK
  <2>1. f = <<g>>
    BY <1>4 DEF Hears, H!Connect, H!HttpConnect, H!WsConnect, H!Exchange
  <2>2. Len(t) = m /\ t[b + m] = c /\ \A j \in 1..(m - 1) : t[b + j] # c
    <3>1. Len(t) = 2 /\ t[2] = H!BLANK /\ (t[1] = 200 \/ t[1] = 101)
      BY <1>4, ReplyIsFine DEF ReplyFine
    <3>2. \A j \in 1..(m - 1) : b + j = 1
      OBVIOUS
    <3> QED BY <3>1, <3>2 DEF H!BLANK
  <2>3. Agrees(s, t, b) /\ b \in Nat /\ b <= b /\ b = b - b /\ m \in Nat \ {0} /\ b + m <= Len(t) /\ m = b + m
    BY <2>2
  <2>4. (g = H!Until0 /\ c = 0) \/ (g = H!UntilBlank /\ c = H!BLANK)
    OBVIOUS
  <2> HIDE DEF b, m, c, g, t, f
  <2>5. Place(s, t, b, b, b)
    BY <1>3, <2>3 DEF Place
  <2>6. Fits(g, s, b, m)
    BY <2>2, <2>3, <2>4, <2>5, UntilLies
  <2>7. Fits(g, s, 0, m) /\ 0 < m
    BY <2>6 DEF b, m
  <2>8. LET a == H!Scan(<<g>>, s) IN (m <= Len(s) => a.st = "ok" /\ a.at = m) /\ (~(m <= Len(s)) => a.st = "more")
    BY <1>3, <2>3, <2>7, ScanOne
  <2> QED BY <2>1, <2>2, <2>8
<1>5. CASE h.proto = "cfp"
  <2> DEFINE b0 == 0
             b1 == 1
             m == 2
             g == H!UntilBlank
             c == H!BLANK
             x == 101
             l == 1
  <2>1. f = <<x, g>>
    BY <1>5 DEF Hears, H!Connect, H!CfpConnect, H!Exchange
  <2>2. Len(t) = m /\ t[b1 + l] = c /\ t[b0 + 1] = x
    BY <1>5, ReplyIsFine DEF ReplyFine
  <2>3. /\ Agrees(s, t, b0) /\ b0 \in Nat /\ b1 \in Nat /\ b0 <= b1 /\ b1 = b1 - b0 /\ b0 = b0 - b0 /\ b0 <= b0
        /\ m \in Nat /\ l \in Nat \ {0} /\ b1 + l <= Len(t) /\ m = b1 + l /\ b0 < Len(t) /\ x \in Nat /\ b1 = b0 + 1
        /\ 0 < b1 /\ b1 < m /\ \A j \in 1..(l - 1) : t[b1 + j] # c
    BY <2>2
  <2>4. (g = H!Until0 /\ c = 0) \/ (g = H!UntilBlank /\ c = H!BLANK)
    OBVIOUS
  <2> HIDE DEF b1, m, c, g, t, f, x, l, b0
  <2>5. Place(s, t, b0, b0, b0) /\ Place(s, t, b0, b1, b1)
    BY <1>3, <2>3 DEF Place
  <2>6. Fits(x, s, b0, b1)
    BY <2>2, <2>3, <2>5, NumberLies
  <2>7. Fits(g, s, b1, m)
    BY <2>2, <2>3, <2>4, <2>5, UntilLies
  <2>8. Fits(x, s, 0, b1)
    BY <2>6 DEF b0
  <2>9. LET a == H!Scan(<<x, g>>, s) IN (m <= Len(s) => a.st = "ok" /\ a.at = m) /\ (~(m <= Len(s)) => a.st = "more")
    BY <1>3, <2>3, <2>7, <2>8, ScanTwo
  <2> QED BY <2>1, <2>2, <2>9
<1>6. CASE h.proto = "socks4"
  <2> DEFINE n == 4
             k == 0
             x == 0
             y == 90
             b == 3
  <2>1. f = <<x, y, H!Byte, H!Byte>>
    BY <1>6 DEF Hears, H!Connect, H!Socks4Connect, H!Exchange
  <2>2. Len(t) = n /\ t[k + 1] = x /\ t[k + 2] = y
    BY <1>6, ReplyIsFine DEF ReplyFine
  <2>3. /\ Numbered(x, t[k + 1]) /\ Numbered(y, t[k + 2]) /\ Numbered(H!Byte, t[k + 3])
        /\ k \in Nat /\ k + 3 <= Len(t) /\ n \in Nat /\ n > 3 /\ Agrees(s, t, k) /\ b \in Nat /\ n = b + 1
    BY <2>2 DEF Numbered
  <2>4. Fits(H!Byte, s, 3, n)
    <3> HIDE DEF b, n, t
    <3>1. Fits(H!Byte, s, b, n)
      BY <1>3, <2>3, NumberFits
    <3> QED BY <3>1 DEF b
  <2> HIDE DEF n, k, x, y, t, f
  <2>5. LET a == H!Scan(<<x, y, H!Byte, H!Byte>>, s) IN (n <= Len(s) => a.st = "ok" /\ a.at = n) /\ (~(n <= Len(s)) => a.st = "more")
    BY <1>3, <2>3, <2>4, FourRead
  <2> QED BY <2>1, <2>2, <2>5
<1>7. CASE h.proto \in {"h2", "tunnel", "trojan", "ss", "ssr"}
  <2>1. f = <<>>
    BY <1>7 DEF Hears, H!Connect, H!H2Connect, H!TunnelConnect, H!TrojanConnect, H!SsConnect, H!SsrConnect, H!Exchange
  <2>2. Len(t) = 0
    BY <1>7, ReplyIsFine DEF ReplyFine
  <2> HIDE DEF t, f
  <2> QED BY <1>3, <2>1, <2>2, NoneRead
<1>8. h.proto \in H!Protocol
  BY DEF HopFine
<1> QED BY <1>4, <1>5, <1>6, <1>7, <1>8 DEF H!Protocol

(* The client of SOCKS5: the method granted, the user known, the request.  *)
LEMMA MethodsHeard ==
  ASSUME NEW h, HopFine(h), h.proto = "socks5", NEW s, Agrees(s, Reply(h), 0)
  PROVE  Heard(h, 1, s)
<1> DEFINE t == Reply(h)
           m == IF h.auth = H!None THEN 0 ELSE 2
           c == IF h.users = {} THEN 0 ELSE 2
           v == 5
           k == 0
<1>1. Hears(h, Round(h, 1)) = <<v, m>>
  BY TurnsAre DEF Hears, H!Connect, H!Socks5Connect, H!Exchange
<1>2. Turns(h) >= 2 /\ Answer(h, 1) = 0 /\ Answer(h, 1 + 1) = 2
  <2>1. Turns(h) >= 2 /\ Turns(h) \in 1..3
    BY TurnsAre
  <2> QED BY <2>1 DEF Answer
<1>3. IsList(t) /\ Len(t) \in Nat /\ Len(t) >= 2 /\ t[1] = v /\ t[2] = c
  <2>1. IsList(t) /\ Len(t) \in Nat /\ Len(t) >= 2
    BY ReplyIsFine DEF ReplyFine
  <2>2. t[1] = 5 /\ (h.users = {} => t[2] = 0) /\ (h.users # {} => t[2] = 2)
    BY Socks5Reply
  <2> QED BY <2>1, <2>2
<1>4. IsList(s) /\ Len(s) \in Nat
  BY ListIs DEF Agrees
<1>5. Matching(h) <=> m = c
  BY DEF Matching
<1>6. ASSUME Matching(h)
      PROVE LET a == H!Scan(<<v, m>>, s) IN (2 <= Len(s) => a.st = "ok" /\ a.at = 2) /\ (~(2 <= Len(s)) => a.st = "more")
  <2>1. /\ Numbered(v, t[k + 1]) /\ Numbered(m, t[k + 2]) /\ k \in Nat /\ k + 2 <= Len(t) /\ Agrees(s, t, k)
    BY <1>3, <1>5, <1>6 DEF Numbered
  <2> HIDE DEF t, m, c, v, k
  <2> QED BY <1>3, <2>1, PairRead
<1>7. ASSUME ~Matching(h)
      PROVE H!Scan(<<v, m>>, s).st # "ok"
  <2>1. v \in Nat /\ m \in Nat /\ c # m
    BY <1>5, <1>7
  <2>2. (Len(s) >= 1 => s[1] = v) /\ (Len(s) >= 2 => s[2] # m)
    <3>1. \A j \in 1..Len(s) : 0 + j \in 1..Len(t) => s[j] = t[0 + j]
      BY DEF Agrees
    <3>2. (Len(s) >= 1 => 1 \in 1..Len(s)) /\ (Len(s) >= 2 => 2 \in 1..Len(s)) /\ 0 + 1 = 1 /\ 0 + 2 = 2
          /\ 1 \in 1..Len(t) /\ 2 \in 1..Len(t)
      BY <1>3, <1>4
    <3> HIDE DEF t, m, c, v
    <3>3. (Len(s) >= 1 => s[1] = t[1]) /\ (Len(s) >= 2 => s[2] = t[2])
      BY <3>1, <3>2
    <3> QED BY <1>3, <2>1, <3>3
  <2> HIDE DEF m, c, v
  <2> QED BY <1>4, <2>1, <2>2, PairRefused
<1> HIDE DEF m, v
<1> QED BY <1>1, <1>2, <1>6, <1>7 DEF Heard

(* A SOCKS5 client reads the answer to its user right,                     *)
LEMMA AuthHeard ==
  ASSUME NEW h, HopFine(h), h.proto = "socks5", Turns(h) = 3, Matching(h), NEW s, Agrees(s, Reply(h), 2)
  PROVE  Heard(h, 2, s)
<1> DEFINE t == Reply(h)
           v == 1
           m == 0
           k == 2
<1>1. Hears(h, Round(h, 2)) = <<v, m>>
  BY TurnsAre DEF Hears, H!Connect, H!Socks5Connect, H!Exchange
<1>2. Answer(h, 2) = 2 /\ Answer(h, 2 + 1) = 4
  BY DEF Answer
<1>3. h.users # {}
  BY DEF Turns, Matching
<1>4. IsList(t) /\ Len(t) \in Nat /\ Len(t) >= 4 /\ t[3] = v /\ t[4] = m
  <2> DEFINE p == H!Packed(h.atyp, h.dest)
             e == Told(h, "socks5", "request")
  <2>1. /\ IsList(t) /\ Len(t) \in Nat /\ e = (IF h.users = {} THEN 2 ELSE 4) /\ Len(t) = e + 3 + Len(p)
        /\ (h.users # {} => t[2] = 2 /\ t[3] = 1 /\ t[4] = 0)
    BY Socks5Reply
  <2>2. Len(p) \in Nat
    BY AskIs
  <2> HIDE DEF t, p, e
  <2>3. Len(t) >= 4
    BY <1>3, <2>1, <2>2
  <2> QED BY <1>3, <2>1, <2>3
<1>5. /\ Numbered(v, t[k + 1]) /\ Numbered(m, t[k + 2]) /\ k \in Nat /\ k + 2 <= Len(t) /\ Agrees(s, t, k)
  BY <1>4 DEF Numbered
<1> HIDE DEF t, m, v, k
<1>6. LET a == H!Scan(<<v, m>>, s) IN (2 <= Len(s) => a.st = "ok" /\ a.at = 2) /\ (~(2 <= Len(s)) => a.st = "more")
  BY <1>4, <1>5, PairRead
<1> QED BY <1>1, <1>2, <1>6 DEF Heard

(* and the answer to its request.                                          *)
LEMMA RequestHeard ==
  ASSUME NEW h, HopFine(h), h.proto = "socks5", Matching(h), NEW s, Agrees(s, Reply(h), Answer(h, Turns(h)))
  PROVE  Heard(h, Turns(h), s)
<1> DEFINE t == Reply(h)
           p == H!Packed(h.atyp, h.dest)
           k == Told(h, "socks5", "request")
           n == 3 + Len(p)
           v == 5
           z == 0
           b == 3
           f == H!Address
           e == 0
<1>1. Hears(h, Round(h, Turns(h))) = <<v, z, z, f>>
  <2>1. Round(h, Turns(h)) = "request"
    BY TurnsAre
  <2> QED BY <2>1 DEF Hears, H!Connect, H!Socks5Connect, H!Exchange
<1>2. /\ IsList(t) /\ Len(t) \in Nat /\ k = (IF h.users = {} THEN 2 ELSE 4) /\ Len(t) = k + 3 + Len(p)
      /\ t[k + 1] = 5 /\ t[k + 2] = 0 /\ t[k + 3] = 0 /\ \A i \in 1..Len(p) : t[k + 3 + i] = p[i]
  BY Socks5Reply
<1>3. IsList(p) /\ Len(p) \in Nat /\ Len(p) >= 3 /\ AddressOK(h.atyp, h.dest) /\ h.atyp \in {1, 3, 4}
  BY AskIs
<1>4. Answer(h, Turns(h)) = k /\ Answer(h, Turns(h) + 1) = Len(t) /\ k \in Nat
  <2>1. Turns(h) = (IF h.users = {} THEN 2 ELSE 3)
    BY DEF Matching, Turns
  <2> HIDE DEF k
  <2>2. k = 2 * (Turns(h) - 1)
    BY <1>2, <2>1
  <2>3. Turns(h) # 1 /\ ~(Turns(h) > Turns(h)) /\ Turns(h) + 1 # 1 /\ Turns(h) + 1 > Turns(h)
    BY <2>1
  <2> QED BY <1>2, <2>2, <2>3 DEF Answer
<1>5. Agrees(s, t, k) /\ IsList(s)
  BY <1>4 DEF Agrees
<1>6. p = H!Packed(h.atyp, h.dest)
  OBVIOUS
<1> HIDE DEF p, k, t
<1>7. Fits(f, s, 3, n)
  <2> DEFINE i == k + 3
  <2>1. i \in Nat /\ k <= i /\ b = i - k /\ i + Len(p) <= Len(t)
    BY <1>2, <1>3, <1>4
  <2>2. (f = H!Address /\ h.atyp \in {1, 3, 4} /\ e = 0) \/ (f = H!AddressSum /\ e = (IF h.atyp >= 16 THEN 1 ELSE 0))
    BY <1>3
  <2>3. n = b + Len(p) + e
    BY <1>3
  <2>4. \A j \in 1..Len(p) : t[i + j] = p[j]
    BY <1>2
  <2> HIDE DEF i, b, e, f, n
  <2>5. HasAt(t, i, p)
    BY <1>3, <2>1, <2>4 DEF HasAt
  <2>6. Place(s, t, k, i, b)
    BY <1>2, <1>4, <1>5, <2>1 DEF Place
  <2>7. Fits(f, s, b, n)
    BY <1>3, <1>6, <2>2, <2>3, <2>5, <2>6, AddressLies
  <2> QED BY <2>7 DEF b
<1>8. /\ Numbered(v, t[k + 1]) /\ Numbered(z, t[k + 2]) /\ Numbered(z, t[k + 3]) /\ k + 3 <= Len(t) /\ n \in Nat /\ n > 3
      /\ Len(t) - k = n /\ IsList(t) /\ k \in Nat /\ Agrees(s, t, k)
  BY <1>2, <1>3, <1>4, <1>5 DEF Numbered
<1> HIDE DEF v, z, n, f
<1>9. LET a == H!Scan(<<v, z, z, f>>, s) IN (n <= Len(s) => a.st = "ok" /\ a.at = n) /\ (~(n <= Len(s)) => a.st = "more")
  BY <1>7, <1>8, FourRead
<1> QED BY <1>1, <1>4, <1>8, <1>9 DEF Heard

(* What a client makes of the answer to a round, of every protocol.        *)
LEMMA ClientHears ==
  ASSUME NEW h, HopFine(h), NEW r \in 1..Turns(h), r > 1 => Matching(h), NEW s, Agrees(s, Reply(h), Answer(h, r))
  PROVE  Heard(h, r, s)
<1>1. r \in 1..3 /\ r >= 1 /\ r <= Turns(h) /\ Turns(h) \in 1..3
  BY TurnsAre
<1>2. r = 1 => Answer(h, r) = 0
  BY DEF Answer
<1>3. CASE h.proto # "socks5"
  <2>1. r = 1
    BY <1>1, <1>3 DEF Turns
  <2> QED BY <1>2, <1>3, <2>1, OneHears
<1>4. CASE h.proto = "socks5" /\ r = 1
  BY <1>2, <1>4, MethodsHeard
<1>5. CASE h.proto = "socks5" /\ r # 1 /\ r = Turns(h)
  BY <1>1, <1>5, RequestHeard
<1>6. CASE h.proto = "socks5" /\ r # 1 /\ r # Turns(h)
  <2>1. r = 2 /\ Turns(h) = 3
    BY <1>1, <1>6
  <2>2. Answer(h, r) = 2
    BY <2>1 DEF Answer
  <2> QED BY <1>1, <1>6, <2>1, <2>2, AuthHeard
<1> QED BY <1>3, <1>4, <1>5, <1>6

(* A read that begins with a field that is not there, or is another, does  *)
(* not end well.                                                           *)
LEMMA FirstRefuses ==
  ASSUME NEW f, NEW n \in Nat, Len(f) = n, n >= 1, NEW s, IsList(s), NEW x, x = f[1],
         H!FieldSize(x, s) = 0 \/ H!FieldSize(x, s) < 0
  PROVE  H!Scan(f, s).st # "ok"
<1>1. \/ H!FieldSize(f[1], s) = 0 \/ H!FieldSize(f[1], s) < 0
      \/ /\ n >= 2 /\ H!FieldSize(f[1], s) = 1
         /\ \/ H!FieldSize(f[2], H!After(s, 1)) = 0
            \/ H!FieldSize(f[2], H!After(s, 1)) < 0
  OBVIOUS
<1> QED BY <1>1, ScanRefuses

(* What a client makes of a refusal, and of no answer at all.              *)
LEMMA UnauthorizedHeard ==
  ASSUME NEW h, HopFine(h), h.proto \in {"http", "ws", "cfp"}, NEW s, Agrees(s, H!Unauthorized, 0)
  PROVE  LET a == H!Scan(Hears(h, "request"), s)
         IN a.st = "ok" => a.at = 2 /\ Len(s) >= 2 /\ h.proto # "cfp"
<1> DEFINE t == H!Unauthorized
           f == Hears(h, "request")
           c == H!BLANK
           x == 47
<1>1. IsList(t) /\ Len(t) = 2 /\ t[1] = x /\ t[2] = c
  <2>1. t = <<x, c>>
    BY DEF H!Unauthorized
  <2> HIDE DEF x, c, t
  <2> QED BY <2>1, TuplesAre
<1>2. IsList(s) /\ Len(s) \in Nat
  BY ListIs DEF Agrees
<1>3. CASE h.proto \in {"http", "ws"}
  <2> DEFINE b == 0
             m == 2
             g == H!UntilBlank
  <2>1. f = <<g>>
    BY <1>3 DEF Hears, H!Connect, H!HttpConnect, H!WsConnect, H!Exchange
  <2>2. Len(t) = m /\ t[b + m] = c /\ \A j \in 1..(m - 1) : t[b + j] # c
    <3>1. \A j \in 1..(m - 1) : b + j = 1
      OBVIOUS
    <3> QED BY <1>1, <3>1 DEF H!BLANK
  <2>3. Agrees(s, t, b) /\ b \in Nat /\ b <= b /\ b = b - b /\ m \in Nat \ {0} /\ b + m <= Len(t) /\ m = b + m
    BY <2>2
  <2>4. (g = H!Until0 /\ c = 0) \/ (g = H!UntilBlank /\ c = H!BLANK)
    OBVIOUS
  <2> HIDE DEF b, m, c, g, t, f
  <2>5. Place(s, t, b, b, b)
    BY <1>1, <2>3 DEF Place
  <2>6. Fits(g, s, b, m)
    BY <2>2, <2>3, <2>4, <2>5, UntilLies
  <2>7. Fits(g, s, 0, m) /\ 0 < m
    BY <2>6 DEF b, m
  <2>8. LET a == H!Scan(<<g>>, s) IN (m <= Len(s) => a.st = "ok" /\ a.at = m) /\ (~(m <= Len(s)) => a.st = "more")
    BY <1>2, <2>3, <2>7, ScanOne
  <2> QED BY <1>3, <2>1, <2>8 DEF f, m
<1>4. CASE h.proto = "cfp"
  <2> DEFINE y == 101
             n == 2
  <2>1. f = <<y, H!UntilBlank>>
    BY <1>4 DEF Hears, H!Connect, H!CfpConnect, H!Exchange
  <2>2. Len(s) >= 1 => s[1] # y
    <3>1. \A j \in 1..Len(s) : 0 + j \in 1..Len(t) => s[j] = t[0 + j]
      BY DEF Agrees
    <3>2. 0 + 1 \in 1..Len(t) /\ 0 + 1 = 1 /\ (Len(s) >= 1 => 1 \in 1..Len(s)) /\ x # y
      BY <1>1, <1>2
    <3> HIDE DEF t, x, y
    <3> QED BY <1>1, <3>1, <3>2
  <2>3. y \in Nat /\ n \in Nat /\ n >= 1
    OBVIOUS
  <2> HIDE DEF y
  <2>4. H!FieldSize(y, s) = 0 \/ H!FieldSize(y, s) < 0
    BY <1>2, <2>2, <2>3, WrongField
  <2>5. Len(f) = n /\ y = f[1]
    BY <2>1, TuplesAre
  <2> HIDE DEF n, f
  <2>6. H!Scan(f, s).st # "ok"
    BY <1>2, <2>3, <2>4, <2>5, FirstRefuses
  <2> QED BY <2>6 DEF f
<1> QED BY <1>3, <1>4

(* Nothing is an answer only to a client that waits for none.              *)
LEMMA SilenceHeard ==
  ASSUME NEW h, HopFine(h), NEW r \in 1..Turns(h), NEW s, IsList(s), Len(s) = 0
  PROVE  LET a == H!Scan(Hears(h, Round(h, r)), s)
         IN a.st = "ok" => a.at = 0 /\ h.proto \notin {"http", "ws", "cfp", "socks4", "socks5"}
<1> DEFINE f == Hears(h, Round(h, r))
<1>1. CASE h.proto \in {"http", "ws", "cfp", "socks4", "socks5"}
  <2>0. r \in 1..3 /\ r >= 1 /\ r <= Turns(h) /\ Turns(h) \in 1..3
    BY TurnsAre
  <2>1. Round(h, r) \in {"methods", "auth", "request"} /\ (h.proto # "socks5" => Round(h, r) = "request")
    <3>1. CASE h.proto # "socks5"
      <4>1. r = 1
        BY <2>0, <3>1 DEF Turns
      <4> QED BY <3>1, <4>1, TurnsAre
    <3>2. CASE h.proto = "socks5"
      <4>1. r = 1 \/ r = Turns(h) \/ (r = 2 /\ Turns(h) = 3)
        BY <2>0
      <4> QED BY <3>2, <4>1, TurnsAre
    <3> QED BY <3>1, <3>2
  <2>2. Len(f) \in {1, 2, 4}
    <3>1. CASE h.proto \in {"http", "ws", "cfp", "socks4"}
      <4>1. f = <<H!UntilBlank>> \/ f = <<101, H!UntilBlank>> \/ f = <<0, 90, H!Byte, H!Byte>>
        BY <2>1, <3>1 DEF Hears, H!Connect, H!HttpConnect, H!WsConnect, H!CfpConnect, H!Socks4Connect, H!Exchange
      <4> HIDE DEF f
      <4> QED BY <4>1, TuplesAre
    <3>2. CASE h.proto = "socks5"
      <4> DEFINE m == IF h.auth = H!None THEN 0 ELSE 2
      <4>1. f = <<5, m>> \/ f = <<1, 0>> \/ f = <<5, 0, 0, H!Address>>
        BY <2>1, <3>2 DEF Hears, H!Connect, H!Socks5Connect, H!Exchange
      <4> HIDE DEF f, m
      <4> QED BY <4>1, TuplesAre
    <3> QED BY <1>1, <3>1, <3>2
  <2> DEFINE n == Len(f)
             x == f[1]
  <2>3. n \in Nat /\ n >= 1
    <3> HIDE DEF f
    <3> QED BY <2>2
  <2>4. H!FieldSize(x, s) = 0
    <3> HIDE DEF x
    <3> QED BY NoField
  <2>5. H!Scan(f, s).st # "ok"
    <3> HIDE DEF f
    <3> QED BY <2>3, <2>4, FirstRefuses
  <2> QED BY <2>5
<1>2. CASE h.proto \notin {"http", "ws", "cfp", "socks4", "socks5"}
  <2>1. h.proto \in {"h2", "tunnel", "trojan", "ss", "ssr"}
    BY <1>2 DEF HopFine, H!Protocol
  <2>2. f = <<>>
    BY <2>1 DEF Hears, H!Connect, H!H2Connect, H!TunnelConnect, H!TrojanConnect, H!SsConnect, H!SsrConnect, H!Exchange
  <2> QED BY <1>2, <2>2, NoneRead
<1> QED BY <1>1, <1>2

-----------------------------------------------------------------------------
(* Guessing.                                                               *)

(* The marks a guess looks at.                                             *)
LEMMA MarkIs ==
  ASSUME NEW h, NEW p \in H!Protocol
  PROVE  /\ H!MarkSize(p, h) \in {0, 1, 2} /\ H!Taken(p, h) \in {0, H!MarkSize(p, h)} /\ H!Taken(p, h) \in Nat
         /\ H!MarkSize(p, h) = 0 <=> p \in {"h2", "cfp", "tunnel"}
         /\ H!MarkSize(p, h) = 0 => \A x : H!Matches(p, h, x)
<1>1. /\ H!MarkSize(p, h) \in {0, 1, 2} /\ H!Taken(p, h) \in {0, H!MarkSize(p, h)}
      /\ H!MarkSize(p, h) = 0 <=> p \in {"h2", "cfp", "tunnel"}
  BY DEF H!MarkSize, H!Taken, H!Protocol
<1>2. p \in {"h2", "cfp", "tunnel"} => \A x : H!Matches(p, h, x)
  BY DEF H!Matches
<1> QED BY <1>1, <1>2

(* What a guess sees: as much of its mark as has come.                     *)
Seen(p, h, s) == SubSeq(s, 1, IF Len(s) < H!MarkSize(p, h) THEN Len(s) ELSE H!MarkSize(p, h))
Least2(m, n) == IF m < n THEN m ELSE n
IsSeen(x, p, h, s) ==
  /\ IsList(x) /\ Len(x) \in Nat /\ Len(x) <= Len(s) /\ Len(x) <= H!MarkSize(p, h)
  /\ Len(x) = Least2(Len(s), H!MarkSize(p, h)) /\ \A i \in 1..Len(x) : x[i] = s[i]

(* What a guess looks at is the first byte, the first two, or none.        *)
LEMMA SeenIs ==
  ASSUME NEW h, NEW p \in H!Protocol, NEW s, IsList(s)
  PROVE  IsSeen(Seen(p, h, s), p, h, s)
<1> DEFINE n == H!MarkSize(p, h)
           m == Least2(Len(s), n)
           x == SubSeq(s, 1, m)
           b == 0
           q == b + 1
<1>1. Len(s) \in Nat /\ n \in Nat
  BY ListIs, MarkIs
<1> HIDE DEF n
<1>2. m \in Nat /\ m <= Len(s) /\ m <= n /\ 0 <= m
  BY <1>1 DEF Least2
<1> HIDE DEF m
<1>3. IsList(x) /\ Len(x) = m /\ \A i \in 1..m : x[i] = s[i]
  <2>1. b \in Nat /\ b <= m /\ m - b = m /\ q = 1 /\ \A i \in 1..m : b + i = i
    BY <1>2
  <2> HIDE DEF b
  <2>2. /\ IsList(SubSeq(s, b + 1, m)) /\ Len(SubSeq(s, b + 1, m)) = m - b
        /\ \A i \in 1..(m - b) : SubSeq(s, b + 1, m)[i] = s[b + i]
    BY <1>2, <2>1, PartIs
  <2> QED BY <2>1, <2>2
<1>4. Seen(p, h, s) = x
  BY DEF Seen, x, m, Least2, n
<1> HIDE DEF x
<1> QED BY <1>2, <1>3, <1>4 DEF IsSeen, m, n

(* What a guess that matched takes is there.                               *)
LEMMA TakenIsThere ==
  ASSUME NEW h, NEW p \in H!Protocol, NEW s, IsList(s), H!MarkSize(p, h) > 0 => Len(s) > 0,
         H!Matches(p, h, Seen(p, h, s))
  PROVE  H!Taken(p, h) <= Len(s)
<1> DEFINE x == Seen(p, h, s)
<1>1. IsSeen(x, p, h, s) /\ Len(s) \in Nat
  BY SeenIs, ListIs
<1> HIDE DEF x
<1>2. CASE H!Taken(p, h) = 0
  BY <1>1, <1>2
<1>3. CASE H!Taken(p, h) # 0
  <2>1. p \in {"trojan", "socks4", "socks5"} \/ (p \in {"ss", "ssr"} /\ h.users # {})
    BY <1>3 DEF H!Taken, H!MarkSize, H!Protocol
  <2>2. CASE p \in {"socks4", "socks5"}
    <3>1. H!MarkSize(p, h) = 1 /\ H!Taken(p, h) = 1
      BY <2>2 DEF H!Taken, H!MarkSize
    <3> QED BY <1>1, <3>1
  <2>3. CASE p = "trojan" \/ (p \in {"ss", "ssr"} /\ h.users # {})
    <3>1. H!Taken(p, h) = 2
      BY <2>3 DEF H!Taken, H!MarkSize
    <3>2. \E u, v : x = <<u, v>>
      BY <2>3 DEF H!Matches, H!TrojanGuess, H!SsrGuess, H!Hash, x
    <3>3. Len(x) = 2
      BY <3>2, TuplesAre
    <3> QED BY <1>1, <3>1, <3>3 DEF IsSeen
  <2> QED BY <2>1, <2>2, <2>3
<1> QED BY <1>2, <1>3

(* A guess that matched another client's bytes is a mistake that refuses.  *)
Alone(h, try) == \A j \in 1..(try - 1) : H!MarkSize(h.tries[j], h) > 0
Behind(h, try) == h.proto \in H!ToSet(h.tries) => \E j \in 1..(try - 1) : h.tries[j] = h.proto

(* A server that takes its client for another protocol makes one of the    *)
(* mistakes that the hop's assumption allows. (guess of every protocol)    *)
LEMMA GuessOther ==
  ASSUME NEW h, HopFine(h), H!ToldApart(h), NEW try \in DOMAIN h.tries, try \in Nat \ {0}, NEW p \in H!Protocol, p = h.tries[try],
         p # h.proto, Alone(h, try), NEW s, Agrees(s, Text(h), 0), H!MarkSize(p, h) > 0 => Len(s) > 0,
         H!Matches(p, h, Seen(p, h, s))
  PROVE  H!Mistakes(p, h) /\ Behind(h, try)
<1> DEFINE n == H!MarkSize(p, h)
           x == Seen(p, h, s)
           f == H!First(h)
<1>1. /\ n > 0
      /\ \/ \A m \in 1..n : ~H!Matches(p, h, SubSeq(f, 1, m))
         \/ H!Mistakes(p, h) /\ Behind(h, try)
  <2>1. \A j \in 1..(try - 1) : H!MarkSize(h.tries[j], h) > 0
    BY DEF Alone
  <2> QED BY <2>1 DEF H!ToldApart, Behind
<1>2. h.proto # "tunnel"
  <2> SUFFICES ASSUME h.proto = "tunnel" PROVE FALSE
    OBVIOUS
  <2>1. h.tries[1] = "tunnel"
    BY DEF H!ToldApart
  <2>2. try # 1 /\ 1 \in 1..(try - 1)
    BY <2>1
  <2>3. H!MarkSize("tunnel", h) > 0
    BY <2>1, <2>2 DEF Alone
  <2> QED BY <2>3 DEF H!MarkSize
<1>3. IsSeen(x, p, h, s) /\ Len(s) \in Nat /\ IsList(s) /\ n \in {0, 1, 2}
  BY SeenIs, ListIs, MarkIs DEF Agrees
<1>4. IsList(f) /\ Len(f) \in Nat /\ Len(f) >= 2 /\ f[1] = Text(h)[1] /\ f[2] = Text(h)[2]
  BY <1>2, FirstIs
<1> DEFINE t == Text(h)
           m == Len(x)
<1>5. IsList(t) /\ Len(t) \in Nat /\ Len(t) >= 2
  BY <1>2, TextIsFine DEF TextFine
<1>6. Agrees(s, t, 0)
  OBVIOUS
<1> HIDE DEF f, x, t, n
<1>7. m \in 1..n /\ m \in {1, 2} /\ m <= Len(s)
  <2>1. Len(x) \in Nat /\ Len(x) = Least2(Len(s), n)
    BY <1>3 DEF IsSeen, n
  <2>2. Len(s) > 0 /\ n > 0
    BY <1>1 DEF n
  <2>3. Least2(Len(s), n) <= Len(s) /\ Least2(Len(s), n) <= n /\ Least2(Len(s), n) > 0
    BY <1>3, <2>2 DEF Least2
  <2> QED BY <1>3, <2>1, <2>3
<1>8. SubSeq(f, 1, m) = x
  <2>1. \A i \in 1..m : x[i] = f[i]
    <3> SUFFICES ASSUME NEW i \in 1..m PROVE x[i] = f[i]
      OBVIOUS
    <3>1. i \in {1, 2} /\ i \in 1..Len(s) /\ 0 + i = i /\ i \in 1..Len(t)
      BY <1>3, <1>5, <1>7
    <3>2. x[i] = s[i]
      BY <1>3 DEF IsSeen
    <3>3. s[i] = t[i]
      BY <1>6, <3>1 DEF Agrees
    <3> QED BY <1>4, <3>1, <3>2, <3>3 DEF t
  <2> DEFINE k == 0
             q == 1
  <2>2. LiesIn(x, f, k, m) /\ q = k + 1
    <3>1. k \in Nat /\ m \in Nat /\ k <= m /\ m <= Len(f) /\ Len(x) = m - k /\ \A i \in 1..m : k + i = i
      <4> HIDE DEF m, k
      <4>1. m \in Nat /\ m <= 2 /\ m >= 1
        <5>1. m = 1 \/ m = 2
          BY <1>7
        <5> QED BY <5>1
      <4> USE DEF k
      <4>2. k \in Nat /\ k <= m /\ m <= Len(f) /\ m - k = m
        BY <1>4, <4>1
      <4>3. \A i \in 1..m : k + i = i
        OBVIOUS
      <4> QED BY <4>1, <4>2, <4>3 DEF m
    <3>2. IsList(x)
      BY <1>3 DEF IsSeen
    <3> QED BY <1>4, <2>1, <3>1, <3>2 DEF LiesIn
  <2> HIDE DEF m, k, q
  <2>3. SubSeq(f, q, m) = x
    BY <2>2, PieceIs
  <2> QED BY <2>3 DEF q
<1>9. H!Matches(p, h, SubSeq(f, 1, m))
  <2>1. H!Matches(p, h, x)
    BY DEF x
  <2> QED BY <1>8, <2>1
<1> QED BY <1>1, <1>7, <1>9

(* What a guess looks at is what the client wrote first.                   *)
LEMMA SeenAgrees ==
  ASSUME NEW h, NEW p \in H!Protocol, NEW s, NEW t, Agrees(s, t, 0), IsList(t), Len(t) \in Nat, Len(t) >= 2,
         NEW x, IsSeen(x, p, h, s)
  PROVE  Len(x) \in {0, 1, 2} /\ (Len(x) >= 1 => x[1] = t[1]) /\ (Len(x) >= 2 => x[2] = t[2])
<1>1. Len(s) \in Nat /\ IsList(s) /\ H!MarkSize(p, h) \in {0, 1, 2}
  BY ListIs, MarkIs DEF Agrees
<1>2. Len(x) \in Nat /\ Len(x) <= Len(s) /\ Len(x) <= 2
  BY <1>1 DEF IsSeen
<1>3. ASSUME NEW i \in 1..2, Len(x) >= i PROVE x[i] = t[i]
  <2>1. i \in 1..Len(x) /\ i \in 1..Len(s) /\ 0 + i \in 1..Len(t) /\ 0 + i = i
    BY <1>1, <1>2, <1>3
  <2>2. x[i] = s[i]
    BY <2>1 DEF IsSeen
  <2>3. s[i] = t[0 + i]
    BY <2>1 DEF Agrees
  <2> QED BY <2>1, <2>2, <2>3
<1>4. 1 \in 1..2 /\ 2 \in 1..2
  OBVIOUS
<1>5. (Len(x) >= 1 => x[1] = t[1]) /\ (Len(x) >= 2 => x[2] = t[2])
  BY <1>3, <1>4
<1>6. Len(x) \in {0, 1, 2}
  <2>1. \A n \in Nat : n <= 2 => n \in {0, 1, 2}
    OBVIOUS
  <2> QED BY <1>2, <2>1
<1> QED BY <1>5, <1>6

(* What a server that knows its own client by a guess has learned.         *)
Opening(p) == IF p = "socks5" THEN "methods" ELSE "request"
Guessed(p, h, x) ==
  IF p \in {"trojan", "ss", "ssr"} /\ h.users # {} THEN CHOOSE v \in h.users : x \in {H!Hash(v), <<v, v>>} ELSE H!None

(* The user that a mark belongs to.                                        *)
LEMMA MarkOf ==
  ASSUME NEW h, HopFine(h), h.users # {}, NEW u \in h.users, NEW x, x = H!Hash(u) \/ x = <<u, u>>
  PROVE  /\ (CHOOSE v \in h.users : x \in {H!Hash(v), <<v, v>>}) = u
         /\ Len(x) = 2 /\ (x = H!Hash(u) => x[1] = 150 + u) /\ (x = <<u, u>> => x[1] = u)
<1>1. \A v \in h.users : v \in 21..149
  BY DEF HopFine
<1>2. \A v : Len(H!Hash(v)) = 2 /\ H!Hash(v)[1] = 150 + v /\ Len(<<v, v>>) = 2 /\ <<v, v>>[1] = v
  BY TuplesAre DEF H!Hash
<1>3. \A v \in h.users : x \in {H!Hash(v), <<v, v>>} => v = u
  <2> SUFFICES ASSUME NEW v \in h.users, x \in {H!Hash(v), <<v, v>>} PROVE v = u
    OBVIOUS
  <2>1. x[1] = 150 + v \/ x[1] = v
    BY <1>2
  <2>2. (x = H!Hash(u) /\ x[1] = 150 + u) \/ (x = <<u, u>> /\ x[1] = u)
    BY <1>2
  <2>3. u \in 21..149 /\ v \in 21..149
    BY <1>1
  <2> QED BY <2>1, <2>2, <2>3
<1>4. u \in h.users /\ x \in {H!Hash(u), <<u, u>>}
  OBVIOUS
<1>5. (CHOOSE v \in h.users : x \in {H!Hash(v), <<v, v>>}) = u
  BY <1>3, <1>4
<1> QED BY <1>2, <1>5

(* A server that recognizes its own client is at the start of it, and has  *)
(* the right user.                                                         *)
LEMMA GuessOwn ==
  ASSUME NEW h, HopFine(h), NEW s, Agrees(s, Text(h), 0), H!MarkSize(h.proto, h) > 0 => Len(s) > 0,
         H!Matches(h.proto, h, Seen(h.proto, h, s))
  PROVE  Ready(h, Opening(h.proto), Guessed(h.proto, h, Seen(h.proto, h, s)))
<1> DEFINE p == h.proto
           x == Seen(p, h, s)
           t == Text(h)
           u == Guessed(p, h, x)
<1>0. p \in H!Protocol /\ IsList(s)
  BY DEF HopFine, Agrees
<1>1. CASE p \notin {"trojan", "ss", "ssr"}
  BY <1>1 DEF Ready, Opening
<1>2. CASE p \in {"trojan", "ss", "ssr"}
  <2>1. IsSeen(x, p, h, s)
    BY <1>0, SeenIs
  <2>2. IsList(t) /\ Len(t) \in Nat /\ Len(t) >= 2 /\ Begins(h, t[1], t[2])
    BY <1>2, TextIsFine DEF TextFine
  <2>3. Agrees(s, t, 0) /\ H!Matches(p, h, x)
    OBVIOUS
  <2> HIDE DEF x, t
  <2>4. Len(x) \in {0, 1, 2} /\ (Len(x) >= 1 => x[1] = t[1]) /\ (Len(x) >= 2 => x[2] = t[2])
    BY <1>0, <2>1, <2>2, <2>3, SeenAgrees
  <2>5. h.auth = 0 \/ h.auth \in 21..149
    BY DEF HopFine, H!None
  <2>6. CASE h.users # {}
    <3>1. p = "trojan" => \E v \in h.users : x = H!Hash(v)
      BY <2>3, <2>6 DEF H!Matches, H!TrojanGuess
    <3>2. p \in {"ss", "ssr"} => \E v \in h.users : x = <<v, v>>
      BY <2>3, <2>6 DEF H!Matches, H!SsrGuess
    <3>3. PICK v \in h.users : (p = "trojan" /\ x = H!Hash(v)) \/ (p \in {"ss", "ssr"} /\ x = <<v, v>>)
      BY <1>2, <3>1, <3>2
    <3>4. /\ (CHOOSE w \in h.users : x \in {H!Hash(w), <<w, w>>}) = v
          /\ Len(x) = 2 /\ (x = H!Hash(v) => x[1] = 150 + v) /\ (x = <<v, v>> => x[1] = v)
      BY <2>6, <3>3, MarkOf
    <3>5. u = v
      BY <1>2, <2>6, <3>4 DEF Guessed
    <3>6. v \in 21..149 /\ x[1] = t[1]
      <4>1. h.users \subseteq 21..149
        BY DEF HopFine
      <4>2. 2 >= 1
        OBVIOUS
      <4> QED BY <2>4, <3>4, <4>1, <4>2
    <3>7. v = h.auth
      <4>1. CASE p = "trojan"
        <5>1. t[1] = 150 + h.auth
          BY <2>2, <4>1 DEF Begins
        <5>2. x[1] = 150 + v
          BY <3>3, <3>4, <4>1
        <5>3. 150 + v = 150 + h.auth
          BY <3>6, <5>1, <5>2
        <5>4. \A a \in {0} \cup 21..149 : \A b \in 21..149 : 150 + b = 150 + a => b = a
          OBVIOUS
        <5>5. h.auth \in {0} \cup 21..149
          BY <2>5
        <5> QED BY <3>6, <5>3, <5>4, <5>5
      <4>2. CASE p \in {"ss", "ssr"}
        <5>1. IF h.auth = H!None THEN t[1] = Type(h) ELSE t[1] = h.auth
          BY <2>2, <4>2 DEF Begins
        <5>2. Type(h) <= 20
          BY DEF Type, HopFine
        <5>3. Type(h) \in Nat
          BY DEF Type, HopFine
        <5> QED BY <3>3, <3>4, <3>6, <4>2, <5>1, <5>2, <5>3
      <4> QED BY <1>2, <4>1, <4>2
    <3> HIDE DEF u
    <3> QED BY <1>2, <2>6, <3>3, <3>5, <3>7 DEF Ready, Opening, u, x
  <2>7. CASE h.users = {}
    <3>1. h.auth = H!None
      <4>1. CASE p = "trojan"
        <5>1. x = H!Hash(H!None)
          BY <2>3, <2>7, <4>1 DEF H!Matches, H!TrojanGuess
        <5>2. Len(x) = 2 /\ x[1] = 150 + H!None
          BY <5>1, TuplesAre DEF H!Hash
        <5>3. t[1] = 150 + h.auth
          BY <2>2, <4>1 DEF Begins
        <5>4. x[1] = t[1] /\ H!None = 0
          BY <2>4, <5>2 DEF H!None
        <5>5. 150 + 0 = 150 + h.auth
          BY <5>2, <5>3, <5>4
        <5>6. \A a \in {0} \cup 21..149 : 150 + 0 = 150 + a => 0 = a
          OBVIOUS
        <5>7. h.auth \in {0} \cup 21..149
          BY <2>5
        <5> QED BY <5>4, <5>5, <5>6, <5>7
      <4>2. CASE p \in {"ss", "ssr"}
        <5>1. x[1] \in {1, 3, 4, 17, 19, 20}
          BY <2>3, <2>7, <4>2 DEF H!Matches, H!SsrGuess
        <5>2. H!MarkSize(p, h) = 1
          BY <2>7, <4>2 DEF H!MarkSize
        <5>3. Len(s) > 0 /\ Len(s) \in Nat
          BY <1>0, <5>2, ListIs
        <5>4. Len(x) = 1
          BY <2>1, <5>2, <5>3 DEF IsSeen, Least2
        <5>5. IF h.auth = H!None THEN t[1] = Type(h) ELSE t[1] = h.auth
          BY <2>2, <4>2 DEF Begins
        <5>6. x[1] = t[1]
          BY <2>4, <5>4
        <5> SUFFICES ASSUME h.auth # H!None PROVE FALSE
          OBVIOUS
        <5>7. h.auth \in 21..149 /\ h.auth \in {1, 3, 4, 17, 19, 20}
          BY <2>5, <5>1, <5>5, <5>6 DEF H!None
        <5>8. \A a \in 21..149 : a \notin {1, 3, 4, 17, 19, 20}
          OBVIOUS
        <5> QED BY <5>7, <5>8
      <4> QED BY <1>2, <4>1, <4>2
    <3> QED BY <1>2, <2>7, <3>1 DEF Ready, Opening
  <2> QED BY <2>6, <2>7
<1> QED BY <1>1, <1>2

(* A guess that saw the whole mark of its own client and did not match     *)
(* was not configured as the client is.                                    *)
LEMMA GuessRefused ==
  ASSUME NEW h, HopFine(h), NEW s, Agrees(s, Text(h), 0),
         ~H!Matches(h.proto, h, Seen(h.proto, h, s)), ~(Len(Seen(h.proto, h, s)) < H!MarkSize(h.proto, h))
  PROVE  ~H!Compatible(h)
<1> DEFINE p == h.proto
           x == Seen(p, h, s)
           t == Text(h)
           n == H!MarkSize(p, h)
<1>0. p \in H!Protocol /\ IsList(s)
  BY DEF HopFine, Agrees
<1>1. IsSeen(x, p, h, s)
  BY <1>0, SeenIs
<1>2. p \notin {"h2", "cfp", "tunnel"} /\ n \in {1, 2}
  BY <1>0, MarkIs
<1>3. IsList(t) /\ Len(t) \in Nat /\ Len(t) >= 2 /\ Begins(h, t[1], t[2])
  BY <1>2, TextIsFine DEF TextFine
<1>4. Agrees(s, t, 0) /\ ~H!Matches(p, h, x) /\ ~(Len(x) < n)
  OBVIOUS
<1> HIDE DEF x, t
<1>5. Len(x) = n /\ IsList(x) /\ x[1] = t[1] /\ (n = 2 => x[2] = t[2])
  <2>1. Len(x) \in {0, 1, 2} /\ (Len(x) >= 1 => x[1] = t[1]) /\ (Len(x) >= 2 => x[2] = t[2])
    BY <1>0, <1>1, <1>3, <1>4, SeenAgrees
  <2>2. Len(x) <= n /\ IsList(x)
    BY <1>1 DEF IsSeen
  <2> HIDE DEF n
  <2> QED BY <1>2, <1>4, <2>1, <2>2
<1>6. ASSUME NEW u, NEW v, n = 2, t[1] = u, t[2] = v PROVE x = <<u, v>>
  <2> DEFINE y == <<u, v>>
  <2>1. IsList(y) /\ Len(y) = 2 /\ y[1] = u /\ y[2] = v
    BY TuplesAre
  <2>2. \A i \in 1..2 : i = 1 \/ i = 2
    OBVIOUS
  <2> HIDE DEF y, n
  <2>3. x = y
    BY <1>5, <1>6, <2>1, <2>2, ListsEqual
  <2> QED BY <2>3 DEF y
<1>7. ASSUME NEW u, n = 1, t[1] = u PROVE x = <<u>>
  <2> DEFINE y == <<u>>
  <2>1. IsList(y) /\ Len(y) = 1 /\ y[1] = u
    BY TuplesAre
  <2>2. \A i \in 1..1 : i = 1
    OBVIOUS
  <2> HIDE DEF y, n
  <2>3. x = y
    BY <1>5, <1>7, <2>1, <2>2, ListsEqual
  <2> QED BY <2>3 DEF y
<1>8. CASE p \in {"http", "ws"}
  <2>1. n = 2 /\ (x = <<67, 79>> \/ x = <<71, 69>>) /\ (p = "ws" => x = <<71, 69>>)
    BY <1>3, <1>6, <1>8 DEF H!MarkSize, Begins
  <2> QED BY <1>4, <1>8, <2>1 DEF H!Matches, H!HttpGuess, H!WsGuess
<1>9. CASE p \in {"socks4", "socks5"}
  <2>1. n = 1 /\ (p = "socks4" => x = <<4>>) /\ (p = "socks5" => x = <<5>>)
    BY <1>3, <1>7, <1>9 DEF H!MarkSize, Begins
  <2> QED BY <1>4, <1>9, <2>1 DEF H!Matches, H!Socks4Guess, H!Socks5Guess
<1>10. CASE p = "trojan"
  <2> SUFFICES ASSUME H!Compatible(h) PROVE FALSE
    OBVIOUS
  <2>1. x = H!Hash(h.auth)
    <3>1. n = 2 /\ x = <<150 + h.auth, 150 + h.auth>>
      BY <1>3, <1>6, <1>10 DEF H!MarkSize, Begins
    <3> QED BY <3>1 DEF H!Hash
  <2>2. (h.users # {} => h.auth \in h.users) /\ (h.users = {} => h.auth = H!None)
    BY <1>10 DEF H!Compatible
  <2>3. H!Matches(p, h, x)
    BY <1>10, <2>1, <2>2 DEF H!Matches, H!TrojanGuess
  <2> QED BY <1>4, <2>3
<1>11. CASE p \in {"ss", "ssr"}
  <2> SUFFICES ASSUME H!Compatible(h) PROVE FALSE
    OBVIOUS
  <2>1. (h.users # {} => h.auth \in h.users) /\ (h.users = {} => h.auth = H!None)
    BY <1>11 DEF H!Compatible
  <2>2. CASE h.users = {}
    <3>1. x[1] = Type(h)
      BY <1>3, <1>5, <1>11, <2>1, <2>2 DEF Begins
    <3>2. Type(h) \in {1, 3, 4, 17, 19, 20}
      BY DEF Type, HopFine
    <3> QED BY <1>4, <1>11, <2>2, <3>1, <3>2 DEF H!Matches, H!SsrGuess
  <2>3. CASE h.users # {}
    <3>1. h.auth # H!None
      <4>1. h.auth \in 21..149
        BY <2>1, <2>3 DEF HopFine
      <4>2. H!None = 0 /\ 0 \notin 21..149
        BY DEF H!None
      <4> QED BY <4>1, <4>2
    <3>2. n = 2 /\ x = <<h.auth, h.auth>>
      BY <1>3, <1>6, <1>11, <2>3, <3>1 DEF H!MarkSize, Begins
    <3> QED BY <1>4, <1>11, <2>1, <2>3, <3>2 DEF H!Matches, H!SsrGuess
  <2> QED BY <2>2, <2>3
<1> QED BY <1>0, <1>2, <1>8, <1>9, <1>10, <1>11 DEF H!Protocol

-----------------------------------------------------------------------------
(* How far a server is.                                                    *)

(* How far a server is in what its client writes and in what it answers.   *)
LEMMA ToldIs ==
  ASSUME NEW h, HopFine(h), NEW p, NEW phase, p = h.proto \/ p # "socks5"
  PROVE  /\ Told(h, p, phase) \in Nat /\ Told(h, p, phase) <= Len(Reply(h))
         /\ h.proto \in {"socks4", "socks5", "http", "ws", "cfp"} => Told(h, p, phase) < Len(Reply(h))
         /\ p # "socks5" => Told(h, p, phase) = 0
<1>1. IsList(Reply(h)) /\ Len(Reply(h)) \in Nat /\ (h.proto \in {"socks4", "http", "ws", "cfp"} => Len(Reply(h)) >= 2)
  BY ReplyIsFine DEF ReplyFine
<1>2. CASE p # "socks5"
  <2>1. Told(h, p, phase) = 0
    BY <1>2 DEF Told
  <2>2. h.proto = "socks5" => Len(Reply(h)) >= 2
    BY ReplyIsFine DEF ReplyFine
  <2> QED BY <1>1, <1>2, <2>1, <2>2
<1>3. CASE p = "socks5"
  <2> DEFINE q == H!Packed(h.atyp, h.dest)
             k == Told(h, "socks5", "request")
             n == Len(Reply(h))
  <2>1. n \in Nat /\ k = (IF h.users = {} THEN 2 ELSE 4) /\ n = k + 3 + Len(q)
    BY <1>3, Socks5Reply
  <2>2. Len(q) \in Nat /\ Len(q) >= 3
    BY AskIs
  <2>3. Told(h, p, phase) \in {0, 2, 4} /\ (Told(h, p, phase) = 4 => k = 4)
    BY <1>3 DEF Told
  <2> HIDE DEF q, k, n
  <2>4. n >= 8
    BY <2>1, <2>2
  <2> QED BY <1>3, <2>1, <2>3, <2>4 DEF n
<1> QED BY <1>2, <1>3

(* How far a server is in the text of its client.                          *)
LEMMA EatenIs ==
  ASSUME NEW h, HopFine(h), NEW phase, NEW u, Ready(h, phase, u)
  PROVE  /\ Eaten(h, h.proto, phase) \in Nat /\ Want(h, phase) \in Nat
         /\ Eaten(h, h.proto, phase) <= Want(h, phase) /\ Want(h, phase) <= Len(Text(h))
<1>1. IsList(Text(h)) /\ Len(Text(h)) \in Nat /\ (h.proto # "tunnel" => Len(Text(h)) >= 2) /\ h.proto \in H!Protocol
  BY TextIsFine DEF TextFine, HopFine
<1>2. CASE h.proto # "socks5"
  <2>1. Eaten(h, h.proto, phase) = H!Taken(h.proto, h) /\ Want(h, phase) = Len(Text(h))
    BY <1>2 DEF Eaten, Want
  <2>2. H!Taken(h.proto, h) \in {0, 1, 2} /\ (h.proto = "tunnel" => H!Taken(h.proto, h) = 0)
    BY DEF H!Taken, H!MarkSize
  <2> QED BY <1>1, <2>1, <2>2
<1>3. CASE h.proto = "socks5"
  <2> DEFINE t == Text(h)
             k == 3 + Len(User(h))
  <2>1. k = (IF h.auth = H!None THEN 3 ELSE 8) /\ Len(t) = k + Len(Ask(h)) /\ Len(t) \in Nat
    BY <1>3, Socks5Text
  <2>2. Len(Ask(h)) \in Nat
    BY AskIs, ListIs
  <2>3. /\ phase \in {"methods", "auth", "request"}
        /\ phase = "auth" => h.auth # H!None
        /\ phase = "request" /\ h.users # {} => h.auth # H!None
    BY <1>3 DEF Ready
  <2>4. /\ Eaten(h, h.proto, phase) = (IF phase = "methods" THEN 1 ELSE IF phase = "auth" THEN 3 ELSE IF h.users = {} THEN 3 ELSE 8)
        /\ Want(h, phase) = (IF phase = "methods" THEN 3 ELSE IF phase = "auth" THEN 8 ELSE Len(t))
    BY <1>3, <2>3 DEF Eaten, Want
  <2> HIDE DEF t, k
  <2>5. Len(t) >= 3 /\ (h.auth # H!None => Len(t) >= 8)
    BY <2>1, <2>2
  <2> QED BY <2>1, <2>3, <2>4, <2>5 DEF t
<1> QED BY <1>2, <1>3

(* A protocol that has just taken the connection has answered nothing.     *)
LEMMA OpeningIs ==
  ASSUME NEW h, NEW p
  PROVE  /\ Eaten(h, p, Opening(p)) = H!Taken(p, h) /\ Told(h, p, Opening(p)) = 0
         /\ Opening(p) \in {"methods", "request"} /\ (p # "socks5" => Opening(p) = "request")
BY DEF Eaten, Told, Opening, H!Taken, H!MarkSize

(* A client that the server waits for is answered as far as it has asked.  *)
LEMMA NeitherFirst ==
  ASSUME NEW h, HopFine(h), Matching(h), NEW phase, NEW u, Ready(h, phase, u), NEW r \in 1..Turns(h),
         Asking(h, r + 1) < Want(h, phase)
  PROVE  Answer(h, r + 1) <= Told(h, h.proto, phase)
<1>0. r \in 1..3 /\ r >= 1 /\ r <= Turns(h) /\ Turns(h) \in 1..3
  BY TurnsAre
<1>1. Len(Text(h)) \in Nat
  BY TextIsFine DEF TextFine
<1>2. CASE h.proto # "socks5"
  <2>1. r = 1 /\ Turns(h) = 1
    BY <1>0, <1>2 DEF Turns
  <2>2. Asking(h, r + 1) = Len(Text(h)) /\ Want(h, phase) = Len(Text(h))
    BY <1>2, <2>1 DEF Asking, Want
  <2> QED BY <1>1, <2>2
<1>3. CASE h.proto = "socks5"
  <2> DEFINE t == Len(Text(h))
  <2>1. /\ phase \in {"methods", "auth", "request"}
        /\ phase = "auth" => h.users # {} /\ h.auth # H!None
        /\ h.auth = H!None <=> h.users = {}
    BY <1>3 DEF Ready, Matching
  <2>2. Turns(h) = (IF h.auth = H!None THEN 2 ELSE 3)
    BY <1>3 DEF Turns
  <2>3. /\ Want(h, phase) = (IF phase = "methods" THEN 3 ELSE IF phase = "auth" THEN 8 ELSE t)
        /\ Told(h, h.proto, phase) = (IF phase = "methods" THEN 0 ELSE IF phase = "auth" THEN 2 ELSE IF h.users = {} THEN 2 ELSE 4)
    BY <1>3, <2>1 DEF Want, Told
  <2>4. Asking(h, r + 1) = (IF r = Turns(h) THEN t ELSE IF r = 1 THEN 3 ELSE 8)
    BY <1>0, <2>2 DEF Asking
  <2>5. t >= 3 /\ (Turns(h) = 3 => t >= 8)
    <3> DEFINE k == 3 + Len(User(h))
    <3>1. k = (IF h.auth = H!None THEN 3 ELSE 8) /\ t = k + Len(Ask(h))
      BY <1>3, Socks5Text
    <3>2. Len(Ask(h)) \in Nat
      BY AskIs, ListIs
    <3> HIDE DEF k, t
    <3> QED BY <2>2, <3>1, <3>2
  <2> HIDE DEF t
  <2>6. r # Turns(h)
    BY <2>1, <2>2, <2>3, <2>4, <2>5, <1>1 DEF t
  <2>7. Answer(h, r + 1) = 2 * r
    BY <1>0, <2>2, <2>6 DEF Answer
  <2>8. (r = 1 /\ phase \in {"auth", "request"}) \/ (r = 2 /\ phase = "request" /\ Turns(h) = 3)
    BY <1>0, <2>1, <2>2, <2>3, <2>4, <2>6
  <2> QED BY <2>1, <2>2, <2>3, <2>7, <2>8
<1> QED BY <1>2, <1>3

-----------------------------------------------------------------------------
(* The streams between the two ends.                                       *)

(* What has arrived and what is on its way is all from here to there.      *)
Stream(b, w, all, from, to) ==
  /\ IsList(b) /\ IsList(w) /\ Len(b) \in Nat /\ Len(w) \in Nat /\ from \in Nat /\ to \in Nat
  /\ from + Len(b) + Len(w) = to
  /\ \A j \in 1..Len(b) : b[j] = all[from + j]
  /\ \A j \in 1..Len(w) : w[j] = all[from + Len(b) + j]

(* A stream begins with nothing.                                           *)
LEMMA StreamStarts ==
  ASSUME NEW all, NEW f \in Nat
  PROVE  Stream(<<>>, <<>>, all, f, f)
<1>1. f + 0 + 0 = f /\ \A j \in 1..0 : FALSE
  OBVIOUS
<1> QED BY <1>1, NothingIs DEF Stream

(* Bytes that arrive change nothing about the stream,                      *)
LEMMA StreamArrives ==
  ASSUME NEW b, NEW w, NEW all, NEW f, NEW t, Stream(b, w, all, f, t), NEW n \in 1..Len(w)
  PROVE  Stream(b \o SubSeq(w, 1, n), H!After(w, n), all, f, t)
<1> DEFINE p == SubSeq(w, 1, n)
           r == H!After(w, n)
           q == b \o p
           z == 0
           o == z + 1
<1>0. /\ IsList(b) /\ IsList(w) /\ Len(b) \in Nat /\ Len(w) \in Nat /\ f \in Nat /\ t \in Nat /\ n \in Nat /\ n <= Len(w)
      /\ f + Len(b) + Len(w) = t
  BY DEF Stream
<1>1. IsList(p) /\ Len(p) = n /\ \A j \in 1..n : p[j] = w[j]
  <2>1. z \in Nat /\ z <= n /\ n - z = n /\ o = 1 /\ \A i \in 1..n : z + i = i
    BY <1>0
  <2> HIDE DEF z
  <2>2. /\ IsList(SubSeq(w, z + 1, n)) /\ Len(SubSeq(w, z + 1, n)) = n - z
        /\ \A i \in 1..(n - z) : SubSeq(w, z + 1, n)[i] = w[z + i]
    <3>1. IsList(w) /\ z \in Nat /\ n \in Nat /\ z <= n /\ n <= Len(w)
      BY <1>0, <2>1
    <3> HIDE DEF p, q, r, o
    <3> QED BY <3>1, PartIs
  <2> QED BY <2>1, <2>2
<1>2. IsList(r) /\ Len(r) = Len(w) - n /\ \A j \in 1..(Len(w) - n) : r[j] = w[n + j]
  BY <1>0, AfterIs
<1> HIDE DEF p, r
<1>3. IsList(q) /\ Len(q) = Len(b) + n /\ (\A j \in 1..Len(b) : q[j] = b[j]) /\ \A j \in 1..n : q[Len(b) + j] = p[j]
  <2>1. Is2(q, b, p)
    BY <1>0, <1>1, Both
  <2> HIDE DEF q
  <2> QED BY <1>1, <2>1 DEF Is2
<1> HIDE DEF q
<1>4. ASSUME NEW j \in 1..Len(q) PROVE q[j] = all[f + j]
  <2>1. CASE j \in 1..Len(b)
    BY <1>3, <2>1 DEF Stream
  <2>2. CASE j \notin 1..Len(b)
    <3> DEFINE k == j - Len(b)
    <3>1. k \in 1..n /\ j = Len(b) + k /\ k \in 1..Len(w) /\ f + j = f + Len(b) + k
      BY <1>0, <1>3, <2>2
    <3> HIDE DEF k
    <3>2. q[j] = w[k]
      BY <1>1, <1>3, <3>1
    <3>3. w[k] = all[f + Len(b) + k]
      BY <3>1 DEF Stream
    <3> QED BY <3>1, <3>2, <3>3
  <2> QED BY <2>1, <2>2
<1>5. ASSUME NEW j \in 1..Len(r) PROVE r[j] = all[f + Len(q) + j]
  <2>1. n + j \in 1..Len(w) /\ f + Len(q) + j = f + Len(b) + (n + j) /\ j \in 1..(Len(w) - n)
    BY <1>0, <1>2, <1>3
  <2>2. r[j] = w[n + j]
    BY <1>2, <2>1
  <2>3. w[n + j] = all[f + Len(b) + (n + j)]
    BY <2>1 DEF Stream
  <2> QED BY <2>1, <2>2, <2>3
<1>6. Len(q) \in Nat /\ Len(r) \in Nat /\ f + Len(q) + Len(r) = t
  BY <1>0, <1>2, <1>3
<1> QED BY <1>0, <1>2, <1>3, <1>4, <1>5, <1>6 DEF Stream, q, p, r

(* bytes that are read move its start,                                     *)
LEMMA StreamTakes ==
  ASSUME NEW b, NEW w, NEW all, NEW f, NEW t, Stream(b, w, all, f, t), NEW n \in Nat, n <= Len(b), NEW g, g = f + n
  PROVE  Stream(H!After(b, n), w, all, g, t)
<1> DEFINE r == H!After(b, n)
<1>0. /\ IsList(b) /\ IsList(w) /\ Len(b) \in Nat /\ Len(w) \in Nat /\ f \in Nat /\ t \in Nat
      /\ f + Len(b) + Len(w) = t
  BY DEF Stream
<1>1. IsList(r) /\ Len(r) = Len(b) - n /\ \A j \in 1..(Len(b) - n) : r[j] = b[n + j]
  BY <1>0, AfterIs
<1> HIDE DEF r
<1>2. ASSUME NEW j \in 1..Len(r) PROVE r[j] = all[g + j]
  <2>1. n + j \in 1..Len(b) /\ g + j = f + (n + j) /\ j \in 1..(Len(b) - n)
    BY <1>0, <1>1
  <2>2. r[j] = b[n + j]
    BY <1>1, <2>1
  <2>3. b[n + j] = all[f + (n + j)]
    BY <2>1 DEF Stream
  <2> QED BY <2>1, <2>2, <2>3
<1>3. Len(r) \in Nat /\ g \in Nat /\ g + Len(r) + Len(w) = t /\ g + Len(r) = f + Len(b)
  <2>1. \A x, y, v \in Nat : n <= x /\ f + x + y = v => x - n \in Nat /\ f + n \in Nat /\ f + n + (x - n) + y = v
                                                    /\ f + n + (x - n) = f + x
    BY <1>0
  <2>2. Len(r) = Len(b) - n
    BY <1>1
  <2> QED BY <1>0, <2>1, <2>2
<1>4. ASSUME NEW j \in 1..Len(w) PROVE w[j] = all[g + Len(r) + j]
  BY <1>3 DEF Stream
<1> QED BY <1>0, <1>1, <1>2, <1>3, <1>4 DEF Stream, r

(* and bytes that are written its end.                                     *)
LEMMA StreamSends ==
  ASSUME NEW b, NEW w, NEW all, NEW f, NEW t, Stream(b, w, all, f, t), NEW d, NEW u \in Nat, IsPart(d, all, t, u)
  PROVE  Stream(b, w \o d, all, f, u)
<1> DEFINE q == w \o d
<1>0. /\ IsList(b) /\ IsList(w) /\ Len(b) \in Nat /\ Len(w) \in Nat /\ f \in Nat /\ t \in Nat
      /\ f + Len(b) + Len(w) = t
  BY DEF Stream
<1>1. IsList(d) /\ Len(d) = u - t /\ Len(d) \in Nat /\ \A j \in 1..Len(d) : d[j] = all[t + j]
  BY ListIs DEF IsPart
<1>2. IsList(q) /\ Len(q) = Len(w) + Len(d) /\ (\A j \in 1..Len(w) : q[j] = w[j]) /\ \A j \in 1..Len(d) : q[Len(w) + j] = d[j]
  <2>1. Is2(q, w, d)
    BY <1>0, <1>1, Both
  <2> HIDE DEF q
  <2> QED BY <2>1 DEF Is2
<1> HIDE DEF q
<1>3. ASSUME NEW j \in 1..Len(q) PROVE q[j] = all[f + Len(b) + j]
  <2>1. CASE j \in 1..Len(w)
    BY <1>2, <2>1 DEF Stream
  <2>2. CASE j \notin 1..Len(w)
    <3> DEFINE k == j - Len(w)
    <3>1. k \in 1..Len(d) /\ j = Len(w) + k /\ f + Len(b) + j = t + k
      <4>1. Len(q) = Len(w) + Len(d) /\ Len(d) \in Nat /\ Len(w) \in Nat
        BY <1>0, <1>1, <1>2
      <4>2. j \in Int /\ j > Len(w) /\ j <= Len(w) + Len(d)
        BY <2>2, <4>1
      <4>3. k \in 1..Len(d) /\ j = Len(w) + k
        BY <4>1, <4>2
      <4>4. \A x, y, z, v \in Nat : f + x + y = v => f + x + (y + z) = v + z
        BY <1>0
      <4>5. k \in Nat
        BY <4>3
      <4> HIDE DEF k
      <4>6. f + Len(b) + (Len(w) + k) = t + k
        BY <1>0, <4>4, <4>5
      <4> QED BY <4>3, <4>6
    <3> HIDE DEF k
    <3> QED BY <1>1, <1>2, <3>1
  <2> QED BY <2>1, <2>2
<1>4. Len(q) \in Nat /\ f + Len(b) + Len(q) = u
  <2>1. \A x, y, z, v, n, m, k \in Nat : x + y + z = v /\ k = m - v /\ n = z + k => x + y + n = m
    OBVIOUS
  <2>2. Len(q) \in Nat
    BY <1>0, <1>1, <1>2
  <2>3. /\ Len(d) = u - t /\ f + Len(b) + Len(w) = t /\ Len(q) = Len(w) + Len(d)
        /\ f \in Nat /\ Len(b) \in Nat /\ Len(w) \in Nat /\ t \in Nat /\ Len(d) \in Nat /\ u \in Nat
    BY <1>0, <1>1, <1>2
  <2> QED BY <2>1, <2>2, <2>3
<1>5. \A j \in 1..Len(b) : b[j] = all[f + j]
  BY DEF Stream
<1> QED BY <1>0, <1>2, <1>3, <1>4, <1>5 DEF Stream, q

-----------------------------------------------------------------------------
(* Parts l, one behind the other, and a tail, at their places in all.      *)
Laid(all, at, n, l, tail) ==
  /\ IsList(all) /\ Len(all) = at[n] + Len(tail) /\ IsList(tail) /\ Len(tail) \in Nat
  /\ at[0] = 0 /\ \A i \in 0..n : at[i] \in Nat
  /\ \A i \in 1..n : at[i] = at[i - 1] + Len(l[i])
  /\ \A i \in 0..n : \A j \in i..n : at[i] <= at[j]
  /\ \A i \in 1..n : \A k \in 1..Len(l[i]) : all[at[i - 1] + k] = l[i][k]
  /\ \A k \in 1..Len(tail) : all[at[n] + k] = tail[k]
Places(n, l) == [i \in 0..n |-> Len(Joined(n, l)[i])]

(* Where each of the sequences that are put together lies.                 *)
LEMMA LaidOut ==
  ASSUME NEW n \in Nat, NEW l, \A i \in 1..n : IsList(l[i]), NEW tail, IsList(tail)
  PROVE  Laid(Joined(n, l)[n] \o tail, Places(n, l), n, l, tail)
<1> DEFINE t == Joined(n, l)
           at == Places(n, l)
           x == t[n]
           all == x \o tail
<1>1. Joins(t, n, l)
  BY JoinedIs
<1>2. \A i \in 0..n : at[i] = Len(t[i])
  BY DEF Places
<1> HIDE DEF t, at
<1>3. n \in 0..n /\ 0 \in 0..n /\ \A i \in 1..n : i \in 0..n /\ i - 1 \in 0..n
  OBVIOUS
<1>4. IsList(x) /\ Len(x) \in Nat /\ at[n] = Len(x)
  BY <1>1, <1>2, <1>3 DEF Joins
<1>5. Is2(all, x, tail)
  BY <1>4, Both
<1> HIDE DEF all
<1>6. /\ IsList(all) /\ Len(all) = Len(x) + Len(tail) /\ (\A j \in 1..Len(x) : all[j] = x[j])
      /\ (\A j \in 1..Len(tail) : all[Len(x) + j] = tail[j]) /\ Len(tail) \in Nat
  BY <1>5 DEF Is2
<1>7. at[0] = 0
  <2>1. t[0] = <<>>
    BY <1>1 DEF Joins
  <2> QED BY <1>2, <1>3, <2>1, NothingIs
<1>8. \A i \in 0..n : at[i] \in Nat
  BY <1>1, <1>2 DEF Joins
<1>9. ASSUME NEW i \in 1..n PROVE at[i] = at[i - 1] + Len(l[i])
  <2>1. Len(t[i]) = Len(t[i - 1]) + Len(l[i])
    BY <1>1 DEF Joins
  <2> QED BY <1>2, <1>3, <2>1
<1>10. ASSUME NEW i \in 0..n, NEW j \in i..n PROVE at[i] <= at[j]
  <2>1. Len(t[i]) <= Len(t[j]) /\ j \in 0..n
    BY <1>1 DEF Joins
  <2> QED BY <1>2, <2>1
<1>11. ASSUME NEW i \in 1..n, NEW k \in 1..Len(l[i]) PROVE all[at[i - 1] + k] = l[i][k]
  <2>1. x[Len(t[i - 1]) + k] = l[i][k]
    BY <1>1 DEF Joins, x
  <2>2. Len(l[i]) \in Nat
    BY ListIs
  <2>3. at[i] <= at[n]
    BY <1>3, <1>10
  <2>4. at[i - 1] + k \in 1..Len(x) /\ at[i - 1] = Len(t[i - 1])
    <3>1. at[i - 1] \in Nat /\ at[i] \in Nat /\ at[i - 1] = Len(t[i - 1])
      BY <1>2, <1>3, <1>8
    <3>2. at[i] = at[i - 1] + Len(l[i]) /\ at[i] <= Len(x) /\ Len(x) \in Nat
      BY <1>4, <1>9, <2>3
    <3> HIDE DEF x
    <3>3. \A p, q, r, m \in Nat : m \in 1..q /\ p + q <= r => p + m \in 1..r
      OBVIOUS
    <3>4. k \in Nat /\ at[i - 1] + Len(l[i]) <= Len(x)
      BY <2>2, <3>2
    <3> QED BY <2>2, <3>1, <3>2, <3>3, <3>4
  <2> QED BY <1>6, <2>1, <2>4
<1> QED BY <1>4, <1>6, <1>7, <1>8, <1>9, <1>10, <1>11 DEF Laid, all, t, at

(* What has arrived, seen from inside one of the parts.                    *)
LEMMA StreamAgrees ==
  ASSUME NEW all, NEW at, NEW n \in Nat, NEW l, NEW tail, Laid(all, at, n, l, tail),
         NEW b, NEW w, NEW f, NEW t, Stream(b, w, all, f, t), NEW i \in 1..n, NEW k \in Nat, f = at[i - 1] + k
  PROVE  Agrees(b, l[i], k)
<1>1. IsList(b) /\ at[i - 1] \in Nat
  <2>1. i - 1 \in 0..n
    OBVIOUS
  <2> QED BY <2>1 DEF Stream, Laid
<1>2. ASSUME NEW j \in 1..Len(b), k + j \in 1..Len(l[i]) PROVE b[j] = l[i][k + j]
  <2>1. b[j] = all[f + j]
    BY DEF Stream
  <2>2. all[at[i - 1] + (k + j)] = l[i][k + j]
    BY <1>2 DEF Laid
  <2>3. f + j = at[i - 1] + (k + j)
    BY <1>1
  <2> QED BY <2>1, <2>2, <2>3
<1> QED BY <1>1, <1>2 DEF Agrees

(* A piece of a part, and the tail, in the whole.                          *)
LEMMA PartOfAll ==
  ASSUME NEW all, NEW at, NEW n \in Nat, NEW l, NEW tail, Laid(all, at, n, l, tail), NEW i \in 1..n,
         NEW from \in Nat, NEW to \in Nat, to <= Len(l[i]), Len(l[i]) \in Nat, NEW d, IsPart(d, l[i], from, to),
         NEW x, x = at[i - 1] + from, NEW y, y = at[i - 1] + to
  PROVE  IsPart(d, all, x, y)
<1>1. at[i - 1] \in Nat
  <2>1. i - 1 \in 0..n
    OBVIOUS
  <2> QED BY <2>1 DEF Laid
<1>2. IsList(d) /\ Len(d) = to - from
  BY DEF IsPart
<1>3. ASSUME NEW j \in 1..Len(d) PROVE d[j] = all[x + j]
  <2>1. d[j] = l[i][from + j]
    BY DEF IsPart
  <2>2. from + j \in 1..Len(l[i])
    BY <1>2
  <2>3. all[at[i - 1] + (from + j)] = l[i][from + j]
    BY <2>2 DEF Laid
  <2>4. x + j = at[i - 1] + (from + j)
    BY <1>1
  <2> QED BY <2>1, <2>3, <2>4
<1>4. to - from = y - x
  BY <1>1
<1> QED BY <1>2, <1>3, <1>4 DEF IsPart

(* The tail lies behind them all.                                          *)
LEMMA TailOfAll ==
  ASSUME NEW all, NEW at, NEW n \in Nat, NEW l, NEW tail, Laid(all, at, n, l, tail)
  PROVE  IsPart(tail, all, at[n], Len(all)) /\ Len(all) \in Nat /\ at[n] \in Nat /\ Len(all) = at[n] + Len(tail)
<1>1. at[n] \in Nat
  BY DEF Laid
<1>2. Len(all) = at[n] + Len(tail) /\ Len(tail) \in Nat /\ IsList(tail) /\ \A k \in 1..Len(tail) : all[at[n] + k] = tail[k]
  BY DEF Laid
<1>3. Len(tail) = Len(all) - at[n]
  BY <1>1, <1>2
<1> QED BY <1>1, <1>2, <1>3 DEF IsPart

(* A stream that holds a whole piece, or nothing.                          *)
LEMMA StreamHolds ==
  ASSUME NEW b, NEW w, NEW all, NEW f, NEW t, Stream(b, w, all, f, t), NEW d, IsPart(d, all, f, t)
  PROVE  b \o w = d
<1> DEFINE q == b \o w
<1>0. /\ IsList(b) /\ IsList(w) /\ Len(b) \in Nat /\ Len(w) \in Nat /\ f \in Nat /\ t \in Nat
      /\ f + Len(b) + Len(w) = t
  BY DEF Stream
<1>1. IsList(d) /\ Len(d) = Len(b) + Len(w)
  <2>1. IsList(d) /\ Len(d) = t - f
    BY DEF IsPart
  <2> QED BY <1>0, <2>1
<1>2. Is2(q, b, w)
  BY <1>0, Both
<1> HIDE DEF q
<1>3. IsList(q) /\ Len(q) = Len(d) /\ (\A j \in 1..Len(b) : q[j] = b[j]) /\ \A j \in 1..Len(w) : q[Len(b) + j] = w[j]
  BY <1>1, <1>2 DEF Is2
<1>4. ASSUME NEW j \in 1..Len(q) PROVE q[j] = d[j]
  <2>1. d[j] = all[f + j]
    BY <1>3 DEF IsPart
  <2>2. CASE j \in 1..Len(b)
    <3>1. b[j] = all[f + j]
      BY <2>2 DEF Stream
    <3> QED BY <1>3, <2>1, <2>2, <3>1
  <2>3. CASE j \notin 1..Len(b)
    <3> DEFINE k == j - Len(b)
    <3>1. k \in 1..Len(w) /\ j = Len(b) + k /\ f + j = f + Len(b) + k
      BY <1>0, <1>1, <1>3, <2>3
    <3> HIDE DEF k
    <3>2. w[k] = all[f + Len(b) + k]
      BY <3>1 DEF Stream
    <3> QED BY <1>3, <2>1, <3>1, <3>2
  <2> QED BY <2>2, <2>3
<1>5. q = d
  BY <1>1, <1>3, <1>4, ListsEqual
<1> QED BY <1>5 DEF q

(* A stream that ends where it starts holds nothing.                       *)
LEMMA StreamEmpty ==
  ASSUME NEW b, NEW w, NEW all, NEW f, NEW t, Stream(b, w, all, f, t), t <= f
  PROVE  b \o w = <<>> /\ b = <<>> /\ w = <<>> /\ t = f
<1>0. /\ IsList(b) /\ IsList(w) /\ Len(b) \in Nat /\ Len(w) \in Nat /\ f \in Nat /\ t \in Nat
      /\ f + Len(b) + Len(w) = t
  BY DEF Stream
<1>1. Len(b) = 0 /\ Len(w) = 0 /\ t = f
  BY <1>0
<1>2. b = <<>> /\ w = <<>>
  BY <1>0, <1>1, EmptyIs
<1>3. <<>> \o <<>> = <<>>
  BY NothingIs, NothingAdds
<1> QED BY <1>1, <1>2, <1>3

-----------------------------------------------------------------------------
(* The whole chain, laid out in the two streams.                           *)

(* All that goes up and all that comes down over a chain, and where the    *)
(* part of each hop ends.                                                  *)
Texts(c) == [i \in 1..Len(c) |-> Text(c[i])]
Replies(c) == [i \in 1..Len(c) |-> Reply(c[i])]
Up(c) == Joined(Len(c), Texts(c))[Len(c)] \o Payload
Down(c) == Joined(Len(c), Replies(c))[Len(c)] \o Back
UpTo(c) == Places(Len(c), Texts(c))
DownTo(c) == Places(Len(c), Replies(c))

(* A chain that a configuration may have.                                  *)
TriesFine(h) == /\ Len(h.tries) \in Nat \ {0} /\ DOMAIN h.tries = 1..Len(h.tries)
                /\ \A j \in 1..Len(h.tries) : h.tries[j] \in H!Protocol
Fine(c) ==
  /\ Len(c) \in Nat \ {0} /\ DOMAIN c = 1..Len(c)
  /\ \A i \in 1..Len(c) : HopFine(c[i]) /\ H!ToldApart(c[i]) /\ TriesFine(c[i])
  /\ Laid(Up(c), UpTo(c), Len(c), Texts(c), Payload)
  /\ Laid(Down(c), DownTo(c), Len(c), Replies(c), Back)

(* Every chain a configuration may have is fine.                           *)
LEMMA ChainIsFine ==
  ASSUME H!ChainTypeOK, H!HopsOK, NEW c \in Chain
  PROVE  Fine(c)
<1>1. /\ Len(c) \in Nat \ {0} /\ DOMAIN c = 1..Len(c)
      /\ \A i \in 1..Len(c) : TriesFine(c[i])
  BY ChainIsList DEF TriesFine
<1>2. \A i \in 1..Len(c) : H!HopOK(c[i])
  BY <1>1 DEF H!HopsOK
<1>3. \A i \in 1..Len(c) : HopFine(c[i]) /\ H!ToldApart(c[i])
  BY <1>2, HopIsFine DEF H!HopOK
<1>4. IsList(Payload) /\ IsList(Back)
  <2>1. Payload \in Seq(Int) /\ Back \in Seq(Int)
    BY DEF H!HopsOK
  <2> QED BY <2>1, SeqIsList
<1>5. Laid(Up(c), UpTo(c), Len(c), Texts(c), Payload)
  <2> DEFINE n == Len(c)
             l == Texts(c)
  <2>1. \A i \in 1..n : IsList(l[i])
    BY <1>3, TextIsFine DEF Texts, TextFine
  <2> HIDE DEF l
  <2>2. n \in Nat
    BY <1>1
  <2> HIDE DEF n
  <2>3. Laid(Joined(n, l)[n] \o Payload, Places(n, l), n, l, Payload)
    BY <1>4, <2>1, <2>2, LaidOut
  <2> QED BY <2>3 DEF n, l, Up, UpTo
<1>6. Laid(Down(c), DownTo(c), Len(c), Replies(c), Back)
  <2> DEFINE n == Len(c)
             l == Replies(c)
  <2>1. \A i \in 1..n : IsList(l[i])
    BY <1>3, ReplyIsFine DEF Replies, ReplyFine
  <2> HIDE DEF l
  <2>2. n \in Nat
    BY <1>1
  <2> HIDE DEF n
  <2>3. Laid(Joined(n, l)[n] \o Back, Places(n, l), n, l, Back)
    BY <1>4, <2>1, <2>2, LaidOut
  <2> QED BY <2>3 DEF n, l, Down, DownTo
<1> QED BY <1>1, <1>3, <1>5, <1>6 DEF Fine

(* The places of a hop of a chain.                                         *)
HopAt(c, i) ==
  /\ i \in 1..Len(c) /\ i \in Nat /\ Len(c) \in Nat
  /\ HopFine(c[i]) /\ H!ToldApart(c[i]) /\ TriesFine(c[i])
  /\ UpTo(c)[i - 1] \in Nat /\ UpTo(c)[i] \in Nat /\ Len(Text(c[i])) \in Nat
  /\ UpTo(c)[i] = UpTo(c)[i - 1] + Len(Text(c[i]))
  /\ DownTo(c)[i - 1] \in Nat /\ DownTo(c)[i] \in Nat /\ Len(Reply(c[i])) \in Nat
  /\ DownTo(c)[i] = DownTo(c)[i - 1] + Len(Reply(c[i]))

(* Where the texts and the answers of a hop begin and end.                 *)
LEMMA HopIsAt ==
  ASSUME NEW c, Fine(c), NEW i \in 1..Len(c)
  PROVE  HopAt(c, i)
<1>1. Len(c) \in Nat /\ i \in Nat /\ i \in 0..Len(c) /\ i - 1 \in 0..Len(c)
  BY DEF Fine
<1>2. HopFine(c[i]) /\ H!ToldApart(c[i]) /\ TriesFine(c[i])
  BY DEF Fine
<1>3. Texts(c)[i] = Text(c[i]) /\ Replies(c)[i] = Reply(c[i])
  BY DEF Texts, Replies
<1>4. UpTo(c)[i - 1] \in Nat /\ UpTo(c)[i] \in Nat /\ UpTo(c)[i] = UpTo(c)[i - 1] + Len(Texts(c)[i])
  <2>1. Laid(Up(c), UpTo(c), Len(c), Texts(c), Payload)
    BY DEF Fine
  <2> QED BY <1>1, <2>1 DEF Laid
<1>5. DownTo(c)[i - 1] \in Nat /\ DownTo(c)[i] \in Nat /\ DownTo(c)[i] = DownTo(c)[i - 1] + Len(Replies(c)[i])
  <2>1. Laid(Down(c), DownTo(c), Len(c), Replies(c), Back)
    BY DEF Fine
  <2> QED BY <1>1, <2>1 DEF Laid
<1>6. Len(Text(c[i])) \in Nat /\ Len(Reply(c[i])) \in Nat
  BY <1>2, TextIsFine, ReplyIsFine DEF TextFine, ReplyFine
<1> QED BY <1>1, <1>2, <1>3, <1>4, <1>5, <1>6 DEF HopAt

(* The hops lie in the order of the chain.                                 *)
LEMMA InOrder ==
  ASSUME NEW c, Fine(c), NEW i \in 0..Len(c), NEW j \in 0..Len(c), i <= j
  PROVE  /\ UpTo(c)[i] \in Nat /\ UpTo(c)[j] \in Nat /\ UpTo(c)[i] <= UpTo(c)[j]
         /\ DownTo(c)[i] \in Nat /\ DownTo(c)[j] \in Nat /\ DownTo(c)[i] <= DownTo(c)[j]
<1>1. Len(c) \in Nat /\ j \in i..Len(c)
  BY DEF Fine
<1>2. Laid(Up(c), UpTo(c), Len(c), Texts(c), Payload) /\ Laid(Down(c), DownTo(c), Len(c), Replies(c), Back)
  BY DEF Fine
<1> QED BY <1>1, <1>2 DEF Laid

(* The payload lies behind all of them.                                    *)
LEMMA Ends ==
  ASSUME NEW c, Fine(c)
  PROVE  /\ UpTo(c)[0] = 0 /\ DownTo(c)[0] = 0
         /\ UpTo(c)[Len(c)] \in Nat /\ Len(Up(c)) \in Nat /\ IsPart(Payload, Up(c), UpTo(c)[Len(c)], Len(Up(c)))
         /\ Len(Up(c)) = UpTo(c)[Len(c)] + Len(Payload) /\ Len(Payload) \in Nat
         /\ DownTo(c)[Len(c)] \in Nat /\ Len(Down(c)) \in Nat /\ IsPart(Back, Down(c), DownTo(c)[Len(c)], Len(Down(c)))
         /\ Len(Down(c)) = DownTo(c)[Len(c)] + Len(Back) /\ Len(Back) \in Nat
<1>1. Laid(Up(c), UpTo(c), Len(c), Texts(c), Payload) /\ Laid(Down(c), DownTo(c), Len(c), Replies(c), Back) /\ Len(c) \in Nat
  BY DEF Fine
<1>2. UpTo(c)[0] = 0 /\ DownTo(c)[0] = 0 /\ Len(Payload) \in Nat /\ Len(Back) \in Nat
  BY <1>1 DEF Laid
<1>3. /\ IsPart(Payload, Up(c), UpTo(c)[Len(c)], Len(Up(c))) /\ Len(Up(c)) \in Nat /\ UpTo(c)[Len(c)] \in Nat
      /\ Len(Up(c)) = UpTo(c)[Len(c)] + Len(Payload)
  <2> DEFINE n == Len(c)
             all == Up(c)
             at == UpTo(c)
             l == Texts(c)
  <2>1. Laid(all, at, n, l, Payload) /\ n \in Nat
    BY <1>1
  <2> HIDE DEF n, all, at, l
  <2>2. IsPart(Payload, all, at[n], Len(all)) /\ Len(all) \in Nat /\ at[n] \in Nat /\ Len(all) = at[n] + Len(Payload)
    <3>1. at[n] \in Nat
      BY <2>1 DEF Laid
    <3>2. Len(all) = at[n] + Len(Payload) /\ Len(Payload) \in Nat /\ IsList(Payload) /\ \A k \in 1..Len(Payload) : all[at[n] + k] = Payload[k]
      BY <2>1 DEF Laid
    <3>3. Len(Payload) = Len(all) - at[n]
      BY <3>1, <3>2
    <3> QED BY <3>1, <3>2, <3>3 DEF IsPart
  <2> QED BY <2>2 DEF n, all, at
<1>4. /\ IsPart(Back, Down(c), DownTo(c)[Len(c)], Len(Down(c))) /\ Len(Down(c)) \in Nat /\ DownTo(c)[Len(c)] \in Nat
      /\ Len(Down(c)) = DownTo(c)[Len(c)] + Len(Back)
  <2> DEFINE n == Len(c)
             all == Down(c)
             at == DownTo(c)
             l == Replies(c)
  <2>1. Laid(all, at, n, l, Back) /\ n \in Nat
    BY <1>1
  <2> HIDE DEF n, all, at, l
  <2>2. IsPart(Back, all, at[n], Len(all)) /\ Len(all) \in Nat /\ at[n] \in Nat /\ Len(all) = at[n] + Len(Back)
    <3>1. at[n] \in Nat
      BY <2>1 DEF Laid
    <3>2. Len(all) = at[n] + Len(Back) /\ Len(Back) \in Nat /\ IsList(Back) /\ \A k \in 1..Len(Back) : all[at[n] + k] = Back[k]
      BY <2>1 DEF Laid
    <3>3. Len(Back) = Len(all) - at[n]
      BY <3>1, <3>2
    <3> QED BY <3>1, <3>2, <3>3 DEF IsPart
  <2> QED BY <2>2 DEF n, all, at
<1> QED BY <1>2, <1>3, <1>4

(* Streams and their parts, at a hop.                                      *)
LEMMA UpAgrees ==
  ASSUME NEW c, Fine(c), NEW i \in 1..Len(c), NEW b, NEW w, NEW f, NEW t, Stream(b, w, Up(c), f, t),
         NEW k \in Nat, f = UpTo(c)[i - 1] + k
  PROVE  Agrees(b, Text(c[i]), k)
<1>1. Laid(Up(c), UpTo(c), Len(c), Texts(c), Payload) /\ Len(c) \in Nat
  BY DEF Fine
<1>2. Agrees(b, Texts(c)[i], k)
  BY <1>1, StreamAgrees
<1> QED BY <1>2 DEF Texts

(* What a client reads agrees with the answer of its hop.                  *)
LEMMA DownAgrees ==
  ASSUME NEW c, Fine(c), NEW i \in 1..Len(c), NEW b, NEW w, NEW f, NEW t, Stream(b, w, Down(c), f, t),
         NEW k \in Nat, f = DownTo(c)[i - 1] + k
  PROVE  Agrees(b, Reply(c[i]), k)
<1>1. Laid(Down(c), DownTo(c), Len(c), Replies(c), Back) /\ Len(c) \in Nat
  BY DEF Fine
<1>2. Agrees(b, Replies(c)[i], k)
  BY <1>1, StreamAgrees
<1> QED BY <1>2 DEF Replies

(* A part of what the client of a hop writes is a part of all that goes    *)
(* up,                                                                     *)
LEMMA UpPart ==
  ASSUME NEW c, Fine(c), NEW i \in 1..Len(c), NEW from \in Nat, NEW to \in Nat, to <= Len(Text(c[i])),
         NEW d, IsPart(d, Text(c[i]), from, to), NEW x, x = UpTo(c)[i - 1] + from, NEW y, y = UpTo(c)[i - 1] + to
  PROVE  IsPart(d, Up(c), x, y)
<1>1. Laid(Up(c), UpTo(c), Len(c), Texts(c), Payload) /\ Len(c) \in Nat
  BY DEF Fine
<1>2. Texts(c)[i] = Text(c[i]) /\ Len(Text(c[i])) \in Nat
  BY HopIsAt DEF Texts, HopAt
<1>3. IsPart(d, Texts(c)[i], from, to) /\ to <= Len(Texts(c)[i]) /\ Len(Texts(c)[i]) \in Nat
  BY <1>2
<1> QED BY <1>1, <1>3, PartOfAll

(* and a part of what its server answers of all that comes down.           *)
LEMMA DownPart ==
  ASSUME NEW c, Fine(c), NEW i \in 1..Len(c), NEW from \in Nat, NEW to \in Nat, to <= Len(Reply(c[i])),
         NEW d, IsPart(d, Reply(c[i]), from, to), NEW x, x = DownTo(c)[i - 1] + from, NEW y, y = DownTo(c)[i - 1] + to
  PROVE  IsPart(d, Down(c), x, y)
<1>1. Laid(Down(c), DownTo(c), Len(c), Replies(c), Back) /\ Len(c) \in Nat
  BY DEF Fine
<1>2. Replies(c)[i] = Reply(c[i]) /\ Len(Reply(c[i])) \in Nat
  BY HopIsAt DEF Replies, HopAt
<1>3. IsPart(d, Replies(c)[i], from, to) /\ to <= Len(Replies(c)[i]) /\ Len(Replies(c)[i]) \in Nat
  BY <1>2
<1> QED BY <1>1, <1>3, PartOfAll

-----------------------------------------------------------------------------
(* The invariant of both ends.                                             *)

(* How far each end is in the two streams.                                 *)
Mine == hops[client.hop]
SentUp ==
  IF client.st = "connected" THEN Len(Up(hops))
  ELSE UpTo(hops)[client.hop - 1] + Asking(Mine, IF client.st = "say" THEN client.round ELSE client.round + 1)
HeardDown ==
  IF client.st = "connected" THEN DownTo(hops)[Len(hops)]
  ELSE DownTo(hops)[client.hop - 1] + Answer(Mine, client.round)
ReadUp ==
  CASE server.st = "guess" -> UpTo(hops)[server.hop - 1]
    [] server.st = "read"  -> UpTo(hops)[server.hop - 1] + Eaten(Here, Asked, server.phase)
    [] OTHER               -> UpTo(hops)[server.hop]
SentDown ==
  CASE server.st = "guess" -> DownTo(hops)[server.hop - 1]
    [] server.st = "read"  -> DownTo(hops)[server.hop - 1] + Told(Here, Asked, server.phase)
    [] server.st = "dial"  -> DownTo(hops)[server.hop] - Len(H!Connected(Asked))
    [] OTHER               -> Len(Down(hops))

(* The streams are records of their two directions, and the client is at   *)
(* one round of one hop.                                                   *)
PeerShape ==
  /\ wire = [up |-> wire.up, down |-> wire.down] /\ hsbuf = [up |-> hsbuf.up, down |-> hsbuf.down]
  /\ client = [hop |-> client.hop, round |-> client.round, st |-> client.st]
  /\ client.hop \in 1..Len(hops) /\ client.round \in 1..Turns(Mine)
  /\ client.st \in {"say", "hear", "failed", "connected"}
  /\ client.st = "connected" => client.hop = Len(hops)

(* What the server has learned of its hop from the protocol it took.       *)
Learned ==
  /\ server.st \in {"guess", "read"} => Alone(Here, server.try)
  /\ server.st = "read" => IF Asked = Here.proto THEN Ready(Here, server.phase, server.user)
                           ELSE H!Mistakes(Asked, Here) /\ Behind(Here, server.try) /\ server.phase = "request"
  /\ server.st \in {"dial", "relay"} => Asked = Here.proto
  /\ server.st = "relay" => server.hop = Len(hops)

(* What is under way up and down: the rest of what was written, or of a    *)
(* refusal.  An answer that is sent means that its client was let in.      *)
UpFlow == server.st # "closed" => Stream(hsbuf.up, wire.up, Up(hops), ReadUp, SentUp)

Vouched(c, ad, e) == \A i \in 1..Len(c) : c[i].proto \in H!Answered /\ e >= DownTo(c)[i] => Len(ad) >= i
Answering(e) ==
  /\ e \in Nat /\ Stream(hsbuf.down, wire.down, Down(hops), HeardDown, e)
  /\ Vouched(hops, admitted, e) /\ (server.st # "closed" => e = SentDown)
Unauthorizing ==
  /\ server.st = "closed" /\ client.st = "hear" /\ Mine.proto \in {"http", "ws", "cfp"}
  /\ Stream(hsbuf.down, wire.down, H!Unauthorized, 0, 2)
Silent == server.st = "closed" /\ hsbuf.down = <<>> /\ wire.down = <<>>
DownFlow == client.st # "failed" => (\E e \in Nat : Answering(e)) \/ Unauthorizing \/ Silent

(* A client that has gone on was let in, if it checks that, and over SOCKS5 *)
(* is configured as its server is.                                         *)
PassedBy(i) == client.hop > i \/ client.st = "connected"
Admitted == \A i \in 1..Len(hops) : PassedBy(i) /\ hops[i].proto \in H!Answered => Len(admitted) >= i
Aligned ==
  \A i \in 1..Len(hops) : PassedBy(i) \/ (client.hop = i /\ client.round > 1) => Matching(hops[i])

(* Whoever was let in is who its client said, and goes where it asked.     *)
AsAsked(i) ==
  /\ admitted[i].dest = IF hops[i].proto = "socks4" THEN H!Resolved(hops[i].dest) ELSE hops[i].dest
  /\ hops[i].users # {} /\ hops[i].proto # "tunnel" => admitted[i].user = hops[i].auth
AllAsAsked == \A i \in 1..Len(admitted) : AsAsked(i)

(* Two sides configured alike have not given up.                           *)
AllGood == why = {} /\ \A i \in 1..Len(hops) : H!Compatible(hops[i])
Going ==
  AllGood =>
    /\ client.st # "failed" /\ server.st # "closed"
    /\ server.st \in {"guess", "read"} => \A j \in 1..(server.try - 1) : Here.tries[j] # Here.proto

PeerInv == PeerShape /\ Learned /\ UpFlow /\ DownFlow /\ Admitted /\ Aligned /\ AllAsAsked /\ Going

-----------------------------------------------------------------------------
(* Where the two ends are, and how far.                                    *)
LEMMA MineIs ==
  Fine(hops) /\ PeerShape =>
    /\ client.hop \in 1..Len(hops) /\ HopAt(hops, client.hop) /\ HopFine(Mine)
    /\ client.round \in 1..Turns(Mine) /\ client.round \in 1..3 /\ Turns(Mine) \in 1..3
    /\ Spoken(Mine, client.round) /\ Listened(Mine, client.round)
<1> SUFFICES ASSUME Fine(hops), PeerShape
             PROVE  /\ client.hop \in 1..Len(hops) /\ HopAt(hops, client.hop) /\ HopFine(Mine)
                    /\ client.round \in 1..Turns(Mine) /\ client.round \in 1..3 /\ Turns(Mine) \in 1..3
                    /\ Spoken(Mine, client.round) /\ Listened(Mine, client.round)
  OBVIOUS
<1>1. client.hop \in 1..Len(hops) /\ client.round \in 1..Turns(Mine)
  BY DEF PeerShape
<1>2. HopAt(hops, client.hop)
  BY <1>1, HopIsAt
<1>3. HopFine(Mine)
  BY <1>2 DEF HopAt, Mine
<1>4. Turns(Mine) \in 1..3
  BY TurnsAre
<1>5. client.round \in 1..3
  BY <1>1, <1>4
<1>6. Spoken(Mine, client.round) /\ Listened(Mine, client.round)
  BY <1>1, <1>3, ClientSays, AnswersAre
<1> QED BY <1>1, <1>2, <1>3, <1>4, <1>5, <1>6

(* The hop where the server is.                                            *)
LEMMA HereIs ==
  Fine(hops) /\ HsInv =>
    /\ server.hop \in 1..Len(hops) /\ HopAt(hops, server.hop) /\ HopFine(Here)
    /\ server.try \in 1..Len(Here.tries) /\ TriesFine(Here) /\ Asked \in H!Protocol
<1> SUFFICES ASSUME Fine(hops), HsInv
             PROVE  /\ server.hop \in 1..Len(hops) /\ HopAt(hops, server.hop) /\ HopFine(Here)
                    /\ server.try \in 1..Len(Here.tries) /\ TriesFine(Here) /\ Asked \in H!Protocol
  OBVIOUS
<1>1. server.hop \in 1..Len(hops)
  BY DEF HsInv, HsShape, Fine
<1>2. HopAt(hops, server.hop)
  BY <1>1, HopIsAt
<1>3. HopFine(Here) /\ TriesFine(Here)
  BY <1>2 DEF HopAt, Here
<1>4. server.try \in 1..Len(Here.tries)
  BY <1>3 DEF HsInv, HsShape, TriesFine
<1>5. Asked \in H!Protocol
  BY <1>3, <1>4 DEF TriesFine, Asked
<1> QED BY <1>1, <1>2, <1>3, <1>4, <1>5

ClientAt ==
  /\ SentUp \in Nat /\ HeardDown \in Nat
  /\ client.st = "connected" => SentUp = Len(Up(hops)) /\ HeardDown = DownTo(hops)[Len(hops)]
  /\ client.st # "connected" => /\ UpTo(hops)[client.hop - 1] <= SentUp /\ SentUp <= UpTo(hops)[client.hop]
                                /\ DownTo(hops)[client.hop - 1] <= HeardDown /\ HeardDown <= DownTo(hops)[client.hop]
(* Where the client is in what it writes and hears.                        *)
LEMMA ClientIsAt == Fine(hops) /\ PeerShape => ClientAt
<1> SUFFICES ASSUME Fine(hops), PeerShape PROVE ClientAt
  OBVIOUS
<1>1. /\ HopAt(hops, client.hop) /\ Spoken(Mine, client.round) /\ Listened(Mine, client.round)
  BY MineIs
<1>2. CASE client.st = "connected"
  <2>1. SentUp = Len(Up(hops)) /\ HeardDown = DownTo(hops)[Len(hops)]
    BY <1>2 DEF SentUp, HeardDown
  <2> QED BY <1>2, <2>1, Ends DEF ClientAt
<1>3. CASE client.st # "connected"
  <2> DEFINE u == IF client.st = "say" THEN Asking(Mine, client.round) ELSE Asking(Mine, client.round + 1)
             v == Answer(Mine, client.round)
  <2>1. SentUp = UpTo(hops)[client.hop - 1] + u /\ HeardDown = DownTo(hops)[client.hop - 1] + v
    BY <1>3 DEF SentUp, HeardDown
  <2>2. u \in Nat /\ u <= Len(Text(Mine))
    <3>1. Len(Text(Mine)) \in Nat
      BY <1>1 DEF HopAt, Mine
    <3> QED BY <1>1, <3>1 DEF Spoken
  <2>3. v \in Nat /\ v <= Len(Reply(Mine))
    <3>1. Len(Reply(Mine)) \in Nat
      BY <1>1 DEF HopAt, Mine
    <3> QED BY <1>1, <3>1 DEF Listened
  <2> HIDE DEF u, v
  <2>4. /\ UpTo(hops)[client.hop - 1] \in Nat /\ UpTo(hops)[client.hop] = UpTo(hops)[client.hop - 1] + Len(Text(Mine)) /\ Len(Text(Mine)) \in Nat
        /\ DownTo(hops)[client.hop - 1] \in Nat /\ DownTo(hops)[client.hop] = DownTo(hops)[client.hop - 1] + Len(Reply(Mine)) /\ Len(Reply(Mine)) \in Nat
    BY <1>1 DEF HopAt, Mine
  <2>5. \A x, y, z \in Nat : y <= z => x <= x + y /\ x + y <= x + z /\ x + y \in Nat
    OBVIOUS
  <2>6. SentUp \in Nat /\ UpTo(hops)[client.hop - 1] <= SentUp /\ SentUp <= UpTo(hops)[client.hop]
    BY <2>1, <2>2, <2>4, <2>5
  <2>7. HeardDown \in Nat /\ DownTo(hops)[client.hop - 1] <= HeardDown /\ HeardDown <= DownTo(hops)[client.hop]
    BY <2>1, <2>3, <2>4, <2>5
  <2> QED BY <1>3, <2>6, <2>7 DEF ClientAt
<1> QED BY <1>2, <1>3

(* The answer to a connection that was made ends the whole answer of a     *)
(* server.                                                                 *)
LEMMA ConnectedIs ==
  ASSUME NEW h, HopFine(h)
  PROVE  /\ IsList(H!Connected(h.proto)) /\ Len(H!Connected(h.proto)) \in Nat /\ Len(H!Connected(h.proto)) <= Len(Reply(h))
         /\ Len(Reply(h)) \in Nat
         /\ IsPart(H!Connected(h.proto), Reply(h), Len(Reply(h)) - Len(H!Connected(h.proto)), Len(Reply(h)))
<1>1. IsList(Reply(h)) /\ Len(Reply(h)) \in Nat
  BY ReplyIsFine DEF ReplyFine
<1>2. CASE h.proto = "http"
  <2>1. H!Connected(h.proto) = Reply(h)
    BY <1>2 DEF H!Connected, Reply
  <2>2. Len(Reply(h)) - Len(Reply(h)) = 0
    BY <1>1
  <2>3. IsPart(Reply(h), Reply(h), 0, Len(Reply(h)))
    BY <1>1, AllIsPart
  <2> QED BY <1>1, <2>1, <2>2, <2>3
<1>3. CASE h.proto # "http"
  <2>1. H!Connected(h.proto) = <<>>
    BY <1>3 DEF H!Connected
  <2>2. Len(<<>>) = 0 /\ Len(Reply(h)) - 0 = Len(Reply(h)) /\ IsList(<<>>)
    BY <1>1, NothingIs
  <2>3. IsPart(<<>>, Reply(h), Len(Reply(h)), Len(Reply(h)))
    BY <1>1, NothingIsPart
  <2> QED BY <1>1, <2>1, <2>2, <2>3
<1> QED BY <1>2, <1>3

ServerAt ==
  /\ SentDown \in Nat
  /\ server.st \in {"guess", "read"} =>
       /\ DownTo(hops)[server.hop - 1] <= SentDown /\ SentDown <= DownTo(hops)[server.hop]
       /\ Here.proto \in {"socks4", "socks5", "http", "ws", "cfp"} => SentDown < DownTo(hops)[server.hop]
  /\ server.st = "dial" => SentDown <= DownTo(hops)[server.hop]
  /\ server.st \in {"relay", "closed"} => SentDown = Len(Down(hops))

(* Where the server is in what it reads and answers.                       *)
LEMMA ServerIsAt == Fine(hops) /\ HsInv /\ Learned => ServerAt
<1> SUFFICES ASSUME Fine(hops), HsInv, Learned PROVE ServerAt
  OBVIOUS
<1>1. HopAt(hops, server.hop) /\ HopFine(Here)
  BY HereIs
<1>2. /\ DownTo(hops)[server.hop - 1] \in Nat /\ DownTo(hops)[server.hop] \in Nat /\ Len(Reply(Here)) \in Nat
      /\ DownTo(hops)[server.hop] = DownTo(hops)[server.hop - 1] + Len(Reply(Here))
  BY <1>1 DEF HopAt, Here
<1>3. Here.proto \in {"socks4", "socks5", "http", "ws", "cfp"} => Len(Reply(Here)) >= 2
  BY <1>1, ReplyIsFine DEF ReplyFine
<1>4. server.st \in {"guess", "read", "dial", "relay", "closed"}
  BY DEF HsInv, HsShape
<1>5. CASE server.st = "guess"
  <2>1. SentDown = DownTo(hops)[server.hop - 1]
    BY <1>5 DEF SentDown
  <2> QED BY <1>2, <1>3, <1>5, <2>1 DEF ServerAt
<1>6. CASE server.st = "read"
  <2> DEFINE k == Told(Here, Asked, server.phase)
  <2>1. SentDown = DownTo(hops)[server.hop - 1] + k
    BY <1>6 DEF SentDown
  <2>2. Asked = Here.proto \/ Asked # "socks5"
    BY <1>6 DEF Learned, H!Mistakes
  <2>3. k \in Nat /\ k <= Len(Reply(Here)) /\ (Here.proto \in {"socks4", "socks5", "http", "ws", "cfp"} => k < Len(Reply(Here)))
    BY <1>1, <2>2, ToldIs
  <2> HIDE DEF k
  <2>4. \A x, y, z \in Nat : y <= z => x <= x + y /\ x + y <= x + z /\ x + y \in Nat /\ (y < z => x + y < x + z)
    OBVIOUS
  <2>5. /\ SentDown \in Nat /\ DownTo(hops)[server.hop - 1] <= SentDown /\ SentDown <= DownTo(hops)[server.hop]
        /\ k < Len(Reply(Here)) => SentDown < DownTo(hops)[server.hop]
    BY <1>2, <2>1, <2>3, <2>4
  <2> QED BY <1>6, <2>3, <2>5 DEF ServerAt
<1>7. CASE server.st = "dial"
  <2> DEFINE k == Len(H!Connected(Here.proto))
  <2>1. Asked = Here.proto
    BY <1>7 DEF Learned
  <2>2. SentDown = DownTo(hops)[server.hop] - k
    BY <1>7, <2>1 DEF SentDown
  <2>3. k \in Nat /\ k <= Len(Reply(Here))
    BY <1>1, ConnectedIs
  <2> HIDE DEF k
  <2>4. \A x, y, z \in Nat : y <= z => x + z - y \in Nat /\ x + z - y <= x + z
    OBVIOUS
  <2>5. SentDown \in Nat /\ SentDown <= DownTo(hops)[server.hop]
    BY <1>2, <2>2, <2>3, <2>4
  <2> QED BY <1>7, <2>5 DEF ServerAt
<1>8. CASE server.st \in {"relay", "closed"}
  <2>1. SentDown = Len(Down(hops))
    BY <1>8 DEF SentDown
  <2> QED BY <1>8, <2>1, Ends DEF ServerAt
<1> QED BY <1>4, <1>5, <1>6, <1>7, <1>8

(* An answer on its way is that of a hop that has let its client in.       *)
VouchedNow == server.st # "closed" => Vouched(hops, admitted, SentDown)
(* What the phase of a server that met its own client says of the user.    *)
LEMMA VouchedIs == Fine(hops) /\ HsInv /\ Learned => VouchedNow
<1> SUFFICES ASSUME Fine(hops), HsInv, Learned, server.st # "closed", NEW i \in 1..Len(hops), hops[i].proto \in H!Answered,
                    SentDown >= DownTo(hops)[i]
             PROVE  Len(admitted) >= i
  BY DEF VouchedNow, Vouched
<1>1. HopAt(hops, server.hop) /\ server.hop \in 1..Len(hops) /\ ServerAt
  BY HereIs, ServerIsAt
<1>2. HopAt(hops, i)
  BY HopIsAt
<1>3. /\ DownTo(hops)[i - 1] \in Nat /\ DownTo(hops)[i] \in Nat /\ DownTo(hops)[i - 1] < DownTo(hops)[i]
  <2>1. Len(Reply(hops[i])) >= 2
    <3>1. HopFine(hops[i]) /\ hops[i].proto \in {"socks4", "socks5", "cfp"}
      BY <1>2 DEF HopAt, H!Answered
    <3> QED BY <3>1, ReplyIsFine DEF ReplyFine
  <2> QED BY <1>2, <2>1 DEF HopAt
<1>4. Len(hops) \in Nat /\ server.hop \in Nat /\ i \in Nat /\ DownTo(hops)[server.hop] \in Nat /\ SentDown \in Nat
  BY <1>1, <1>2 DEF HopAt, ServerAt
<1>5. server.st \in {"guess", "read", "dial", "relay"}
  BY DEF HsInv, HsShape
<1>6. ASSUME server.hop < i, SentDown <= DownTo(hops)[server.hop] PROVE FALSE
  <2>1. server.hop \in 0..Len(hops) /\ i - 1 \in 0..Len(hops) /\ server.hop <= i - 1
    BY <1>1, <1>4, <1>6
  <2>2. DownTo(hops)[server.hop] <= DownTo(hops)[i - 1]
    BY <2>1, InOrder
  <2> QED BY <1>3, <1>4, <1>6, <2>2
<1>7. CASE server.st \in {"guess", "read"}
  <2>1. Len(admitted) = server.hop - 1
    BY <1>7 DEF HsInv, HsCount
  <2>2. i # server.hop
    <3>1. SUFFICES ASSUME i = server.hop PROVE FALSE
      OBVIOUS
    <3>2. Here.proto \in {"socks4", "socks5", "http", "ws", "cfp"}
      BY <3>1 DEF Here, H!Answered
    <3>3. SentDown < DownTo(hops)[server.hop]
      BY <1>1, <1>7, <3>2 DEF ServerAt
    <3> QED BY <1>4, <3>1, <3>3
  <2>3. ~(server.hop < i)
    BY <1>1, <1>6, <1>7 DEF ServerAt
  <2> QED BY <1>4, <2>1, <2>2, <2>3
<1>8. CASE server.st = "dial"
  <2>1. Len(admitted) = server.hop
    BY <1>8 DEF HsInv, HsCount
  <2>2. ~(server.hop < i)
    BY <1>1, <1>6, <1>8 DEF ServerAt
  <2> QED BY <1>4, <2>1, <2>2
<1>9. CASE server.st = "relay"
  <2>1. Len(admitted) = server.hop /\ server.hop = Len(hops)
    BY <1>9 DEF HsInv, HsCount, Learned
  <2> QED BY <1>4, <2>1
<1> QED BY <1>5, <1>7, <1>8, <1>9

-----------------------------------------------------------------------------
(* The steps.                                                              *)

(* What a step that leaves a part alone keeps.                             *)
LEMMA UpKept ==
  ASSUME UpFlow, hops' = hops, hsbuf'.up = hsbuf.up, wire'.up = wire.up,
         server'.st # "closed" => server.st # "closed" /\ ReadUp' = ReadUp /\ SentUp' = SentUp
  PROVE  UpFlow'
BY DEF UpFlow

(* What leaves the answers alone keeps their flow.                         *)
LEMMA DownKept ==
  ASSUME DownFlow, hops' = hops, admitted' = admitted, hsbuf'.down = hsbuf.down, wire'.down = wire.down,
         client'.st # "failed" => /\ client.st # "failed" /\ HeardDown' = HeardDown /\ client'.hop = client.hop
                                  /\ client.st = "hear" => client'.st = "hear",
         server.st = "closed" => server'.st = "closed",
         server'.st # "closed" => SentDown' = SentDown
  PROVE  DownFlow'
<1> SUFFICES ASSUME client'.st # "failed" PROVE ((\E e \in Nat : Answering(e)) \/ Unauthorizing \/ Silent)'
  BY DEF DownFlow
<1>1. (\E e \in Nat : Answering(e)) \/ Unauthorizing \/ Silent
  BY DEF DownFlow
<1>2. ASSUME NEW e \in Nat, Answering(e) PROVE Answering(e)'
  BY <1>2 DEF Answering
<1>3. ASSUME Unauthorizing PROVE Unauthorizing'
  BY <1>3 DEF Unauthorizing, Mine
<1>4. ASSUME Silent PROVE Silent'
  BY <1>4 DEF Silent
<1> QED BY <1>1, <1>2, <1>3, <1>4

(* What admits nobody keeps what is said of the admitted.                  *)
LEMMA GatesKept ==
  ASSUME Admitted, Aligned, AllAsAsked, hops' = hops, admitted' = admitted, client'.hop = client.hop,
         client'.round = client.round, client'.st = "connected" => client.st = "connected"
  PROVE  Admitted' /\ Aligned' /\ AllAsAsked'
<1>1. \A i : PassedBy(i)' => PassedBy(i)
  BY DEF PassedBy
<1>2. Admitted'
  BY <1>1 DEF Admitted
<1>3. Aligned'
  BY <1>1 DEF Aligned
<1>4. AllAsAsked'
  BY DEF AllAsAsked, AsAsked
<1> QED BY <1>2, <1>3, <1>4

(* A server that stands still has learned what it had.                     *)
LEMMA LearnedKept ==
  ASSUME Learned, hops' = hops, server'.st = "closed" \/ server' = server
  PROVE  Learned'
BY DEF Learned, Here, Asked

(* A piece arrives.                                                        *)
LEMMA ArriveKeeps ==
  ASSUME PeerInv, NEW d \in {"up", "down"}, H!Arrive(d)
  PROVE  PeerInv'
<1>1. UNCHANGED <<hops, client, server, admitted, why>>
  BY DEF H!Arrive
<1>2. PICK n \in 1..Len(wire[d]) : wire' = [wire EXCEPT ![d] = H!After(@, n)] /\ hsbuf' = [hsbuf EXCEPT ![d] = @ \o SubSeq(wire[d], 1, n)]
  BY DEF H!Arrive
<1>3. PeerShape
  BY DEF PeerInv
<1>4. hops' = hops /\ client' = client /\ server' = server /\ admitted' = admitted /\ why' = why
  BY <1>1
<1>5. ReadUp' = ReadUp /\ SentUp' = SentUp /\ HeardDown' = HeardDown /\ SentDown' = SentDown
  BY <1>4 DEF ReadUp, SentUp, HeardDown, SentDown, Here, Asked, Mine
<1>6. Learned' /\ Admitted' /\ Aligned' /\ AllAsAsked'
  BY <1>4, LearnedKept, GatesKept DEF PeerInv
<1>7. Going'
  BY <1>4 DEF PeerInv, Going, AllGood, Here
<1>8. CASE d = "up"
  <2>1. wire' = [up |-> H!After(wire.up, n), down |-> wire.down] /\ hsbuf' = [up |-> hsbuf.up \o SubSeq(wire.up, 1, n), down |-> hsbuf.down]
    BY <1>2, <1>3, <1>8 DEF PeerShape
  <2>2. /\ wire'.up = H!After(wire.up, n) /\ wire'.down = wire.down /\ hsbuf'.up = hsbuf.up \o SubSeq(wire.up, 1, n) /\ hsbuf'.down = hsbuf.down
        /\ wire' = [up |-> wire'.up, down |-> wire'.down] /\ hsbuf' = [up |-> hsbuf'.up, down |-> hsbuf'.down]
    BY <2>1
  <2>3. n \in 1..Len(wire.up)
    BY <1>2, <1>8
  <2>4. UpFlow'
    <3>1. CASE server.st # "closed"
      <4>1. Stream(hsbuf.up, wire.up, Up(hops), ReadUp, SentUp)
        BY <3>1 DEF PeerInv, UpFlow
      <4>2. Stream(hsbuf.up \o SubSeq(wire.up, 1, n), H!After(wire.up, n), Up(hops), ReadUp, SentUp)
        BY <4>1, <2>3, StreamArrives
      <4> QED BY <1>4, <1>5, <2>2, <4>2 DEF UpFlow
    <3> QED BY <1>4, <3>1 DEF UpFlow
  <2>5. DownFlow'
    BY <1>4, <1>5, <2>2, DownKept DEF PeerInv
  <2>6. PeerShape'
    BY <1>3, <1>4, <2>2 DEF PeerShape, Mine
  <2> QED BY <1>6, <1>7, <2>4, <2>5, <2>6 DEF PeerInv
<1>9. CASE d = "down"
  <2>1. wire' = [up |-> wire.up, down |-> H!After(wire.down, n)] /\ hsbuf' = [up |-> hsbuf.up, down |-> hsbuf.down \o SubSeq(wire.down, 1, n)]
    BY <1>2, <1>3, <1>9 DEF PeerShape
  <2>2. /\ wire'.down = H!After(wire.down, n) /\ wire'.up = wire.up /\ hsbuf'.down = hsbuf.down \o SubSeq(wire.down, 1, n) /\ hsbuf'.up = hsbuf.up
        /\ wire' = [up |-> wire'.up, down |-> wire'.down] /\ hsbuf' = [up |-> hsbuf'.up, down |-> hsbuf'.down]
    BY <2>1
  <2>3. n \in 1..Len(wire.down)
    BY <1>2, <1>9
  <2>4. UpFlow'
    BY <1>4, <1>5, <2>2, UpKept DEF PeerInv
  <2>5. DownFlow'
    <3> SUFFICES ASSUME client'.st # "failed" PROVE ((\E e \in Nat : Answering(e)) \/ Unauthorizing \/ Silent)'
      BY DEF DownFlow
    <3>1. (\E e \in Nat : Answering(e)) \/ Unauthorizing \/ Silent
      BY <1>4 DEF PeerInv, DownFlow
    <3>2. ASSUME NEW e \in Nat, Answering(e) PROVE Answering(e)'
      <4>1. Stream(hsbuf.down, wire.down, Down(hops), HeardDown, e)
        BY <3>2 DEF Answering
      <4>2. Stream(hsbuf.down \o SubSeq(wire.down, 1, n), H!After(wire.down, n), Down(hops), HeardDown, e)
        BY <4>1, <2>3, StreamArrives
      <4> QED BY <1>4, <1>5, <2>2, <3>2, <4>2 DEF Answering
    <3>3. ASSUME Unauthorizing PROVE Unauthorizing'
      <4>1. Stream(hsbuf.down, wire.down, H!Unauthorized, 0, 2)
        BY <3>3 DEF Unauthorizing
      <4>2. Stream(hsbuf.down \o SubSeq(wire.down, 1, n), H!After(wire.down, n), H!Unauthorized, 0, 2)
        BY <4>1, <2>3, StreamArrives
      <4> QED BY <1>4, <1>5, <2>2, <3>3, <4>2 DEF Unauthorizing, Mine
    <3>4. ~Silent
      <4>1. Len(<<>>) = 0
        BY NothingIs
      <4> QED BY <2>3, <4>1 DEF Silent
    <3> QED BY <3>1, <3>2, <3>3, <3>4
  <2>6. PeerShape'
    BY <1>3, <1>4, <2>2 DEF PeerShape, Mine
  <2> QED BY <1>6, <1>7, <2>4, <2>5, <2>6 DEF PeerInv
<1> QED BY <1>8, <1>9

(* connect() writes its next message.                                      *)
LEMMA SayKeeps ==
  ASSUME Fine(hops), PeerInv, H!Say
  PROVE  PeerInv'
<1>1. client.st = "say" /\ wire' = [wire EXCEPT !["up"] = @ \o Says(Mine, Round(Mine, client.round))] /\ client' = [client EXCEPT !.st = "hear"]
  BY DEF H!Say, H!Sends, Mine, Says, Round
<1>2. hops' = hops /\ hsbuf' = hsbuf /\ server' = server /\ admitted' = admitted /\ why' = why
  BY DEF H!Say
<1>3. PeerShape /\ UpFlow /\ DownFlow
  BY DEF PeerInv
<1> DEFINE d == Says(Mine, Round(Mine, client.round))
<1>4. /\ client'.hop = client.hop /\ client'.round = client.round /\ client'.st = "hear"
      /\ client' = [hop |-> client'.hop, round |-> client'.round, st |-> client'.st]
      /\ wire' = [up |-> wire.up \o d, down |-> wire.down]
  <2> HIDE DEF d
  <2>1. client = [hop |-> client.hop, round |-> client.round, st |-> client.st] /\ wire = [up |-> wire.up, down |-> wire.down]
    BY <1>3 DEF PeerShape
  <2>2. client' = [client EXCEPT !.st = "hear"] /\ wire' = [wire EXCEPT !["up"] = @ \o d]
    BY <1>1 DEF d
  <2>3. client' = [hop |-> client.hop, round |-> client.round, st |-> "hear"]
    BY <2>1, <2>2
  <2>4. wire' = [up |-> wire.up \o d, down |-> wire.down]
    BY <2>1, <2>2
  <2> QED BY <2>3, <2>4
<1>5. wire'.up = wire.up \o d /\ wire'.down = wire.down /\ wire' = [up |-> wire'.up, down |-> wire'.down]
  <2> HIDE DEF d
  <2> QED BY <1>4
<1> HIDE DEF d
<1>6. Mine' = Mine /\ HeardDown' = HeardDown /\ ReadUp' = ReadUp /\ SentDown' = SentDown
  BY <1>1, <1>2, <1>4 DEF Mine, HeardDown, ReadUp, SentDown, Here, Asked
<1>7. UpFlow'
  <2>1. CASE server.st # "closed"
    <3>1. Stream(hsbuf.up, wire.up, Up(hops), ReadUp, SentUp)
      BY <1>3, <2>1 DEF UpFlow
    <3>2. client.hop \in 1..Len(hops) /\ Spoken(Mine, client.round) /\ ClientAt /\ HopAt(hops, client.hop)
      BY <1>3, MineIs, ClientIsAt
    <3> DEFINE x == UpTo(hops)[client.hop - 1] + Asking(Mine, client.round)
               y == UpTo(hops)[client.hop - 1] + Asking(Mine, client.round + 1)
    <3>3. SentUp = x /\ SentUp' = y
      BY <1>1, <1>2, <1>4, <1>6 DEF SentUp
    <3>4. IsPart(d, Text(hops[client.hop]), Asking(Mine, client.round), Asking(Mine, client.round + 1))
      BY <3>2 DEF Spoken, d, Mine
    <3>5. /\ Asking(Mine, client.round) \in Nat /\ Asking(Mine, client.round + 1) \in Nat
          /\ Asking(Mine, client.round + 1) <= Len(Text(hops[client.hop]))
      BY <3>2 DEF Spoken, Mine
    <3>6. IsPart(d, Up(hops), x, y)
      BY <3>2, <3>4, <3>5, UpPart
    <3>7. y \in Nat
      BY <3>2, <3>5 DEF HopAt
    <3> HIDE DEF x, y
    <3>8. Stream(hsbuf.up, wire.up \o d, Up(hops), ReadUp, y)
      <4>1. Stream(hsbuf.up, wire.up, Up(hops), ReadUp, x)
        BY <3>1, <3>3
      <4> QED BY <4>1, <3>6, <3>7, StreamSends
    <3> QED BY <1>2, <1>5, <1>6, <3>3, <3>8 DEF UpFlow
  <2> QED BY <1>2, <2>1 DEF UpFlow
<1>8. DownFlow'
  BY <1>1, <1>2, <1>3, <1>4, <1>5, <1>6, DownKept
<1>9. Learned' /\ Admitted' /\ Aligned' /\ AllAsAsked'
  BY <1>2, <1>4, LearnedKept, GatesKept DEF PeerInv
<1>10. Going'
  BY <1>2, <1>4 DEF PeerInv, Going, AllGood, Here
<1>11. PeerShape'
  BY <1>2, <1>3, <1>4, <1>5, <1>6 DEF PeerShape
<1> QED BY <1>7, <1>8, <1>9, <1>10, <1>11 DEF PeerInv

(* One end gives up.                                                       *)
LEMMA ClientFails ==
  ASSUME PeerInv, client.st = "hear", client' = [client EXCEPT !.st = "failed"], UNCHANGED <<hops, wire, hsbuf, server, admitted>>,
         AllGood' => FALSE
  PROVE  PeerInv'
<1>1. client = [hop |-> client.hop, round |-> client.round, st |-> client.st] /\ PeerShape
  BY DEF PeerInv, PeerShape
<1>2. /\ client'.hop = client.hop /\ client'.round = client.round /\ client'.st = "failed"
      /\ client' = [hop |-> client'.hop, round |-> client'.round, st |-> client'.st]
  BY <1>1
<1>3. SentUp' = SentUp /\ ReadUp' = ReadUp
  BY <1>2 DEF SentUp, ReadUp, Mine, Here, Asked
<1>4. UpFlow' /\ Learned' /\ Admitted' /\ Aligned' /\ AllAsAsked'
  BY <1>2, <1>3, UpKept, LearnedKept, GatesKept DEF PeerInv
<1>5. DownFlow'
  BY <1>2 DEF DownFlow
<1>6. PeerShape'
  BY <1>1, <1>2 DEF PeerShape, Mine
<1> QED BY <1>4, <1>5, <1>6 DEF PeerInv, Going

(* A server may close where the sides do not fit.                          *)
LEMMA ServerCloses ==
  ASSUME PeerInv, server.st # "closed", server'.st = "closed", UNCHANGED <<hops, wire, hsbuf, client, admitted>>,
         AllGood' => FALSE
  PROVE  PeerInv'
<1>1. UpFlow'
  BY UpKept DEF PeerInv
<1>2. DownFlow'
  <2>1. HeardDown' = HeardDown
    BY DEF HeardDown, Mine
  <2> QED BY <2>1, DownKept DEF PeerInv
<1>3. Learned' /\ Admitted' /\ Aligned' /\ AllAsAsked'
  BY LearnedKept, GatesKept DEF PeerInv
<1>4. PeerShape'
  BY DEF PeerInv, PeerShape, Mine
<1> QED BY <1>1, <1>2, <1>3, <1>4 DEF PeerInv, Going

(* A read that meets the end of the stream, or waits too long.             *)
LEMMA MeetEndKeeps ==
  ASSUME HsInv, PeerInv, H!MeetEnd
  PROVE  PeerInv'
<1>1. CASE client.st = "failed" /\ H!ServerWaits /\ server' = [server EXCEPT !.st = "closed"] /\ UNCHANGED client
  <2>1. UNCHANGED <<hops, wire, hsbuf, client, admitted, why>>
    BY <1>1 DEF H!MeetEnd
  <2>2. server.st # "closed" /\ server'.st = "closed"
    BY <1>1 DEF H!ServerWaits, HsInv, HsShape
  <2>3. ~AllGood'
    BY <1>1, <2>1 DEF PeerInv, Going, AllGood
  <2> QED BY <2>1, <2>2, <2>3, ServerCloses
<1>2. CASE server.st = "closed" /\ H!ClientWaits /\ client' = [client EXCEPT !.st = "failed"] /\ UNCHANGED server
  <2>1. UNCHANGED <<hops, wire, hsbuf, server, admitted, why>>
    BY <1>2 DEF H!MeetEnd
  <2>2. client.st = "hear"
    BY <1>2 DEF H!ClientWaits
  <2>3. ~AllGood'
    BY <1>2, <2>1 DEF PeerInv, Going, AllGood
  <2> QED BY <1>2, <2>1, <2>2, <2>3, ClientFails
<1> QED BY <1>1, <1>2 DEF H!MeetEnd

(* A timeout: some side gives up, and no more is claimed.                  *)
LEMMA TimesOutKeeps ==
  ASSUME HsInv, PeerInv, H!TimesOut
  PROVE  PeerInv'
<1>1. UNCHANGED <<hops, wire, hsbuf, admitted>> /\ ~AllGood'
  BY DEF H!TimesOut, AllGood
<1>2. CASE client.st = "hear" /\ client' = [client EXCEPT !.st = "failed"] /\ UNCHANGED server
  BY <1>1, <1>2, ClientFails
<1>3. CASE server.st \in {"guess", "read"} /\ server' = [server EXCEPT !.st = "closed"] /\ UNCHANGED client
  <2>1. server.st # "closed" /\ server'.st = "closed"
    BY <1>3 DEF HsInv, HsShape
  <2> QED BY <1>1, <1>3, <2>1, ServerCloses
<1> QED BY <1>2, <1>3 DEF H!TimesOut

(* A client waits for so many fields.                                      *)
LEMMA HearsAre ==
  ASSUME NEW h, HopFine(h), NEW r
  PROVE  Len(Hears(h, r)) \in Nat
<1> DEFINE m == IF h.auth = H!None THEN 0 ELSE 2
<1>1. Len(<<>>) = 0 /\ Len(<<5, m>>) = 2 /\ Len(<<1, 0>>) = 2 /\ Len(<<H!UntilBlank>>) = 1 /\ Len(<<101, H!UntilBlank>>) = 2
      /\ Len(<<5, 0, 0, H!Address>>) = 4 /\ Len(<<0, 90, H!Byte, H!Byte>>) = 4
  BY TuplesAre
<1>2. CASE h.proto = "socks5"
  <2>1. Hears(h, r) = H!Socks5Connect(h, r).hears
    BY <1>2 DEF Hears, H!Connect
  <2>2. CASE r = "methods"
    <3>1. Hears(h, r) = <<5, m>>
      BY <2>1, <2>2 DEF H!Socks5Connect, H!Exchange
    <3> QED BY <1>1, <3>1
  <2>3. CASE r # "methods"
    <3>1. Hears(h, r) \in {<<1, 0>>, <<5, 0, 0, H!Address>>}
      BY <2>1, <2>3 DEF H!Socks5Connect, H!Exchange
    <3> QED BY <1>1, <3>1
  <2> QED BY <2>2, <2>3
<1>3. CASE h.proto # "socks5"
  <2>1. h.proto \in H!Protocol \ {"socks5"}
    BY <1>3 DEF HopFine
  <2>2. Hears(h, r) \in {<<>>, <<H!UntilBlank>>, <<101, H!UntilBlank>>, <<0, 90, H!Byte, H!Byte>>}
    BY <2>1 DEF Hears, H!Protocol, H!Connect, H!Socks4Connect, H!HttpConnect, H!H2Connect, H!WsConnect, H!CfpConnect,
                H!TrojanConnect, H!SsConnect, H!SsrConnect, H!TunnelConnect, H!Exchange
  <2> QED BY <1>1, <2>2
<1> QED BY <1>2, <1>3

(* What the client makes of what its own server answers.                   *)
LEMMA HearsAnswer ==
  ASSUME Fine(hops), PeerInv, client.st = "hear", NEW e \in Nat, Answering(e)
  PROVE  Heard(Mine, client.round, hsbuf.down)
<1>1. PeerShape /\ Aligned
  BY DEF PeerInv
<1>2. client.hop \in 1..Len(hops) /\ HopFine(Mine) /\ client.round \in 1..Turns(Mine) /\ Listened(Mine, client.round)
  BY <1>1, MineIs
<1>3. client.round > 1 => Matching(Mine)
  BY <1>1, <1>2 DEF Aligned, Mine
<1>4. Agrees(hsbuf.down, Reply(Mine), Answer(Mine, client.round))
  <2> DEFINE f == HeardDown
             k == Answer(Mine, client.round)
             i == client.hop
  <2>1. f = DownTo(hops)[i - 1] + k
    BY DEF HeardDown
  <2>2. k \in Nat
    BY <1>2 DEF Listened
  <2>3. i \in 1..Len(hops)
    BY <1>2
  <2>4. Stream(hsbuf.down, wire.down, Down(hops), f, e)
    BY DEF Answering
  <2> HIDE DEF f, k, i
  <2>5. Agrees(hsbuf.down, Reply(hops[i]), k)
    BY <2>1, <2>2, <2>3, <2>4, DownAgrees
  <2> QED BY <2>5 DEF i, k, Mine
<1> QED BY <1>2, <1>3, <1>4, ClientHears

(* The client goes on: another round, another hop, or the relay.           *)
Onward ==
  client' = IF client.round < Turns(Mine) THEN [client EXCEPT !.round = @ + 1, !.st = "say"]
            ELSE IF client.hop < Len(hops) THEN [hop |-> client.hop + 1, round |-> 1, st |-> "say"]
            ELSE [client EXCEPT !.st = "connected"]
Moved ==
  /\ client' = [hop |-> client'.hop, round |-> client'.round, st |-> client'.st]
  /\ client'.hop \in 1..Len(hops) /\ client'.round \in 1..Turns(Mine') /\ client'.st \in {"say", "connected"}
  /\ client'.st = "connected" => client'.hop = Len(hops)
  /\ HeardDown' = HeardDown + (Answer(Mine, client.round + 1) - Answer(Mine, client.round))
  /\ client'.st # "connected" => SentUp' = SentUp
  /\ client'.st = "connected" => SentUp = UpTo(hops)[Len(hops)] /\ SentUp' = Len(Up(hops))
  /\ \A i \in 1..Len(hops) : PassedBy(i)' => PassedBy(i) \/ (i = client.hop /\ HeardDown' = DownTo(hops)[i])
  /\ \A i \in 1..Len(hops) : client'.hop = i /\ client'.round > 1 => i = client.hop

(* A client that has its answer is at the next round, at the next hop or   *)
(* connected.                                                              *)
LEMMA ClientMoves ==
  ASSUME Fine(hops), PeerInv, hops' = hops, client.st = "hear", Onward
  PROVE  Moved
<1>1. PeerShape
  BY DEF PeerInv
<1>2. /\ client.hop \in 1..Len(hops) /\ HopFine(Mine) /\ client.round \in 1..Turns(Mine) /\ Turns(Mine) \in 1..3 /\ HopAt(hops, client.hop)
      /\ Spoken(Mine, client.round) /\ Listened(Mine, client.round)
  BY <1>1, MineIs
<1>3. client = [hop |-> client.hop, round |-> client.round, st |-> "hear"] /\ Len(hops) \in Nat /\ client.hop \in Nat
  BY <1>1, <1>2 DEF PeerShape, HopAt
<1> DEFINE x == Answer(Mine, client.round)
           y == Answer(Mine, client.round + 1)
           z == DownTo(hops)[client.hop - 1]
           u == UpTo(hops)[client.hop - 1]
<1>4. HeardDown = z + x /\ SentUp = u + Asking(Mine, client.round + 1)
  BY DEF HeardDown, SentUp
<1>5. x \in Nat /\ y \in Nat /\ z \in Nat /\ u \in Nat
  BY <1>2 DEF Listened, HopAt
<1>6. \A i \in 1..Len(hops) : PassedBy(i) <=> client.hop > i
  BY DEF PassedBy
<1>7. CASE client.round < Turns(Mine)
  <2>1. client' = [hop |-> client.hop, round |-> client.round + 1, st |-> "say"]
    BY <1>3, <1>7 DEF Onward
  <2>2. client'.hop = client.hop /\ client'.round = client.round + 1 /\ client'.st = "say" /\ client' = [hop |-> client'.hop, round |-> client'.round, st |-> client'.st]
    BY <2>1
  <2>3. Mine' = Mine
    BY <2>2 DEF Mine
  <2>4. HeardDown' = z + y
    BY <2>2, <2>3 DEF HeardDown
  <2>5. SentUp' = SentUp
    BY <1>4, <2>2, <2>3 DEF SentUp
  <2>6. client'.round \in 1..Turns(Mine')
    BY <1>2, <1>7, <2>2, <2>3
  <2>7. HeardDown' = HeardDown + (y - x)
    BY <1>4, <1>5, <2>4
  <2>8. \A i \in 1..Len(hops) : PassedBy(i)' <=> client.hop > i
    BY <2>2 DEF PassedBy
  <2> QED BY <1>2, <1>6, <2>2, <2>5, <2>6, <2>7, <2>8 DEF Moved
<1>8. CASE ~(client.round < Turns(Mine))
  <2>1. client.round = Turns(Mine)
    BY <1>2, <1>8
  <2>2. y = Len(Reply(Mine)) /\ Asking(Mine, client.round + 1) = Len(Text(Mine))
    <3>1. client.round + 1 # 1 /\ client.round + 1 > Turns(Mine)
      BY <1>2, <2>1
    <3> QED BY <3>1 DEF Answer, Asking
  <2>3. /\ DownTo(hops)[client.hop] = z + y /\ DownTo(hops)[client.hop] = HeardDown + (y - x)
        /\ SentUp = UpTo(hops)[client.hop]
    <3>1. DownTo(hops)[client.hop] = z + y
      BY <1>2, <2>2 DEF HopAt, Mine
    <3>2. SentUp = UpTo(hops)[client.hop]
      BY <1>2, <1>4, <2>2 DEF HopAt, Mine
    <3>3. z + y = z + x + (y - x)
      BY <1>5
    <3> QED BY <1>4, <3>1, <3>2, <3>3
  <2> HIDE DEF x, y, z, u
  <2>4. CASE client.hop < Len(hops)
    <3> DEFINE q == client.hop + 1
    <3>1. client' = [hop |-> q, round |-> 1, st |-> "say"]
      BY <1>8, <2>4 DEF Onward
    <3>2. q \in 1..Len(hops) /\ q - 1 = client.hop /\ q > client.hop
      BY <1>3, <2>4
    <3> HIDE DEF q
    <3>3. client'.hop = q /\ client'.round = 1 /\ client'.st = "say" /\ client' = [hop |-> client'.hop, round |-> client'.round, st |-> client'.st]
      BY <3>1
    <3>4. Asking(Mine', 1) = 0 /\ Answer(Mine', 1) = 0
      BY DEF Asking, Answer
    <3>5. HeardDown' = DownTo(hops)[client.hop] + 0 /\ SentUp' = UpTo(hops)[client.hop] + 0
      BY <3>2, <3>3, <3>4 DEF HeardDown, SentUp
    <3>6. HeardDown' = DownTo(hops)[client.hop] /\ SentUp' = SentUp
      BY <1>2, <2>3, <3>5 DEF HopAt
    <3>7. 1 \in 1..Turns(Mine')
      BY TurnsAre
    <3>8. \A i \in 1..Len(hops) : PassedBy(i)' <=> q > i
      BY <3>3 DEF PassedBy
    <3>9. \A i \in 1..Len(hops) : q > i => client.hop > i \/ i = client.hop
      BY <1>3, <3>2
    <3>10. \A i \in 1..Len(hops) : PassedBy(i)' => PassedBy(i) \/ (i = client.hop /\ HeardDown' = DownTo(hops)[i])
      BY <1>6, <3>6, <3>8, <3>9
    <3>11. HeardDown' = HeardDown + (y - x)
      BY <2>3, <3>6
    <3> QED BY <3>2, <3>3, <3>6, <3>7, <3>10, <3>11 DEF Moved, x, y
  <2>5. CASE ~(client.hop < Len(hops))
    <3>1. client.hop = Len(hops)
      BY <1>2, <1>3, <2>5
    <3>2. client' = [hop |-> client.hop, round |-> client.round, st |-> "connected"]
      BY <1>3, <1>8, <2>5 DEF Onward
    <3>3. client'.hop = client.hop /\ client'.round = client.round /\ client'.st = "connected" /\ client' = [hop |-> client'.hop, round |-> client'.round, st |-> client'.st]
      BY <3>2
    <3>4. Mine' = Mine
      BY <3>3 DEF Mine
    <3>5. HeardDown' = DownTo(hops)[Len(hops)] /\ SentUp' = Len(Up(hops))
      BY <3>3 DEF HeardDown, SentUp
    <3>6. \A i \in 1..Len(hops) : client.hop > i \/ i = client.hop
      BY <1>3, <3>1
    <3>7. HeardDown' = HeardDown + (y - x)
      BY <2>3, <3>1, <3>5
    <3>8. \A i \in 1..Len(hops) : PassedBy(i) \/ (i = client.hop /\ HeardDown' = DownTo(hops)[i])
      BY <1>6, <3>1, <3>5, <3>6
    <3> QED BY <1>2, <2>3, <3>1, <3>3, <3>4, <3>5, <3>7, <3>8 DEF Moved, x, y
  <2> QED BY <2>4, <2>5
<1> QED BY <1>7, <1>8

(* connect() has an answer that it takes.                                  *)
LEMMA HearGoesOn ==
  ASSUME Fine(hops), HsInv, PeerInv, client.st = "hear", UNCHANGED <<hops, server, admitted, why>>, Onward,
         NEW a, a = H!Scan(Hears(Mine, Round(Mine, client.round)), hsbuf.down), a.st = "ok",
         hsbuf' = [up |-> hsbuf.up, down |-> H!After(hsbuf.down, a.at)],
         wire' = [up |-> IF client'.st = "connected" THEN wire.up \o Payload ELSE wire.up, down |-> wire.down]
  PROVE  PeerInv'
<1>1. Moved
  BY ClientMoves
<1>2. PeerShape /\ UpFlow /\ DownFlow /\ Learned /\ Admitted /\ Aligned /\ AllAsAsked /\ Going
  BY DEF PeerInv
<1>3. /\ client.hop \in 1..Len(hops) /\ HopFine(Mine) /\ client.round \in 1..Turns(Mine) /\ Listened(Mine, client.round)
      /\ HopAt(hops, client.hop)
  BY <1>2, MineIs
<1>4. hops' = hops /\ server' = server /\ admitted' = admitted /\ why' = why
  OBVIOUS
<1>5. /\ hsbuf'.up = hsbuf.up /\ hsbuf'.down = H!After(hsbuf.down, a.at) /\ wire'.down = wire.down
      /\ wire'.up = (IF client'.st = "connected" THEN wire.up \o Payload ELSE wire.up)
      /\ hsbuf' = [up |-> hsbuf'.up, down |-> hsbuf'.down] /\ wire' = [up |-> wire'.up, down |-> wire'.down]
  OBVIOUS
<1>6. ReadUp' = ReadUp /\ SentDown' = SentDown
  BY <1>4 DEF ReadUp, SentDown, Here, Asked
<1>7. PeerShape'
  BY <1>1, <1>4, <1>5 DEF PeerShape, Moved
<1>8. Learned' /\ AllAsAsked'
  BY <1>2, <1>4, LearnedKept DEF AllAsAsked, AsAsked
<1>9. Going'
  BY <1>1, <1>2, <1>4 DEF Going, AllGood, Here, Moved
<1>10. UpFlow'
  <2>1. SUFFICES ASSUME server.st # "closed" PROVE Stream(hsbuf'.up, wire'.up, Up(hops), ReadUp, SentUp')
    BY <1>4, <1>6 DEF UpFlow
  <2>2. Stream(hsbuf.up, wire.up, Up(hops), ReadUp, SentUp)
    BY <1>2, <2>1 DEF UpFlow
  <2>3. CASE client'.st = "connected"
    <3> DEFINE e == Len(Up(hops))
               f == UpTo(hops)[Len(hops)]
    <3>1. SentUp = f /\ SentUp' = e
      BY <1>1, <2>3 DEF Moved
    <3>2. e \in Nat /\ IsPart(Payload, Up(hops), f, e)
      BY Ends
    <3> HIDE DEF e, f
    <3>3. Stream(hsbuf.up, wire.up \o Payload, Up(hops), ReadUp, e)
      <4>1. Stream(hsbuf.up, wire.up, Up(hops), ReadUp, f)
        BY <2>2, <3>1
      <4> QED BY <4>1, <3>2, StreamSends
    <3> QED BY <1>5, <2>3, <3>1, <3>3
  <2>4. CASE client'.st # "connected"
    BY <1>1, <1>5, <2>2, <2>4 DEF Moved
  <2> QED BY <2>3, <2>4
<1>11. Admitted' /\ Aligned' /\ DownFlow'
  <2>1. ASSUME Matching(Mine) PROVE Aligned'
    BY <1>1, <1>2, <1>4, <2>1 DEF Aligned, Moved, Mine
  <2>2. ASSUME Mine.proto \notin H!Answered PROVE Admitted'
    BY <1>1, <1>2, <1>4, <2>2 DEF Admitted, Moved, Mine
  <2>3. ASSUME NEW e \in Nat, Answering(e) PROVE Admitted' /\ Aligned' /\ DownFlow'
    <3> DEFINE n == Answer(Mine, client.round + 1) - Answer(Mine, client.round)
    <3>1. Heard(Mine, client.round, hsbuf.down)
      BY <2>3, HearsAnswer
    <3>2. Matching(Mine) /\ n <= Len(hsbuf.down) /\ a.at = n
      BY <3>1 DEF Heard
    <3>3. n \in Nat
      BY <1>3 DEF Listened
    <3>4. HeardDown' = HeardDown + n
      BY <1>1 DEF Moved
    <3> HIDE DEF n
    <3>5. Stream(hsbuf.down, wire.down, Down(hops), HeardDown, e)
      BY <2>3 DEF Answering
    <3>6. Stream(H!After(hsbuf.down, n), wire.down, Down(hops), HeardDown', e)
      BY <3>2, <3>3, <3>4, <3>5, StreamTakes
    <3>7. Answering(e)'
      BY <1>4, <1>5, <1>6, <2>3, <3>2, <3>6 DEF Answering
    <3>8. HeardDown' <= e
      BY <3>6 DEF Stream
    <3>9. ASSUME NEW i \in 1..Len(hops), PassedBy(i)', hops[i].proto \in H!Answered PROVE Len(admitted) >= i
      <4>1. CASE PassedBy(i)
        BY <1>2, <3>9, <4>1 DEF Admitted
      <4>2. CASE HeardDown' = DownTo(hops)[i]
        <5>1. e >= DownTo(hops)[i]
          BY <2>3, <3>6, <3>8, <4>2 DEF Stream
        <5>2. Vouched(hops, admitted, e)
          BY <2>3 DEF Answering
        <5> QED BY <3>9, <5>1, <5>2 DEF Vouched
      <4> QED BY <1>1, <3>9, <4>1, <4>2 DEF Moved
    <3>10. Admitted'
      BY <1>4, <3>9 DEF Admitted
    <3>11. DownFlow'
      BY <3>7 DEF DownFlow
    <3> QED BY <2>1, <3>2, <3>10, <3>11
  <2>4. ASSUME Unauthorizing PROVE Admitted' /\ Aligned' /\ DownFlow'
    <3>1. Mine.proto \in {"http", "ws", "cfp"} /\ server.st = "closed" /\ Stream(hsbuf.down, wire.down, H!Unauthorized, 0, 2)
      BY <2>4 DEF Unauthorizing
    <3>2. Round(Mine, client.round) = "request"
      <4>1. Turns(Mine) = 1
        BY <3>1 DEF Turns
      <4>2. client.round = 1 /\ Mine.proto # "socks5"
        BY <1>3, <3>1, <4>1
      <4>3. Round(Mine, 1) = "request"
        BY <4>2, TurnsAre
      <4> QED BY <4>2, <4>3
    <3>3. Agrees(hsbuf.down, H!Unauthorized, 0)
      <4>1. IsList(hsbuf.down) /\ \A j \in 1..Len(hsbuf.down) : 0 + j = j /\ hsbuf.down[j] = H!Unauthorized[0 + j]
        BY <3>1 DEF Stream
      <4> QED BY <4>1 DEF Agrees
    <3>4. a.at = 2 /\ Len(hsbuf.down) >= 2 /\ Mine.proto # "cfp"
      <4>1. a = H!Scan(Hears(Mine, "request"), hsbuf.down)
        BY <3>2
      <4>2. LET x == H!Scan(Hears(Mine, "request"), hsbuf.down)
            IN x.st = "ok" => x.at = 2 /\ Len(hsbuf.down) >= 2 /\ Mine.proto # "cfp"
        BY <1>3, <3>1, <3>3, UnauthorizedHeard
      <4> QED BY <4>1, <4>2
    <3>5. Mine.proto \notin H!Answered /\ Matching(Mine)
      BY <3>1, <3>4 DEF H!Answered, Matching
    <3>6. Silent'
      <4>1. Len(hsbuf.down) = 2 /\ Len(wire.down) = 0 /\ IsList(hsbuf.down) /\ IsList(wire.down) /\ 2 \in Nat
        <5>1. \A x, y \in Nat : 0 + x + y = 2 /\ x >= 2 => x = 2 /\ y = 0
          OBVIOUS
        <5>2. /\ Len(hsbuf.down) \in Nat /\ Len(wire.down) \in Nat /\ 0 + Len(hsbuf.down) + Len(wire.down) = 2
              /\ IsList(hsbuf.down) /\ IsList(wire.down)
          BY <3>1 DEF Stream
        <5> QED BY <3>4, <5>1, <5>2
      <4>2. wire.down = <<>>
        BY <4>1, EmptyIs
      <4>3. H!After(hsbuf.down, 2) = <<>>
        <5>1. IsList(H!After(hsbuf.down, 2)) /\ Len(H!After(hsbuf.down, 2)) = Len(hsbuf.down) - 2
          <6> DEFINE n == 2
          <6>1. n \in Nat /\ n <= Len(hsbuf.down) /\ IsList(hsbuf.down)
            BY <4>1
          <6> HIDE DEF n
          <6>2. IsList(H!After(hsbuf.down, n)) /\ Len(H!After(hsbuf.down, n)) = Len(hsbuf.down) - n
            BY <6>1, AfterIs
          <6> QED BY <6>2 DEF n
        <5>2. Len(H!After(hsbuf.down, 2)) = 0
          BY <4>1, <5>1
        <5> QED BY <5>1, <5>2, EmptyIs
      <4> QED BY <1>4, <1>5, <3>1, <3>4, <4>2, <4>3 DEF Silent
    <3> QED BY <2>1, <2>2, <3>5, <3>6 DEF DownFlow
  <2>5. ASSUME Silent PROVE Admitted' /\ Aligned' /\ DownFlow'
    <3>1. hsbuf.down = <<>> /\ wire.down = <<>> /\ server.st = "closed"
      BY <2>5 DEF Silent
    <3>2. IsList(hsbuf.down) /\ Len(hsbuf.down) = 0
      BY <3>1, NothingIs
    <3>3. a.at = 0 /\ Mine.proto \notin {"http", "ws", "cfp", "socks4", "socks5"}
      BY <1>3, <3>2, SilenceHeard
    <3>4. Mine.proto \notin H!Answered /\ Matching(Mine)
      BY <3>3 DEF H!Answered, Matching
    <3>5. H!After(hsbuf.down, 0) = <<>>
      <4>1. IsList(H!After(hsbuf.down, 0)) /\ Len(H!After(hsbuf.down, 0)) = Len(hsbuf.down) - 0
        BY <3>2, AfterIs
      <4> QED BY <3>2, <4>1, EmptyIs
    <3>6. Silent'
      BY <1>4, <1>5, <3>1, <3>3, <3>5 DEF Silent
    <3> QED BY <2>1, <2>2, <3>4, <3>6 DEF DownFlow
  <2>6. (\E e \in Nat : Answering(e)) \/ Unauthorizing \/ Silent
    BY <1>2 DEF DownFlow
  <2> QED BY <2>3, <2>4, <2>5, <2>6
<1> QED BY <1>7, <1>8, <1>9, <1>10, <1>11 DEF PeerInv

(* connect() has an answer that it does not take.                          *)
LEMMA HearFails ==
  ASSUME Fine(hops), HsInv, PeerInv, client.st = "hear", UNCHANGED <<hops, wire, server, admitted, why>>,
         client' = [client EXCEPT !.st = "failed"],
         NEW a, a = H!Scan(Hears(Mine, Round(Mine, client.round)), hsbuf.down), a.st = "bad",
         hsbuf' = [up |-> hsbuf.up, down |-> H!After(hsbuf.down, a.at)]
  PROVE  PeerInv'
<1>1. client = [hop |-> client.hop, round |-> client.round, st |-> client.st] /\ PeerShape
  BY DEF PeerInv, PeerShape
<1>2. /\ client'.hop = client.hop /\ client'.round = client.round /\ client'.st = "failed"
      /\ client' = [hop |-> client'.hop, round |-> client'.round, st |-> client'.st]
  BY <1>1
<1>3. hsbuf'.up = hsbuf.up /\ hsbuf' = [up |-> hsbuf'.up, down |-> hsbuf'.down]
  OBVIOUS
<1>4. SentUp' = SentUp /\ ReadUp' = ReadUp
  BY <1>2 DEF SentUp, ReadUp, Mine, Here, Asked
<1>5. UpFlow' /\ Learned' /\ Admitted' /\ Aligned' /\ AllAsAsked'
  BY <1>2, <1>3, <1>4, UpKept, LearnedKept, GatesKept DEF PeerInv
<1>6. DownFlow'
  BY <1>2 DEF DownFlow
<1>7. PeerShape'
  BY <1>1, <1>2, <1>3 DEF PeerShape, Mine
<1>8. ~AllGood
  <2> SUFFICES ASSUME AllGood PROVE FALSE
    OBVIOUS
  <2>1. server.st # "closed" /\ Going /\ DownFlow
    BY DEF PeerInv, Going
  <2>2. PICK e \in Nat : Answering(e)
    BY <2>1 DEF DownFlow, Unauthorizing, Silent
  <2>3. Heard(Mine, client.round, hsbuf.down)
    BY <2>2, HearsAnswer
  <2>4. client.hop \in 1..Len(hops) /\ HopFine(Mine)
    BY <1>1, MineIs
  <2>5. Matching(Mine)
    <3>1. H!Compatible(Mine)
      BY <2>4 DEF AllGood, Mine
    <3> QED BY <2>4, <3>1, CompatibleMatches
  <2> QED BY <2>3, <2>5 DEF Heard
<1>9. Going'
  BY <1>8 DEF Going, AllGood
<1> QED BY <1>5, <1>6, <1>7, <1>9 DEF PeerInv

(* connect() hears an answer, or something else.                           *)
LEMMA HearKeeps ==
  ASSUME Fine(hops), HsInv, PeerInv, H!Hear
  PROVE  PeerInv'
<1> DEFINE a == H!Scan(Hears(Mine, Round(Mine, client.round)), hsbuf.down)
<1>1. PeerShape
  BY DEF PeerInv
<1>2. /\ client.st = "hear" /\ a.st # "more" /\ hsbuf' = [hsbuf EXCEPT !["down"] = H!After(@, a.at)]
      /\ client' = IF a.st = "bad" THEN [client EXCEPT !.st = "failed"]
                   ELSE IF client.round < Len(H!Rounds(Mine)) THEN [client EXCEPT !.round = @ + 1, !.st = "say"]
                   ELSE IF client.hop < Len(hops) THEN [hop |-> client.hop + 1, round |-> 1, st |-> "say"]
                   ELSE [client EXCEPT !.st = "connected"]
      /\ IF client'.st = "connected" THEN wire' = [wire EXCEPT !["up"] = @ \o Payload] ELSE UNCHANGED wire
      /\ UNCHANGED <<hops, server, admitted, why>>
  BY DEF H!Hear, H!Sends, Mine, Hears, Round
<1>3. a.st \in {"ok", "more", "bad"}
  <2>1. HopFine(Mine)
    BY <1>1, MineIs
  <2>2. Len(Hears(Mine, Round(Mine, client.round))) \in Nat
    BY <2>1, HearsAre
  <2> QED BY <2>2, ScanStates
<1> HIDE DEF a
<1>4. hsbuf' = [up |-> hsbuf.up, down |-> H!After(hsbuf.down, a.at)]
  <2>1. hsbuf = [up |-> hsbuf.up, down |-> hsbuf.down]
    BY <1>1 DEF PeerShape
  <2> QED BY <1>2, <2>1
<1>5. CASE a.st = "bad"
  <2>1. client' = [client EXCEPT !.st = "failed"]
    BY <1>2, <1>5
  <2>2. client'.st = "failed"
    BY <1>1, <2>1 DEF PeerShape
  <2>3. UNCHANGED <<hops, wire, server, admitted, why>>
    BY <1>2, <2>2
  <2> QED BY <1>2, <1>4, <1>5, <2>1, <2>3, HearFails DEF a
<1>6. CASE a.st = "ok"
  <2>1. Onward
    <3>1. Len(H!Rounds(Mine)) = Turns(Mine)
      BY TurnsAre
    <3> QED BY <1>2, <1>6, <3>1 DEF Onward
  <2>2. wire' = [up |-> IF client'.st = "connected" THEN wire.up \o Payload ELSE wire.up, down |-> wire.down]
    <3>1. wire = [up |-> wire.up, down |-> wire.down]
      BY <1>1 DEF PeerShape
    <3> QED BY <1>2, <3>1
  <2>3. UNCHANGED <<hops, server, admitted, why>>
    BY <1>2
  <2> QED BY <1>2, <1>4, <1>6, <2>1, <2>2, <2>3, HearGoesOn DEF a
<1> QED BY <1>2, <1>3, <1>5, <1>6

(* accept() asks a protocol, which takes the connection.                   *)
LEMMA GuessTakes ==
  ASSUME Fine(hops), HsInv, PeerInv, server.st = "guess", UNCHANGED <<hops, wire, client, admitted>>,
         H!MarkSize(Asked, Here) > 0 => Len(hsbuf.up) > 0, H!Matches(Asked, Here, Seen(Asked, Here, hsbuf.up)),
         hsbuf' = [up |-> H!After(hsbuf.up, H!Taken(Asked, Here)), down |-> hsbuf.down],
         server'.hop = server.hop, server'.try = server.try, server'.st = "read", server'.phase = Opening(Asked),
         server'.user = Guessed(Asked, Here, Seen(Asked, Here, hsbuf.up)), why \subseteq why'
  PROVE  PeerInv'
<1>1. PeerShape /\ Learned /\ UpFlow /\ DownFlow /\ Admitted /\ Aligned /\ AllAsAsked /\ Going
  BY DEF PeerInv
<1>2. /\ server.hop \in 1..Len(hops) /\ HopAt(hops, server.hop) /\ HopFine(Here)
      /\ server.try \in 1..Len(Here.tries) /\ TriesFine(Here) /\ Asked \in H!Protocol
  BY HereIs
<1>3. hops' = hops /\ wire' = wire /\ client' = client /\ admitted' = admitted
  OBVIOUS
<1>4. Here' = Here /\ Asked' = Asked
  BY DEF Here, Asked
<1>5. hsbuf'.up = H!After(hsbuf.up, H!Taken(Asked, Here)) /\ hsbuf'.down = hsbuf.down /\ hsbuf' = [up |-> hsbuf'.up, down |-> hsbuf'.down]
  OBVIOUS
<1>6. SentUp' = SentUp /\ HeardDown' = HeardDown
  BY <1>3 DEF SentUp, HeardDown, Mine
<1> DEFINE f == UpTo(hops)[server.hop - 1]
           k == H!Taken(Asked, Here)
           g == f + k
<1>7. f \in Nat /\ DownTo(hops)[server.hop - 1] \in Nat
  BY <1>2 DEF HopAt
<1>8. ReadUp = f /\ ReadUp' = g /\ SentDown' = SentDown
  <2>1. Eaten(Here, Asked, Opening(Asked)) = k /\ Told(Here, Asked, Opening(Asked)) = 0
    BY OpeningIs
  <2>2. ReadUp = f /\ SentDown = DownTo(hops)[server.hop - 1]
    BY DEF ReadUp, SentDown
  <2>3. ReadUp' = g
    BY <1>4, <2>1 DEF ReadUp
  <2>4. SentDown' = DownTo(hops)[server.hop - 1] + 0
    BY <1>4, <2>1 DEF SentDown
  <2> QED BY <1>7, <2>2, <2>3, <2>4
<1>9. Stream(hsbuf.up, wire.up, Up(hops), f, SentUp)
  BY <1>1, <1>8 DEF UpFlow
<1>10. Agrees(hsbuf.up, Text(Here), 0)
  <2>1. f = UpTo(hops)[server.hop - 1] + 0
    BY <1>7
  <2> HIDE DEF f
  <2>2. Agrees(hsbuf.up, Text(hops[server.hop]), 0)
    BY <1>2, <1>9, <2>1, UpAgrees
  <2> QED BY <2>2 DEF Here
<1>11. IsList(hsbuf.up)
  BY <1>9 DEF Stream
<1>12. UpFlow'
  <2>1. k <= Len(hsbuf.up) /\ k \in Nat
    BY <1>2, <1>11, TakenIsThere, MarkIs
  <2> HIDE DEF f, k
  <2>2. Stream(H!After(hsbuf.up, k), wire.up, Up(hops), g, SentUp)
    BY <1>9, <2>1, StreamTakes
  <2> HIDE DEF g
  <2> QED BY <1>3, <1>5, <1>6, <1>8, <2>2 DEF UpFlow, k
<1>13. DownFlow'
  BY <1>1, <1>3, <1>5, <1>6, <1>8, DownKept
<1>14. Admitted' /\ Aligned' /\ AllAsAsked'
  BY <1>1, <1>3, GatesKept
<1>15. Alone(Here, server.try)
  BY <1>1 DEF Learned
<1>16. CASE Asked = Here.proto
  <2>1. Ready(Here, Opening(Here.proto), Guessed(Here.proto, Here, Seen(Here.proto, Here, hsbuf.up)))
    BY <1>2, <1>10, <1>16, GuessOwn
  <2>2. Learned'
    BY <1>4, <1>15, <1>16, <2>1 DEF Learned
  <2>3. Going'
    BY <1>1, <1>3, <1>4 DEF Going, AllGood
  <2>4. PeerShape'
    BY <1>1, <1>3, <1>5 DEF PeerShape, Mine
  <2> QED BY <1>12, <1>13, <1>14, <2>2, <2>3, <2>4 DEF PeerInv
<1>17. CASE Asked # Here.proto
  <2>1. H!Mistakes(Asked, Here) /\ Behind(Here, server.try)
    <3>1. H!ToldApart(Here) /\ server.try \in DOMAIN Here.tries /\ server.try \in Nat \ {0} /\ Asked = Here.tries[server.try]
      BY <1>2 DEF HopAt, Here, Asked, TriesFine
    <3> QED BY <1>2, <1>10, <1>15, <1>17, <3>1, GuessOther
  <2>2. Opening(Asked) = "request"
    BY <2>1 DEF H!Mistakes, Opening
  <2>3. Learned'
    BY <1>4, <1>15, <1>17, <2>1, <2>2 DEF Learned
  <2>4. Going'
    BY <1>1, <1>3, <1>4 DEF Going, AllGood
  <2>5. PeerShape'
    BY <1>1, <1>3, <1>5 DEF PeerShape, Mine
  <2> QED BY <1>12, <1>13, <1>14, <2>3, <2>4, <2>5 DEF PeerInv
<1> QED BY <1>16, <1>17

(* It does not, and the next one is asked, or nobody.                      *)
LEMMA GuessPasses ==
  ASSUME Fine(hops), HsInv, PeerInv, server.st = "guess", UNCHANGED <<hops, wire, hsbuf, client, admitted>>,
         ~H!Matches(Asked, Here, Seen(Asked, Here, hsbuf.up)),
         server' = IF server.try < Len(Here.tries) THEN [server EXCEPT !.try = @ + 1] ELSE [server EXCEPT !.st = "closed"],
         Len(Seen(Asked, Here, hsbuf.up)) < H!MarkSize(Asked, Here) /\ Asked = Here.proto => why' # {}, why \subseteq why'
  PROVE  PeerInv'
<1>1. PeerShape /\ Learned /\ UpFlow /\ DownFlow /\ Admitted /\ Aligned /\ AllAsAsked /\ Going
  BY DEF PeerInv
<1>2. /\ server.hop \in 1..Len(hops) /\ HopAt(hops, server.hop) /\ HopFine(Here)
      /\ server.try \in 1..Len(Here.tries) /\ TriesFine(Here) /\ Asked \in H!Protocol
  BY HereIs
<1>3. hops' = hops /\ wire' = wire /\ client' = client /\ admitted' = admitted /\ hsbuf' = hsbuf
  OBVIOUS
<1>4. SentUp' = SentUp /\ HeardDown' = HeardDown
  BY <1>3 DEF SentUp, HeardDown, Mine
<1>5. PeerShape' /\ Admitted' /\ Aligned' /\ AllAsAsked'
  BY <1>1, <1>3, GatesKept DEF PeerShape, Mine
<1>6. AllGood' => AllGood /\ ~(Asked = Here.proto)
  <2>1. ASSUME AllGood' PROVE AllGood
    BY <1>3, <2>1 DEF AllGood
  <2>2. ASSUME AllGood', Asked = Here.proto PROVE FALSE
    <3>1. H!Compatible(Here)
      BY <1>2, <1>3, <2>2 DEF AllGood, Here
    <3>2. ~(Len(Seen(Here.proto, Here, hsbuf.up)) < H!MarkSize(Here.proto, Here))
      BY <2>2 DEF AllGood
    <3>3. Agrees(hsbuf.up, Text(Here), 0)
      <4> DEFINE f == UpTo(hops)[server.hop - 1]
      <4>1. f \in Nat /\ f = UpTo(hops)[server.hop - 1] + 0
        BY <1>2 DEF HopAt
      <4>2. Stream(hsbuf.up, wire.up, Up(hops), f, SentUp)
        BY <1>1 DEF UpFlow, ReadUp
      <4> HIDE DEF f
      <4>3. Agrees(hsbuf.up, Text(hops[server.hop]), 0)
        BY <1>2, <4>1, <4>2, UpAgrees
      <4> QED BY <4>3 DEF Here
    <3> QED BY <1>2, <2>2, <3>1, <3>2, <3>3, GuessRefused
  <2> QED BY <2>1, <2>2
<1>7. H!MarkSize(Asked, Here) > 0
  BY <1>2, MarkIs
<1>8. server = [hop |-> server.hop, try |-> server.try, phase |-> server.phase, user |-> server.user, st |-> server.st]
  BY DEF HsInv, HsShape
<1>9. CASE server.try < Len(Here.tries)
  <2>1. server'.hop = server.hop /\ server'.try = server.try + 1 /\ server'.st = "guess"
    BY <1>8, <1>9
  <2>2. Here' = Here
    BY <1>3, <2>1 DEF Here
  <2>3. ReadUp' = ReadUp /\ SentDown' = SentDown
    BY <1>3, <2>1 DEF ReadUp, SentDown
  <2>4. UpFlow' /\ DownFlow'
    BY <1>1, <1>3, <1>4, <2>1, <2>3, UpKept, DownKept
  <2>5. server.try \in Nat /\ \A j \in 1..(server.try + 1 - 1) : j \in 1..(server.try - 1) \/ j = server.try
    BY <1>2
  <2>6. Alone(Here, server.try + 1)
    <3>1. Alone(Here, server.try)
      BY <1>1 DEF Learned
    <3> QED BY <1>7, <2>5, <3>1 DEF Alone, Asked
  <2>7. Learned'
    BY <2>1, <2>2, <2>6 DEF Learned
  <2>8. Going'
    <3> SUFFICES ASSUME AllGood' PROVE (client.st # "failed" /\ server.st # "closed" /\ \A j \in 1..(server.try - 1) : Here.tries[j] # Here.proto)'
      BY DEF Going
    <3>1. client.st # "failed" /\ \A i \in 1..(server.try - 1) : Here.tries[i] # Here.proto
      BY <1>1, <1>6 DEF Going
    <3>2. Here.tries[server.try] # Here.proto
      BY <1>6 DEF Asked
    <3>3. \A j \in 1..(server.try + 1 - 1) : Here.tries[j] # Here.proto
      BY <2>5, <3>1, <3>2
    <3>4. server'.try - 1 = server.try + 1 - 1
      <4> DEFINE x == server.try
                 y == server'.try
      <4>1. y = x + 1 /\ x \in Nat
        BY <2>1, <2>5
      <4> HIDE DEF x, y
      <4>2. y - 1 = x + 1 - 1
        BY <4>1
      <4> QED BY <4>2 DEF x, y
    <3>5. \A j \in 1..(server'.try - 1) : Here'.tries[j] # Here'.proto
      BY <2>2, <3>3, <3>4
    <3>6. client'.st # "failed" /\ server'.st # "closed"
      BY <1>3, <2>1, <3>1
    <3> QED BY <3>5, <3>6
  <2> QED BY <1>5, <2>4, <2>7, <2>8 DEF PeerInv
<1>10. CASE ~(server.try < Len(Here.tries))
  <2>1. server'.st = "closed"
    BY <1>8, <1>10
  <2>2. ~AllGood'
    <3> SUFFICES ASSUME AllGood' PROVE FALSE
      OBVIOUS
    <3>1. H!Compatible(Here)
      BY <1>2, <1>6 DEF AllGood, Here
    <3>2. PICK j \in 1..Len(Here.tries) : Here.tries[j] = Here.proto
      <4>1. Here.proto \in H!ToSet(Here.tries)
        BY <3>1 DEF H!Compatible
      <4> QED BY <1>2, <4>1 DEF H!ToSet, TriesFine
    <3>3. j \in 1..(server.try - 1) \/ j = server.try
      BY <1>2, <1>10 DEF TriesFine
    <3>4. \A i \in 1..(server.try - 1) : Here.tries[i] # Here.proto
      BY <1>1, <1>6 DEF Going
    <3>5. Here.tries[server.try] # Here.proto
      BY <1>6 DEF Asked
    <3> QED BY <3>2, <3>3, <3>4, <3>5
  <2> QED BY <2>1, <2>2, ServerCloses
<1> QED BY <1>9, <1>10

(* accept() asks the next protocol.                                        *)
LEMMA GuessKeeps ==
  ASSUME Fine(hops), HsInv, PeerInv, H!Guess
  PROVE  PeerInv'
<1> DEFINE x == Seen(Asked, Here, hsbuf.up)
           n == H!MarkSize(Asked, Here)
<1>1. /\ server.st = "guess" /\ (n > 0 => hsbuf.up # <<>>)
      /\ IF H!Matches(Asked, Here, x)
         THEN /\ hsbuf' = [hsbuf EXCEPT !["up"] = H!After(@, H!Taken(Asked, Here))]
              /\ server' = [server EXCEPT !.st = "read", !.phase = Opening(Asked), !.user = Guessed(Asked, Here, x)]
         ELSE /\ server' = IF server.try < Len(Here.tries) THEN [server EXCEPT !.try = @ + 1] ELSE [server EXCEPT !.st = "closed"]
              /\ UNCHANGED hsbuf
      /\ why' = IF Len(x) < n /\ Asked = Here.proto THEN why \union {"cut"} ELSE why
      /\ UNCHANGED <<hops, wire, client, admitted>>
  BY DEF H!Guess, Here, Asked, Seen, Opening, Guessed
<1> HIDE DEF x, n
<1>2. why \subseteq why' /\ (Len(x) < n /\ Asked = Here.proto => why' # {})
  BY <1>1
<1>3. CASE H!Matches(Asked, Here, x)
  <2>1. hsbuf' = [up |-> H!After(hsbuf.up, H!Taken(Asked, Here)), down |-> hsbuf.down]
    <3>1. hsbuf = [up |-> hsbuf.up, down |-> hsbuf.down]
      BY DEF PeerInv, PeerShape
    <3> QED BY <1>1, <1>3, <3>1
  <2>2. /\ server'.hop = server.hop /\ server'.try = server.try /\ server'.st = "read" /\ server'.phase = Opening(Asked)
        /\ server'.user = Guessed(Asked, Here, x)
    <3>1. server = [hop |-> server.hop, try |-> server.try, phase |-> server.phase, user |-> server.user, st |-> server.st]
      BY DEF HsInv, HsShape
    <3>2. server' = [server EXCEPT !.st = "read", !.phase = Opening(Asked), !.user = Guessed(Asked, Here, x)]
      BY <1>1, <1>3
    <3> QED BY <3>1, <3>2
  <2>3. n > 0 => Len(hsbuf.up) > 0
    <3>1. IsList(hsbuf.up)
      BY <1>1 DEF PeerInv, UpFlow, Stream
    <3> QED BY <1>1, <3>1, EmptyIs
  <2> QED BY <1>1, <1>2, <1>3, <2>1, <2>2, <2>3, GuessTakes DEF x, n
<1>4. CASE ~H!Matches(Asked, Here, x)
  <2>1. UNCHANGED <<hops, wire, hsbuf, client, admitted>>
    BY <1>1, <1>4
  <2>2. server' = IF server.try < Len(Here.tries) THEN [server EXCEPT !.try = @ + 1] ELSE [server EXCEPT !.st = "closed"]
    BY <1>1, <1>4
  <2> QED BY <1>1, <1>2, <1>4, <2>1, <2>2, GuessPasses DEF x, n
<1> QED BY <1>3, <1>4

(* A SOCKS5 client that would identify itself to a server that asks nobody *)
(* has not said more than its methods.                                     *)
LEMMA NotYetAsked ==
  ASSUME Fine(hops), HsInv, PeerInv, ~Matching(Here)
  PROVE  SentUp <= UpTo(hops)[server.hop - 1] + 3
<1>1. PeerShape /\ Aligned
  BY DEF PeerInv
<1>2. server.hop \in 1..Len(hops) /\ HopAt(hops, server.hop) /\ HopAt(hops, client.hop) /\ ClientAt /\ client.hop \in 1..Len(hops)
      /\ client.round \in 1..3
  BY <1>1, HereIs, MineIs, ClientIsAt
<1>3. ~PassedBy(server.hop) /\ ~(client.hop = server.hop /\ client.round > 1)
  BY <1>1, <1>2 DEF Aligned, Here
<1>4. client.st # "connected" /\ client.hop <= server.hop /\ client.hop \in Nat /\ server.hop \in Nat /\ Len(hops) \in Nat
  <2>1. client.hop \in Nat /\ server.hop \in Nat /\ Len(hops) \in Nat
    BY <1>2 DEF HopAt
  <2>2. ~(client.hop > server.hop) /\ client.st # "connected"
    BY <1>3 DEF PassedBy
  <2> QED BY <2>1, <2>2
<1>5. UpTo(hops)[server.hop - 1] \in Nat /\ UpTo(hops)[client.hop] \in Nat /\ SentUp \in Nat
  BY <1>2 DEF HopAt, ClientAt
<1>6. CASE client.hop < server.hop
  <2>1. client.hop \in 0..Len(hops) /\ server.hop - 1 \in 0..Len(hops) /\ client.hop <= server.hop - 1
    BY <1>2, <1>4, <1>6
  <2>2. UpTo(hops)[client.hop] <= UpTo(hops)[server.hop - 1]
    BY <2>1, InOrder
  <2>3. SentUp <= UpTo(hops)[client.hop]
    BY <1>2, <1>4 DEF ClientAt
  <2> QED BY <1>5, <2>2, <2>3
<1>7. CASE client.hop = server.hop
  <2>1. client.round = 1 /\ Mine = Here
    BY <1>2, <1>3, <1>7 DEF Mine, Here
  <2>2. Here.proto = "socks5"
    BY DEF Matching
  <2>3. Asking(Here, 1) = 0 /\ Asking(Here, 1 + 1) = 3
    BY <2>2 DEF Asking, Turns
  <2>4. SentUp = UpTo(hops)[server.hop - 1] + 0 \/ SentUp = UpTo(hops)[server.hop - 1] + 3
    BY <1>4, <1>7, <2>1, <2>3 DEF SentUp
  <2> QED BY <1>5, <2>4
<1> QED BY <1>4, <1>6, <1>7

(* The server reads what its own client wrote.                             *)
Begun == UpTo(hops)[server.hop - 1]
ReadRight(a) ==
  LET n == Want(Here, server.phase) - Eaten(Here, Here.proto, server.phase)
      o == H!Accepts(Here.proto, Here, server.phase, server.user, a.got)
  IN /\ a.st = "ok" /\ a.at = n /\ Begun + Want(Here, server.phase) <= SentUp
     /\ Begun \in Nat /\ Want(Here, server.phase) \in Nat
     /\ Stream(H!After(hsbuf.up, n), wire.up, Up(hops), Begun + Want(Here, server.phase), SentUp)
     /\ Refused(Here, o) \/ GoneOn(Here, server.phase, o) \/ LetIn(Here, server.phase, o)

(* A server that met its own client reads what it wrote.                   *)
LEMMA ReadsRight ==
  ASSUME Fine(hops), HsInv, PeerInv, server.st = "read", Asked = Here.proto,
         NEW a, a = H!Scan(H!Reads(Here.proto, server.phase), hsbuf.up), a.st # "more"
  PROVE  ReadRight(a)
<1>1. PeerShape /\ Learned /\ UpFlow
  BY DEF PeerInv
<1>2. server.hop \in 1..Len(hops) /\ HopAt(hops, server.hop) /\ HopFine(Here)
  BY HereIs
<1>3. Ready(Here, server.phase, server.user)
  BY <1>1 DEF Learned
<1> DEFINE f == UpTo(hops)[server.hop - 1]
           k == Eaten(Here, Here.proto, server.phase)
           m == Want(Here, server.phase)
           n == m - k
           g == f + k
           o == H!Accepts(Here.proto, Here, server.phase, server.user, a.got)
<1>4. k \in Nat /\ m \in Nat /\ k <= m /\ f \in Nat
  BY <1>2, <1>3, EatenIs DEF HopAt
<1>5. Stream(hsbuf.up, wire.up, Up(hops), g, SentUp)
  BY <1>1 DEF UpFlow, ReadUp
<1>6. Agrees(hsbuf.up, Text(Here), k)
  <2> HIDE DEF k
  <2>1. g = UpTo(hops)[server.hop - 1] + k
    OBVIOUS
  <2> HIDE DEF g
  <2>2. Agrees(hsbuf.up, Text(hops[server.hop]), k)
    BY <1>2, <1>4, <1>5, <2>1, UpAgrees
  <2> QED BY <2>2 DEF Here
<1>7. /\ IsList(hsbuf.up) /\ Len(hsbuf.up) \in Nat /\ Len(wire.up) \in Nat /\ SentUp \in Nat
      /\ g + Len(hsbuf.up) + Len(wire.up) = SentUp
  <2> HIDE DEF g
  <2> QED BY <1>5 DEF Stream
<1>8. Here.proto = "socks5" /\ server.phase = "request" /\ Here.users = {} /\ Here.auth # H!None => Len(hsbuf.up) = 0
  <2> SUFFICES ASSUME Here.proto = "socks5", server.phase = "request", Here.users = {}, Here.auth # H!None
               PROVE  Len(hsbuf.up) = 0
    OBVIOUS
  <2>1. k = 3
    BY DEF Eaten
  <2>2. SentUp <= f + 3
    BY NotYetAsked DEF Matching
  <2>3. \A x, y, z, v \in Nat : x + 3 + y + z = v /\ v <= x + 3 => y = 0
    OBVIOUS
  <2>4. f + 3 + Len(hsbuf.up) + Len(wire.up) = SentUp
    BY <1>7, <2>1
  <2> HIDE DEF f, k, g
  <2> QED BY <1>4, <1>7, <2>2, <2>3, <2>4
<1>9. Understood(Here, server.phase, server.user, hsbuf.up)
  BY <1>2, <1>3, <1>6, <1>8, Understands
<1>10. n <= Len(hsbuf.up) /\ a.st = "ok" /\ a.at = n /\ (Refused(Here, o) \/ GoneOn(Here, server.phase, o) \/ LetIn(Here, server.phase, o))
  BY <1>9 DEF Understood
<1> HIDE DEF f, k, m, o
<1>11. n \in Nat /\ g + n = f + m /\ f + m <= SentUp
  <2>1. \A x, y, z, b, w, v \in Nat : x + y + b + w = v /\ y <= z /\ z - y <= b =>
                                      z - y \in Nat /\ x + y + (z - y) = x + z /\ x + z <= v
    OBVIOUS
  <2> DEFINE b == Len(hsbuf.up)
             w == Len(wire.up)
  <2>2. f + k + b + w = SentUp /\ b \in Nat /\ w \in Nat /\ SentUp \in Nat
    BY <1>7
  <2>3. k <= m /\ m - k <= b /\ k \in Nat /\ m \in Nat /\ f \in Nat
    BY <1>4, <1>10
  <2> HIDE DEF b, w
  <2>4. m - k \in Nat /\ f + k + (m - k) = f + m /\ f + m <= SentUp
    BY <2>1, <2>2, <2>3
  <2> QED BY <2>4
<1>12. Stream(H!After(hsbuf.up, n), wire.up, Up(hops), f + m, SentUp)
  <2> HIDE DEF n, g
  <2>1. f + m = g + n
    BY <1>11
  <2> QED BY <1>5, <1>10, <1>11, <2>1, StreamTakes
<1> QED BY <1>4, <1>10, <1>11, <1>12 DEF ReadRight, Begun, f, k, m, o

(* A refusal without a word.                                               *)
LEMMA ReadRefuses ==
  ASSUME PeerInv, server.st = "read", server'.st = "closed", UNCHANGED <<hops, client, admitted>>,
         NEW x, hsbuf' = [up |-> x, down |-> hsbuf.down],
         NEW y, wire' = [up |-> wire.up, down |-> y], client.st # "failed" => y = wire.down,
         AllGood' => FALSE
  PROVE  PeerInv'
<1>1. PeerShape /\ Learned /\ UpFlow /\ DownFlow /\ Admitted /\ Aligned /\ AllAsAsked
  BY DEF PeerInv
<1>2. /\ hsbuf'.down = hsbuf.down /\ hsbuf' = [up |-> hsbuf'.up, down |-> hsbuf'.down]
      /\ wire'.down = y /\ wire' = [up |-> wire'.up, down |-> wire'.down]
  OBVIOUS
<1>3. hops' = hops /\ client' = client /\ admitted' = admitted
  OBVIOUS
<1>4. UpFlow'
  BY DEF UpFlow
<1>5. DownFlow'
  <2>1. CASE client.st = "failed"
    BY <1>3, <2>1 DEF DownFlow
  <2>2. CASE client.st # "failed"
    <3>1. HeardDown' = HeardDown
      BY <1>3 DEF HeardDown, Mine
    <3>2. wire'.down = wire.down
      BY <1>2, <2>2
    <3> QED BY <1>1, <1>2, <1>3, <2>2, <3>1, <3>2, DownKept
  <2> QED BY <2>1, <2>2
<1>6. Learned' /\ Admitted' /\ Aligned' /\ AllAsAsked'
  BY <1>1, <1>3, LearnedKept, GatesKept
<1>7. PeerShape'
  BY <1>1, <1>2, <1>3 DEF PeerShape, Mine
<1> QED BY <1>4, <1>5, <1>6, <1>7 DEF PeerInv, Going

(* When the server has all its client says at a hop, the client is there   *)
(* and waits for the answer, of which it has nothing.                      *)
LEMMA HeardNothing ==
  ASSUME Fine(hops), HsInv, PeerInv, server.st \in {"guess", "read"}, client.st # "failed",
         Here.proto \in {"http", "ws", "cfp"}, UpTo(hops)[server.hop] <= SentUp, SentDown = DownTo(hops)[server.hop - 1]
  PROVE  client.st = "hear" /\ Mine = Here /\ hsbuf.down = <<>> /\ wire.down = <<>>
<1>1. PeerShape /\ Learned /\ DownFlow
  BY DEF PeerInv
<1>2. /\ server.hop \in 1..Len(hops) /\ HopAt(hops, server.hop) /\ HopAt(hops, client.hop) /\ client.hop \in 1..Len(hops)
      /\ ClientAt /\ HopFine(Here)
  BY <1>1, HereIs, MineIs, ClientIsAt
<1>3. PICK e \in Nat : Answering(e)
  BY <1>1 DEF DownFlow, Unauthorizing, Silent
<1> DEFINE s == server.hop
           k == client.hop
           n == Len(hops)
           U(i) == UpTo(hops)[i]
           D(i) == DownTo(hops)[i]
<1>4. Stream(hsbuf.down, wire.down, Down(hops), HeardDown, D(s - 1))
  <2>1. Stream(hsbuf.down, wire.down, Down(hops), HeardDown, e) /\ e = SentDown
    BY <1>3 DEF Answering
  <2> QED BY <2>1
<1>5. HeardDown \in Nat /\ D(s - 1) \in Nat /\ HeardDown <= D(s - 1)
  <2> HIDE DEF s, D
  <2>1. \A x, y, z, v \in Nat : x + y + z = v => x <= v
    OBVIOUS
  <2> QED BY <1>4, <2>1 DEF Stream
<1>6. /\ s \in Nat /\ k \in Nat /\ n \in Nat /\ U(s - 1) \in Nat /\ U(s) \in Nat /\ D(s) \in Nat /\ U(s - 1) < U(s) /\ D(s - 1) < D(s)
      /\ SentUp \in Nat
  <2>1. Len(Text(Here)) >= 2 /\ Len(Text(Here)) \in Nat
    BY <1>2, TextIsFine DEF TextFine
  <2>2. Len(Reply(Here)) = 2
    BY <1>2, ReplyIsFine DEF ReplyFine
  <2>3. U(s - 1) \in Nat /\ U(s) = U(s - 1) + Len(Text(Here)) /\ D(s - 1) \in Nat /\ D(s) = D(s - 1) + Len(Reply(Here))
    BY <1>2 DEF HopAt, Here
  <2>4. s \in Nat /\ k \in Nat /\ n \in Nat /\ SentUp \in Nat
    BY <1>2 DEF HopAt, ClientAt
  <2> HIDE DEF s, k, n, U, D
  <2> QED BY <2>1, <2>2, <2>3, <2>4
<1>7. client.st # "connected"
  <2> SUFFICES ASSUME client.st = "connected" PROVE FALSE
    OBVIOUS
  <2>1. HeardDown = D(n)
    BY <1>2 DEF ClientAt
  <2>2. s \in 0..n /\ n \in 0..n /\ s <= n
    BY <1>2, <1>6
  <2>3. D(s) <= D(n) /\ D(n) \in Nat
    BY <2>2, InOrder
  <2> HIDE DEF s, k, n, U, D
  <2> QED BY <1>5, <1>6, <2>1, <2>3
<1>8. /\ U(k - 1) <= SentUp /\ SentUp <= U(k) /\ D(k - 1) <= HeardDown /\ D(k - 1) \in Nat /\ U(k) \in Nat
  BY <1>2, <1>7 DEF ClientAt, HopAt
<1>9. ~(k < s)
  <2> SUFFICES ASSUME k < s PROVE FALSE
    OBVIOUS
  <2>1. k \in 0..n /\ s - 1 \in 0..n /\ k <= s - 1
    BY <1>2, <1>6
  <2>2. U(k) <= U(s - 1)
    BY <2>1, InOrder
  <2>3. U(s) <= SentUp
    OBVIOUS
  <2> HIDE DEF s, k, n, U, D
  <2> QED BY <1>6, <1>8, <2>2, <2>3
<1>10. ~(s < k)
  <2> SUFFICES ASSUME s < k PROVE FALSE
    OBVIOUS
  <2>1. s \in 0..n /\ k - 1 \in 0..n /\ s <= k - 1
    BY <1>2, <1>6
  <2>2. D(s) <= D(k - 1)
    BY <2>1, InOrder
  <2> HIDE DEF s, k, n, U, D
  <2> QED BY <1>5, <1>6, <1>8, <2>2
<1>11. s = k
  <2> HIDE DEF s, k
  <2> QED BY <1>6, <1>9, <1>10
<1>12. Mine = Here
  BY <1>11 DEF Mine, Here
<1>13. client.st \in {"say", "hear"}
  BY <1>1, <1>7 DEF PeerShape
<1>14. client.st # "say"
  <2> SUFFICES ASSUME client.st = "say" PROVE FALSE
    OBVIOUS
  <2>1. client.round = 1
    <3>1. Turns(Mine) = 1
      BY <1>12 DEF Turns
    <3> QED BY <1>1, <3>1 DEF PeerShape
  <2>2. Asking(Mine, client.round) = 0
    BY <2>1 DEF Asking
  <2>3. SentUp = U(s - 1) + 0
    BY <1>11, <2>2 DEF SentUp
  <2>4. U(s) <= SentUp
    OBVIOUS
  <2> HIDE DEF s, k, n, U, D
  <2> QED BY <1>6, <2>3, <2>4
<1>15. D(s - 1) <= HeardDown
  BY <1>8, <1>11
<1>16. hsbuf.down = <<>> /\ wire.down = <<>>
  <2> HIDE DEF s, k, n, U, D
  <2> QED BY <1>4, <1>15, StreamEmpty
<1> QED BY <1>12, <1>13, <1>14, <1>16

(* A refusal with a word.                                                  *)
LEMMA ReadDenies ==
  ASSUME Fine(hops), HsInv, PeerInv, server.st = "read", Asked = Here.proto, server'.st = "closed", UNCHANGED <<hops, client, admitted>>,
         Here.proto \in {"http", "ws", "cfp"}, UpTo(hops)[server.hop] <= SentUp,
         NEW x, hsbuf' = [up |-> x, down |-> hsbuf.down],
         wire' = [up |-> wire.up, down |-> wire.down \o H!Unauthorized],
         AllGood' => FALSE
  PROVE  PeerInv'
<1>1. PeerShape /\ Learned /\ UpFlow /\ DownFlow /\ Admitted /\ Aligned /\ AllAsAsked
  BY DEF PeerInv
<1>2. /\ hsbuf'.down = hsbuf.down /\ hsbuf' = [up |-> hsbuf'.up, down |-> hsbuf'.down]
      /\ wire'.down = wire.down \o H!Unauthorized /\ wire' = [up |-> wire'.up, down |-> wire'.down]
  OBVIOUS
<1>3. hops' = hops /\ client' = client /\ admitted' = admitted
  OBVIOUS
<1>4. UpFlow'
  BY DEF UpFlow
<1>5. DownFlow'
  <2>1. CASE client.st = "failed"
    BY <1>3, <2>1 DEF DownFlow
  <2>2. CASE client.st # "failed"
    <3>1. SentDown = DownTo(hops)[server.hop - 1]
      <4>1. Told(Here, Asked, server.phase) = 0
        BY DEF Told
      <4>2. DownTo(hops)[server.hop - 1] \in Nat
        BY HereIs DEF HopAt
      <4>3. SentDown = DownTo(hops)[server.hop - 1] + 0
        BY <4>1 DEF SentDown
      <4> QED BY <4>2, <4>3
    <3>2. client.st = "hear" /\ Mine = Here /\ hsbuf.down = <<>> /\ wire.down = <<>>
      BY <2>2, <3>1, HeardNothing
    <3>3. H!Unauthorized = <<47, H!BLANK>> /\ IsList(<<47, H!BLANK>>) /\ Len(<<47, H!BLANK>>) = 2
      BY TuplesAre DEF H!Unauthorized
    <3>4. Stream(<<>>, <<>> \o H!Unauthorized, H!Unauthorized, 0, 2)
      <4> DEFINE f == 0
                 t == 2
                 d == H!Unauthorized
      <4>1. IsPart(d, d, f, t) /\ f \in Nat /\ t \in Nat
        BY <3>3, AllIsPart
      <4> HIDE DEF f, t, d
      <4>2. Stream(<<>>, <<>>, d, f, f)
        BY <4>1, StreamStarts
      <4>3. Stream(<<>>, <<>> \o d, d, f, t)
        BY <4>1, <4>2, StreamSends
      <4> QED BY <4>3 DEF f, t, d
    <3>5. Unauthorizing'
      <4>1. Mine' = Mine
        BY <1>3 DEF Mine
      <4> QED BY <1>2, <1>3, <3>2, <3>4, <4>1 DEF Unauthorizing
    <3> QED BY <3>5 DEF DownFlow
  <2> QED BY <2>1, <2>2
<1>6. Learned' /\ Admitted' /\ Aligned' /\ AllAsAsked'
  BY <1>1, <1>3, LearnedKept, GatesKept
<1>7. PeerShape'
  BY <1>1, <1>2, <1>3 DEF PeerShape, Mine
<1> QED BY <1>4, <1>5, <1>6, <1>7 DEF PeerInv, Going

(* The server answers and goes on.                                         *)
LEMMA AnswerKeeps ==
  ASSUME DownFlow, server.st # "closed", server'.st # "closed", UNCHANGED <<hops, client>>, NEW d,
         client.st # "failed" => IsPart(d, Down(hops), SentDown, SentDown'), SentDown' \in Nat,
         hsbuf'.down = hsbuf.down, wire'.down = wire.down \o d, VouchedNow'
  PROVE  DownFlow'
<1> SUFFICES ASSUME client.st # "failed" PROVE DownFlow'
  BY DEF DownFlow
<1>1. PICK e \in Nat : Answering(e)
  BY DEF DownFlow, Unauthorizing, Silent
<1>2. Stream(hsbuf.down, wire.down, Down(hops), HeardDown, SentDown)
  BY <1>1 DEF Answering
<1> DEFINE t == SentDown
           u == SentDown'
<1>3. Stream(hsbuf.down, wire.down \o d, Down(hops), HeardDown, u)
  <2>1. Stream(hsbuf.down, wire.down, Down(hops), HeardDown, t) /\ IsPart(d, Down(hops), t, u) /\ u \in Nat
    BY <1>2
  <2> HIDE DEF t, u
  <2> QED BY <2>1, StreamSends
<1>4. HeardDown' = HeardDown /\ hops' = hops
  BY DEF HeardDown, Mine
<1>5. Vouched(hops, admitted', u)
  BY <1>4 DEF VouchedNow
<1> HIDE DEF u
<1>6. Stream(hsbuf'.down, wire'.down, Down(hops'), HeardDown', u) /\ Vouched(hops', admitted', u)
  BY <1>3, <1>4, <1>5
<1>7. u \in Nat /\ u = SentDown'
  BY DEF u
<1>8. (\E f \in Nat : Answering(f))'
  <2>1. PICK f \in Nat : f = u
    BY <1>7
  <2>2. Answering(f)'
    BY <1>6, <1>7, <2>1 DEF Answering
  <2> QED BY <2>1, <2>2
<1> QED BY <1>8 DEF DownFlow

(* Another phase, under SOCKS5.                                            *)
LEMMA ReadGoesOn ==
  ASSUME Fine(hops), HsInv, HsInv', PeerInv, server.st = "read", Asked = Here.proto, UNCHANGED <<hops, client, admitted, why>>,
         NEW a, ReadRight(a), NEW o, GoneOn(Here, server.phase, o),
         hsbuf' = [up |-> H!After(hsbuf.up, a.at), down |-> hsbuf.down], wire' = [up |-> wire.up, down |-> wire.down \o o.reply],
         server'.hop = server.hop, server'.try = server.try, server'.st = "read", server'.phase = o.phase, server'.user = o.user
  PROVE  PeerInv'
<1>1. PeerShape /\ Learned /\ UpFlow /\ DownFlow /\ Admitted /\ Aligned /\ AllAsAsked /\ Going
  BY DEF PeerInv
<1>2. /\ hsbuf'.up = H!After(hsbuf.up, a.at) /\ hsbuf'.down = hsbuf.down /\ hsbuf' = [up |-> hsbuf'.up, down |-> hsbuf'.down]
      /\ wire'.up = wire.up /\ wire'.down = wire.down \o o.reply /\ wire' = [up |-> wire'.up, down |-> wire'.down]
  OBVIOUS
<1>3. hops' = hops /\ client' = client /\ admitted' = admitted /\ why' = why
  OBVIOUS
<1>4. Here' = Here /\ Asked' = Asked
  BY DEF Here, Asked
<1>5. SentUp' = SentUp
  BY <1>3 DEF SentUp, Mine
<1>6. server.hop \in 1..Len(hops) /\ HopAt(hops, server.hop) /\ HopFine(Here)
  BY HereIs
<1>7. /\ Here.proto = "socks5" /\ Ready(Here, o.phase, o.user) /\ Eaten(Here, "socks5", o.phase) = Want(Here, server.phase)
      /\ IsPart(o.reply, Reply(Here), Told(Here, "socks5", server.phase), Told(Here, "socks5", o.phase))
  BY DEF GoneOn
<1>8. Learned'
  <2>1. Alone(Here, server.try)
    BY <1>1 DEF Learned
  <2> QED BY <1>4, <1>7, <2>1 DEF Learned
<1>9. UpFlow'
  <2>1. ReadUp' = Begun + Want(Here, server.phase)
    BY <1>4, <1>7 DEF ReadUp, Begun
  <2> QED BY <1>2, <1>3, <1>5, <2>1 DEF UpFlow, ReadRight
<1>10. DownFlow'
  <2> DEFINE i == server.hop
             from == Told(Here, "socks5", server.phase)
             to == Told(Here, "socks5", o.phase)
             p == "socks5"
  <2>1. SentDown = DownTo(hops)[i - 1] + from /\ SentDown' = DownTo(hops)[i - 1] + to
    BY <1>4, <1>7 DEF SentDown
  <2>2. from \in Nat /\ to \in Nat /\ to <= Len(Reply(Here))
    BY <1>6, <1>7, ToldIs
  <2>3. i \in 1..Len(hops) /\ IsPart(o.reply, Reply(hops[i]), from, to) /\ to <= Len(Reply(hops[i])) /\ DownTo(hops)[i - 1] \in Nat
    BY <1>6, <1>7, <2>2 DEF Here, HopAt
  <2> DEFINE t == SentDown
             u == SentDown'
  <2>4. t = DownTo(hops)[i - 1] + from /\ u = DownTo(hops)[i - 1] + to
    BY <2>1
  <2> HIDE DEF i, from, to, t, u
  <2>5. IsPart(o.reply, Down(hops), t, u)
    BY <2>2, <2>3, <2>4, DownPart
  <2>6. u \in Nat
    BY <2>2, <2>3, <2>4
  <2>7. VouchedNow'
    <3>1. (Fine(hops) /\ HsInv /\ Learned => VouchedNow)'
      BY VouchedIs, PTL
    <3>2. Fine(hops)'
      BY <1>3
    <3> QED BY <1>8, <3>1, <3>2
  <2> QED BY <1>1, <1>2, <1>3, <2>5, <2>6, <2>7, AnswerKeeps DEF t, u
<1>11. Admitted' /\ Aligned' /\ AllAsAsked'
  BY <1>1, <1>3, GatesKept
<1>12. PeerShape' /\ Going'
  BY <1>1, <1>2, <1>3, <1>4 DEF PeerShape, Mine, Going, AllGood
<1> QED BY <1>8, <1>9, <1>10, <1>11, <1>12 DEF PeerInv

(* The request, and the destination and user that come of it.              *)
LEMMA ReadAdmits ==
  ASSUME Fine(hops), HsInv, HsInv', PeerInv, server.st = "read", Asked = Here.proto, UNCHANGED <<hops, client, why>>,
         NEW a, ReadRight(a), NEW o, LetIn(Here, server.phase, o), admitted' = Append(admitted, [dest |-> o.dest, user |-> o.user]),
         hsbuf' = [up |-> H!After(hsbuf.up, a.at), down |-> hsbuf.down], wire' = [up |-> wire.up, down |-> wire.down \o o.reply],
         server'.hop = server.hop, server'.try = server.try, server'.st = "dial"
  PROVE  PeerInv'
<1>1. PeerShape /\ Learned /\ UpFlow /\ DownFlow /\ Admitted /\ Aligned /\ AllAsAsked /\ Going
  BY DEF PeerInv
<1>2. /\ hsbuf'.up = H!After(hsbuf.up, a.at) /\ hsbuf'.down = hsbuf.down /\ hsbuf' = [up |-> hsbuf'.up, down |-> hsbuf'.down]
      /\ wire'.up = wire.up /\ wire'.down = wire.down \o o.reply /\ wire' = [up |-> wire'.up, down |-> wire'.down]
  OBVIOUS
<1>3. hops' = hops /\ client' = client /\ why' = why
  OBVIOUS
<1>4. Here' = Here /\ Asked' = Asked
  BY DEF Here, Asked
<1>5. SentUp' = SentUp
  BY <1>3 DEF SentUp, Mine
<1>6. server.hop \in 1..Len(hops) /\ HopAt(hops, server.hop) /\ HopFine(Here)
  BY HereIs
<1>7. /\ Want(Here, server.phase) = Len(Text(Here))
      /\ o.dest = (IF Here.proto = "socks4" THEN H!Resolved(Here.dest) ELSE Here.dest)
      /\ Here.users # {} /\ Here.proto # "tunnel" => o.user = Here.auth
      /\ IsPart(o.reply, Reply(Here), Told(Here, Here.proto, server.phase), Len(Reply(Here)) - Len(H!Connected(Here.proto)))
  BY DEF LetIn
<1>8. Learned'
  BY <1>4 DEF Learned
<1>9. UpFlow'
  <2>1. ReadUp' = UpTo(hops)[server.hop]
    BY DEF ReadUp
  <2>2. Begun + Want(Here, server.phase) = UpTo(hops)[server.hop]
    BY <1>6, <1>7 DEF HopAt, Begun, Here
  <2> QED BY <1>2, <1>3, <1>5, <2>1, <2>2 DEF UpFlow, ReadRight
<1>10. DownFlow'
  <2> DEFINE i == server.hop
             from == Told(Here, Here.proto, server.phase)
             k == Len(H!Connected(Here.proto))
             to == Len(Reply(Here)) - k
  <2>1. SentDown = DownTo(hops)[i - 1] + from /\ SentDown' = DownTo(hops)[i] - k
    BY <1>4 DEF SentDown
  <2>2. from \in Nat
    BY <1>6, ToldIs
  <2>3. i \in 1..Len(hops) /\ IsPart(o.reply, Reply(hops[i]), from, to) /\ DownTo(hops)[i - 1] \in Nat /\ Reply(hops[i]) = Reply(Here)
        /\ DownTo(hops)[i] = DownTo(hops)[i - 1] + Len(Reply(Here))
    BY <1>6, <1>7 DEF Here, HopAt
  <2>4. k \in Nat /\ k <= Len(Reply(Here)) /\ Len(Reply(Here)) \in Nat
    BY <1>6, ConnectedIs
  <2> DEFINE t == SentDown
             u == SentDown'
  <2>5. t = DownTo(hops)[i - 1] + from /\ u = DownTo(hops)[i] - k
    BY <2>1
  <2> HIDE DEF i, from, k, t, u
  <2>6. to \in Nat /\ to <= Len(Reply(Here)) /\ u = DownTo(hops)[i - 1] + to
    BY <2>3, <2>4, <2>5
  <2> HIDE DEF to
  <2>7. IsPart(o.reply, Down(hops), t, u)
    BY <2>2, <2>3, <2>5, <2>6, DownPart
  <2>8. u \in Nat
    BY <2>3, <2>6
  <2>9. VouchedNow'
    <3>1. (Fine(hops) /\ HsInv /\ Learned => VouchedNow)'
      BY VouchedIs, PTL
    <3>2. Fine(hops)'
      BY <1>3
    <3> QED BY <1>8, <3>1, <3>2
  <2> QED BY <1>1, <1>2, <1>3, <2>7, <2>8, <2>9, AnswerKeeps DEF t, u
<1>11. /\ Len(admitted) = server.hop - 1 /\ Len(admitted') = server.hop /\ server.hop \in Nat
       /\ \A j \in 1..Len(admitted) : admitted'[j] = admitted[j]
       /\ admitted'[server.hop] = [dest |-> o.dest, user |-> o.user]
  <2>1. Len(admitted) = server.hop - 1 /\ IsList(admitted)
    BY DEF HsInv, HsCount, HsShape
  <2>2. server.hop \in Nat
    BY <1>6 DEF HopAt
  <2>3. /\ Len(admitted) \in Nat /\ Len(admitted') = Len(admitted) + 1 /\ (\A j \in 1..Len(admitted) : admitted'[j] = admitted[j])
        /\ admitted'[Len(admitted) + 1] = [dest |-> o.dest, user |-> o.user]
    BY <2>1, ListGrows
  <2>4. Len(admitted) + 1 = server.hop
    BY <2>1, <2>2
  <2> QED BY <2>1, <2>2, <2>3, <2>4
<1>12. AllAsAsked'
  <2> SUFFICES ASSUME NEW j \in 1..Len(admitted') PROVE AsAsked(j)'
    BY DEF AllAsAsked
  <2>1. CASE j = server.hop
    BY <1>3, <1>7, <1>11, <2>1 DEF AsAsked, Here
  <2>2. CASE j # server.hop
    <3>1. j \in 1..Len(admitted)
      BY <1>11, <2>2
    <3> QED BY <1>1, <1>3, <1>11, <3>1 DEF AllAsAsked, AsAsked
  <2> QED BY <2>1, <2>2
<1>13. Admitted' /\ Aligned'
  <2>1. \A i : PassedBy(i)' <=> PassedBy(i)
    BY <1>3 DEF PassedBy
  <2>2. Aligned'
    BY <1>1, <1>3, <2>1 DEF Aligned
  <2>3. \A i \in 1..Len(hops) : Len(admitted) >= i => Len(admitted') >= i
    <3>1. Len(hops) \in Nat
      BY <1>6 DEF HopAt
    <3> QED BY <1>11, <3>1
  <2> QED BY <1>1, <1>3, <2>1, <2>2, <2>3 DEF Admitted
<1>14. PeerShape' /\ Going'
  BY <1>1, <1>2, <1>3, <1>4 DEF PeerShape, Mine, Going, AllGood
<1> QED BY <1>8, <1>9, <1>10, <1>12, <1>13, <1>14 DEF PeerInv

(* Two pieces, one behind the other.                                       *)
LEMMA PartsJoin ==
  ASSUME NEW x, NEW y, NEW all, NEW f \in Nat, NEW m \in Nat, NEW t \in Nat, IsPart(x, all, f, m), IsPart(y, all, m, t)
  PROVE  IsPart(x \o y, all, f, t)
<1> DEFINE q == x \o y
<1>1. IsList(x) /\ IsList(y) /\ Len(x) = m - f /\ Len(y) = t - m
  BY DEF IsPart
<1>2. Len(x) \in Nat /\ Len(y) \in Nat
  BY <1>1, ListIs
<1>3. IsList(q) /\ Len(q) = Len(x) + Len(y) /\ (\A j \in 1..Len(x) : q[j] = x[j]) /\ \A j \in 1..Len(y) : q[Len(x) + j] = y[j]
  BY <1>1, ConcatIs
<1> HIDE DEF q
<1>4. ASSUME NEW j \in 1..Len(q) PROVE q[j] = all[f + j]
  <2>1. CASE j \in 1..Len(x)
    BY <1>3, <2>1 DEF IsPart
  <2>2. CASE j \notin 1..Len(x)
    <3> DEFINE k == j - Len(x)
    <3>1. k \in 1..Len(y) /\ j = Len(x) + k /\ f + j = m + k
      BY <1>1, <1>2, <1>3, <2>2
    <3> HIDE DEF k
    <3>2. y[k] = all[m + k]
      BY <3>1 DEF IsPart
    <3> QED BY <1>3, <3>1, <3>2
  <2> QED BY <2>1, <2>2
<1>5. Len(q) = t - f
  BY <1>1, <1>3
<1> QED BY <1>3, <1>4, <1>5 DEF IsPart, q

(* accept() has what its phase reads.                                      *)
LEMMA ReadKeeps ==
  ASSUME Fine(hops), HsInv, HsInv', PeerInv, H!Read
  PROVE  PeerInv'
<1> DEFINE a == H!Scan(H!Reads(Asked, server.phase), hsbuf.up)
           o == IF a.st = "bad" THEN H!Refuse(<<>>) ELSE H!Accepts(Asked, Here, server.phase, server.user, a.got)
<1>1. /\ server.st = "read" /\ a.st # "more" /\ hsbuf' = [hsbuf EXCEPT !["up"] = H!After(@, a.at)]
      /\ wire' = [wire EXCEPT !["down"] = @ \o o.reply]
      /\ server' = [server EXCEPT !.st = o.st, !.phase = o.phase, !.user = o.user]
      /\ admitted' = IF o.st = "dial" THEN Append(admitted, [dest |-> o.dest, user |-> o.user]) ELSE admitted
      /\ UNCHANGED <<hops, client, why>>
  BY DEF H!Read, H!Sends, Here, Asked
<1>2. PeerShape /\ Learned /\ Going /\ DownFlow
  BY DEF PeerInv
<1>3. /\ server.hop \in 1..Len(hops) /\ HopAt(hops, server.hop) /\ HopFine(Here)
  BY HereIs
<1> HIDE DEF a, o
<1>4. hsbuf' = [up |-> H!After(hsbuf.up, a.at), down |-> hsbuf.down]
  <2>1. hsbuf = [up |-> hsbuf.up, down |-> hsbuf.down]
    BY <1>2 DEF PeerShape
  <2> QED BY <1>1, <2>1
<1>5. wire' = [up |-> wire.up, down |-> wire.down \o o.reply]
  <2>1. wire = [up |-> wire.up, down |-> wire.down]
    BY <1>2 DEF PeerShape
  <2> QED BY <1>1, <2>1
<1>6. server'.hop = server.hop /\ server'.try = server.try /\ server'.st = o.st /\ server'.phase = o.phase /\ server'.user = o.user
  <2>1. server = [hop |-> server.hop, try |-> server.try, phase |-> server.phase, user |-> server.user, st |-> server.st]
    BY DEF HsInv, HsShape
  <2> QED BY <1>1, <2>1
<1>7. UNCHANGED <<hops, client, why>>
  BY <1>1
<1>8. client.st # "failed" => wire.down \o <<>> = wire.down
  <2>1. SUFFICES ASSUME client.st # "failed" PROVE IsList(wire.down)
    BY NothingAdds
  <2>2. PICK e \in Nat : Answering(e)
    BY <1>1, <1>2, <2>1 DEF DownFlow, Unauthorizing, Silent
  <2> QED BY <2>2 DEF Answering, Stream
<1>9. ASSUME o.st = "closed", o.reply = <<>>, ~AllGood PROVE PeerInv'
  <2>1. server'.st = "closed" /\ UNCHANGED <<hops, client, admitted>>
    BY <1>1, <1>6, <1>9
  <2>2. ~AllGood'
    BY <1>7, <1>9 DEF AllGood
  <2> DEFINE x == H!After(hsbuf.up, a.at)
             y == wire.down \o o.reply
  <2>3. hsbuf' = [up |-> x, down |-> hsbuf.down] /\ wire' = [up |-> wire.up, down |-> y] /\ (client.st # "failed" => y = wire.down)
    BY <1>4, <1>5, <1>8, <1>9
  <2> HIDE DEF x, y
  <2> QED BY <1>1, <2>1, <2>2, <2>3, ReadRefuses
<1>10. CASE Asked # Here.proto
  <2>1. H!Mistakes(Asked, Here) /\ Behind(Here, server.try) /\ server.phase = "request"
    BY <1>1, <1>2, <1>10 DEF Learned
  <2>2. Agrees(hsbuf.up, Text(Here), H!Taken(Asked, Here))
    <3> DEFINE k == H!Taken(Asked, Here)
               f == ReadUp
               i == server.hop
    <3>1. k \in Nat
      BY HereIs, MarkIs
    <3>2. f = UpTo(hops)[i - 1] + k
      <4>1. Eaten(Here, Asked, server.phase) = k
        BY <2>1 DEF Eaten, H!Mistakes
      <4> QED BY <1>1, <4>1 DEF ReadUp
    <3>3. Stream(hsbuf.up, wire.up, Up(hops), f, SentUp) /\ i \in 1..Len(hops)
      BY <1>1, <1>3 DEF PeerInv, UpFlow
    <3> HIDE DEF k, f, i
    <3>4. Agrees(hsbuf.up, Text(hops[i]), k)
      BY <3>1, <3>2, <3>3, UpAgrees
    <3> QED BY <3>4 DEF k, i, Here
  <2>3. o = H!Refuse(<<>>)
    <3>1. a = H!Scan(H!Reads(Asked, "request"), hsbuf.up)
      BY <2>1 DEF a
    <3>2. LET b == H!Scan(H!Reads(Asked, "request"), hsbuf.up)
          IN (IF b.st = "bad" THEN H!Refuse(<<>>) ELSE H!Accepts(Asked, Here, "request", server.user, b.got)) = H!Refuse(<<>>)
      <4>1. H!Scan(H!Reads(Asked, "request"), hsbuf.up).st # "more"
        BY <1>1, <3>1
      <4> QED BY <1>3, <2>1, <2>2, <4>1, MistakenRefuses
    <3>3. o = IF a.st = "bad" THEN H!Refuse(<<>>) ELSE H!Accepts(Asked, Here, "request", server.user, a.got)
      BY <2>1 DEF o
    <3> QED BY <3>1, <3>2, <3>3
  <2>4. o.st = "closed" /\ o.reply = <<>>
    BY <2>3 DEF H!Refuse
  <2>5. ~AllGood
    <3> SUFFICES ASSUME AllGood PROVE FALSE
      OBVIOUS
    <3>1. H!Compatible(Here)
      BY <1>3 DEF AllGood, Here
    <3>2. PICK j \in 1..(server.try - 1) : Here.tries[j] = Here.proto
      BY <2>1, <3>1 DEF H!Compatible, Behind
    <3> QED BY <1>1, <1>2, <3>2 DEF Going
  <2> QED BY <1>9, <2>4, <2>5
<1>11. CASE Asked = Here.proto
  <2>1. ReadRight(a)
    <3>1. a = H!Scan(H!Reads(Here.proto, server.phase), hsbuf.up)
      BY <1>11 DEF a
    <3> QED BY <1>1, <1>11, <3>1, ReadsRight
  <2>2. o = H!Accepts(Here.proto, Here, server.phase, server.user, a.got)
    BY <1>11, <2>1 DEF o, ReadRight
  <2>3. Refused(Here, o) \/ GoneOn(Here, server.phase, o) \/ LetIn(Here, server.phase, o)
    BY <2>1, <2>2 DEF ReadRight
  <2>4. CASE Refused(Here, o)
    <3>1. o.st = "closed" /\ ~AllGood
      BY <1>3, <2>4 DEF Refused, AllGood, Here
    <3>2. CASE o.reply = <<>>
      BY <1>9, <3>1, <3>2
    <3>3. CASE Here.proto \in {"http", "ws", "cfp"} /\ o.reply = H!Unauthorized
      <4>1. UpTo(hops)[server.hop] <= SentUp
        <5>1. Want(Here, server.phase) = Len(Text(Here))
          BY <3>3 DEF Want
        <5>2. UpTo(hops)[server.hop] = Begun + Want(Here, server.phase)
          BY <1>3, <5>1 DEF HopAt, Here, Begun
        <5> QED BY <2>1, <5>2 DEF ReadRight
      <4>2. server'.st = "closed" /\ UNCHANGED <<hops, client, admitted>> /\ ~AllGood'
        BY <1>1, <1>6, <1>7, <3>1 DEF AllGood
      <4> DEFINE x == H!After(hsbuf.up, a.at)
      <4>3. hsbuf' = [up |-> x, down |-> hsbuf.down] /\ wire' = [up |-> wire.up, down |-> wire.down \o H!Unauthorized]
        BY <1>4, <1>5, <3>3
      <4> HIDE DEF x
      <4> QED BY <1>1, <1>11, <3>3, <4>1, <4>2, <4>3, ReadDenies
    <3> QED BY <2>4, <3>2, <3>3 DEF Refused
  <2>5. CASE GoneOn(Here, server.phase, o)
    <3>1. o.st = "read"
      BY <2>5 DEF GoneOn
    <3>2. server'.st = "read" /\ UNCHANGED <<hops, client, admitted, why>>
      BY <1>1, <1>6, <3>1
    <3> QED BY <1>1, <1>4, <1>5, <1>6, <1>11, <2>1, <2>5, <3>2, ReadGoesOn
  <2>6. CASE LetIn(Here, server.phase, o)
    <3>1. o.st = "dial"
      BY <2>6 DEF LetIn
    <3>2. server'.st = "dial" /\ admitted' = Append(admitted, [dest |-> o.dest, user |-> o.user])
      BY <1>1, <1>6, <3>1
    <3> QED BY <1>1, <1>4, <1>5, <1>6, <1>7, <1>11, <2>1, <2>6, <3>2, ReadAdmits
  <2> QED BY <2>3, <2>4, <2>5, <2>6
<1> QED BY <1>10, <1>11

(* The server reaches the destination, or does not.                        *)
LEMMA ReachKeeps ==
  ASSUME Fine(hops), HsInv, HsInv', PeerInv, H!Reach
  PROVE  PeerInv'
<1>1. PeerShape /\ Learned /\ UpFlow /\ DownFlow /\ Admitted /\ Aligned /\ AllAsAsked /\ Going
  BY DEF PeerInv
<1>2. server.hop \in 1..Len(hops) /\ HopAt(hops, server.hop) /\ HopFine(Here) /\ server.st = "dial" /\ Asked = Here.proto
  BY <1>1, HereIs DEF H!Reach, Learned
<1>3. hops' = hops /\ hsbuf' = hsbuf /\ client' = client /\ admitted' = admitted
  BY DEF H!Reach
<1>4. SentUp' = SentUp /\ HeardDown' = HeardDown
  BY <1>3 DEF SentUp, HeardDown, Mine
<1>5. Admitted' /\ Aligned' /\ AllAsAsked'
  BY <1>1, <1>3, GatesKept
<1>6. wire = [up |-> wire.up, down |-> wire.down] /\ server = [hop |-> server.hop, try |-> server.try, phase |-> server.phase, user |-> server.user, st |-> server.st]
  BY <1>1 DEF PeerShape, HsInv, HsShape
<1> DEFINE p == H!Connected(Here.proto)
           k == Len(p)
           i == server.hop
           t == SentDown
           u == DownTo(hops)[i]
<1>7. /\ k \in Nat /\ k <= Len(Reply(Here)) /\ Len(Reply(Here)) \in Nat /\ IsPart(p, Reply(Here), Len(Reply(Here)) - k, Len(Reply(Here)))
      /\ t = u - k /\ u \in Nat /\ IsList(p) /\ i \in Nat /\ Len(hops) \in Nat
  BY <1>2, ConnectedIs DEF SentDown, HopAt
<1>8. IsPart(p, Down(hops), t, u)
  <2> DEFINE to == Len(Reply(Here))
             from == to - k
  <2>1. /\ i \in 1..Len(hops) /\ DownTo(hops)[i - 1] \in Nat /\ Reply(hops[i]) = Reply(Here) /\ u = DownTo(hops)[i - 1] + to
    BY <1>2 DEF Here, HopAt
  <2>2. IsPart(p, Reply(hops[i]), from, to) /\ to <= Len(Reply(hops[i])) /\ to \in Nat
    BY <1>7, <2>1
  <2> HIDE DEF p, k, i, t, u, to
  <2>3. from \in Nat /\ t = DownTo(hops)[i - 1] + from
    BY <1>7, <2>1 DEF to
  <2> HIDE DEF from
  <2> QED BY <2>1, <2>2, <2>3, DownPart
<1> HIDE DEF p, k, t
<1>9. CASE server.hop < Len(hops) /\ wire' = [wire EXCEPT !["down"] = @ \o p]
           /\ server' = [hop |-> server.hop + 1, try |-> 1, phase |-> "request", user |-> H!None, st |-> "guess"]
           /\ UNCHANGED why
  <2>1. wire'.up = wire.up /\ wire'.down = wire.down \o p /\ wire' = [up |-> wire'.up, down |-> wire'.down]
    BY <1>6, <1>9
  <2> DEFINE q == i + 1
  <2>2. server'.hop = q /\ server'.try = 1 /\ server'.st = "guess"
    BY <1>9
  <2>3. q - 1 = i
    BY <1>7
  <2> HIDE DEF q
  <2>4. ReadUp = UpTo(hops)[i] /\ ReadUp' = UpTo(hops)[i] /\ SentDown' = u
    BY <1>2, <1>3, <2>2, <2>3 DEF ReadUp, SentDown
  <2>5. UpFlow'
    BY <1>1, <1>2, <1>3, <1>4, <2>1, <2>4, UpKept
  <2>6. Learned'
    <3>1. Alone(Here', 1)
      BY DEF Alone
    <3> QED BY <2>2, <3>1 DEF Learned
  <2>7. DownFlow'
    <3>1. VouchedNow'
      <4>1. (Fine(hops) /\ HsInv /\ Learned => VouchedNow)'
        BY VouchedIs, PTL
      <4>2. Fine(hops)'
        BY <1>3
      <4> QED BY <2>6, <4>1, <4>2
    <3>2. IsPart(p, Down(hops), SentDown, SentDown') /\ SentDown' \in Nat
      BY <1>7, <1>8, <2>4 DEF t
    <3> QED BY <1>1, <1>2, <1>3, <2>1, <2>2, <3>1, <3>2, AnswerKeeps
  <2>8. Going'
    <3>1. AllGood' => AllGood
      BY <1>3, <1>9 DEF AllGood
    <3>2. \A j \in 1..(1 - 1) : FALSE
      OBVIOUS
    <3> QED BY <1>1, <1>3, <2>2, <3>1, <3>2 DEF Going
  <2>9. PeerShape'
    BY <1>1, <1>3, <2>1 DEF PeerShape, Mine
  <2> QED BY <1>5, <2>5, <2>6, <2>7, <2>8, <2>9 DEF PeerInv
<1>10. CASE server.hop = Len(hops) /\ wire' = [wire EXCEPT !["down"] = @ \o (p \o Back)]
            /\ server' = [server EXCEPT !.st = "relay"] /\ UNCHANGED why
  <2>1. wire'.up = wire.up /\ wire'.down = wire.down \o (p \o Back) /\ wire' = [up |-> wire'.up, down |-> wire'.down]
    BY <1>6, <1>10
  <2>2. server'.hop = i /\ server'.try = server.try /\ server'.st = "relay"
    BY <1>6, <1>10
  <2>3. ReadUp = UpTo(hops)[i] /\ ReadUp' = UpTo(hops)[i] /\ SentDown' = Len(Down(hops)) /\ Here' = Here /\ Asked' = Asked
    BY <1>2, <1>3, <2>2 DEF ReadUp, SentDown, Here, Asked
  <2>4. UpFlow'
    BY <1>1, <1>2, <1>3, <1>4, <2>1, <2>3, UpKept
  <2>5. Learned'
    BY <1>2, <1>3, <1>10, <2>2, <2>3 DEF Learned
  <2>6. DownFlow'
    <3>1. VouchedNow'
      <4>1. (Fine(hops) /\ HsInv /\ Learned => VouchedNow)'
        BY VouchedIs, PTL
      <4>2. Fine(hops)'
        BY <1>3
      <4> QED BY <2>5, <4>1, <4>2
    <3> DEFINE v == Len(Down(hops))
    <3>2. v \in Nat /\ IsPart(Back, Down(hops), u, v)
      BY <1>10, Ends
    <3> HIDE DEF u, v
    <3>3. IsPart(p \o Back, Down(hops), t, v)
      <4> DEFINE all == Down(hops)
      <4>1. IsPart(p, all, t, u) /\ t \in Nat /\ u \in Nat
        <5>1. t \in Nat
          BY <1>1, <1>2, ServerIsAt DEF ServerAt, t
        <5> QED BY <1>7, <1>8, <5>1
      <4> HIDE DEF all
      <4>2. IsPart(Back, all, u, v)
        BY <3>2 DEF all
      <4>3. IsPart(p \o Back, all, t, v)
        BY <3>2, <4>1, <4>2, PartsJoin
      <4> QED BY <4>3 DEF all
    <3>4. IsPart(p \o Back, Down(hops), SentDown, SentDown') /\ SentDown' \in Nat
      BY <2>3, <3>2, <3>3 DEF t, v
    <3> QED BY <1>1, <1>2, <1>3, <2>1, <2>2, <3>1, <3>4, AnswerKeeps
  <2>7. PeerShape' /\ Going'
    BY <1>1, <1>3, <1>10, <2>1, <2>2 DEF PeerShape, Mine, Going, AllGood
  <2> QED BY <1>5, <2>4, <2>5, <2>6, <2>7 DEF PeerInv
<1>11. CASE server' = [server EXCEPT !.st = "closed"] /\ why' = why \union {"unreachable"} /\ UNCHANGED wire
  <2>1. server'.st = "closed" /\ ~AllGood' /\ UNCHANGED <<hops, wire, hsbuf, client, admitted>>
    BY <1>3, <1>6, <1>11 DEF AllGood
  <2> QED BY <1>2, <2>1, ServerCloses
<1> QED BY <1>2, <1>9, <1>10, <1>11 DEF H!Reach, H!Sends, p, Here, Asked

-----------------------------------------------------------------------------
(* The invariant holds.                                                    *)

(* The invariant at the start, and at every step.                          *)
LEMMA PeerInit == H!ChainTypeOK /\ H!HopsOK /\ H!Init => PeerInv
<1> SUFFICES ASSUME H!ChainTypeOK, H!HopsOK, H!Init PROVE PeerInv
  OBVIOUS
<1>1. /\ hops \in Chain /\ wire = [up |-> <<>>, down |-> <<>>] /\ hsbuf = wire
      /\ client = [hop |-> 1, round |-> 1, st |-> "say"]
      /\ server = [hop |-> 1, try |-> 1, phase |-> "request", user |-> H!None, st |-> "guess"]
      /\ admitted = <<>> /\ why = {}
  BY DEF H!Init
<1>2. Fine(hops)
  BY <1>1, ChainIsFine
<1>3. /\ wire.up = <<>> /\ wire.down = <<>> /\ hsbuf.up = <<>> /\ hsbuf.down = <<>> /\ client.hop = 1 /\ client.round = 1 /\ client.st = "say"
      /\ server.hop = 1 /\ server.try = 1 /\ server.st = "guess"
  BY <1>1
<1>4. Len(hops) \in Nat \ {0} /\ 1 \in 1..Len(hops)
  BY <1>2 DEF Fine
<1>5. UpTo(hops)[0] = 0 /\ DownTo(hops)[0] = 0
  BY <1>2, Ends
<1>6. SentUp = 0 /\ HeardDown = 0 /\ ReadUp = 0 /\ SentDown = 0
  <2> DEFINE z == 1 - 1
  <2>1. z = 0
    OBVIOUS
  <2>2. Asking(Mine, 1) = 0 /\ Answer(Mine, 1) = 0
    BY DEF Asking, Answer
  <2> HIDE DEF z
  <2>3. SentUp = UpTo(hops)[z] + 0 /\ HeardDown = DownTo(hops)[z] + 0 /\ ReadUp = UpTo(hops)[z] /\ SentDown = DownTo(hops)[z]
    BY <1>3, <2>2 DEF SentUp, HeardDown, ReadUp, SentDown, z
  <2> QED BY <1>5, <2>1, <2>3
<1>7. PeerShape
  <2>1. 1 \in 1..Turns(Mine)
    BY TurnsAre
  <2>2. wire = [up |-> wire.up, down |-> wire.down] /\ hsbuf = [up |-> hsbuf.up, down |-> hsbuf.down]
        /\ client = [hop |-> client.hop, round |-> client.round, st |-> client.st]
    BY <1>1
  <2> QED BY <1>3, <1>4, <2>1, <2>2 DEF PeerShape
<1>8. Learned
  <2>1. \A j \in 1..(1 - 1) : FALSE
    OBVIOUS
  <2> QED BY <1>3, <2>1 DEF Learned, Alone
<1>9. UpFlow
  <2>1. Stream(<<>>, <<>>, Up(hops), 0, 0)
    BY StreamStarts
  <2> QED BY <1>3, <1>6, <2>1 DEF UpFlow
<1>10. DownFlow
  <2>1. Stream(<<>>, <<>>, Down(hops), 0, 0)
    BY StreamStarts
  <2>2. VouchedNow
    <3>1. HsInv
      BY HsInit
    <3> QED BY <1>2, <1>8, <3>1, VouchedIs
  <2>3. Answering(0)
    BY <1>3, <1>6, <2>1, <2>2 DEF Answering, VouchedNow
  <2> QED BY <2>3 DEF DownFlow
<1>11. \A i \in 1..Len(hops) : ~PassedBy(i) /\ ~(client.round > 1)
  BY <1>3, <1>4 DEF PassedBy
<1>12. Admitted /\ Aligned
  BY <1>11 DEF Admitted, Aligned
<1>13. AllAsAsked
  <2>1. Len(admitted) = 0 /\ \A i \in 1..0 : FALSE
    BY <1>1, NothingIs
  <2> QED BY <2>1 DEF AllAsAsked
<1>14. Going
  <2>1. \A j \in 1..(1 - 1) : FALSE
    OBVIOUS
  <2> QED BY <1>3, <2>1 DEF Going
<1> QED BY <1>7, <1>8, <1>9, <1>10, <1>12, <1>13, <1>14 DEF PeerInv

(* Every step of the handshakes keeps the invariant.                       *)
LEMMA PeerStep ==
  H!ChainTypeOK /\ H!HopsOK /\ HsInv /\ HsInv' /\ PeerInv /\ [H!Next]_(H!vars) => PeerInv'
<1> SUFFICES ASSUME H!ChainTypeOK, H!HopsOK, HsInv, HsInv', PeerInv, [H!Next]_(H!vars) PROVE PeerInv'
  OBVIOUS
<1>1. Fine(hops)
  BY ChainIsFine DEF HsInv, HsShape
<1>2. CASE \E d \in {"up", "down"} : H!Arrive(d)
  BY <1>2, ArriveKeeps
<1>3. CASE H!Say
  BY <1>1, <1>3, SayKeeps
<1>4. CASE H!Hear
  BY <1>1, <1>4, HearKeeps
<1>5. CASE H!Guess
  BY <1>1, <1>5, GuessKeeps
<1>6. CASE H!Read
  BY <1>1, <1>6, ReadKeeps
<1>7. CASE H!Reach
  BY <1>1, <1>7, ReachKeeps
<1>8. CASE H!MeetEnd
  BY <1>8, MeetEndKeeps
<1>9. CASE H!TimesOut
  BY <1>9, TimesOutKeeps
<1>10. CASE UNCHANGED H!vars
  <2>1. UNCHANGED <<hops, wire, hsbuf, client, server, admitted, why>>
    BY <1>10 DEF H!vars
  <2>2. ReadUp' = ReadUp /\ SentUp' = SentUp /\ HeardDown' = HeardDown /\ SentDown' = SentDown
    BY <2>1 DEF ReadUp, SentUp, HeardDown, SentDown, Here, Asked, Mine
  <2>3. UpFlow' /\ DownFlow' /\ Learned' /\ Admitted' /\ Aligned' /\ AllAsAsked'
    BY <2>1, <2>2, UpKept, DownKept, LearnedKept, GatesKept DEF PeerInv
  <2> QED BY <2>1, <2>3 DEF PeerInv, PeerShape, Mine, Going, AllGood, Here
<1> QED BY <1>2, <1>3, <1>4, <1>5, <1>6, <1>7, <1>8, <1>9, <1>10 DEF H!Next

(* What the invariant says of the three properties.                        *)
LEMMA AgreeFromInv == H!ChainTypeOK /\ HsInv /\ PeerInv => PeersAgree
<1> SUFFICES ASSUME H!ChainTypeOK, HsInv, PeerInv PROVE PeersAgree
  OBVIOUS
<1>1. H!OnlyUsers /\ IsList(admitted)
  BY DEF HsInv, HsShape
<1>2. DOMAIN admitted = 1..Len(admitted)
  BY <1>1, ListIs
<1>3. ASSUME NEW i \in DOMAIN admitted
      PROVE  /\ admitted[i].dest = IF hops[i].proto = "socks4" THEN H!Resolved(hops[i].dest) ELSE hops[i].dest
             /\ hops[i].users # {} /\ hops[i].proto # "tunnel" => admitted[i].user = hops[i].auth
  BY <1>2, <1>3 DEF PeerInv, AllAsAsked, AsAsked
<1>4. DOMAIN hops = 1..Len(hops)
  BY ChainIsList DEF HsInv, HsShape
<1>5. ASSUME NEW i \in DOMAIN hops, H!Passed(i), hops[i].proto \in H!Answered PROVE Len(admitted) >= i
  BY <1>4, <1>5 DEF PeerInv, Admitted, PassedBy, H!Passed
<1> QED BY <1>1, <1>3, <1>5 DEF PeersAgree, H!PeersAgree

(* The invariant leaves no byte of a handshake behind when the two sides   *)
(* are connected.                                                          *)
LEMMA SeamFromInv == H!HopsOK /\ H!ChainTypeOK /\ HsInv /\ PeerInv => NothingAtTheSeam
<1> SUFFICES ASSUME H!HopsOK, H!ChainTypeOK, HsInv, PeerInv PROVE NothingAtTheSeam
  OBVIOUS
<1>1. Fine(hops)
  BY ChainIsFine DEF HsInv, HsShape
<1>2. PeerShape /\ Learned /\ UpFlow /\ DownFlow /\ ClientAt /\ ServerAt
  BY <1>1, ClientIsAt, ServerIsAt DEF PeerInv
<1> DEFINE n == Len(hops)
<1>3. /\ UpTo(hops)[n] \in Nat /\ IsPart(Payload, Up(hops), UpTo(hops)[n], Len(Up(hops)))
      /\ DownTo(hops)[n] \in Nat /\ IsPart(Back, Down(hops), DownTo(hops)[n], Len(Down(hops))) /\ n \in Nat /\ n \in 0..n
  BY <1>1, Ends DEF Fine
<1>4. ASSUME server.st = "relay" PROVE hsbuf.up \o wire.up = IF client.st = "connected" THEN Payload ELSE <<>>
  <2>1. Stream(hsbuf.up, wire.up, Up(hops), UpTo(hops)[n], SentUp)
    <3>1. ReadUp = UpTo(hops)[server.hop] /\ server.hop = n
      BY <1>2, <1>4 DEF ReadUp, Learned
    <3> QED BY <1>2, <1>4, <3>1 DEF UpFlow
  <2>2. CASE client.st = "connected"
    <3>1. SentUp = Len(Up(hops))
      BY <1>2, <2>2 DEF ClientAt
    <3> HIDE DEF n
    <3>2. hsbuf.up \o wire.up = Payload
      BY <1>3, <2>1, <3>1, StreamHolds
    <3> QED BY <2>2, <3>2
  <2>3. CASE client.st # "connected"
    <3>1. SentUp <= UpTo(hops)[client.hop] /\ client.hop \in 1..n /\ client.hop \in 0..n /\ client.hop <= n
      BY <1>2, <1>3, <2>3 DEF ClientAt, PeerShape
    <3>2. UpTo(hops)[client.hop] <= UpTo(hops)[n] /\ UpTo(hops)[client.hop] \in Nat
      BY <1>1, <1>3, <3>1, InOrder
    <3>3. SentUp \in Nat
      BY <1>2 DEF ClientAt
    <3> HIDE DEF n
    <3>4. SentUp <= UpTo(hops)[n]
      BY <1>3, <3>1, <3>2, <3>3
    <3>5. hsbuf.up \o wire.up = <<>>
      BY <2>1, <3>4, StreamEmpty
    <3> QED BY <2>3, <3>5
  <2> QED BY <2>2, <2>3
<1>5. ASSUME client.st = "connected", server.st # "closed" PROVE hsbuf.down \o wire.down = IF server.st = "relay" THEN Back ELSE <<>>
  <2>1. Stream(hsbuf.down, wire.down, Down(hops), DownTo(hops)[n], SentDown)
    <3>1. PICK e \in Nat : Answering(e)
      BY <1>2, <1>5 DEF DownFlow, Unauthorizing, Silent
    <3>2. HeardDown = DownTo(hops)[n] /\ e = SentDown
      BY <1>2, <1>5, <3>1 DEF ClientAt, Answering
    <3> QED BY <3>1, <3>2 DEF Answering
  <2>2. CASE server.st = "relay"
    <3>1. SentDown = Len(Down(hops))
      BY <1>2, <2>2 DEF ServerAt
    <3> HIDE DEF n
    <3>2. hsbuf.down \o wire.down = Back
      BY <1>3, <2>1, <3>1, StreamHolds
    <3> QED BY <2>2, <3>2
  <2>3. CASE server.st # "relay"
    <3>1. server.st \in {"guess", "read", "dial"} /\ server.hop \in 1..n
      BY <1>1, <1>5, <2>3, HereIs DEF HsInv, HsShape
    <3>2. SentDown <= DownTo(hops)[server.hop] /\ SentDown \in Nat
      BY <1>2, <3>1 DEF ServerAt
    <3>3. server.hop \in 0..n /\ server.hop <= n
      BY <1>3, <3>1
    <3>4. DownTo(hops)[server.hop] <= DownTo(hops)[n] /\ DownTo(hops)[server.hop] \in Nat
      BY <1>1, <1>3, <3>3, InOrder
    <3> HIDE DEF n
    <3>5. SentDown <= DownTo(hops)[n]
      BY <1>3, <3>2, <3>4
    <3>6. hsbuf.down \o wire.down = <<>>
      BY <2>1, <3>5, StreamEmpty
    <3> QED BY <2>3, <3>6
  <2> QED BY <2>2, <2>3
<1> QED BY <1>4, <1>5 DEF NothingAtTheSeam, H!NothingAtTheSeam

-----------------------------------------------------------------------------
(* Two sides that fit.                                                     *)

(* What is missing when an end waits and nothing is on its way.            *)
Lacking ==
  /\ Fine(hops) /\ HsInv /\ PeerInv /\ AllGood /\ wire.up = <<>> /\ wire.down = <<>>

(* When nothing is on its way, what one side has said is what the other    *)
(* has got.                                                                *)
LEMMA NothingUnderWay ==
  ASSUME Lacking
  PROVE  /\ client.st # "failed" /\ server.st # "closed" /\ PeerShape /\ Learned /\ ClientAt /\ ServerAt
         /\ IsList(hsbuf.up) /\ Len(hsbuf.up) \in Nat /\ ReadUp \in Nat /\ SentUp = ReadUp + Len(hsbuf.up)
         /\ Stream(hsbuf.up, wire.up, Up(hops), ReadUp, SentUp)
         /\ IsList(hsbuf.down) /\ Len(hsbuf.down) \in Nat /\ SentDown = HeardDown + Len(hsbuf.down)
         /\ \E e \in Nat : Answering(e)
<1>1. client.st # "failed" /\ server.st # "closed" /\ PeerShape /\ Learned /\ UpFlow /\ DownFlow /\ HsInv /\ Fine(hops)
  BY DEF Lacking, PeerInv, Going
<1>2. ClientAt /\ ServerAt
  BY <1>1, ClientIsAt, ServerIsAt
<1>3. PICK e \in Nat : Answering(e)
  BY <1>1 DEF DownFlow, Unauthorizing, Silent
<1>4. Stream(hsbuf.up, wire.up, Up(hops), ReadUp, SentUp)
  BY <1>1 DEF UpFlow
<1>5. Stream(hsbuf.down, wire.down, Down(hops), HeardDown, SentDown)
  BY <1>1, <1>3 DEF Answering
<1>6. Len(wire.up) = 0 /\ Len(wire.down) = 0
  BY NothingIs DEF Lacking
<1>7. \A x, y, v \in Nat : x + y + 0 = v => v = x + y
  OBVIOUS
<1>8. IsList(hsbuf.up) /\ Len(hsbuf.up) \in Nat /\ ReadUp \in Nat /\ SentUp = ReadUp + Len(hsbuf.up)
  <2>1. IsList(hsbuf.up) /\ Len(hsbuf.up) \in Nat /\ ReadUp \in Nat /\ SentUp \in Nat /\ ReadUp + Len(hsbuf.up) + 0 = SentUp
    BY <1>4, <1>6 DEF Stream
  <2> QED BY <1>7, <2>1
<1>9. IsList(hsbuf.down) /\ Len(hsbuf.down) \in Nat /\ SentDown = HeardDown + Len(hsbuf.down)
  <2>1. IsList(hsbuf.down) /\ Len(hsbuf.down) \in Nat /\ HeardDown \in Nat /\ SentDown \in Nat /\ HeardDown + Len(hsbuf.down) + 0 = SentDown
    BY <1>5, <1>6 DEF Stream
  <2> QED BY <1>7, <2>1
<1> QED BY <1>1, <1>2, <1>3, <1>4, <1>8, <1>9

(* A client that waits lacks a part of its answer.                         *)
LEMMA AnswerMissing ==
  ASSUME Lacking, H!ClientWaits
  PROVE  /\ client.st = "hear" /\ Answer(Mine, client.round + 1) \in Nat /\ Answer(Mine, client.round + 1) <= Len(Reply(Mine))
         /\ SentDown < DownTo(hops)[client.hop - 1] + Answer(Mine, client.round + 1)
<1>1. Fine(hops) /\ PeerInv /\ PeerShape /\ HsInv
  BY DEF Lacking, PeerInv
<1>2. client.st = "hear" /\ H!Scan(Hears(Mine, Round(Mine, client.round)), hsbuf.down).st = "more"
  BY DEF H!ClientWaits, Mine, Hears, Round
<1>3. /\ client.hop \in 1..Len(hops) /\ HopFine(Mine) /\ Listened(Mine, client.round) /\ HopAt(hops, client.hop)
  BY <1>1, MineIs
<1>4. Matching(Mine)
  <2>1. H!Compatible(Mine)
    BY <1>3 DEF Lacking, AllGood, Mine
  <2> QED BY <1>3, <2>1, CompatibleMatches
<1>5. Heard(Mine, client.round, hsbuf.down)
  <2>1. PICK e \in Nat : Answering(e)
    BY NothingUnderWay
  <2> QED BY <1>1, <1>2, <2>1, HearsAnswer
<1> DEFINE x == Answer(Mine, client.round)
           y == Answer(Mine, client.round + 1)
           b == Len(hsbuf.down)
           z == DownTo(hops)[client.hop - 1]
<1>6. ~(y - x <= b)
  BY <1>2, <1>4, <1>5 DEF Heard
<1>7. x \in Nat /\ y \in Nat /\ z \in Nat /\ b \in Nat /\ y <= Len(Reply(Mine))
  BY <1>3, NothingUnderWay DEF Listened, HopAt
<1>8. SentDown = z + x + b
  <2>1. HeardDown = z + x
    BY <1>2 DEF HeardDown
  <2>2. SentDown = HeardDown + b
    BY NothingUnderWay
  <2> QED BY <2>1, <2>2
<1>9. SentDown < z + y
  <2> HIDE DEF x, y, b, z
  <2> QED BY <1>6, <1>7, <1>8
<1> QED BY <1>2, <1>7, <1>9

(* A server that waits has read nothing of its client, or lacks a part of  *)
(* what it wrote.                                                          *)
LEMMA TextMissing ==
  ASSUME Lacking, H!ServerWaits
  PROVE  \/ /\ server.st = "guess" /\ Here.proto # "tunnel" /\ SentUp = UpTo(hops)[server.hop - 1]
            /\ SentDown = DownTo(hops)[server.hop - 1]
         \/ /\ server.st = "read" /\ Ready(Here, server.phase, server.user)
            /\ Want(Here, server.phase) \in Nat /\ Want(Here, server.phase) <= Len(Text(Here))
            /\ SentUp < UpTo(hops)[server.hop - 1] + Want(Here, server.phase)
            /\ Told(Here, Here.proto, server.phase) \in Nat
            /\ SentDown = DownTo(hops)[server.hop - 1] + Told(Here, Here.proto, server.phase)
<1>1. Fine(hops) /\ PeerInv /\ PeerShape /\ HsInv /\ Learned /\ Going /\ AllGood
  BY DEF Lacking, PeerInv
<1>2. /\ server.hop \in 1..Len(hops) /\ HopAt(hops, server.hop) /\ HopFine(Here) /\ server.try \in 1..Len(Here.tries)
      /\ TriesFine(Here) /\ Asked \in H!Protocol
  BY <1>1, HereIs
<1>3. H!Compatible(Here) /\ Matching(Here)
  <2>1. H!Compatible(Here)
    BY <1>1, <1>2 DEF AllGood, Here
  <2> QED BY <1>2, <2>1, CompatibleMatches
<1>4. CASE server.st = "guess" /\ H!MarkSize(Asked, Here) > 0 /\ hsbuf.up = <<>>
  <2>1. ReadUp = UpTo(hops)[server.hop - 1] /\ SentDown = DownTo(hops)[server.hop - 1]
    BY <1>4 DEF ReadUp, SentDown
  <2>2. SentUp = ReadUp
    <3>1. Len(hsbuf.up) = 0 /\ ReadUp \in Nat /\ SentUp = ReadUp + Len(hsbuf.up)
      BY <1>4, NothingIs, NothingUnderWay
    <3> QED BY <3>1
  <2>3. Here.proto # "tunnel"
    <3> SUFFICES ASSUME Here.proto = "tunnel" PROVE FALSE
      OBVIOUS
    <3>1. Here.tries[1] = "tunnel"
      BY <1>2 DEF HopAt, Here, H!ToldApart
    <3>2. server.try = 1
      <4>1. \A j \in 1..(server.try - 1) : Here.tries[j] # Here.proto
        BY <1>1, <1>4 DEF Going
      <4>2. server.try # 1 => 1 \in 1..(server.try - 1)
        BY <1>2 DEF TriesFine
      <4> QED BY <3>1, <4>1, <4>2
    <3>3. Asked = "tunnel"
      BY <3>1, <3>2 DEF Asked
    <3>4. H!MarkSize(Asked, Here) = 0
      BY <1>2, <3>3, MarkIs
    <3> QED BY <1>4, <3>4
  <2> QED BY <1>4, <2>1, <2>2, <2>3
<1>5. CASE server.st = "read" /\ H!Scan(H!Reads(Asked, server.phase), hsbuf.up).st = "more"
  <2>1. Asked = Here.proto
    <3> SUFFICES ASSUME Asked # Here.proto PROVE FALSE
      OBVIOUS
    <3>1. Behind(Here, server.try)
      BY <1>1, <1>5 DEF Learned
    <3>2. PICK j \in 1..(server.try - 1) : Here.tries[j] = Here.proto
      BY <1>3, <3>1 DEF H!Compatible, Behind
    <3> QED BY <1>1, <1>5, <3>2 DEF Going
  <2>2. Ready(Here, server.phase, server.user)
    BY <1>1, <1>5, <2>1 DEF Learned
  <2> DEFINE f == UpTo(hops)[server.hop - 1]
             k == Eaten(Here, Here.proto, server.phase)
             m == Want(Here, server.phase)
             b == Len(hsbuf.up)
  <2>3. k \in Nat /\ m \in Nat /\ k <= m /\ m <= Len(Text(Here)) /\ f \in Nat /\ b \in Nat
    BY <1>2, <2>2, EatenIs, NothingUnderWay DEF HopAt
  <2>4. ReadUp = f + k /\ SentUp = f + k + b
    <3>1. ReadUp = f + k
      BY <1>5, <2>1 DEF ReadUp
    <3>2. SentUp = ReadUp + b
      BY NothingUnderWay
    <3> QED BY <3>1, <3>2
  <2>5. Agrees(hsbuf.up, Text(Here), k)
    <3> DEFINE g == ReadUp
               i == server.hop
    <3>1. Stream(hsbuf.up, wire.up, Up(hops), g, SentUp) /\ g = UpTo(hops)[i - 1] + k /\ i \in 1..Len(hops)
      BY <1>2, <2>4, NothingUnderWay
    <3> HIDE DEF g, i, k, f
    <3>2. Agrees(hsbuf.up, Text(hops[i]), k)
      BY <1>1, <2>3, <3>1, UpAgrees
    <3> QED BY <3>2 DEF i, Here
  <2>6. Understood(Here, server.phase, server.user, hsbuf.up)
    <3>1. Here.proto = "socks5" /\ server.phase = "request" /\ Here.users = {} /\ Here.auth # H!None => Len(hsbuf.up) = 0
      BY <1>3 DEF Matching
    <3> QED BY <1>2, <2>2, <2>5, <3>1, Understands
  <2>7. ~(m - k <= b)
    BY <1>5, <2>1, <2>6 DEF Understood
  <2>8. SentUp < f + m
    <3> HIDE DEF f, k, m, b
    <3> QED BY <2>3, <2>4, <2>7
  <2>9. Told(Here, Here.proto, server.phase) \in Nat /\ SentDown = DownTo(hops)[server.hop - 1] + Told(Here, Here.proto, server.phase)
    BY <1>2, <1>5, <2>1, ToldIs DEF SentDown
  <2> QED BY <1>5, <2>2, <2>3, <2>8, <2>9
<1> QED BY <1>4, <1>5 DEF H!ServerWaits, Here, Asked

(* With sides that fit nobody fails, and when nothing is on its way nobody *)
(* waits: a server that has not heard enough is one whose client still has *)
(* something to say, and the other way round.                              *)
LEMMA MeetFromInv == H!HopsOK /\ H!ChainTypeOK /\ HsInv /\ PeerInv => CompatibleMeet
<1> SUFFICES ASSUME H!HopsOK, H!ChainTypeOK, HsInv, PeerInv, why = {}, \A i \in DOMAIN hops : H!Compatible(hops[i])
             PROVE  /\ client.st # "failed" /\ server.st # "closed"
                    /\ (H!ClientWaits \/ client.st = "connected") /\ (H!ServerWaits \/ server.st = "relay") /\ wire.up = <<>> /\ wire.down = <<>>
                         => client.st = "connected" /\ server.st = "relay"
  BY DEF CompatibleMeet, H!CompatibleMeet
<1>1. Fine(hops)
  BY ChainIsFine DEF HsInv, HsShape
<1>2. AllGood
  BY <1>1 DEF AllGood, Fine
<1>3. client.st # "failed" /\ server.st # "closed"
  BY <1>2 DEF PeerInv, Going
<1> SUFFICES ASSUME H!ClientWaits \/ client.st = "connected", H!ServerWaits \/ server.st = "relay", wire.up = <<>>, wire.down = <<>>
             PROVE  client.st = "connected" /\ server.st = "relay"
  BY <1>3
<1>4. Lacking
  BY <1>1, <1>2 DEF Lacking
<1>5. PeerShape /\ Learned /\ ClientAt /\ ServerAt
  BY <1>4, NothingUnderWay
<1>6. /\ server.hop \in 1..Len(hops) /\ client.hop \in 1..Len(hops) /\ HopAt(hops, server.hop) /\ HopAt(hops, client.hop)
      /\ HopFine(Here) /\ HopFine(Mine) /\ client.round \in 1..Turns(Mine) /\ Spoken(Mine, client.round)
  BY <1>1, <1>5, HereIs, MineIs
<1> DEFINE s == server.hop
           k == client.hop
           n == Len(hops)
           U(i) == UpTo(hops)[i]
           D(i) == DownTo(hops)[i]
           x == Asking(Mine, client.round + 1)
           y == Answer(Mine, client.round + 1)
           m == Want(Here, server.phase)
           w == Told(Here, Here.proto, server.phase)
<1>7. s \in Nat /\ k \in Nat /\ n \in Nat /\ s \in 1..n /\ k \in 1..n /\ SentUp \in Nat /\ SentDown \in Nat
  BY <1>5, <1>6 DEF HopAt, ClientAt, ServerAt
<1>8. /\ U(s - 1) \in Nat /\ U(s) \in Nat /\ Len(Text(Here)) \in Nat /\ U(s) = U(s - 1) + Len(Text(Here))
      /\ D(s - 1) \in Nat /\ D(s) \in Nat
      /\ U(k - 1) \in Nat /\ D(k - 1) \in Nat /\ D(k) \in Nat /\ Len(Reply(Mine)) \in Nat /\ D(k) = D(k - 1) + Len(Reply(Mine))
  BY <1>6 DEF HopAt, Here, Mine
<1>9. /\ n \in 0..n /\ D(n) \in Nat /\ Len(Down(hops)) \in Nat /\ D(n) <= Len(Down(hops))
      /\ U(n) \in Nat /\ Len(Up(hops)) \in Nat /\ U(n) <= Len(Up(hops))
  <2>1. /\ D(n) \in Nat /\ Len(Back) \in Nat /\ Len(Down(hops)) = D(n) + Len(Back)
        /\ U(n) \in Nat /\ Len(Payload) \in Nat /\ Len(Up(hops)) = U(n) + Len(Payload)
    BY <1>1, Ends
  <2>2. \A i, j, l \in Nat : l = i + j => i <= l /\ l \in Nat
    OBVIOUS
  <2>3. n \in 0..n
    BY <1>7
  <2> QED BY <2>1, <2>2, <2>3
(* How the hops of the two ends lie.                                       *)
<1>10. k < s => D(k) <= D(s - 1)
  <2> SUFFICES ASSUME k < s PROVE D(k) <= D(s - 1)
    OBVIOUS
  <2>1. k \in 0..n /\ s - 1 \in 0..n /\ k <= s - 1
    BY <1>7
  <2> QED BY <1>1, <2>1, InOrder
<1>11. s < k => U(s) <= U(k - 1)
  <2> SUFFICES ASSUME s < k PROVE U(s) <= U(k - 1)
    OBVIOUS
  <2>1. s \in 0..n /\ k - 1 \in 0..n /\ s <= k - 1
    BY <1>7
  <2> QED BY <1>1, <2>1, InOrder
<1>12. U(s) <= U(n) /\ D(k) <= D(n)
  <2>1. s \in 0..n /\ k \in 0..n /\ s <= n /\ k <= n /\ n \in 0..n
    BY <1>7
  <2> QED BY <1>1, <2>1, InOrder
(* What each end has said and heard, and what it lacks.                    *)
<1>13. ASSUME H!ClientWaits
       PROVE  /\ y \in Nat /\ y <= Len(Reply(Mine)) /\ SentDown < D(k - 1) + y /\ SentDown < D(k)
              /\ x \in Nat /\ SentUp = U(k - 1) + x /\ U(k - 1) <= SentUp /\ (Mine.proto # "tunnel" => x >= 2)
  <2>1. client.st = "hear" /\ y \in Nat /\ y <= Len(Reply(Mine)) /\ SentDown < D(k - 1) + y
    BY <1>4, <1>13, AnswerMissing
  <2>2. SentUp = U(k - 1) + x
    BY <2>1 DEF SentUp
  <2>3. x \in Nat /\ (Mine.proto # "tunnel" => x >= 2)
    BY <1>6 DEF Spoken
  <2> HIDE DEF s, k, n, U, D, x, y
  <2>4. SentDown < D(k)
    BY <1>7, <1>8, <2>1
  <2>5. U(k - 1) <= SentUp
    BY <1>7, <1>8, <2>2, <2>3
  <2> QED BY <2>1, <2>2, <2>3, <2>4, <2>5
<1>14. client.st = "connected" => U(s) <= SentUp
  <2> SUFFICES ASSUME client.st = "connected" PROVE U(s) <= SentUp
    OBVIOUS
  <2>1. SentUp = Len(Up(hops))
    BY <1>5 DEF ClientAt
  <2> HIDE DEF s, k, n, U, D
  <2> QED BY <1>8, <1>9, <1>12, <2>1
<1>15. CASE server.st = "relay"
  <2> SUFFICES ASSUME H!ClientWaits PROVE FALSE
    BY <1>15
  <2>1. SentDown = Len(Down(hops))
    BY <1>5, <1>15 DEF ServerAt
  <2>2. SentDown < D(k)
    BY <1>13
  <2> HIDE DEF s, k, n, U, D
  <2>3. D(k) \in Nat /\ D(n) \in Nat /\ SentDown \in Nat /\ D(k) <= D(n) /\ D(n) <= SentDown
    BY <1>7, <1>8, <1>9, <1>12, <2>1
  <2> QED BY <2>2, <2>3
<1>16. CASE /\ server.st = "guess" /\ Here.proto # "tunnel" /\ SentUp = U(s - 1) /\ SentDown = D(s - 1)
  <2>1. U(s - 1) < U(s)
    <3>1. Len(Text(Here)) >= 2
      BY <1>6, <1>16, TextIsFine DEF TextFine
    <3> HIDE DEF s, k, n, U, D
    <3> QED BY <1>8, <3>1
  <2>2. H!ClientWaits
    <3>1. client.st # "connected"
      <4> HIDE DEF s, k, n, U, D
      <4> QED BY <1>8, <1>14, <1>16, <2>1
    <3> QED BY <3>1
  <2>3. CASE k = s
    <3>1. x >= 2 /\ x \in Nat /\ SentUp = U(s - 1) + x
      BY <1>13, <1>16, <2>2, <2>3 DEF Here, Mine
    <3>2. FALSE
      <4> HIDE DEF s, k, n, U, D, x
      <4> QED BY <1>8, <1>16, <3>1
    <3> QED BY <3>2
  <2>4. CASE k < s
    <3>1. SentDown < D(k)
      BY <1>13, <2>2
    <3>2. FALSE
      <4> HIDE DEF s, k, n, U, D
      <4> QED BY <1>7, <1>8, <1>10, <1>16, <2>4, <3>1
    <3> QED BY <3>2
  <2>5. CASE s < k
    <3>1. U(k - 1) <= SentUp
      BY <1>13, <2>2
    <3>2. FALSE
      <4> HIDE DEF s, k, n, U, D
      <4> QED BY <1>7, <1>8, <1>11, <1>16, <2>1, <2>5, <3>1
    <3> QED BY <3>2
  <2> QED BY <1>7, <2>3, <2>4, <2>5
<1>17. CASE /\ server.st = "read" /\ Ready(Here, server.phase, server.user) /\ m \in Nat /\ m <= Len(Text(Here))
            /\ SentUp < U(s - 1) + m /\ w \in Nat /\ SentDown = D(s - 1) + w
  <2>1. SentUp < U(s)
    <3>1. \A a, b, c, d, e \in Nat : a < b + c /\ c <= d /\ e = b + d => a < e
      OBVIOUS
    <3>2. /\ SentUp \in Nat /\ U(s - 1) \in Nat /\ m \in Nat /\ Len(Text(Here)) \in Nat /\ U(s) \in Nat
          /\ SentUp < U(s - 1) + m /\ m <= Len(Text(Here)) /\ U(s) = U(s - 1) + Len(Text(Here))
      BY <1>7, <1>8, <1>17
    <3> HIDE DEF s, k, n, U, D, m
    <3> QED BY <3>1, <3>2
  <2>2. H!ClientWaits
    <3>1. client.st # "connected"
      <4> HIDE DEF s, k, n, U, D
      <4> QED BY <1>7, <1>8, <1>14, <2>1
    <3> QED BY <3>1
  <2>3. CASE k = s
    <3>1. Mine = Here
      BY <2>3 DEF Mine, Here
    <3>2. SentUp = U(s - 1) + x /\ SentDown < D(s - 1) + y /\ x \in Nat /\ y \in Nat
      BY <1>13, <2>2, <2>3
    <3>3. x < m
      <4> HIDE DEF s, k, n, U, D, x, m
      <4> QED BY <1>8, <1>17, <3>2
    <3>4. Answer(Here, client.round + 1) <= w
      <4>1. Matching(Here)
        <5>1. H!Compatible(Here)
          BY <1>2, <1>6 DEF AllGood, Here
        <5> QED BY <1>6, <5>1, CompatibleMatches
      <4>2. client.round \in 1..Turns(Here) /\ Asking(Here, client.round + 1) < Want(Here, server.phase)
        BY <1>6, <3>1, <3>3
      <4> QED BY <1>6, <1>17, <4>1, <4>2, NeitherFirst
    <3>5. y <= w
      BY <3>1, <3>4
    <3>6. FALSE
      <4> HIDE DEF s, k, n, U, D, y, w
      <4> QED BY <1>8, <1>17, <3>2, <3>5
    <3> QED BY <3>6
  <2>4. CASE k < s
    <3>1. SentDown < D(k)
      BY <1>13, <2>2
    <3>2. FALSE
      <4>1. \A a, b, c, d \in Nat : ~(a = b + c /\ a < d /\ d <= b)
        OBVIOUS
      <4>2. SentDown \in Nat /\ D(s - 1) \in Nat /\ w \in Nat /\ D(k) \in Nat /\ SentDown = D(s - 1) + w
        BY <1>7, <1>8, <1>17
      <4>3. D(k) <= D(s - 1)
        BY <1>10, <2>4
      <4> HIDE DEF s, k, n, U, D, w
      <4> QED BY <3>1, <4>1, <4>2, <4>3
    <3> QED BY <3>2
  <2>5. CASE s < k
    <3>1. U(k - 1) <= SentUp
      BY <1>13, <2>2
    <3>2. FALSE
      <4> HIDE DEF s, k, n, U, D
      <4> QED BY <1>7, <1>8, <1>11, <2>1, <2>5, <3>1
    <3> QED BY <3>2
  <2> QED BY <1>7, <2>3, <2>4, <2>5
<1>18. CASE H!ServerWaits
  BY <1>4, <1>16, <1>17, <1>18, TextMissing
<1> QED BY <1>15, <1>18

(* For any chain of hops and however the bytes are cut: whoever a server   *)
(* admits goes where its own client asked to go and, if the server has     *)
(* users, is the user that client named; and a client that checks the      *)
(* answer goes on only when it was let in. (accept of registry.py; guess,  *)
(* accept and connect of socks.py, http.py and protocols/websocket.py)     *)
THEOREM PeersAlwaysAgree == H!Spec => []PeersAgree
<1> USE ChainAssumption, HopsAssumption
<1> QED BY HsInit, HsStep, PeerInit, PeerStep, AgreeFromInv, PTL DEF H!Spec

(* When both ends are through, what is left in the two streams is what the *)
(* relay starts with: no byte of a handshake is relayed, and none of the   *)
(* payload was read by one. (registry.accept, rollback, and                *)
(* prepare_connection through a chain)                                     *)
THEOREM NoByteAtTheSeam == H!Spec => []NothingAtTheSeam
BY ChainAssumption, HopsAssumption, HsInit, HsStep, PeerInit, PeerStep, SeamFromInv, PTL DEF H!Spec

(* Two sides configured alike at every hop come together, unless a read    *)
(* timed out, the destination was unreachable or a guess saw too little:   *)
(* neither refuses the other, and they are never both waiting.             *)
(* (registry.accept, rollback, and accept and connect of every protocol)   *)
THEOREM CompatibleSidesMeet == H!Spec => []CompatibleMeet
BY ChainAssumption, HopsAssumption, HsInit, HsStep, PeerInit, PeerStep, MeetFromInv, PTL DEF H!Spec
=============================================================================
