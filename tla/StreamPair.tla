----------------------------- MODULE StreamPair -----------------------------
(***************************************************************************)
(* What relaying one connection promises, seen from its two ends: bytes    *)
(* offered at one end come out at the other in order and at most once; an  *)
(* end that was closed receives no more; and the first end to be closed,   *)
(* unless something broke, has received everything its partner offered.    *)
(* Nothing is promised about the second one: it closes with the first.     *)
(***************************************************************************)
EXTENDS Integers

CONSTANT Socket

VARIABLES
  offered,    \* bytes each end has offered
  finished,   \* this end will offer no more
  delivered,  \* bytes each end has received
  closed,     \* this end will receive no more
  broken      \* a connection failed, or the service gave the pair up

vars == <<offered, finished, delivered, closed, broken>>

Init ==
  /\ offered = [s \in Socket |-> 0] /\ finished = [s \in Socket |-> FALSE]
  /\ delivered = [s \in Socket |-> 0] /\ closed = [s \in Socket |-> FALSE]
  /\ broken = FALSE

Offer(s) ==
  /\ ~finished[s]
  /\ offered' = [offered EXCEPT ![s] = @ + 1]
  /\ UNCHANGED <<finished, delivered, closed, broken>>

Finish(s) ==
  /\ finished' = [finished EXCEPT ![s] = TRUE]
  /\ UNCHANGED <<offered, delivered, closed, broken>>

Deliver(s, t) ==
  /\ s # t /\ ~closed[t] /\ delivered[t] < offered[s]
  /\ delivered' = [delivered EXCEPT ![t] = @ + 1]
  /\ UNCHANGED <<offered, finished, closed, broken>>

Close(s, t) ==
  /\ s # t
  /\ \/ broken
     \/ closed[s]
     \/ finished[s] /\ delivered[t] = offered[s]
  /\ closed' = [closed EXCEPT ![t] = TRUE]
  /\ UNCHANGED <<offered, finished, delivered, broken>>

Break ==
  /\ broken' = TRUE
  /\ \E T \in SUBSET Socket : closed' = [s \in Socket |-> closed[s] \/ s \in T]
  /\ UNCHANGED <<offered, finished, delivered>>

Next ==
  \/ \E s \in Socket : Offer(s) \/ Finish(s)
  \/ \E s, t \in Socket : Deliver(s, t) \/ Close(s, t)
  \/ Break

Spec == Init /\ [][Next]_vars
=============================================================================
