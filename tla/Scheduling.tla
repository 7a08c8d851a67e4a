----------------------------- MODULE Scheduling -----------------------------
(***************************************************************************)
(* schedule() of server/common.py: which remote of the list serves a       *)
(* request, and what the choice does to the list.  ok is the set of        *)
(* remotes that are alive and whose rule matches the request.              *)
(***************************************************************************)
EXTENDS Integers, Sequences, FiniteSets

Algorithms == {"fa", "rr", "rc", "lc"}

Members(order) == {order[i] : i \in 1..Len(order)}

NoRepeat(order) == \A i, j \in 1..Len(order) : order[i] = order[j] => i = j

(* Positions of the remotes the filter keeps, in list order.               *)
Eligible(order, ok) == {i \in 1..Len(order) : order[i] \in ok}

(* The first of a set of positions: one of them, or none when it is empty. *)
Firsts(S) == {i \in S : \A j \in S : i <= j}

(* min(..., key=connections) keeps the first of the least loaded.          *)
LeastLoaded(order, S, load) ==
  {i \in S : \A j \in S : load[order[i]] <= load[order[j]]}

(* The positions schedule() may choose; S is not empty.                    *)
Choices(alg, order, S, load) ==
  CASE alg \in {"fa", "rr"} -> Firsts(S)
    [] alg = "rc" -> S
    [] alg = "lc" -> Firsts(LeastLoaded(order, S, load))

(* rserver.append(rserver.pop(index))                                      *)
MoveToEnd(order, k) ==
  [i \in 1..Len(order) |->
     IF i < k THEN order[i]
     ELSE IF i < Len(order) THEN order[i + 1] ELSE order[k]]

RotatedNever(alg, order, k) == order

(* The list after a choice: only 'rr' rotates it.                          *)
Rotated(alg, order, k) == IF alg = "rr" THEN MoveToEnd(order, k) ELSE order
=============================================================================
