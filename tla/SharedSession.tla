--------------------------- MODULE SharedSession ---------------------------
(***************************************************************************)
(* What a session that several requests share promises them: there is one  *)
(* connection at a time, from its first step until the last of it is gone; *)
(* whoever asks while it is made waits for that one; its fate is decided   *)
(* once and answers all who wait, alike and together; and a request that   *)
(* gives up takes no other with it.                                        *)
(***************************************************************************)
CONSTANTS Caller, Conn, None

VARIABLES
  life,     \* "making", "up", "ending" while it is closed, "down" otherwise
  stands,   \* "waiting" for the connection, "served" with it, "refused"
  on        \* the connection this is about

vars == <<life, stands, on>>

Init ==
  /\ life = [g \in Conn |-> "down"]
  /\ stands = [c \in Caller |-> "idle"] /\ on = [c \in Caller |-> None]

WaitFor(c, g) ==
  /\ stands[c] = "idle"
  /\ stands' = [stands EXCEPT ![c] = "waiting"] /\ on' = [on EXCEPT ![c] = g]

(* A new connection, where no other is left and nobody speaks of it yet.   *)
Begin(c, g) ==
  /\ \A h \in Conn : life[h] = "down"
  /\ \A d \in Caller : on[d] # g
  /\ life' = [life EXCEPT ![g] = "making"]
  /\ WaitFor(c, g)

Join(c, g) == life[g] = "making" /\ WaitFor(c, g) /\ UNCHANGED life

(* The answer, to everybody who waits.                                     *)
Answered(g, st) ==
  /\ stands' = [c \in Caller |-> IF on[c] = g /\ stands[c] = "waiting" THEN st ELSE stands[c]]
  /\ UNCHANGED on

Establish(g) ==
  /\ life[g] = "making" /\ life' = [life EXCEPT ![g] = "up"]
  /\ Answered(g, "served")

Refuse(g) ==
  /\ life[g] = "making" /\ \E l \in {"ending", "down"} : life' = [life EXCEPT ![g] = l]
  /\ Answered(g, "refused")

End(g) ==
  /\ \/ life[g] = "up" /\ \E l \in {"ending", "down"} : life' = [life EXCEPT ![g] = l]
     \/ life[g] = "ending" /\ life' = [life EXCEPT ![g] = "down"]
  /\ UNCHANGED <<stands, on>>

(* A request goes on with its answer, or gives up before it has one.       *)
Leave(c) ==
  /\ stands[c] # "idle"
  /\ stands' = [stands EXCEPT ![c] = "idle"] /\ on' = [on EXCEPT ![c] = None]
  /\ UNCHANGED life

Next ==
  \/ \E c \in Caller : Leave(c) \/ \E g \in Conn : Begin(c, g) \/ Join(c, g)
  \/ \E g \in Conn : Establish(g) \/ Refuse(g) \/ End(g)

Spec == Init /\ [][Next]_vars
=============================================================================
