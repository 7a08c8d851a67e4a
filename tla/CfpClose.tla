------------------------------ MODULE CfpClose ------------------------------
(* graceful_close() of the CFP client: a channel that ended cleanly asks   *)
(* the worker to close, waits for its Close for a limited time and closes  *)
(* the transport.  Several callers, a worker that may answer, stop reading *)
(* or vanish, a cancellation at every await, and close() from outside.     *)
EXTENDS FiniteSets, Naturals

CONSTANTS Caller

VARIABLES
  at,       \* the await a caller is at
  holder,   \* close_lock: who has it, if anybody
  heard,    \* close_event: the Close of the worker has been decoded
  link,     \* the transport: "open", "closing" or "lost"
  blocked,  \* the write buffer is above its mark and the worker does not read
  asked,    \* control frames written
  skipped   \* callers cancelled before they had the lock

vars == <<at, holder, heard, link, blocked, asked, skipped>>

Inside == {"drain", "control", "wait", "last"}

Init ==
  /\ at = [c \in Caller |-> "idle"] /\ holder = {}
  /\ heard = FALSE /\ link = "open" /\ blocked = FALSE /\ asked = 0 /\ skipped = {}

(* raw_close() in the finally clause, and the lock is let go.              *)
Over(c) ==
  /\ at' = [at EXCEPT ![c] = "done"] /\ holder' = {}
  /\ link' = IF link = "open" THEN "closing" ELSE link
  /\ UNCHANGED <<heard, blocked, asked, skipped>>

(* The channel of c has ended with the end of its stream.                  *)
Ask(c) ==
  /\ at[c] = "idle"
  /\ at' = [at EXCEPT ![c] = "lock"]
  /\ UNCHANGED <<holder, heard, link, blocked, asked, skipped>>

EnterUnchecked(c) ==
  /\ at[c] = "lock" /\ holder = {}
  /\ \/ heard /\ Over(c)
     \/ /\ ~heard
        /\ at' = [at EXCEPT ![c] = "drain"] /\ holder' = {c}
        /\ UNCHANGED <<heard, link, blocked, asked, skipped>>
(* The lock is free: a transport that is closing already, a worker that    *)
(* has closed, or the first drain().                                       *)
Enter(c) ==
  /\ at[c] = "lock" /\ holder = {}
  /\ \/ /\ link # "open" /\ at' = [at EXCEPT ![c] = "done"]
        /\ UNCHANGED <<holder, heard, link, blocked, asked, skipped>>
     \/ link = "open" /\ heard /\ Over(c)
     \/ /\ link = "open" /\ ~heard
        /\ at' = [at EXCEPT ![c] = "drain"] /\ holder' = {c}
        /\ UNCHANGED <<heard, link, blocked, asked, skipped>>

(* A drain() returns, or raises because the connection is gone.            *)
Drained(c) ==
  /\ at[c] \in {"drain", "control", "last"}
  /\ \/ link = "lost" /\ Over(c)
     \/ link # "lost" /\ ~blocked /\ at[c] = "last" /\ Over(c)
     \/ /\ link # "lost" /\ ~blocked /\ at[c] # "last"
        /\ at' = [at EXCEPT ![c] = IF @ = "drain" THEN "control" ELSE "wait"]
        /\ asked' = IF at[c] = "drain" THEN asked + 1 ELSE asked
        /\ UNCHANGED <<holder, heard, link, blocked, skipped>>

(* The event is set.                                                       *)
Hears(c) ==
  /\ at[c] = "wait" /\ heard
  /\ at' = [at EXCEPT ![c] = "last"]
  /\ UNCHANGED <<holder, heard, link, blocked, asked, skipped>>

TimesOutNever(c) == FALSE /\ Over(c)
(* CFP_CLOSE_TIMEOUT has passed.                                           *)
TimesOut(c) == at[c] = "wait" /\ Over(c)

(* A cancellation, which no except clause here takes.                      *)
Cancel(c) ==
  \/ at[c] \in Inside /\ Over(c)
  \/ /\ at[c] = "lock"
     /\ at' = [at EXCEPT ![c] = "done"] /\ skipped' = skipped \union {c}
     /\ UNCHANGED <<holder, heard, link, blocked, asked>>

(* The worker closes, stops reading and reads again; the connection is     *)
(* lost; the other channel or the service closes the writer.               *)
WorkerCloses == link # "lost" /\ ~heard /\ heard' = TRUE /\ UNCHANGED <<at, holder, link, blocked, asked, skipped>>
WorkerStalls == ~blocked /\ blocked' = TRUE /\ UNCHANGED <<at, holder, heard, link, asked, skipped>>
WorkerReads  == blocked /\ blocked' = FALSE /\ UNCHANGED <<at, holder, heard, link, asked, skipped>>
Lost         == link # "lost" /\ link' = "lost" /\ UNCHANGED <<at, holder, heard, blocked, asked, skipped>>
RawClose     == link = "open" /\ link' = "closing" /\ UNCHANGED <<at, holder, heard, blocked, asked, skipped>>

Next ==
  \/ \E c \in Caller : Ask(c) \/ Enter(c) \/ Drained(c) \/ Hears(c) \/ TimesOut(c) \/ Cancel(c)
  \/ WorkerCloses \/ WorkerStalls \/ WorkerReads \/ Lost \/ RawClose

Fairness == \A c \in Caller : WF_vars(Enter(c)) /\ WF_vars(Drained(c)) /\ WF_vars(Hears(c) \/ TimesOut(c))
Spec == Init /\ [][Next]_vars /\ Fairness

---------------------------------------------------------------------------
(* The worker is asked once, whoever ends and in whichever order, and a    *)
(* call that is over leaves a transport that is closing, unless it was     *)
(* cancelled while it waited for the lock.  (graceful_close)               *)
AsksOnceAndCloses ==
  /\ asked <= 1
  /\ \A c \in Caller : at[c] = "done" /\ c \notin skipped => link # "open"

(* A graceful close comes to its end whatever the worker answers, as long  *)
(* as the worker reads in the end or the connection breaks: the wait for   *)
(* its Close has a limit, the drains around it have none.                  *)
GracefulCloseEnds ==
  <>[](~blocked \/ link = "lost") => \A c \in Caller : at[c] = "lock" ~> at[c] = "done"
=============================================================================
