------------------------------ MODULE H2Session ------------------------------
(***************************************************************************)
(* The one HTTP/2 connection that all requests of a ProxyH2 share (h2.py): *)
(* the future self.handshake, the caller that dials, the callers that wait *)
(* for it (wait_h2_connection), and the read loop of the connection        *)
(* (handler).  One action is what runs between two awaits.                 *)
(*                                                                         *)
(* The future is made once in the life of the proxy: whatever becomes of   *)
(* it is what every later request finds.                                   *)
(***************************************************************************)
EXTENDS Naturals

CONSTANT Caller      \* requests that need a connection

VARIABLES
  handshake,  \* self.handshake: "none" or the state of the future
  caller,     \* "dialing" awaits the TCP connection, "waiting" the future
  task,       \* handler: "reading" awaits data, "closing" wait_closed
  cancelled,  \* the registry was asked to cancel that task
  gone        \* the connection was lost, or closed by either end

vars == <<handshake, caller, task, cancelled, gone>>

Running == task \in {"scheduled", "reading", "closing"}

(* The future has someone to settle it.                                    *)
Backed == Running \/ \E c \in Caller : caller[c] = "dialing"

Init ==
  /\ handshake = "none" /\ caller = [c \in Caller |-> "idle"]
  /\ task = "none" /\ cancelled = FALSE /\ gone = FALSE

Settled(st)  == IF handshake = "pending" THEN st ELSE handshake
At(c, st)    == caller' = [caller EXCEPT ![c] = st]

-----------------------------------------------------------------------------
(* The first request makes the future and dials.                           *)
Dial(c) ==
  /\ caller[c] = "idle" /\ handshake = "none"
  /\ handshake' = "pending" /\ At(c, "dialing")
  /\ UNCHANGED <<task, cancelled, gone>>

Join(c) ==
  /\ caller[c] = "idle" /\ handshake = "pending"
  /\ At(c, "waiting")
  /\ UNCHANGED <<handshake, task, cancelled, gone>>

(* The connection is there: the read loop takes it, and the dialling       *)
(* caller waits like the others.  A future that is over answers at once.   *)
Dialed(c) ==
  /\ caller[c] = "dialing"
  /\ task' = "scheduled"
  /\ At(c, IF handshake = "pending" THEN "waiting" ELSE "idle")
  /\ UNCHANGED <<handshake, cancelled, gone>>

(* The dial fails, times out or is cancelled: the future stays as it is.   *)
DialFails(c) ==
  /\ caller[c] = "dialing" /\ At(c, "idle")
  /\ UNCHANGED <<handshake, task, cancelled, gone>>

(* The result, a stream of the connection; or the exception.               *)
Resume(c) ==
  /\ caller[c] = "waiting" /\ handshake # "pending" /\ At(c, "idle")
  /\ UNCHANGED <<handshake, task, cancelled, gone>>

(* A timeout or a cancellation of one who waits cancels everybody's future.*)
CancelWait(c) ==
  /\ caller[c] = "waiting" /\ At(c, "idle")
  /\ handshake' = Settled("cancelled")
  /\ UNCHANGED <<task, cancelled, gone>>

-----------------------------------------------------------------------------
(* The preface is written and the loop reads.                              *)
Start ==
  /\ task = "scheduled" /\ ~cancelled /\ task' = "reading"
  /\ UNCHANGED <<handshake, caller, cancelled, gone>>

(* Cancelled before its first step: no clause of the task is reached.      *)
Skip ==
  /\ task = "scheduled" /\ cancelled /\ task' = "done"
  /\ UNCHANGED <<handshake, caller, cancelled, gone>>

(* SettingsAcknowledged.                                                   *)
SettingsAcknowledged ==
  /\ task = "reading" /\ ~gone
  /\ handshake' = Settled("result")
  /\ UNCHANGED <<caller, task, cancelled, gone>>

Lost ==
  /\ task \in {"scheduled", "reading"} /\ ~gone /\ gone' = TRUE
  /\ UNCHANGED <<handshake, caller, task, cancelled>>

(* The end of the stream leaves the loop, and so does what the h2 library  *)
(* refuses, which is the error the waiters get.                            *)
SeesEnd ==
  /\ task = "reading" /\ gone /\ task' = "closing"
  /\ UNCHANGED <<handshake, caller, cancelled, gone>>

Refused ==
  /\ task = "reading" /\ ~gone /\ task' = "closing" /\ gone' = TRUE
  /\ handshake' = Settled("error")
  /\ UNCHANGED <<caller, cancelled>>

(* A cancellation leaves the loop as well; a second one, in wait_closed,   *)
(* leaves the rest of the finally clause.                                  *)
Unwind ==
  /\ cancelled /\ task \in {"reading", "closing"}
  /\ task' = IF task = "reading" THEN "closing" ELSE "done"
  /\ cancelled' = FALSE /\ gone' = TRUE
  /\ UNCHANGED <<handshake, caller>>

(* wait_closed returns, and whoever still waits is told.                   *)
Closed ==
  /\ task = "closing" /\ ~cancelled /\ task' = "done"
  /\ handshake' = Settled("error")
  /\ UNCHANGED <<caller, cancelled, gone>>

(* close(): the registry cancels the read loop.                            *)
Close ==
  /\ Running /\ ~cancelled /\ cancelled' = TRUE
  /\ UNCHANGED <<handshake, caller, task, gone>>

-----------------------------------------------------------------------------
Next ==
  \/ \E c \in Caller : \/ Dial(c) \/ Join(c) \/ Dialed(c) \/ DialFails(c)
                       \/ Resume(c) \/ CancelWait(c)
  \/ Start \/ Skip \/ SettingsAcknowledged \/ Lost \/ SeesEnd \/ Refused
  \/ Unwind \/ Closed \/ Close

(* Tasks that are ready go on; the request's timeout ends a dial.  The     *)
(* peer owes nothing, and no waiter has to give up.                        *)
Fairness ==
  /\ \A c \in Caller : WF_vars(Resume(c)) /\ WF_vars(Dialed(c) \/ DialFails(c))
  /\ WF_vars(Start \/ Skip) /\ WF_vars(SeesEnd) /\ WF_vars(Unwind) /\ WF_vars(Closed)

Spec     == Init /\ [][Next]_vars
FairSpec == Spec /\ Fairness

-----------------------------------------------------------------------------
(* Every variable has its type.                                            *)
TypeOK ==
  /\ handshake \in {"none", "pending", "result", "error", "cancelled"}
  /\ caller \in [Caller -> {"idle", "dialing", "waiting"}]
  /\ task \in {"none", "scheduled", "reading", "closing", "done"}
  /\ cancelled \in BOOLEAN /\ gone \in BOOLEAN

(* Whoever waits when the read loop ends is answered.  The exception is a  *)
(* close() that comes so early or so often that the finally clause is not  *)
(* reached to its end.                                                     *)
H2WaiterAnswered ==
  \A c \in Caller :
    caller[c] = "waiting" /\ task = "closing" /\ ~cancelled ~> caller[c] # "waiting" \/ cancelled

(* wait_h2_connection: "Reuse or establish the shared HTTP/2 connection    *)
(* handshake."  The future a request finds is not a pending one that       *)
(* nobody is left to settle, which it could neither reuse nor establish.   *)
PendingIsBacked == handshake = "pending" => Backed
=============================================================================
