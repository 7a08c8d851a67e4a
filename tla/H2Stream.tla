------------------------------ MODULE H2Stream ------------------------------
(***************************************************************************)
(* The write side of the streams of one HTTP/2 connection (h2.py): their   *)
(* table, the buffer and the two events of each stream (get_stream), its   *)
(* write_job, and the events of the peer that reach it (_handle_event).    *)
(*                                                                         *)
(* One action is what runs between two awaits.  Data is counted in units;  *)
(* the two levels of flow control, of the connection and of a stream, are  *)
(* the h2 library's.                                                       *)
(***************************************************************************)
EXTENDS Integers

CONSTANTS
  Stream,
  MAX_STREAM_BUFFER,
  INITIAL_WINDOW,
  MaxWindow,           \* bound: the peer never grants more at one time
  Amount               \* the sizes of a write, a credit, a change of settings

ASSUME SizeAssumption ==
  /\ MAX_STREAM_BUFFER \in Nat /\ MaxWindow \in Nat
  /\ INITIAL_WINDOW \in 0..MaxWindow /\ Amount \subseteq Nat \ {0}

VARIABLES
  over,        \* the connection is closed for the h2 library
  headed,      \* streams that need no request headers of ours (any more)
  streams,     \* the table of the connection: streams the peer has not ended
  connWindow,  \* credit of the connection
  window,      \* credit of each stream, below zero when settings lowered it
  buf,         \* write_buffer
  closed,      \* streams whose writer was closed
  dead,        \* streams the peer has reset
  job,         \* write_job: "idle" awaits write_wait, "starved" write_full
  woken,       \* streams whose job awaits an event that was set
  raised,      \* starved streams whose window a change of settings raised
  lowered      \* a change of settings has lowered the windows

session == <<over, headed>>
credit  == <<connWindow, window>>
marks   == <<raised, lowered>>
vars    == <<session, streams, credit, buf, closed, dead, woken, job, marks>>

Running(s) == job[s] \in {"new", "idle", "starved"}

(* write_job clears an event right before it awaits it, so that setting it *)
(* matters when it is awaited and at no other time.                        *)
Wake(S, st) == woken' = woken \cup {s \in S : job[s] = st}

StreamCreditOnly(s) == window[s]

(* conn.local_flow_control_window                                          *)
Credit(s) == IF window[s] < connWindow THEN window[s] ELSE connWindow

(* Our side of the connection is the client's, and no stream has headers   *)
(* yet, or the server's, and streams come with theirs.                     *)
Init ==
  /\ over = FALSE /\ headed \in {{}, Stream}
  /\ streams = {} /\ connWindow = INITIAL_WINDOW
  /\ window = [s \in Stream |-> INITIAL_WINDOW] /\ buf = [s \in Stream |-> 0]
  /\ closed = {} /\ dead = {}
  /\ job = [s \in Stream |-> "none"] /\ woken = {}
  /\ raised = {} /\ lowered = FALSE

(***************************************************************************)
(* The owner of a stream.                                                  *)
(***************************************************************************)
(* get_stream, and the stream enters the table.                            *)
GetStream(s) ==
  /\ job[s] = "none"
  /\ streams' = streams \cup {s}
  /\ job' = [job EXCEPT ![s] = "new"]
  /\ UNCHANGED <<session, credit, buf, closed, dead, woken, marks>>

(* A request of the peer; at MAX_STREAMS it is reset and nothing changes.  *)
RequestReceived(s) == s \in headed /\ ~over /\ GetStream(s)

(* A request of ours: wait_open_connection begins the stream, also on a    *)
(* connection that is over, and connect() sends its headers, which the     *)
(* library refuses when it is.                                             *)
Open(s) == s \notin headed /\ GetStream(s)

SendHeaders(s) ==
  /\ ~over /\ Running(s) /\ s \notin closed \cup headed
  /\ headed' = headed \cup {s}
  /\ UNCHANGED <<over, streams, credit, buf, closed, dead, woken, job, marks>>

WriteUnheard(s) ==
  /\ Running(s) /\ s \in headed
  /\ \E n \in Amount :
       /\ buf[s] + n <= MAX_STREAM_BUFFER
       /\ buf' = [buf EXCEPT ![s] = @ + n]
  /\ UNCHANGED <<session, streams, credit, closed, dead, woken, job, marks>>

(* A write that would overrun the buffer raises and changes nothing.  One  *)
(* that comes after close() is accepted; one after the job has ended is    *)
(* accepted too, but nothing reads the buffer any more.  Nobody writes to  *)
(* a stream whose headers could not be sent.                               *)
Write(s) ==
  /\ Running(s) /\ s \in headed
  /\ \E n \in Amount :
       /\ buf[s] + n <= MAX_STREAM_BUFFER
       /\ buf' = [buf EXCEPT ![s] = @ + n]
  /\ Wake({s}, "idle")
  /\ UNCHANGED <<session, streams, credit, closed, dead, job, marks>>

ClosingUnheard(s) ==
  /\ closed' = closed \cup {s} /\ UNCHANGED woken

(* StreamWriter.close                                                      *)
Closing(s) ==
  /\ closed' = closed \cup {s} /\ Wake({s}, "idle")

Close(s) ==
  /\ job[s] # "none" /\ s \notin closed
  /\ Closing(s)
  /\ UNCHANGED <<session, streams, credit, buf, dead, job, marks>>

(***************************************************************************)
(* The peer, who speaks of streams that have headers and not after the     *)
(* connection is over.  The end of the read loop tells no stream: to a     *)
(* stream it is a peer that sends nothing any more.                        *)
(***************************************************************************)
(* StreamEnded: the peer's half is over, and ours is closed with it.       *)
StreamEnded(s) ==
  /\ ~over /\ s \in streams \cap headed
  /\ streams' = streams \ {s}
  /\ IF s \in closed THEN UNCHANGED <<closed, woken>> ELSE Closing(s)
  /\ UNCHANGED <<session, credit, buf, dead, job, marks>>

(* StreamReset, which may follow the end; the table has forgotten the      *)
(* stream then.                                                            *)
StreamReset(s) ==
  /\ ~over /\ s \in headed \ dead /\ job[s] # "none"
  /\ streams' = streams \ {s} /\ dead' = dead \cup {s}
  /\ IF s \in streams \ closed THEN Closing(s) ELSE UNCHANGED <<closed, woken>>
  /\ UNCHANGED <<session, credit, buf, job, marks>>

(* The library closes the connection: on a GOAWAY, whose event only ends   *)
(* the loop over the events of this piece, or on an error in what was      *)
(* read.  What came before the error has moved the credit and is told to   *)
(* nobody; the streams are not told either, and fail at their next send.   *)
Terminated ==
  /\ ~over /\ over' = TRUE
  /\ \E n \in Amount \cup {0}, S \in SUBSET Stream :
       /\ connWindow' = connWindow + n /\ connWindow' <= MaxWindow
       /\ \A s \in S : window[s] + n <= MaxWindow
       /\ window' = [s \in Stream |-> IF s \in S THEN window[s] + n ELSE window[s]]
  /\ UNCHANGED <<headed, streams, buf, closed, dead, woken, job, marks>>

(* WindowUpdated for one stream, which is heard if the table has it.  The  *)
(* window of a stream that is over matters to nobody.                      *)
StreamCredit(s, n) ==
  /\ ~over /\ Running(s) /\ s \in headed /\ window[s] + n <= MaxWindow
  /\ window' = [window EXCEPT ![s] = @ + n]
  /\ Wake(streams \cap {s}, "starved")
  /\ UNCHANGED <<session, streams, connWindow, buf, closed, dead, job, marks>>

ConnCreditUnheard(n) ==
  /\ ~over /\ connWindow + n <= MaxWindow
  /\ connWindow' = connWindow + n
  /\ UNCHANGED <<session, streams, window, buf, closed, dead, woken, job, marks>>

(* WindowUpdated for the connection: every stream of the table hears it.   *)
ConnCredit(n) ==
  /\ ~over /\ connWindow + n <= MaxWindow
  /\ connWindow' = connWindow + n
  /\ Wake(streams, "starved")
  /\ UNCHANGED <<session, streams, window, buf, closed, dead, job, marks>>

(* The peer changes its initial window: the h2 library moves the windows   *)
(* of all streams, and _handle_event has no branch for it.                 *)
RaiseSettings(n) ==
  /\ ~over /\ \A s \in Stream : window[s] + n <= MaxWindow
  /\ window' = [s \in Stream |-> window[s] + n]
  /\ raised' = raised \cup {s \in Stream : job[s] = "starved"}
  /\ UNCHANGED <<session, streams, connWindow, buf, closed, dead, woken, job, lowered>>

LowerSettings(n) ==
  /\ ~over /\ \A s \in Stream : window[s] >= 0
  /\ window' = [s \in Stream |-> window[s] - n]
  /\ lowered' = TRUE
  /\ UNCHANGED <<session, streams, connWindow, buf, closed, dead, woken, job, raised>>

(***************************************************************************)
(* write_job.                                                              *)
(***************************************************************************)
Ready(s) == job[s] = "new" \/ (Running(s) /\ s \in woken)

(* No headers: the stream is idle to the library, and so is the whole      *)
(* connection before its first.                                            *)
Headless(s) == s \notin headed

(* What the h2 library raises on: any frame, an empty one too, when the    *)
(* connection is closed, or for a stream that has no headers, was reset,   *)
(* or whose window is below zero.                                          *)
Refuses(s) == over \/ Headless(s) \/ s \in dead \/ Credit(s) < 0

(* A frame on a connection that has had no headers closes the connection   *)
(* for the library, unless the window was in the way before.               *)
Closes(s) == headed = {} /\ Credit(s) >= 0

Ends(s, how) ==
  /\ job' = [job EXCEPT ![s] = how] /\ woken' = woken \ {s}
  /\ raised' = raised \ {s}
  /\ over' = (over \/ Closes(s))
  /\ UNCHANGED <<headed, streams, credit, buf, closed, dead, lowered>>

(* The outer loop finds the writer closed and ends the stream, whatever    *)
(* the buffer holds.                                                       *)
Exit(s) ==
  /\ Ready(s) /\ job[s] # "starved" /\ s \in closed
  /\ Ends(s, IF Refuses(s) THEN "failed" ELSE "ended")

(* Nothing to send: clear write_wait and await it.                         *)
Idle(s) ==
  /\ Ready(s) /\ job[s] # "starved" /\ s \notin closed /\ buf[s] = 0
  /\ job' = [job EXCEPT ![s] = "idle"] /\ woken' = woken \ {s}
  /\ UNCHANGED <<session, streams, credit, buf, closed, dead, marks>>

(* The job has something to send and its turn.                             *)
Sending(s) ==
  /\ Ready(s) /\ buf[s] > 0
  /\ job[s] = "starved" \/ s \notin closed

RaisesUnmeasured(s) == (Refuses(s) \/ Credit(s) < buf[s]) /\ (Credit(s) > 0 \/ s \in closed)

(* A chunk is no larger than the credit and is sent when there is some; a  *)
(* closed writer makes the job leave the wait without any, with a chunk of *)
(* as much as there is: none, or less.                                     *)
Raises(s) == Refuses(s) /\ (Credit(s) > 0 \/ s \in closed)

SendFails(s) ==
  /\ Sending(s) /\ Raises(s)
  /\ Ends(s, "failed")

(* As much as there is credit for, in frames; then the next await.         *)
Send(s) ==
  /\ Sending(s) /\ ~Raises(s)
  /\ \E k \in 0..buf[s] :
       /\ k = IF Credit(s) <= 0 THEN 0 ELSE IF Credit(s) < buf[s] THEN Credit(s) ELSE buf[s]
       /\ buf' = [buf EXCEPT ![s] = @ - k]
       /\ window' = [window EXCEPT ![s] = @ - k]
       /\ connWindow' = connWindow - k
       /\ job' = [job EXCEPT ![s] = IF k < buf[s] THEN "starved"
                                    ELSE IF s \in closed THEN "ended" ELSE "idle"]
  /\ woken' = woken \ {s}
  /\ raised' = raised \ {s}
  /\ UNCHANGED <<session, streams, closed, dead, lowered>>

(* ProxyDirect.close cancels the jobs.                                     *)
Shutdown ==
  /\ \E s \in Stream : Running(s)
  /\ job' = [s \in Stream |-> IF Running(s) THEN "cancelled" ELSE job[s]]
  /\ woken' = {} /\ raised' = {}
  /\ UNCHANGED <<session, streams, credit, buf, closed, dead, lowered>>

-----------------------------------------------------------------------------
JobStep(s) == Exit(s) \/ Idle(s) \/ SendFails(s) \/ Send(s)

Next ==
  \/ \E s \in Stream : \/ RequestReceived(s) \/ Open(s) \/ SendHeaders(s)
                       \/ Write(s) \/ Close(s) \/ StreamEnded(s) \/ StreamReset(s)
                       \/ Exit(s) \/ Idle(s) \/ SendFails(s) \/ Send(s)
  \/ \E n \in Amount : \/ ConnCredit(n) \/ RaiseSettings(n) \/ LowerSettings(n)
                       \/ \E s \in Stream : StreamCredit(s, n)
  \/ Terminated \/ Shutdown

(* A job that is ready has its turn.  The peer owes nothing.               *)
Fairness == \A s \in Stream : WF_vars(JobStep(s))

Spec     == Init /\ [][Next]_vars
FairSpec == Spec /\ Fairness

-----------------------------------------------------------------------------
(* Every variable has its type; no buffer grows past its limit.            *)
TypeOK ==
  /\ over \in BOOLEAN /\ headed \subseteq Stream
  /\ streams \subseteq Stream /\ connWindow \in Int /\ window \in [Stream -> Int]
  /\ buf \in [Stream -> 0..MAX_STREAM_BUFFER]
  /\ closed \subseteq Stream /\ dead \subseteq Stream
  /\ job \in [Stream -> {"none", "new", "idle", "starved", "ended", "failed", "cancelled"}]
  /\ woken \subseteq Stream
  /\ raised \subseteq Stream /\ lowered \in BOOLEAN

(* write_job sends nothing the peer gave no credit for, however many       *)
(* streams share the connection's credit between two of its awaits.        *)
NeverPastWindow ==
  /\ connWindow >= 0
  /\ lowered \/ \A s \in Stream : window[s] >= 0

(* A stream that waits for credit has none, or has been told that it has.  *)
(* The exceptions are a raise by settings, which _handle_event ignores, a  *)
(* stream the peer has ended, which hears of no credit any more, and a     *)
(* connection that is over, where the last credit may have come unheard.   *)
StarvedForAReason ==
  over \/ \A s \in streams \ raised : job[s] = "starved" /\ s \notin woken => Credit(s) <= 0

(* A job whose send fails does so on a stream the peer has reset, after    *)
(* the peer lowered its windows, when the connection was over or when the  *)
(* headers of the stream were never sent: not for want of credit alone,    *)
(* although it sends chunks of no more than zero.                          *)
FailsForAReason ==
  \A s \in Stream : job[s] = "failed" => s \in dead \/ lowered \/ over \/ Headless(s)

(* Data in the buffer of an open stream goes out when there is credit for  *)
(* it: the job is never left waiting for an event that was set before.     *)
CreditIsUsed ==
  \A s \in Stream :
    s \in streams \ closed /\ buf[s] > 0 /\ Credit(s) > 0
      ~> \/ s \notin streams \ closed \/ buf[s] = 0 \/ Credit(s) <= 0
         \/ s \in raised \/ ~Running(s) \/ over

(* A job that is not waiting for credit ends when its stream is closed.    *)
CloseEndsJob ==
  \A s \in Stream : s \in closed /\ job[s] \in {"new", "idle"} ~> ~Running(s)
=============================================================================
