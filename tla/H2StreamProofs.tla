--------------------------- MODULE H2StreamProofs ---------------------------
(***************************************************************************)
(* H2Stream for any number of streams and any sizes: its type, that no     *)
(* credit is overdrawn, that no stream waits for credit it has, and when a *)
(* send can fail.                                                          *)
(***************************************************************************)
EXTENDS H2Stream, TLAPS

IInv == TypeOK /\ NeverPastWindow /\ StarvedForAReason /\ FailsForAReason

Jobs == {"none", "new", "idle", "starved", "ended", "failed", "cancelled"}

-----------------------------------------------------------------------------
(* A step of an owner or of the peer: credit and jobs stay as they are, a  *)
(* new job apart, and no stream forgets that it was woken.                 *)
LEMMA OwnerStep ==
  ASSUME IInv, NEW s \in Stream,
         \/ RequestReceived(s) \/ Open(s) \/ SendHeaders(s) \/ Write(s) \/ Close(s)
         \/ StreamEnded(s) \/ StreamReset(s)
  PROVE  IInv'
<1>1. TypeOK /\ NeverPastWindow /\ StarvedForAReason /\ FailsForAReason
  BY DEF IInv
<1>2. /\ \/ streams' = streams /\ job' = job
         \/ streams' = streams \ {s} /\ job' = job
         \/ streams' = streams \cup {s} /\ job' = [job EXCEPT ![s] = "new"] /\ job[s] = "none"
      /\ buf' \in [Stream -> 0..MAX_STREAM_BUFFER]
      /\ closed' \in {closed, closed \cup {s}} /\ dead' \in {dead, dead \cup {s}}
      /\ woken \subseteq woken' /\ woken' \subseteq Stream
      /\ UNCHANGED <<over, credit, raised, lowered>>
      /\ headed' = headed \/ (headed' = headed \cup {s} /\ Running(s))
  <2>1. CASE RequestReceived(s) \/ Open(s)
    BY <1>1, <2>1 DEF RequestReceived, Open, GetStream, session, marks, TypeOK
  <2>4. CASE SendHeaders(s)
    BY <1>1, <2>4 DEF SendHeaders, marks, TypeOK
  <2>2. CASE Write(s)
    <3>1. PICK n \in Amount : /\ buf[s] + n <= MAX_STREAM_BUFFER
                              /\ buf' = [buf EXCEPT ![s] = @ + n]
      BY <2>2 DEF Write
    <3>2. buf[s] + n \in 0..MAX_STREAM_BUFFER
      BY <1>1, <3>1, SizeAssumption DEF TypeOK
    <3>3. buf' \in [Stream -> 0..MAX_STREAM_BUFFER]
      BY <1>1, <3>1, <3>2 DEF TypeOK
    <3> QED BY <1>1, <2>2, <3>3 DEF Write, Wake, session, marks, TypeOK
  <2>3. CASE Close(s) \/ StreamEnded(s) \/ StreamReset(s)
    BY <1>1, <2>3 DEF Close, StreamEnded, StreamReset, Closing, Wake, session, marks,
                          TypeOK
  <2> QED BY <2>1, <2>2, <2>3, <2>4
<1>3. /\ job' \in [Stream -> Jobs]
      /\ \A t \in Stream : job'[t] = job[t] \/ (t = s /\ job'[t] = "new" /\ job[t] = "none")
  BY <1>1, <1>2 DEF TypeOK, Jobs
<1>4. connWindow' = connWindow /\ window' = window
  BY <1>2 DEF credit
<1>5. TypeOK'
  BY <1>1, <1>2, <1>3, <1>4 DEF TypeOK, Jobs
<1>6. NeverPastWindow'
  BY <1>1, <1>2, <1>4 DEF NeverPastWindow
<1>7. StarvedForAReason'
  <2>1. ASSUME ~over', NEW t \in streams' \ raised', job'[t] = "starved", t \notin woken'
        PROVE  Credit(t)' <= 0
    <3>1. ~over /\ t \in streams \ raised /\ job[t] = "starved" /\ t \notin woken
      BY <1>1, <1>2, <1>3, <2>1 DEF TypeOK
    <3>2. Credit(t)' = Credit(t)
      BY <1>4 DEF Credit
    <3> QED BY <1>1, <3>1, <3>2 DEF StarvedForAReason
  <2> QED BY <2>1 DEF StarvedForAReason
<1>8. FailsForAReason'
  BY <1>1, <1>2, <1>3 DEF FailsForAReason, Headless, Running
<1> QED BY <1>5, <1>6, <1>7, <1>8 DEF IInv

(* Credit for one stream or for all: who waits for it is woken.            *)
LEMMA CreditStep ==
  ASSUME IInv, NEW n \in Amount, ConnCredit(n) \/ \E s \in Stream : StreamCredit(s, n)
  PROVE  IInv'
<1>1. TypeOK /\ NeverPastWindow /\ StarvedForAReason /\ FailsForAReason /\ n \in Nat
  BY SizeAssumption DEF IInv
<1>2. CASE ConnCredit(n)
  <2>1. TypeOK'
    BY <1>1, <1>2 DEF ConnCredit, Wake, session, marks, TypeOK
  <2>2. NeverPastWindow' /\ FailsForAReason'
    BY <1>1, <1>2 DEF ConnCredit, session, marks, TypeOK, NeverPastWindow, FailsForAReason,
                        Headless
  <2>3. StarvedForAReason'
    BY <1>1, <1>2 DEF ConnCredit, Wake, session, marks, TypeOK, StarvedForAReason
  <2> QED BY <2>1, <2>2, <2>3 DEF IInv
<1>3. ASSUME NEW s \in Stream, StreamCredit(s, n) PROVE IInv'
  <2>1. /\ window' = [window EXCEPT ![s] = @ + n] /\ Wake(streams \cap {s}, "starved")
        /\ UNCHANGED <<over, headed, streams, connWindow, buf, closed, dead, job, raised, lowered>>
    BY <1>3 DEF StreamCredit, session, marks
  <2>2. /\ window' \in [Stream -> Int] /\ window'[s] = window[s] + n /\ window[s] \in Int
        /\ \A t \in Stream : t # s => window'[t] = window[t]
    BY <1>1, <2>1 DEF TypeOK
  <2>3. TypeOK'
    BY <1>1, <2>1, <2>2 DEF Wake, TypeOK
  <2>4. NeverPastWindow'
    BY <1>1, <2>1, <2>2 DEF NeverPastWindow
  <2>5. StarvedForAReason'
    <3>1. ASSUME ~over, NEW t \in streams \ raised, job[t] = "starved", t \notin woken'
          PROVE  Credit(t)' <= 0
      <4>1. t # s /\ t \notin woken /\ t \in Stream
        BY <1>1, <2>1, <3>1 DEF Wake, TypeOK
      <4>2. Credit(t)' = Credit(t)
        BY <2>1, <2>2, <4>1 DEF Credit
      <4> QED BY <1>1, <3>1, <4>1, <4>2 DEF StarvedForAReason
    <3> QED BY <2>1, <3>1 DEF StarvedForAReason
  <2>6. FailsForAReason'
    BY <1>1, <2>1 DEF FailsForAReason, Headless
  <2> QED BY <2>3, <2>4, <2>5, <2>6 DEF IInv
<1> QED BY <1>2, <1>3

(* A change of settings: who waits is noted when it raises the windows,    *)
(* and has even less credit when it lowers them.                           *)
LEMMA SettingsStep ==
  ASSUME IInv, NEW n \in Amount, RaiseSettings(n) \/ LowerSettings(n)
  PROVE  IInv'
<1>1. TypeOK /\ NeverPastWindow /\ StarvedForAReason /\ FailsForAReason /\ n \in Nat
  BY SizeAssumption DEF IInv
<1>2. CASE RaiseSettings(n)
  <2>1. /\ window' \in [Stream -> Int]
        /\ \A s \in Stream : window'[s] = window[s] + n /\ window[s] \in Int
    BY <1>1, <1>2 DEF RaiseSettings, TypeOK
  <2>2. TypeOK'
    BY <1>1, <1>2, <2>1 DEF RaiseSettings, session, TypeOK
  <2>3. NeverPastWindow' /\ FailsForAReason'
    BY <1>1, <1>2, <2>1 DEF RaiseSettings, session, NeverPastWindow, FailsForAReason, Headless
  <2>4. StarvedForAReason'
    BY <1>1, <1>2 DEF RaiseSettings, session, StarvedForAReason, TypeOK
  <2> QED BY <2>2, <2>3, <2>4 DEF IInv
<1>3. CASE LowerSettings(n)
  <2>1. /\ window' \in [Stream -> Int]
        /\ \A s \in Stream : window'[s] = window[s] - n /\ window[s] \in Int
    BY <1>1, <1>3 DEF LowerSettings, TypeOK
  <2>2. TypeOK'
    BY <1>1, <1>3, <2>1 DEF LowerSettings, session, TypeOK
  <2>3. NeverPastWindow' /\ FailsForAReason'
    BY <1>1, <1>3, <2>1 DEF LowerSettings, session, NeverPastWindow, FailsForAReason, Headless
  <2>4. \A t \in Stream : Credit(t)' <= Credit(t)
    BY <1>1, <1>3, <2>1 DEF LowerSettings, Credit, TypeOK
  <2>5. \A t \in Stream : Credit(t) \in Int /\ Credit(t)' \in Int
    BY <1>1, <1>3, <2>1 DEF LowerSettings, Credit, TypeOK
  <2>6. StarvedForAReason'
    <3>1. ASSUME ~over, NEW t \in streams \ raised, job[t] = "starved", t \notin woken
          PROVE  Credit(t)' <= 0
      <4>1. t \in Stream /\ Credit(t) <= 0
        BY <1>1, <3>1 DEF StarvedForAReason, TypeOK
      <4> QED BY <2>4, <2>5, <4>1
    <3> QED BY <1>3, <3>1 DEF LowerSettings, session, StarvedForAReason
  <2> QED BY <2>2, <2>3, <2>6 DEF IInv
<1> QED BY <1>2, <1>3

(* A job that ends, or finds nothing to send.                              *)
LEMMA QuietJobStep ==
  ASSUME IInv, NEW s \in Stream, Exit(s) \/ Idle(s) \/ SendFails(s)
  PROVE  IInv'
<1>1. TypeOK /\ NeverPastWindow /\ StarvedForAReason /\ FailsForAReason
  BY DEF IInv
<1>2. PICK st \in {"idle", "ended", "failed"} :
        /\ job' = [job EXCEPT ![s] = st] /\ woken' = woken \ {s}
        /\ raised' \in {raised, raised \ {s}}
        /\ over' \in BOOLEAN /\ (over => over')
        /\ st = "failed" => Refuses(s)
        /\ UNCHANGED <<headed, streams, connWindow, window, buf, closed, dead, lowered>>
  BY <1>1 DEF Exit, Idle, SendFails, Raises, Ends, credit, session, marks, TypeOK
<1>3. job'[s] = st /\ \A t \in Stream : t # s => job'[t] = job[t]
  BY <1>1, <1>2 DEF TypeOK
<1>4. TypeOK'
  BY <1>1, <1>2 DEF TypeOK
<1>5. NeverPastWindow'
  BY <1>1, <1>2 DEF NeverPastWindow
<1>6. StarvedForAReason'
  <2>1. ASSUME ~over', NEW t \in streams \ raised', job'[t] = "starved", t \notin woken'
        PROVE  Credit(t)' <= 0
    <3>1. ~over /\ t \in Stream /\ t # s
      BY <1>1, <1>2, <1>3, <2>1 DEF TypeOK
    <3>2. t \notin raised /\ t \notin woken /\ job[t] = "starved"
      BY <1>2, <1>3, <2>1, <3>1
    <3>3. Credit(t)' = Credit(t)
      BY <1>2 DEF Credit
    <3> QED BY <1>1, <2>1, <3>1, <3>2, <3>3 DEF StarvedForAReason
  <2> QED BY <1>2, <2>1 DEF StarvedForAReason
<1>7. FailsForAReason'
  <2>1. st = "failed" => s \in dead \/ lowered \/ over \/ Headless(s)
    BY <1>1, <1>2 DEF Refuses, Credit, NeverPastWindow, TypeOK
  <2> QED BY <1>1, <1>2, <1>3, <2>1 DEF FailsForAReason, Headless
<1> QED BY <1>4, <1>5, <1>6, <1>7 DEF IInv

(* A job that sends what there is credit for.                              *)
LEMMA SendStep ==
  ASSUME IInv, NEW s \in Stream, Send(s)
  PROVE  IInv'
<1>1. TypeOK /\ NeverPastWindow /\ StarvedForAReason /\ FailsForAReason
  BY DEF IInv
<1>2. PICK k \in 0..buf[s] :
        /\ k = IF Credit(s) <= 0 THEN 0 ELSE IF Credit(s) < buf[s] THEN Credit(s) ELSE buf[s]
        /\ buf' = [buf EXCEPT ![s] = @ - k] /\ window' = [window EXCEPT ![s] = @ - k]
        /\ connWindow' = connWindow - k
        /\ job' = [job EXCEPT ![s] = IF k < buf[s] THEN "starved"
                                     ELSE IF s \in closed THEN "ended" ELSE "idle"]
        /\ woken' = woken \ {s} /\ raised' = raised \ {s}
        /\ UNCHANGED <<over, headed, streams, closed, dead, lowered>>
  BY DEF Send, session
<1>3. /\ k \in Nat /\ buf[s] \in Nat /\ buf[s] <= MAX_STREAM_BUFFER /\ MAX_STREAM_BUFFER \in Nat
      /\ window[s] \in Int /\ connWindow \in Int /\ Credit(s) \in Int
  BY <1>1, <1>2, SizeAssumption DEF TypeOK, Credit
<1>4. /\ window'[s] = window[s] - k /\ buf'[s] = buf[s] - k
      /\ \A t \in Stream : t # s => window'[t] = window[t] /\ job'[t] = job[t]
      /\ job'[s] = IF k < buf[s] THEN "starved" ELSE IF s \in closed THEN "ended" ELSE "idle"
  BY <1>1, <1>2 DEF TypeOK
<1>5. Credit(s)' = Credit(s) - k
  BY <1>2, <1>3, <1>4 DEF Credit
<1>6. TypeOK'
  <2>1. buf[s] - k \in 0..MAX_STREAM_BUFFER
    BY <1>2, <1>3
  <2>2. buf' \in [Stream -> 0..MAX_STREAM_BUFFER]
    BY <1>1, <1>2, <2>1 DEF TypeOK
  <2>3. window' \in [Stream -> Int] /\ connWindow' \in Int
    BY <1>1, <1>2, <1>3 DEF TypeOK
  <2> QED BY <1>1, <1>2, <2>2, <2>3 DEF TypeOK
<1>7. NeverPastWindow'
  <2>1. k = 0 \/ (k <= connWindow /\ k <= window[s])
    BY <1>2, <1>3 DEF Credit
  <2>2. connWindow' >= 0
    BY <1>1, <1>2, <1>3, <2>1 DEF NeverPastWindow
  <2>3. ASSUME NEW t \in Stream, ~lowered PROVE window'[t] >= 0
    <3>1. CASE t = s
      BY <1>1, <1>3, <1>4, <2>1, <2>3, <3>1 DEF NeverPastWindow
    <3>2. CASE t # s
      BY <1>1, <1>4, <2>3, <3>2 DEF NeverPastWindow
    <3> QED BY <3>1, <3>2
  <2> QED BY <1>2, <2>2, <2>3 DEF NeverPastWindow
<1>8. StarvedForAReason'
  <2>1. ASSUME ~over, NEW t \in streams \ raised', job'[t] = "starved", t \notin woken'
        PROVE  Credit(t)' <= 0
    <3>1. t \in Stream
      BY <1>1, <2>1 DEF TypeOK
    <3>2. CASE t = s
      BY <1>2, <1>3, <1>4, <1>5, <2>1, <3>2
    <3>3. CASE t # s
      <4>1. t \notin raised /\ t \notin woken /\ job[t] = "starved" /\ window'[t] = window[t]
        BY <1>2, <1>4, <2>1, <3>1, <3>3
      <4>2. Credit(t) <= 0 /\ window[t] \in Int
        BY <1>1, <2>1, <3>1, <4>1 DEF StarvedForAReason, TypeOK
      <4> QED BY <1>2, <1>3, <4>1, <4>2 DEF Credit
    <3> QED BY <3>2, <3>3
  <2> QED BY <1>2, <2>1 DEF StarvedForAReason
<1>9. FailsForAReason'
  BY <1>1, <1>2, <1>4 DEF FailsForAReason, Headless
<1> QED BY <1>6, <1>7, <1>8, <1>9 DEF IInv

(* The connection is over: credit only grows, and nobody's waiting is      *)
(* judged any more.                                                        *)
LEMMA TerminatedStep ==
  ASSUME IInv, Terminated
  PROVE  IInv'
<1>1. TypeOK /\ NeverPastWindow /\ FailsForAReason
  BY DEF IInv
<1>2. PICK n \in Amount \cup {0}, S \in SUBSET Stream :
        /\ connWindow' = connWindow + n
        /\ window' = [s \in Stream |-> IF s \in S THEN window[s] + n ELSE window[s]]
  BY DEF Terminated
<1>3. over' = TRUE /\ UNCHANGED <<headed, streams, buf, closed, dead, woken, job, raised, lowered>>
  BY DEF Terminated, marks
<1>4. n \in Nat
  BY SizeAssumption
<1>5. /\ window' \in [Stream -> Int] /\ connWindow' \in Int /\ connWindow' >= connWindow
      /\ \A s \in Stream : window'[s] >= window[s]
  BY <1>1, <1>2, <1>4 DEF TypeOK
<1>6. TypeOK'
  BY <1>1, <1>3, <1>5 DEF TypeOK
<1>7. NeverPastWindow'
  BY <1>1, <1>3, <1>5 DEF NeverPastWindow, TypeOK
<1>8. StarvedForAReason' /\ FailsForAReason'
  BY <1>1, <1>3 DEF StarvedForAReason, FailsForAReason
<1> QED BY <1>6, <1>7, <1>8 DEF IInv

(* The owner cancels the jobs; or nothing happens.                         *)
LEMMA ShutdownStep ==
  ASSUME IInv, Shutdown \/ UNCHANGED vars
  PROVE  IInv'
<1>1. TypeOK /\ NeverPastWindow /\ StarvedForAReason /\ FailsForAReason
  BY DEF IInv
<1>2. CASE Shutdown
  <2>1. /\ job' = [s \in Stream |-> IF Running(s) THEN "cancelled" ELSE job[s]]
        /\ woken' = {} /\ raised' = {}
        /\ UNCHANGED <<over, headed, streams, connWindow, window, buf, closed, dead, lowered>>
    BY <1>2 DEF Shutdown, session, credit
  <2>2. job' \in [Stream -> Jobs] /\ \A s \in Stream : job'[s] \in {job[s], "cancelled"}
    BY <1>1, <2>1 DEF TypeOK, Jobs
  <2>3. \A s \in Stream : job'[s] # "starved"
    BY <2>1 DEF Running
  <2>4. TypeOK'
    BY <1>1, <2>1, <2>2 DEF TypeOK, Jobs
  <2>5. NeverPastWindow'
    BY <1>1, <2>1 DEF NeverPastWindow
  <2>6. StarvedForAReason'
    BY <1>1, <2>1, <2>3 DEF StarvedForAReason, TypeOK
  <2>7. FailsForAReason'
    BY <1>1, <2>1, <2>2 DEF FailsForAReason, Headless
  <2> QED BY <2>4, <2>5, <2>6, <2>7 DEF IInv
<1>3. CASE UNCHANGED vars
  BY <1>1, <1>3 DEF vars, session, credit, marks, IInv, TypeOK, NeverPastWindow,
                    StarvedForAReason, FailsForAReason, Headless, Credit
<1> QED BY <1>2, <1>3

(* Together they are inductive.                                            *)
LEMMA Invariance == Spec => []IInv
<1>1. ASSUME Init PROVE IInv
  <2>1. INITIAL_WINDOW \in Nat /\ MAX_STREAM_BUFFER \in Nat
    BY SizeAssumption
  <2>2. buf \in [Stream -> 0..MAX_STREAM_BUFFER]
    <3>1. 0 \in 0..MAX_STREAM_BUFFER
      BY <2>1
    <3> QED BY <1>1, <3>1 DEF Init
  <2>3. TypeOK
    <3>1. window \in [Stream -> Int] /\ connWindow \in Int
      BY <1>1, <2>1 DEF Init
    <3>2. job \in [Stream -> Jobs]
      BY <1>1 DEF Init, Jobs
    <3>3. lowered \in BOOLEAN
      BY <1>1 DEF Init
    <3>4. /\ streams \subseteq Stream /\ closed \subseteq Stream /\ dead \subseteq Stream
          /\ woken \subseteq Stream /\ raised \subseteq Stream
          /\ over \in BOOLEAN /\ headed \subseteq Stream
      BY <1>1 DEF Init
    <3> QED BY <2>2, <3>1, <3>2, <3>3, <3>4 DEF TypeOK, Jobs
  <2>4. NeverPastWindow
    BY <1>1, <2>1 DEF Init, NeverPastWindow
  <2>5. StarvedForAReason /\ FailsForAReason
    BY <1>1 DEF Init, StarvedForAReason, FailsForAReason
  <2> QED BY <2>3, <2>4, <2>5 DEF IInv
<1>2. IInv /\ [Next]_vars => IInv'
  BY OwnerStep, CreditStep, SettingsStep, TerminatedStep, QuietJobStep, SendStep, ShutdownStep
     DEF Next
<1> QED BY <1>1, <1>2, PTL DEF Spec

-----------------------------------------------------------------------------
(* Every variable has its type; a write buffer never passes its limit.     *)
THEOREM TypeCorrect == Spec => []TypeOK
<1>1. IInv => TypeOK
  BY DEF IInv
<1> QED BY <1>1, Invariance, PTL

(* write_job never overdraws the credit of the connection, nor that of a   *)
(* stream unless the peer lowered it afterwards.                           *)
THEOREM CreditIsKept == Spec => []NeverPastWindow
<1>1. IInv => NeverPastWindow
  BY DEF IInv
<1> QED BY <1>1, Invariance, PTL

(* While the connection is up, no stream of the table waits for credit it  *)
(* has without having been woken, a raise by settings excepted.            *)
THEOREM NobodyStarvesInVain == Spec => []StarvedForAReason
<1>1. IInv => StarvedForAReason
  BY DEF IInv
<1> QED BY <1>1, Invariance, PTL

(* A send fails only on a connection that is over, on a stream that was    *)
(* reset or had no headers, or after the windows were lowered.             *)
THEOREM FailuresHaveReasons == Spec => []FailsForAReason
<1>1. IInv => FailsForAReason
  BY DEF IInv
<1> QED BY <1>1, Invariance, PTL
=============================================================================
