----------------------------- MODULE SshSession -----------------------------
(***************************************************************************)
(* The one SSH connection that all requests of a ProxySSH share (ssh.py):  *)
(* the future self.sshconn that publishes it, the caller that connects,    *)
(* the callers that wait for it (wait_ssh_connection), the channel each of *)
(* them opens on it (wait_open_connection), and close().                   *)
(*                                                                         *)
(* One action is what runs between two awaits.  A Conn is one call of      *)
(* asyncssh.connect together with the future that was created for it.  The *)
(* caller that connects does not keep that future: whatever it does at the *)
(* end it does to the one self.sshconn holds by then.                      *)
(***************************************************************************)
EXTENDS SharedFuture

CONSTANT Caller      \* requests that need a connection

VARIABLES
  sshconn,     \* self.sshconn: a future, named after the Conn it was made for
  future,      \* the state of each future
  value,       \* the connection a future has for its result
  link,        \* the connections themselves
  caller,      \* "joining" awaits a future, "connecting" asyncssh.connect,
               \* "opening" a channel
  on,          \* the future, or the connection, a caller awaits
  calm         \* history: no caller has spoiled a session that was not its own

futures == <<sshconn, future, value>>
callers == <<caller, on>>
vars    == <<futures, link, callers, calm>>

Published == sshconn # None /\ future[sshconn] = "result"
Pending   == sshconn # None /\ future[sshconn] = "pending"

Free(g) ==
  /\ link[g] \in {"none", "down"} /\ g # sshconn
  /\ \A h \in Conn : value[h] = g => h # sshconn /\ \A c \in Caller : on[c] # h
  /\ \A c \in Caller : on[c] # g

Init ==
  /\ sshconn = None /\ future = [g \in Conn |-> "none"] /\ value = [g \in Conn |-> None]
  /\ link = [g \in Conn |-> "none"]
  /\ caller = [c \in Caller |-> "idle"] /\ on = [c \in Caller |-> None] /\ calm = TRUE

(***************************************************************************)
(* What becomes of a caller.                                               *)
(***************************************************************************)
At(c, st, g) == caller' = [caller EXCEPT ![c] = st] /\ on' = [on EXCEPT ![c] = g]
Leaves(c)    == At(c, "idle", None)

(* The published future, if there is one, gets its state.                  *)
Settles(st) == IF sshconn = None THEN future ELSE Settled(future, sshconn, st)

(* What c forgets is its own attempt or a connection that is dead.         *)
Forgets(c) ==
  \/ sshconn \in {None, on[c]} /\ ~Published
  \/ Published /\ link[value[sshconn]] # "up"

FailKeepsFuture(c) ==
  /\ sshconn' = None /\ UNCHANGED <<future, value>>
  /\ Leaves(c)
  /\ calm' = (calm /\ Forgets(c))

(* The except clause of wait_open_connection: it settles and forgets the   *)
(* future that is published now, whichever that is.                        *)
Fail(c) ==
  /\ future' = Settles("error") /\ sshconn' = None /\ UNCHANGED value
  /\ Leaves(c)
  /\ calm' = (calm /\ Forgets(c))

(* self.sshconn.result(), and open_connection on what it returns.  No      *)
(* future, a pending one and an error raise an Exception; a cancelled one  *)
(* raises CancelledError, which the except clause lets pass.               *)
UseResult(c) ==
  \/ Published /\ At(c, "opening", value[sshconn]) /\ UNCHANGED <<futures, calm>>
  \/ sshconn # None /\ future[sshconn] = "cancelled" /\ Leaves(c) /\ UNCHANGED <<futures, calm>>
  \/ ~Published /\ (sshconn # None => future[sshconn] # "cancelled") /\ Fail(c)

-----------------------------------------------------------------------------
(* The first caller, or the first after a failure, connects.               *)
Connect(c, g) ==
  /\ caller[c] = "idle" /\ Free(g)
  /\ sshconn # None => future[sshconn] = "cancelled"
  /\ sshconn' = g /\ future' = [future EXCEPT ![g] = "pending"]
  /\ value' = [value EXCEPT ![g] = None]
  /\ link' = [link EXCEPT ![g] = "dialing"]
  /\ At(c, "connecting", g)
  /\ UNCHANGED calm

Join(c) ==
  /\ caller[c] = "idle" /\ Pending
  /\ At(c, "joining", sshconn)
  /\ UNCHANGED <<futures, link, calm>>

Reuse(c) ==
  /\ caller[c] = "idle" /\ sshconn # None /\ future[sshconn] \in {"result", "error"}
  /\ UseResult(c)
  /\ UNCHANGED link

Resume(c) ==
  /\ caller[c] = "joining"
  /\ \/ future[on[c]] = "result" /\ UseResult(c)
     \/ future[on[c]] = "error" /\ Fail(c)
     \/ future[on[c]] = "cancelled" /\ Leaves(c) /\ UNCHANGED <<futures, calm>>
  /\ UNCHANGED link

(* A timeout or a cancellation of a caller that awaits the future cancels  *)
(* the future: it is the future of everybody who waits.                    *)
CancelJoin(c) ==
  /\ caller[c] = "joining"
  /\ future' = [future EXCEPT ![on[c]] = IF @ = "pending" THEN "cancelled" ELSE @]
  /\ calm' = (calm /\ future[on[c]] # "pending")
  /\ Leaves(c)
  /\ UNCHANGED <<sshconn, value, link>>

(* asyncssh.connect returns: set_result on the published future, or an     *)
(* exception when there is none to settle.                                 *)
Connected(c) ==
  /\ caller[c] = "connecting" /\ link[on[c]] = "dialing"
  /\ link' = [link EXCEPT ![on[c]] = "up"]
  /\ \/ /\ Pending
        /\ future' = Settles("result") /\ value' = [value EXCEPT ![sshconn] = on[c]]
        /\ At(c, "opening", on[c])
        /\ UNCHANGED sshconn /\ calm' = (calm /\ sshconn = on[c])
     \/ ~Pending /\ Fail(c)

ConnectFails(c) ==
  /\ caller[c] = "connecting" /\ link[on[c]] = "dialing"
  /\ link' = [link EXCEPT ![on[c]] = "down"]
  /\ Fail(c)

(* A timeout or a cancellation of the caller that connects.                *)
ConnectCancelled(c) ==
  /\ caller[c] = "connecting"
  /\ link' = [link EXCEPT ![on[c]] = "down"]
  /\ future' = Settles("cancelled") /\ sshconn' = None /\ UNCHANGED value
  /\ Leaves(c)
  /\ calm' = (calm /\ Forgets(c))

(* The channel is open: the caller has its stream, or it gave up.          *)
Opened(c) ==
  /\ caller[c] = "opening" /\ link[on[c]] = "up"
  /\ Leaves(c)
  /\ UNCHANGED <<futures, link, calm>>

OpenCancelled(c) ==
  /\ caller[c] = "opening"
  /\ Leaves(c)
  /\ UNCHANGED <<futures, link, calm>>

(* The connection is dead, or the server refuses this one channel: in both *)
(* cases what is published is forgotten.                                   *)
OpenFails(c) ==
  /\ caller[c] = "opening"
  /\ Fail(c)
  /\ UNCHANGED link

LinkLost(g) ==
  /\ link[g] = "up" /\ link' = [link EXCEPT ![g] = "down"]
  /\ UNCHANGED <<futures, callers, calm>>

(* close() ends the published connection and leaves it published; one that *)
(* is being made goes on.                                                  *)
Close ==
  /\ Published /\ link[value[sshconn]] = "up"
  /\ link' = [link EXCEPT ![value[sshconn]] = "down"]
  /\ UNCHANGED <<futures, callers, calm>>

-----------------------------------------------------------------------------
Next ==
  \/ \E c \in Caller :
       \/ \E g \in Conn : Connect(c, g)
       \/ Join(c) \/ Reuse(c) \/ Resume(c) \/ CancelJoin(c)
       \/ Connected(c) \/ ConnectFails(c) \/ ConnectCancelled(c)
       \/ Opened(c) \/ OpenFails(c) \/ OpenCancelled(c)
  \/ \E g \in Conn : LinkLost(g)
  \/ Close

(* A caller that was woken has its turn, and every request has a timeout   *)
(* (open_connection) that ends what it awaits.                             *)
Fairness ==
  \A c \in Caller :
    /\ WF_vars(Resume(c))
    /\ WF_vars(Connected(c) \/ ConnectFails(c) \/ ConnectCancelled(c))
    /\ WF_vars(Opened(c) \/ OpenFails(c) \/ OpenCancelled(c))

Spec     == Init /\ [][Next]_vars
FairSpec == Spec /\ Fairness

-----------------------------------------------------------------------------
(* Every variable has its type.                                            *)
TypeOK ==
  /\ sshconn \in Conn \cup {None}
  /\ future \in [Conn -> FutureStates]
  /\ value \in [Conn -> Conn \cup {None}]
  /\ link \in [Conn -> {"none", "dialing", "up", "down"}]
  /\ caller \in [Caller -> {"idle", "joining", "connecting", "opening"}]
  /\ on \in [Caller -> Conn \cup {None}] /\ calm \in BOOLEAN

(* The published future is worth waiting for: it is pending and the caller *)
(* it was made for is still connecting, or it has a connection, or it was  *)
(* cancelled and the next caller replaces it.  Nobody waits for a future   *)
(* that is pending and was forgotten.                                      *)
SshHandshakeIsBacked ==
  /\ sshconn # None =>
       \/ future[sshconn] = "pending"
            /\ \E c \in Caller : caller[c] = "connecting" /\ on[c] = sshconn
       \/ future[sshconn] = "result" /\ value[sshconn] # None
       \/ future[sshconn] = "cancelled"
  /\ \A c \in Caller :
       caller[c] = "joining" /\ future[on[c]] = "pending" => on[c] = sshconn

(* Every connection that is up is the published one, so that close() will  *)
(* end it, unless a caller has spoiled a session that was not its own: by  *)
(* cancelling the future others wait for, or by failing when the published *)
(* future was somebody else's.                                             *)
SshOneSession ==
  calm => \A g \in Conn : link[g] = "up" => Published /\ value[sshconn] = g

(* The two together.                                                       *)
SshSessionIsSound == SshHandshakeIsBacked /\ SshOneSession

(* Whoever waits for the connection of another caller is answered.         *)
SshWaiterAnswered == \A c \in Caller : caller[c] = "joining" ~> caller[c] # "joining"
=============================================================================
