------------------------------ MODULE Sessions ------------------------------
(* What a request may share with others: the session of its QUIC, SSH or   *)
(* HTTP/2 remote, the streams of an HTTP/3 connection, and the close of a  *)
(* CFP stream.  The adapters share no state; here they stand side by side  *)
(* under the same question.                                                *)
EXTENDS QuicSession

CONSTANTS SshCaller, SshConn, Stream

ASSUME SshNoneAssumption == None \notin SshConn

VARIABLES
  sshconn, sshFuture, sshValue, sshLink, sshCaller, sshOn, sshCalm,
  h2Handshake, h2Caller, h2Task, h2Cancelled, h2Gone,
  server_side, h3Up, streams, phase, ended, data, eof, h3Closed, reads, writes, local, abandoned,
  at, holder, heard, cfpLink, blocked, asked, skipped

ssh == <<sshconn, sshFuture, sshValue, sshLink, sshCaller, sshOn, sshCalm>>
h2  == <<h2Handshake, h2Caller, h2Task, h2Cancelled, h2Gone>>
h3  == <<server_side, h3Up, streams, phase, ended, data, eof, h3Closed, reads, writes, local, abandoned>>
cfp == <<at, holder, heard, cfpLink, blocked, asked, skipped>>

S == INSTANCE SshSession WITH
       Caller <- SshCaller, Conn <- SshConn, future <- sshFuture, value <- sshValue, link <- sshLink,
       caller <- sshCaller, on <- sshOn, calm <- sshCalm

H == INSTANCE H2Session WITH
       handshake <- h2Handshake, caller <- h2Caller, task <- h2Task,
       cancelled <- h2Cancelled, gone <- h2Gone

T == INSTANCE H3Stream WITH up <- h3Up, closed <- h3Closed

C == INSTANCE CfpClose WITH Caller <- SshCaller, link <- cfpLink

(* The properties of the others under one roof.                            *)
SshSessionIsSound   == S!SshSessionIsSound
EveryWaiterAnswered == WaiterAnswered /\ S!SshWaiterAnswered /\ H!H2WaiterAnswered
H3EndStopsBoth      == T!H3EndStopsBoth
AsksOnceAndCloses   == C!AsksOnceAndCloses
GracefulCloseEnds   == C!GracefulCloseEnds
=============================================================================
