CONSTANTS
  Caller = {c1, c2}
  SshCaller = {c1, c2, c3}
  SshConn = {g1, g2}
  Conn = {g1, g2, g3}
  Addr = {a1, a2}
  Stream = {s1, s2}
  MAX_UDP_FLOWS = 1
  None = None
SPECIFICATION MCSpec
CHECK_DEADLOCK FALSE
INVARIANTS HandshakeIsBacked FlowsOfOneConnection SshSessionIsSound AsksOnceAndCloses
PROPERTIES SharesOneSession EveryWaiterAnswered H3EndStopsBoth GracefulCloseEnds
