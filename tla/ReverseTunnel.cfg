CONSTANTS
  Worker = {w1}
  Conn = {c1, c2}
  User = {u1}
  Probe = {p1}
  FirstByte = {"zero", "data"}
  None = None
SPECIFICATION FairSpec
CHECK_DEADLOCK FALSE
INVARIANTS HandlersServeRequests HubOpenIsOwned ExitOpenIsOwned
PROPERTIES TunnelComesBack TakerSettles
