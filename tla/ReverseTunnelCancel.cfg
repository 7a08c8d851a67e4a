CONSTANTS
  Worker = {w1}
  Conn = {c1, c2}
  User = {u1}
  Probe = {p1}
  FirstByte = {"zero", "data"}
  None = None
SPECIFICATION Spec
CHECK_DEADLOCK FALSE
PROPERTY CancellationIsNotHidden
