CONSTANTS
  Stream = {s1, s2}
  MAX_UDP_FLOWS = 1
SPECIFICATION Spec
CHECK_DEADLOCK FALSE
INVARIANT ForgottenAfterBothFinish
