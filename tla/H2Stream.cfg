CONSTANTS
  Stream = {s1, s2}
  MAX_STREAM_BUFFER = 2
  INITIAL_WINDOW = 1
  MaxWindow = 1
  Amount = {1}
SPECIFICATION FairSpec
CHECK_DEADLOCK FALSE
INVARIANTS NeverPastWindow StarvedForAReason FailsForAReason
PROPERTIES CreditIsUsed CloseEndsJob
