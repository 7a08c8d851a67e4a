CONSTANTS
  Stream = {s1, s2}
  MAX_STREAM_BUFFER = 2
  INITIAL_WINDOW = 1
  MaxWindow = 1
  Amount = {1}
SPECIFICATION MCSpec
CHECK_DEADLOCK FALSE
INVARIANTS WrittenIsSent
