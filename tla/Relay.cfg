CONSTANTS
  FromClient = 1
  FromUpstream = 4
  MaxSend <- MCMaxSend
  Chunk = 2
  Drain = 2
  High = 0
  Low = 0
  RLimit = 1
  Chain <- MCChain
  Payload <- MCPayload
  Back <- MCBack
SPECIFICATION MCSpec
CHECK_DEADLOCK FALSE
INVARIANTS WriteBufferBounded PeersAgree NothingAtTheSeam CompatibleMeet
PROPERTIES KeepsPromise OneEndStopsBoth
