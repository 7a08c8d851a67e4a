CONSTANTS
  Addr = {a1, a2, a3}
  Assoc = {o1, o2, o3}
  NoAddr = NoAddr
  Limit = 1
  TaskLimit = 2
  MaxPackets = 5
  Stacks <- MCStacks
  MaxData = 4
  PACKET_LIMIT = 2
  PluginLimit = 3
  RecordLimit = 4
  NonceLimit = 3
  PeerFrames <- MCFrames
  MaxFrames = 3
  Small = 2
  MAX_FRAME_SIZE = 5
  MAX_MESSAGE_SIZE = 3
  expect_masked = TRUE
SPECIFICATION MCSpec
SYMMETRY Symmetry
CHECK_DEADLOCK FALSE
INVARIANTS TablesAgree InOrder CalmAccounting CalmBound CalmReachable PreservedUnlessTorn CutsDoNotMatter
