CONSTANTS
  Addr = {a1, a2}
  Assoc = {o1, o2, o3}
  NoAddr = NoAddr
  Limit = 1
  TaskLimit = 2
  MaxPackets = 5
SPECIFICATION Spec
CHECK_DEADLOCK FALSE
INVARIANT OneAssociationPerClient
