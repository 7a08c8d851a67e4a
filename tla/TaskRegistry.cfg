CONSTANTS
  Task = {t1, t2, t3}
  UDP_TASK_LIMIT = 2
  r1 = r1
  h1 = h1
  Client = {c1}
  Remote = {r1, r2, r3}
  Plain = {r3}
  Host = {h1, h2}
  Direct = Direct
  None = None
  Tcp = {l1}
  Udp = {l2}
  Request = {q1, q2, q3}
  MaxLoads = 3
SPECIFICATION MCSpec
CHECK_DEADLOCK FALSE
INVARIANTS AdmissionCounts QuietAfterWait ShutdownReachesAll
PROPERTIES HealthFollowsReality StopEndsHandler InterruptIsAnswered
