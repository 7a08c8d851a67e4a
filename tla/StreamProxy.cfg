CONSTANTS
  r1 = r1
  r2 = r2
  h1 = h1
  h2 = h2
  Client = {c1, c2}
  Remote = {r1, r2}
  Plain = {}
  Rule <- MCRule
  Host = {h1, h2}
  Direct = Direct
  None = None
SPECIFICATION Spec
SYMMETRY Symmetry
CHECK_DEADLOCK FALSE
INVARIANTS LoadIsExact NothingLeftOpen RoundRobinFair
