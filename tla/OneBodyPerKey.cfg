CONSTANTS
  Requests = {r1, r2, r3}
  Bodies = {a, b}
  Rejected = {}
  NoBody = NoBody
  Deployments = {TRUE}
  MaxFaults = 1
  MaxExpiries = 0
SPECIFICATION Spec
INVARIANTS
  OneBodyPerKey
CHECK_DEADLOCK FALSE
