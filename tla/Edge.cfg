CONSTANTS
  Requests = {r1, r2, r3}
  Bodies = {a, b, x}
  Rejected = {x}
  NoBody = NoBody
  Deployments = {TRUE, FALSE}
  MaxFaults = 1
  MaxExpiries = 1
  Calls = {k1, k2}
  Kinds = {"search", "health", "stream"}
  Replicas = {e1, e2}
  MaximumConcurrent = 1
  Limits <- DoorLimits
  Window = 2
  MaxAllowFailures = 1
SPECIFICATION EdgeSpec
INVARIANTS
  EdgeTypeOK
  OneBodyUnlessFreed
  AcceptedIsOwned
  LimitSurvivesRotation
PROPERTIES
  CompletionIsFinal
  RequestsAnswered
  RefusedIsServedAgain
CHECK_DEADLOCK FALSE
