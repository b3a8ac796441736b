CONSTANTS
  Followers = {c1}
  Durable = TRUE
  Batch = 2
  MaxAttempts = 4
  MaxPollFailures = 3
  MaxStreams = 4
  MaxPerPrincipal = 4
  MaxEvents = 3
  MaxFaults = 0
SPECIFICATION Spec
INVARIANTS
  StreamBringsEvents
CHECK_DEADLOCK FALSE
