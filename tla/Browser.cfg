CONSTANTS
  Followers = {c1, c2}
  Durable = FALSE
  Batch = 2
  MaxAttempts = 2
  MaxPollFailures = 2
  MaxStreams = 2
  MaxPerPrincipal = 1
  MaxEvents = 3
  MaxFaults = 1
  MaxSearches = 2
  MaxActs = 2
  MaxLosses = 1
SPECIFICATION BrowserSpec
INVARIANTS
  BrowserTypeOK
  SlotsExact
  ShownOnceInOrder
  ShowsWhatWasAsked
  CachedIsComplete
PROPERTIES
  FollowersLearnOutcome
  BusyEnds
  CancelIsFinal
CHECK_DEADLOCK FALSE
