CONSTANTS
  Routes <- MCRoutes
  Searches <- MCSearches
  NoRoute = NoRoute
  ExtraPenalty = 1
  MaxActive = 4
  MaxIterations = 3
  Budget = 6
  MaxAnswer = 3
  Candidates <- MCCandidates
  Span = 24000
  Settings <- MCSettings
  MaxProbes = 8
  MaxPool = 3
  MaxUnroutable = 0
  MaxOutages = 0
  Calls = {c1, c2, c3}
  Limit = 3
  MaxLease = 2
  MaxUnits = 1
  Resolvers = {"auto"}
  BreakerThreshold = 2
  MaxBreakdowns = 0
SPECIFICATION EngineSpec
INVARIANTS
  StopsOnlyForOutage
CHECK_DEADLOCK FALSE
