CONSTANTS
  Calls = {c1, c2}
  Endpoints = {router, geocoder}
  Budgeted = {router}
  MaxRetries = 1
  Threshold = 2
  MaxConcurrency = 1
  RateLimit = 1
  MaxBudget = 2
  OpenFor = 1
  MaxCooldown = 1
SPECIFICATION FairSpec
INVARIANTS
  TypeOK
  BulkheadExact
  EgressWithinGrant
  SingleProbe
PROPERTIES
  CallsReturn
