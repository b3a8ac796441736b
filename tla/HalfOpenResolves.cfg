CONSTANTS
  Calls = {c1, c2}
  Endpoints = {router}
  Budgeted = {router}
  MaxRetries = 0
  Threshold = 1
  MaxConcurrency = 1
  RateLimit = 0
  MaxBudget = 1
  OpenFor = 1
  MaxCooldown = 1
SPECIFICATION BusySpec
PROPERTIES
  HalfOpenResolves
