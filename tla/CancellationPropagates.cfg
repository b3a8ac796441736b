CONSTANTS
  MaxSearches = 2
  MaxActs = 0
  MaxLosses = 0
SPECIFICATION HookFairSpec
PROPERTIES
  CancellationPropagates
CHECK_DEADLOCK FALSE
