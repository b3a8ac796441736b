CONSTANTS
  Workers = {w1, w2}
  Keys = {k1}
  NoWorker = NoWorker
  MaxConcurrent = 2
  MaxPerKey = 1
  Deployments <- InProcess
SPECIFICATION Spec
INVARIANTS
  DeleteCancelsContext
