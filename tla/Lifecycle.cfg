CONSTANTS
  Workers = {w1, w2}
  Keys = {k1}
  NoWorker = NoWorker
  MaxConcurrent = 2
  MaxPerKey = 2
  Deployments <- BothStores
SPECIFICATION FairSpec
INVARIANTS
  TypeOK
  AdmissionExact
  NoDanglingCancel
  RunningIsCancellable
  OneTerminalEvent
  OpenIsTracked
PROPERTIES
  NoResurrection
  ImplementsResource
  EverySearchCloses
  SlotsComeBack
