CONSTANTS
  Worker = {w1, w2, w3}
  ItemDim = 2
  QueueOrder <- TwoQueues
  TypeCount = 2
  Phases = {"initialize", "survey", "deadline"}
  Budget = 1
SYMMETRY WorkerSymmetry
SPECIFICATION Spec
INVARIANTS
  TypeOK
  NoStaleTask
  WorkHasWorker
  QuitsWhenDone
