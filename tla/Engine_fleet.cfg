SPECIFICATION Spec
CONSTANTS
  p1 = p1
  p2 = p2
  root = root
  child = child
  leaf = leaf
  NoWorker = NoWorker
  Keys = {root, child, leaf}
  WorkerIds = {p1, p2}
  Procs = {p1, p2}
  Partition <- TwoShards
  Shared = TRUE
  Workers = 1
  FollowUps <- Chain
  Seeds = {root}
  MaxAttempts = 2
  MaxLapses = 0
  MaxUpsets = 1
CHECK_DEADLOCK FALSE
INVARIANTS
  EmptyMeansOver
PROPERTIES
  ImplementsWorkQueue
  ShutdownChargesNobody
  EveryRunEnds
