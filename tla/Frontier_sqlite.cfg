SPECIFICATION Spec
CONSTANTS
  p1 = p1
  p2 = p2
  k1 = k1
  k2 = k2
  k3 = k3
  k4 = k4
  k5 = k5
  w1 = w1
  w2 = w2
  g1 = g1
  g2 = g2
  NoWorker = NoWorker
  Keys = {k1, k2, k3, k4, k5}
  WorkerIds = {w1, w2}
  Procs = {p1}
  WorkerID <- DistinctIds
  Partition <- NotThePages
  Shared = FALSE
  Callers = {g1, g2}
  Modes <- AllModesInUse
  Pair <- PagesShareAHost
  Budget = 1
  BatchSize = 2
  Seeds = {k2}
  MaxClaims = 2
  MaxAttempts = 1
SYMMETRY AlikeCallersAndPages
INVARIANTS
  BudgetOvershoot
PROPERTIES
  CompletedStaysDone
  ImplementsWorkQueue
