SPECIFICATION Spec
CONSTANTS
  p1 = p1
  p2 = p2
  k1 = k1
  k2 = k2
  k3 = k3
  k4 = k4
  k5 = k5
  w1 = w1
  w2 = w2
  g1 = g1
  g2 = g2
  NoWorker = NoWorker
  Keys = {k1}
  WorkerIds = {w1, w2}
  Procs = {p1, p2}
  WorkerID <- DistinctIds
  Partition <- Unsharded
  Shared = TRUE
  Callers = {g1, g2}
  Modes <- AllModesInUse
  Pair <- PagesShareAHost
  Budget = 0
  BatchSize = 1
  Seeds = {k1}
  MaxClaims = 3
  MaxAttempts = 2
SYMMETRY AlikeCallers
INVARIANTS
  TypeOK
  LeaseDiscipline
  RetryBudget
  ClaimDiscipline
PROPERTIES
  LiveClaimStands
  FailCountsOnce
  ImplementsWorkQueue
