SPECIFICATION Spec
CONSTANTS
  p1 = p1
  p2 = p2
  w1 = w1
  w2 = w2
  w3 = w3
  Processes <- TheProcesses
  Goroutines <- TheWorkers
  ProcessOf <- PoolOf
  Engine = "server"
  i1 = i1
  host = host
  top = top
  nested = nested
  Items <- TheItems
  Hosts <- TheHosts
  References <- TheReferences
  NoParent = {top}
  MaxStarts = 4
  MaxSaves = 4
CHECK_DEADLOCK FALSE
INVARIANTS
  NoCollision
  OpenMeansReconciled
  RegistryReused
PROPERTIES
  NoItemLost
  LockComesFree
