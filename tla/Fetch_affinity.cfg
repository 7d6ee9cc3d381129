SPECIFICATION Spec
CONSTANTS
  w1 = w1
  w2 = w2
  a = a
  b = b
  aPort = aPort
  aCaps = aCaps
  Workers = {w1, w2}
  Tasks = {t1, t2}
  Authorities = {a, aPort, aCaps}
  Hostname <- FleetHostname
  Lower <- FleetLower
  Machine <- FleetMachine
  Owner <- FleetOwner
  Kinds = {"page", "wellknown"}
  Sites = {a, aPort, aCaps}
  Targets = {}
  MaxRedirects = 0
  Timeout = 1
CHECK_DEADLOCK FALSE
INVARIANT OneWorkerPerHost
