SPECIFICATION Spec
CONSTANTS
  w1 = w1
  w2 = w2
  a = a
  b = b
  aPort = aPort
  aCaps = aCaps
  Workers = {w1}
  Tasks = {t1, t2}
  Authorities = {a, b}
  Hostname <- Same
  Lower <- Same
  Machine <- Same
  Owner <- OneOwner
  Kinds = {"page", "agentmap", "wellknown"}
  Sites = {a}
  Targets <- SomeTargets
  MaxRedirects = 2
  Timeout = 2
CHECK_DEADLOCK FALSE
INVARIANTS
  OnePerInterval
  RobotsObeyed
PROPERTY
  EveryFetchEnds
