SPECIFICATION Spec
CONSTANTS
  ard = ard
  catalog = catalog
  sibling = sibling
  robots = robots
  URLs = {ard, catalog, sibling, robots}
  RobotsURL = robots
  Aliases <- TheAliases
  Agentmap = {sibling}
  Own = {ard, catalog, robots}
  Hints = {ard}
  AliasAnswers <- Publishes
  AgentmapAnswers = {"hit", "miss"}
  Documents <- TheDocuments
  Forced = FALSE
  MaxAttempts = 2
  MaxUpsets = 2
CHECK_DEADLOCK FALSE
INVARIANTS
  NoHitForgotten
PROPERTIES
  NotFoundIsFinal
  VerdictsStand
  HitsAreFetched
