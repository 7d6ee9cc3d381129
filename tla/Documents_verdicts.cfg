SPECIFICATION Spec
CONSTANTS
  acme = acme
  www = www
  other = other
  tool = tool
  agent = agent
  Domains = {acme, www, other}
  Registrable <- Site
  Names = {tool, agent}
  Docs <- MCDocs
  Results <- MCResults
  MaxHarvested = 1
CHECK_DEADLOCK FALSE
INVARIANTS
  StrictIsStricter
  VerdictIsRight
  NoDefectTwice
  RightRow
