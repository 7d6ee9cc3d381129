SPECIFICATION Spec
CONSTANTS
  home = home
  about = about
  blog = blog
  image = image
  hinted = hinted
  listed = listed
  hub = hub
  acme = acme
  other = other
  NoURL = NoURL
  Listing = {hub}
  Seeds = {home}
  Body <- Site
  Readable = {home, blog}
  HostOf <- SiteHosts
  MaxDepth = 2
  Budget = 2
  MaxBlocks = 2
  MaxInlineNesting = 2
  MaxCatalogDepth = 1
  Workers = 2
  MaxUpsets = 1
CHECK_DEADLOCK FALSE
INVARIANTS
  HarvestComplete
  DepthIsDistance
  UnprobedOnlyForHint
PROPERTY ComesToRest
