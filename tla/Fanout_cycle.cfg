SPECIFICATION Spec
CONSTANTS
  home = home
  nested = nested
  indexed = indexed
  hub = hub
  mirror = mirror
  card = card
  Roots = {home}
  Document <- IndexedCatalog
  Results <- ReturnsTheCatalog
  Referrals <- None
  MaxCatalogDepth = 1
  MaxReferralDepth = 1
  Workers = 2
  MaxUpsets = 0
CHECK_DEADLOCK FALSE
INVARIANT NestingBounded
