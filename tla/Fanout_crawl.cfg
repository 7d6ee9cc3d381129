SPECIFICATION Spec
CONSTANTS
  home = home
  nested = nested
  indexed = indexed
  hub = hub
  mirror = mirror
  card = card
  Roots = {home}
  Document <- Site
  Results <- Returns
  Referrals <- MutualReferrals
  MaxCatalogDepth = 1
  MaxReferralDepth = 1
  Workers = 2
  MaxUpsets = 1
CHECK_DEADLOCK FALSE
INVARIANTS
  FanOutUnlessHarvested
  NothingTwice
  NestingBounded
PROPERTY ComesToRest
