CONSTANTS
  c1 = c1
  c2 = c2
  token = token
  url = url
  None = None
  Shells = {s1}
  Configs = {c1, c2}
  Manifests = {m1}
  Declares <- MCDeclares
  MaxSource = 1
  Holds <- MCHolds
  CacheSlots = 1
  Caching = TRUE
  MaxDeaths = 1
  Bundles = {"absent", "sound", "refused"}
SPECIFICATION FairSpec
INVARIANTS
  OnlyApproved
  CacheNotBehind
  MarkerNotAheadUnlessAgain
PROPERTIES
  NeverBack
  Settles
  FailsClosed
