CONSTANTS
  NoLoad = NoLoad
  Requests = {r1, r2}
  Loads = {l1, l2, l3}
  MaxVersion = 2
SPECIFICATION FairSpec
INVARIANTS
  CacheSound
PROPERTIES
  PagesAnswered
