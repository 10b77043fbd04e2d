SPECIFICATION FairSpec
CONSTANTS
  Shopper = {s1, s2}
  Loader = Loader
  Nobody = Nobody
  S = 2
  FirstProduct = {0, 1}
  FirstNeed = {1, 2}
  Load = 1
  MaxProduct = 1
INVARIANTS
  CleanEnd
PROPERTIES
  ShopsSpec
  EndsWhenSated
