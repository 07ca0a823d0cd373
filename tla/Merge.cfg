SPECIFICATION MergeSpec
CONSTANTS
  a1 = a1
  a2 = a2
  xlm = xlm
  Accounts = {a1, a2}
  Tokens = {xlm}
  I128_MAX = 1000000
  FULL_BPS = 10000
  MaxSchedules = 3
  MaxTime = 4
  MaxDuration = 4
  MIN_DURATION = 1
  Offers <- MergeOffers
  GradedOffers <- NoOffers
  MilestoneLists <- NoOffers
  ExtendBy = {}
  MaxCreated = 2
  MergeLists <- DistinctLists
SYMMETRY Symmetry
INVARIANTS
  GrantorIndexExact
  MergedWellFormed
PROPERTY MergeConserves
CHECK_DEADLOCK FALSE
