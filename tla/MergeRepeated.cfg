SPECIFICATION MergeSpec
CONSTANTS
  a1 = a1
  a2 = a2
  xlm = xlm
  Accounts = {a1, a2}
  Tokens = {xlm}
  I128_MAX = 1000000
  FULL_BPS = 10000
  MaxSchedules = 2
  MaxTime = 3
  MaxDuration = 4
  MIN_DURATION = 1
  Offers <- MergeOffers
  GradedOffers <- NoOffers
  MilestoneLists <- NoOffers
  ExtendBy = {}
  MaxCreated = 2
  MergeLists <- RepeatedLists
PROPERTY MergeConserves
CHECK_DEADLOCK FALSE
