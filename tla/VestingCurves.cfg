SPECIFICATION FairSpec
CONSTANTS
  a1 = a1
  a2 = a2
  Accounts = {a1, a2}
  Tokens = {xlm}
  xlm = xlm
  I128_MAX = 1000000
  FULL_BPS = 10000
  MaxSchedules = 1
  MaxTime = 6
  MaxDuration = 5
  MIN_DURATION = 1
  Offers <- CurveOffers
  GradedOffers <- CurveGraded
  MilestoneLists <- PercentLists
  ExtendBy = {2}
INVARIANTS
  TypeOK
  ClaimedWithinVested
  
PROPERTIES
  VestedNeverDecreases
  PauseFreezesVesting
  PayoutsWithinMilestones
  
CHECK_DEADLOCK FALSE
