SPECIFICATION FundingSpec
CONSTANTS
  a1 = a1
  a2 = a2
  xlm = xlm
  Accounts = {a1, a2}
  Tokens = {xlm}
  I128_MAX = 1000000
  FULL_BPS = 10000
  MaxSchedules = 2
  MaxTime = 3
  MaxDuration = 3
  MIN_DURATION = 1
  Offers <- LockedOffer
  GradedOffers <- NoOffers
  MilestoneLists <- NoOffers
  ExtendBy = {}
  PROPOSAL_WINDOW_LEDGERS = 2
  MaxProposals = 0
  BatchOffers <- ShortDeposit
INVARIANT FundedFromDeposit
CHECK_DEADLOCK FALSE
