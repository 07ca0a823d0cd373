SPECIFICATION DelegationSpec
CONSTANTS
  a1 = a1
  a2 = a2
  a3 = a3
  xlm = xlm
  None = None
  Tokens = {xlm}
  I128_MAX = 1000000
  FULL_BPS = 10000
  MaxSchedules = 1
  MaxDuration = 3
  MIN_DURATION = 1
  Offers <- LinearOffer
  GradedOffers <- NoOffers
  ExtendBy = {}
  Accounts = {a1, a2}
  MaxTime = 3
  MilestoneLists <- NoOffers
  MAX_DELEGATIONS_PER_SCHEDULE = 2
  MaxDelegations = 3
  Budgets <- OneBudget
  Expiries <- SomeExpiries
SYMMETRY Symmetry
INVARIANTS
  ActiveCountExact
  BudgetHolds
  DelegatedWithinClaimed
CHECK_DEADLOCK FALSE
