SPECIFICATION SplitsSpec
CONSTANTS
  r1 = r1
  r2 = r2
  xlm = xlm
  usdc = usdc
  nft = nft
  g1 = g1
  g2 = g2
  v1 = v1
  v2 = v2
  None = None
  Authorities = {g1, g2}
  Accounts = {a1}
  Receivers = {r1, r2}
  Builds = {v1, v2}
  UPGRADE_TIMELOCK_SECONDS = 2
  MaxTime = 3
  Tokens = {xlm, usdc}
  I128_MAX = 1000000
  FULL_BPS = 4
  MultiOffers <- SomeGrants
  MaxMulti = 1
  TOTAL_SPLITS_WEIGHT = 6
  Nfts = {nft}
  Lists <- SomeLists
  Weights = {1, 4}
  Amounts = {5}
  MaxSplits = 1
SYMMETRY Symmetry
INVARIANTS
  WithinABasisPoint
  WeightsWithinWhole
  
PROPERTY
  NoticeGiven
CHECK_DEADLOCK FALSE
