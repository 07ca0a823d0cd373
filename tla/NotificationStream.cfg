SPECIFICATION FairSpec
CONSTANTS
  mine = mine
  other = other
  None = None
  Wallets = {mine, other}
  Streams = {c1, c2}
  MAX_BUFFERED_EVENTS = 1
  MaxRows = 3
  Tabs = {t1, t2}
  Sessions <- Renewed
  MAX_BUFFER = 2
  MaxOpens = 2
  MaxFaults = 1
INVARIANTS
  NothingPassedBy
  CountedOnce
PROPERTIES
  EventuallyShown
CHECK_DEADLOCK FALSE
