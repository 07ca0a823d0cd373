SPECIFICATION FairSpec
CONSTANTS
  a1 = a1
  a2 = a2
  Accounts = {a1, a2}
  Chain <- MixedChain
  PageSize = 2
  LEDGER_MAX_RETRIES = 1
  MaxGapSize = 1
  MaxRetries = 2
  ProgressInterval = 1
  MaxRanges = 2
  MaxFaults = 2
INVARIANTS
  IndexerTypeOK
  CheckpointCovers
  StoredInOrder
  TablesAgree
PROPERTIES
  
  EventuallyIndexed
