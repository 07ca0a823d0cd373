SPECIFICATION Spec
CONSTANTS
  Events <- FourEvents
  Content <- TwoGrants
  HoursPerDay = 2
  BatchLimit = 2
  MaxHour = 5
  MaxStreams = 0
INVARIANTS
  SnapshotsExact
  TotalsMatchSnapshots
  HourlyComplete

