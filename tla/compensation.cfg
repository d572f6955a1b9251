CONSTANTS
  s1 = s1
  s2 = s2
  Scanners <- TwoScanners
  CompMaxRetry = 5
  MaxFailures = 7
  MaxFaults = 2
SPECIFICATION FairSpec
CHECK_DEADLOCK FALSE
INVARIANTS
  CompTypeOK
  NeverGivenUpEarly
PROPERTIES
  EntryKept
  ImplementsDebt
  ScheduledTaskEnds
  EntriesAreCleared
