CONSTANTS
  s1 = s1
  s2 = s2
  Scanners <- TwoScanners
  CompMaxRetry = 5
  MaxFailures = 5
  MaxFaults = 0
SPECIFICATION Spec
CHECK_DEADLOCK FALSE
INVARIANTS
  ScannerNeverPanics
