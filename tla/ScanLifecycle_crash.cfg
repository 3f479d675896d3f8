CONSTANTS
  Jobs = {j1}
  Workers = {w1, w2}
  MaxTries = 3
  Faults = {"crash"}
  MaxFaults = 1
  NoWorker = NoWorker
  NoScan = NoScan
SPECIFICATION FairSpec
PROPERTIES
  CrashedScanIsRetried
CHECK_DEADLOCK FALSE
