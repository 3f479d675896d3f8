CONSTANTS
  Fingerprints = {f1}
  CertExpiry = {}
  Critical = {f1}
  High = {}
  MaxJobs = 3
  MaxTime = 0
  Scores = {72}
  Majors = {0}
  Owner = {"scan"}
  Faults = {}
  MaxFaults = 1
  NoMonitor = NoMonitor
SPECIFICATION Spec
INVARIANTS
  CadenceIsKept
CHECK_DEADLOCK FALSE
