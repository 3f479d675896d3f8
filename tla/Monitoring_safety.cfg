CONSTANTS
  f1 = f1
  f2 = f2
  Fingerprints = {f1, f2}
  CertExpiry = {}
  Critical = {f1}
  High = {f2}
  MaxJobs = 3
  MaxTime = 1
  Scores = {62, 72, 90}
  Majors = {0, 1}
  Owner = {"scan", "disable", "suppress"}
  Faults = {"crash", "abort", "lost"}
  MaxFaults = 1
  NoMonitor = NoMonitor
SPECIFICATION MCSpec
INVARIANTS
  TypeOK
  AlertsTellTransitions
  SentMeansDelivered
  ExtraScansWereUndone
  OnlyOvertakenIsMissed
  OnlyRecomparedIsResent
  ScoreDropWasSeenTwice
PROPERTIES
  DueMonitorGetsScan
CHECK_DEADLOCK FALSE
