CONSTANTS
  Requests = {r1, r2, r3}
  Links = {l1}
  Keys = {k1}
  RateLimit <- MCRateLimit
  Window = 2
  None = None
  j1 = j1
  j2 = j2
  f1 = f1
  f2 = f2
  f3 = f3
  Jobs = {j1, j2}
  Fingerprints = {f1, f2, f3}
  Failed <- MCFailed
  Version <- MCVersion
  Before <- MCBefore
  MaxFaults = 1
  NoFinding = NoFinding
  m1 = m1
  m2 = m2
  Monitors = {m1, m2}
  QuietHours <- MCQuietHours
  CadenceHours = {24}
  StartTimes <- MCStartTimes
  LastTime = 191
  MaxChanges = 1
  MaxErrors = 1
  Unset = Unset
SPECIFICATION BackOfficeSpec
INVARIANTS
  RevocationHolds
  CountersHold
  EarliestOutsideQuietHours
  NoDueMonitorIsLost
PROPERTIES
  RemediationSparesOne
CHECK_DEADLOCK FALSE
