CONSTANTS
  Requests = {r1, r2}
  Origins = {o1}
  ScanLimit <- Limit
  TargetLimit <- Limit
  RecentCeiling = 0
  MaxJobs = 3
  NoProject = NoProject
SPECIFICATION Spec
INVARIANTS
  OneProjectPerAccount
CHECK_DEADLOCK FALSE
