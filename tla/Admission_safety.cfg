CONSTANTS
  Requests = {r1, r2}
  Origins = {o1}
  ScanLimit <- Limit
  TargetLimit <- Limit
  RecentCeiling = 0
  MaxJobs = 3
  NoProject = NoProject
SPECIFICATION Spec
SYMMETRY Symmetry
INVARIANTS
  TypeOK
  ActiveIsEarned
  ScansAreBounded
  RecentScansAreBounded
CHECK_DEADLOCK FALSE
