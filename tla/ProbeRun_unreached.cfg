SPECIFICATION Spec
CONSTANTS
  None = None
  Scenarios <- FewScenarios
  Answers <- MCAnswers
  Candidates <- MCCandidates
  MaxRedirects = 5
  MaxScripts = 5
  MaxFaults = 1
INVARIANTS
  UnreachedIsNotPassed
CHECK_DEADLOCK FALSE
