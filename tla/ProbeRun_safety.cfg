SPECIFICATION Spec
CONSTANTS
  None = None
  Scenarios <- MCScenarios
  Answers <- MCAnswers
  Candidates <- MCCandidates
  MaxRedirects = 5
  MaxScripts = 5
  MaxFaults = 2
INVARIANTS
  OnlyPublicAddresses
  TheTwoGatesAgree
  FaultsAccuseOnlyConnectivity
  NoDeviationHidesAnother
  OutputsAgree
PROPERTIES
  RunEnds
CHECK_DEADLOCK FALSE
