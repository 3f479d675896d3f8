CONSTANTS
  Browsers = {b1}
  Pollers = {}
  MaxClicks = 1
  Faults = {"render"}
  MaxFaults = 1
  NoReport = NoReport
SPECIFICATION FairSpec
PROPERTIES
  WaitingPageIsTold
CHECK_DEADLOCK FALSE
