CONSTANTS
  Browsers = {b1, b2}
  Pollers = {p1}
  MaxClicks = 2
  Faults = {"render", "crash", "abort", "lost"}
  MaxFaults = 1
  NoReport = NoReport
SPECIFICATION FairSpec
INVARIANTS
  PublishedIsStored
  FirstRenderIsUnique
PROPERTIES
  CrashedRenderIsRetried
CHECK_DEADLOCK FALSE
