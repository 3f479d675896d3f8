CONSTANTS
  Jobs = {j1}
  Workers = {w1, w2}
  MaxTries = 3
  Faults = {"crash", "abort", "lost"}
  MaxFaults = 2
  NoWorker = NoWorker
  NoScan = NoScan
  Readers = {r1}
  Streams = {s1}
  MaxPolls = 4
SPECIFICATION ObserversFairSpec
INVARIANTS
  LifecycleInv
  ResultIffReported
  EffectsAtMostOnce
  EffectsAreJustified
  NoDanglingBundle
  QueuedMeansAuthorized
  SettledAnswerIsWhole
  StreamTellsHistoryInOrder
  ClosedStreamToldTheEnd
PROPERTIES
  SettledIsFinal
  ImplementsContract
  EveryJobSettles
  PickupSurvivesCrash
  StreamEnds
CHECK_DEADLOCK FALSE
