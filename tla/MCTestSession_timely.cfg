SPECIFICATION FairSpec
CONSTANTS
  N = 3
  Plan <- PlanAllPairs
  LocalMode = FALSE
  CtrlMayTimeOut = FALSE
  PeerMayTimeOut = FALSE
  WritesMayFail = FALSE
  DelaySuffices = TRUE
  MayInterrupt = TRUE
INVARIANTS
  TInv
  CleanMeasurement
  AllMeasured
  ShutdownFindsAgentsIdle
PROPERTIES
  NoCommandOverwritten
  SessionEnds
