SPECIFICATION Spec
CONSTANTS
  N = 3
  Plan <- PlanChain
  LocalMode = TRUE
  CtrlMayTimeOut = FALSE
  PeerMayTimeOut = TRUE
  WritesMayFail = FALSE
  DelaySuffices = TRUE
  MayInterrupt = FALSE
INVARIANTS
  NoStaleMessage
