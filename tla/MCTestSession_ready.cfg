SPECIFICATION Spec
CONSTANTS
  N = 3
  Plan <- PlanChain
  LocalMode = TRUE
  CtrlMayTimeOut = FALSE
  PeerMayTimeOut = FALSE
  WritesMayFail = FALSE
  DelaySuffices = FALSE
  MayInterrupt = FALSE
INVARIANTS
  ResponderReadyFirst
