SPECIFICATION FairSpec
CONSTANTS
  N = 2
  Plan <- PlanSamePair
  LocalMode = TRUE
  CtrlMayTimeOut = TRUE
  PeerMayTimeOut = TRUE
  WritesMayFail = TRUE
  DelaySuffices = FALSE
  MayInterrupt = TRUE
INVARIANTS
  IInv
  StoredIsExecuted
PROPERTIES
  SlotNeverRegresses
  KeepsCampaign
  SessionEnds
