SPECIFICATION FairSpec
CONSTANTS
  N = 3
  LocalMode = TRUE
  Shaped = TRUE
  MayTimeOut = TRUE
  MayFail = TRUE
  MayCrash = TRUE
  MayInterrupt = TRUE
INVARIANTS
  RInv
  SessionConnected
  SessionPopulated
PROPERTIES
  KeepsBarrier
  ControllerDecides
  NoAgentLeftBehind
