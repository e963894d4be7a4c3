SPECIFICATION FairSpec
CONSTANTS
  N = 4
  LocalMode = FALSE
  Shaped = TRUE
  MayTimeOut = FALSE
  MayFail = FALSE
  MayCrash = FALSE
  MayInterrupt = FALSE
INVARIANTS
  CalledFindAll
PROPERTIES
  SessionBegins
