SPECIFICATION FairSpec
CONSTANTS
  N = 2
  W = 67108864
  PingPongLimit = 5000000
  BandwidthLimit = 30000000
  Configs <- MCConfigs
  TestConfigs <- MCTests
  UnreadTests <- MCUnread
  Cluster <- MCCluster
  Enabled = TRUE
  MaxSessions = 2
  MayFail = TRUE
  MayCrash = TRUE
  MayKill = TRUE
  MayTimeOut = TRUE
INVARIANTS
  HInv
  SessionIsOwn
  ShapedOrWarned
  DownCleans
  CollectedIsMeasured
PROPERTIES
  RulesStable
  HarnessSettles
