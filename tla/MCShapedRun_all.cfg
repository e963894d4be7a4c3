SPECIFICATION Spec
CONSTANTS
  N = 3
  W = 67108864
  PingPongLimit = 5000000
  BandwidthLimit = 30000000
  Configs <- MCConfigs
  TestConfigs <- MCTests
  UnreadTests <- MCUnread
INVARIANTS
  TiersSeparated
  AcceptedFits
