SPECIFICATION Spec
CONSTANTS
  N = 3
  Distances <- FourDistances
  Linkages = {"SINGLE", "COMPLETE", "AVERAGE"}
  Thresholds <- TwoThresholds
  MinSize = 2
  Scale = 12
INVARIANTS
  TiersAsDocumented
