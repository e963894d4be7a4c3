SPECIFICATION Spec
CONSTANTS
  N = 4
  Distances <- FourDistances
  Linkages = {"SINGLE", "COMPLETE", "AVERAGE"}
  Thresholds <- TwoThresholds
  MinSize = 2
  Scale = 12
INVARIANTS
  LinkageDistances
  CutsAreSound
  TiersAreTightest
  HiddenAreClusters
  
  EdgesExplainLatencies
PROPERTIES
  KeepsAgglomeration
  HeightsGrow
