CONSTANTS
  k1 = k1
  k2 = k2
  k3 = k3
  NoKey = NoKey
  NoTarget = NoTarget
  Keys <- MCKeys
  Inf = 50
  Target = 4
  PlateauRounds = 2
  MinDelta = 1
  Iters = 5
  Weights <- RampWeights
  InitialWeight = 1
  Ramp <- HalfRamp
  Landscapes <- RampLandscapes
  RescueAbs = 3
  RescuePercent = 50
  ReseedInterval = 3
  LocalImproveOnAccept = TRUE
SPECIFICATION FairSpec
INVARIANTS
  BestIsMaximum
  PlateauExact
  TargetHonoured
  EndIsRecorded
PROPERTIES
  ImplementsSearch
  Termination
