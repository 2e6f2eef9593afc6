CONSTANTS
  k1 = k1
  k2 = k2
  k3 = k3
  NoKey = NoKey
  NoTarget = NoTarget
  Keys <- MCKeys
  Inf = 50
  Target = NoTarget
  PlateauRounds = 1
  MinDelta = 0
  Iters = 2
  Weights <- FlatWeights
  InitialWeight = 0
  Ramp <- FlatRamp
  Landscapes <- FlatLandscapes
  RescueAbs = 0
  RescuePercent = 0
  ReseedInterval = 2
  LocalImproveOnAccept = FALSE
SPECIFICATION Spec
INVARIANTS
  StopReasonExplainsStop
