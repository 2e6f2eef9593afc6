CONSTANTS
  k1 = k1
  k2 = k2
  k3 = k3
  NoKey = NoKey
  NoTarget = NoTarget
  Keys <- MCKeys
  Inf = 50
  Target = 2
  PlateauRounds = 2
  MinDelta = 1
  Width = 2
  Rounds = 3
  Restarts = 2
  WindowFactor = 1
  Weights <- MCWeights
  InitialWeight = 1
  Ramp <- MCRamp
  SeedChoices <- MCSeedChoices
  MaxChildren = 2
  Landscapes <- MCLandscapes
  Dedup = TRUE
SPECIFICATION FairSpec
INVARIANTS
  WindowConsistent
  BeamIsTopWidth
  SelectedRestartIsFirstBest
  ReasonExplainsStop
PROPERTIES
  ImplementsSearch
  Termination
