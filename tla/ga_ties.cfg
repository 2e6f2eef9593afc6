CONSTANTS
  k1 = k1
  k2 = k2
  k3 = k3
  NoKey = NoKey
  NoTarget = NoTarget
  Keys <- MCKeys
  Inf = 50
  Target = 3
  PlateauRounds = 2
  MinDelta = 1
  PopSize = 3
  Elites = 1
  Generations = 3
  Weights <- MCWeights
  InitialWeight = 1
  Ramp <- MCRamp
  SeedChoices <- MCSeedChoices
  Landscapes <- MCLandscapes
SPECIFICATION Spec
INVARIANTS
  TiesKeepEarlierIndex
