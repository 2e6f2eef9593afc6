CONSTANTS
  k1 = k1
  k2 = k2
  k3 = k3
  NoKey = NoKey
  NoTarget = NoTarget
  Keys <- MCKeys
  Inf = 50
  Target = 5
  PlateauRounds = 2
  MinDelta = 0
  Steps = 4
  Restarts = 2
  ColEvery = 2
  SlipEvery = 2
  StallRounds = 2
  StallSlipLimit = 1
  PctDelta = 1
  SeedChoices <- MCSeedChoices
  MaxBatch = 2
  Landscapes <- MCLandscapes
SPECIFICATION FairSpec
INVARIANTS
  ReasonExplainsStop
  PlateauIsReal
PROPERTIES
  ImplementsSearch
  Termination
