CONSTANTS
  k1 = k1
  k2 = k2
  k3 = k3
  NoKey = NoKey
  NoTarget = NoTarget
  Keys <- MCKeys
  Inf = 50
  Target = 2
  PlateauRounds = 0
  MinDelta = 0
  Landscapes <- MCLandscapes
  UseBeam = {TRUE, FALSE}
  SeedSets <- MCSeedSets
  BeamSets <- MCBeamSets
SPECIFICATION FairEngineSpec
INVARIANTS
  EnvelopeTellsTheEnd
  CreditIsDeserved
  TargetEndsRun
  OnlyRejectionLeavesNoStart
PROPERTIES
  ImplementsSearch
  CallEnds
