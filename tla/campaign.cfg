\* Two runs of a campaign, killed or failing anywhere, and their archive.
CONSTANTS
  Candidates = {1, 2, 3}
  Scores = {1, 2}
  NoScore = NoScore
  Families = {1}
  NoFamily = NoFamily
  Records <- MCRecords
  Capacity = 2
  FamilyLimit = 1
  NoFile = NoFile
  NoRow = NoRow
  MaxRuns = 2
  MaxOffers = 4
SPECIFICATION Spec
INVARIANTS
  LedgerAgreesWithResults
  ArchiveKeepsTheBest
  WrittenCanBeRead
CHECK_DEADLOCK FALSE
