\* Evaluate keys and show their plaintexts, with and without degeneracy and a crib.
CONSTANTS
  A = 3
  NoPerm = NoPerm
  NoCrib = NoCrib
  NoText = NoText
  NoKey = NoKey
  Tables <- MCTables
  Ciphertexts <- MCCiphertexts
  Cores <- MCCores
  Orientations <- MCOrientations
  ExactPositions <- MCExactPositions
  KeyPositions <- MCKeyPositions
  Problems <- MCProblems
  Cribs <- MCCribs
  WordSpans <- MCSpans
  PrimaryScore <- MCPrimary
  RawScore <- MCRaw
  MaxBatch = 2
  MaxCalls = 1
SPECIFICATION Spec
INVARIANTS
  ScoreIsOfAReading
  ShownPlaintextDeservesScore
  CountersAgree
CHECK_DEADLOCK FALSE
