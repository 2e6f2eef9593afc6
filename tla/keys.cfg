\* Keys from seeds through every verb, and the round trip of a text with each.
CONSTANTS
  A = 3
  NoPerm = NoPerm
  NoEnd = NoEnd
  NoStream = NoStream
  Streams <- MCStreams
  Unfilled = 99
  Pool <- MCPool
  InterruptMin = 1
  InterruptMax = 2
  Ciphers <- CipherNames
  KeyLength = 2
  Width = 4
  Period = 2
  Columns = 3
  MinRails = 2
  MaxRails = 6
  Orientations <- MCOrientations
  ExactPositions <- MCExactPositions
  Texts <- MCTexts
  RawSeeds <- MCRawSeeds
  Distance = 8
SPECIFICATION Spec
INVARIANTS
  KeysStayValid
  CipherIsLossless
  MutationReachesEveryKey
PROPERTIES
  ChildInherits
