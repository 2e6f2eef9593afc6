\* Cribs to branches to an answer, with and without guesses and interruptors.
CONSTANTS
  A = 3
  NoPerm = NoPerm
  NoEnd = NoEnd
  NoSpan = NoSpan
  NoSpace = NoSpace
  None = None
  PeriodA = 2
  PeriodB = 3
  Problems <- MCProblems
  Score <- MCScore
  Starts = 2
  Sweeps <- MCSweeps
SPECIFICATION Spec
INVARIANTS
  BranchesAreExact
  StageReasonIsTrue
  AnswerIsBestJudged
