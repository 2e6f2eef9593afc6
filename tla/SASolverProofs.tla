--------------------------- MODULE SASolverProofs ---------------------------
(* What SASolver is proved to do, for every landscape, ramp, option and       *)
(* number of iterations: its type, that its best is a maximum, that its       *)
(* plateau stop is exact, and that it implements Search.                      *)
EXTENDS SASolver, SolverBaseProofs, TLAPS

-----------------------------------------------------------------------------
(* Facts about the operators.                                                 *)

\* A key has a score at every weight.
LEMMA KeyScore ==
  ASSUME TypeOK, NEW w \in Weights
  PROVE  landscape[w] \in [Keys -> Scores]
BY RunAssumption DEF TypeOK

\* The better of two candidates.
LEMMA BetterFacts ==
  ASSUME NEW c \in Candidates, NEW top \in Candidates
  PROVE  /\ Better(c, top) \in {c, top}
         /\ ScoreOf(c) <= ScoreOf(Better(c, top))
         /\ ScoreOf(top) <= ScoreOf(Better(c, top))
         /\ ScoreOf(Better(c, top)) = ScoreOf(top) => Better(c, top) = top
<1>1. ScoreOf(c) \in Int /\ ScoreOf(top) \in Int
  BY CandidateParts, ScoreRange
<1>2. CASE ScoreOf(c) > ScoreOf(top)
  BY <1>1, <1>2 DEF Better
<1>3. CASE ~ ScoreOf(c) > ScoreOf(top)
  BY <1>1, <1>3 DEF Better
<1> QED BY <1>2, <1>3

\* An iteration moves to a candidate, and its proposal is no better than the
\* candidate it moves to or leaves.
LEMMA MovesFacts ==
  ASSUME NEW p \in Candidates, NEW f \in [Keys -> Scores], current \in Candidates,
         NEW m \in Moves(p, f)
  PROVE  m \in Candidates /\ ScoreOf(p) <= ScoreOf(m)
<1>0. ScoreOf(p) \in Scores /\ ScoreOf(current) \in Scores /\ ScoreOf(current) = s_cur
  BY CandidateParts DEF current, ScoreOf
<1>1. CASE m \in LocalImprove(p, f)
  <2>1. m \in Candidates /\ (m = p \/ ScoreOf(m) > ScoreOf(p))
    BY <1>1, LocalImproveFacts
  <2> QED BY <2>1, <1>0, CandidateParts, ScoreRange
<1>2. CASE m = p
  BY <1>2, <1>0, ScoreRange
<1>3. CASE m = current /\ MayRefuse(ScoreOf(p))
  BY <1>3, <1>0, ScoreRange DEF MayRefuse, IsFinite
<1> QED BY <1>1, <1>2, <1>3 DEF Moves

\* The reason is settled when the loop is left.
LEMMA ReasonTypes ==
  ASSUME NEW es \in EarlyStops, NEW reached \in BOOLEAN
  PROVE  ReasonAtEnd(es, reached) \in EarlyStops
BY DEF EarlyStops, WithReason, ReasonAtEnd, Reasons

-----------------------------------------------------------------------------
(* What the two steps that score candidates do to the best and to what has    *)
(* been seen.                                                                 *)

SearchStarted == k_best # NoKey

LEMMA BestIsCandidate ==
  ASSUME TypeOK, SearchStarted
  PROVE  /\ best \in Candidates /\ KeyOf(best) = k_best /\ ScoreOf(best) = s_best
         /\ current \in Candidates /\ KeyOf(current) = k_cur /\ ScoreOf(current) = s_cur
BY DEF TypeOK, SearchStarted, best, current, Candidates, KeyOf, ScoreOf

LEMMA IterateFacts ==
  ASSUME TypeOK, Iterate
  PROVE  /\ SearchStarted
         /\ it' = it + 1 /\ it' \in 1..Iters /\ weight' \in Weights
         /\ \E p \in Candidates, m \in Candidates :
              /\ ScoreOf(p) <= ScoreOf(m)
              /\ best' = Better(m, best)
              /\ current' \in {m, Better(m, best)}
              /\ seen' = seen \cup {p, m}
              /\ plateau_stop' = PlateauFires(early_stop, s_best', it')
              /\ early_stop' = EarlyStopUpdate(early_stop, s_best', it')
<1>1. SearchStarted
  BY DEF TypeOK, Iterate, SearchStarted
<1>2. it' = it + 1 /\ it' \in 1..Iters
  BY RunAssumption DEF TypeOK, Iterate
<1>3. weight' \in Weights
  BY <1>2, RunAssumption DEF Iterate
<1> DEFINE score == landscape[weight']
<1>4. score \in [Keys -> Scores]
  BY <1>3, KeyScore
<1>5. PICK k \in Keys : \E m \in Moves(<<k, score[k]>>, score) :
         LET top == Better(m, best)
             cur == Rescued(m, top)
         IN  /\ k_best' = KeyOf(top) /\ s_best' = ScoreOf(top)
             /\ plateau_stop' = PlateauFires(early_stop, ScoreOf(top), it')
             /\ early_stop' = EarlyStopUpdate(early_stop, ScoreOf(top), it')
             /\ k_cur' = KeyOf(cur) /\ s_cur' = ScoreOf(cur)
             /\ seen' = seen \cup {<<k, score[k]>>, m}
  BY DEF Iterate
<1> DEFINE p == <<k, score[k]>>
<1>6. p \in Candidates
  BY <1>4 DEF Candidates
<1>7. PICK m \in Moves(p, score) :
         LET top == Better(m, best)
             cur == Rescued(m, top)
         IN  /\ k_best' = KeyOf(top) /\ s_best' = ScoreOf(top)
             /\ plateau_stop' = PlateauFires(early_stop, ScoreOf(top), it')
             /\ early_stop' = EarlyStopUpdate(early_stop, ScoreOf(top), it')
             /\ k_cur' = KeyOf(cur) /\ s_cur' = ScoreOf(cur)
             /\ seen' = seen \cup {p, m}
  BY <1>5
<1> DEFINE top == Better(m, best)
           cur == Rescued(m, top)
<1>8. m \in Candidates /\ ScoreOf(p) <= ScoreOf(m)
  <2>1. current \in Candidates
    BY <1>1, BestIsCandidate
  <2> HIDE DEF score, p
  <2> QED BY <2>1, <1>4, <1>6, MovesFacts
<1>9. top \in Candidates /\ cur \in {m, top}
  <2>1. top \in Candidates
    BY <1>1, <1>8, BetterFacts, BestIsCandidate
  <2>2. cur \in {m, top}
    BY DEF Rescued
  <2> QED BY <2>1, <2>2
<1>10. best' = top /\ current' = cur
  BY <1>7, <1>8, <1>9, CandidateParts DEF best, current
<1>11. s_best' = ScoreOf(top)
  BY <1>7
<1> HIDE DEF score, p, top, cur
<1>12. /\ plateau_stop' = PlateauFires(early_stop, s_best', it')
       /\ early_stop' = EarlyStopUpdate(early_stop, s_best', it')
       /\ seen' = seen \cup {p, m}
  BY <1>7, <1>11 DEF top
<1> QED BY <1>1, <1>2, <1>3, <1>6, <1>8, <1>9, <1>10, <1>12 DEF top

LEMMA ReseedFacts ==
  ASSUME TypeOK, Reseed
  PROVE  /\ SearchStarted
         /\ \E c \in Candidates, S \in SUBSET Candidates :
              /\ \A d \in S : ScoreOf(d) <= ScoreOf(c)
              /\ c \in S
              /\ best' = Better(c, best)
              /\ current' = c
              /\ seen' = seen \cup S
              /\ IF ScoreOf(c) > s_best
                   THEN /\ plateau_stop' = PlateauFires(early_stop, s_best', it)
                        /\ early_stop' = EarlyStopUpdate(early_stop, s_best', it)
                   ELSE UNCHANGED <<plateau_stop, early_stop>>
<1>1. SearchStarted
  BY DEF TypeOK, Reseed, SearchStarted
<1> DEFINE score == landscape[weight]
<1>2. score \in [Keys -> Scores] /\ seed_keys \in SUBSET Keys
  BY KeyScore DEF TypeOK
<1>3. PICK k \in StartKeys(seed_keys, score) :
         LET cand == <<k, score[k]>>
             top == Better(cand, best)
             improves == ScoreOf(cand) > s_best
         IN  /\ k_cur' = k /\ s_cur' = ScoreOf(cand)
             /\ k_best' = KeyOf(top) /\ s_best' = ScoreOf(top)
             /\ plateau_stop' = IF improves THEN PlateauFires(early_stop, ScoreOf(top), it)
                                ELSE plateau_stop
             /\ early_stop' = IF improves THEN EarlyStopUpdate(early_stop, ScoreOf(top), it)
                              ELSE early_stop
             /\ seen' = seen \cup {<<j, score[j]>> : j \in seed_keys \cup {k}}
  BY DEF Reseed
<1> DEFINE c == <<k, score[k]>>
           S == {<<j, score[j]>> : j \in seed_keys \cup {k}}
           top == Better(c, best)
<1>4. k \in Keys /\ \A j \in seed_keys : score[j] <= score[k]
  <2> HIDE DEF score
  <2> QED BY <1>2, StartKeyFacts
<1>5. c \in Candidates /\ ScoreOf(c) = score[k]
  BY <1>2, <1>4 DEF Candidates, ScoreOf
<1>6. S \in SUBSET Candidates /\ c \in S
  BY <1>2, <1>4 DEF Candidates
<1>7. \A d \in S : ScoreOf(d) <= ScoreOf(c)
  <2>1. score[k] <= score[k]
    BY <1>2, <1>4, ScoreRange
  <2> QED BY <2>1, <1>4, <1>5 DEF ScoreOf
<1>8. top \in Candidates
  BY <1>1, <1>5, BetterFacts, BestIsCandidate
<1>9. best' = top /\ s_best' = ScoreOf(top)
  BY <1>3, <1>8, CandidateParts DEF best
<1>10. current' = c
  BY <1>3, <1>5 DEF current
<1>11. /\ seen' = seen \cup S
       /\ IF ScoreOf(c) > s_best
            THEN /\ plateau_stop' = PlateauFires(early_stop, ScoreOf(top), it)
                 /\ early_stop' = EarlyStopUpdate(early_stop, ScoreOf(top), it)
            ELSE UNCHANGED <<plateau_stop, early_stop>>
  BY <1>3
<1> HIDE DEF c, S, top
<1> QED BY <1>1, <1>5, <1>6, <1>7, <1>9, <1>10, <1>11 DEF top

-----------------------------------------------------------------------------
(* Type correctness.                                                          *)

LEMMA InitType == Init => TypeOK
<1> SUFFICES ASSUME Init PROVE TypeOK
  OBVIOUS
<1>1. NoKey \notin Keys /\ NegInf \in Scores
  BY KeyAssumption, ScoreRange
<1>2. early_stop \in EarlyStops
  BY <1>1, EarlyStopResetType DEF Init
<1>3. it \in 0..Iters /\ weight \in Weights
  BY RunAssumption DEF Init
<1>4. log \in Seq(Scores) /\ seen \subseteq Candidates
  BY DEF Init
<1>5. sol = NoSolution /\ pc = "start"
  BY DEF Init
<1> QED BY <1>1, <1>2, <1>3, <1>4, <1>5 DEF Init, TypeOK

LEMMA NextType ==
  ASSUME TypeOK, [Next]_vars
  PROVE  TypeOK'
<1> USE DEF problem, history
<1>1. CASE TestKeyFastPath
  <2>1. landscape[weight] \in [Keys -> Scores] /\ test_key \in Keys
    BY <1>1, KeyScore DEF TypeOK, TestKeyFastPath
  <2>2. sol' \in Solutions
    BY <1>1, <2>1 DEF TestKeyFastPath, Solutions, Candidates, Reasons
  <2>3. sol' # NoSolution
    BY <1>1 DEF TestKeyFastPath, NoSolution
  <2>4. early_stop' \in EarlyStops
    BY <1>1 DEF TypeOK, TestKeyFastPath, EarlyStops, WithReason, Reasons
  <2> QED BY <1>1, <2>2, <2>3, <2>4 DEF TypeOK, TestKeyFastPath, current, best
<1>2. CASE Start
  <2>1. landscape[weight] \in [Keys -> Scores] /\ seed_keys \in SUBSET Keys
    BY KeyScore DEF TypeOK
  <2>2. PICK k \in StartKeys(seed_keys, landscape[weight]) :
           LET s == landscape[weight][k]
           IN  /\ k_cur' = k /\ s_cur' = s
               /\ k_best' = k /\ s_best' = s
               /\ early_stop' = EarlyStopReset(s)
               /\ log' = <<s>>
               /\ seen' = {<<j, landscape[weight][j]>> : j \in seed_keys \cup {k}}
    BY <1>2 DEF Start
  <2>3. k \in Keys /\ k # NoKey /\ landscape[weight][k] \in Scores
    BY <2>1, StartKeyFacts, KeyAssumption
  <2>4. early_stop' \in EarlyStops /\ log' \in Seq(Scores)
    BY <2>2, <2>3, EarlyStopResetType
  <2>5. seen' \subseteq Candidates
    BY <2>1, <2>2, <2>3 DEF Candidates
  <2>6. weight' \in Weights /\ it' = 0 /\ 0 \in 0..Iters /\ 0 < Iters
    <3>1. it = 0
      BY <1>2 DEF Start, TypeOK
    <3> QED BY <1>2, <3>1, RunAssumption DEF Start
  <2> QED BY <1>2, <2>2, <2>3, <2>4, <2>5, <2>6 DEF TypeOK, Start
<1>3. CASE Iterate
  <2>1. /\ SearchStarted /\ it' \in 1..Iters /\ weight' \in Weights
        /\ k_best \in Keys
    BY <1>3, IterateFacts DEF TypeOK, SearchStarted
  <2>2. PICK p \in Candidates, m \in Candidates :
              /\ best' = Better(m, best)
              /\ current' \in {m, Better(m, best)}
              /\ seen' = seen \cup {p, m}
              /\ plateau_stop' = PlateauFires(early_stop, s_best', it')
              /\ early_stop' = EarlyStopUpdate(early_stop, s_best', it')
    BY <1>3, IterateFacts
  <2>3. best' \in Candidates /\ current' \in Candidates
    BY <2>1, <2>2, BetterFacts, BestIsCandidate
  <2>4. /\ k_best' \in Keys /\ s_best' \in Scores /\ k_cur' \in Keys /\ s_cur' \in Scores
        /\ k_best' # NoKey
    BY <2>3, KeyAssumption DEF best, current, Candidates
  <2>5. plateau_stop' \in BOOLEAN /\ early_stop' \in EarlyStops
    BY <2>1, <2>2, <2>4, EarlyStopTypes DEF TypeOK
  <2>6. seen' \subseteq Candidates
    BY <2>2 DEF TypeOK
  <2>7. pc' \in {"reseed", "check"} /\ pc = "loop" /\ it' \in 0..Iters
    BY <1>3, <2>1, RunAssumption DEF Iterate
  <2> QED BY <1>3, <2>1, <2>4, <2>5, <2>6, <2>7 DEF TypeOK, Iterate
<1>4. CASE Reseed
  <2>1. SearchStarted /\ k_best \in Keys
    BY <1>4, ReseedFacts DEF TypeOK, SearchStarted
  <2>2. PICK c \in Candidates, S \in SUBSET Candidates :
              /\ best' = Better(c, best)
              /\ current' = c
              /\ seen' = seen \cup S
              /\ IF ScoreOf(c) > s_best
                   THEN /\ plateau_stop' = PlateauFires(early_stop, s_best', it)
                        /\ early_stop' = EarlyStopUpdate(early_stop, s_best', it)
                   ELSE UNCHANGED <<plateau_stop, early_stop>>
    BY <1>4, ReseedFacts
  <2>3. best' \in Candidates /\ current' \in Candidates
    BY <2>1, <2>2, BetterFacts, BestIsCandidate
  <2>4. /\ k_best' \in Keys /\ s_best' \in Scores /\ k_cur' \in Keys /\ s_cur' \in Scores
        /\ k_best' # NoKey
    BY <2>3, KeyAssumption DEF best, current, Candidates
  <2>5. plateau_stop' \in BOOLEAN /\ early_stop' \in EarlyStops
    <3>1. it \in Nat /\ early_stop \in EarlyStops /\ plateau_stop \in BOOLEAN
      BY RunAssumption DEF TypeOK
    <3> QED BY <3>1, <2>2, <2>4, EarlyStopTypes
  <2>6. seen' \subseteq Candidates
    BY <2>2 DEF TypeOK
  <2> QED BY <1>4, <2>1, <2>4, <2>5, <2>6 DEF TypeOK, Reseed
<1>5. CASE Check
  <2>1. k_best # NoKey /\ s_best \in Scores
    BY <1>5 DEF TypeOK, Check
  <2>2. log' \in Seq(Scores)
    BY <1>5, <2>1 DEF TypeOK, Check
  <2>3. /\ early_stop' \in EarlyStops /\ pc' \in {"finish", "loop"}
        /\ span' \in {"unopened", "open", "closed"}
        /\ pc' = "loop" => it # Iters
    <3>1. StopScoreReached(s_best) \in BOOLEAN /\ early_stop \in EarlyStops
      BY DEF TypeOK, StopScoreReached
    <3>2. ReasonAtEnd(early_stop, StopScoreReached(s_best)) \in EarlyStops
      BY <3>1, ReasonTypes
    <3> QED BY <1>5, <3>1, <3>2 DEF Check, TypeOK
  <2>4. it \in 0..Iters /\ (pc' = "loop" => it < Iters)
    BY <2>3, RunAssumption DEF TypeOK
  <2> QED BY <1>5, <2>1, <2>2, <2>3, <2>4 DEF TypeOK, Check, current, best
<1>6. CASE Finish
  <2>1. SearchStarted /\ best \in Candidates
    BY <1>6, BestIsCandidate DEF TypeOK, Finish, SearchStarted
  <2>2. landscape[weight] \in [Keys -> Scores] /\ early_stop.reason \in Reasons
    BY KeyScore DEF TypeOK, EarlyStops
  <2>3. \A c \in LocalImprove(best, landscape[weight]) : c \in Candidates
    BY <2>1, <2>2, LocalImproveFacts
  <2>4. sol' \in Solutions
    BY <1>6, <2>1, <2>2, <2>3 DEF Finish, Solutions, Reasons
  <2>5. sol' # NoSolution
    BY <1>6 DEF Finish, NoSolution
  <2> QED BY <1>6, <2>1, <2>4, <2>5 DEF TypeOK, Finish, SearchStarted, current, best
<1>7. CASE Raise
  <2>1. early_stop' \in EarlyStops /\ span' \in {"unopened", "open", "closed"}
    <3>1. early_stop \in EarlyStops
      BY DEF TypeOK
    <3>2. ReasonOrError(early_stop) \subseteq EarlyStops
      BY <3>1, WithReasonType DEF Reasons
    <3> QED BY <1>7, <3>1, <3>2 DEF TypeOK, Raise
  <2>2. early_stop'.reason \in Reasons
    BY <2>1 DEF EarlyStops
  <2>3. sol' \in Solutions
    BY <1>7, <2>2 DEF Raise, Solutions
  <2>4. sol' # NoSolution
    BY <1>7 DEF Raise, NoSolution
  <2> QED BY <1>7, <2>1, <2>3, <2>4 DEF TypeOK, Raise, current, best
<1>8. CASE Stopped \/ UNCHANGED vars
  BY <1>8 DEF TypeOK, Stopped, vars, current, best
<1> QED BY <1>1, <1>2, <1>3, <1>4, <1>5, <1>6, <1>7, <1>8 DEF Next, Step

\* The annealer keeps its type: in particular the key it is at and its best key
\* are keys from the first evaluation on, an iteration begins only while some are
\* left, and there is a solution exactly when solve has ended.
THEOREM TypeCorrect == Spec => []TypeOK
<1>1. Init => TypeOK
  BY InitType
<1>2. TypeOK /\ [Next]_vars => TypeOK'
  BY NextType
<1> QED BY <1>1, <1>2, PTL DEF Spec

-----------------------------------------------------------------------------
(* The best is a maximum.                                                     *)

LEMMA BestIsMaximumStep ==
  ASSUME TypeOK, BestIsMaximum, [Next]_vars
  PROVE  BestIsMaximum'
<1> USE DEF SearchStarted
<1>1. CASE Start
  <2>1. landscape[weight] \in [Keys -> Scores] /\ seed_keys \in SUBSET Keys
    BY KeyScore DEF TypeOK
  <2>2. PICK k \in StartKeys(seed_keys, landscape[weight]) :
           /\ k_best' = k /\ s_best' = landscape[weight][k]
           /\ seen' = {<<j, landscape[weight][j]>> : j \in seed_keys \cup {k}}
    BY <1>1 DEF Start
  <2>3. k \in Keys /\ \A j \in seed_keys : landscape[weight][j] <= landscape[weight][k]
    BY <2>1, StartKeyFacts
  <2>4. landscape[weight][k] <= landscape[weight][k]
    BY <2>1, <2>3, ScoreRange
  <2> QED BY <2>2, <2>3, <2>4 DEF BestIsMaximum, best, ScoreOf
<1>2. CASE Iterate
  <2>1. PICK p \in Candidates, m \in Candidates :
           /\ ScoreOf(p) <= ScoreOf(m)
           /\ best' = Better(m, best)
           /\ seen' = seen \cup {p, m}
    BY <1>2, IterateFacts
  <2>2. /\ best \in Candidates /\ ScoreOf(best) = s_best /\ best \in seen
        /\ seen \subseteq Candidates /\ \A c \in seen : ScoreOf(c) <= s_best
    BY <1>2, IterateFacts, BestIsCandidate DEF BestIsMaximum, TypeOK
  <2>3. /\ best' \in {m, best} /\ best' \in Candidates
        /\ ScoreOf(m) <= ScoreOf(best') /\ s_best <= ScoreOf(best')
    BY <2>1, <2>2, BetterFacts
  <2>4. ScoreOf(best') = s_best'
    BY DEF best, ScoreOf
  <2>5. best' \in seen'
    BY <2>1, <2>2, <2>3
  <2>6. ASSUME NEW c \in seen' PROVE ScoreOf(c) <= s_best'
    <3>1. /\ ScoreOf(c) \in Int /\ ScoreOf(p) \in Int /\ ScoreOf(m) \in Int
          /\ s_best \in Int /\ s_best' \in Int
      <4>1. c \in Candidates
        BY <2>1, <2>2
      <4> QED BY <4>1, <2>2, <2>3, <2>4, CandidateParts, ScoreRange
    <3>2. c = p \/ c = m \/ ScoreOf(c) <= s_best
      BY <2>1, <2>2
    <3> QED BY <3>1, <3>2, <2>1, <2>3, <2>4
  <2> QED BY <2>5, <2>6 DEF BestIsMaximum
<1>3. CASE Reseed
  <2>1. PICK c \in Candidates, S \in SUBSET Candidates :
           /\ \A d \in S : ScoreOf(d) <= ScoreOf(c)
           /\ c \in S
           /\ best' = Better(c, best)
           /\ seen' = seen \cup S
    BY <1>3, ReseedFacts
  <2>2. /\ best \in Candidates /\ ScoreOf(best) = s_best /\ best \in seen
        /\ seen \subseteq Candidates /\ \A d \in seen : ScoreOf(d) <= s_best
    BY <1>3, ReseedFacts, BestIsCandidate DEF BestIsMaximum, TypeOK
  <2>3. /\ best' \in {c, best} /\ best' \in Candidates
        /\ ScoreOf(c) <= ScoreOf(best') /\ s_best <= ScoreOf(best')
    BY <2>1, <2>2, BetterFacts
  <2>4. ScoreOf(best') = s_best'
    BY DEF best, ScoreOf
  <2>5. best' \in seen'
    BY <2>1, <2>2, <2>3
  <2>6. ASSUME NEW d \in seen' PROVE ScoreOf(d) <= s_best'
    <3>1. /\ ScoreOf(d) \in Int /\ ScoreOf(c) \in Int
          /\ s_best \in Int /\ s_best' \in Int
      <4>1. d \in Candidates
        BY <2>1, <2>2
      <4> QED BY <4>1, <2>2, <2>3, <2>4, CandidateParts, ScoreRange
    <3>2. ScoreOf(d) <= ScoreOf(c) \/ ScoreOf(d) <= s_best
      BY <2>1, <2>2
    <3> QED BY <3>1, <3>2, <2>3, <2>4
  <2> QED BY <2>5, <2>6 DEF BestIsMaximum
<1>4. CASE TestKeyFastPath \/ Check \/ Finish \/ Raise \/ Stopped \/ UNCHANGED vars
  BY <1>4 DEF BestIsMaximum, TestKeyFastPath, Check, Finish, Raise, Stopped, vars,
              best, history
<1> QED BY <1>1, <1>2, <1>3, <1>4 DEF Next, Step

\* Whatever is proposed, accepted, refused, rescued or reseeded, the best key is
\* one that was scored and nothing that was scored beats it.
THEOREM BestIsAlwaysMaximum == Spec => []BestIsMaximum
<1>1. Init => BestIsMaximum
  BY DEF Init, BestIsMaximum
<1>2. TypeOK /\ BestIsMaximum /\ [Next]_vars => BestIsMaximum'
  BY BestIsMaximumStep
<1> QED BY <1>1, <1>2, TypeCorrect, PTL DEF Spec

-----------------------------------------------------------------------------
(* Annealing implements Search.                                               *)

AbstractIncumbent == IF k_best = NoKey THEN NoKey ELSE best

LEMMA SameCandidates == Abstract!Candidates = Candidates
BY DEF Abstract!Candidates, Candidates, Scores, NegInf

LEMMA NoAnswerYet ==
  ASSUME TypeOK, pc \notin {"done", "raised"}
  PROVE  Answer = NoKey
BY DEF TypeOK, Answer, NoSolution

\* A step that scores candidates is an Explore step.
LEMMA ExploreStep ==
  ASSUME TypeOK, TypeOK', BestIsMaximum', SearchStarted',
         pc \notin {"done", "raised"}, pc' \notin {"done", "raised"},
         seen \subseteq seen',
         SearchStarted /\ s_best' = s_best => best' = best
  PROVE  Abstract!Explore
<1>1. Answer = NoKey /\ Answer' = NoKey
  <2>1. Answer = NoKey
    BY NoAnswerYet
  <2>2. Answer' = NoKey
    BY DEF TypeOK, Answer, NoSolution
  <2> QED BY <2>1, <2>2
<1>2. AbstractIncumbent' = best'
  BY DEF AbstractIncumbent, SearchStarted
<1>3. best' \in seen' /\ \A c \in seen' : c[2] <= best'[2]
  BY DEF BestIsMaximum, SearchStarted, best, ScoreOf
<1>4. seen' \in SUBSET Abstract!Candidates
  BY SameCandidates DEF TypeOK
<1>5. seen # {} /\ AbstractIncumbent'[2] = AbstractIncumbent[2]
        => AbstractIncumbent' = AbstractIncumbent
  <2>1. seen # {} => SearchStarted
    BY DEF TypeOK, SearchStarted
  <2> QED BY <2>1, <1>2 DEF AbstractIncumbent, SearchStarted, best
<1> QED BY <1>1, <1>2, <1>3, <1>4, <1>5
        DEF Abstract!Explore, Abstract!Dominates, AbstractIncumbent

LEMMA RefinementStep ==
  ASSUME TypeOK, TypeOK', BestIsMaximum, BestIsMaximum', [Next]_vars
  PROVE  [Abstract!Next]_(Abstract!vars)
<1>1. CASE TestKeyFastPath
  <2>1. k_best = NoKey /\ k_best' = NoKey /\ seen = {} /\ seen' = {} /\ Answer = NoKey
    BY <1>1, NoAnswerYet DEF TypeOK, TestKeyFastPath, best, history
  <2>2. landscape[weight] \in [Keys -> Scores] /\ test_key \in Keys
    BY <1>1, KeyScore DEF TypeOK, TestKeyFastPath
  <2> DEFINE c == <<test_key, landscape[weight][test_key]>>
  <2>3. c \in Abstract!Candidates
    BY <2>2, SameCandidates DEF Candidates
  <2>4. Answer' = [kind |-> "supplied", cand |-> c]
    BY <1>1 DEF TestKeyFastPath, Answer
  <2>5. Abstract!Supplied
    BY <2>1, <2>3, <2>4 DEF Abstract!Supplied
  <2> QED BY <2>5 DEF Abstract!Next
<1>2. CASE Start
  <2>1. k_best = NoKey /\ seen = {} /\ pc = "start" /\ pc' = "loop"
    BY <1>2 DEF TypeOK, Start
  <2>2. SearchStarted'
    BY <2>1 DEF TypeOK, SearchStarted
  <2> QED BY <2>1, <2>2, ExploreStep DEF Abstract!Next, SearchStarted
<1>3. CASE Iterate
  <2>1. PICK p \in Candidates, m \in Candidates :
           best' = Better(m, best) /\ seen' = seen \cup {p, m}
    BY <1>3, IterateFacts
  <2>2. SearchStarted /\ best \in Candidates /\ ScoreOf(best) = s_best
    BY <1>3, IterateFacts, BestIsCandidate
  <2>3. s_best' = s_best => best' = best
    <3>1. ScoreOf(best') = s_best'
      BY DEF ScoreOf, best
    <3> QED BY <3>1, <2>1, <2>2, BetterFacts
  <2>4. pc = "loop" /\ pc' \in {"reseed", "check"}
    BY <1>3 DEF Iterate
  <2>5. SearchStarted'
    BY <2>4 DEF TypeOK, SearchStarted
  <2> QED BY <2>1, <2>3, <2>4, <2>5, ExploreStep DEF Abstract!Next
<1>4. CASE Reseed
  <2>1. PICK c \in Candidates, S \in SUBSET Candidates :
           best' = Better(c, best) /\ seen' = seen \cup S
    BY <1>4, ReseedFacts
  <2>2. SearchStarted /\ best \in Candidates /\ ScoreOf(best) = s_best
    BY <1>4, ReseedFacts, BestIsCandidate
  <2>3. s_best' = s_best => best' = best
    <3>1. ScoreOf(best') = s_best'
      BY DEF ScoreOf, best
    <3> QED BY <3>1, <2>1, <2>2, BetterFacts
  <2>4. pc = "reseed" /\ pc' = "check"
    BY <1>4 DEF Reseed
  <2>5. SearchStarted'
    BY <2>4 DEF TypeOK, SearchStarted
  <2> QED BY <2>1, <2>3, <2>4, <2>5, ExploreStep DEF Abstract!Next
<1>5. CASE Finish
  <2>1. SearchStarted /\ best \in Candidates /\ best[2] = s_best /\ Answer = NoKey
    BY <1>5, BestIsCandidate, NoAnswerYet DEF TypeOK, Finish, SearchStarted, ScoreOf
  <2>2. UNCHANGED <<seen, AbstractIncumbent>>
    BY <1>5 DEF Finish, AbstractIncumbent, best, history
  <2>3. seen # {} /\ AbstractIncumbent = best
    BY <2>1 DEF AbstractIncumbent, SearchStarted, BestIsMaximum
  <2>4. CASE IsFinite(s_best)
    <3>1. PICK c \in LocalImprove(best, landscape[weight]) :
             sol' = [kind |-> "found", cand |-> c, reason |-> early_stop.reason]
      BY <1>5, <2>4 DEF Finish
    <3>2. landscape[weight] \in [Keys -> Scores]
      BY KeyScore DEF TypeOK
    <3>3. c \in Abstract!Candidates /\ (c = best \/ c[2] > best[2])
      BY <2>1, <3>2, LocalImproveFacts, SameCandidates DEF ScoreOf
    <3>4. Answer' = [kind |-> "found", cand |-> c]
      BY <3>1 DEF Answer
    <3>5. Abstract!Found
      BY <2>1, <2>2, <2>3, <2>4, <3>3, <3>4
      DEF Abstract!Found, AbstractIncumbent, IsFinite, NegInf
    <3> QED BY <3>5 DEF Abstract!Next
  <2>5. CASE ~ IsFinite(s_best)
    <3>1. Answer' = [kind |-> "rejected", cand |-> best]
      BY <1>5, <2>5 DEF Finish, Answer
    <3>2. Abstract!Rejected
      BY <2>1, <2>2, <2>3, <2>5, <3>1
      DEF Abstract!Rejected, AbstractIncumbent, IsFinite, NegInf
    <3> QED BY <3>2 DEF Abstract!Next
  <2> QED BY <2>4, <2>5
<1>6. CASE Raise
  <2>1. Answer = NoKey /\ UNCHANGED <<seen, AbstractIncumbent>>
    BY <1>6, NoAnswerYet DEF Raise, AbstractIncumbent, best, history
  <2>2. Answer' = [kind |-> "raised"]
    BY <1>6 DEF Raise, Answer
  <2>3. Abstract!Raise
    BY <2>1, <2>2 DEF Abstract!Raise, AbstractIncumbent
  <2> QED BY <2>3 DEF Abstract!Next
<1>7. CASE Check \/ Stopped \/ UNCHANGED vars
  <2>1. UNCHANGED <<seen, k_best, s_best, sol>>
    BY <1>7 DEF Check, Stopped, vars, best, history
  <2> QED BY <2>1 DEF Abstract!vars, Answer, best
<1> QED BY <1>1, <1>2, <1>3, <1>4, <1>5, <1>6, <1>7 DEF Next, Step

\* Annealing is a Search: its best key is the incumbent, and what it returns is
\* an answer that Search allows.
THEOREM AnnealingImplementsSearch == Spec => ImplementsSearch
<1>1. Init => Abstract!Init
  BY DEF Init, Abstract!Init, Answer, NoSolution
<1>2. TypeOK /\ TypeOK' /\ BestIsMaximum /\ BestIsMaximum' /\ [Next]_vars
        => [Abstract!Next]_(Abstract!vars)
  BY RefinementStep
<1> QED BY <1>1, <1>2, TypeCorrect, BestIsAlwaysMaximum, PTL
        DEF Spec, ImplementsSearch, Abstract!Spec

-----------------------------------------------------------------------------
(* The plateau stop is exact.                                                 *)

\* Why PlateauExact is kept: while the loop runs, the early-stop record agrees with
\* the best scores the iterations left, and the flag is the record's patience.
InLoop == pc \in {"loop", "reseed", "check"}

LogIsComplete == Len(log) = IF pc = "loop" THEN it + 1 ELSE it

FlagIsPatience == pc # "loop" => (plateau_stop <=> PatienceExhausted(early_stop, it))

PlateauInv ==
  InLoop =>
    /\ CreepIsBounded(early_stop, s_best, it)
    /\ LogIsComplete
    /\ LogAgrees(early_stop, log, s_best)
    /\ FlagIsPatience

\* Every step keeps the invariant.
LEMMA PlateauInvStep ==
  ASSUME TypeOK, TypeOK', PlateauInv, [Next]_vars
  PROVE  PlateauInv'
<1> SUFFICES ASSUME InLoop'
             PROVE  /\ CreepIsBounded(early_stop', s_best', it')
                    /\ LogIsComplete'
                    /\ LogAgrees(early_stop', log', s_best')
                    /\ FlagIsPatience'
  BY DEF PlateauInv, CreepIsBounded, LogAgrees
<1>t. /\ s_best \in Scores /\ s_best' \in Scores /\ it \in Nat /\ it' \in Nat
      /\ s_best \in Int /\ s_best' \in Int /\ early_stop \in EarlyStops
      /\ log \in Seq(Scores)
  BY ScoreRange, RunAssumption DEF TypeOK
<1>1. CASE Start
  <2>1. PICK k \in StartKeys(seed_keys, landscape[weight]) :
           /\ s_best' = landscape[weight][k]
           /\ early_stop' = EarlyStopReset(landscape[weight][k])
           /\ log' = <<landscape[weight][k]>>
    BY <1>1 DEF Start
  <2>2. pc' = "loop" /\ it' = 0
    BY <1>1 DEF Start, TypeOK
  <2>3. LogAgrees(early_stop', log', s_best') /\ CreepIsBounded(early_stop', s_best', it')
    BY <1>t, <2>1, <2>2, LogAfterReset
  <2> QED BY <2>1, <2>2, <2>3 DEF LogIsComplete, FlagIsPatience
<1>2. CASE Iterate
  <2>1. /\ it' = it + 1 /\ log' = log /\ s_best <= s_best'
        /\ plateau_stop' = PlateauFires(early_stop, s_best', it')
        /\ early_stop' = EarlyStopUpdate(early_stop, s_best', it')
    <3>1. SearchStarted /\ best \in Candidates
      BY <1>2, IterateFacts, BestIsCandidate
    <3>2. ScoreOf(best) = s_best /\ ScoreOf(best') = s_best'
      BY DEF best, ScoreOf
    <3>3. \E m \in Candidates : best' = Better(m, best)
      BY <1>2, IterateFacts
    <3>4. s_best <= s_best'
      BY <3>1, <3>2, <3>3, BetterFacts
    <3>5. log' = log
      BY <1>2 DEF Iterate
    <3> QED BY <1>2, <3>4, <3>5, IterateFacts
  <2>2. /\ CreepIsBounded(early_stop, s_best, it) /\ LogAgrees(early_stop, log, s_best)
        /\ Len(log) = it'
    <3>1. pc = "loop"
      BY <1>2 DEF Iterate
    <3> QED BY <2>1, <3>1 DEF PlateauInv, InLoop, LogIsComplete
  <2>3. it <= it' /\ Len(log) <= it'
    BY <1>t, <2>1, <2>2
  <2>4. LogAgrees(early_stop', log', s_best') /\ CreepIsBounded(early_stop', s_best', it')
    BY <1>t, <2>1, <2>2, <2>3, LogAfterUpdate
  <2>5. pc' # "loop"
    BY <1>2 DEF Iterate
  <2>6. PlateauFires(early_stop, s_best', it') <=> PatienceExhausted(early_stop', it')
    <3>1. early_stop.best <= s_best' /\ early_stop.at <= it'
      <4>1. early_stop.best \in Int /\ early_stop.at \in Int
        BY <1>t, EarlyStopNumbers
      <4> QED BY <1>t, <2>1, <2>2, <2>3, <4>1 DEF CreepIsBounded
    <3> QED BY <1>t, <2>1, <3>1, UpdateFacts
  <2> QED BY <2>1, <2>2, <2>4, <2>5, <2>6 DEF LogIsComplete, FlagIsPatience
<1>3. CASE Reseed
  <2>1. /\ pc = "reseed" /\ pc' = "check" /\ it' = it /\ log' = log
        /\ CreepIsBounded(early_stop, s_best, it) /\ LogAgrees(early_stop, log, s_best)
        /\ Len(log) = it
        /\ plateau_stop <=> PatienceExhausted(early_stop, it)
    BY <1>3 DEF Reseed, PlateauInv, InLoop, LogIsComplete, FlagIsPatience
  <2>2. /\ s_best <= s_best'
        /\ \/ /\ plateau_stop' = PlateauFires(early_stop, s_best', it)
              /\ early_stop' = EarlyStopUpdate(early_stop, s_best', it)
           \/ UNCHANGED <<s_best, plateau_stop, early_stop>>
    <3>1. ScoreOf(best) = s_best
      BY DEF best, ScoreOf
    <3> QED BY <1>3, <1>t, <3>1 DEF Reseed, Better
  <2>3. CASE UNCHANGED <<s_best, plateau_stop, early_stop>>
    BY <2>1, <2>3 DEF LogIsComplete, FlagIsPatience
  <2>4. CASE /\ plateau_stop' = PlateauFires(early_stop, s_best', it)
             /\ early_stop' = EarlyStopUpdate(early_stop, s_best', it)
    <3>1. it <= it' /\ Len(log) <= it'
      BY <1>t, <2>1
    <3>2. LogAgrees(early_stop', log', s_best') /\ CreepIsBounded(early_stop', s_best', it')
      BY <1>t, <2>1, <2>2, <2>4, <3>1, LogAfterUpdate
    <3>3. early_stop.best <= s_best' /\ early_stop.at <= it
      <4>1. early_stop.best \in Int /\ early_stop.at \in Int
        BY <1>t, EarlyStopNumbers
      <4> QED BY <1>t, <2>1, <2>2, <4>1 DEF CreepIsBounded
    <3>4. PlateauFires(early_stop, s_best', it) <=> PatienceExhausted(early_stop', it)
      BY <1>t, <2>4, <3>3, UpdateFacts
    <3> QED BY <2>1, <2>4, <3>2, <3>4 DEF LogIsComplete, FlagIsPatience
  <2> QED BY <2>2, <2>3, <2>4
<1>4. CASE Check
  <2>1. /\ pc = "check" /\ pc' = "loop" /\ it' = it /\ s_best' = s_best
        /\ early_stop' = early_stop /\ log' = Append(log, s_best)
        /\ CreepIsBounded(early_stop, s_best, it) /\ LogAgrees(early_stop, log, s_best)
        /\ Len(log) = it
    BY <1>4 DEF Check, PlateauInv, InLoop, LogIsComplete, best
  <2>2. Len(log') = it + 1
    BY <1>t, <2>1
  <2>3. LogAgrees(early_stop', log', s_best')
    BY <1>t, <2>1, LogAfterAppend
  <2> QED BY <2>1, <2>2, <2>3 DEF LogIsComplete, FlagIsPatience
<1>5. CASE Stopped \/ UNCHANGED vars
  BY <1>5 DEF Stopped, vars, best, history, PlateauInv, InLoop, LogIsComplete,
              FlagIsPatience
<1>6. CASE TestKeyFastPath \/ Finish \/ Raise
  BY <1>6 DEF TestKeyFastPath, Finish, Raise, InLoop
<1> QED BY <1>1, <1>2, <1>3, <1>4, <1>5, <1>6 DEF Next, Step

\* The plateau stop fires when, and only when, the gain of the last PlateauRounds
\* iterations warrants it, whatever the landscape and the options.
THEOREM PlateauIsExact == Spec => []PlateauExact
<1>1. Init => PlateauInv
  BY DEF Init, PlateauInv, InLoop
<1>2. TypeOK /\ TypeOK' /\ PlateauInv /\ [Next]_vars => PlateauInv'
  BY PlateauInvStep
<1>3. TypeOK /\ PlateauInv => PlateauExact
  <2> SUFFICES ASSUME TypeOK, PlateauInv, pc = "check" PROVE PlateauExact
    BY DEF PlateauExact
  <2>1. /\ CreepIsBounded(early_stop, s_best, it) /\ LogAgrees(early_stop, log, s_best)
        /\ Len(log) = it /\ (plateau_stop <=> PatienceExhausted(early_stop, it))
    BY DEF PlateauInv, InLoop, LogIsComplete, FlagIsPatience
  <2>2. s_best \in Scores /\ it \in Nat /\ log \in Seq(Scores) /\ early_stop \in EarlyStops
    BY RunAssumption DEF TypeOK
  <2>3. Len(log) >= it
    BY <2>1, <2>2
  <2> QED BY <2>1, <2>2, <2>3, PatienceMeans DEF PlateauExact
<1> QED BY <1>1, <1>2, <1>3, TypeCorrect, PTL DEF Spec

-----------------------------------------------------------------------------
(* How solve ends.                                                            *)

\* The strengthening behind TargetHonoured and EndIsRecorded.  The span is open
\* exactly while the loop runs; the reason is none or no_improve until the loop is
\* left, then there is one, and it is target_score if the target was reached.
LoopReasons == {"none", "no_improve"}
FailureReasons == {"error", "unknown_runtime_reason"}

EndInv ==
  /\ pc = "start" => span = "unopened" /\ early_stop.reason = "none"
  /\ InLoop => span = "open" /\ early_stop.reason \in LoopReasons
  /\ pc = "loop" /\ it > 0 => ~ StopScoreReached(s_best)
  /\ pc = "finish" =>
       /\ span = "closed"
       /\ early_stop.reason \in {"target_score", "no_improve", "max_iterations_reached"}
       /\ (early_stop.reason = "target_score") = StopScoreReached(s_best)
  /\ pc = "done" =>
       /\ span # "open" /\ early_stop.reason \notin FailureReasons \cup {"none"}
       /\ sol.kind = "found" =>
            (sol.reason = "target_score") = StopScoreReached(s_best)
  /\ pc = "raised" => span # "open" /\ (span = "closed" => early_stop.reason # "none")

LEMMA EndInvStep ==
  ASSUME TypeOK, TypeOK', EndInv, [Next]_vars
  PROVE  EndInv'
<1> USE DEF InLoop, LoopReasons, FailureReasons
<1>t. early_stop \in EarlyStops /\ it \in Nat
  BY RunAssumption DEF TypeOK
<1>1. CASE TestKeyFastPath
  <2>1. /\ pc = "start" /\ span = "unopened" /\ pc' = "done" /\ span' = span
        /\ sol'.kind = "supplied" /\ early_stop'.reason = "test_key"
    BY <1>1, <1>t, WithReasonType DEF TestKeyFastPath, EndInv, Reasons
  <2> QED BY <2>1 DEF EndInv
<1>2. CASE Start
  <2>1. PICK s : early_stop' = EarlyStopReset(s)
    BY <1>2 DEF Start
  <2> QED BY <1>2, <2>1 DEF Start, EndInv, EarlyStopReset, TypeOK
<1>3. CASE Iterate
  <2>1. PICK s : early_stop' = EarlyStopUpdate(early_stop, s, it')
    BY <1>3, IterateFacts
  <2>2. early_stop'.reason \in LoopReasons
    BY <1>3, <1>t, <2>1 DEF Iterate, EndInv, EarlyStopUpdate, EarlyStops
  <2> QED BY <1>3, <2>2 DEF Iterate, EndInv
<1>4. CASE Reseed
  <2>1. \/ early_stop' = early_stop
        \/ \E s : early_stop' = EarlyStopUpdate(early_stop, s, it)
    BY <1>4 DEF Reseed
  <2>2. early_stop'.reason \in LoopReasons
    BY <1>4, <1>t, <2>1 DEF Reseed, EndInv, EarlyStopUpdate, EarlyStops
  <2> QED BY <1>4, <2>2 DEF Reseed, EndInv
<1>5. CASE Check
  <2>1. /\ early_stop'.reason = IF pc' = "loop" THEN early_stop.reason
                                ELSE IF StopScoreReached(s_best) THEN "target_score"
                                ELSE IF early_stop.reason = "none" THEN "max_iterations_reached"
                                ELSE early_stop.reason
        /\ pc' \in {"loop", "finish"} /\ (pc' = "loop" => ~ StopScoreReached(s_best))
        /\ span' = IF pc' = "loop" THEN span ELSE "closed"
        /\ UNCHANGED <<s_best, it>> /\ pc = "check"
    BY <1>5, <1>t DEF Check, ReasonAtEnd, WithReason, EarlyStops, best
  <2>2. StopScoreReached(s_best)' = StopScoreReached(s_best)
    BY <2>1 DEF StopScoreReached
  <2> QED BY <2>1, <2>2 DEF EndInv, StopScoreReached
<1>6. CASE Finish
  <2>1. /\ pc = "finish" /\ pc' = "done" /\ UNCHANGED <<span, early_stop, s_best>>
        /\ sol'.kind = "found" => sol'.reason = early_stop.reason
    BY <1>6 DEF Finish, best
  <2> QED BY <2>1 DEF EndInv, StopScoreReached
<1>7. CASE Raise
  <2>1. CASE pc = "start" /\ test_key # NoKey
    BY <1>7, <2>1 DEF Raise, EndInv
  <2>2. CASE ~ (pc = "start" /\ test_key # NoKey)
    <3>1. early_stop' \in ReasonOrError(early_stop) /\ pc' = "raised" /\ span' = "closed"
      BY <1>7, <2>2 DEF Raise
    <3>2. early_stop'.reason # "none"
      BY <1>t, <3>1 DEF EarlyStops, ReasonOrError, WithReason
    <3> QED BY <3>1, <3>2 DEF EndInv
  <2> QED BY <2>1, <2>2
<1>8. CASE Stopped \/ UNCHANGED vars
  BY <1>8 DEF Stopped, vars, best, EndInv, StopScoreReached
<1> QED BY <1>1, <1>2, <1>3, <1>4, <1>5, <1>6, <1>7, <1>8 DEF Next, Step

LEMMA EndInvHolds == Spec => []EndInv
<1>1. Init => EndInv
  BY DEF Init, EndInv, InLoop, EarlyStopReset
<1>2. TypeOK /\ TypeOK' /\ EndInv /\ [Next]_vars => EndInv'
  BY EndInvStep
<1> QED BY <1>1, <1>2, TypeCorrect, PTL DEF Spec

\* An iteration that reaches the target is the last, and a search that returns a
\* found key reports target_score exactly when the best it had before the final polish
\* reached the target: the plateau that may have fired in the same iteration does not
\* hide it.  Nothing is said of what the polish adds to the answer's score.
THEOREM TargetIsHonoured == Spec => []TargetHonoured
<1>1. EndInv => TargetHonoured
  BY DEF EndInv, TargetHonoured
<1> QED BY <1>1, EndInvHolds, PTL

\* However solve ends, the span it opened is closed, a search leaves a reason, and
\* an error is reported only by a call that raised.
THEOREM EndIsAlwaysRecorded == Spec => []EndIsRecorded
<1>1. EndInv => EndIsRecorded
  BY DEF EndInv, EndIsRecorded, FailureReasons
<1> QED BY <1>1, EndInvHolds, PTL

-----------------------------------------------------------------------------
(* The promise of a search, kept.                                             *)

\* What is scored are candidates, the incumbent is one that none of them beats, and
\* the answer is as good.
PromiseInv ==
  /\ seen \subseteq Abstract!Candidates
  /\ seen # {} => AbstractIncumbent \in seen /\ Tops(AbstractIncumbent, seen)
  /\ Abstract!AnswerDominates

\* Each step of the abstract search preserves that.
LEMMA PromiseStep ==
  ASSUME PromiseInv, [Abstract!Next]_(Abstract!vars)
  PROVE  PromiseInv'
<1> USE DEF PromiseInv, Abstract!AnswerDominates, Abstract!Dominates, Tops, AbstractIncumbent
<1>1. CASE Abstract!Explore
  BY <1>1, Zenon DEF Abstract!Explore, Abstract!Candidates
<1>2. CASE Abstract!Found
  <2>1. /\ seen # {} /\ UNCHANGED <<seen, AbstractIncumbent>>
        /\ Answer' \in [kind : {"found"}, cand : Abstract!Candidates]
        /\ Answer'.cand = AbstractIncumbent \/ Answer'.cand[2] > AbstractIncumbent[2]
    BY <1>2 DEF Abstract!Found
  <2>2. /\ Answer'.kind = "found" /\ Answer'.cand \in Abstract!Candidates
        /\ AbstractIncumbent \in Abstract!Candidates
    BY <2>1
  <2>3. Tops(Answer'.cand, seen)
    BY <2>1, <2>2, TopsIsMonotone DEF Abstract!Candidates
  <2> QED BY <2>1, <2>2, <2>3
<1>3. CASE Abstract!Rejected
  <2>1. /\ seen # {} /\ UNCHANGED <<seen, AbstractIncumbent>> /\ AbstractIncumbent[2] = -Inf
        /\ Answer'.kind = "rejected"
    BY <1>3 DEF Abstract!Rejected
  <2>2. \A c \in seen : c[2] = -Inf
    BY <2>1, RejectedIsAll DEF Abstract!Candidates
  <2> QED BY <2>1, <2>2
<1>4. CASE Abstract!Supplied
  BY <1>4 DEF Abstract!Supplied
<1>5. CASE Abstract!Raise
  BY <1>5 DEF Abstract!Raise
<1>6. CASE UNCHANGED Abstract!vars
  BY <1>6 DEF Abstract!vars
<1> QED BY <1>1, <1>2, <1>3, <1>4, <1>5, <1>6 DEF Abstract!Next

\* Annealing keeps its promise to the caller of solve: an answer it found is beaten
\* by no key it ever scored, and one it rejects means that all of them were.
THEOREM AnnealingAnswersWithTheBest == Spec => []Abstract!AnswerDominates
<1>1. Abstract!Init => PromiseInv
  BY DEF Abstract!Init, PromiseInv, Abstract!AnswerDominates, AbstractIncumbent
<1>2. PromiseInv /\ [Abstract!Next]_(Abstract!vars) => PromiseInv'
  BY PromiseStep
<1>3. PromiseInv => Abstract!AnswerDominates
  BY DEF PromiseInv
<1> QED BY <1>1, <1>2, <1>3, AnnealingImplementsSearch, PTL DEF ImplementsSearch, Abstract!Spec

=============================================================================
