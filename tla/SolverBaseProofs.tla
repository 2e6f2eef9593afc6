--------------------------- MODULE SolverBaseProofs ---------------------------
(* Facts about the operators every solver shares, for any keys, scores and    *)
(* settings: the early-stop record, local improvement and the stable top-k    *)
(* selection.                                                                 *)
EXTENDS SolverBase, FiniteSetTheorems, SequenceTheorems, TLAPS

-----------------------------------------------------------------------------
(* Scores and candidates.                                                     *)

\* Scores are integers between minus infinity and the bound.
LEMMA ScoreRange ==
  /\ Inf \in Nat \ {0} /\ NegInf \in Scores
  /\ \A s \in Scores : s \in Int /\ NegInf <= s /\ s < Inf
BY InfAssumption, SMT DEF Scores, NegInf

\* The components of a candidate.
LEMMA CandidateParts ==
  ASSUME NEW c \in Candidates
  PROVE  KeyOf(c) \in Keys /\ ScoreOf(c) \in Scores /\ c = <<KeyOf(c), ScoreOf(c)>>
BY DEF Candidates, KeyOf, ScoreOf

\* No candidate of a set beats this one.
Tops(c, S) == \A d \in S : d[2] <= c[2]

\* What is no worse than one that tops a set tops it too.
LEMMA TopsIsMonotone ==
  ASSUME NEW S \in SUBSET (Keys \X ((-Inf)..(Inf - 1))), NEW b \in Keys \X ((-Inf)..(Inf - 1)),
         NEW c \in Keys \X ((-Inf)..(Inf - 1)), Tops(b, S), c = b \/ c[2] > b[2]
  PROVE  Tops(c, S)
<1> SUFFICES ASSUME NEW d \in S PROVE d[2] <= c[2]
  BY DEF Tops
<1>1. d[2] \in Int /\ b[2] \in Int /\ c[2] \in Int
  BY InfAssumption
<1>2. d[2] <= b[2]
  BY DEF Tops
<1> QED BY <1>1, <1>2

\* If minus infinity tops a set, all of it is rejected.
LEMMA RejectedIsAll ==
  ASSUME NEW S \in SUBSET (Keys \X ((-Inf)..(Inf - 1))), NEW b, b[2] = -Inf, Tops(b, S)
  PROVE  \A c \in S : c[2] = -Inf
<1> SUFFICES ASSUME NEW c \in S PROVE c[2] = -Inf
  OBVIOUS
<1>1. c[2] \in Int /\ -Inf <= c[2] /\ c[2] <= -Inf
  BY InfAssumption DEF Tops
<1> QED BY <1>1, InfAssumption

\* Local improvement yields a candidate, never a worse one.
LEMMA LocalImproveFacts ==
  ASSUME NEW c \in Candidates, NEW f \in [Keys -> Scores], NEW d \in LocalImprove(c, f)
  PROVE  d \in Candidates /\ (d = c \/ ScoreOf(d) > ScoreOf(c))
<1>1. CASE d = c
  BY <1>1
<1>2. CASE d # c
  <2>1. PICK k \in Keys : f[k] > ScoreOf(c) /\ d = <<k, f[k]>>
    BY <1>2 DEF LocalImprove
  <2> QED BY <2>1 DEF Candidates, ScoreOf
<1> QED BY <1>1, <1>2

\* A start key is a key, and no seed beats it.
LEMMA StartKeyFacts ==
  ASSUME NEW seeds \in SUBSET Keys, NEW f \in [Keys -> Scores], NEW k \in StartKeys(seeds, f)
  PROVE  k \in Keys /\ \A j \in seeds : f[j] <= f[k]
BY DEF StartKeys

-----------------------------------------------------------------------------
(* The early-stop record.                                                     *)

\* It keeps its type.
LEMMA EarlyStopResetType ==
  ASSUME NEW s \in Scores
  PROVE  EarlyStopReset(s) \in EarlyStops
BY DEF EarlyStops, EarlyStopReset, Reasons

LEMMA EarlyStopTypes ==
  ASSUME NEW es \in EarlyStops, NEW s \in Scores, NEW step \in Nat
  PROVE  /\ EarlyStopUpdate(es, s, step) \in EarlyStops
         /\ PlateauFires(es, s, step) \in BOOLEAN
<1>1. EarlyStopUpdate(es, s, step) \in EarlyStops
  BY DEF EarlyStops, EarlyStopUpdate, Reasons
<1>2. PlateauFires(es, s, step) \in BOOLEAN
  BY DEF PlateauFires
<1> QED BY <1>1, <1>2

LEMMA WithReasonType ==
  ASSUME NEW es \in EarlyStops, NEW reason \in Reasons
  PROVE  /\ WithReason(es, reason) \in EarlyStops
         /\ WithReason(es, reason) = [best |-> es.best, at |-> es.at, reason |-> reason]
         /\ ReasonOrError(es) \subseteq EarlyStops
BY DEF EarlyStops, WithReason, ReasonOrError, Reasons

\* Its numbers.
LEMMA EarlyStopNumbers ==
  ASSUME NEW es \in EarlyStops
  PROVE  es.best \in Scores /\ es.best \in Int /\ es.at \in Nat /\ es.at \in Int
<1>1. es.best \in Scores /\ es.at \in Nat
  BY DEF EarlyStops
<1> QED BY <1>1, ScoreRange

LEMMA PlusDeltaFacts ==
  ASSUME NEW s \in Scores
  PROVE  /\ PlusDelta(s) \in Int /\ s <= PlusDelta(s)
         /\ \A t \in Scores : s <= t => PlusDelta(s) <= PlusDelta(t)
BY ScoreRange, PlateauAssumption DEF PlusDelta, IsFinite

\* Telling the record a score no smaller than the last one.  The reason becomes
\* no_improve exactly when the plateau stop fires.
LEMMA UpdateFacts ==
  ASSUME NEW es \in EarlyStops, NEW s \in Scores, NEW step \in Nat,
         es.at <= step, es.best <= s,
         NEW updated, updated = EarlyStopUpdate(es, s, step)
  PROVE  /\ updated.at <= step /\ updated.best <= s /\ s <= PlusDelta(updated.best)
         /\ (PlateauFires(es, s, step) <=> PatienceExhausted(updated, step))
         /\ \/ updated.at = step /\ updated.best = s /\ s > PlusDelta(es.best)
            \/ updated.at = es.at /\ updated.best = es.best
         /\ updated.reason = IF PlateauFires(es, s, step) THEN "no_improve" ELSE es.reason
<1>1. es.best \in Scores /\ es.at \in Nat /\ s \in Int
  BY ScoreRange DEF EarlyStops
<1>2. CASE IsImprovement(s, es.best)
  <2>1. updated.best = s /\ updated.at = step /\ updated.reason = es.reason
    BY <1>2 DEF EarlyStopUpdate, EarlyStops
  <2>2. ~ PlateauFires(es, s, step) /\ ~ PatienceExhausted(updated, step)
    BY <1>2, <2>1, PlateauAssumption DEF PlateauFires, PatienceExhausted
  <2>3. s > PlusDelta(es.best)
    BY <1>2 DEF IsImprovement
  <2>4. s <= PlusDelta(s) /\ step <= step /\ s <= s
    BY <1>1, PlusDeltaFacts
  <2> QED BY <2>1, <2>2, <2>3, <2>4
<1>3. CASE ~ IsImprovement(s, es.best)
  <2>1. /\ updated.best = es.best /\ updated.at = es.at
        /\ updated.reason = IF PatienceExhausted(es, step) THEN "no_improve" ELSE es.reason
    BY <1>3 DEF EarlyStopUpdate, EarlyStops
  <2>2. /\ PlateauFires(es, s, step) <=> PatienceExhausted(updated, step)
        /\ PlateauFires(es, s, step) <=> PatienceExhausted(es, step)
    BY <1>3, <2>1 DEF PlateauFires, PatienceExhausted
  <2>3. PlusDelta(es.best) \in Int
    BY <1>1, PlusDeltaFacts
  <2>4. s <= PlusDelta(es.best)
    BY <1>1, <1>3, <2>3 DEF IsImprovement
  <2> QED BY <2>1, <2>2, <2>4
<1> QED BY <1>2, <1>3

-----------------------------------------------------------------------------
(* The record and the best score of every round: lg[i] is the best score after*)
(* round i - 1.  The score the plateau is measured against was reached es.at  *)
(* rounds into the search and beats everything before, and the best score has *)
(* crept at most MinDelta above it since.                                     *)

CreepIsBounded(es, top, step) ==
  /\ es.at <= step
  /\ es.best <= top
  /\ top <= PlusDelta(es.best)

LogAgrees(es, lg, top) ==
  \A i \in 1..Len(lg) :
    /\ lg[i] <= top
    /\ i - 1 < es.at => lg[i] < es.best
    /\ i - 1 >= es.at => es.best <= lg[i]

\* A record that was just reset agrees with the one score there is.
LEMMA LogAfterReset ==
  ASSUME NEW s \in Scores
  PROVE  /\ LogAgrees(EarlyStopReset(s), <<s>>, s)
         /\ CreepIsBounded(EarlyStopReset(s), s, 0)
<1>1. s \in Int /\ s <= PlusDelta(s)
  BY ScoreRange, PlusDeltaFacts
<1> QED BY <1>1 DEF LogAgrees, CreepIsBounded, EarlyStopReset

\* A log that agreed with the record agrees with the updated one.
LEMMA LogAfterUpdate ==
  ASSUME NEW es \in EarlyStops, NEW lg \in Seq(Scores), NEW top \in Scores,
         NEW new \in Scores, top <= new, NEW step \in Nat, NEW last \in Nat, last <= step,
         LogAgrees(es, lg, top), CreepIsBounded(es, top, last), Len(lg) <= step,
         NEW updated, updated = EarlyStopUpdate(es, new, step)
  PROVE  LogAgrees(updated, lg, new) /\ CreepIsBounded(updated, new, step)
<1>1. /\ es.best \in Scores /\ es.at \in Nat /\ es.best \in Int /\ es.at \in Int
      /\ top \in Int /\ new \in Int
  BY ScoreRange, EarlyStopNumbers
<1>2. es.at <= step /\ es.best <= new
  BY <1>1 DEF CreepIsBounded
<1>3. /\ updated.at <= step /\ updated.best <= new /\ new <= PlusDelta(updated.best)
      /\ \/ updated.at = step /\ updated.best = new /\ new > PlusDelta(es.best)
         \/ updated.at = es.at /\ updated.best = es.best
  BY <1>2, UpdateFacts
<1>4. PlusDelta(es.best) \in Int
  BY <1>1, PlusDeltaFacts
<1>5. \A i \in 1..Len(lg) : lg[i] \in Int
  BY ScoreRange
<1>6. LogAgrees(updated, lg, new)
  <2> SUFFICES ASSUME NEW i \in 1..Len(lg)
               PROVE  /\ lg[i] <= new
                      /\ i - 1 < updated.at => lg[i] < updated.best
                      /\ i - 1 >= updated.at => updated.best <= lg[i]
    BY DEF LogAgrees
  <2>1. /\ lg[i] <= top
        /\ i - 1 < es.at => lg[i] < es.best
        /\ i - 1 >= es.at => es.best <= lg[i]
    BY DEF LogAgrees
  <2>2. i - 1 < step
    <3>1. Len(lg) \in Nat
      OBVIOUS
    <3> QED BY <3>1
  <2> QED BY <1>1, <1>3, <1>4, <1>5, <2>1, <2>2 DEF CreepIsBounded
<1> QED BY <1>3, <1>6 DEF CreepIsBounded

\* Appending the best score of the round.
LEMMA LogAfterAppend ==
  ASSUME NEW es \in EarlyStops, NEW lg \in Seq(Scores), NEW top \in Scores,
         NEW step \in Nat, Len(lg) = step,
         LogAgrees(es, lg, top), CreepIsBounded(es, top, step)
  PROVE  LogAgrees(es, Append(lg, top), top)
<1>1. /\ es.best \in Int /\ es.at \in Int /\ top \in Int
      /\ Len(Append(lg, top)) = step + 1
  BY ScoreRange, EarlyStopNumbers
<1> SUFFICES ASSUME NEW i \in 1..Len(Append(lg, top))
             PROVE  /\ Append(lg, top)[i] <= top
                    /\ i - 1 < es.at => Append(lg, top)[i] < es.best
                    /\ i - 1 >= es.at => es.best <= Append(lg, top)[i]
  BY DEF LogAgrees
<1>2. CASE i = step + 1
  <2>1. Append(lg, top)[i] = top
    BY <1>2
  <2> QED BY <1>1, <1>2, <2>1 DEF CreepIsBounded
<1>3. CASE i # step + 1
  <2>1. i \in 1..Len(lg) /\ Append(lg, top)[i] = lg[i]
    BY <1>1, <1>3
  <2> QED BY <2>1 DEF LogAgrees
<1> QED BY <1>2, <1>3

\* What the record's patience says of the score PlateauRounds rounds ago.
LEMMA PatienceMeans ==
  ASSUME NEW es \in EarlyStops, NEW lg \in Seq(Scores), NEW top \in Scores,
         NEW step \in Nat, Len(lg) >= step,
         LogAgrees(es, lg, top), CreepIsBounded(es, top, step)
  PROVE  IF PatienceExhausted(es, step)
           THEN /\ PlateauRounds > 0 /\ step >= PlateauRounds
                /\ top <= PlusDelta(lg[step - PlateauRounds + 1])
           ELSE PlateauRounds > 0 /\ step >= PlateauRounds
                  => top # lg[step - PlateauRounds + 1]
<1> DEFINE i == step - PlateauRounds + 1
<1>1. /\ top \in Int /\ es.best \in Scores /\ es.best \in Int /\ es.at \in Nat
      /\ PlateauRounds \in Nat /\ Len(lg) \in Nat
  BY ScoreRange, EarlyStopNumbers, PlateauAssumption
<1>2. CASE ~ (PlateauRounds > 0 /\ step >= PlateauRounds)
  BY <1>1, <1>2 DEF PatienceExhausted
<1>3. CASE PlateauRounds > 0 /\ step >= PlateauRounds
  <2>1. i \in 1..Len(lg) /\ lg[i] \in Scores
    BY <1>1, <1>3
  <2>2. lg[i] \in Int
    BY <2>1, ScoreRange
  <2>3. /\ i - 1 < es.at => lg[i] < es.best
        /\ i - 1 >= es.at => es.best <= lg[i]
    BY <2>1 DEF LogAgrees
  <2>4. PatienceExhausted(es, step) <=> i - 1 >= es.at
    BY <1>1, <1>3 DEF PatienceExhausted
  <2>5. CASE PatienceExhausted(es, step)
    <3>1. PlusDelta(es.best) <= PlusDelta(lg[i])
      BY <1>1, <2>1, <2>3, <2>4, <2>5, PlusDeltaFacts
    <3>2. PlusDelta(es.best) \in Int /\ PlusDelta(lg[i]) \in Int
      BY <1>1, <2>1, PlusDeltaFacts
    <3>3. top <= PlusDelta(lg[i])
      BY <1>1, <3>1, <3>2 DEF CreepIsBounded
    <3> QED BY <1>3, <2>5, <3>3
  <2>6. CASE ~ PatienceExhausted(es, step)
    <3>1. lg[i] < es.best
      BY <1>1, <2>3, <2>4, <2>6
    <3>2. top # lg[i]
      BY <1>1, <2>2, <3>1 DEF CreepIsBounded
    <3> QED BY <2>6, <3>2
  <2> QED BY <2>5, <2>6
<1> QED BY <1>2, <1>3

-----------------------------------------------------------------------------
(* Induction, said of sets.                                                   *)

\* A set that holds 0 and with a number the next one, up to n.
LEMMA IntervalInduction ==
  ASSUME NEW n \in Nat, NEW S, 0 \in S, \A m \in 0..(n - 1) : m \in S => m + 1 \in S
  PROVE  0..n \subseteq S
<1> DEFINE T == (0..n) \ S
           R == OpToRel(<, Nat)
<1>1. \A x, y \in Nat : x < y => <<x, y>> \in R
  BY DEF OpToRel
<1> SUFFICES ASSUME T # {} PROVE FALSE
  OBVIOUS
<1>2. PICK x \in T : \A y \in T : ~ (<<y, x>> \in R)
  <2>1. T \subseteq Nat
    OBVIOUS
  <2> HIDE DEF T, R
  <2> QED BY <2>1, NatLessThanWellFounded, WFMin DEF R
<1> HIDE DEF R
<1>3. x \in 1..n /\ x - 1 \in 0..(n - 1)
  BY DEF T
<1>4. x - 1 \notin T
  <2>1. x \in Nat /\ x - 1 \in Nat /\ x - 1 < x
    BY <1>3
  <2>2. <<x - 1, x>> \in R
    BY <1>1, <2>1
  <2> QED BY <1>2, <2>2
<1> QED BY <1>3, <1>4

\* Of some keys, however many, one scores best: scores are bounded.
LEMMA BestExists ==
  ASSUME NEW f \in [Keys -> Scores], NEW b \in SUBSET Keys, b # {}
  PROVE  \E k \in b : \A j \in b : f[j] <= f[k]
<1> DEFINE Gap(k) == Inf - f[k]
           T == {Gap(k) : k \in b}
           R == OpToRel(<, Nat)
<1>1. \A x, y \in Nat : x < y => <<x, y>> \in R
  BY DEF OpToRel
<1>2. \A k \in b : f[k] \in Int /\ Gap(k) \in Nat
  BY ScoreRange
<1>3. T \subseteq Nat /\ T # {}
  BY <1>2
<1>4. PICK x \in T : \A y \in T : ~ (<<y, x>> \in R)
  <2> HIDE DEF T, R
  <2> QED BY <1>3, NatLessThanWellFounded, WFMin DEF R
<1> HIDE DEF R
<1>5. PICK k \in b : x = Gap(k)
  OBVIOUS
<1>6. ASSUME NEW j \in b PROVE f[j] <= f[k]
  <2>1. ~ Gap(j) < Gap(k)
    BY <1>1, <1>2, <1>4, <1>5
  <2> QED BY <1>2, <2>1, InfAssumption
<1> QED BY <1>6

-----------------------------------------------------------------------------
(* The stable top-k selection.                                                *)

\* So many numbers.
LEMMA IntervalSize ==
  ASSUME NEW n \in Nat
  PROVE  /\ IsFiniteSet(1..n) /\ Cardinality(1..n) = n
         /\ IsFiniteSet(0..(n - 1)) /\ Cardinality(0..(n - 1)) = n
<1>1. 1 \in Int /\ n \in Int /\ 0 \in Int /\ n - 1 \in Int
  OBVIOUS
<1>2. /\ IsFiniteSet(1..n) /\ Cardinality(1..n) = IF 1 > n THEN 0 ELSE n - 1 + 1
      /\ IsFiniteSet(0..(n - 1))
      /\ Cardinality(0..(n - 1)) = IF 0 > n - 1 THEN 0 ELSE n - 1 - 0 + 1
  BY <1>1, FS_Interval, Zenon
<1> QED BY <1>2

LEMMA ShiftedIntervalSize ==
  ASSUME NEW n \in Nat, NEW from \in Nat
  PROVE  /\ IsFiniteSet((from + 1)..(from + n))
         /\ Cardinality((from + 1)..(from + n)) = n
<1> DEFINE a == from + 1
           b == from + n
<1>1. a \in Int /\ b \in Int
  OBVIOUS
<1> HIDE DEF a, b
<1>2. IsFiniteSet(a..b) /\ Cardinality(a..b) = IF a > b THEN 0 ELSE b - a + 1
  BY <1>1, FS_Interval, Zenon
<1> QED BY <1>2 DEF a, b

Rank(cands, i) == Cardinality({j \in DOMAIN cands : Precedes(cands, j, i)})

\* Preference is a strict total order of the positions.
LEMMA PrecedesIsOrder ==
  ASSUME NEW cands \in Seq(Candidates)
  PROVE  /\ \A i \in DOMAIN cands : ~ Precedes(cands, i, i)
         /\ \A i, j \in DOMAIN cands :
              i # j => Precedes(cands, i, j) \/ Precedes(cands, j, i)
         /\ \A i, j \in DOMAIN cands : ~ (Precedes(cands, i, j) /\ Precedes(cands, j, i))
         /\ \A h, i, j \in DOMAIN cands :
              Precedes(cands, h, i) /\ Precedes(cands, i, j) => Precedes(cands, h, j)
<1>1. \A i \in DOMAIN cands : ScoreOf(cands[i]) \in Int /\ i \in Int
  <2>1. DOMAIN cands = 1..Len(cands) /\ \A i \in DOMAIN cands : cands[i] \in Candidates
    OBVIOUS
  <2> QED BY <2>1, CandidateParts, ScoreRange
<1> QED BY <1>1 DEF Precedes

\* The rank of a position counts what is preferred to it.
LEMMA RankRange ==
  ASSUME NEW cands \in Seq(Candidates), NEW i \in DOMAIN cands
  PROVE  Rank(cands, i) \in 0..(Len(cands) - 1)
<1> DEFINE D == DOMAIN cands
           P == {j \in D : Precedes(cands, j, i)}
<1>1. D = 1..Len(cands) /\ Len(cands) \in Nat
  OBVIOUS
<1>2. IsFiniteSet(D) /\ Cardinality(D) = Len(cands)
  BY <1>1, IntervalSize
<1>3. P \in SUBSET D /\ P # D
  BY PrecedesIsOrder
<1>4. IsFiniteSet(P) /\ Cardinality(P) \in Nat /\ Cardinality(P) <= Len(cands)
      /\ Cardinality(P) # Len(cands)
  <2> HIDE DEF P, D
  <2> QED BY <1>2, <1>3, FS_Subset, FS_CardinalityType
<1> QED BY <1>1, <1>4 DEF Rank

LEMMA RankIsStrict ==
  ASSUME NEW cands \in Seq(Candidates), NEW i \in DOMAIN cands, NEW j \in DOMAIN cands
  PROVE  Precedes(cands, j, i) <=> Rank(cands, j) < Rank(cands, i)
<1> DEFINE D == DOMAIN cands
           P(n) == {h \in D : Precedes(cands, h, n)}
<1>1. IsFiniteSet(D)
  BY IntervalSize
<1>2. ASSUME NEW x \in D, NEW y \in D, Precedes(cands, x, y)
      PROVE  Rank(cands, x) < Rank(cands, y)
  <2>1. P(x) \in SUBSET P(y) /\ x \in P(y) /\ x \notin P(x)
    BY <1>2, PrecedesIsOrder
  <2>2. IsFiniteSet(P(x)) /\ IsFiniteSet(P(y))
    BY <1>1, FS_Subset
  <2>3. /\ Cardinality(P(x)) \in Nat /\ Cardinality(P(y)) \in Nat
        /\ Cardinality(P(x)) <= Cardinality(P(y))
        /\ Cardinality(P(x)) # Cardinality(P(y))
    <3> HIDE DEF P
    <3> QED BY <2>1, <2>2, FS_Subset, FS_CardinalityType
  <2> QED BY <2>3 DEF Rank
<1>3. Rank(cands, i) \in Int /\ Rank(cands, j) \in Int
  BY RankRange
<1>4. i = j \/ Precedes(cands, i, j) \/ Precedes(cands, j, i)
  BY PrecedesIsOrder
<1> QED BY <1>2, <1>3, <1>4, PrecedesIsOrder

\* Every rank is taken: as many positions as ranks, and no two of the same rank.
LEMMA RankIsOnto ==
  ASSUME NEW cands \in Seq(Candidates), NEW n \in 0..(Len(cands) - 1)
  PROVE  \E i \in DOMAIN cands : Rank(cands, i) = n
<1> DEFINE D == DOMAIN cands
           N == 0..(Len(cands) - 1)
           f == [i \in D |-> Rank(cands, i)]
<1>1. D = 1..Len(cands) /\ Len(cands) \in Nat
  OBVIOUS
<1>2. IsFiniteSet(N) /\ Cardinality(N) = Len(cands) /\ Cardinality(D) = Len(cands)
  BY <1>1, IntervalSize
<1>3. f \in [D -> N]
  BY RankRange
<1>4. \A i, j \in D : Rank(cands, i) = Rank(cands, j) => i = j
  <2> SUFFICES ASSUME NEW i \in D, NEW j \in D, i # j
               PROVE  Rank(cands, i) # Rank(cands, j)
    OBVIOUS
  <2>1. Precedes(cands, i, j) \/ Precedes(cands, j, i)
    BY PrecedesIsOrder
  <2>2. Rank(cands, i) \in Int /\ Rank(cands, j) \in Int
    BY RankRange
  <2> QED BY <2>1, <2>2, RankIsStrict
<1>5. f \in Injection(D, N)
  BY <1>3, <1>4 DEF Injection, IsInjective
<1>6. f \in Surjection(D, N)
  <2> HIDE DEF f, D, N
  <2> QED BY <1>2, <1>5, FS_Injection
<1> QED BY <1>6 DEF Surjection

\* What the selection returns: the positions in order of preference, as many as
\* are wanted and there are; whatever is left out is preferred to none of them.
LEMMA StableTopKFacts ==
  ASSUME NEW cands \in Seq(Candidates), NEW k \in Nat,
         NEW size, size = IF k < Len(cands) THEN k ELSE Len(cands)
  PROVE  /\ StableTopK(cands, k) \in Seq(Candidates) /\ Len(StableTopK(cands, k)) = size
         /\ \E f \in [1..size -> DOMAIN cands] :
              /\ \A n \in 1..size : StableTopK(cands, k)[n] = cands[f[n]]
              /\ \A m, n \in 1..size : m < n => Precedes(cands, f[m], f[n])
              /\ \A i \in DOMAIN cands :
                   \/ \E n \in 1..size : f[n] = i
                   \/ \A n \in 1..size : Precedes(cands, f[n], i)
<1> DEFINE rank == [i \in DOMAIN cands |->
                      Cardinality({j \in DOMAIN cands : Precedes(cands, j, i)})]
           f == [n \in 1..size |-> CHOOSE i \in DOMAIN cands : rank[i] = n - 1]
           top == [n \in 1..size |-> cands[f[n]]]
<1>1. size \in Nat /\ size <= Len(cands) /\ Len(cands) \in Nat
      /\ \A i \in DOMAIN cands : cands[i] \in Candidates
  OBVIOUS
<1>2. StableTopK(cands, k) = top
  BY DEF StableTopK
<1>3. \A i \in DOMAIN cands : rank[i] = Rank(cands, i)
  BY DEF Rank
<1> HIDE DEF rank
<1>4. ASSUME NEW n \in 1..size
      PROVE  f[n] \in DOMAIN cands /\ Rank(cands, f[n]) = n - 1
  <2>1. n - 1 \in 0..(Len(cands) - 1)
    BY <1>1
  <2>2. \E i \in DOMAIN cands : rank[i] = n - 1
    BY <2>1, <1>3, RankIsOnto
  <2> QED BY <2>2, <1>3
<1> HIDE DEF f
<1>5. f \in [1..size -> DOMAIN cands]
  BY <1>4 DEF f
<1>6. top \in Seq(Candidates) /\ Len(top) = size
  BY <1>1, <1>5
<1>7. ASSUME NEW m \in 1..size, NEW n \in 1..size, m < n
      PROVE  Precedes(cands, f[m], f[n])
  BY <1>4, <1>7, RankIsStrict
<1>8. ASSUME NEW i \in DOMAIN cands, \A n \in 1..size : f[n] # i
      PROVE  \A n \in 1..size : Precedes(cands, f[n], i)
  <2> SUFFICES ASSUME NEW n \in 1..size PROVE Precedes(cands, f[n], i)
    OBVIOUS
  <2>1. Rank(cands, i) \in 0..(Len(cands) - 1)
    BY RankRange
  <2>2. Rank(cands, i) >= size
    <3> SUFFICES ASSUME Rank(cands, i) < size PROVE FALSE
      BY <1>1, <2>1
    <3> DEFINE m == Rank(cands, i) + 1
    <3>1. m \in 1..size
      BY <1>1, <2>1
    <3>2. Rank(cands, f[m]) = Rank(cands, i) /\ f[m] \in DOMAIN cands /\ f[m] # i
      BY <1>4, <1>8, <2>1, <3>1
    <3>3. Precedes(cands, f[m], i) \/ Precedes(cands, i, f[m])
      BY <3>2, PrecedesIsOrder
    <3> QED BY <2>1, <3>2, <3>3, RankIsStrict
  <2>3. Rank(cands, f[n]) < Rank(cands, i) /\ f[n] \in DOMAIN cands
    BY <1>1, <1>4, <2>1, <2>2
  <2> QED BY <2>3, RankIsStrict
<1>9. \A n \in 1..size : top[n] = cands[f[n]]
  OBVIOUS
<1> HIDE DEF top
<1> QED BY <1>1, <1>2, <1>5, <1>6, <1>7, <1>8, <1>9

\* The selection is in order of score, it holds nothing new, and what is not in it
\* scores no more than its last.
LEMMA StableTopKIsBest ==
  ASSUME NEW cands \in Seq(Candidates), NEW k \in Nat \ {0}, Len(cands) >= k,
         NEW top, top = StableTopK(cands, k)
  PROVE  /\ top \in Seq(Candidates) /\ Len(top) = k
         /\ \A n \in 1..k : \E i \in DOMAIN cands : top[n] = cands[i]
         /\ \A m, n \in 1..k : m <= n => ScoreOf(top[m]) >= ScoreOf(top[n])
         /\ \A i \in DOMAIN cands :
              \/ \E n \in 1..k : top[n] = cands[i]
              \/ ScoreOf(cands[i]) <= ScoreOf(top[k])
<1>1. k = IF k < Len(cands) THEN k ELSE Len(cands)
  OBVIOUS
<1>2. top \in Seq(Candidates) /\ Len(top) = k
  BY <1>1, StableTopKFacts
<1>3. PICK f \in [1..k -> DOMAIN cands] :
           /\ \A n \in 1..k : top[n] = cands[f[n]]
           /\ \A m, n \in 1..k : m < n => Precedes(cands, f[m], f[n])
           /\ \A i \in DOMAIN cands :
                \/ \E n \in 1..k : f[n] = i
                \/ \A n \in 1..k : Precedes(cands, f[n], i)
  <2>1. k \in Nat
    OBVIOUS
  <2>2. \E f \in [1..k -> DOMAIN cands] :
           /\ \A n \in 1..k : StableTopK(cands, k)[n] = cands[f[n]]
           /\ \A m, n \in 1..k : m < n => Precedes(cands, f[m], f[n])
           /\ \A i \in DOMAIN cands :
                \/ \E n \in 1..k : f[n] = i
                \/ \A n \in 1..k : Precedes(cands, f[n], i)
    BY <1>1, <2>1, StableTopKFacts, Zenon
  <2> QED BY <2>2, Zenon
<1>4. \A i \in DOMAIN cands : ScoreOf(cands[i]) \in Int
  BY CandidateParts, ScoreRange
<1>5. \A i, j \in DOMAIN cands : Precedes(cands, i, j) => ScoreOf(cands[i]) >= ScoreOf(cands[j])
  BY <1>4 DEF Precedes
<1>6. \A m, n \in 1..k : m <= n => ScoreOf(top[m]) >= ScoreOf(top[n])
  <2> SUFFICES ASSUME NEW m \in 1..k, NEW n \in 1..k, m <= n
               PROVE  ScoreOf(top[m]) >= ScoreOf(top[n])
    OBVIOUS
  <2>1. CASE m = n
    BY <1>3, <1>4, <2>1
  <2>2. CASE m < n
    BY <1>3, <1>5, <2>2
  <2> QED BY <2>1, <2>2
<1>7. k \in 1..k
  OBVIOUS
<1>8. \A n \in 1..k : \E i \in DOMAIN cands : top[n] = cands[i]
  BY <1>3
<1>9. ASSUME NEW i \in DOMAIN cands
      PROVE  (\E n \in 1..k : top[n] = cands[i]) \/ ScoreOf(cands[i]) <= ScoreOf(top[k])
  BY <1>3, <1>4, <1>5, <1>7
<1> QED BY <1>2, <1>6, <1>8, <1>9

\* If n positions hold candidates at least as good as t, so do the first n selected.
LEMMA StableTopKThreshold ==
  ASSUME NEW cands \in Seq(Candidates), NEW k \in Nat, Len(cands) >= k,
         NEW n \in 1..k, NEW t \in Int,
         NEW G \in SUBSET (DOMAIN cands), Cardinality(G) >= n,
         \A i \in G : ScoreOf(cands[i]) >= t
  PROVE  ScoreOf(StableTopK(cands, k)[n]) >= t
<1> DEFINE top == StableTopK(cands, k)
<1>1. k = IF k < Len(cands) THEN k ELSE Len(cands)
  OBVIOUS
<1>2. PICK f \in [1..k -> DOMAIN cands] :
           /\ \A m \in 1..k : top[m] = cands[f[m]]
           /\ \A l, m \in 1..k : l < m => Precedes(cands, f[l], f[m])
           /\ \A i \in DOMAIN cands :
                \/ \E m \in 1..k : f[m] = i
                \/ \A m \in 1..k : Precedes(cands, f[m], i)
  <2>1. \E f \in [1..k -> DOMAIN cands] :
           /\ \A m \in 1..k : StableTopK(cands, k)[m] = cands[f[m]]
           /\ \A l, m \in 1..k : l < m => Precedes(cands, f[l], f[m])
           /\ \A i \in DOMAIN cands :
                \/ \E m \in 1..k : f[m] = i
                \/ \A m \in 1..k : Precedes(cands, f[m], i)
    BY <1>1, StableTopKFacts, Zenon
  <2> QED BY <2>1, Zenon
<1>3. \A i \in DOMAIN cands : ScoreOf(cands[i]) \in Int
  BY CandidateParts, ScoreRange
<1>4. \A i, j \in DOMAIN cands : Precedes(cands, i, j) => ScoreOf(cands[i]) >= ScoreOf(cands[j])
  BY <1>3 DEF Precedes
<1> HIDE DEF top
<1> SUFFICES ASSUME ~ ScoreOf(top[n]) >= t PROVE FALSE
  BY DEF top
<1> DEFINE P == 1..(n - 1)
           T == {f[m] : m \in P}
           g == [m \in P |-> f[m]]
<1>5. ScoreOf(cands[f[n]]) < t /\ f[n] \in DOMAIN cands
  BY <1>2, <1>3
<1>6. ASSUME NEW i \in G PROVE i \in T
  <2>1. ScoreOf(cands[i]) >= t /\ ScoreOf(cands[i]) \in Int /\ i \in DOMAIN cands
    BY <1>3
  <2>2. ~ Precedes(cands, f[n], i)
    BY <1>3, <1>4, <1>5, <2>1
  <2>3. PICK m \in 1..k : f[m] = i
    BY <1>2, <2>1, <2>2
  <2>4. ~ n < m
    BY <1>2, <1>3, <1>4, <1>5, <2>1, <2>3
  <2>5. n # m
    BY <1>3, <1>5, <2>1, <2>3
  <2> QED BY <2>3, <2>4, <2>5
<1>7. IsFiniteSet(P) /\ Cardinality(P) = n - 1
  <2>1. n - 1 \in Nat
    OBVIOUS
  <2> QED BY <2>1, IntervalSize
<1>8. g \in Surjection(P, T)
  BY DEF Surjection
<1> HIDE DEF P, T, g
<1>9. IsFiniteSet(T) /\ Cardinality(T) <= n - 1
  BY <1>7, <1>8, FS_Surjection
<1>10. IsFiniteSet(G) /\ Cardinality(G) <= Cardinality(T)
  BY <1>6, <1>9, FS_Subset
<1>11. Cardinality(T) \in Nat /\ Cardinality(G) \in Nat
  BY <1>9, <1>10, FS_CardinalityType
<1> QED BY <1>9, <1>10, <1>11

\* Nothing is preferred to the first selected.
LEMMA StableTopKHead ==
  ASSUME NEW cands \in Seq(Candidates), NEW k \in Nat \ {0}, Len(cands) >= k,
         NEW top, top = StableTopK(cands, k)
  PROVE  \E h \in DOMAIN cands :
           top[1] = cands[h] /\ \A i \in DOMAIN cands : ~ Precedes(cands, i, h)
<1>1. k = IF k < Len(cands) THEN k ELSE Len(cands)
  OBVIOUS
<1>2. PICK f \in [1..k -> DOMAIN cands] :
           /\ \A m \in 1..k : top[m] = cands[f[m]]
           /\ \A l, m \in 1..k : l < m => Precedes(cands, f[l], f[m])
           /\ \A i \in DOMAIN cands :
                \/ \E m \in 1..k : f[m] = i
                \/ \A m \in 1..k : Precedes(cands, f[m], i)
  <2>1. k \in Nat
    OBVIOUS
  <2>2. \E f \in [1..k -> DOMAIN cands] :
           /\ \A m \in 1..k : StableTopK(cands, k)[m] = cands[f[m]]
           /\ \A l, m \in 1..k : l < m => Precedes(cands, f[l], f[m])
           /\ \A i \in DOMAIN cands :
                \/ \E m \in 1..k : f[m] = i
                \/ \A m \in 1..k : Precedes(cands, f[m], i)
    BY <1>1, <2>1, StableTopKFacts, Zenon
  <2> QED BY <2>2, Zenon
<1>3. 1 \in 1..k
  OBVIOUS
<1>4. f[1] \in DOMAIN cands /\ top[1] = cands[f[1]]
  BY <1>2, <1>3
<1>5. ASSUME NEW i \in DOMAIN cands, i # f[1]
      PROVE  Precedes(cands, f[1], i)
  <2>1. CASE \E m \in 1..k : f[m] = i
    <3>1. PICK m \in 1..k : f[m] = i
      BY <2>1
    <3>2. m = 1 \/ 1 < m
      OBVIOUS
    <3> QED BY <1>2, <1>3, <1>5, <3>1, <3>2
  <2> QED BY <1>2, <1>3, <2>1
<1>6. \A i \in DOMAIN cands : ~ Precedes(cands, i, f[1])
  BY <1>4, <1>5, PrecedesIsOrder
<1> QED BY <1>4, <1>6

\* The first selected is the first there is or strictly better.
LEMMA StableTopKFirst ==
  ASSUME NEW cands \in Seq(Candidates), NEW k \in Nat \ {0}, Len(cands) >= k,
         NEW top, top = StableTopK(cands, k)
  PROVE  top[1] = cands[1] \/ ScoreOf(top[1]) > ScoreOf(cands[1])
<1>1. PICK h \in DOMAIN cands :
           top[1] = cands[h] /\ \A i \in DOMAIN cands : ~ Precedes(cands, i, h)
  BY StableTopKHead
<1>2. 1 \in DOMAIN cands /\ ~ h < 1
  OBVIOUS
<1>3. h = 1 \/ Precedes(cands, h, 1)
  BY <1>1, <1>2, PrecedesIsOrder
<1> QED BY <1>1, <1>2, <1>3 DEF Precedes
=============================================================================
