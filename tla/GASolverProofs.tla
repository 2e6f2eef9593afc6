---------------------------- MODULE GASolverProofs ----------------------------
(* What GASolver is proved to do, for every population size, number of elites *)
(* and generations, every landscape and ramp: its type, that its population   *)
(* is the best of what it scored, that elites take it over, that the reason   *)
(* it reports is why it stopped, and that it implements Search.               *)
EXTENDS GASolver, SolverBaseProofs, TLAPS

-----------------------------------------------------------------------------
(* Facts about the operators.                                                 *)

\* A key has a score at every weight.
LEMMA KeyScore ==
  ASSUME landscape \in Landscapes, NEW w \in Weights
  PROVE  landscape[w] \in [Keys -> Scores]
BY PopulationAssumption

\* Scoring keys gives as many candidates.
LEMMA ScoredFacts ==
  ASSUME landscape \in Landscapes, NEW w \in Weights, NEW n \in Nat, NEW keys \in [1..n -> Keys]
  PROVE  /\ Scored(keys, w) \in Seq(Candidates) /\ Len(Scored(keys, w)) = n
         /\ DOMAIN Scored(keys, w) = 1..n
         /\ \A i \in 1..n : Scored(keys, w)[i] = <<keys[i], landscape[w][keys[i]]>>
BY KeyScore DEF Scored, Candidates

\* Ordering candidates keeps them all and puts the best first.
LEMMA OrderingFacts ==
  ASSUME NEW cands \in Seq(Candidates), NEW o \in Orderings(cands)
  PROVE  /\ o \in Seq(Candidates) /\ Len(o) = Len(cands)
         /\ Members(o) = Members(cands)
         /\ \A i, j \in 1..Len(cands) : i < j => ScoreOf(o[i]) >= ScoreOf(o[j])
<1>1. PICK f \in Bijection(DOMAIN cands, DOMAIN cands) : o = [i \in DOMAIN cands |-> cands[f[i]]]
  BY DEF Orderings
<1>2. /\ f \in [DOMAIN cands -> DOMAIN cands]
      /\ \A j \in DOMAIN cands : \E i \in DOMAIN cands : f[i] = j
  BY DEF Bijection, Surjection
<1>3. DOMAIN cands = 1..Len(cands) /\ Len(cands) \in Nat
      /\ \A i \in DOMAIN cands : cands[i] \in Candidates
  OBVIOUS
<1>4. o \in Seq(Candidates) /\ Len(o) = Len(cands)
  BY <1>1, <1>2, <1>3
<1>5. Members(o) = Members(cands)
  BY <1>1, <1>2 DEF Members
<1> QED BY <1>1, <1>3, <1>4, <1>5 DEF Orderings

\* The competitors: the elites, the population, the children; the population's
\* first is always the first of them.
LEMMA PoolFacts ==
  ASSUME TypeOK, pop # <<>>, NEW ch \in Seq(Candidates)
  PROVE  /\ Pool(ch) \in Seq(Candidates) /\ Len(Pool(ch)) = Elites + PopSize + Len(ch)
         /\ \A i \in 1..PopSize : Pool(ch)[Elites + i] = pop[i]
         /\ \A i \in 1..Len(ch) : Pool(ch)[Elites + PopSize + i] = ch[i]
         /\ Pool(ch)[1] = pop[1]
         /\ \A i \in 1..Len(Pool(ch)) :
              \/ \E j \in 1..PopSize : Pool(ch)[i] = pop[j]
              \/ \E j \in 1..Len(ch) : Pool(ch)[i] = ch[j]
<1>1. /\ pop \in Seq(Candidates) /\ Len(pop) = PopSize
      /\ PopSize \in Nat \ {0} /\ Elites \in Nat /\ Elites <= PopSize
  BY PopulationAssumption DEF TypeOK
<1> DEFINE elite == SubSeq(pop, 1, Elites)
           pool == elite \o pop \o ch
<1>2. elite \in Seq(Candidates) /\ Len(elite) = Elites
      /\ \A i \in 1..Elites : elite[i] = pop[i]
  BY <1>1, SubSeqProperties
<1> HIDE DEF elite
<1>3. pool \in Seq(Candidates) /\ Len(pool) = Elites + PopSize + Len(ch)
  BY <1>1, <1>2
<1>4. \A i \in 1..Elites : pool[i] = pop[i]
  BY <1>1, <1>2
<1>5. ASSUME NEW i \in 1..PopSize PROVE pool[Elites + i] = pop[i]
  <2>1. (elite \o pop)[Elites + i] = pop[i] /\ Len(elite \o pop) = Elites + PopSize
        /\ elite \o pop \in Seq(Candidates)
    BY <1>1, <1>2
  <2> QED BY <1>1, <2>1
<1>6. ASSUME NEW i \in 1..Len(ch) PROVE pool[Elites + PopSize + i] = ch[i]
  <2>1. Len(elite \o pop) = Elites + PopSize /\ elite \o pop \in Seq(Candidates)
    BY <1>1, <1>2
  <2> QED BY <1>1, <2>1
<1> HIDE DEF pool
<1>7. ASSUME NEW i \in 1..Len(pool)
      PROVE  (\E j \in 1..PopSize : pool[i] = pop[j]) \/ (\E j \in 1..Len(ch) : pool[i] = ch[j])
  <2>1. CASE i <= Elites
    BY <1>1, <1>4, <2>1
  <2>2. CASE i > Elites /\ i <= Elites + PopSize
    <3>1. i - Elites \in 1..PopSize /\ Elites + (i - Elites) = i
      BY <1>1, <2>2
    <3> QED BY <1>5, <3>1
  <2>3. CASE i > Elites + PopSize
    <3>1. i - Elites - PopSize \in 1..Len(ch) /\ Elites + PopSize + (i - Elites - PopSize) = i
      BY <1>1, <1>3, <2>3
    <3> QED BY <1>6, <3>1
  <2> QED BY <1>1, <2>1, <2>2, <2>3
<1>8. pool[1] = pop[1]
  <2>1. CASE Elites = 0
    BY <1>1, <1>5, <2>1
  <2>2. CASE Elites # 0
    BY <1>1, <1>4, <2>2
  <2> QED BY <2>1, <2>2
<1> QED BY <1>3, <1>5, <1>6, <1>7, <1>8 DEF Pool, pool, elite

-----------------------------------------------------------------------------
(* The inductive invariant.                                                   *)

HasPopulation == pop # <<>>

\* The population is made when the search begins, and everything in it was scored.
PopulationInv ==
  /\ pc = "start" => ~ HasPopulation /\ sol = NoSolution
  /\ pc \in {"generation", "finish"} => HasPopulation /\ sol = NoSolution
  /\ sol = NoSolution <=> pc \notin {"done", "raised"}
  /\ ~ HasPopulation => seen = {} /\ best = NoCandidate /\ gen = 0
  /\ HasPopulation => best \in Candidates /\ Members(pop) \subseteq seen
  /\ HasPopulation => SeedsWithAPlace \subseteq seen
  /\ PopulationIsBest

\* The log and the early-stop record agree.
LogInv ==
  HasPopulation =>
    /\ Len(log) = gen + 1
    /\ CreepIsBounded(early_stop, ScoreOf(best), gen)
    /\ LogAgrees(early_stop, log, ScoreOf(best))

\* k generations later the first k + 1 are as good as the best was.
EliteInv ==
  Elites > 0 /\ HasPopulation =>
    \A k \in 0..gen : \A i \in 1..PopSize :
      i <= k + 1 => ScoreOf(pop[i]) >= log[gen - k + 1]

\* A reason is there only once the search is left, and it is why.
ReasonInv ==
  /\ pc \in {"start", "generation"} => early_stop.reason = "none"
  /\ pc = "generation" => gen < Generations
  /\ pc = "finish" \/ (pc = "done" /\ sol.kind = "found") =>
       /\ HasPopulation
       /\ (early_stop.reason = "target_score") = StopScoreReached(ScoreOf(best))
       /\ early_stop.reason = "no_improve" => PatienceExhausted(early_stop, gen)
       /\ early_stop.reason = "max_generations_reached" => gen = Generations
  /\ (pc = "done" /\ sol.kind = "found") => sol.reason = early_stop.reason

-----------------------------------------------------------------------------
(* The two steps that make a population.                                      *)

LEMMA BeginFacts ==
  ASSUME TypeOK, Begin
  PROVE  /\ \E cands \in Seq(Candidates) :
              /\ Len(cands) = PopSize
              /\ pop' \in Seq(Candidates) /\ Len(pop') = PopSize
              /\ Members(pop') = Members(cands)
              /\ \A i, j \in 1..PopSize : i < j => ScoreOf(pop'[i]) >= ScoreOf(pop'[j])
              /\ seen' = Members(cands) /\ unordered' = cands
         /\ best' = pop'[1] /\ best' \in Candidates
         /\ early_stop' = EarlyStopReset(ScoreOf(best')) /\ log' = <<ScoreOf(best')>>
         /\ weight' \in Weights
         /\ span' = "open" /\ pc = "start" /\ pc' = "generation"
         /\ UNCHANGED <<landscape, seed_keys, test_key, gen, sol>>
<1>1. PICK p \in Populations : \E ordered \in Orderings(Scored(p, weight)) :
             /\ pop' = ordered
             /\ best' = ordered[1]
             /\ early_stop' = EarlyStopReset(ScoreOf(ordered[1]))
             /\ log' = <<ScoreOf(ordered[1])>>
             /\ seen' = Members(Scored(p, weight))
             /\ unordered' = Scored(p, weight)
  BY DEF Begin
<1> DEFINE cands == Scored(p, weight)
<1>2. cands \in Seq(Candidates) /\ Len(cands) = PopSize
  <2>1. p \in [1..PopSize -> Keys] /\ PopSize \in Nat
    BY PopulationAssumption DEF Populations
  <2> QED BY <2>1, ScoredFacts DEF TypeOK
<1> HIDE DEF cands
<1>3. /\ pop' \in Orderings(cands)
      /\ best' = pop'[1]
      /\ early_stop' = EarlyStopReset(ScoreOf(best')) /\ log' = <<ScoreOf(best')>>
      /\ seen' = Members(cands) /\ unordered' = cands
  BY <1>1 DEF cands
<1>4. /\ pop' \in Seq(Candidates) /\ Len(pop') = PopSize /\ Members(pop') = Members(cands)
      /\ \A i, j \in 1..PopSize : i < j => ScoreOf(pop'[i]) >= ScoreOf(pop'[j])
  BY <1>2, <1>3, OrderingFacts
<1>5. best' \in Candidates
  BY <1>3, <1>4, PopulationAssumption
<1>6. weight' \in Weights
  BY PopulationAssumption DEF Begin
<1> QED BY <1>2, <1>3, <1>4, <1>5, <1>6 DEF Begin, problem

Updated == EarlyStopUpdate(early_stop, ScoreOf(best'), gen')
Reached == StopScoreReached(ScoreOf(best'))
Leaves == Reached \/ PlateauFires(early_stop, ScoreOf(best'), gen') \/ gen' = Generations

LEMMA GenerationFacts ==
  ASSUME TypeOK, PopulationInv, ReasonInv, Generation
  PROVE  /\ \E ch \in Seq(Candidates) :
              pop' = StableTopK(Pool(ch), PopSize) /\ seen' = seen \cup Members(ch)
         /\ pop' \in Seq(Candidates) /\ Len(pop') = PopSize
         /\ best' = pop'[1] /\ best' \in Candidates
         /\ best' = best \/ ScoreOf(best') > ScoreOf(best)
         /\ early_stop' = IF Leaves THEN ReasonAtEnd(Updated, Reached) ELSE Updated
         /\ pc' = IF Leaves THEN "finish" ELSE "generation"
         /\ span' = IF Leaves THEN "closed" ELSE span
         /\ log' = Append(log, ScoreOf(best'))
         /\ gen' = gen + 1 /\ gen' \in 1..Generations /\ weight' \in Weights
         /\ pc = "generation" /\ HasPopulation /\ unordered' = <<>>
         /\ UNCHANGED <<landscape, seed_keys, test_key, sol>>
<1>1. PICK keys \in [1..Children -> Keys] :
       LET children == Scored(keys, weight')
           next == StableTopK(Pool(children), PopSize)
           top == Better(next[1], best)
           es == EarlyStopUpdate(early_stop, ScoreOf(top), gen')
           reached == StopScoreReached(ScoreOf(top))
           leaves == \/ reached
                     \/ PlateauFires(early_stop, ScoreOf(top), gen')
                     \/ gen' = Generations
       IN  /\ pop' = next
           /\ best' = top
           /\ early_stop' = IF leaves THEN ReasonAtEnd(es, reached) ELSE es
           /\ pc' = IF leaves THEN "finish" ELSE "generation"
           /\ span' = IF leaves THEN "closed" ELSE span
           /\ log' = Append(log, ScoreOf(top))
           /\ seen' = seen \cup Members(children)
  BY DEF Generation
<1>2. /\ pc = "generation" /\ gen' = gen + 1 /\ weight' = Ramp[gen'] /\ unordered' = <<>>
      /\ UNCHANGED <<landscape, seed_keys, test_key, sol>>
  BY DEF Generation, problem
<1>3. HasPopulation /\ best = pop[1] /\ best \in Candidates
  BY <1>2 DEF PopulationInv, PopulationIsBest, HasPopulation
<1> DEFINE ch == Scored(keys, weight')
           next == StableTopK(Pool(ch), PopSize)
           top == Better(next[1], best)
<1>w. gen' \in 1..Generations /\ weight' \in Weights
  <2>1. gen' \in 1..Generations
    BY <1>2, PopulationAssumption DEF TypeOK, ReasonInv
  <2> QED BY <1>2, <2>1, PopulationAssumption
<1>4. ch \in Seq(Candidates)
  <2>1. Children \in Nat
    BY PopulationAssumption DEF Children
  <2> QED BY <1>w, <2>1, ScoredFacts DEF TypeOK
<1>5. /\ pop' = next
      /\ best' = top
      /\ early_stop' = IF Leaves THEN ReasonAtEnd(Updated, Reached) ELSE Updated
      /\ pc' = IF Leaves THEN "finish" ELSE "generation"
      /\ span' = IF Leaves THEN "closed" ELSE span
      /\ log' = Append(log, ScoreOf(best'))
      /\ seen' = seen \cup Members(ch)
  BY <1>1 DEF Leaves, Updated, Reached
<1> HIDE DEF ch
<1>6. /\ Pool(ch) \in Seq(Candidates) /\ Len(Pool(ch)) >= PopSize /\ Pool(ch)[1] = best
      /\ PopSize \in Nat \ {0}
  BY <1>3, <1>4, PoolFacts, PopulationAssumption DEF HasPopulation
<1>7. next \in Seq(Candidates) /\ Len(next) = PopSize
  BY <1>6, StableTopKIsBest
<1>8. next[1] = best \/ ScoreOf(next[1]) > ScoreOf(best)
  BY <1>6, StableTopKFirst
<1>9. next[1] \in Candidates
  BY <1>6, <1>7
<1> HIDE DEF next
<1>10. top = next[1]
  BY <1>8 DEF Better
<1> QED BY <1>2, <1>w, <1>3, <1>4, <1>5, <1>7, <1>8, <1>9, <1>10 DEF next

-----------------------------------------------------------------------------
(* Type correctness and what it takes.                                        *)

\* The reason is settled when the loop is left; nothing else of the record changes.
LEMMA ReasonFacts ==
  ASSUME NEW es \in EarlyStops, NEW reached \in BOOLEAN,
         NEW end, end = ReasonAtEnd(es, reached)
  PROVE  /\ end \in EarlyStops /\ end.best = es.best /\ end.at = es.at
         /\ end.reason = IF reached THEN "target_score"
                         ELSE IF es.reason = "none" THEN "max_generations_reached"
                         ELSE es.reason
BY DEF EarlyStops, WithReason, ReasonAtEnd, Reasons

\* An exception leaves a reason, and nothing else of the record changes.
LEMMA ErrorFacts ==
  ASSUME NEW es \in EarlyStops, NEW after \in ReasonOrError(es)
  PROVE  after \in EarlyStops /\ after.best = es.best /\ after.at = es.at
BY DEF EarlyStops, ReasonOrError, WithReason, Reasons

\* What the diagnostics score are candidates.
LEMMA SeedQualityFacts ==
  ASSUME TypeOK, NEW D \in SeedQuality
  PROVE  D \subseteq Candidates
<1>1. ASSUME NEW keys \in [DOMAIN seed_keys -> Keys]
      PROVE  Members(Scored(keys, weight)) \subseteq Candidates
  <2>1. landscape[weight] \in [Keys -> Scores]
    BY KeyScore DEF TypeOK
  <2> QED BY <2>1 DEF Members, Scored, Candidates
<1>2. seed_keys \in [DOMAIN seed_keys -> Keys]
  BY PopulationAssumption DEF TypeOK
<1> QED BY <1>1, <1>2 DEF SeedQuality

\* A seed that fits is scored in the population as the diagnostics scored it: the
\* weight has not moved in between.
LEMMA SeedsThatFitAreScored ==
  ASSUME TypeOK, Begin
  PROVE  SeedsWithAPlace' \subseteq seen'
<1>1. PICK p \in Populations : seen' = Members(Scored(p, weight))
  BY DEF Begin
<1>2. diagnosed' \in SeedQuality /\ seed_keys' = seed_keys
  BY DEF Begin, problem
<1>3. \A c \in diagnosed' : c = <<KeyOf(c), landscape[weight][KeyOf(c)]>>
  BY <1>2 DEF SeedQuality, Members, Scored, KeyOf
<1> SUFFICES ASSUME NEW c \in diagnosed', NEW i \in DOMAIN seed_keys,
                    i <= PopSize, KeyOf(c) = seed_keys[i]
             PROVE  c \in seen'
  BY <1>2 DEF SeedsWithAPlace
<1>4. i \in 1..PopSize /\ p[i] = seed_keys[i] /\ DOMAIN p = 1..PopSize
  BY PopulationAssumption DEF Populations, TypeOK
<1>5. Scored(p, weight)[i] = c /\ i \in DOMAIN Scored(p, weight)
  BY <1>3, <1>4 DEF Scored
<1> QED BY <1>1, <1>5 DEF Members

LEMMA TypeInit == Init => TypeOK
<1> SUFFICES ASSUME Init PROVE TypeOK
  OBVIOUS
<1>1. EarlyStopReset(NegInf) \in EarlyStops
  BY ScoreRange, EarlyStopResetType
<1> QED BY <1>1, PopulationAssumption DEF Init, TypeOK

LEMMA TypeStep ==
  ASSUME TypeOK, PopulationInv, ReasonInv, [Next]_vars
  PROVE  TypeOK'
<1>1. CASE TestKeyFastPath
  <2>1. test_key \in Keys /\ landscape[weight] \in [Keys -> Scores]
    BY <1>1, KeyScore DEF TypeOK, TestKeyFastPath
  <2>2. sol' \in Solutions
    BY <1>1, <2>1 DEF TestKeyFastPath, Solutions, Candidates, Reasons
  <2>3. early_stop' \in EarlyStops
    BY <1>1, WithReasonType DEF TestKeyFastPath, TypeOK, Reasons
  <2>4. diagnosed' \subseteq Candidates
    BY <1>1, SeedQualityFacts DEF TestKeyFastPath
  <2> QED BY <1>1, <2>2, <2>3, <2>4 DEF TestKeyFastPath, TypeOK, problem
<1>2. CASE Begin
  <2>1. /\ pop' \in Seq(Candidates) /\ Len(pop') = PopSize /\ unordered' \in Seq(Candidates)
        /\ Len(unordered') = PopSize /\ seen' \subseteq Candidates
        /\ best' \in Candidates /\ weight' \in Weights
        /\ early_stop' = EarlyStopReset(ScoreOf(best')) /\ log' = <<ScoreOf(best')>>
        /\ span' = "open" /\ pc' = "generation"
        /\ UNCHANGED <<landscape, seed_keys, test_key, gen, sol>>
    BY <1>2, BeginFacts DEF Members
  <2>2. early_stop' \in EarlyStops /\ log' \in Seq(Scores)
    BY <2>1, CandidateParts, EarlyStopResetType
  <2>3. diagnosed' \subseteq Candidates
    BY <1>2, SeedQualityFacts DEF Begin
  <2> QED BY <2>1, <2>2, <2>3 DEF TypeOK
<1>3. CASE Generation
  <2>1. /\ pop' \in Seq(Candidates) /\ Len(pop') = PopSize
        /\ best' \in Candidates /\ log' = Append(log, ScoreOf(best'))
        /\ gen' \in 1..Generations /\ weight' \in Weights /\ unordered' = <<>>
        /\ early_stop' = IF Leaves THEN ReasonAtEnd(Updated, Reached) ELSE Updated
        /\ pc' \in {"finish", "generation"} /\ span' \in {span, "closed"}
        /\ UNCHANGED <<landscape, seed_keys, test_key, sol>>
    BY <1>3, GenerationFacts
  <2>2. seen' \subseteq Candidates
    <3>1. PICK ch \in Seq(Candidates) : seen' = seen \cup Members(ch)
      BY <1>3, GenerationFacts
    <3> QED BY <3>1 DEF TypeOK, Members
  <2>3. log' \in Seq(Scores)
    BY <2>1, CandidateParts DEF TypeOK
  <2>4. early_stop' \in EarlyStops
    <3>1. Updated \in EarlyStops
      BY <2>1, CandidateParts, EarlyStopTypes DEF TypeOK, Updated
    <3>2. Reached \in BOOLEAN
      BY DEF Reached, StopScoreReached
    <3> QED BY <2>1, <3>1, <3>2, ReasonFacts
  <2>5. gen' \in 0..Generations /\ diagnosed' = diagnosed
    BY <1>3, <2>1 DEF Generation
  <2> QED BY <2>1, <2>2, <2>3, <2>4, <2>5 DEF TypeOK
<1>4. CASE Finish
  <2>1. best \in Candidates /\ landscape[weight] \in [Keys -> Scores]
    BY <1>4, KeyScore DEF Finish, PopulationInv, TypeOK
  <2>2. \A c \in LocalImprove(best, landscape[weight]) : c \in Candidates
    BY <2>1, LocalImproveFacts
  <2>3. sol' \in Solutions
    BY <1>4, <2>1, <2>2 DEF Finish, Solutions, Reasons, TypeOK, EarlyStops
  <2> QED BY <1>4, <2>3 DEF Finish, TypeOK, problem, history
<1>5. CASE Raise
  <2>1. early_stop' \in EarlyStops /\ span' \in {span, "closed"} /\ pc' = "raised"
    BY <1>5, ErrorFacts DEF Raise, TypeOK
  <2>2. sol' \in Solutions
    BY <1>5, <2>1 DEF Raise, Solutions, EarlyStops
  <2> QED BY <1>5, <2>1, <2>2 DEF Raise, TypeOK, problem, history
<1>6. CASE Stopped \/ UNCHANGED vars
  BY <1>6 DEF Stopped, vars, problem, history, TypeOK
<1> QED BY <1>1, <1>2, <1>3, <1>4, <1>5, <1>6 DEF Next, Step

-----------------------------------------------------------------------------
(* The population is the best of what was scored.                             *)

\* No candidate is better than the first, and the last is as good as it was.
LEMMA GenerationKeepsTheBest ==
  ASSUME TypeOK, PopulationInv, HasPopulation, NEW ch \in Seq(Candidates),
         NEW next, next = StableTopK(Pool(ch), PopSize)
  PROVE  /\ \A i, j \in 1..PopSize : i < j => ScoreOf(next[i]) >= ScoreOf(next[j])
         /\ \A c \in seen \cup Members(ch) :
              c \in Members(next) \/ ScoreOf(c) <= ScoreOf(next[PopSize])
         /\ Members(next) \subseteq seen \cup Members(ch)
<1> DEFINE pool == Pool(ch)
<1>1. /\ PopSize \in Nat \ {0} /\ Elites \in Nat /\ Len(pop) = PopSize /\ pop \in Seq(Candidates)
      /\ pool \in Seq(Candidates) /\ Len(pool) = Elites + PopSize + Len(ch)
      /\ \A i \in 1..PopSize : pool[Elites + i] = pop[i]
      /\ \A i \in 1..Len(ch) : pool[Elites + PopSize + i] = ch[i]
      /\ \A i \in 1..Len(pool) :
           (\E j \in 1..PopSize : pool[i] = pop[j]) \/ (\E j \in 1..Len(ch) : pool[i] = ch[j])
  <2>1. /\ PopSize \in Nat \ {0} /\ Elites \in Nat /\ Len(pop) = PopSize
        /\ pop \in Seq(Candidates)
    BY PopulationAssumption DEF TypeOK, HasPopulation
  <2>2. pop # <<>>
    BY DEF HasPopulation
  <2> QED BY <2>1, <2>2, PoolFacts
<1> HIDE DEF pool
<1>2. Len(ch) \in Nat /\ Len(pool) >= PopSize
  BY <1>1
<1>3. /\ next \in Seq(Candidates) /\ Len(next) = PopSize
      /\ \A n \in 1..PopSize : \E i \in DOMAIN pool : next[n] = pool[i]
      /\ \A m, n \in 1..PopSize : m <= n => ScoreOf(next[m]) >= ScoreOf(next[n])
      /\ \A i \in DOMAIN pool :
           \/ \E n \in 1..PopSize : next[n] = pool[i]
           \/ ScoreOf(pool[i]) <= ScoreOf(next[PopSize])
  <2>1. next = StableTopK(pool, PopSize)
    BY DEF pool
  <2>2. pool \in Seq(Candidates) /\ PopSize \in Nat \ {0} /\ Len(pool) >= PopSize
    BY <1>1, <1>2
  <2> QED BY <2>1, <2>2, StableTopKIsBest, Zenon
<1>4. PopSize \in 1..PopSize /\ next[PopSize] \in Candidates /\ pop[PopSize] \in Candidates
      /\ DOMAIN pool = 1..Len(pool) /\ DOMAIN pop = 1..PopSize /\ DOMAIN ch = 1..Len(ch)
      /\ DOMAIN next = 1..PopSize
  BY <1>1, <1>2, <1>3
<1>5. ScoreOf(pop[PopSize]) \in Int /\ ScoreOf(next[PopSize]) \in Int
      /\ \A i \in 1..PopSize : ScoreOf(pop[i]) \in Int
  BY <1>1, <1>4, CandidateParts, ScoreRange
<1>6. \A i \in 1..PopSize : ScoreOf(pop[i]) >= ScoreOf(pop[PopSize])
  BY <1>1, <1>5 DEF PopulationInv, PopulationIsBest, HasPopulation
<1>7. ScoreOf(next[PopSize]) >= ScoreOf(pop[PopSize])
  <2> DEFINE G == (Elites + 1)..(Elites + PopSize)
  <2>1. G \in SUBSET DOMAIN pool
    BY <1>1, <1>2, <1>4
  <2>2. Cardinality(G) >= PopSize
    <3>1. Cardinality(G) = PopSize
      BY <1>1, ShiftedIntervalSize
    <3> QED BY <1>1, <3>1
  <2>3. \A i \in G : ScoreOf(pool[i]) >= ScoreOf(pop[PopSize])
    <3> SUFFICES ASSUME NEW i \in G PROVE ScoreOf(pool[i]) >= ScoreOf(pop[PopSize])
      OBVIOUS
    <3>1. i - Elites \in 1..PopSize /\ Elites + (i - Elites) = i
      BY <1>1
    <3> QED BY <1>1, <1>6, <3>1
  <2> HIDE DEF G
  <2> QED BY <1>1, <1>2, <1>4, <1>5, <2>1, <2>2, <2>3, StableTopKThreshold DEF pool
<1>8. ASSUME NEW c \in seen \cup Members(ch)
      PROVE  c \in Members(next) \/ ScoreOf(c) <= ScoreOf(next[PopSize])
  <2>1. CASE \E i \in DOMAIN pool : c = pool[i]
    BY <1>3, <1>4, <2>1 DEF Members
  <2>2. CASE c \in Members(ch)
    <3>1. PICK i \in 1..Len(ch) : c = ch[i]
      BY <1>4, <2>2 DEF Members
    <3>2. Elites + PopSize + i \in DOMAIN pool
      BY <1>1, <1>2, <1>4
    <3> QED BY <1>1, <2>1, <3>1, <3>2
  <2>3. CASE c \in Members(pop)
    <3>1. PICK i \in 1..PopSize : c = pop[i]
      BY <1>4, <2>3 DEF Members
    <3>2. Elites + i \in DOMAIN pool
      BY <1>1, <1>2, <1>4
    <3> QED BY <1>1, <2>1, <3>1, <3>2
  <2>4. CASE c \in seen /\ c \notin Members(pop)
    <3>1. ScoreOf(c) <= ScoreOf(pop[PopSize]) /\ ScoreOf(c) \in Int
      BY <2>4, CandidateParts, ScoreRange
      DEF PopulationInv, PopulationIsBest, HasPopulation, TypeOK
    <3> QED BY <1>5, <1>7, <3>1
  <2> QED BY <2>2, <2>3, <2>4
<1>9. Members(next) \subseteq seen \cup Members(ch)
  <2>1. \A i \in 1..PopSize : pop[i] \in seen
    BY <1>4 DEF PopulationInv, HasPopulation, Members
  <2>2. \A j \in 1..Len(ch) : ch[j] \in Members(ch)
    BY <1>4 DEF Members
  <2>3. \A i \in DOMAIN pool : pool[i] \in seen \cup Members(ch)
    BY <1>1, <1>4, <2>1, <2>2
  <2> QED BY <1>3, <1>4, <2>3 DEF Members
<1> QED BY <1>1, <1>3, <1>8, <1>9

LEMMA PopulationStep ==
  ASSUME TypeOK, TypeOK', PopulationInv, ReasonInv, [Next]_vars
  PROVE  PopulationInv'
<1> USE DEF HasPopulation
<1>1. CASE TestKeyFastPath
  BY <1>1 DEF TestKeyFastPath, PopulationInv, PopulationIsBest, NoSolution, history
<1>2. CASE Begin
  <2>1. PICK cands \in Seq(Candidates) :
              /\ Len(cands) = PopSize
              /\ pop' \in Seq(Candidates) /\ Len(pop') = PopSize
              /\ Members(pop') = Members(cands)
              /\ \A i, j \in 1..PopSize : i < j => ScoreOf(pop'[i]) >= ScoreOf(pop'[j])
              /\ seen' = Members(cands) /\ unordered' = cands
    BY <1>2, BeginFacts
  <2>2. /\ best' = pop'[1] /\ best' \in Candidates /\ pc = "start" /\ pc' = "generation"
        /\ sol' = sol
    BY <1>2, BeginFacts
  <2>3. pop' # <<>>
    BY <2>1, PopulationAssumption
  <2>4. \A c \in seen' : c \in Members(pop')
    BY <2>1
  <2>5. SeedsWithAPlace' \subseteq seen'
    BY <1>2, SeedsThatFitAreScored
  <2>6. PopulationIsBest'
    BY <2>1, <2>2, <2>4, <2>5 DEF PopulationIsBest
  <2>7. Members(pop)' \subseteq seen'
    BY <2>1 DEF Members
  <2> QED BY <2>1, <2>2, <2>3, <2>5, <2>6, <2>7 DEF PopulationInv
<1>3. CASE Generation
  <2>1. PICK ch \in Seq(Candidates) :
           pop' = StableTopK(Pool(ch), PopSize) /\ seen' = seen \cup Members(ch)
    BY <1>3, GenerationFacts
  <2>2. /\ pop' \in Seq(Candidates) /\ Len(pop') = PopSize
        /\ best' = pop'[1] /\ best' \in Candidates /\ pc = "generation"
        /\ pc' \in {"finish", "generation"} /\ pop # <<>> /\ sol' = sol
    BY <1>3, GenerationFacts
  <2>3. /\ \A i, j \in 1..PopSize : i < j => ScoreOf(pop'[i]) >= ScoreOf(pop'[j])
        /\ \A c \in seen' : c \in Members(pop') \/ ScoreOf(c) <= ScoreOf(pop'[PopSize])
        /\ Members(pop') \subseteq seen'
    BY <2>1, <2>2, GenerationKeepsTheBest
  <2>4. pop' # <<>>
    BY <2>2, PopulationAssumption
  <2>s. SeedsWithAPlace' \subseteq seen'
    <3>1. UNCHANGED <<diagnosed, seed_keys>>
      BY <1>3 DEF Generation, problem
    <3> QED BY <2>1, <2>2, <3>1 DEF PopulationInv, SeedsWithAPlace
  <2>5. PopulationIsBest'
    BY <2>2, <2>3, <2>s DEF PopulationIsBest
  <2>6. sol' = NoSolution
    BY <2>2 DEF PopulationInv
  <2>7. /\ pc' \notin {"start", "done", "raised"} /\ best' \in Candidates
        /\ Members(pop)' \subseteq seen'
    BY <2>2, <2>3 DEF Members
  <2> QED BY <2>4, <2>s, <2>5, <2>6, <2>7 DEF PopulationInv
<1>4. CASE Finish \/ Raise
  <2>1. /\ UNCHANGED <<pop, best, gen, seen, diagnosed, seed_keys>> /\ pc' \in {"done", "raised"} /\ sol'.kind # "none"
    BY <1>4 DEF Finish, Raise, history, problem
  <2>2. sol' # NoSolution
    BY <2>1 DEF NoSolution
  <2> QED BY <2>1, <2>2 DEF PopulationInv, PopulationIsBest, SeedsWithAPlace, Members
<1>5. CASE Stopped \/ UNCHANGED vars
  BY <1>5 DEF Stopped, vars, history, problem, PopulationInv, PopulationIsBest,
              SeedsWithAPlace, Members
<1> QED BY <1>1, <1>2, <1>3, <1>4, <1>5 DEF Next, Step

-----------------------------------------------------------------------------
(* The log, the elites and the reason.                                        *)

\* How a generation leaves the early-stop record.
LEMMA RecordFacts ==
  ASSUME TypeOK, PopulationInv, LogInv, ReasonInv, Generation
  PROVE  /\ Updated \in EarlyStops /\ Reached \in BOOLEAN
         /\ CreepIsBounded(Updated, ScoreOf(best'), gen')
         /\ LogAgrees(Updated, log', ScoreOf(best'))
         /\ early_stop'.best = Updated.best /\ early_stop'.at = Updated.at
         /\ Len(log) = gen + 1 /\ Len(log') = gen' + 1
         /\ ScoreOf(best') \in Scores /\ ScoreOf(best) \in Scores
         /\ ScoreOf(best) <= ScoreOf(best')
         /\ Updated.reason = IF PlateauFires(early_stop, ScoreOf(best'), gen')
                               THEN "no_improve" ELSE "none"
         /\ PlateauFires(early_stop, ScoreOf(best'), gen') => PatienceExhausted(Updated, gen')
<1>1. /\ best' \in Candidates /\ best \in Candidates
      /\ best' = best \/ ScoreOf(best') > ScoreOf(best)
      /\ log' = Append(log, ScoreOf(best')) /\ gen' = gen + 1 /\ HasPopulation
      /\ early_stop' = IF Leaves THEN ReasonAtEnd(Updated, Reached) ELSE Updated
      /\ pc = "generation"
  BY GenerationFacts DEF PopulationInv
<1>2. /\ early_stop \in EarlyStops /\ log \in Seq(Scores) /\ gen \in Nat /\ gen' \in Nat
      /\ ScoreOf(best') \in Scores /\ ScoreOf(best) \in Scores
  BY <1>1, CandidateParts, PopulationAssumption DEF TypeOK
<1>3. ScoreOf(best) <= ScoreOf(best')
  BY <1>1, <1>2, ScoreRange
<1>4. /\ Len(log) = gen + 1 /\ CreepIsBounded(early_stop, ScoreOf(best), gen)
      /\ LogAgrees(early_stop, log, ScoreOf(best))
  BY <1>1 DEF LogInv
<1>5. LogAgrees(Updated, log, ScoreOf(best')) /\ CreepIsBounded(Updated, ScoreOf(best'), gen')
  BY <1>1, <1>2, <1>3, <1>4, LogAfterUpdate DEF Updated
<1>6. Updated \in EarlyStops /\ Reached \in BOOLEAN
  BY <1>2, EarlyStopTypes DEF Updated, Reached, StopScoreReached
<1>7. LogAgrees(Updated, log', ScoreOf(best'))
  BY <1>1, <1>2, <1>4, <1>5, <1>6, LogAfterAppend
<1>8. early_stop'.best = Updated.best /\ early_stop'.at = Updated.at
  BY <1>1, <1>6, ReasonFacts
<1>9. /\ Updated.reason = IF PlateauFires(early_stop, ScoreOf(best'), gen')
                            THEN "no_improve" ELSE early_stop.reason
      /\ PlateauFires(early_stop, ScoreOf(best'), gen') <=> PatienceExhausted(Updated, gen')
  <2>1. early_stop.at <= gen' /\ early_stop.best <= ScoreOf(best')
    BY <1>1, <1>2, <1>3, <1>4, EarlyStopNumbers, ScoreRange DEF CreepIsBounded
  <2> QED BY <1>2, <2>1, UpdateFacts DEF Updated
<1>10. early_stop.reason = "none"
  BY <1>1 DEF ReasonInv
<1>11. Len(log') = gen' + 1
  BY <1>1, <1>2, <1>4
<1> QED BY <1>2, <1>3, <1>4, <1>5, <1>6, <1>7, <1>8, <1>9, <1>10, <1>11

LEMMA LogStep ==
  ASSUME TypeOK, PopulationInv, LogInv, ReasonInv, [Next]_vars
  PROVE  LogInv'
<1> USE DEF HasPopulation
<1>1. CASE TestKeyFastPath
  BY <1>1 DEF TestKeyFastPath, LogInv, PopulationInv
<1>2. CASE Begin
  <2>1. /\ best' \in Candidates /\ early_stop' = EarlyStopReset(ScoreOf(best'))
        /\ log' = <<ScoreOf(best')>> /\ gen' = gen
    BY <1>2, BeginFacts
  <2>2. gen = 0
    BY <1>2 DEF Begin, PopulationInv, ReasonInv, TypeOK
  <2> QED BY <2>1, <2>2, CandidateParts, LogAfterReset DEF LogInv
<1>3. CASE Generation
  BY <1>3, RecordFacts DEF LogInv, CreepIsBounded, LogAgrees
<1>4. CASE Finish
  BY <1>4 DEF Finish, LogInv, history
<1>5. CASE Raise
  <2>1. early_stop'.best = early_stop.best /\ early_stop'.at = early_stop.at
    BY <1>5, ErrorFacts DEF Raise, TypeOK
  <2>2. UNCHANGED <<pop, best, gen, log>>
    BY <1>5 DEF Raise, history
  <2> QED BY <2>1, <2>2 DEF LogInv, CreepIsBounded, LogAgrees
<1>6. CASE Stopped \/ UNCHANGED vars
  BY <1>6 DEF Stopped, vars, history, LogInv
<1> QED BY <1>1, <1>2, <1>3, <1>4, <1>5, <1>6 DEF Next, Step

LEMMA EliteStep ==
  ASSUME TypeOK, PopulationInv, LogInv, EliteInv, ReasonInv, [Next]_vars
  PROVE  EliteInv'
<1> USE DEF HasPopulation
<1>1. CASE TestKeyFastPath
  BY <1>1 DEF TestKeyFastPath, EliteInv, PopulationInv
<1>2. CASE Begin
  <2>1. /\ best' \in Candidates /\ best' = pop'[1] /\ log' = <<ScoreOf(best')>> /\ gen' = gen
    BY <1>2, BeginFacts
  <2>2. gen = 0
    BY <1>2 DEF Begin, PopulationInv, TypeOK
  <2>3. ASSUME NEW k \in 0..gen', NEW i \in 1..PopSize, i <= k + 1
        PROVE  ScoreOf(pop'[i]) >= log'[gen' - k + 1]
    <3>1. k = 0 /\ i = 1 /\ gen' - k + 1 = 1
      BY <2>1, <2>2, <2>3, PopulationAssumption
    <3>2. ScoreOf(best') \in Int
      BY <2>1, CandidateParts, ScoreRange
    <3> QED BY <2>1, <3>1, <3>2
  <2> QED BY <2>3 DEF EliteInv
<1>3. CASE Generation
  <2> SUFFICES ASSUME Elites > 0, NEW k \in 0..gen', NEW i \in 1..PopSize, i <= k + 1
               PROVE  ScoreOf(pop'[i]) >= log'[gen' - k + 1]
    BY DEF EliteInv
  <2>1. PICK ch \in Seq(Candidates) : pop' = StableTopK(Pool(ch), PopSize)
    BY <1>3, GenerationFacts
  <2>2. /\ best' = pop'[1] /\ best' \in Candidates /\ pop # <<>> /\ gen' = gen + 1
        /\ log' = Append(log, ScoreOf(best')) /\ Len(log) = gen + 1
        /\ gen \in Nat /\ log \in Seq(Scores)
    BY <1>3, GenerationFacts, RecordFacts, PopulationAssumption DEF TypeOK
  <2>3. CASE k = 0
    <3>1. log'[gen' - k + 1] = ScoreOf(best') /\ i = 1
      BY <2>2, <2>3, PopulationAssumption
    <3>2. ScoreOf(best') \in Int
      BY <2>2, CandidateParts, ScoreRange
    <3> QED BY <2>2, <3>1, <3>2
  <2>4. CASE k # 0
    <3> DEFINE pool == Pool(ch)
               t == log[gen - (k - 1) + 1]
               C == (Elites + 1)..(Elites + (i - 1))
               G == C \cup {1}
    <3>1. k - 1 \in 0..gen /\ gen' - k + 1 = gen - (k - 1) + 1
          /\ gen - (k - 1) + 1 \in 1..Len(log)
      BY <2>2, <2>4
    <3>2. log'[gen' - k + 1] = t /\ t \in Int
      BY <2>2, <3>1, ScoreRange
    <3>3. /\ PopSize \in Nat \ {0} /\ Elites \in Nat /\ i - 1 \in Nat /\ Len(ch) \in Nat
          /\ pool \in Seq(Candidates) /\ Len(pool) = Elites + PopSize + Len(ch)
          /\ \A j \in 1..PopSize : pool[Elites + j] = pop[j]
          /\ pool[1] = pop[1]
      <4>1. PopSize \in Nat \ {0} /\ Elites \in Nat /\ i - 1 \in Nat /\ Len(ch) \in Nat
        BY PopulationAssumption
      <4> QED BY <2>2, <4>1, PoolFacts
    <3>4. \A j \in 1..PopSize : j <= k => ScoreOf(pop[j]) >= t
      <4> SUFFICES ASSUME NEW j \in 1..PopSize, j <= k PROVE ScoreOf(pop[j]) >= t
        OBVIOUS
      <4>1. j <= (k - 1) + 1
        OBVIOUS
      <4> QED BY <2>2, <3>1, <4>1 DEF EliteInv
    <3> HIDE DEF pool, t
    <3>5. \A j \in G : j \in 1..Len(pool) /\ ScoreOf(pool[j]) >= t
      <4> SUFFICES ASSUME NEW j \in G PROVE j \in 1..Len(pool) /\ ScoreOf(pool[j]) >= t
        OBVIOUS
      <4>1. CASE j = 1
        <5>1. 1 \in 1..PopSize /\ 1 <= k
          BY <2>4, <3>3
        <5> QED BY <3>3, <3>4, <4>1, <5>1
      <4>2. CASE j \in C
        <5>1. j - Elites \in 1..PopSize /\ j - Elites <= k /\ Elites + (j - Elites) = j
          BY <3>3, <4>2
        <5> QED BY <3>3, <3>4, <4>2, <5>1
      <4> QED BY <4>1, <4>2
    <3>6. Cardinality(G) = i
      <4>1. IsFiniteSet(C) /\ Cardinality(C) = i - 1
        BY <3>3, ShiftedIntervalSize
      <4>2. 1 \notin C
        BY <3>3
      <4> HIDE DEF C
      <4>3. Cardinality(G) = Cardinality(C) + 1
        BY <4>1, <4>2, FS_AddElement
      <4> QED BY <4>1, <4>3
    <3> HIDE DEF G
    <3>7. ScoreOf(StableTopK(pool, PopSize)[i]) >= t
      <4>1. G \in SUBSET (DOMAIN pool)
        BY <3>3, <3>5
      <4>2. PopSize \in Nat /\ Len(pool) >= PopSize /\ Cardinality(G) >= i
        BY <3>3, <3>6
      <4> QED BY <3>2, <3>3, <3>5, <4>1, <4>2, StableTopKThreshold
    <3> QED BY <2>1, <3>2, <3>7 DEF pool
  <2> QED BY <2>3, <2>4
<1>4. CASE Finish \/ Raise
  BY <1>4 DEF Finish, Raise, EliteInv, history
<1>5. CASE Stopped \/ UNCHANGED vars
  BY <1>5 DEF Stopped, vars, history, EliteInv
<1> QED BY <1>1, <1>2, <1>3, <1>4, <1>5 DEF Next, Step

LEMMA ReasonStep ==
  ASSUME TypeOK, PopulationInv, LogInv, ReasonInv, [Next]_vars
  PROVE  ReasonInv'
<1> USE DEF HasPopulation
<1>1. CASE TestKeyFastPath
  <2>1. pc' = "done" /\ sol'.kind = "supplied"
    BY <1>1 DEF TestKeyFastPath
  <2> QED BY <2>1 DEF ReasonInv
<1>2. CASE Begin
  <2>1. early_stop'.reason = "none" /\ pc' = "generation" /\ gen' = gen /\ gen = 0
    BY <1>2, BeginFacts DEF EarlyStopReset, Begin, PopulationInv
  <2> QED BY <2>1, PopulationAssumption DEF ReasonInv
<1>3. CASE Generation
  <2>1. /\ Updated \in EarlyStops /\ Reached \in BOOLEAN
        /\ early_stop'.best = Updated.best /\ early_stop'.at = Updated.at
        /\ Updated.reason = IF PlateauFires(early_stop, ScoreOf(best'), gen')
                              THEN "no_improve" ELSE "none"
        /\ PlateauFires(early_stop, ScoreOf(best'), gen') => PatienceExhausted(Updated, gen')
    BY <1>3, RecordFacts
  <2>2. /\ early_stop' = IF Leaves THEN ReasonAtEnd(Updated, Reached) ELSE Updated
        /\ pc' = IF Leaves THEN "finish" ELSE "generation"
        /\ gen' \in 1..Generations /\ pop' # <<>> /\ PopSize # 0
    <3>1. pop' \in Seq(Candidates) /\ Len(pop') = PopSize /\ PopSize # 0
      BY <1>3, GenerationFacts, PopulationAssumption
    <3> QED BY <1>3, <3>1, GenerationFacts
  <2>3. CASE Leaves
    <3>1. early_stop'.reason = IF Reached THEN "target_score"
                               ELSE IF Updated.reason = "none" THEN "max_generations_reached"
                               ELSE Updated.reason
      BY <2>1, <2>2, <2>3, ReasonFacts
    <3>2. PatienceExhausted(early_stop, gen)' = PatienceExhausted(Updated, gen')
      BY <2>1 DEF PatienceExhausted
    <3>3. StopScoreReached(ScoreOf(best))' = Reached
      BY DEF Reached, StopScoreReached
    <3>4. (early_stop.reason = "target_score")' = Reached
      BY <2>1, <3>1
    <3>5. early_stop'.reason = "no_improve" => PatienceExhausted(early_stop, gen)'
      BY <2>1, <3>1, <3>2
    <3>6. early_stop'.reason = "max_generations_reached" => gen' = Generations
      BY <2>1, <2>3, <3>1 DEF Leaves
    <3>7. pc' = "finish" /\ HasPopulation'
      BY <2>2, <2>3
    <3> QED BY <3>3, <3>4, <3>5, <3>6, <3>7 DEF ReasonInv
  <2>4. CASE ~ Leaves
    <3>1. early_stop'.reason = "none" /\ pc' = "generation" /\ gen' < Generations
      BY <2>1, <2>2, <2>4, PopulationAssumption DEF Leaves
    <3> QED BY <3>1 DEF ReasonInv
  <2> QED BY <2>3, <2>4
<1>4. CASE Finish
  <2>1. /\ pc = "finish" /\ pc' = "done" /\ UNCHANGED <<pop, best, gen, early_stop>>
        /\ sol'.kind = "found" => sol'.reason = early_stop.reason
    BY <1>4 DEF Finish
  <2> QED BY <2>1 DEF ReasonInv, StopScoreReached
<1>5. CASE Raise
  BY <1>5 DEF Raise, ReasonInv
<1>6. CASE Stopped \/ UNCHANGED vars
  BY <1>6 DEF Stopped, vars, ReasonInv, StopScoreReached
<1> QED BY <1>1, <1>2, <1>3, <1>4, <1>5, <1>6 DEF Next, Step

-----------------------------------------------------------------------------
(* What the genetic algorithm promises.                                       *)

GAInv == TypeOK /\ PopulationInv /\ LogInv /\ EliteInv /\ ReasonInv

LEMMA GAInvHolds == Spec => []GAInv
<1>1. Init => GAInv
  <2> SUFFICES ASSUME Init PROVE GAInv
    OBVIOUS
  <2>1. TypeOK
    BY TypeInit
  <2>2. PopulationInv /\ LogInv /\ EliteInv /\ ReasonInv
    BY DEF Init, PopulationInv, LogInv, EliteInv, ReasonInv, HasPopulation, PopulationIsBest,
           EarlyStopReset
  <2> QED BY <2>1, <2>2 DEF GAInv
<1>2. GAInv /\ [Next]_vars => GAInv'
  BY TypeStep, PopulationStep, LogStep, EliteStep, ReasonStep DEF GAInv
<1> QED BY <1>1, <1>2, PTL DEF Spec

\* The genetic algorithm keeps its type: the population has its size from the first
\* generation on and no generation beyond the last is begun.
THEOREM TypeCorrect == Spec => []TypeOK
<1>1. GAInv => TypeOK
  BY DEF GAInv
<1> QED BY <1>1, GAInvHolds, PTL

\* The population is sorted, its first is the best, and nothing that a population or a
\* generation scored and dropped is better than its last, whatever the children are;
\* nor is a seed that fits in the population, as the diagnostics scored it.  The theorem
\* does not speak of the seeds beyond PopSize, which only the diagnostics score.
THEOREM PopulationIsAlwaysBest == Spec => []PopulationIsBest
<1>1. GAInv => PopulationIsBest
  BY DEF GAInv, PopulationInv
<1> QED BY <1>1, GAInvHolds, PTL

\* With elites, k generations later k + 1 members are as good as the best was: the
\* copies the elites leave take the population over.
THEOREM ElitesTakeOver == Spec => []EliteTakeover
<1>1. GAInv => EliteTakeover
  <2> SUFFICES ASSUME GAInv, Elites > 0, pop # <<>>, NEW k \in 0..gen,
                      NEW good, good = {i \in 1..PopSize : ScoreOf(pop[i]) >= log[gen - k + 1]}
               PROVE  Cardinality(good) >= IF k + 1 < PopSize THEN k + 1 ELSE PopSize
    BY DEF EliteTakeover
  <2> DEFINE m == IF k + 1 < PopSize THEN k + 1 ELSE PopSize
  <2>1. m \in Nat /\ m <= PopSize /\ m <= k + 1 /\ PopSize \in Nat
    BY PopulationAssumption
  <2>2. \A i \in 1..m : i \in good
    BY <2>1 DEF GAInv, EliteInv, HasPopulation
  <2>3. IsFiniteSet(good)
    BY <2>1, IntervalSize, FS_Subset
  <2> HIDE DEF m
  <2>4. Cardinality(1..m) = m
    BY <2>1, IntervalSize
  <2>5. Cardinality(1..m) <= Cardinality(good)
    BY <2>2, <2>3, FS_Subset
  <2>6. Cardinality(good) \in Nat
    BY <2>3, FS_CardinalityType
  <2>7. Cardinality(good) >= m
    BY <2>1, <2>4, <2>5, <2>6
  <2> QED BY <2>7 DEF m
<1> QED BY <1>1, GAInvHolds, PTL

\* A reported reason is why the search stopped: target_score exactly when the best
\* reached the target, no_improve only on a real plateau, and the generation limit
\* only when all were used.
THEOREM ReasonAlwaysExplains == Spec => []ReasonExplainsStop
<1>1. GAInv => ReasonExplainsStop
  <2> SUFFICES ASSUME GAInv, pc = "done", sol.kind = "found"
               PROVE  /\ (sol.reason = "target_score") = StopScoreReached(ScoreOf(best))
                      /\ sol.reason = "no_improve" =>
                           /\ gen >= PlateauRounds
                           /\ log[gen + 1] <= PlusDelta(log[gen - PlateauRounds + 1])
                      /\ sol.reason = "max_generations_reached" => gen = Generations
    BY DEF ReasonExplainsStop
  <2>1. /\ sol.reason = early_stop.reason /\ HasPopulation
        /\ (early_stop.reason = "target_score") = StopScoreReached(ScoreOf(best))
        /\ early_stop.reason = "no_improve" => PatienceExhausted(early_stop, gen)
        /\ early_stop.reason = "max_generations_reached" => gen = Generations
    BY DEF GAInv, ReasonInv
  <2>2. /\ Len(log) = gen + 1 /\ CreepIsBounded(early_stop, ScoreOf(best), gen)
        /\ LogAgrees(early_stop, log, ScoreOf(best)) /\ best \in Candidates
    BY <2>1 DEF GAInv, LogInv, PopulationInv
  <2>3. /\ early_stop \in EarlyStops /\ log \in Seq(Scores) /\ gen \in Nat
        /\ ScoreOf(best) \in Scores
    BY <2>2, CandidateParts, PopulationAssumption DEF GAInv, TypeOK
  <2>4. ASSUME PatienceExhausted(early_stop, gen)
        PROVE  /\ gen >= PlateauRounds
               /\ log[gen + 1] <= PlusDelta(log[gen - PlateauRounds + 1])
    <3>1. /\ PlateauRounds \in Nat /\ gen >= PlateauRounds
          /\ ScoreOf(best) <= PlusDelta(log[gen - PlateauRounds + 1])
      BY <2>2, <2>3, <2>4, PatienceMeans, PlateauAssumption
    <3>2. gen + 1 \in 1..Len(log) /\ gen - PlateauRounds + 1 \in 1..Len(log)
      BY <2>2, <2>3, <3>1
    <3>3. log[gen + 1] <= ScoreOf(best)
      BY <2>2, <3>2 DEF LogAgrees
    <3>4. /\ log[gen + 1] \in Int /\ ScoreOf(best) \in Int
          /\ PlusDelta(log[gen - PlateauRounds + 1]) \in Int
      BY <2>3, <3>2, ScoreRange, PlusDeltaFacts
    <3> QED BY <3>1, <3>3, <3>4
  <2> QED BY <2>1, <2>4
<1> QED BY <1>1, GAInvHolds, PTL

-----------------------------------------------------------------------------
(* The genetic algorithm implements Search.                                   *)

AbstractIncumbent == IF pop = <<>> THEN NoKey ELSE best

LEMMA SameCandidates == Abstract!Candidates = Candidates
BY DEF Abstract!Candidates, Candidates, Scores, NegInf

LEMMA NoAnswerYet ==
  ASSUME PopulationInv, pc \notin {"done", "raised"}
  PROVE  Answer = NoKey
BY DEF PopulationInv, Answer, NoSolution

\* The best is one of the candidates scored and none of them beats it.
BestDominates == HasPopulation => best \in seen /\ \A c \in seen : ScoreOf(c) <= ScoreOf(best)

LEMMA PopulationDominates == TypeOK /\ PopulationInv => BestDominates
<1> SUFFICES ASSUME TypeOK, PopulationInv, HasPopulation
             PROVE  best \in seen /\ \A c \in seen : ScoreOf(c) <= ScoreOf(best)
  BY DEF BestDominates
<1>1. /\ pop \in Seq(Candidates) /\ Len(pop) = PopSize /\ PopSize \in Nat \ {0}
      /\ best = pop[1] /\ Members(pop) \subseteq seen
      /\ \A i, j \in 1..PopSize : i < j => ScoreOf(pop[i]) >= ScoreOf(pop[j])
      /\ \A c \in seen : c \in Members(pop) \/ ScoreOf(c) <= ScoreOf(pop[PopSize])
  BY PopulationAssumption DEF TypeOK, PopulationInv, PopulationIsBest, HasPopulation
<1>2. DOMAIN pop = 1..PopSize /\ 1 \in 1..PopSize /\ PopSize \in 1..PopSize
  BY <1>1
<1>3. \A i \in 1..PopSize : ScoreOf(pop[i]) \in Int
  BY <1>1, CandidateParts, ScoreRange
<1>4. \A i \in 1..PopSize : ScoreOf(pop[i]) <= ScoreOf(best)
  BY <1>1, <1>2, <1>3
<1>5. best \in seen
  BY <1>1, <1>2 DEF Members
<1>6. ASSUME NEW c \in seen PROVE ScoreOf(c) <= ScoreOf(best)
  <2>1. CASE c \in Members(pop)
    BY <1>2, <1>4, <2>1 DEF Members
  <2>2. CASE c \notin Members(pop)
    <3>1. ScoreOf(c) \in Int /\ ScoreOf(best) \in Int
      BY <1>1, <1>2, <1>3, CandidateParts, ScoreRange DEF TypeOK
    <3> QED BY <1>1, <1>2, <1>3, <1>4, <2>2, <3>1
  <2> QED BY <2>1, <2>2
<1> QED BY <1>5, <1>6

LEMMA PopulationDominatesNext == TypeOK' /\ PopulationInv' => BestDominates'
BY PopulationDominates, PTL

LEMMA ExploreStep ==
  ASSUME TypeOK, TypeOK', PopulationInv, PopulationInv', HasPopulation',
         pc \notin {"done", "raised"}, pc' \notin {"done", "raised"},
         seen \subseteq seen',
         HasPopulation => best' = best \/ ScoreOf(best') > ScoreOf(best)
  PROVE  Abstract!Explore
<1>1. Answer = NoKey /\ Answer' = NoKey
  <2>1. Answer' = NoKey
    BY DEF PopulationInv, Answer, NoSolution
  <2> QED BY <2>1, NoAnswerYet
<1>2. AbstractIncumbent' = best'
  BY DEF AbstractIncumbent, HasPopulation
<1>3. best' \in seen' /\ \A c \in seen' : c[2] <= best'[2]
  BY PopulationDominatesNext DEF BestDominates, ScoreOf
<1>4. seen' \in SUBSET Abstract!Candidates
  BY SameCandidates DEF TypeOK
<1>5. seen # {} /\ AbstractIncumbent'[2] = AbstractIncumbent[2]
        => AbstractIncumbent' = AbstractIncumbent
  <2> SUFFICES ASSUME seen # {}, best'[2] = AbstractIncumbent[2]
               PROVE  best' = AbstractIncumbent
    BY <1>2
  <2>1. HasPopulation /\ AbstractIncumbent = best /\ best \in Candidates
    BY DEF PopulationInv, AbstractIncumbent, HasPopulation
  <2>2. ScoreOf(best) \in Int /\ ScoreOf(best') = ScoreOf(best)
    BY <2>1, CandidateParts, ScoreRange DEF ScoreOf
  <2> QED BY <2>1, <2>2
<1> QED BY <1>1, <1>2, <1>3, <1>4, <1>5
        DEF Abstract!Explore, Abstract!Dominates, AbstractIncumbent

LEMMA RefinementStep ==
  ASSUME GAInv, GAInv', [Next]_vars
  PROVE  [Abstract!Next]_(Abstract!vars)
<1> USE DEF GAInv
<1>1. CASE TestKeyFastPath
  <2>1. pc = "start" /\ pop = <<>> /\ pop' = <<>> /\ seen = {} /\ seen' = {} /\ Answer = NoKey
    BY <1>1, NoAnswerYet DEF PopulationInv, TestKeyFastPath, HasPopulation, history
  <2>2. landscape[weight] \in [Keys -> Scores] /\ test_key \in Keys
    BY <1>1, KeyScore DEF TypeOK, TestKeyFastPath
  <2> DEFINE c == <<test_key, landscape[weight][test_key]>>
  <2>3. c \in Abstract!Candidates
    BY <2>2, SameCandidates DEF Candidates
  <2>4. Answer' = [kind |-> "supplied", cand |-> c]
    BY <1>1 DEF TestKeyFastPath, Answer
  <2> HIDE DEF c
  <2>5. Abstract!Supplied
    BY <2>1, <2>3, <2>4 DEF Abstract!Supplied
  <2> QED BY <2>5 DEF Abstract!Next
<1>2. CASE Begin
  <2>1. /\ pc = "start" /\ pc' = "generation" /\ pop = <<>> /\ seen = {} /\ HasPopulation'
    BY <1>2, BeginFacts DEF PopulationInv, HasPopulation
  <2> QED BY <2>1, ExploreStep DEF Abstract!Next, HasPopulation
<1>3. CASE Generation
  <2>1. /\ pc = "generation" /\ pc' \in {"finish", "generation"}
        /\ best' = best \/ ScoreOf(best') > ScoreOf(best)
    BY <1>3, GenerationFacts
  <2>2. seen \subseteq seen'
    BY <1>3, GenerationFacts
  <2>3. HasPopulation'
    BY <2>1 DEF PopulationInv
  <2> QED BY <2>1, <2>2, <2>3, ExploreStep DEF Abstract!Next
<1>4. CASE Finish
  <2>1. /\ pc = "finish" /\ HasPopulation /\ best \in Candidates /\ seen # {}
        /\ AbstractIncumbent = best
        /\ UNCHANGED <<seen, AbstractIncumbent>>
    BY <1>4, PopulationDominates
    DEF Finish, history, PopulationInv, BestDominates, AbstractIncumbent, HasPopulation
  <2>2. Answer = NoKey
    BY <2>1, NoAnswerYet
  <2>3. CASE IsFinite(ScoreOf(best))
    <3>1. PICK c \in LocalImprove(best, landscape[weight]) : sol'.kind = "found" /\ sol'.cand = c
      BY <1>4, <2>3 DEF Finish
    <3>2. landscape[weight] \in [Keys -> Scores]
      BY KeyScore DEF TypeOK
    <3>3. c \in Abstract!Candidates /\ (c = best \/ c[2] > best[2])
      BY <2>1, <3>2, LocalImproveFacts, SameCandidates DEF ScoreOf
    <3>4. Answer' = [kind |-> "found", cand |-> c]
      BY <3>1 DEF Answer
    <3>5. Abstract!Found
      BY <2>1, <2>2, <2>3, <3>3, <3>4
      DEF Abstract!Found, AbstractIncumbent, IsFinite, NegInf, ScoreOf
    <3> QED BY <3>5 DEF Abstract!Next
  <2>4. CASE ~ IsFinite(ScoreOf(best))
    <3>1. Answer' = [kind |-> "rejected", cand |-> best]
      BY <1>4, <2>4 DEF Finish, Answer
    <3>2. Abstract!Rejected
      BY <2>1, <2>2, <2>4, <3>1
      DEF Abstract!Rejected, AbstractIncumbent, IsFinite, NegInf, ScoreOf
    <3> QED BY <3>2 DEF Abstract!Next
  <2> QED BY <2>3, <2>4
<1>5. CASE Raise
  <2>1. Answer = NoKey /\ UNCHANGED <<seen, AbstractIncumbent>>
    BY <1>5, NoAnswerYet DEF Raise, AbstractIncumbent, history
  <2>2. Answer' = [kind |-> "raised"]
    BY <1>5 DEF Raise, Answer
  <2>3. Abstract!Raise
    BY <2>1, <2>2 DEF Abstract!Raise, AbstractIncumbent
  <2> QED BY <2>3 DEF Abstract!Next
<1>6. CASE Stopped \/ UNCHANGED vars
  <2>1. UNCHANGED <<seen, pop, best, sol>>
    BY <1>6 DEF Stopped, vars, history
  <2> QED BY <2>1 DEF Abstract!vars, Answer
<1> QED BY <1>1, <1>2, <1>3, <1>4, <1>5, <1>6 DEF Next, Step

\* The genetic algorithm is a Search: its best is the incumbent, and what it
\* returns is an answer that Search allows.
THEOREM GeneticImplementsSearch == Spec => ImplementsSearch
<1>1. Init => Abstract!Init
  BY DEF Init, Abstract!Init, Answer, NoSolution
<1>2. GAInv /\ GAInv' /\ [Next]_vars => [Abstract!Next]_(Abstract!vars)
  BY RefinementStep
<1> QED BY <1>1, <1>2, GAInvHolds, PTL DEF Spec, ImplementsSearch, Abstract!Spec

-----------------------------------------------------------------------------
(* The promise of a search, kept.                                             *)

\* What is scored are candidates, the incumbent is one that none of them beats, and
\* the answer is as good.
PromiseInv ==
  /\ seen \subseteq Abstract!Candidates
  /\ seen # {} => AbstractIncumbent \in seen /\ Tops(AbstractIncumbent, seen)
  /\ Abstract!AnswerDominates

\* Each step of the abstract search preserves that.
LEMMA PromiseStep ==
  ASSUME PromiseInv, [Abstract!Next]_(Abstract!vars)
  PROVE  PromiseInv'
<1> USE DEF PromiseInv, Abstract!AnswerDominates, Abstract!Dominates, Tops, AbstractIncumbent
<1>1. CASE Abstract!Explore
  BY <1>1, Zenon DEF Abstract!Explore, Abstract!Candidates
<1>2. CASE Abstract!Found
  <2>1. /\ seen # {} /\ UNCHANGED <<seen, AbstractIncumbent>>
        /\ Answer' \in [kind : {"found"}, cand : Abstract!Candidates]
        /\ Answer'.cand = AbstractIncumbent \/ Answer'.cand[2] > AbstractIncumbent[2]
    BY <1>2 DEF Abstract!Found
  <2>2. /\ Answer'.kind = "found" /\ Answer'.cand \in Abstract!Candidates
        /\ AbstractIncumbent \in Abstract!Candidates
    BY <2>1
  <2>3. Tops(Answer'.cand, seen)
    BY <2>1, <2>2, TopsIsMonotone DEF Abstract!Candidates
  <2> QED BY <2>1, <2>2, <2>3
<1>3. CASE Abstract!Rejected
  <2>1. /\ seen # {} /\ UNCHANGED <<seen, AbstractIncumbent>> /\ AbstractIncumbent[2] = -Inf
        /\ Answer'.kind = "rejected"
    BY <1>3 DEF Abstract!Rejected
  <2>2. \A c \in seen : c[2] = -Inf
    BY <2>1, RejectedIsAll DEF Abstract!Candidates
  <2> QED BY <2>1, <2>2
<1>4. CASE Abstract!Supplied
  BY <1>4 DEF Abstract!Supplied
<1>5. CASE Abstract!Raise
  BY <1>5 DEF Abstract!Raise
<1>6. CASE UNCHANGED Abstract!vars
  BY <1>6 DEF Abstract!vars
<1> QED BY <1>1, <1>2, <1>3, <1>4, <1>5, <1>6 DEF Abstract!Next

\* The genetic algorithm keeps its promise to the caller of solve: an answer it
\* found is beaten by no key any generation scored, and one it rejects means that all
\* of them were.
THEOREM GeneticAnswersWithTheBest == Spec => []Abstract!AnswerDominates
<1>1. Abstract!Init => PromiseInv
  BY DEF Abstract!Init, PromiseInv, Abstract!AnswerDominates, AbstractIncumbent
<1>2. PromiseInv /\ [Abstract!Next]_(Abstract!vars) => PromiseInv'
  BY PromiseStep
<1>3. PromiseInv => Abstract!AnswerDominates
  BY DEF PromiseInv
<1> QED BY <1>1, <1>2, <1>3, GeneticImplementsSearch, PTL DEF ImplementsSearch, Abstract!Spec

=============================================================================
