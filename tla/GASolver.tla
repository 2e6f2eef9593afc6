------------------------------ MODULE GASolver ------------------------------
(* rdp.solvers.ga.GASolver.solve: a population kept in order of score; every  *)
(* generation its elites, the whole population and the new children compete   *)
(* for the places in the next one.                                            *)
(*                                                                            *)
(* The children are any keys: tournaments, crossover and mutation are         *)
(* abstracted.  The Hamming weight follows its ramp; a member keeps the score *)
(* it had when it was scored.  The scores taken for the seed diagnostics are  *)
(* kept apart, as the code keeps them: no population competes with them.      *)
EXTENDS SolverBase, Functions

CONSTANTS
  PopSize,        \* pop_size
  Elites,         \* floor(elite_frac * pop_size), at most pop_size - 2
  Generations,    \* generations
  Weights,        \* the values the Hamming weight takes
  InitialWeight,  \* the scorer's weight when it is built
  Ramp,           \* the weight set_hamming_progress gives a generation
  SeedChoices,    \* the sequences of seed keys that may be supplied
  Landscapes      \* score of each key at each weight

ASSUME PopulationAssumption ==
  /\ PopSize \in Nat \ {0} /\ Generations \in Nat \ {0}
  /\ Elites \in Nat /\ (Elites > 0 => Elites <= PopSize - 2)
  /\ InitialWeight \in Weights
  /\ Ramp \in [0..Generations -> Weights]
  /\ SeedChoices \subseteq Seq(Keys)
  /\ Landscapes \subseteq [Weights -> [Keys -> Scores]]

VARIABLES
  landscape, seed_keys, test_key,   \* the problem, never changed
  pc,
  gen,                              \* generations begun
  weight,                           \* the scorer's Hamming weight
  pop,                              \* PopSize candidates, best first
  best,                             \* best_key and best_score
  early_stop,
  span,                             \* the telemetry span
  sol,
  seen,                             \* history: candidates the populations and
                                    \* generations scored
  diagnosed,                        \* history: candidates scored for diagnostics only
  unordered,                        \* history: the first population as it was made,
                                    \* until the first generation
  log                               \* history: best_score after each generation

problem == <<landscape, seed_keys, test_key>>
history == <<seen, diagnosed, unordered, log>>
vars == <<problem, pc, gen, weight, pop, best, early_stop, span, sol, history>>

NoCandidate == <<NoKey, NegInf>>
NoSolution == [kind |-> "none"]
Solutions ==
  [kind : {"found", "supplied", "rejected"}, cand : Candidates, reason : Reasons]
    \cup [kind : {"raised"}, reason : Reasons]

TypeOK ==
  /\ landscape \in Landscapes
  /\ seed_keys \in SeedChoices
  /\ test_key \in Keys \cup {NoKey}
  /\ pc \in {"start", "generation", "finish", "done", "raised"}
  /\ gen \in 0..Generations /\ weight \in Weights
  /\ pop \in Seq(Candidates) /\ Len(pop) \in {0, PopSize}
  /\ best \in Candidates \cup {NoCandidate}
  /\ early_stop \in EarlyStops
  /\ span \in {"unopened", "open", "closed"}
  /\ sol \in Solutions \cup {NoSolution}
  /\ seen \subseteq Candidates /\ diagnosed \subseteq Candidates
  /\ unordered \in Seq(Candidates) /\ Len(unordered) \in {0, PopSize}
  /\ log \in Seq(Scores)

Init ==
  /\ landscape \in Landscapes
  /\ seed_keys \in SeedChoices
  /\ test_key \in Keys \cup {NoKey}
  /\ pc = "start"
  /\ gen = 0 /\ weight = InitialWeight
  /\ pop = <<>> /\ best = NoCandidate
  /\ early_stop = EarlyStopReset(NegInf)
  /\ span = "unopened" /\ sol = NoSolution
  /\ seen = {} /\ diagnosed = {} /\ unordered = <<>> /\ log = <<>>

Scored(keys, w) == [i \in DOMAIN keys |-> <<keys[i], landscape[w][keys[i]]>>]
Members(cands) == {cands[i] : i \in DOMAIN cands}

-----------------------------------------------------------------------------
\* _capture_seed_quality, before everything else: the seeds, all of them, and as many
\* random keys are scored, and the scores only go into a report.  When that fails the
\* exception is caught and the search is the same.
SeedQuality ==
  LET draws == [DOMAIN seed_keys -> Keys]
  IN  {Members(Scored(seed_keys, weight)) \cup Members(Scored(drawn, weight)) : drawn \in draws}

TestKeyFastPath ==
  /\ pc = "start" /\ test_key # NoKey
  /\ sol' = [kind |-> "supplied",
             cand |-> <<test_key, landscape[weight][test_key]>>,
             reason |-> "test_key"]
  /\ early_stop' = WithReason(early_stop, "test_key")
  /\ diagnosed' \in SeedQuality
  /\ pc' = "done"
  /\ UNCHANGED <<problem, gen, weight, pop, best, span, seen, unordered, log>>

\* The seeds, cut to PopSize, made up to PopSize with random keys.
Populations ==
  {p \in [1..PopSize -> Keys] :
     \A i \in DOMAIN seed_keys : i <= PopSize => p[i] = seed_keys[i]}

\* np.argsort(scores)[::-1]: best first.  The sort is not a stable one, and it is
\* read backwards: candidates with equal scores come in any order.
Orderings(cands) ==
  {o \in {[i \in DOMAIN cands |-> cands[f[i]]] : f \in Bijection(DOMAIN cands, DOMAIN cands)} :
     \A i, j \in DOMAIN cands : i < j => ScoreOf(o[i]) >= ScoreOf(o[j])}

\* The population is scored before the ramp is set to its beginning.
Begin ==
  /\ pc = "start" /\ test_key = NoKey
  /\ \E p \in Populations :
       LET cands == Scored(p, weight)
       IN  \E ordered \in Orderings(cands) :
             /\ pop' = ordered
             /\ best' = ordered[1]
             /\ early_stop' = EarlyStopReset(ScoreOf(ordered[1]))
             /\ log' = <<ScoreOf(ordered[1])>>
             /\ seen' = Members(cands)
             /\ unordered' = cands
  /\ diagnosed' \in SeedQuality
  /\ weight' = Ramp[0]
  /\ span' = "open"
  /\ pc' = "generation"
  /\ UNCHANGED <<problem, gen, sol>>

-----------------------------------------------------------------------------
\* As many children as there are places the elites leave, and never fewer than two.
Children == IF PopSize - Elites < 2 THEN 2 ELSE PopSize - Elites

\* Mutants: the old population does not compete; the elites compete only once.
Generational(children) == SubSeq(pop, 1, Elites) \o children
ElitesOnce(children) == pop \o children

\* The competitors for the next population.  The elites are there twice.
Pool(children) == SubSeq(pop, 1, Elites) \o pop \o children

\* Mutant: the best must be beaten by MinDelta.
BetterByDelta(c, top) == IF IsImprovement(ScoreOf(c), ScoreOf(top)) THEN c ELSE top

Better(c, top) == IF ScoreOf(c) > ScoreOf(top) THEN c ELSE top

\* Mutant: the reason the plateau left is not overwritten.
FirstReasonAtEnd(es, reached) ==
  IF es.reason # "none" THEN es
  ELSE WithReason(es, IF reached THEN "target_score" ELSE "max_generations_reached")

ReasonAtEnd(es, reached) ==
  IF reached THEN WithReason(es, "target_score")
  ELSE IF es.reason = "none" THEN WithReason(es, "max_generations_reached")
  ELSE es

Generation ==
  /\ pc = "generation"
  /\ gen' = gen + 1
  /\ weight' = Ramp[gen']
  /\ \E keys \in [1..Children -> Keys] :
       LET children == Scored(keys, weight')
           next == StableTopK(Pool(children), PopSize)
           top == Better(next[1], best)
           es == EarlyStopUpdate(early_stop, ScoreOf(top), gen')
           reached == StopScoreReached(ScoreOf(top))
           leaves == \/ reached
                     \/ PlateauFires(early_stop, ScoreOf(top), gen')
                     \/ gen' = Generations
       IN  /\ pop' = next
           /\ best' = top
           /\ early_stop' = IF leaves THEN ReasonAtEnd(es, reached) ELSE es
           /\ pc' = IF leaves THEN "finish" ELSE "generation"
           /\ span' = IF leaves THEN "closed" ELSE span
           /\ log' = Append(log, ScoreOf(top))
           /\ seen' = seen \cup Members(children)
  /\ unordered' = <<>>
  /\ UNCHANGED <<problem, sol, diagnosed>>

\* _finalize_solution: polish the best key with the scorer as it is now.
Finish ==
  /\ pc = "finish"
  /\ IF IsFinite(ScoreOf(best))
       THEN \E c \in LocalImprove(best, landscape[weight]) :
              sol' = [kind |-> "found", cand |-> c, reason |-> early_stop.reason]
       ELSE sol' = [kind |-> "rejected", cand |-> best,
                    reason |-> "all_rejected_by_hard_crib"]
  /\ pc' = "done"
  /\ UNCHANGED <<problem, gen, weight, pop, best, early_stop, span, history>>

\* The fast path is outside the try; in the search the span is closed and the
\* exception goes on.
Raise ==
  /\ pc \notin {"done", "raised"}
  /\ IF pc = "start" /\ test_key # NoKey
       THEN UNCHANGED <<early_stop, span>>
       ELSE /\ early_stop' \in ReasonOrError(early_stop)
            /\ span' = "closed"
  /\ sol' = [kind |-> "raised", reason |-> early_stop'.reason]
  /\ pc' = "raised"
  /\ UNCHANGED <<problem, gen, weight, pop, best, history>>

Stopped == pc \in {"done", "raised"} /\ UNCHANGED vars

Step == TestKeyFastPath \/ Begin \/ Generation \/ Finish

Next == Step \/ Raise \/ Stopped

Spec == Init /\ [][Next]_vars

\* solve is one sequential call: while it can go on it does.
FairSpec == Spec /\ WF_vars(Step)

-----------------------------------------------------------------------------
(* Properties.                                                                *)

\* What the diagnostics scored of the seeds that fit in the population.
SeedsWithAPlace ==
  {c \in diagnosed : \E i \in DOMAIN seed_keys : i <= PopSize /\ KeyOf(c) = seed_keys[i]}

\* The population is what is best of all that the populations and generations
\* scored, and the diagnostics of the first PopSize seeds: it is sorted, a candidate of
\* theirs that is not in it is no better than its worst member, and best_key and
\* best_score, which are kept apart from it, are its first.  The seeds beyond PopSize
\* and the random keys that only the diagnostics scored may be better.
PopulationIsBest ==
  pop # <<>> =>
    /\ best = pop[1]
    /\ \A i, j \in 1..PopSize : i < j => ScoreOf(pop[i]) >= ScoreOf(pop[j])
    /\ \A c \in seen \cup SeedsWithAPlace :
         c \in Members(pop) \/ ScoreOf(c) <= ScoreOf(pop[PopSize])

\* With elites every generation copies the best once more: k generations later at
\* least k + 1 members are as good as it was, so a best that nothing beats takes
\* the whole population over, and the room that the cap on the elites leaves for
\* variation with it.
EliteTakeover ==
  Elites > 0 /\ pop # <<>> =>
    \A k \in 0..gen :
      LET asGood == {i \in 1..PopSize : ScoreOf(pop[i]) >= log[gen - k + 1]}
      IN  Cardinality(asGood) >= IF k + 1 < PopSize THEN k + 1 ELSE PopSize

\* The reason of the answer is why the search ended: the best reached the target,
\* or PlateauRounds generations gained at most MinDelta, or all were used.
ReasonExplainsStop ==
  pc = "done" /\ sol.kind = "found" =>
    /\ (sol.reason = "target_score") = StopScoreReached(ScoreOf(best))
    /\ sol.reason = "no_improve" =>
         /\ gen >= PlateauRounds
         /\ log[gen + 1] <= PlusDelta(log[gen - PlateauRounds + 1])
    /\ sol.reason = "max_generations_reached" => gen = Generations

\* Candidates with equal scores are ordered by the place they had.
TiesKeepEarlierIndex == unordered # <<>> => pop = StableTopK(unordered, PopSize)

\* Every call of solve returns or raises.
Termination == <>(pc \in {"done", "raised"})

-----------------------------------------------------------------------------
(* Refinement: the genetic algorithm is a Search.                             *)

Answer ==
  IF sol.kind = "none" THEN NoKey
  ELSE IF sol.kind = "raised" THEN [kind |-> "raised"]
  ELSE [kind |-> sol.kind, cand |-> sol.cand]

Abstract == INSTANCE Search WITH
  Nothing <- NoKey,
  incumbent <- IF pop = <<>> THEN NoKey ELSE best,
  answer <- Answer

\* Every step of the genetic algorithm is a step of the abstract search, or
\* changes nothing that it can see.
ImplementsSearch == Abstract!Spec
=============================================================================
