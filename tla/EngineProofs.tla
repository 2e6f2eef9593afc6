----------------------------- MODULE EngineProofs -----------------------------
(* What the chain of phases and the engine's call around it are proved to do, *)
(* for every landscape, every set of seeds and every target.                  *)
EXTENDS Engine, SolverBaseProofs, TLAPS

-----------------------------------------------------------------------------
(* The inductive invariant of HybridSolver.                                   *)

Ran == DOMAIN results
Searching == pc \in {"beam", "ga", "sa", "finish"}
BeamPart == IF use_beam THEN {"beam"} ELSE {}

HybridType ==
  /\ score \in [Keys -> Scores]
  /\ seed_keys \in SUBSET Keys /\ seed_for_ga \in SUBSET Keys
  /\ test_key \in Keys \cup {NoKey}
  /\ pc \in {"start", "beam", "ga", "sa", "finish", "done", "raised"}
  /\ best \in Candidates \cup {NoCandidate}
  /\ Ran \in SUBSET Phases
  /\ \A p \in Ran : results[p] \in Candidates
  /\ from_phase \in Ran \cup {NoPhase}

\* Which phases are behind it tells how far the chain has come.
PhasesSoFar ==
  /\ pc \in {"start", "beam"} => Ran = {}
  /\ pc = "beam" => use_beam
  /\ pc = "ga" => Ran = BeamPart
  /\ pc = "sa" => Ran = BeamPart \cup {"ga"}
  /\ pc = "finish" => best # NoCandidate
  /\ Searching => test_key = NoKey

\* The best is the result of the credited phase, strictly above what came before it
\* and not below what came after, nor below a seed once a phase has run.
CreditInv ==
  /\ (best = NoCandidate) <=> (from_phase = NoPhase)
  /\ "beam" \in Ran => best # NoCandidate
  /\ from_phase # NoPhase =>
       /\ best = results[from_phase]
       /\ \A p \in Ran : p \in Before(from_phase) => ScoreOf(results[p]) < ScoreOf(best)
  /\ \A p \in Ran : ScoreOf(results[p]) <= ScoreOf(best)
  /\ Ran # {} => \A k \in seed_keys : score[k] <= ScoreOf(best)
  /\ seed_for_ga # {} =>
       \A s \in seed_keys : \E k \in seed_for_ga : score[s] <= score[k]

\* While there are phases to run the target is out of reach.
ReasonInv ==
  /\ pc \in {"start", "beam", "ga", "sa"} =>
       reason = "none" /\ ~ StopScoreReached(ScoreOf(best))
  /\ pc = "finish" => reason \in {"target_score", "configured_work_limit_reached"}
  /\ reason = "target_score" => StopScoreReached(ScoreOf(best)) /\ "sa" \notin Ran
  /\ \A p, q \in Ran : p \in Before(q) => ~ StopScoreReached(ScoreOf(results[p]))

\* What the solution says of the search that produced it.
SolutionInv ==
  /\ sol.kind = "none" <=> pc \notin {"done", "raised"}
  /\ pc = "done" =>
       \/ /\ sol.kind = "supplied" /\ sol.reason = "test_key" /\ test_key # NoKey
          /\ sol.cand \in Candidates /\ KeyOf(sol.cand) = test_key
       \/ /\ sol.kind = "found" /\ sol.reason = reason /\ test_key = NoKey
          /\ sol.reason \in {"target_score", "configured_work_limit_reached"}
          /\ sol.cand \in Candidates /\ ScoreOf(best) <= ScoreOf(sol.cand)
          /\ best # NoCandidate /\ IsFinite(ScoreOf(best))
       \/ /\ sol.kind = "rejected" /\ sol.reason = "all_rejected_by_hard_crib"
          /\ test_key = NoKey /\ best # NoCandidate /\ ~ IsFinite(ScoreOf(best))

HybridInv == HybridType /\ PhasesSoFar /\ CreditInv /\ ReasonInv /\ SolutionInv

-----------------------------------------------------------------------------
(* Facts about the operators.                                                 *)

\* A better score reaches the target if a worse one does; a rejected one never does.
LEMMA TargetFacts ==
  /\ \A s, t \in Scores : s <= t /\ StopScoreReached(s) => StopScoreReached(t)
  /\ ~ StopScoreReached(NegInf)
<1>1. Target # NoTarget => Target \in Int /\ Target > NegInf
  BY TargetAssumption, InfAssumption DEF NegInf
<1> QED BY <1>1, ScoreRange DEF StopScoreReached

\* The best has a score, before there is one too.
LEMMA BestScoreFacts ==
  ASSUME HybridType
  PROVE  /\ ScoreOf(best) \in Scores /\ ScoreOf(best) \in Int
         /\ KeyOf(best) = NoKey <=> best = NoCandidate
         /\ best = NoCandidate => ScoreOf(best) = NegInf
<1>1. CASE best = NoCandidate
  BY <1>1, ScoreRange DEF NoCandidate, KeyOf, ScoreOf
<1>2. CASE best # NoCandidate
  <2>1. best \in Candidates /\ KeyOf(best) \in Keys /\ ScoreOf(best) \in Scores
    BY <1>2, CandidateParts DEF HybridType
  <2> QED BY <1>2, <2>1, KeyAssumption, ScoreRange
<1> QED BY <1>1, <1>2

\* What a phase may return is a candidate no seed beats.
LEMMA OutcomeFacts ==
  ASSUME HybridType, NEW seeds \in SUBSET Keys, NEW c \in Outcomes(seeds)
  PROVE  c \in Candidates /\ \A k \in seeds : score[k] <= ScoreOf(c)
BY DEF HybridType, Outcomes, Candidates, ScoreOf

\* The order of the phases.
LEMMA BeforeFacts ==
  /\ Before("beam") = {} /\ Before("ga") = {"beam"} /\ Before("sa") = {"beam", "ga"}
BY DEF Before

-----------------------------------------------------------------------------
(* The step of a phase.                                                       *)

RunPhase == RunBeam \/ RunGA \/ RunSA

\* Whichever phase runs, its result is added to the others and becomes the best if
\* nothing precedes it or it is strictly better.
LEMMA PhaseFacts ==
  ASSUME HybridInv, RunPhase
  PROVE  /\ pc \in {"beam", "ga", "sa"} /\ pc \notin Ran
         /\ Ran' = Ran \cup {pc}
         /\ results'[pc] \in Candidates
         /\ \A p \in Ran : results'[p] = results[p]
         /\ \/ best' = results'[pc] /\ from_phase' = pc
               /\ (pc = "beam" \/ ScoreOf(best') > ScoreOf(best))
            \/ best' = best /\ from_phase' = from_phase
               /\ ScoreOf(results'[pc]) <= ScoreOf(best)
         /\ \/ Ran # {}
            \/ \A k \in seed_keys : score[k] <= ScoreOf(results'[pc])
         /\ seed_for_ga' \in SUBSET Keys
         /\ seed_for_ga' # {} =>
              \A s \in seed_keys : \E k \in seed_for_ga' : score[s] <= score[k]
         /\ pc = "ga" => pc' \in {"sa", "finish"}
         /\ pc = "beam" => best' = results'[pc] /\ pc' \in {"ga", "finish"}
         /\ pc = "sa" => pc' = "finish" /\ reason' = "configured_work_limit_reached"
         /\ IF StopScoreReached(ScoreOf(best')) \/ pc = "sa"
              THEN pc' = "finish" ELSE reason' = reason /\ pc' # "finish"
         /\ StopScoreReached(ScoreOf(best')) /\ pc # "sa" => reason' = "target_score"
         /\ UNCHANGED <<problem, sol>>
<1> USE DEF HybridInv, Phases
<1>b. ScoreOf(best) \in Int /\ score \in [Keys -> Scores] /\ seed_keys \in SUBSET Keys
  BY BestScoreFacts DEF HybridType
<1>1. CASE RunBeam
  <2>1. PICK c \in Outcomes(seed_keys), keys \in BeamSets :
           /\ \A s \in seed_keys : \E k \in keys : score[s] <= score[k]
           /\ best' = c /\ from_phase' = "beam"
           /\ seed_for_ga' = keys
           /\ results' = Recorded(results, "beam", c)
           /\ ContinueUnlessTarget(c, "ga")
    BY <1>1 DEF RunBeam
  <2>2. pc = "beam" /\ Ran = {} /\ UNCHANGED <<problem, sol>>
    BY <1>1 DEF RunBeam, PhasesSoFar
  <2>3. c \in Candidates /\ \A k \in seed_keys : score[k] <= ScoreOf(c)
    BY <1>b, <2>1, OutcomeFacts
  <2>4. Ran' = {"beam"} /\ results'["beam"] = c
    BY <2>1, <2>2 DEF Ran, Recorded
  <2>5. keys \in SUBSET Keys
    BY HybridAssumption
  <2>6. IF StopScoreReached(ScoreOf(best')) THEN pc' = "finish" /\ reason' = "target_score"
                                            ELSE pc' = "ga" /\ reason' = reason
    BY <2>1 DEF ContinueUnlessTarget
  <2> QED BY <2>1, <2>2, <2>3, <2>4, <2>5, <2>6
<1>2. CASE RunGA
  <2> DEFINE seeds == IF seed_for_ga # {} THEN seed_for_ga ELSE seed_keys
  <2>1. PICK c \in Outcomes(seeds) : Take(c, "ga") /\ ContinueUnlessTarget(best', "sa")
    BY <1>2 DEF RunGA
  <2>2. /\ pc = "ga" /\ Ran = BeamPart /\ UNCHANGED <<problem, seed_for_ga, sol>>
        /\ "ga" \notin Ran
    BY <1>2 DEF RunGA, PhasesSoFar, BeamPart
  <2>3. c \in Candidates /\ \A k \in seeds : score[k] <= ScoreOf(c)
    <3>1. seeds \in SUBSET Keys
      BY DEF HybridType
    <3> HIDE DEF seeds
    <3> QED BY <2>1, <3>1, OutcomeFacts
  <2>c. ScoreOf(c) \in Int
    BY <2>3, CandidateParts, ScoreRange
  <2>4. \A k \in seed_keys : score[k] <= ScoreOf(c)
    <3>1. CASE seed_for_ga # {}
      <4> SUFFICES ASSUME NEW s \in seed_keys PROVE score[s] <= ScoreOf(c)
        OBVIOUS
      <4>1. PICK k \in seed_for_ga : score[s] <= score[k]
        BY <3>1 DEF CreditInv
      <4>2. score[k] <= ScoreOf(c) /\ k \in Keys
        BY <2>3, <3>1, <4>1 DEF HybridType
      <4>3. score[s] \in Int /\ score[k] \in Int
        BY <1>b, <4>2, ScoreRange
      <4> QED BY <2>c, <4>1, <4>2, <4>3
    <3>2. CASE seed_for_ga = {}
      BY <2>3, <3>2
    <3> QED BY <3>1, <3>2
  <2>5. /\ Ran' = Ran \cup {"ga"} /\ results'["ga"] = c
        /\ \A p \in Ran : results'[p] = results[p]
    BY <2>1, <2>2 DEF Ran, Take, Recorded
  <2>6. \/ best' = c /\ from_phase' = "ga" /\ ScoreOf(best') > ScoreOf(best)
        \/ best' = best /\ from_phase' = from_phase /\ ScoreOf(c) <= ScoreOf(best)
    BY <1>b, <2>1, <2>c DEF Take, Better
  <2>7. IF StopScoreReached(ScoreOf(best')) THEN pc' = "finish" /\ reason' = "target_score"
                                            ELSE pc' = "sa" /\ reason' = reason
    BY <2>1 DEF ContinueUnlessTarget
  <2>8. /\ seed_for_ga' \in SUBSET Keys
        /\ seed_for_ga' # {} =>
              \A s \in seed_keys : \E k \in seed_for_ga' : score[s] <= score[k]
    BY <2>2 DEF HybridType, CreditInv
  <2> HIDE DEF seeds
  <2> QED BY <2>2, <2>3, <2>4, <2>5, <2>6, <2>7, <2>8
<1>3. CASE RunSA
  <2>1. PICK c \in Outcomes({KeyOf(best)}) : Take(c, "sa")
    BY <1>3 DEF RunSA
  <2>2. /\ pc = "sa" /\ Ran = BeamPart \cup {"ga"} /\ UNCHANGED <<problem, seed_for_ga, sol>>
        /\ reason' = "configured_work_limit_reached" /\ pc' = "finish"
        /\ "sa" \notin Ran /\ KeyOf(best) # NoKey
    BY <1>3 DEF RunSA, PhasesSoFar, BeamPart
  <2>3. c \in Candidates
    <3>1. {KeyOf(best)} \in SUBSET Keys
      BY <2>2, BestScoreFacts, CandidateParts DEF HybridType
    <3> QED BY <2>1, <3>1, OutcomeFacts
  <2>4. ScoreOf(c) \in Int
    BY <2>3, CandidateParts, ScoreRange
  <2>5. /\ Ran' = Ran \cup {"sa"} /\ results'["sa"] = c
        /\ \A p \in Ran : results'[p] = results[p]
    BY <2>1, <2>2 DEF Ran, Take, Recorded
  <2>6. \/ best' = c /\ from_phase' = "sa" /\ ScoreOf(best') > ScoreOf(best)
        \/ best' = best /\ from_phase' = from_phase /\ ScoreOf(c) <= ScoreOf(best)
    BY <1>b, <2>1, <2>4 DEF Take, Better
  <2>7. /\ seed_for_ga' \in SUBSET Keys
        /\ seed_for_ga' # {} =>
              \A s \in seed_keys : \E k \in seed_for_ga' : score[s] <= score[k]
    BY <2>2 DEF HybridType, CreditInv
  <2> QED BY <2>2, <2>3, <2>5, <2>6, <2>7
<1> QED BY <1>1, <1>2, <1>3 DEF RunPhase

\* A phase keeps the invariant.
LEMMA PhaseStep ==
  ASSUME HybridInv, RunPhase
  PROVE  HybridInv'
<1> USE DEF HybridInv, Phases
<1> DEFINE c == results'[pc]
<1>1. /\ pc \in {"beam", "ga", "sa"} /\ pc \notin Ran
      /\ Ran' = Ran \cup {pc}
      /\ c \in Candidates
      /\ \A p \in Ran : results'[p] = results[p]
      /\ \/ best' = c /\ from_phase' = pc /\ (pc = "beam" \/ ScoreOf(best') > ScoreOf(best))
         \/ best' = best /\ from_phase' = from_phase /\ ScoreOf(c) <= ScoreOf(best)
      /\ Ran # {} \/ \A k \in seed_keys : score[k] <= ScoreOf(c)
  BY PhaseFacts
<1>2. /\ seed_for_ga' \in SUBSET Keys
      /\ seed_for_ga' # {} =>
           \A s \in seed_keys : \E k \in seed_for_ga' : score[s] <= score[k]
  BY PhaseFacts
<1>3. /\ pc = "ga" => pc' \in {"sa", "finish"}
      /\ pc = "beam" => best' = c /\ pc' \in {"ga", "finish"}
      /\ pc = "sa" => pc' = "finish" /\ reason' = "configured_work_limit_reached"
      /\ IF StopScoreReached(ScoreOf(best')) \/ pc = "sa"
           THEN pc' = "finish" ELSE reason' = reason /\ pc' # "finish"
      /\ StopScoreReached(ScoreOf(best')) /\ pc # "sa" => reason' = "target_score"
  BY PhaseFacts
<1>4. UNCHANGED <<score, seed_keys, test_key, use_beam, sol>>
  BY PhaseFacts DEF problem
<1>5. ScoreOf(best) \in Scores /\ ScoreOf(best) \in Int
  BY BestScoreFacts
<1>6. ScoreOf(c) \in Scores /\ ScoreOf(c) \in Int
  BY <1>1, CandidateParts, ScoreRange
<1>7. pc = "beam" => ScoreOf(best) = NegInf /\ best = NoCandidate /\ from_phase = NoPhase
                     /\ Ran = {}
  <2>1. pc = "beam" => Ran = {} /\ from_phase = NoPhase
    BY DEF PhasesSoFar, HybridType
  <2> QED BY <2>1, BestScoreFacts DEF CreditInv
<1>8. /\ ScoreOf(best') \in Int /\ ScoreOf(best) <= ScoreOf(best')
      /\ ScoreOf(c) <= ScoreOf(best')
  BY <1>1, <1>5, <1>6, <1>7, ScoreRange
<1> HIDE DEF c
<1>9. HybridType'
  BY <1>1, <1>2, <1>3, <1>4 DEF HybridType, c
<1>10. PhasesSoFar'
  <2>1. ASSUME pc' = "finish" PROVE best' # NoCandidate
    <3>1. CASE pc = "sa"
      <4>1. best # NoCandidate
        BY <3>1, BestScoreFacts DEF RunPhase, RunBeam, RunGA, RunSA
      <4>2. c # NoCandidate
        BY <1>1, CandidateParts, KeyAssumption DEF NoCandidate, KeyOf, c
      <4> QED BY <1>1, <4>1, <4>2
    <3>2. CASE pc # "sa"
      <4>1. StopScoreReached(ScoreOf(best'))
        BY <1>3, <2>1, <3>2
      <4>2. ScoreOf(NoCandidate) = NegInf
        BY DEF ScoreOf, NoCandidate
      <4> QED BY <4>1, <4>2, TargetFacts
    <3> QED BY <3>1, <3>2
  <2>2. pc' \notin {"start", "beam"} /\ test_key = NoKey
    BY <1>1, <1>3 DEF PhasesSoFar, Searching
  <2>3. pc' = "ga" => Ran' = BeamPart'
    <3>1. pc = "beam" => use_beam
      BY DEF PhasesSoFar
    <3> QED BY <1>1, <1>3, <1>4, <3>1 DEF PhasesSoFar, BeamPart
  <2>4. pc' = "sa" => Ran' = (BeamPart \cup {"ga"})'
    BY <1>1, <1>3, <1>4 DEF PhasesSoFar, BeamPart
  <2> QED BY <1>4, <2>1, <2>2, <2>3, <2>4 DEF PhasesSoFar
<1>11. CreditInv'
  <2>1. ASSUME NEW p \in Ran'
        PROVE  ScoreOf(results'[p]) <= ScoreOf(best')
    <3>1. CASE p = pc
      BY <1>8, <3>1 DEF c
    <3>2. CASE p # pc
      <4>1. p \in Ran /\ results'[p] = results[p] /\ ScoreOf(results[p]) \in Int
        BY <1>1, <2>1, <3>2, CandidateParts, ScoreRange DEF HybridType
      <4> QED BY <1>5, <1>8, <4>1 DEF CreditInv
    <3> QED BY <3>1, <3>2
  <2>2. ASSUME NEW k \in seed_keys'
        PROVE  score[k] <= ScoreOf(best')
    <3>1. score[k] \in Int
      BY <1>4, ScoreRange DEF HybridType
    <3> QED BY <1>1, <1>4, <1>5, <1>6, <1>8, <3>1 DEF CreditInv
  <2>b. "beam" \in Ran' => best' # NoCandidate
    <3>1. CASE best' = c
      BY <1>1, <3>1, CandidateParts, KeyAssumption DEF NoCandidate, KeyOf
    <3>2. CASE best' = best /\ best' # c
      BY <1>1, <1>3, <3>2 DEF CreditInv
    <3> QED BY <1>1, <3>1, <3>2
  <2>3. CASE best' = c /\ from_phase' = pc /\ (pc = "beam" \/ ScoreOf(best') > ScoreOf(best))
    <3>1. best' # NoCandidate /\ from_phase' # NoPhase
      BY <1>1, <2>3, CandidateParts, KeyAssumption DEF NoCandidate, KeyOf, NoPhase
    <3>2. best' = results'[from_phase']
      BY <2>3 DEF c
    <3>3. ASSUME NEW p \in Ran', p \in Before(from_phase')
          PROVE  ScoreOf(results'[p]) < ScoreOf(best')
      <4>1. p # pc
        BY <1>1, <2>3, <3>3, BeforeFacts
      <4>2. p \in Ran /\ results'[p] = results[p] /\ ScoreOf(results[p]) \in Int
        BY <1>1, <3>3, <4>1, CandidateParts, ScoreRange DEF HybridType
      <4>3. ScoreOf(results[p]) <= ScoreOf(best) /\ pc # "beam"
        BY <1>7, <4>2 DEF CreditInv
      <4>4. ScoreOf(best') > ScoreOf(best)
        BY <2>3, <4>3
      <4> QED BY <1>5, <1>8, <4>2, <4>3, <4>4
    <3> QED BY <1>2, <1>4, <2>1, <2>2, <2>b, <3>1, <3>2, <3>3 DEF CreditInv
  <2>4. CASE best' = best /\ from_phase' = from_phase
    <3>1. (best' = NoCandidate) <=> (from_phase' = NoPhase)
      BY <2>4 DEF CreditInv
    <3>2. ASSUME from_phase' # NoPhase
          PROVE  /\ best' = results'[from_phase']
                 /\ \A p \in Ran' : p \in Before(from_phase') => ScoreOf(results'[p]) < ScoreOf(best')
      <4>1. from_phase \in Ran /\ best = results[from_phase]
        BY <2>4, <3>2 DEF HybridType, CreditInv
      <4>2. results'[from_phase] = results[from_phase]
        BY <1>1, <4>1
      <4>3. ASSUME NEW p \in Ran', p \in Before(from_phase)
            PROVE  ScoreOf(results'[p]) < ScoreOf(best)
        <5>1. pc \notin Before(from_phase)
          BY <1>1, <4>1, BeforeFacts DEF PhasesSoFar, BeamPart
        <5>2. p \in Ran /\ results'[p] = results[p]
          BY <1>1, <4>3, <5>1
        <5> QED BY <2>4, <3>2, <4>3, <5>2 DEF CreditInv
      <4> QED BY <2>4, <4>1, <4>2, <4>3
    <3> QED BY <1>2, <1>4, <2>1, <2>2, <2>b, <3>1, <3>2 DEF CreditInv
  <2> QED BY <1>1, <2>3, <2>4
<1>12. ReasonInv'
  <2>1. pc' \in {"ga", "sa", "finish"} /\ reason = "none" /\ ~ StopScoreReached(ScoreOf(best))
    BY <1>1, <1>3 DEF ReasonInv
  <2>2. pc' # "finish" => reason' = "none" /\ ~ StopScoreReached(ScoreOf(best'))
    BY <1>3, <2>1
  <2>3. pc' = "finish" => reason' \in {"target_score", "configured_work_limit_reached"}
    BY <1>3, <2>1
  <2>4. ASSUME reason' = "target_score"
        PROVE  StopScoreReached(ScoreOf(best')) /\ "sa" \notin Ran'
    <3>1. pc # "sa" /\ StopScoreReached(ScoreOf(best'))
      BY <1>3, <2>1, <2>4
    <3> QED BY <1>1, <3>1 DEF PhasesSoFar, BeamPart
  <2>5. ASSUME NEW p \in Ran', NEW q \in Ran', p \in Before(q)
        PROVE  ~ StopScoreReached(ScoreOf(results'[p]))
    <3>1. p # pc
      BY <1>1, <2>5, BeforeFacts DEF PhasesSoFar, BeamPart
    <3>2. p \in Ran /\ results'[p] = results[p] /\ ScoreOf(results[p]) \in Scores
      BY <1>1, <2>5, <3>1, CandidateParts DEF HybridType
    <3> QED BY <1>5, <2>1, <3>2, TargetFacts DEF CreditInv
  <2> QED BY <2>1, <2>2, <2>3, <2>4, <2>5 DEF ReasonInv
<1>13. SolutionInv'
  BY <1>1, <1>3, <1>4 DEF SolutionInv
<1> QED BY <1>9, <1>10, <1>11, <1>12, <1>13

-----------------------------------------------------------------------------
(* Every other step.                                                          *)

LEMMA HybridInvInit == Init => HybridInv
<1> SUFFICES ASSUME Init PROVE HybridInv
  OBVIOUS
<1> USE DEF Init
<1>1. Ran = {} /\ best = NoCandidate /\ from_phase = NoPhase /\ pc = "start"
  BY DEF Ran
<1>2. ScoreOf(best) = NegInf
  BY <1>1 DEF NoCandidate, ScoreOf
<1>3. HybridType
  BY <1>1, HybridAssumption DEF HybridType
<1>4. PhasesSoFar /\ CreditInv
  BY <1>1 DEF PhasesSoFar, CreditInv, Searching
<1>5. ReasonInv
  BY <1>1, <1>2, TargetFacts DEF ReasonInv
<1>6. SolutionInv
  BY <1>1 DEF SolutionInv, NoSolution
<1> QED BY <1>3, <1>4, <1>5, <1>6 DEF HybridInv

LEMMA HybridInvStep ==
  ASSUME HybridInv, [Next]_vars
  PROVE  HybridInv'
<1> USE DEF HybridInv
<1>1. CASE TestKeyFastPath
  <2>1. /\ pc = "start" /\ pc' = "done" /\ test_key # NoKey /\ test_key \in Keys
        /\ reason' = "test_key"
        /\ UNCHANGED <<score, seed_keys, test_key, use_beam, best, from_phase, seed_for_ga, results>>
    BY <1>1 DEF TestKeyFastPath, problem, incumbent, HybridType
  <2>2. /\ sol'.kind = "supplied" /\ sol'.reason = "test_key"
        /\ sol'.cand = <<test_key, score[test_key]>>
    BY <1>1 DEF TestKeyFastPath
  <2>3. sol'.cand \in Candidates /\ KeyOf(sol'.cand) = test_key
    BY <2>1, <2>2 DEF HybridType, Candidates, KeyOf
  <2>4. HybridType' /\ PhasesSoFar' /\ CreditInv'
    BY <2>1 DEF HybridType, PhasesSoFar, CreditInv, Ran, Searching
  <2>5. ReasonInv'
    BY <2>1 DEF ReasonInv, PhasesSoFar, Ran
  <2>6. SolutionInv'
    BY <2>1, <2>2, <2>3 DEF SolutionInv
  <2> QED BY <2>4, <2>5, <2>6
<1>2. CASE Start
  <2>1. /\ pc = "start" /\ pc' \in {"beam", "ga"} /\ test_key = NoKey
        /\ pc' = "beam" => use_beam
        /\ pc' = "ga" => ~ use_beam
        /\ UNCHANGED <<score, seed_keys, test_key, use_beam, best, from_phase, seed_for_ga,
                       reason, sol, results>>
    BY <1>2 DEF Start, problem, incumbent
  <2>2. HybridType' /\ PhasesSoFar' /\ CreditInv'
    BY <2>1 DEF HybridType, PhasesSoFar, CreditInv, Ran, Searching, BeamPart
  <2>3. ReasonInv' /\ SolutionInv'
    BY <2>1 DEF ReasonInv, SolutionInv, Ran
  <2> QED BY <2>2, <2>3
<1>3. CASE RunPhase
  BY <1>3, PhaseStep
<1>4. CASE Finish
  <2>1. /\ pc = "finish" /\ pc' = "done" /\ best # NoCandidate /\ best \in Candidates
        /\ test_key = NoKey /\ reason \in {"target_score", "configured_work_limit_reached"}
        /\ UNCHANGED <<score, seed_keys, test_key, use_beam, best, from_phase, seed_for_ga,
                       reason, results>>
    BY <1>4 DEF Finish, problem, incumbent, HybridType, PhasesSoFar, ReasonInv, Searching
  <2>2. HybridType' /\ PhasesSoFar' /\ CreditInv' /\ ReasonInv'
    BY <2>1 DEF HybridType, PhasesSoFar, CreditInv, Ran, Searching, ReasonInv
  <2>3. CASE IsFinite(ScoreOf(best))
    <3>1. PICK c \in LocalImprove(best, score) :
             sol'.kind = "found" /\ sol'.cand = c /\ sol'.reason = reason
      BY <1>4, <2>3 DEF Finish
    <3>2. c \in Candidates /\ (c = best \/ ScoreOf(c) > ScoreOf(best))
      BY <2>1, LocalImproveFacts DEF HybridType
    <3>3. ScoreOf(best) <= ScoreOf(c)
      BY <2>1, <3>2, CandidateParts, ScoreRange
    <3>4. SolutionInv'
      BY <2>1, <2>3, <3>1, <3>2, <3>3 DEF SolutionInv
    <3> QED BY <2>2, <3>4
  <2>4. CASE ~ IsFinite(ScoreOf(best))
    <3>1. sol'.kind = "rejected" /\ sol'.reason = "all_rejected_by_hard_crib"
      BY <1>4, <2>4 DEF Finish
    <3>2. SolutionInv'
      BY <2>1, <2>4, <3>1 DEF SolutionInv
    <3> QED BY <2>2, <3>2
  <2> QED BY <2>3, <2>4
<1>5. CASE NoStartKey \/ Raise
  <2>1. /\ pc' = "raised" /\ sol'.kind = "raised"
        /\ UNCHANGED <<score, seed_keys, test_key, use_beam, best, from_phase, seed_for_ga, results>>
        /\ reason' = "target_score" => reason = "target_score"
    BY <1>5 DEF NoStartKey, Raise, problem, incumbent
  <2>2. HybridType' /\ PhasesSoFar' /\ CreditInv' /\ ReasonInv'
    BY <2>1 DEF HybridType, PhasesSoFar, CreditInv, Ran, Searching, ReasonInv
  <2>3. SolutionInv'
    BY <2>1 DEF SolutionInv
  <2> QED BY <2>2, <2>3
<1>6. CASE Stopped \/ UNCHANGED vars
  <2>1. UNCHANGED <<score, seed_keys, test_key, use_beam, pc, best, from_phase, seed_for_ga,
                    reason, sol, results>>
    BY <1>6 DEF Stopped, vars, problem, incumbent
  <2> QED BY <2>1 DEF HybridType, PhasesSoFar, CreditInv, ReasonInv, SolutionInv, Ran,
                      Searching, BeamPart
<1> QED BY <1>1, <1>2, <1>3, <1>4, <1>5, <1>6 DEF Next, Step, RunPhase

LEMMA HybridInvHolds == Spec => []HybridInv
BY HybridInvInit, HybridInvStep, PTL DEF Spec

-----------------------------------------------------------------------------
(* What the chain of phases promises.                                         *)

\* Credit goes to the first phase that found the best result, and the answer of a
\* run is never worse than a seed it was given, whatever the phases hand over.
THEOREM CreditIsAlwaysDeserved == Spec => []CreditIsDeserved
<1>1. HybridInv => CreditIsDeserved
  <2> SUFFICES ASSUME HybridInv PROVE CreditIsDeserved
    OBVIOUS
  <2> USE DEF HybridInv
  <2>1. ASSUME pc = "done", sol.kind = "found", NEW k \in seed_keys
        PROVE  score[k] <= ScoreOf(sol.cand)
    <3>1. /\ sol.cand \in Candidates /\ ScoreOf(best) <= ScoreOf(sol.cand)
          /\ best # NoCandidate
      BY <2>1 DEF SolutionInv
    <3>2. Ran # {}
      BY <3>1 DEF CreditInv, HybridType
    <3>3. score[k] <= ScoreOf(best)
      BY <3>2 DEF CreditInv
    <3>4. score[k] \in Int /\ ScoreOf(best) \in Int /\ ScoreOf(sol.cand) \in Int
      BY <3>1, BestScoreFacts, CandidateParts, ScoreRange DEF HybridType
    <3> QED BY <3>1, <3>3, <3>4
  <2>2. ASSUME from_phase # NoPhase
        PROVE  /\ best = results[from_phase]
               /\ \A p \in DOMAIN results :
                    IF p \in Before(from_phase) THEN ScoreOf(results[p]) < ScoreOf(best)
                                                ELSE ScoreOf(results[p]) <= ScoreOf(best)
    BY <2>2 DEF CreditInv, Ran
  <2> QED BY <2>1, <2>2 DEF CreditIsDeserved
<1> QED BY <1>1, HybridInvHolds, PTL

\* No phase runs once one has reached the target, and only a run cut short reports
\* the target.
THEOREM TargetAlwaysEndsRun == Spec => []TargetEndsRun
<1>1. HybridInv => TargetEndsRun
  BY DEF HybridInv, ReasonInv, TargetEndsRun, Ran
<1> QED BY <1>1, HybridInvHolds, PTL

\* Annealing has no key to start from only when there was no beam phase and the
\* genetic algorithm, and with it every seed, came out rejected.
THEOREM OnlyRejectionEverLeavesNoStart == Spec => []OnlyRejectionLeavesNoStart
<1>1. HybridInv => OnlyRejectionLeavesNoStart
  <2> SUFFICES ASSUME HybridInv, pc = "sa", KeyOf(best) = NoKey
               PROVE  /\ ~ use_beam
                      /\ ~ IsFinite(ScoreOf(results["ga"]))
                      /\ \A k \in seed_keys : ~ IsFinite(score[k])
    BY DEF OnlyRejectionLeavesNoStart
  <2> USE DEF HybridInv
  <2>1. best = NoCandidate /\ ScoreOf(best) = NegInf
    BY BestScoreFacts
  <2>2. "ga" \in Ran /\ (use_beam => "beam" \in Ran)
    BY DEF PhasesSoFar, BeamPart
  <2>3. ScoreOf(results["ga"]) \in Scores /\ \A k \in seed_keys : score[k] \in Scores
    BY <2>2, CandidateParts DEF HybridType
  <2>4. ScoreOf(results["ga"]) <= NegInf /\ \A k \in seed_keys : score[k] <= NegInf
    BY <2>1, <2>2 DEF CreditInv
  <2> QED BY <2>1, <2>2, <2>3, <2>4, ScoreRange DEF CreditInv, IsFinite
<1> QED BY <1>1, HybridInvHolds, PTL

-----------------------------------------------------------------------------
(* The chain implements Search.                                               *)

AbstractSeen ==
  Counted \cup (IF KeyOf(best) = NoKey THEN {} ELSE {<<k, score[k]>> : k \in seed_keys})

AbstractIncumbent == IF KeyOf(best) = NoKey THEN NoKey ELSE best

\* What the abstract search has scored: the results and the seeds, once there is a
\* best key; and nothing of it beats the best.
SeenIsDominated ==
  /\ AbstractSeen \subseteq Abstract!Candidates
  /\ best = NoCandidate => AbstractSeen = {} /\ AbstractIncumbent = NoKey
  /\ best # NoCandidate =>
       /\ AbstractIncumbent = best /\ best \in AbstractSeen
       /\ AbstractSeen = {results[p] : p \in Ran} \cup {<<k, score[k]>> : k \in seed_keys}
       /\ \A d \in AbstractSeen : d[2] <= best[2]

LEMMA AbstractSeenFacts == HybridInv => SeenIsDominated
<1> SUFFICES ASSUME HybridInv PROVE SeenIsDominated
  OBVIOUS
<1> USE DEF HybridInv, SeenIsDominated
<1>1. Abstract!Candidates = Candidates
  BY DEF Abstract!Candidates, Candidates, Scores, NegInf
<1>2. KeyOf(best) = NoKey <=> best = NoCandidate
  BY BestScoreFacts
<1>3. CASE best = NoCandidate
  BY <1>2, <1>3 DEF AbstractSeen, AbstractIncumbent, Counted
<1>4. CASE best # NoCandidate
  <2>1. AbstractSeen = {results[p] : p \in Ran} \cup {<<k, score[k]>> : k \in seed_keys}
    BY <1>2, <1>4 DEF AbstractSeen, Counted, Ran
  <2>2. from_phase \in Ran /\ best = results[from_phase]
    BY <1>4 DEF HybridType, CreditInv
  <2>3. AbstractSeen \subseteq Candidates
    <3>1. \A k \in seed_keys : <<k, score[k]>> \in Candidates
      BY DEF HybridType, Candidates
    <3> QED BY <2>1, <3>1 DEF HybridType
  <2>4. ASSUME NEW d \in AbstractSeen PROVE d[2] <= best[2]
    <3>1. CASE \E p \in Ran : d = results[p]
      BY <3>1 DEF CreditInv, ScoreOf
    <3>2. CASE \E k \in seed_keys : d = <<k, score[k]>>
      BY <2>2, <3>2 DEF CreditInv, ScoreOf
    <3> QED BY <2>1, <3>1, <3>2
  <2>5. AbstractIncumbent = best
    BY <1>2, <1>4 DEF AbstractIncumbent
  <2> QED BY <1>1, <1>4, <2>1, <2>2, <2>3, <2>4, <2>5
<1> QED BY <1>3, <1>4

\* The same in the next state.
LEMMA AbstractSeenFactsNext == HybridInv' => SeenIsDominated'
BY AbstractSeenFacts, PTL

LEMMA PhaseRefines ==
  ASSUME HybridInv, HybridInv', RunPhase
  PROVE  [Abstract!Next]_(Abstract!vars)
<1> USE AbstractSeenFacts, AbstractSeenFactsNext DEF SeenIsDominated
<1>1. /\ pc \in {"beam", "ga", "sa"} /\ pc \notin Ran /\ Ran' = Ran \cup {pc}
      /\ \A p \in Ran : results'[p] = results[p]
      /\ UNCHANGED <<score, seed_keys, sol>>
      /\ \/ pc = "beam" \/ best' = best \/ ScoreOf(best') > ScoreOf(best)
  BY PhaseFacts DEF problem
<1>2. Answer = NoKey /\ Answer' = NoKey
  <2>1. sol.kind = "none"
    BY <1>1 DEF HybridInv, SolutionInv
  <2> QED BY <1>1, <2>1 DEF Answer
<1>3. CASE best' = NoCandidate
  <2>1. best = NoCandidate
    <3>1. pc # "beam"
      BY <1>1, <1>3 DEF HybridInv, CreditInv
    <3>2. ScoreOf(best) \in Scores /\ (best' = NoCandidate => ScoreOf(best') = NegInf)
      BY BestScoreFacts DEF HybridInv, NoCandidate, ScoreOf
    <3> QED BY <1>1, <1>3, <3>1, <3>2, ScoreRange
  <2>2. AbstractSeen' = {} /\ AbstractIncumbent' = NoKey
    BY <1>3
  <2>3. AbstractSeen = {} /\ AbstractIncumbent = NoKey
    BY <2>1
  <2> QED BY <1>2, <2>2, <2>3 DEF Abstract!vars, AbstractSeen, AbstractIncumbent
<1>4. CASE best' # NoCandidate
  <2>1. /\ AbstractSeen' \in SUBSET Abstract!Candidates
        /\ AbstractIncumbent' = best' /\ best' \in AbstractSeen'
        /\ AbstractSeen' = {results'[p] : p \in Ran'} \cup {<<k, score[k]>> : k \in seed_keys}
        /\ \A d \in AbstractSeen' : d[2] <= best'[2]
    <3>1. Abstract!Candidates' = Abstract!Candidates
      BY DEF Abstract!Candidates
    <3> QED BY <1>1, <1>4, <3>1
  <2>2. AbstractSeen \subseteq AbstractSeen'
    <3>1. CASE best = NoCandidate
      BY <3>1
    <3>2. CASE best # NoCandidate
      BY <1>1, <2>1, <3>2
    <3> QED BY <3>1, <3>2
  <2>3. AbstractSeen # {} /\ AbstractIncumbent'[2] = AbstractIncumbent[2]
          => AbstractIncumbent' = AbstractIncumbent
    <3> SUFFICES ASSUME AbstractSeen # {}, best'[2] = AbstractIncumbent[2]
                 PROVE  best' = AbstractIncumbent
      BY <2>1
    <3>1. best # NoCandidate /\ AbstractIncumbent = best
      OBVIOUS
    <3>2. pc # "beam"
      BY <3>1 DEF HybridInv, PhasesSoFar, CreditInv, HybridType
    <3>3. ScoreOf(best) \in Int /\ ScoreOf(best') = ScoreOf(best)
      BY <3>1, BestScoreFacts DEF HybridInv, ScoreOf
    <3> QED BY <1>1, <3>1, <3>2, <3>3
  <2>4. Abstract!Explore
    BY <1>2, <2>1, <2>2, <2>3
    DEF Abstract!Explore, Abstract!Dominates, AbstractSeen, AbstractIncumbent
  <2> QED BY <2>4 DEF Abstract!Next
<1> QED BY <1>3, <1>4

LEMMA RefinementStep ==
  ASSUME HybridInv, HybridInv', [Next]_vars
  PROVE  [Abstract!Next]_(Abstract!vars)
<1>a. pc \notin {"done", "raised"} => Answer = NoKey
  BY DEF HybridInv, SolutionInv, Answer
<1>1. CASE TestKeyFastPath
  <2>1. /\ pc = "start" /\ test_key \in Keys /\ Ran = {}
        /\ UNCHANGED <<score, seed_keys, best, results>>
    BY <1>1 DEF TestKeyFastPath, problem, incumbent, HybridInv, HybridType, PhasesSoFar
  <2>2. best = NoCandidate
    BY <2>1 DEF HybridInv, HybridType, CreditInv
  <2>3. AbstractSeen = {} /\ UNCHANGED <<AbstractSeen, AbstractIncumbent>>
    BY <2>1, <2>2, AbstractSeenFacts
    DEF SeenIsDominated, AbstractSeen, AbstractIncumbent, Counted
  <2> DEFINE c == <<test_key, score[test_key]>>
  <2>4. c \in Abstract!Candidates
    BY <2>1 DEF HybridInv, HybridType, Abstract!Candidates, Scores, NegInf
  <2>5. Answer' = [kind |-> "supplied", cand |-> c]
    BY <1>1 DEF TestKeyFastPath, Answer
  <2> HIDE DEF c
  <2>6. Abstract!Supplied
    BY <1>a, <2>1, <2>3, <2>4, <2>5 DEF Abstract!Supplied, AbstractSeen, AbstractIncumbent
  <2> QED BY <2>6 DEF Abstract!Next
<1>2. CASE RunPhase
  BY <1>2, PhaseRefines
<1>3. CASE Finish
  <2>1. /\ pc = "finish" /\ best # NoCandidate /\ best \in Candidates
        /\ UNCHANGED <<AbstractSeen, AbstractIncumbent>>
    BY <1>3 DEF Finish, problem, incumbent, HybridInv, HybridType, PhasesSoFar,
                AbstractSeen, AbstractIncumbent, Counted
  <2>2. AbstractSeen # {} /\ AbstractIncumbent = best /\ Answer = NoKey
    BY <1>a, <2>1, AbstractSeenFacts DEF SeenIsDominated
  <2>3. Abstract!Candidates = Candidates
    BY DEF Abstract!Candidates, Candidates, Scores, NegInf
  <2>4. CASE IsFinite(ScoreOf(best))
    <3>1. PICK c \in LocalImprove(best, score) :
             sol'.kind = "found" /\ sol'.cand = c
      BY <1>3, <2>4 DEF Finish
    <3>2. c \in Abstract!Candidates /\ (c = best \/ c[2] > best[2])
      BY <2>1, <2>3, LocalImproveFacts DEF HybridInv, HybridType, ScoreOf
    <3>3. Answer' = [kind |-> "found", cand |-> c]
      BY <3>1 DEF Answer
    <3>4. Abstract!Found
      BY <2>1, <2>2, <2>4, <3>2, <3>3
      DEF Abstract!Found, AbstractSeen, AbstractIncumbent, IsFinite, NegInf, ScoreOf
    <3> QED BY <3>4 DEF Abstract!Next
  <2>5. CASE ~ IsFinite(ScoreOf(best))
    <3>1. Answer' = [kind |-> "rejected", cand |-> best]
      BY <1>3, <2>5 DEF Finish, Answer
    <3>2. Abstract!Rejected
      BY <2>1, <2>2, <2>5, <3>1
      DEF Abstract!Rejected, AbstractSeen, AbstractIncumbent, IsFinite, NegInf, ScoreOf
    <3> QED BY <3>2 DEF Abstract!Next
  <2> QED BY <2>4, <2>5
<1>4. CASE NoStartKey \/ Raise
  <2>1. /\ pc \notin {"done", "raised"} /\ sol'.kind = "raised"
        /\ UNCHANGED <<score, seed_keys, best, results>>
    BY <1>4 DEF NoStartKey, Raise, problem, incumbent
  <2>2. Answer' = [kind |-> "raised"] /\ UNCHANGED <<AbstractSeen, AbstractIncumbent>>
    BY <2>1 DEF Answer, AbstractSeen, AbstractIncumbent, Counted
  <2>3. Abstract!Raise
    BY <1>a, <2>1, <2>2 DEF Abstract!Raise, AbstractSeen, AbstractIncumbent
  <2> QED BY <2>3 DEF Abstract!Next
<1>5. CASE Start \/ Stopped \/ UNCHANGED vars
  <2>1. UNCHANGED <<score, seed_keys, best, results, sol>>
    BY <1>5 DEF Start, Stopped, vars, problem, incumbent
  <2> QED BY <2>1 DEF Abstract!vars, Counted, Answer
<1> QED BY <1>1, <1>2, <1>3, <1>4, <1>5 DEF Next, Step, RunPhase

\* The chain of phases is a Search over the results of its phases and its seeds.
THEOREM ChainImplementsSearch == Spec => ImplementsSearch
<1>1. Init => Abstract!Init
  <2> SUFFICES ASSUME Init PROVE Abstract!Init
    OBVIOUS
  <2>1. KeyOf(best) = NoKey /\ Answer = NoKey
    BY DEF Init, NoCandidate, KeyOf, Answer, NoSolution
  <2> QED BY <2>1 DEF Abstract!Init, Counted
<1>2. HybridInv /\ HybridInv' /\ [Next]_vars => [Abstract!Next]_(Abstract!vars)
  BY RefinementStep
<1> QED BY <1>1, <1>2, HybridInvHolds, PTL DEF Spec, ImplementsSearch, Abstract!Spec

-----------------------------------------------------------------------------
(* The engine.                                                                *)

\* Around the solver the engine changes nothing of it.
LEMMA EngineStepIsSolverStep ==
  ASSUME [EngineNext]_<<vars, engineVars>>
  PROVE  [Next]_vars
BY DEF EngineNext, RunStart, Build, Solve, Return, Fail, Interrupt, Publish, CallEnded,
       Next, engineVars

\* What is proved of the solver holds of the solver inside the engine's call,
\* wherever that call is interrupted.
THEOREM EngineRunsTheSolver == EngineSpec => Spec
<1>1. EngineInit => Init
  BY DEF EngineInit
<1> QED BY <1>1, EngineStepIsSolverStep, PTL DEF EngineSpec, Spec

\* What the stop-reason contract makes of the reasons a returned solution has.
LEMMA StatusFacts ==
  /\ StatusOf("test_key").execution = "completed"
  /\ StatusOf("target_score").execution = "completed"
  /\ StatusOf("configured_work_limit_reached").execution = "completed"
  /\ StatusOf("configured_work_limit_reached").category = "budget"
  /\ StatusOf("all_rejected_by_hard_crib").execution = "blocked_before_run"
  /\ StatusOf("all_rejected_by_hard_crib").category = "blocked_before_run"
  /\ BuildRunStatus("exception", "error").execution = "error"
<1>1. /\ Canonical("test_key") = "oracle_test_key_used"
      /\ Canonical("target_score") = "target_score_reached"
      /\ Canonical("configured_work_limit_reached") = "configured_work_limit_reached"
      /\ Canonical("all_rejected_by_hard_crib") = "all_candidates_rejected_by_hard_crib"
  BY DEF Canonical
<1>2. /\ Category("oracle_test_key_used") = "success"
      /\ Category("target_score_reached") = "success"
      /\ Category("configured_work_limit_reached") = "budget"
      /\ Category("all_candidates_rejected_by_hard_crib") = "blocked_before_run"
  BY DEF Category
<1> QED BY <1>1, <1>2 DEF StatusOf, BuildRunStatus, ExecutionStatusFor

\* The run block and the public result follow the call.
CallInv ==
  /\ call \in {"called", "building"} => pc = "start"
  /\ call \in {"returned", "published"} => pc = "done"
  /\ call \in {"called", "building", "solving", "interrupted"} => ~ envelope.ended
  /\ call \in {"returned", "published"} =>
       envelope.ended /\ envelope.status = StatusOf(sol.reason)
  /\ call = "published" => published = StatusOf(sol.reason)
  /\ call = "raised" =>
       IF envelope.ended THEN envelope.status.execution = "error" ELSE pc = "start"

LEMMA CallInvStep ==
  ASSUME CallInv, [EngineNext]_<<vars, engineVars>>
  PROVE  CallInv'
<1> USE DEF CallInv
<1>1. CASE RunStart
  BY <1>1 DEF RunStart, vars
<1>2. CASE Build \/ Interrupt
  BY <1>2 DEF Build, Interrupt, vars
<1>3. CASE Solve
  BY <1>3 DEF Solve, engineVars
<1>4. CASE Return
  BY <1>4 DEF Return, RunEnd, vars
<1>5. CASE Fail
  BY <1>5, StatusFacts DEF Fail, RunEnd, vars
<1>6. CASE Publish
  BY <1>6 DEF Publish, vars
<1>7. CASE CallEnded \/ UNCHANGED <<vars, engineVars>>
  BY <1>7 DEF CallEnded, vars, engineVars
<1> QED BY <1>1, <1>2, <1>3, <1>4, <1>5, <1>6, <1>7 DEF EngineNext

LEMMA EnvelopeFollows ==
  ASSUME HybridInv, CallInv
  PROVE  EnvelopeTellsTheEnd
<1>1. ASSUME call \in {"returned", "published"}
      PROVE  LET status == envelope.status
             IN  /\ envelope.ended /\ status.execution \in {"completed", "blocked_before_run"}
                 /\ status.category = "success" =>
                      sol.cand[1] = test_key \/ StopScoreReached(ScoreOf(sol.cand))
                 /\ status.execution = "blocked_before_run" <=>
                      test_key = NoKey /\ \A p \in DOMAIN results : ~ IsFinite(ScoreOf(results[p]))
  <2>1. pc = "done" /\ envelope.ended /\ envelope.status = StatusOf(sol.reason)
    BY <1>1 DEF CallInv
  <2>2. CASE sol.kind = "supplied"
    <3>1. sol.reason = "test_key" /\ test_key # NoKey /\ sol.cand[1] = test_key
      BY <2>1, <2>2 DEF HybridInv, SolutionInv, KeyOf
    <3> QED BY <2>1, <3>1, StatusFacts
  <2>3. CASE sol.kind = "found"
    <3>1. /\ sol.reason = reason /\ test_key = NoKey
          /\ sol.reason \in {"target_score", "configured_work_limit_reached"}
          /\ sol.cand \in Candidates /\ ScoreOf(best) <= ScoreOf(sol.cand)
          /\ best # NoCandidate /\ IsFinite(ScoreOf(best))
      BY <2>1, <2>3 DEF HybridInv, SolutionInv
    <3>2. from_phase \in Ran /\ IsFinite(ScoreOf(results[from_phase]))
      BY <3>1 DEF HybridInv, HybridType, CreditInv
    <3>3. sol.reason = "target_score" => StopScoreReached(ScoreOf(sol.cand))
      <4>1. ScoreOf(best) \in Scores /\ ScoreOf(sol.cand) \in Scores
        BY <3>1, BestScoreFacts, CandidateParts DEF HybridInv
      <4> QED BY <3>1, <4>1, TargetFacts DEF HybridInv, ReasonInv
    <3> QED BY <2>1, <3>1, <3>2, <3>3, StatusFacts DEF Ran
  <2>4. CASE sol.kind = "rejected"
    <3>1. /\ sol.reason = "all_rejected_by_hard_crib" /\ test_key = NoKey
          /\ ScoreOf(best) = NegInf
      BY <2>1, <2>4 DEF HybridInv, SolutionInv, IsFinite
    <3>2. ASSUME NEW p \in Ran PROVE ~ IsFinite(ScoreOf(results[p]))
      <4>1. ScoreOf(results[p]) \in Scores /\ ScoreOf(results[p]) <= NegInf
        BY <3>1, CandidateParts DEF HybridInv, HybridType, CreditInv
      <4> QED BY <4>1, ScoreRange DEF IsFinite
    <3> QED BY <2>1, <3>1, <3>2, StatusFacts DEF Ran
  <2> QED BY <2>1, <2>2, <2>3, <2>4 DEF HybridInv, SolutionInv
<1> QED BY <1>1 DEF CallInv, EnvelopeTellsTheEnd

\* The run block tells how the call ended: left open only by an interrupt or a
\* solver that could not be built, error if and only if it raised, success only for
\* the test key or a candidate that reaches the target, nothing to run if and only
\* if every phase came back rejected; and the public result says the same.
THEOREM EnvelopeAlwaysTellsTheEnd == EngineSpec => []EnvelopeTellsTheEnd
<1>1. EngineInit => CallInv
  BY DEF EngineInit, CallInv, Init, NoEnvelope
<1>2. CallInv /\ [EngineNext]_<<vars, engineVars>> => CallInv'
  BY CallInvStep
<1>3. HybridInv /\ CallInv => EnvelopeTellsTheEnd
  BY EnvelopeFollows
<1> QED BY <1>1, <1>2, <1>3, EngineRunsTheSolver, HybridInvHolds, PTL DEF EngineSpec

-----------------------------------------------------------------------------
(* The promise of a search, kept.                                             *)

\* What is scored are candidates, the incumbent is one that none of them beats, and
\* the answer is as good.
PromiseInv ==
  /\ AbstractSeen \subseteq Abstract!Candidates
  /\ AbstractSeen # {} => AbstractIncumbent \in AbstractSeen /\ Tops(AbstractIncumbent, AbstractSeen)
  /\ Abstract!AnswerDominates

\* Each step of the abstract search preserves that.
LEMMA PromiseStep ==
  ASSUME PromiseInv, [Abstract!Next]_(Abstract!vars)
  PROVE  PromiseInv'
<1> USE DEF PromiseInv, Abstract!AnswerDominates, Abstract!Dominates, Tops, AbstractSeen, AbstractIncumbent
<1>1. CASE Abstract!Explore
  BY <1>1, Zenon DEF Abstract!Explore, Abstract!Candidates
<1>2. CASE Abstract!Found
  <2>1. /\ AbstractSeen # {} /\ UNCHANGED <<AbstractSeen, AbstractIncumbent>>
        /\ Answer' \in [kind : {"found"}, cand : Abstract!Candidates]
        /\ Answer'.cand = AbstractIncumbent \/ Answer'.cand[2] > AbstractIncumbent[2]
    BY <1>2 DEF Abstract!Found
  <2>2. /\ Answer'.kind = "found" /\ Answer'.cand \in Abstract!Candidates
        /\ AbstractIncumbent \in Abstract!Candidates
    BY <2>1
  <2>3. Tops(Answer'.cand, AbstractSeen)
    BY <2>1, <2>2, TopsIsMonotone DEF Abstract!Candidates
  <2> QED BY <2>1, <2>2, <2>3
<1>3. CASE Abstract!Rejected
  <2>1. /\ AbstractSeen # {} /\ UNCHANGED <<AbstractSeen, AbstractIncumbent>> /\ AbstractIncumbent[2] = -Inf
        /\ Answer'.kind = "rejected"
    BY <1>3 DEF Abstract!Rejected
  <2>2. \A c \in AbstractSeen : c[2] = -Inf
    BY <2>1, RejectedIsAll DEF Abstract!Candidates
  <2> QED BY <2>1, <2>2
<1>4. CASE Abstract!Supplied
  BY <1>4 DEF Abstract!Supplied
<1>5. CASE Abstract!Raise
  BY <1>5 DEF Abstract!Raise
<1>6. CASE UNCHANGED Abstract!vars
  BY <1>6 DEF Abstract!vars
<1> QED BY <1>1, <1>2, <1>3, <1>4, <1>5, <1>6 DEF Abstract!Next

\* The chain keeps the promise of its phases: an answer it found is beaten by no
\* phase's result and no seed, and one it rejects means that all of them were.
THEOREM ChainAnswersWithTheBest == Spec => []Abstract!AnswerDominates
<1>1. Abstract!Init => PromiseInv
  BY DEF Abstract!Init, PromiseInv, Abstract!AnswerDominates, AbstractSeen, AbstractIncumbent
<1>2. PromiseInv /\ [Abstract!Next]_(Abstract!vars) => PromiseInv'
  BY PromiseStep
<1>3. PromiseInv => Abstract!AnswerDominates
  BY DEF PromiseInv
<1> QED BY <1>1, <1>2, <1>3, ChainImplementsSearch, PTL DEF ImplementsSearch, Abstract!Spec

\* So does the solver while the engine runs it.
THEOREM EngineAnswersWithTheBest == EngineSpec => []Abstract!AnswerDominates
BY EngineRunsTheSolver, ChainAnswersWithTheBest, PTL

=============================================================================
