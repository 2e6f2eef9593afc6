---------------------------- MODULE HybridSolver ----------------------------
(* rdp.solvers.hybrid.HybridSolver.solve: beam, then the genetic algorithm,   *)
(* then annealing, each handed what the one before it found.                  *)
(*                                                                            *)
(* A phase is a whole solver.  What it may return is what the module Search   *)
(* promises, and SASolver, BeamSolver and GASolver implement it: a candidate  *)
(* at least as good as everything it scored, its seeds first of all.  There   *)
(* are no more seeds than a population holds (a phase drops the others), and  *)
(* the Hamming weight does not change.                                        *)
EXTENDS SolverBase

CONSTANTS
  Landscapes,  \* score of each key
  UseBeam,     \* use_beam
  SeedSets,    \* the sets of seed keys that may be supplied
  BeamSets     \* the sets of keys the beam phase may hand over

ASSUME HybridAssumption ==
  /\ Landscapes \subseteq [Keys -> Scores]
  /\ UseBeam \subseteq BOOLEAN
  /\ SeedSets \subseteq SUBSET Keys
  /\ BeamSets \subseteq (SUBSET Keys) \ {{}}

Phases == {"beam", "ga", "sa"}
NoPhase == "none"

VARIABLES
  score, seed_keys, test_key, use_beam,  \* the problem, never changed
  pc,                     \* start, a phase to run, finish, done or raised
  best, from_phase,       \* best_key and best_score together
  seed_for_ga,
  reason,                 \* _stop_reason
  sol,
  results,                \* history: the result of each phase that ran
  child_reason            \* history: why each of them stopped

problem == <<score, seed_keys, test_key, use_beam>>
incumbent == <<best, from_phase>>
vars == <<problem, pc, incumbent, seed_for_ga, reason, sol, results, child_reason>>

NoCandidate == <<NoKey, NegInf>>
NoSolution == [kind |-> "none"]

Init ==
  /\ score \in Landscapes /\ use_beam \in UseBeam
  /\ seed_keys \in SeedSets /\ test_key \in Keys \cup {NoKey}
  /\ pc = "start"
  /\ best = NoCandidate /\ from_phase = NoPhase
  /\ seed_for_ga = {}
  /\ reason = "none"
  /\ sol = NoSolution
  /\ results = <<>> /\ child_reason = <<>>

-----------------------------------------------------------------------------
(* What a phase may return.                                                   *)

\* Mutant: a phase does not score what it was handed.
AnyOutcome(seeds) == {<<k, score[k]>> : k \in Keys}

\* A solver's answer, given the keys it starts from.
Outcomes(seeds) ==
  {<<k, score[k]>> : k \in {j \in Keys : \A s \in seeds : score[s] <= score[j]}}

\* Why it may have stopped.  target_score needs a candidate that reaches the
\* target; one that only the polish lifted over it need not be reported so.
ChildReasons(c) ==
  IF StopScoreReached(ScoreOf(c)) THEN {"target_score", "limit"} ELSE {"limit"}

Recorded(f, p, value) == [q \in DOMAIN f \cup {p} |-> IF q = p THEN value ELSE f[q]]

\* Mutants: a tie is credited to the later phase; a first result is not taken.
TieBetter(c) == ScoreOf(c) >= ScoreOf(best)
BetterThanSome(c) == KeyOf(best) # NoKey /\ ScoreOf(c) > ScoreOf(best)

Better(c) == ScoreOf(c) > ScoreOf(best)

\* The phase's result is taken if it is strictly better.
Take(c, p) ==
  /\ best' = IF Better(c) THEN c ELSE best
  /\ from_phase' = IF Better(c) THEN p ELSE from_phase
  /\ results' = Recorded(results, p, c)
  /\ \E why \in ChildReasons(c) : child_reason' = Recorded(child_reason, p, why)

\* Mutant: the target is only looked at when annealing is over.
NeverEarly(c, next) == pc' = next /\ UNCHANGED reason

\* After beam and after the genetic algorithm the target ends the run.
ContinueUnlessTarget(c, next) ==
  /\ pc' = IF StopScoreReached(ScoreOf(c)) THEN "finish" ELSE next
  /\ reason' = IF StopScoreReached(ScoreOf(c)) THEN "target_score" ELSE reason

-----------------------------------------------------------------------------
TestKeyFastPath ==
  /\ pc = "start" /\ test_key # NoKey
  /\ sol' = [kind |-> "supplied", cand |-> <<test_key, score[test_key]>>,
             reason |-> "test_key", from_phase |-> NoPhase]
  /\ reason' = "test_key"
  /\ pc' = "done"
  /\ UNCHANGED <<problem, incumbent, seed_for_ga, results, child_reason>>

Start ==
  /\ pc = "start" /\ test_key = NoKey
  /\ pc' = IF use_beam THEN "beam" ELSE "ga"
  /\ UNCHANGED <<problem, incumbent, seed_for_ga, reason, sol, results, child_reason>>

\* The beam's result is taken as it is, even when it is a rejected key.  The beam
\* of its best restart, which seeds the genetic algorithm, holds the best seed or
\* a better key.
RunBeam ==
  /\ pc = "beam"
  /\ \E c \in Outcomes(seed_keys), keys \in BeamSets, why \in {"target_score", "limit"} :
       /\ \A k \in keys : score[k] <= ScoreOf(c)
       /\ \A s \in seed_keys : \E k \in keys : score[s] <= score[k]
       /\ why \in ChildReasons(c)
       /\ best' = c /\ from_phase' = "beam"
       /\ seed_for_ga' = keys
       /\ results' = Recorded(results, "beam", c)
       /\ child_reason' = Recorded(child_reason, "beam", why)
       /\ ContinueUnlessTarget(c, "ga")
  /\ UNCHANGED <<problem, sol>>

\* Without a beam the genetic algorithm starts from the caller's seeds.
RunGA ==
  /\ pc = "ga"
  /\ \E c \in Outcomes(IF seed_for_ga # {} THEN seed_for_ga ELSE seed_keys) :
       /\ Take(c, "ga")
       /\ ContinueUnlessTarget(best', "sa")
  /\ UNCHANGED <<problem, seed_for_ga, sol>>

\* Annealing starts from the best key.  Whatever made it stop, the reason is that
\* the configured work is done.
RunSA ==
  /\ pc = "sa" /\ KeyOf(best) # NoKey
  /\ \E c \in Outcomes({KeyOf(best)}) : Take(c, "sa")
  /\ reason' = "configured_work_limit_reached"
  /\ pc' = "finish"
  /\ UNCHANGED <<problem, seed_for_ga, sol>>

\* With no best key there is nothing to start from: start_key.reshape raises.
NoStartKey ==
  /\ pc = "sa" /\ KeyOf(best) = NoKey
  /\ reason' = "error"
  /\ sol' = [kind |-> "raised", reason |-> "error"]
  /\ pc' = "raised"
  /\ UNCHANGED <<problem, incumbent, seed_for_ga, results, child_reason>>

\* The best candidate is polished once more.  from_phase is recorded only by the
\* run that went through all its phases.
Finish ==
  /\ pc = "finish"
  /\ LET phase == IF reason = "target_score" THEN NoPhase ELSE from_phase
     IN  IF IsFinite(ScoreOf(best))
           THEN \E c \in LocalImprove(best, score) :
                  sol' = [kind |-> "found", cand |-> c, reason |-> reason,
                          from_phase |-> phase]
           ELSE sol' = [kind |-> "rejected", cand |-> best,
                        reason |-> "all_rejected_by_hard_crib", from_phase |-> phase]
  /\ pc' = "done"
  /\ UNCHANGED <<problem, incumbent, seed_for_ga, reason, results, child_reason>>

\* A phase raises, or the final decryption does; the fast path is outside the try.
Raise ==
  /\ pc \notin {"done", "raised"}
  /\ reason' \in IF reason = "none" /\ pc # "start"
                  THEN {"error", "unknown_runtime_reason"} ELSE {reason}
  /\ sol' = [kind |-> "raised", reason |-> reason']
  /\ pc' = "raised"
  /\ UNCHANGED <<problem, incumbent, seed_for_ga, results, child_reason>>

Stopped == pc \in {"done", "raised"} /\ UNCHANGED vars

Step == TestKeyFastPath \/ Start \/ RunBeam \/ RunGA \/ RunSA \/ NoStartKey \/ Finish

Next == Step \/ Raise \/ Stopped

Spec == Init /\ [][Next]_vars

-----------------------------------------------------------------------------
(* Properties.                                                                *)

Before(p) == CASE p = "beam" -> {} [] p = "ga" -> {"beam"} [] p = "sa" -> {"beam", "ga"}

\* The phase that is credited found a result no phase beat, and every phase that
\* ran before it found less; handing over never loses: the answer is at least as
\* good as every seed the run was given.
CreditIsDeserved ==
  /\ from_phase # NoPhase =>
       /\ best = results[from_phase]
       /\ \A p \in DOMAIN results :
            IF p \in Before(from_phase) THEN ScoreOf(results[p]) < ScoreOf(best)
                                        ELSE ScoreOf(results[p]) <= ScoreOf(best)
  /\ pc = "done" /\ sol.kind = "found" =>
       \A k \in seed_keys : score[k] <= ScoreOf(sol.cand)

\* No phase runs after one whose result reached the target, and a run that was cut
\* short is the only one that reports the target.
TargetEndsRun ==
  /\ \A p \in DOMAIN results, q \in DOMAIN results :
       p \in Before(q) => ~ StopScoreReached(ScoreOf(results[p]))
  /\ reason = "target_score" => StopScoreReached(ScoreOf(best)) /\ "sa" \notin DOMAIN results

\* Annealing lacks a start key only if there was no beam phase and the genetic
\* algorithm came back with a rejected key: every seed was rejected.
OnlyRejectionLeavesNoStart ==
  pc = "sa" /\ KeyOf(best) = NoKey =>
    /\ ~ use_beam
    /\ ~ IsFinite(ScoreOf(results["ga"]))
    /\ \A k \in seed_keys : ~ IsFinite(score[k])

\* A run that reports that its configured work is done had no phase that stopped
\* early because the target was reached.
CompletedWithoutEarlierStop ==
  pc = "done" /\ sol.reason = "configured_work_limit_reached" =>
    \A p \in DOMAIN child_reason : child_reason[p] # "target_score"

-----------------------------------------------------------------------------
(* Refinement: the chain of phases is itself a Search, over the results of    *)
(* its phases and the seeds it was given.                                     *)

Answer ==
  IF sol.kind = "none" THEN NoKey
  ELSE IF sol.kind = "raised" THEN [kind |-> "raised"]
  ELSE [kind |-> sol.kind, cand |-> sol.cand]

\* A rejected result of a genetic phase that nothing precedes is not kept by the
\* code (best_key stays None), so the abstract search does not count it either.
Counted == {results[p] : p \in {q \in DOMAIN results : KeyOf(best) # NoKey}}

Abstract == INSTANCE Search WITH
  Nothing <- NoKey,
  seen <- Counted \cup (IF KeyOf(best) = NoKey THEN {}
                        ELSE {<<k, score[k]>> : k \in seed_keys}),
  incumbent <- IF KeyOf(best) = NoKey THEN NoKey ELSE best,
  answer <- Answer

\* Every step of the chain is a step of the abstract search, or changes nothing
\* that it can see.
ImplementsSearch == Abstract!Spec
=============================================================================
