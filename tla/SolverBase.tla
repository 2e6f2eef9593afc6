----------------------------- MODULE SolverBase -----------------------------
(* What every search solver inherits from rdp.solvers.solver_base.SolverBase: *)
(* the comparison rules, the early-stop controls, the stable top-k selection  *)
(* and the local-improvement contract.  Like the Python base class it keeps   *)
(* no state of its own; a solver module extends it and owns the variables.    *)
(*                                                                            *)
(* A rank score is an integer.  A candidate that the crib filter or the       *)
(* degeneracy filter rejects scores -inf in the code; here it is NegInf, and  *)
(* the arithmetic on it is the floating-point one (adding to it changes       *)
(* nothing, and it is below every finite score).                              *)
EXTENDS Integers, Sequences, FiniteSets

CONSTANTS
  Keys,           \* the candidate keys
  NoKey,          \* Python's None where a key is expected
  Inf,            \* beyond every finite score
  Target,         \* stop_score, or NoTarget
  NoTarget,
  PlateauRounds,  \* plateau_rounds, 0 switches the plateau stop off
  MinDelta        \* plateau_min_delta

ASSUME KeyAssumption == NoKey \notin Keys
ASSUME InfAssumption == Inf \in Nat \ {0}
ASSUME TargetAssumption == Target \in (1 - Inf)..(Inf - 1) \/ Target = NoTarget
ASSUME PlateauAssumption == PlateauRounds \in Nat /\ MinDelta \in Nat

NegInf == -Inf
Scores == NegInf..(Inf - 1)
IsFinite(s) == s # NegInf

\* The values of _stop_reason and of a Solution's stop_reason that the modelled
\* solvers produce; "none" is None, "no_improve" is no_improve_<rounds> and
\* "stall_slip_limit" is stall_slip_limit_<limit>.
Reasons ==
  {"none", "error", "unknown_runtime_reason", "test_key", "no_improve", "target_score",
   "max_iterations_reached", "max_rounds_reached", "max_generations_reached",
   "max_steps_reached", "stall_slip_limit",
   "configured_work_limit_reached", "all_rejected_by_hard_crib"}

-----------------------------------------------------------------------------
(* Early stopping: the record holds _best_score_so_far, _last_improve_at and  *)
(* _stop_reason.                                                              *)

EarlyStops == [best : Scores, at : Nat, reason : Reasons]

PlusDelta(s) == IF IsFinite(s) THEN s + MinDelta ELSE s

IsImprovement(current, previous) == current > PlusDelta(previous)

EarlyStopReset(initial) == [best |-> initial, at |-> 0, reason |-> "none"]

\* Mutant: one round too patient.
PatienceExhaustedLate(es, step) == PlateauRounds > 0 /\ step - es.at > PlateauRounds

PatienceExhausted(es, step) == PlateauRounds > 0 /\ step - es.at >= PlateauRounds

PlateauFires(es, current, step) ==
  /\ ~ IsImprovement(current, es.best)
  /\ PatienceExhausted(es, step)

\* Mutant: an improvement does not restart the count.
EarlyStopUpdateNoRestart(es, current, step) ==
  IF IsImprovement(current, es.best)
    THEN [es EXCEPT !.best = current]
    ELSE IF PatienceExhausted(es, step)
           THEN [es EXCEPT !.reason = "no_improve"]
           ELSE es

EarlyStopUpdate(es, current, step) ==
  IF IsImprovement(current, es.best)
    THEN [es EXCEPT !.best = current, !.at = step]
    ELSE IF PatienceExhausted(es, step)
           THEN [es EXCEPT !.reason = "no_improve"]
           ELSE es

StopScoreReached(s) == Target # NoTarget /\ s >= Target

\* Mutant: a reason that is there is kept.
WithReasonFirst(es, reason) ==
  IF es.reason = "none" THEN [es EXCEPT !.reason = reason] ELSE es

WithReason(es, reason) == [es EXCEPT !.reason = reason]

\* Mutant: an exception leaves no reason.
ReasonUnlessError(es) == {es}

\* Ending the span on an exception: a reason that is there is kept; an exception
\* without a message leaves the fallback.
ReasonOrError(es) ==
  IF es.reason = "none"
    THEN {WithReason(es, why) : why \in {"error", "unknown_runtime_reason"}}
    ELSE {es}

-----------------------------------------------------------------------------
(* Candidates are <<key, score>> pairs.                                       *)

KeyOf(c) == c[1]
ScoreOf(c) == c[2]
Candidates == Keys \X Scores

\* Mutant: something better, or nothing.
LocalImproveOnly(c, score) ==
  {<<k, score[k]>> : k \in {j \in Keys : score[j] > ScoreOf(c)}}

\* _local_improve, once or several times: the candidate it was given, or a key
\* that scored strictly higher (score is the function that scores keys now).
LocalImprove(c, score) ==
  {c} \cup {<<k, score[k]>> : k \in {j \in Keys : score[j] > ScoreOf(c)}}

\* Mutant: the later of two equal candidates is preferred.
PrecedesLater(cands, j, i) ==
  \/ ScoreOf(cands[j]) > ScoreOf(cands[i])
  \/ ScoreOf(cands[j]) = ScoreOf(cands[i]) /\ j > i

\* Position j of the candidate sequence is preferred to position i.
Precedes(cands, j, i) ==
  \/ ScoreOf(cands[j]) > ScoreOf(cands[i])
  \/ ScoreOf(cands[j]) = ScoreOf(cands[i]) /\ j < i

StableTopK(cands, k) ==
  LET rank == [i \in DOMAIN cands |->
                 Cardinality({j \in DOMAIN cands : Precedes(cands, j, i)})]
      size == IF k < Len(cands) THEN k ELSE Len(cands)
  IN  [n \in 1..size |-> cands[CHOOSE i \in DOMAIN cands : rank[i] = n - 1]]

\* The score of the best candidate of a nonempty set.
BestScore(cands) ==
  CHOOSE s \in {ScoreOf(c) : c \in cands} : \A c \in cands : ScoreOf(c) <= s

\* Mutant: no fallback when there is no seed.
SeedKeysOnly(seeds, score) == {k \in seeds : \A j \in seeds : score[j] <= score[k]}

\* _maybe_best_of_seeds: the best seed, or any key when there is no seed.
StartKeys(seeds, score) ==
  IF seeds = {} THEN Keys
  ELSE {k \in seeds : \A j \in seeds : score[j] <= score[k]}
=============================================================================
