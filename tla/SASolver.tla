------------------------------ MODULE SASolver ------------------------------
(* rdp.solvers.sa.SASolver.solve: simulated annealing over keys, with the     *)
(* rescue and reseed options, the plateau and target stops, the Hamming       *)
(* weight that changes while the search runs, and the polish at the end.      *)
(*                                                                            *)
(* The temperature is abstracted: a worse finite candidate may or may not be  *)
(* accepted.  A neighbour is any key.                                         *)
EXTENDS SolverBase

CONSTANTS
  Iters,           \* iters
  Weights,         \* the values the Hamming weight takes
  InitialWeight,   \* the scorer's weight when it is built
  Ramp,            \* the weight set_hamming_progress gives iteration it of Iters
  Landscapes,      \* score of each key at each weight, NegInf when it is rejected
  RescueAbs,       \* sa_rescue_drop_abs, 0 is off
  RescuePercent,   \* sa_rescue_drop_ratio in percent, 0 is off
  ReseedInterval,  \* sa_reseed_interval, 0 is off
  LocalImproveOnAccept

ASSUME RunAssumption ==
  /\ Iters \in Nat \ {0}
  /\ InitialWeight \in Weights
  /\ Ramp \in [0..Iters -> Weights]
  /\ Landscapes \subseteq [Weights -> [Keys -> Scores]]
ASSUME OptionAssumption ==
  /\ RescueAbs \in Nat
  /\ RescuePercent \in 0..100
  /\ ReseedInterval \in Nat
  /\ LocalImproveOnAccept \in BOOLEAN

VARIABLES
  landscape, seed_keys, test_key,      \* the problem, never changed
  pc,                                  \* where solve is
  it,                                  \* iterations begun
  weight,                              \* the scorer's Hamming weight
  k_cur, s_cur, k_best, s_best,
  plateau_stop,
  early_stop,
  span,                                \* the telemetry span
  sol,                                 \* the Solution returned, or its reason
  seen,                                \* history: candidates scored
  log                                  \* history: s_best after each iteration

problem == <<landscape, seed_keys, test_key>>
current == <<k_cur, s_cur>>
best == <<k_best, s_best>>
history == <<seen, log>>
vars == <<problem, pc, it, weight, current, best, plateau_stop, early_stop,
          span, sol, history>>

NoSolution == [kind |-> "none"]
Solutions ==
  [kind : {"found", "supplied", "rejected"}, cand : Candidates, reason : Reasons]
    \cup [kind : {"raised"}, reason : Reasons]

TypeOK ==
  /\ landscape \in Landscapes
  /\ seed_keys \in SUBSET Keys
  /\ test_key \in Keys \cup {NoKey}
  /\ pc \in {"start", "loop", "reseed", "check", "finish", "done", "raised"}
  /\ it \in 0..Iters /\ (pc = "start" => it = 0) /\ (pc = "loop" => it < Iters)
  /\ weight \in Weights
  /\ IF k_best = NoKey
       THEN pc \in {"start", "done", "raised"} /\ k_cur = NoKey /\ s_cur = NegInf
            /\ s_best = NegInf /\ seen = {}
       ELSE pc # "start" /\ k_cur \in Keys /\ k_best \in Keys
  /\ s_cur \in Scores /\ s_best \in Scores
  /\ plateau_stop \in BOOLEAN
  /\ early_stop \in EarlyStops
  /\ span \in {"unopened", "open", "closed"}
  /\ sol \in Solutions \cup {NoSolution}
  /\ (sol = NoSolution) = (pc \notin {"done", "raised"})
  /\ seen \subseteq Candidates
  /\ log \in Seq(Scores)

Init ==
  /\ landscape \in Landscapes
  /\ seed_keys \in SUBSET Keys
  /\ test_key \in Keys \cup {NoKey}
  /\ pc = "start"
  /\ it = 0
  /\ weight = InitialWeight
  /\ k_cur = NoKey /\ s_cur = NegInf
  /\ k_best = NoKey /\ s_best = NegInf
  /\ plateau_stop = FALSE
  /\ early_stop = EarlyStopReset(NegInf)
  /\ span = "unopened"
  /\ sol = NoSolution
  /\ seen = {}
  /\ log = <<>>

-----------------------------------------------------------------------------
(* A supplied test key is scored and reported; there is no span and no search.*)
TestKeyFastPath ==
  /\ pc = "start"
  /\ test_key # NoKey
  /\ sol' = [kind |-> "supplied",
             cand |-> <<test_key, landscape[weight][test_key]>>,
             reason |-> "test_key"]
  /\ early_stop' = WithReason(early_stop, "test_key")
  /\ pc' = "done"
  /\ UNCHANGED <<problem, it, weight, current, best, plateau_stop, span, history>>

(* The first key is scored before the ramp is set to its beginning.           *)
Start ==
  /\ pc = "start"
  /\ test_key = NoKey
  /\ \E k \in StartKeys(seed_keys, landscape[weight]) :
       LET s == landscape[weight][k]
       IN  /\ k_cur' = k /\ s_cur' = s
           /\ k_best' = k /\ s_best' = s
           /\ early_stop' = EarlyStopReset(s)
           /\ log' = <<s>>
           /\ seen' = {<<j, landscape[weight][j]>> : j \in seed_keys \cup {k}}
  /\ weight' = Ramp[0]
  /\ span' = "open"
  /\ pc' = "loop"
  /\ UNCHANGED <<problem, it, plateau_stop, sol>>

-----------------------------------------------------------------------------
(* One iteration of the loop.                                                 *)

\* Whether a proposal scoring s may be, or may not be, accepted.  A difference
\* of two infinities is NaN and one of minus infinity has probability 0: a
\* rejected proposal is never accepted.
MayAccept(s) == IsFinite(s)
MayRefuse(s) == ~ IsFinite(s) \/ s < s_cur

\* The candidate the iteration moves to, given the proposal.
Moves(proposal, score) ==
  (IF MayAccept(ScoreOf(proposal))
     THEN IF LocalImproveOnAccept THEN LocalImprove(proposal, score) ELSE {proposal}
     ELSE {})
  \cup (IF MayRefuse(ScoreOf(proposal)) THEN {current} ELSE {})

DropsTooFar(c, top) ==
  /\ RescueAbs > 0
  /\ IsFinite(ScoreOf(top))
  /\ ~ IsFinite(ScoreOf(c)) \/ ScoreOf(top) - ScoreOf(c) >= RescueAbs

FallsBelowRatio(c, top) ==
  /\ RescuePercent > 0
  /\ ScoreOf(top) > 0
  /\ \/ ~ IsFinite(ScoreOf(c))
     \/ 100 * ScoreOf(c) <= (100 - RescuePercent) * ScoreOf(top)

Rescued(c, top) == IF DropsTooFar(c, top) \/ FallsBelowRatio(c, top) THEN top ELSE c

\* Mutants: the best must be beaten by MinDelta; an equal score replaces the best.
BetterByDelta(c, top) == IF IsImprovement(ScoreOf(c), ScoreOf(top)) THEN c ELSE top
BetterOrEqual(c, top) == IF ScoreOf(c) >= ScoreOf(top) THEN c ELSE top

Better(c, top) == IF ScoreOf(c) > ScoreOf(top) THEN c ELSE top

ReseedsAt(step) == ReseedInterval > 0 /\ step % ReseedInterval = 0

Iterate ==
  /\ pc = "loop"
  /\ it' = it + 1
  /\ weight' = Ramp[it']
  /\ \E k \in Keys :
       LET score == landscape[weight']
           proposal == <<k, score[k]>>
       IN  \E move \in Moves(proposal, score) :
             LET top == Better(move, best)
                 cur == Rescued(move, top)
             IN  /\ k_best' = KeyOf(top) /\ s_best' = ScoreOf(top)
                 /\ plateau_stop' = PlateauFires(early_stop, ScoreOf(top), it')
                 /\ early_stop' = EarlyStopUpdate(early_stop, ScoreOf(top), it')
                 /\ k_cur' = KeyOf(cur) /\ s_cur' = ScoreOf(cur)
                 /\ seen' = seen \cup {proposal, move}
  /\ pc' = IF ReseedsAt(it') THEN "reseed" ELSE "check"
  /\ UNCHANGED <<problem, span, sol, log>>

(* The current key is replaced by the best seed, or a fresh random key.  The  *)
(* plateau is consulted a second time only if that beats the best so far.     *)
Reseed ==
  /\ pc = "reseed"
  /\ \E k \in StartKeys(seed_keys, landscape[weight]) :
       LET cand == <<k, landscape[weight][k]>>
           top == Better(cand, best)
           improves == ScoreOf(cand) > s_best
       IN  /\ k_cur' = k /\ s_cur' = ScoreOf(cand)
           /\ k_best' = KeyOf(top) /\ s_best' = ScoreOf(top)
           /\ plateau_stop' = IF improves THEN PlateauFires(early_stop, ScoreOf(top), it)
                              ELSE plateau_stop
           /\ early_stop' = IF improves THEN EarlyStopUpdate(early_stop, ScoreOf(top), it)
                            ELSE early_stop
           /\ seen' = seen \cup {<<j, landscape[weight][j]>> : j \in seed_keys \cup {k}}
  /\ pc' = "check"
  /\ UNCHANGED <<problem, it, weight, span, sol, log>>

\* Mutant: the reason the plateau left is not overwritten.
FirstReasonAtEnd(es, reached) ==
  IF es.reason # "none" THEN es
  ELSE WithReason(es, IF reached THEN "target_score" ELSE "max_iterations_reached")

ReasonAtEnd(es, reached) ==
  IF reached THEN WithReason(es, "target_score")
  ELSE IF es.reason = "none" THEN WithReason(es, "max_iterations_reached")
  ELSE es

(* The stop tests at the end of an iteration, and leaving the loop.           *)
Check ==
  /\ pc = "check"
  /\ log' = Append(log, s_best)
  /\ LET reached == StopScoreReached(s_best)
         leaves == reached \/ plateau_stop \/ it = Iters
     IN  /\ pc' = IF leaves THEN "finish" ELSE "loop"
         /\ early_stop' = IF leaves THEN ReasonAtEnd(early_stop, reached) ELSE early_stop
         /\ span' = IF leaves THEN "closed" ELSE span
  /\ UNCHANGED <<problem, it, weight, current, best, plateau_stop, sol, seen>>

-----------------------------------------------------------------------------
(* _finalize_solution: polish the best key with the scorer as it is now.      *)
Finish ==
  /\ pc = "finish"
  /\ IF IsFinite(s_best)
       THEN \E c \in LocalImprove(best, landscape[weight]) :
              sol' = [kind |-> "found", cand |-> c, reason |-> early_stop.reason]
       ELSE sol' = [kind |-> "rejected", cand |-> best,
                    reason |-> "all_rejected_by_hard_crib"]
  /\ pc' = "done"
  /\ UNCHANGED <<problem, it, weight, current, best, plateau_stop, early_stop,
                 span, history>>

(* Scoring, a key operation or the final decryption raises.  The fast path is *)
(* outside the try; in the search the span is closed and the exception goes   *)
(* on.                                                                        *)
Raise ==
  /\ pc \notin {"done", "raised"}
  /\ IF pc = "start" /\ test_key # NoKey
       THEN UNCHANGED <<early_stop, span>>
       ELSE /\ early_stop' \in ReasonOrError(early_stop)
            /\ span' = "closed"
  /\ sol' = [kind |-> "raised", reason |-> early_stop'.reason]
  /\ pc' = "raised"
  /\ UNCHANGED <<problem, it, weight, current, best, plateau_stop, history>>

Stopped == pc \in {"done", "raised"} /\ UNCHANGED vars

Step == TestKeyFastPath \/ Start \/ Iterate \/ Reseed \/ Check \/ Finish

Next == Step \/ Raise \/ Stopped

Spec == Init /\ [][Next]_vars

\* solve is one sequential call: while it can go on it does.  Nothing obliges it
\* to raise.
FairSpec == Spec /\ WF_vars(Step)

-----------------------------------------------------------------------------
(* Properties.                                                                *)

\* The best key and score belong together, and no candidate that was ever
\* scored - proposals that were refused, seeds, reseeds and keys dropped by a
\* rescue included - beats them (sa.py keeps k_best and s_best in four places).
BestIsMaximum ==
  k_best # NoKey =>
    /\ best \in seen
    /\ \A c \in seen : ScoreOf(c) <= s_best

\* The plateau stop fires exactly when it should: only after PlateauRounds
\* iterations whose total gain is at most MinDelta, and never later than the
\* first iteration that closes PlateauRounds iterations without any gain.
PlateauExact ==
  pc = "check" =>
    LET whole == PlateauRounds > 0 /\ it >= PlateauRounds
        before == log[it - PlateauRounds + 1]
    IN  /\ plateau_stop => whole /\ s_best <= PlusDelta(before)
        /\ whole /\ s_best = before => plateau_stop

\* No iteration begins once an iteration has ended on the target, and a run that
\* searched reports target_score exactly when the best of its search, s_best, reached
\* the target.  The answer is this best or what the final polish makes of it: a
\* polished answer may reach the target under another reason.
TargetHonoured ==
  /\ pc = "loop" /\ it > 0 => ~ StopScoreReached(s_best)
  /\ pc = "done" /\ sol.kind = "found" =>
       (sol.reason = "target_score") = StopScoreReached(s_best)

\* Whatever way solve ends, a span it opened is closed and the reason it leaves
\* says whether it raised; the search never ends without a reason.
EndIsRecorded ==
  pc \in {"done", "raised"} =>
    /\ span # "open"
    /\ span = "closed" => early_stop.reason # "none"
    /\ early_stop.reason \in {"error", "unknown_runtime_reason"} => pc = "raised"

\* A search that ends with no_improve really was on a plateau when it ended.
StopReasonExplainsStop ==
  pc = "done" /\ sol.reason = "no_improve" =>
    s_best <= PlusDelta(log[it - PlateauRounds + 1])

\* Every call of solve returns or raises.
Termination == <>(pc \in {"done", "raised"})

-----------------------------------------------------------------------------
(* Refinement: annealing is a Search.                                         *)

Answer ==
  IF sol.kind = "none" THEN NoKey
  ELSE IF sol.kind = "raised" THEN [kind |-> "raised"]
  ELSE [kind |-> sol.kind, cand |-> sol.cand]

Abstract == INSTANCE Search WITH
  Nothing <- NoKey,
  incumbent <- IF k_best = NoKey THEN NoKey ELSE best,
  answer <- Answer

\* Every step of the annealer is a step of the abstract search, or changes
\* nothing that it can see.
ImplementsSearch == Abstract!Spec
=============================================================================
