--------------------------- MODULE KaedingSolver ---------------------------
(* rdp.solvers.kaeding_periodic_structured.KaedingPeriodicStructuredSolver:   *)
(* a climb over periodic structured keys that swaps within one block at a     *)
(* time, sometimes swaps columns, and "slips" - damages the current key - at  *)
(* fixed intervals or when it stalls, in several restarts.                    *)
(*                                                                            *)
(* Candidates are ordered by their raw score; the target and the reported     *)
(* score are the pct objective of the candidate that is best by raw.  Which   *)
(* block is swapped, and so the attempt counters that choose it, is           *)
(* abstracted: a batch is any set of other keys, a slip leads to any key.     *)
(* The seeds are ranked by raw score and all used (seed_selection_metric auto,*)
(* seed_restarts 0); without use_raw_score raw and pct are the same numbers.  *)
(* The Hamming ramp is off: a key has the same two scores in every step.      *)
(* Raw scores that differ do so by more than raw_accept_min_delta.  Matrix    *)
(* keys inherit the empty local_improve, so nothing is polished at the end.   *)
EXTENDS SolverBase, Functions

CONSTANTS
  Steps,          \* steps of one restart
  Restarts,       \* restarts
  ColEvery,       \* col_every, 0 without a columnar tail
  SlipEvery,      \* slip_every
  StallRounds,    \* stall_rounds
  StallSlipLimit, \* stall_slip_limit
  PctDelta,       \* pct_plateau_min_delta, 0 switches the veto off
  SeedChoices,    \* the sequences of seed keys that may be supplied
  MaxBatch,       \* bound: keys of one batch
  Landscapes      \* the scores [raw, pct] of each key

ASSUME KaedingAssumption ==
  /\ {Steps, Restarts, MaxBatch} \subseteq Nat \ {0}
  /\ {ColEvery, SlipEvery, StallRounds, StallSlipLimit, PctDelta} \subseteq Nat
  /\ SeedChoices \subseteq Seq(Keys)
  /\ Landscapes \subseteq [Keys -> [raw : Scores, pct : Scores]]
  /\ \A s \in Landscapes, k \in Keys : IsFinite(s[k].raw) <=> IsFinite(s[k].pct)

VARIABLES
  score, seed_keys, test_key,              \* the problem, never changed
  slip_policy, stall_stop_on_limit,        \* parameters, never changed
  pc,
  schedule,           \* the seeds in the order the restarts consume them
  restart,            \* the restart that runs, from 0
  step,               \* steps begun in this restart
  key,                \* the current key
  best_key,           \* the best key by raw score, or NoKey
  best_pct_seen, last_pct_improve_at,
  early_stop,         \* SolverBase's record, fed with the best raw score
  best_at_step,       \* _best_at_step, which a gain in pct moves too
  stall_slips_used,
  plateau_stop,
  sol,
  batch,              \* history: candidates scored in this step
  scored,             \* history: candidates of the steps before, but for those that a
                      \* fixed slip kept from being recorded
  log,                \* history: best raw score after each step
  withdrawn           \* history: the reason early_stop holds was taken back

problem == <<score, seed_keys, test_key, slip_policy, stall_stop_on_limit>>
place == <<schedule, restart, step>>
bests == <<best_key, best_pct_seen, last_pct_improve_at>>
patience == <<early_stop, best_at_step, stall_slips_used, plateau_stop>>
history == <<batch, scored, log, withdrawn>>
vars == <<problem, pc, place, key, bests, patience, sol, history>>

Scored(k) == <<k, score[k].raw>>
ScoredAll(S) == {Scored(k) : k \in S}
BestRaw == IF best_key = NoKey THEN NegInf ELSE score[best_key].raw
BestPct == IF best_key = NoKey THEN NegInf ELSE score[best_key].pct
GlobalStep == restart * Steps + step
Every(n) == n > 0 /\ step % n = 0

NoSolution == [kind |-> "none"]
Solutions ==
  [kind : {"found", "supplied", "rejected"}, cand : Candidates, reason : Reasons]
    \cup [kind : {"raised"}, reason : Reasons]

TypeOK ==
  /\ score \in Landscapes /\ seed_keys \in SeedChoices
  /\ test_key \in Keys \cup {NoKey} /\ slip_policy \in {"fixed", "stall"}
  /\ stall_stop_on_limit \in BOOLEAN
  /\ pc \in {"start", "restart", "block", "column", "slip", "record", "stall",
             "test", "finish", "end", "done", "raised"}
  /\ schedule \in Seq(Keys) /\ restart \in 0..Restarts /\ step \in 0..Steps
  /\ key \in Keys \cup {NoKey} /\ best_key \in Keys \cup {NoKey}
  /\ best_pct_seen \in Scores /\ last_pct_improve_at \in 0..GlobalStep
  /\ early_stop \in EarlyStops /\ best_at_step \in 0..GlobalStep
  /\ stall_slips_used \in 0..StallSlipLimit /\ plateau_stop \in BOOLEAN
  /\ sol \in Solutions \cup {NoSolution}
  /\ {batch, scored} \subseteq SUBSET Candidates
  /\ log \in Seq(Scores) /\ withdrawn \in BOOLEAN

Init ==
  /\ score \in Landscapes /\ seed_keys \in SeedChoices
  /\ test_key \in Keys \cup {NoKey} /\ slip_policy \in {"fixed", "stall"}
  /\ stall_stop_on_limit \in BOOLEAN
  /\ pc = "start"
  /\ schedule = <<>> /\ restart = 0 /\ step = 0
  /\ key = NoKey /\ best_key = NoKey
  /\ best_pct_seen = NegInf /\ last_pct_improve_at = 0
  /\ early_stop = EarlyStopReset(NegInf) /\ best_at_step = 0
  /\ stall_slips_used = 0 /\ plateau_stop = FALSE
  /\ sol = NoSolution
  /\ batch = {} /\ scored = {} /\ log = <<>> /\ withdrawn = FALSE

-----------------------------------------------------------------------------
(* Seeds and restarts.                                                        *)

\* A stable ascending sort read backwards: best first, of equals the later.
SeedSchedule ==
  LET n == Len(seed_keys)
      ranked == StableTopK([i \in 1..n |-> Scored(seed_keys[n + 1 - i])], n)
  IN  [i \in DOMAIN ranked |-> KeyOf(ranked[i])]

TestKeyFastPath ==
  /\ pc = "start" /\ test_key # NoKey
  /\ sol' = [kind |-> "supplied", cand |-> Scored(test_key), reason |-> "test_key"]
  /\ early_stop' = WithReason(early_stop, "test_key")
  /\ pc' = "done"
  /\ UNCHANGED <<problem, place, key, bests, best_at_step, stall_slips_used,
                 plateau_stop, history>>

Start ==
  /\ pc = "start" /\ test_key = NoKey
  /\ schedule' = SeedSchedule
  /\ pc' = "restart"
  /\ UNCHANGED <<problem, restart, step, key, bests, patience, sol, history>>

\* Mutant: an equal score replaces the best.
UpdateBestOnTies(k) ==
  /\ best_key' = IF best_key = NoKey \/ score[k].raw >= BestRaw THEN k ELSE best_key
  /\ IF score[k].pct > IF IsFinite(best_pct_seen) THEN best_pct_seen + PctDelta ELSE NegInf
       THEN /\ best_pct_seen' = score[k].pct
            /\ last_pct_improve_at' = GlobalStep
       ELSE UNCHANGED <<best_pct_seen, last_pct_improve_at>>

\* _update_best, but for _best_at_step: the best key by raw score, and the best
\* pct any current key had.
UpdateBest(k) ==
  /\ best_key' = IF score[k].raw > BestRaw THEN k ELSE best_key
  /\ IF score[k].pct > IF IsFinite(best_pct_seen) THEN best_pct_seen + PctDelta ELSE NegInf
       THEN /\ best_pct_seen' = score[k].pct
            /\ last_pct_improve_at' = GlobalStep
       ELSE UNCHANGED <<best_pct_seen, last_pct_improve_at>>

\* _best_at_step after _update_best.
PctImproved == best_pct_seen' # best_pct_seen

\* Mutant: only seeds start a restart.
StartKeysSeedsOnly ==
  IF restart < Len(schedule) THEN {schedule[restart + 1]} ELSE {}

\* The next seed, or any key once the seeds are used up.
StartKeysNow ==
  IF restart < Len(schedule) THEN {schedule[restart + 1]} ELSE Keys

\* The seeds were scored when the schedule was made; the history takes them in
\* with the first of them.
BeginRestart ==
  /\ pc = "restart"
  /\ \E k \in StartKeysNow :
       /\ key' = k
       /\ UpdateBest(k)
       /\ best_at_step' = IF PctImproved THEN GlobalStep ELSE best_at_step
       /\ scored' = scored \cup {Scored(k)} \cup ScoredAll(Range(schedule))
  /\ stall_slips_used' = 0
  /\ pc' = "block"
  /\ UNCHANGED <<problem, place, early_stop, plateau_stop, sol, batch,
                 log, withdrawn>>

-----------------------------------------------------------------------------
(* One step: the moves.                                                       *)

Batches == {b \in SUBSET (Keys \ {key}) : b # {} /\ Cardinality(b) <= MaxBatch}

\* The best of the batch, if it beats the current key.
Move(b) ==
  LET tops == {k \in b : \A j \in b : score[j].raw <= score[k].raw}
  IN  IF \E k \in tops : score[k].raw > score[key].raw THEN tops ELSE {key}

BlockSwaps ==
  /\ pc = "block"
  /\ step' = step + 1
  /\ \E b \in Batches :
       /\ key' \in Move(b)
       /\ batch' = ScoredAll(b)
  /\ pc' = "column"
  /\ UNCHANGED <<problem, schedule, restart, bests, patience, sol, scored, log, withdrawn>>

ColumnSwaps ==
  /\ pc = "column"
  /\ IF Every(ColEvery)
       THEN \E b \in Batches :
              /\ key' \in Move(b)
              /\ batch' = batch \cup ScoredAll(b)
       ELSE UNCHANGED <<key, batch>>
  /\ pc' = "slip"
  /\ UNCHANGED <<problem, place, bests, patience, sol, scored, log,
                 withdrawn>>

\* The fixed slip replaces the current key before _update_best has seen it.
FixedSlip ==
  /\ pc = "slip"
  /\ IF slip_policy = "fixed" /\ Every(SlipEvery)
       THEN \E k \in Keys :
              /\ key' = k
              /\ batch' = {Scored(k)}
       ELSE UNCHANGED <<key, batch>>
  /\ pc' = "record"
  /\ UNCHANGED <<problem, place, bests, patience, sol, scored, log, withdrawn>>

-----------------------------------------------------------------------------
(* One step: what is kept of it, and whether it is the last.                  *)

\* _update_best and the plateau test.
Record ==
  /\ pc = "record"
  /\ UpdateBest(key)
  /\ LET raw == IF best_key' = NoKey THEN NegInf ELSE score[best_key'].raw
         gains == IsImprovement(raw, early_stop.best)
     IN  /\ early_stop' = EarlyStopUpdate(early_stop, raw, GlobalStep)
         /\ plateau_stop' = PlateauFires(early_stop, raw, GlobalStep)
         /\ best_at_step' = IF gains \/ PctImproved THEN GlobalStep ELSE best_at_step
         /\ log' = Append(log, raw)
  /\ withdrawn' = (withdrawn /\ ~ plateau_stop')
  /\ scored' = scored \cup batch
  /\ batch' = {}
  /\ pc' = "stall"
  /\ UNCHANGED <<problem, place, key, stall_slips_used, sol>>

Stalls ==
  /\ slip_policy = "stall" /\ StallRounds > 0
  /\ GlobalStep - best_at_step >= StallRounds

\* A plateau stop is taken back while the pct objective improves.
Vetoed(stop) ==
  /\ stop /\ PctDelta > 0
  /\ GlobalStep - last_pct_improve_at < PlateauRounds

\* A stall is answered by a slip while slips are left, and the plateau count
\* starts again.
StallSlip ==
  /\ pc = "stall" /\ Stalls /\ stall_slips_used < StallSlipLimit
  /\ \E k \in Keys :
       /\ key' = k
       /\ UpdateBest(k)
       /\ scored' = scored \cup {Scored(k)}
  /\ stall_slips_used' = stall_slips_used + 1
  /\ early_stop' = [early_stop EXCEPT !.at = GlobalStep]
  /\ best_at_step' = GlobalStep
  /\ plateau_stop' = FALSE
  /\ withdrawn' = (withdrawn \/ plateau_stop)
  /\ pc' = "test"
  /\ UNCHANGED <<problem, place, sol, batch, log>>

\* No slip: the slips may be used up, which stops the search when so configured,
\* and the stop may be vetoed.
NoStallSlip ==
  /\ pc = "stall" /\ ~ (Stalls /\ stall_slips_used < StallSlipLimit)
  /\ UNCHANGED bests
  /\ LET limit == Stalls /\ stall_stop_on_limit
         es == IF limit THEN WithReason(early_stop, "stall_slip_limit") ELSE early_stop
         stop == plateau_stop \/ limit
     IN  /\ plateau_stop' = (stop /\ ~ Vetoed(stop))
         /\ early_stop' = IF Vetoed(stop) THEN [es EXCEPT !.at = last_pct_improve_at] ELSE es
         /\ withdrawn' = (Vetoed(stop) \/ (withdrawn /\ ~ limit))
  /\ pc' = "test"
  /\ UNCHANGED <<problem, place, key, best_at_step, stall_slips_used, sol, batch,
                 scored, log>>

\* The stop tests that end a step, and the end of a restart.
Test ==
  /\ pc = "test"
  /\ LET reached == StopScoreReached(BestPct)
         last == step = Steps
     IN  /\ early_stop' = IF reached THEN WithReason(early_stop, "target_score")
                          ELSE early_stop
         /\ withdrawn' = (withdrawn /\ ~ reached)
         /\ IF reached \/ plateau_stop
              THEN pc' = "finish" /\ UNCHANGED <<restart, step>>
              ELSE IF ~ last THEN pc' = "block" /\ UNCHANGED <<restart, step>>
              ELSE /\ restart' = restart + 1 /\ step' = 0
                   /\ pc' = IF restart' = Restarts THEN "finish" ELSE "restart"
  /\ UNCHANGED <<problem, schedule, key, bests, best_at_step, stall_slips_used,
                 plateau_stop, sol, batch, scored, log>>

-----------------------------------------------------------------------------
(* The end.                                                                   *)

\* Without a best key a random one is scored and reported.
Fallback ==
  /\ pc = "finish"
  /\ IF best_key = NoKey
       THEN \E k \in Keys : best_key' = k /\ scored' = scored \cup {Scored(k)}
       ELSE UNCHANGED <<best_key, scored>>
  /\ early_stop' = IF early_stop.reason = "none"
                     THEN WithReason(early_stop, "max_steps_reached") ELSE early_stop
  /\ pc' = "end"
  /\ UNCHANGED <<problem, place, key, best_pct_seen, last_pct_improve_at, best_at_step,
                 stall_slips_used, plateau_stop, sol, batch, log, withdrawn>>

Finish ==
  /\ pc = "end"
  /\ sol' = IF IsFinite(BestPct)
              THEN [kind |-> "found", cand |-> Scored(best_key),
                    reason |-> early_stop.reason]
              ELSE [kind |-> "rejected", cand |-> Scored(best_key),
                    reason |-> "all_rejected_by_hard_crib"]
  /\ pc' = "done"
  /\ UNCHANGED <<problem, place, key, bests, patience, history>>

\* Scoring or a key operation raises.  The fast path is outside the try.
Raise ==
  /\ pc \notin {"done", "raised"}
  /\ IF pc = "start" /\ test_key # NoKey
       THEN UNCHANGED early_stop
       ELSE early_stop' \in ReasonOrError(early_stop)
  /\ sol' = [kind |-> "raised", reason |-> early_stop'.reason]
  /\ pc' = "raised"
  /\ UNCHANGED <<problem, place, key, bests, best_at_step, stall_slips_used,
                 plateau_stop, history>>

Stopped == pc \in {"done", "raised"} /\ UNCHANGED vars

Step ==
  \/ TestKeyFastPath \/ Start \/ BeginRestart
  \/ BlockSwaps \/ ColumnSwaps \/ FixedSlip
  \/ Record \/ StallSlip \/ NoStallSlip \/ Test
  \/ Fallback \/ Finish

Next == Step \/ Raise \/ Stopped

Spec == Init /\ [][Next]_vars

\* solve is one sequential call: while it can go on it does.
FairSpec == Spec /\ WF_vars(Step)

-----------------------------------------------------------------------------
(* Properties.                                                                *)

\* While the reason has not been taken back it says why the search stopped: the
\* target was reached, the steps were used up without a plateau, or the search
\* stopped on a plateau or on its slip limit.  (A plateau that a slip or the veto
\* withdraws leaves its reason behind; only a later stop overwrites it.)
ReasonExplainsStop ==
  pc = "finish" =>
    /\ (early_stop.reason = "target_score") = StopScoreReached(BestPct)
    /\ early_stop.reason = "none" => restart = Restarts /\ ~ plateau_stop
    /\ ~ withdrawn /\ early_stop.reason = "no_improve" => plateau_stop
    /\ ~ withdrawn /\ early_stop.reason = "stall_slip_limit" =>
         plateau_stop /\ stall_slips_used = StallSlipLimit /\ stall_stop_on_limit

\* A plateau stop that stands closes PlateauRounds steps that together gained no
\* more than MinDelta, although slips and the veto move the step it counts from.
PlateauIsReal ==
  pc = "test" /\ plateau_stop /\ early_stop.reason = "no_improve" =>
    /\ GlobalStep >= PlateauRounds
    /\ BestRaw <= PlusDelta(IF GlobalStep = PlateauRounds THEN NegInf
                            ELSE log[GlobalStep - PlateauRounds])

\* Every call of solve returns or raises.
Termination == <>(pc \in {"done", "raised"})

-----------------------------------------------------------------------------
(* Refinement: a Search over what the steps record.                           *)

Incumbent ==
  IF best_key # NoKey THEN Scored(best_key)
  ELSE IF scored = {} THEN NoKey ELSE CHOOSE c \in scored : TRUE

Answer ==
  IF sol.kind = "none" THEN NoKey
  ELSE IF sol.kind = "raised" THEN [kind |-> "raised"]
  ELSE [kind |-> sol.kind, cand |-> sol.cand]

Abstract == INSTANCE Search WITH
  Nothing <- NoKey,
  seen <- scored,
  incumbent <- Incumbent,
  answer <- Answer

\* Every step is a step of the abstract search over the candidates that a fixed
\* slip did not keep from being recorded: the best of them is the answer, and an
\* equally good one never replaces it.
ImplementsSearch == Abstract!Spec
=============================================================================
