------------------------------- MODULE Engine -------------------------------
(* rdp.core.engine.engine.solve around the hybrid solver: the run_start and   *)
(* run_end of a call, and the status that run_end and the public result give  *)
(* it.  The status comes from the solver's stop reason by way of the          *)
(* stop-reason contract; whatever goes wrong has a status of its own.         *)
(*                                                                            *)
(* The scorer's cache, which every end of the call clears, the recovery part  *)
(* of a status and what else a result reports are left out.                   *)
EXTENDS HybridSolver

VARIABLES
  call,       \* how far the call of the engine has come
  envelope,   \* the run block of the problem's telemetry
  published   \* the status of the public result

engineVars == <<call, envelope, published>>

NoStatus == [execution |-> "none"]
NoEnvelope == [started |-> FALSE, ended |-> FALSE, status |-> NoStatus]

EngineInit ==
  /\ Init
  /\ call = "called"
  /\ envelope = NoEnvelope
  /\ published = NoStatus

-----------------------------------------------------------------------------
(* The stop-reason contract.                                                  *)

\* canonical_stop_reason_for_legacy: the older names have newer ones, a newer one
\* is its own, and anything else is unknown.  A case stands here for what the modelled
\* solvers and a failure leave: "no_improve" and "stall_slip_limit" for their forms with
\* a number.  The table has some twenty other older names (max_evals, patience and so
\* on), which none of these solvers leaves; what they map to is not said.
Canonical(why) ==
  CASE why = "none" -> "not_started"
    [] why = "target_score" -> "target_score_reached"
    [] why = "test_key" -> "oracle_test_key_used"
    [] why \in {"no_improve", "stall_slip_limit"} -> "no_improvement_budget_reached"
    [] why = "all_rejected_by_hard_crib" -> "all_candidates_rejected_by_hard_crib"
    [] why \in {"error", "exception"} -> "unexpected_exception"
    [] why \in {"max_iterations_reached", "max_rounds_reached", "max_generations_reached",
                "max_steps_reached", "configured_work_limit_reached"} -> why
    [] OTHER -> "unknown_runtime_reason"

\* _CANONICAL_CATEGORY.
Category(canonical) ==
  CASE canonical \in {"target_score_reached", "oracle_test_key_used"} -> "success"
    [] canonical = "all_candidates_rejected_by_hard_crib" -> "blocked_before_run"
    [] canonical \in {"unexpected_exception", "unknown_runtime_reason"} -> "error"
    [] canonical = "not_started" -> "not_started"
    [] OTHER -> "budget"

ExecutionStatusFor(category) ==
  IF category \in {"success", "budget"} THEN "completed" ELSE category

\* build_run_status: the execution status overrides a reason that contradicts it.
BuildRunStatus(why, execution) ==
  LET canonical == CASE execution = "completed" /\ Canonical(why) = "not_started"
                          -> "unknown_runtime_reason"
                     [] execution = "error" -> "unexpected_exception"
                     [] execution = "not_started" -> "not_started"
                     [] OTHER -> Canonical(why)
  IN  [execution |-> execution, category |-> Category(canonical), reason |-> canonical]

\* What a returned solution comes to, in the engine and in api.run alike.  The
\* solution carries its solver's reason.
StatusOf(why) ==
  BuildRunStatus(why, IF why = "none" THEN "completed"
                      ELSE ExecutionStatusFor(Category(Canonical(why))))

-----------------------------------------------------------------------------
(* The call.                                                                  *)

\* run_end: the first one counts.
RunEnd(status) ==
  envelope' = IF envelope.ended THEN envelope
              ELSE [envelope EXCEPT !.ended = TRUE, !.status = status]

RunStart ==
  /\ call = "called"
  /\ call' = "building"
  /\ envelope' = [started |-> TRUE, ended |-> FALSE, status |-> NoStatus]
  /\ UNCHANGED <<vars, published>>

\* The solver is built before the try: if that raises, nothing ends the run.
Build ==
  /\ call = "building"
  /\ call' \in {"solving", "raised"}
  /\ UNCHANGED <<vars, envelope, published>>

Solve ==
  /\ call = "solving"
  /\ Step \/ Raise
  /\ UNCHANGED engineVars

Return ==
  /\ call = "solving" /\ pc = "done"
  /\ RunEnd(StatusOf(sol.reason))
  /\ call' = "returned"
  /\ UNCHANGED <<vars, published>>

\* Mutant: an exception is reported under the reason the solver had stored.
FailWithStoredReason ==
  /\ call = "solving" /\ pc \in {"done", "raised"}
  /\ RunEnd(StatusOf(reason))
  /\ call' = "raised"
  /\ UNCHANGED <<vars, published>>

\* The solver raises, or what is attached to its solution cannot be computed.
Fail ==
  /\ call = "solving" /\ pc \in {"done", "raised"}
  /\ RunEnd(BuildRunStatus("exception", "error"))
  /\ call' = "raised"
  /\ UNCHANGED <<vars, published>>

\* except Exception does not see a KeyboardInterrupt.
Interrupt ==
  /\ call \in {"building", "solving"}
  /\ call' = "interrupted"
  /\ UNCHANGED <<vars, envelope, published>>

\* api.run works the status out again from the solution.
Publish ==
  /\ call = "returned"
  /\ published' = StatusOf(sol.reason)
  /\ call' = "published"
  /\ UNCHANGED <<vars, envelope>>

CallEnded ==
  /\ call \in {"published", "raised", "interrupted"}
  /\ UNCHANGED <<vars, engineVars>>

EngineStep == RunStart \/ Build \/ (call = "solving" /\ Step /\ UNCHANGED engineVars)
                \/ Return \/ Fail \/ Publish

EngineNext ==
  RunStart \/ Build \/ Solve \/ Return \/ Fail \/ Interrupt \/ Publish \/ CallEnded

EngineSpec == EngineInit /\ [][EngineNext]_<<vars, engineVars>>

\* solve and api.run go on by themselves, and so does the solver: every phase ends
\* (SASolver, BeamSolver and GASolver check it).
FairEngineSpec == EngineSpec /\ WF_<<vars, engineVars>>(EngineStep)

-----------------------------------------------------------------------------
(* Properties.                                                                *)

\* The run block is left open only if the solver could not be built or the call
\* was interrupted.  It says error if and only if the call raised, whatever reason
\* the solver had stored by then; success only if the answer reaches the target or
\* is the test key; and that nothing could run if and only if no phase had kept a
\* candidate that was not rejected.  The public result has the same status.
EnvelopeTellsTheEnd ==
  /\ call \in {"returned", "published"} =>
       LET status == envelope.status
       IN  /\ envelope.ended /\ status.execution \in {"completed", "blocked_before_run"}
           /\ status.category = "success" =>
                sol.cand[1] = test_key \/ StopScoreReached(ScoreOf(sol.cand))
           /\ status.execution = "blocked_before_run" <=>
                test_key = NoKey /\ \A p \in DOMAIN results : ~ IsFinite(ScoreOf(results[p]))
  /\ call = "raised" =>
       IF envelope.ended THEN envelope.status.execution = "error" ELSE pc = "start"
  /\ call = "published" => published = envelope.status
  /\ call \in {"building", "solving", "interrupted"} => ~ envelope.ended

\* Every call returns, raises or is interrupted.
CallEnds == <>(call \in {"published", "raised", "interrupted"})
=============================================================================
