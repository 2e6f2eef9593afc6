# A verification of RuneDecrypterPrime's solvers

RuneDecrypterPrime (`src/src/rdp`) searches for the key of a cipher: it builds a
*problem* (ciphertext, cipher, key operations, scorer), hands it to a *solver*, and
reports the best key the solver found, with the reason it stopped.  This directory
holds TLA+ modules of the parts whose control flow is hard to test, TLC
configurations that check them on small instances, and TLAPS proofs of the results
that matter most.

The first question asked of the system is the one every user of it relies on:
**is the key that a solver reports the best of everything it scored, and is the
reason it gives for stopping true?**  Nothing in the tests can say so in general: a
search scores thousands of random candidates, and its best key, its current key, its
plateau counter and its stop reason are updated in several places, from scores that
are taken while the objective itself changes.

## The system

| Component | State | Operations | Interacts with |
|---|---|---|---|
| Solver base (`rdp/solvers/solver_base.py`) | `_best_score_so_far`, `_last_improve_at`, `_stop_reason`, span | early-stop controls, stable top-k, best of seeds, local improvement, test-key fast path, finalisation | every solver inherits it; calls the evaluation, key operations and telemetry |
| Simulated annealing (`sa.py`) | current and best key and score, temperature, plateau flag | `solve`: propose, accept, rescue, reseed, stop tests | base; the scorer's Hamming ramp |
| Beam search (`beam.py`) | beam, recent-key window, restart results | `solve`: expand, drop duplicates, cut, restart | base; exposes its final beam to the hybrid |
| Genetic algorithm (`ga.py`) | population with scores, best | `solve`: elites, children, cut | base; the scorer's Hamming ramp |
| Hybrid chain (`hybrid.py`) | best, its phase, seeds for the next phase | `solve`: beam, then genetic, then annealing | runs the three solvers as children |
| Kaeding periodic solver (`kaeding_periodic_structured.py`) | blocks, slips, raw and best score | `solve` with a plateau that may be vetoed | base |
| Two-period crib solver (`two_period_cribs.py`) | branches, the terminals of three stages, their union | solve crib equations, search coordinates, judge | scheduled streams, evaluation |
| Seed generation (`seed_generation.py`) | none | statistical heuristics that give seeds | callers of the solvers |
| Candidate evaluation (`core/problem/runtime.py`) | telemetry counters, caches | crib and degeneracy filters, objective, enumeration of ambiguous plaintexts | ciphers, scoring |
| Key operations (`keyops/`) | none (hints) | random, neighbour, crossover (PMX, OX), mutation, normalise, composite keys | solvers |
| Ciphers, pipeline, interruptors (`ciphers/`) | none | decrypt, encrypt, remove and reinsert interruptors, transpositions | evaluation |
| Engine (`core/engine/`) | run log, result | run envelope around a solver, finalisation | API, solvers |
| Public API (`api/`) | request, report | validation, routing, stop-reason contract | engine |
| Scoring (`scoring/`) | language-model tables, Hamming weight | batch scores | evaluation; solvers move the Hamming weight |
| Telemetry, run log (`telemetry/`, `io/`) | spans, counters, log file | record | everything |
| Data (`data/`) | tables | Runeglish, Liber Primus texts, word lists | API, scoring |
| Campaign (`cipher_development/shared/`: `experiment.py`, `ledger.py`, `archive.py`) | result files, ledger, candidate archive | run an experiment, append its row, offer, write and read candidates | the API, disk |
| Asset installer (`tools/assets/`) | files on disk | download, verify, extract | user |

What is hard, and where:

* **Stale state.** The Hamming weight of the objective is moved before each scoring,
  while `s_cur` and `s_best` keep scores of an earlier weight.  The stop reason is
  stored by one test and may outlive the stop it explains (annealing's reseed,
  Kaeding's veto).  The hybrid tests the target on its own best.
* **Ordering.** Beam tests the target before the plateau, annealing and the genetic
  algorithm after it; ties are broken in four different ways.
* **Limits.** The beam's window of recent keys is a set and a queue that must be
  evicted together; seeds beyond the width are dropped; elites are capped.
* **Partial failure.** Any scoring call may raise; the span must be closed and a
  reason left.  Every candidate may be rejected by the crib, and then scores are
  minus infinity and differences of scores are not numbers.
* **Numbers at a boundary.** The enumeration of ambiguous readings is cut at a limit;
  interruptor positions are snapped, filled and cut; a stream runs backwards from an end
  that interruptors have moved; crib equations are solved modulo the alphabet.
* **Crash and restart** matters where files are written: the campaign's results, ledger
  and archive.  The only threads the code provides for are those that share the run
  logger's lock.  A solver is one sequential call, so the interleavings that matter here
  are those of its random choices, its options, its stop tests and its interruption.

What makes each component correct: a solver's best is a maximum of what it scored, its
reason explains its stop, it ends; the beam loses no score it took by dropping duplicates; a
phase is credited only if it found what is reported; the evaluation gives a key the
score of the plaintext it shows, and its enumeration misses no reading; key operations
always give a valid key and close no part of the key space; the cipher pipeline is its
own inverse; every `run_start` has a `run_end` that tells the end; the equations of
known words keep exactly the keys under which the words are there; the ledger agrees
with the results after any crash, and the archive does not depend on the order of
arrival.

## The modules

| Module | Models | In |
|---|---|---|
| `SolverBase` | comparison rules, early stopping, stable top-k, best of seeds, local improvement; operators only, as the Python base class has no loop of its own | `solver_base.py` |
| `Search` | the abstract specification: what any solver promises | the contract the base class, the engine and the hybrid rely on |
| `SASolver` | `SASolver.solve` | `sa.py` |
| `BeamSolver` | `BeamSolver.solve` | `beam.py` |
| `GASolver` | `GASolver.solve` | `ga.py` |
| `HybridSolver` | `HybridSolver.solve`, over what `Search` says of a phase | `hybrid.py` |
| `KaedingSolver` | `KaedingPeriodicStructuredSolver.solve` | `kaeding_periodic_structured.py` |
| `Engine` | `engine.solve` around the hybrid, and the status `api.run` publishes; extends `HybridSolver` | `engine.py`, `stop_reason_contract.py`, `events.py` |
| `Pipeline` | interruptors, transposition, reinsertion and the core ciphers | `ciphers/` |
| `ScheduledStream` | streams, schedules and operations of the scheduled stream lookup cipher | `scheduled_stream_lookup_cipher.py` |
| `KeyOps` | the verbs of the key families, each as the set of its outcomes | `keyops/` |
| `KeySearch` | keys on their way from one verb to another and through a cipher; composes `KeyOps`, `Pipeline`, `ScheduledStream` | `keyops/`, `runtime.py` |
| `Evaluation` | batches of keys to texts, crib verdicts and scores, and the plaintext shown later; uses `Pipeline` | `runtime.py`, `generic_map_cipher.py` |
| `TwoPeriodCribs` | crib equations, branches, three stages of coordinate search, the answer; uses `ScheduledStream` | `two_period_cribs.py` |
| `Campaign` | experiments, their ledger and the candidate archive, with crashes | `cipher_development/shared/` |
| `MC*` | small instances of them | |
| `SolverBaseProofs` | lemmas about the operators of `SolverBase` | |
| `SASolverProofs`, `GASolverProofs`, `BeamSolverProofs`, `KaedingSolverProofs` | theorems about each solver | |
| `EngineProofs` | theorems about the hybrid chain and the engine around it | |
| `EvaluationProofs` | theorems about candidate evaluation, with the lemmas about the pipeline and the enumeration they rest on | |
| `CampaignProofs` | theorems about the ledger and the archive | |

State and actions follow the code: a variable has the name of the Python local or
attribute it stands for, and an action is a stretch of code between two points at
which its state can be looked at.

* In `SASolver`, `Start` is everything before the loop, `Iterate` is a proposal with its
  acceptance, local improvement, best update, first plateau test and rescue, `Reseed` is
  the reseed block with its second plateau test, `Check` is the rest of the iteration
  with the target test and the end of the loop, and `Finish` is `_finalize_solution`.
* In `BeamSolver`, `BeginRestart`, `Round` and `SelectRestart` are the three parts of the
  restart loop; in `GASolver`, `Begin` and `Generation`; in `HybridSolver`, `RunBeam`,
  `RunGA` and `RunSA`.
* In `KaedingSolver` a step is `BlockSwaps`, `ColumnSwaps`, `FixedSlip`, `Record`, then
  `StallSlip` or `NoStallSlip`, then `Test`: the order of the code, in which a slip may
  come between a move and the recording of the best.
* Each solver has `TestKeyFastPath` (a supplied key is scored and returned without a
  search) and `Raise` (scoring, a key operation or decryption raises, anywhere).
* `Engine` adds `RunStart`, `Build`, `Return`, `Fail`, `Interrupt` and `Publish` around
  the solver's own steps; `envelope` is the telemetry's run block.
* `KeySearch` has one action per verb; encryption and decryption are operators, as the
  ciphers keep no state.
* `Evaluation` has `EvaluateKeys`, `EvaluateKeysWithRaw` and `ResolvePlaintext`.
* In `TwoPeriodCribs`, `Build` makes the branches of every set of interruptors,
  `OpenBranch` takes one, `Scout` is one search from random values, `Bridge` and `Judge`
  one input of `_run_refinement_stage`, `Rescore` the final union of the branch, and
  `Answer` the ranking.
* In `Campaign`, `Enter`, `WriteResult` (inside `Finish` and `Fail`) and `AppendRow` are the
  writes of `ExperimentRun`, `Offer`, `WriteArchive` and `ReadArchive` those of the
  archive, and `Kill` ends the process between any two of them, a row half written
  included.

`Search` is deliberately small: it scores any candidates (`Explore`), keeps one that
nothing beats and never trades it for an equal one, and ends with it or with something
better (`Found`), with a rejection (`Rejected`), with the caller's own key
(`Supplied`), or by raising.  While only rejected candidates have been scored they are
all alike and may replace each other.  All five solvers are shown to implement it, by
the refinement mappings at the end of their modules.  The hybrid uses it twice: its
phases may return whatever `Search` allows, and the chain is itself a `Search`.

Variables marked *history* are read by properties only.

### What is abstracted

* A key of a solver is a model value and a score an integer; `NegInf` is minus infinity,
  and the arithmetic on it is the floating-point one.  A landscape gives each key its
  score, at each Hamming weight, or raw and pct for Kaeding.
* A neighbour, a child or a random key is *any* key.  This covers every key operation
  and every parent selection; what the operations themselves do is in `KeyOps`.
* The temperature: a worse finite proposal may be accepted or refused.  A proposal that
  scores minus infinity is never accepted, and one that is no worse always is.
* Local improvement gives back its argument or a key that scored strictly more; the
  tolerance of 1e-9 in the finalisation is not modelled, nor is the number of rounds.
* Parameter conversion, progress throttling, most counters, text and diagnostics are left
  out.  An exception without a message leaves `unknown_runtime_reason` instead of
  `error`; both are in the models.
* `KeyboardInterrupt` is not an `Exception`: it is modelled where it matters, as `Interrupt`
  in `Engine`.
* The Hamming ramp is modelled in annealing, the beam and the genetic algorithm.  In
  Kaeding's search it is off, although the code calls it
  (`kaeding_periodic_structured.py:346`, `:397`).  The hybrid has one target for all
  phases.
* In the hybrid, the seeds and random keys that are scored only for the seed diagnostics
  (`hybrid.py:253`) are left out; in the genetic algorithm they are in `diagnosed`.
* Of the stop-reason contract, what the modelled solvers and the engine leave; the other
  older names (`stop_reason_contract.py:299-334`) are not.
* In `Evaluation` and `TwoPeriodCribs` a score is a function of the plaintext (and of the
  profile).  Objectives for which lower is better are not modelled; see *Observations*.
* A composite key's padded interruptor segment is the set of positions in it, and the 255
  that marks an unfilled place of a crossover is a value outside every key.
* In `TwoPeriodCribs` a word is its runes, an identifier is what it is the hash of, and a
  search may take the coordinates in any order and start anywhere, as every child seed
  might.
* A file of `Campaign` is there whole or not at all where the code replaces it, and may end
  anywhere where the code appends to it.

## The runs

| Run | Instance | Shows |
|---|---|---|
| `sa` | 3 keys, scores -inf, 0, 2, 4 less a penalty of 0 or 1 that a ramp switches on half way, 5 iterations, plateau of 2 rounds with `min_delta` 1, target 4, rescue by 3 or by 50%, reseed every 3, polish on accept | `BestIsMaximum`, `PlateauExact`, `TargetHonoured`, `EndIsRecorded`, `ImplementsSearch`, `Termination` |
| `beam` | 3 keys, scores -inf, 0, 1, 2 and a reward of 1 for one of them that the ramp takes away in the first round and gives back, width 2, 3 rounds, 2 restarts, at most 2 children, a window of one width, no seed or 3 seeds with the best last, plateau 2, target 2 | `WindowConsistent`, `BeamIsTopWidth`, `SelectedRestartIsFirstBest`, `ReasonExplainsStop`, `ImplementsSearch`, `Termination` |
| `ga` | 3 keys, scores -inf, 0, 1, 3 less a penalty under a ramp, population 3, 1 elite, 3 generations, no seed or 4 seeds with the best last, plateau 2, target 3 | `PopulationIsBest`, `EliteTakeover`, `ReasonExplainsStop`, `ImplementsSearch`, `Termination` |
| `hybrid` | the engine's call with the hybrid: 3 keys, every landscape over -inf, 0, 1, 2, with and without a beam, 0 to 2 seeds, target 2, a solver that cannot be built, an interruption at any moment | `EnvelopeTellsTheEnd`, `CreditIsDeserved`, `TargetEndsRun`, `OnlyRejectionLeavesNoStart`, `ImplementsSearch`, `CallEnds` |
| `kaeding` | 3 keys whose raw and pct scores agree, disagree, tie or are minus infinity, 4 steps, 2 restarts, columns and fixed slips every second step or stall slips after 2 steps, one slip at most, plateau 2, target 5 | `ReasonExplainsStop`, `PlateauIsReal`, `ImplementsSearch`, `Termination` |
| `keys` | the nine kinds of cipher over 3 symbols with a text of 5, three orientations, fixed and searched interruptors, 8 stream ciphers with every schedule, operation, kind, direction and anchor | `KeysStayValid`, `CipherIsLossless`, `MutationReachesEveryKey`, `ChildInherits` |
| `evaluation` | a lookup cipher with homophones and symbols without inverse, 4 symbols of text in 2 words, keys whose interruptors are none, one or the whole text, batches of one and two keys, every resolver, limits 0, 1, 3 and beyond, with and without a crib | `ScoreIsOfAReading`, `ShownPlaintextDeservesScore`, `CountersAgree` |
| `cribs` | periods 2 and 3 over 3 symbols and a text of 6, 10 requests: fixed and guessed words, contradictions, a place where no such word is, one to three sets of interruptors, words that lie on interruptors, searches that are refused | `BranchesAreExact`, `StageReasonIsTrue`, `AnswerIsBestJudged` |
| `campaign` | two experiments killed or failing at any point, 3 candidates for 2 places, one to a family | `LedgerAgreesWithResults`, `ArchiveKeepsTheBest`, `WrittenCanBeRead` |
| `sa_stale`, `ga_ties`, `hybrid_target` | see *Findings* | a statement of the documentation that the code does not keep |

Why these bounds are enough to be interesting.  Three keys are the least that give a
best, a current and a proposed key that all differ, and scores are chosen so that a gain
can be above `min_delta`, equal to it and below it.  Five iterations hold a plateau
before and after a reseed, and the ramp changes in between.  The code's window is four
beam widths; with three keys that would never evict, so the factor is a constant and the
run takes 1: a key leaves the window and is offered again, which is the case the window
is dangerous in.  Two restarts are the least that can tie.  The solvers' counters (`it`,
`r`, `restart`, `gen`, `step`) are bounded by the code's own budgets; `MaxChildren` bounds
the children of one round and Kaeding's `MaxBatch` the swaps of one batch.  Keys are
interchangeable, so landscapes are taken in descending order of raw score where that
loses nothing.

In `keys` the text of five makes columns and rails uneven and leaves an interruptor at
either end, and `Distance` (8 mutations) bounds the walk that reaches every key.  In
`evaluation` a limit of 3 cuts the readings in the middle of a position and 100 never
does; `Evaluation`'s own `MaxBatch` is two keys, and its `MaxCalls` one evaluation and one
resolution, as nothing but the counters is carried from call to call.  In `cribs` two runes leave two free coordinates, the least
for which the order of coordinates matters; the sweeps are bounded by 1, 2 and 3 where
the code has 5, 4 and 3, so that a search may run out of them, and the scores are rugged
enough that it does.  In `campaign` the second run reads what the first wrote; `MaxOffers`
bounds the offers.

Fairness is weak fairness of `Step`, the disjunction of all actions but `Raise` (in
`Engine`, all but `Raise` and `Interrupt`): `solve` is one sequential call
that goes on while it can, and nothing obliges it to raise or anyone to interrupt it.
`Termination` follows from the budgets and from every path through the loop reaching the
next iteration or the end.  `CallEnds` assumes that a phase of the hybrid ends, which the
runs `sa`, `beam` and `ga` check.  No liveness is asked of the modules whose actions are
calls that a caller may or may not make.

### What the properties say

* `BestIsMaximum`: annealing's best key and score belong together, and nothing that its
  search scored beats them, refused proposals, reseeds and keys left by a rescue included.
* `PopulationIsBest`: in the genetic algorithm the whole population is the best of all
  that populations and generations scored, and of the seeds that fit: its parents compete with their children, so
  nothing good among them is ever lost, and the cap on the elites buys no variety:
  `EliteTakeover` shows that a best that nothing beats has `k + 1` places after `k`
  generations.  Seeds beyond the population's size are scored for the diagnostics alone
  and are not among them; see *Observations*.
* `PlateauExact`, `PlateauIsReal`: the plateau fires only if `plateau_rounds` iterations
  gained at most `min_delta` in all, and (annealing) always if they gained nothing.  In
  Kaeding's search slips and the veto move the step it counts from.
* `WindowConsistent`, `BeamIsTopWidth`: the set and the queue stay two views of one
  window; every candidate scored since the restart began is in the beam or scored no
  better than its worst, and every key offered was scored in the restart, although the
  window refuses keys that the beam has since thrown out.  The scores compared are those
  that were given: what a refused key would score at the present weight is not known to
  the code, and may be better; see *Observations*.
* `TargetHonoured`, `ReasonExplainsStop`, `EndIsRecorded`: the reason is true of the end.
  `TargetHonoured` is about annealing's best before the final polish; what the polish
  makes of it may reach the target under another reason (`solver_base.py:763-772`).
* `SelectedRestartIsFirstBest`, `CreditIsDeserved`: credit on ties goes to the first.
* `TargetEndsRun`, `OnlyRejectionLeavesNoStart`: no phase runs after the target, and the
  code's failure for want of a start key needs every seed rejected and no beam.
* `EnvelopeTellsTheEnd`: what the run block and the public status say of a call: ended
  unless the solver was never built or the call was interrupted; error exactly if it
  raised, whatever reason was stored by then; success only with the target or the test
  key; blocked exactly if every phase was rejected.
* `KeysStayValid`, `MutationReachesEveryKey`, `ChildInherits`: from any numbers a caller
  supplies, through any verbs, a key is valid and accepted by its cipher; mutation alone
  reaches the whole key space, interruptor sets included; a crossover invents nothing.
* `CipherIsLossless`: encryption and decryption undo each other for every cipher, key,
  orientation and set of interruptors; where an operation is ambiguous the reading that
  is lost is among the candidates.
* `ScoreIsOfAReading`, `ShownPlaintextDeservesScore`, `CountersAgree`: a key's score is that
  of the plaintext it is given, the best of all readings when no limit cuts them; the
  plaintext worked out again for display scores no less; the crib's counters add up.
* `BranchesAreExact`: the branches offer exactly the readings that any key gives and in
  which the cribs are true.  `StageReasonIsTrue`: a stage that does not say its sweeps
  ran out found only keys no single coordinate betters.  `AnswerIsBestJudged`: the answer
  is the best the judging profile ever scored, over all branches.
* `LedgerAgreesWithResults`, `ArchiveKeepsTheBest`: each readable row agrees with a result,
  no run has two; the archive is the selection of the best versions of everything
  offered, in any order of arrival and across a write and a read, provided that no
  candidate changes its family.
* `WrittenCanBeRead`: reading offers every record of the file again, one by one, and
  refuses the file if one of them is not retained or if the whole does not come out as
  it was written.  What an archive writes always passes, families changed or not.

## Findings

1. `sa_stale`: when the plateau fires in an iteration that also reseeds, and the reseed
   beats the best, the search goes on but the stored reason stays; a run that then uses
   all its iterations reports `no_improve_<rounds>` (`sa.py:160`), against "A stop reason
   describes why search ended" (`docs/architecture/solver_mechanics.md:125`).
2. `ga_ties`: the first population is ordered by `np.argsort(scores)[::-1]`
   (`ga.py:211`), which does not keep tied candidates in order, against
   `docs/guides/solvers.md:27-29`.
3. `hybrid_target`: when annealing stops on the target the chain reports
   `configured_work_limit_reached` under a comment that says "without an earlier stop"
   (`hybrid.py:296`).

### Observations

These were met while reading the code and have no run of their own.

* **Seeds beyond the population.**  All supplied seeds are scored for the seed diagnostics
  (`ga.py:162`, `solver_base.py:1080-1115`), but the population takes the first `pop_size` of
  them (`ga.py:189`) and the others are never looked at again.  With four seeds for three
  places and the best of them last, the model has a run that answers with a key that scores
  less than a seed whose score it reports as `seed_score_max`, also with one objective
  throughout.
* **A refused key may have become better.**  The ramp moves the Hamming weight before
  every round of the beam (`beam.py:347`), but a key the window refuses is not scored
  again.  With a width of 2 and beam scores of 2 and 0, a third key was offered when it
  scored 0 and fell to the cut; in the next round the weight gives it 1, and the window
  refuses it.  The beam's own members keep their older scores as well.
* **A vetoed plateau leaves its reason.**  What annealing's reseed does (finding 1) the veto
  and the stall slips of Kaeding's search do too (`kaeding_periodic_structured.py:483`,
  `:507`, `:516`): the stop is taken back, the reason is not.  `ReasonExplainsStop` puts such
  a reason aside as `withdrawn`.
* **A slip forgets.**  With fixed slips, Kaeding's search first moves to the best key of a
  step's batch, then slips away from it, and only then records the best
  (`kaeding_periodic_structured.py:464-483`): a key accepted in such a step is never
  recorded, however well it scored, although a run "returns the best result found"
  (`docs/learn/00_words_used_here.md:313-314`).  The model does the same, and
  `KaedingSolver`'s `ImplementsSearch` speaks of the candidates a slip left to be recorded.
* **Lower is better.**  With a negative-log-probability objective `_score_batch` negates
  *after* rejected rows were given minus infinity (`solver_base.py:1064-1068`), so a
  rejected key ranks first, and the run is reported as rejected throughout
  (`solver_base.py:745`); the resolver of
  ambiguous readings takes the argmax before the negation (`runtime.py:1195`).
  `docs/architecture/candidate_evaluation.md:53` has cribs reject before scoring.
* **The copy of the run block.**  A solution's telemetry is copied before `run_end` and
  later filled only where keys are missing, so its run block has no end, result or wall
  time (`telemetry/events.py:75-120`; `docs/guides/telemetry.md:49-50`).
* **Masks and interruptors.**  A mask schedule must be as long as the ciphertext when the
  configuration is made (`core/config/cipher.py:438-440`) and as long as the core when a
  text is decrypted (`scheduled_stream_lookup_cipher.py:949`): with an interruptor every
  decryption raises.
* **Nothing but interruptors.**  The readings of an empty core are one, the text of the
  interruptors alone, and the cipher decrypts to it; the enumeration that the expanding
  resolver uses gives none instead (`core/problem/runtime.py:1124-1126`, `:1185`), so such
  a key has no text and scores minus infinity.  `Exhaustive`, the proviso under which
  `ScoreIsOfAReading` asks for the best of all readings, leaves these keys out.
* **A torn ledger line.**  A row cut short by a crash swallows the next one, and
  `read_ledger` then raises on the whole file.  Only tests call `read_ledger` and
  `read_candidate_archive`.

## The proofs

All theorems hold for every value of the constants that the assumptions in the modules
allow: `NoKey` is not a key, `Inf` is a positive natural above every score, the target is
a finite score or absent, widths, rounds and populations are positive and options are of
their types.  `Keys` need not be finite.  For the evaluation texts and keys are arrays of
symbols, a key's core has at least one, limits are any integers, and scores are natural
numbers with minus infinity below them, as only their order is used; a permutation is one
of the whole text and interruptors lie in the text, and the pipeline raises on any other
(`ciphers/ciphers_pipeline.py:136-145`, `:400-409`).  Three assumptions say more than a type, and the
code enforces each: a population has room for two members beside its elites, a landscape
of Kaeding's search rejects a key in both objectives or in neither (the crib decides), and
a family's limit is at most the archive's capacity.  For campaigns there are any number
of runs, candidates, scores and families.

| Module | Theorem | Says |
|---|---|---|
| `SASolverProofs` | `TypeCorrect`, `BestIsAlwaysMaximum`, `PlateauIsExact`, `TargetIsHonoured`, `EndIsAlwaysRecorded` | `[]` of `TypeOK`, `BestIsMaximum`, `PlateauExact`, `TargetHonoured`, `EndIsRecorded` |
| | `AnnealingImplementsSearch`, `AnnealingAnswersWithTheBest` | the refinement, and what it gives the caller |
| `GASolverProofs` | `TypeCorrect`, `PopulationIsAlwaysBest`, `ElitesTakeOver`, `ReasonAlwaysExplains` | `[]` of `TypeOK`, `PopulationIsBest`, `EliteTakeover`, `ReasonExplainsStop` |
| | `GeneticImplementsSearch`, `GeneticAnswersWithTheBest` | as above |
| `BeamSolverProofs` | `TypeCorrect`, `WindowIsAlwaysConsistent`, `BeamIsAlwaysTopWidth`, `SelectedRestartIsAlwaysFirstBest`, `ReasonAlwaysExplains` | `[]` of `TypeOK`, `WindowConsistent`, `BeamIsTopWidth`, `SelectedRestartIsFirstBest`, `ReasonExplainsStop` |
| | `BeamImplementsSearch`, `BeamAnswersWithTheBest` | as above |
| `KaedingSolverProofs` | `TypeCorrect`, `PlateauIsAlwaysReal`, `ReasonAlwaysExplains` | `[]` of `TypeOK`, `PlateauIsReal`, `ReasonExplainsStop` |
| | `KaedingImplementsSearch`, `KaedingAnswersWithTheBest` | as above, of the keys its steps record |
| `EngineProofs` | `CreditIsAlwaysDeserved`, `TargetAlwaysEndsRun`, `OnlyRejectionEverLeavesNoStart` | `[]` of `CreditIsDeserved`, `TargetEndsRun`, `OnlyRejectionLeavesNoStart`, of the hybrid |
| | `ChainImplementsSearch`, `ChainAnswersWithTheBest` | as above |
| | `EngineRunsTheSolver` | `EngineSpec => Spec`: every call of the engine is a run of the hybrid, so all of the above holds in it |
| | `EnvelopeAlwaysTellsTheEnd`, `EngineAnswersWithTheBest` | `EngineSpec => []EnvelopeTellsTheEnd`, and the caller's promise once more for the whole call |
| `CampaignProofs` | `ProcessTypes`, `LedgerAlwaysAgrees` | the process keeps its types; `[]LedgerAgreesWithResults` |
| | `ArchiveAlwaysKeepsTheBest`, `WrittenCanAlwaysBeRead` | `[]` of `ArchiveKeepsTheBest`, `WrittenCanBeRead` |
| `EvaluationProofs` | `EvaluationIsInvariant` | each row of the last result is what its key comes to, for whatever was evaluated before |
| | `ScoresAreOfReadings`, `ShownPlaintextsDeserveScores`, `CountersAlwaysAgree` | `[]` of `ScoreIsOfAReading`, `ShownPlaintextDeservesScore`, `CountersAgree` |
| | `PipelineIsLossless` | kernels that undo each other still do in any orientation and around any interruptors, which keep their places and symbols |

The type invariants are among the invariants proved and have no place in the runs, which
are kept for what the types do not say.

The refinements are step by step: the actions that score are `Explore` or a stutter, the
tests are stutters, and the last action is `Found` or `Rejected`.  The
`...AnswersWithTheBest` theorems are the project's first question answered for each
solver: the key it finds is beaten by nothing its search scored, and it reports rejection only
when everything was rejected.  Each is proved of the variables the refinement maps to:
`PromiseInv` says that the incumbent is one of the candidates scored and nothing scored
beats it, `PromiseStep` that every step of `Search` keeps that, and the refinement that
every step of the solver is one.

### Why the invariants are inductive

**What the solvers share** (`SolverBaseProofs`).  The early-stop record is never read by
itself but against the log of best scores.  `LogAfterReset`, `LogAfterUpdate` and
`LogAfterAppend` say how one step changes that relation, and `PatienceMeans` reads it off:
patience is exhausted only if the log gained at most `MinDelta` in the last
`PlateauRounds` steps.  Annealing, the beam and the genetic algorithm all use these.  The
`StableTopK...` lemmas say of the stable cut, which is defined by counting who goes
before whom, that it keeps a best candidate, keeps the first of equals in front, and
leaves out nothing better than what it keeps; behind them is `RankIsOnto`, that the ranks
of n candidates are exactly 1 to n.

**Annealing.**  `PlateauExact` compares the log with the plateau flag, which says nothing
of the record in between.  `PlateauInv` adds it: the recorded best was set at
`early_stop.at` and the best has crept at most `min_delta` above it since
(`CreepIsBounded`); the log is as long as the search is old (`LogIsComplete`); every entry
before that moment is strictly below the recorded best and none after it is (`LogAgrees`);
and the flag is exactly exhausted patience, also after a reseed that asked a second time
(`FlagIsPatience`).  `EndInv` ties the stored reason to the program counter for the other
two.  `IterateFacts` and `ReseedFacts` open the existential choices of an iteration once.

**The genetic algorithm.**  That the population is the best of all it scored is
kept by a generation because the pool holds the old population whole: what was scored
and is not in it was no better than its last, and the new last is no worse
(`GenerationKeepsTheBest`).  A seed that fits was scored in the population as the
diagnostics scored it, since the weight had not moved in between
(`SeedsThatFitAreScored`).  `EliteTakeover` speaks of two generations and is not inductive.
`EliteInv` strengthens it to every k at once: the first k + 1 members are as good as the
best was k generations ago; one step moves k + 1 places up and adds the copy of the
first.

**The beam.**  The conjuncts are the beam's shape in each phase (`BeamInv`), the window
(`WindowInv`: set and queue hold the same keys, none twice), the cut (`CutInv`: a key
scored since the restart began is in the beam or no better than its worst, and the window
holds only keys scored since then), the best over restarts (`BestInv`), the log and the
reason.  `CutInv` is where the window could lose something: a key it refuses was scored
before, so the cut has already judged that score, whatever the weight is now.
Dropping duplicates is a recursive function over the rows; `AfterIsDefined` shows that
there is one, by the least row at which there would be none, as induction rules that take
a predicate are not available.

**Kaeding's search.**  `PlateauIsReal` fails to be inductive in a way worth knowing.  The
plateau counts from `early_stop.at`, which slips reset and the veto sets to an earlier
step: after a veto of the slip limit it may lie *before* the step at which the recorded
score was reached.  `AgeInv` lists the three cases: the recorded score has been there since
`early_stop.at`; or since the last pct improvement, in which case the next plateau is
either vetoed again or real; or the limit was vetoed, and then the search keeps stalling
until pct improves.  With `CreepInv` (the best creeps at most `MinDelta` above the
record) and `BestInv`, `PlaceInv` and `ReasonInv` for the rest, that suffices.

**The chain and the engine.**  `CreditInv` says of the phases that ran so far what
`CreditIsDeserved` says at the end, and adds that the seeds handed to the genetic algorithm
cover the caller's, without which nothing is known of a seed the chain drops.  `CallInv`
relates the run block and the public status to the solver's program counter; the engine's
own steps leave the solver's variables alone and the solver's steps are those of the
hybrid, which is all `EngineRunsTheSolver` needs.

**The ledger.**  `LedgerAgreesWithResults` speaks of the rows that are there and of no
process, so nothing in it forbids a row that contradicts the result still to be written,
or a second one.  `LedgerInv` adds where the process is: a run has no row before it has
finished, and while it is between the result and the row the result says what the row
will.  `AppendedLines` and `RemainsKeep` show that neither a whole nor a torn append, on an
ended or an unended line, can make another row legible.

**The archive.**  It forgets what it evicts, so that it is still the selection of
*everything* offered is the point to prove.  `ArchiveInv` says it is a selection of one
version of each candidate, and if no family changed the selection of the best versions;
the same of the file and of what had been offered before it was written.  The argument
has two halves.  A part of a set that holds everything selected from the set gives the
same selection (`SelectOfSubset`), so forgetting the rest is harmless while records only
get added.  And an offer adds a record, or replaces one that is already there by a better
version, which lets no third record in (`BetterOffer`; a worse one changes nothing,
`WorseOffer`).  A candidate that changes family frees a place in its old one, and the
record that should move up is gone: hence the property's proviso.  Reading offers a
selection best first, so each record enters an archive of better ones, and is kept because
the end result keeps it (`SelectionIsReadable`); this needs no proviso.

**The evaluation.**  None of the three properties says how a score came about, only how it
relates to a text.  `Inv` says it: each row of the result is `AnswerOf` its key, which
depends on the problem alone (`AnswersAreFixed`), so that a key evaluated in one batch and
shown after another is the same key.  The counters add up because the verdicts share the
texts out (`VerdictsPartition`), whichever way the tallies are summed (`TallyFacts`).
`ShownPlaintextDeservesScore` then compares two ways to resolve one key.

`ScoreIsOfAReading` is about the enumeration and the pipeline.  A text that encrypts to the
ciphertext is put together from its own core, as taking interruptors out and putting them
back are inverse (`InsertThenRemove`, `RemoveThenInsert`), so are a permutation and its
inverse, and a turned text turned again (`PrepareThenReassemble`, `ReassembleFacts`).  Its
core is a choice of one inverse for each place.  The mixed-radix counter meets each choice
(`DigitsAreReached`) and none twice (`DigitsAreDistinct`), so there are exactly as many
readings as it counts (`CounterIsBijection`, `ReadingsAreAll`): if that number is within
the limit nothing is cut.  The resolver's running best is a best of all it
went through (`FirstBestFacts`), and the best of the readings that pass the crib is the
best of all texts that do (`ResolveIsBest`).  The weights of the digits are a recursive function;
`IntervalInduction`, a least counterexample again, shows that it is defined and positive.

`PipelineIsLossless` is what the same lemmas say of the other ciphers: encryption loses
nothing that its kernel does not lose.

### Only model-checked

* The properties of `keys` (`KeysStayValid`, `CipherIsLossless`, `MutationReachesEveryKey`,
  `ChildInherits`) and `cribs` (`BranchesAreExact`, `StageReasonIsTrue`,
  `AnswerIsBestJudged`).  Their operators are folds and recursive functions over keys,
  columns, streams and equations; what such a definition computes for every input needs an
  induction of its own for each, as general rules cannot be instantiated.  The
  pipeline's part of `CipherIsLossless` is proved, the kernels' is not; see *Plan*.
* Liveness (`Termination`, `CallEnds`), as fairness and `ENABLED` are out of the provers'
  reach.
* That `Raise` and `Kill` may strike at each point is a matter of the model, not a theorem.

## Not modelled

The table of components in `PROJECT.json` gives a reason for each; by kind:

* Scoring (`scoring/`, with its torch variants) is floating-point statistics over language
  models.  The models need of it that a score is a function of the text, and take any.
* Seed generation is statistics too; every solver is modelled for any seeds.
* The public API's request validation, routing, reports and display, and the configuration
  classes, are conversions and text without state that a later step depends on.  Data
  modules are tables.  The torch backends compute what the numpy ones do.
* Telemetry's counters, bags and the log file only record; the run block is in `Engine`.
* Replay, snapshots and manifests of campaigns, and the asset installer, are file-system
  calls in one order.
* Right-to-left texts and child seeds of the two-period solver, local improvement of the
  key operations beyond its contract, and the optional block and column swaps.

## Plan

The solvers, the chain, the engine, the evaluation and the campaign are modelled, checked
and proved.  What is left, the most important first:

1. `AnswerIsBestJudged` for the two-period solver: the state machine over branches and
   stages is like the solvers above; a coordinate search needs that a fold of steps never
   lowers the score, and the cribs that elimination keeps the solutions of a system.
2. `CipherIsLossless` from `PipelineIsLossless` and the kernels: immediate for the
   Vigenere and substitution ciphers, by induction along the text for autokey, and for
   the transpositions from the order of the columns and rails being a permutation.
3. `KeysStayValid` for the vector and permutation families, verb by verb.
4. More of the code: seed generation's control, the request validation of the API, and
   the log and counters of telemetry.
