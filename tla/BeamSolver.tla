----------------------------- MODULE BeamSolver -----------------------------
(* rdp.solvers.beam.BeamSolver.solve: a fixed-width beam of candidates that   *)
(* is widened by children and cut back to its best, round after round, with   *)
(* independent restarts and a bounded memory of recently expanded keys.       *)
(*                                                                            *)
(* The children of a round are any keys: which parents are expanded, at which *)
(* position and with which sampling is abstracted.  The Hamming weight        *)
(* follows its ramp, which starts again with every restart; a member of the   *)
(* beam keeps the score it had when it was scored.  The telemetry span        *)
(* (SASolver) and the beam handed on to the genetic algorithm (HybridSolver)  *)
(* are left to those modules.                                                 *)
EXTENDS SolverBase

CONSTANTS
  Width,        \* beam_width
  Rounds,       \* rounds
  Restarts,     \* restarts
  WindowFactor, \* the recent-key window is this many beam widths (4 in the code)
  SeedChoices,  \* the sequences of seed keys that may be supplied
  MaxChildren,  \* bound: children of one round
  Weights,      \* the values the Hamming weight takes
  InitialWeight, \* the scorer's weight when it is built
  Ramp,         \* the weight set_hamming_progress gives a round
  Landscapes,   \* score of each key at each weight
  Dedup         \* expand.dedup

ASSUME BeamAssumption ==
  /\ {Width, Rounds, Restarts, WindowFactor, MaxChildren} \subseteq Nat \ {0}
  /\ SeedChoices \subseteq Seq(Keys)
  /\ InitialWeight \in Weights
  /\ Ramp \in [0..Rounds -> Weights]
  /\ Landscapes \subseteq [Weights -> [Keys -> Scores]]
  /\ Dedup \in BOOLEAN

VARIABLES
  landscape, seed_keys, test_key,   \* the problem, never changed
  pc,
  weight,                           \* the scorer's Hamming weight
  restart,                          \* restarts completed
  r,                                \* rounds begun in this restart
  beam,                             \* Width candidates, best first after a round
  recent_hashes, recent_queue,      \* the keys not to be scored again
  early_stop,
  best, selected_restart,           \* the best candidate over the restarts
  restart_scores,
  sol,
  scored,                           \* history: candidates scored
  tried,                            \* history: those of this restart
  offered,                          \* history: keys offered in this restart
  log                               \* history: best score after each round of it

problem == <<landscape, seed_keys, test_key>>
window == <<recent_hashes, recent_queue>>
chosen == <<best, selected_restart, restart_scores>>
history == <<scored, tried, offered, log>>
vars == <<problem, pc, weight, restart, r, beam, window, early_stop, chosen, sol,
          history>>

Scored(k, w) == <<k, landscape[w][k]>>
ScoredSeq(keys, w) == [i \in DOMAIN keys |-> Scored(keys[i], w)]
WindowSize == WindowFactor * Width
SeqsUpTo(S, n) == UNION {[1..m -> S] : m \in 0..n}
Members(cands) == {cands[i] : i \in DOMAIN cands}
KeysOf(C) == {KeyOf(c) : c \in C}

NoCandidate == <<NoKey, NegInf>>
NoSolution == [kind |-> "none"]
Solutions ==
  [kind : {"found", "supplied", "rejected"}, cand : Candidates, reason : Reasons]
    \cup [kind : {"raised"}, reason : Reasons]

TypeOK ==
  /\ landscape \in Landscapes
  /\ seed_keys \in SeedChoices
  /\ test_key \in Keys \cup {NoKey}
  /\ pc \in {"start", "begin", "round", "select", "finish", "done", "raised"}
  /\ weight \in Weights
  /\ restart \in 0..Restarts /\ r \in 0..Rounds
  /\ beam \in Seq(Candidates) /\ Len(beam) \in {0, Width}
  /\ recent_hashes \subseteq Keys /\ recent_queue \in Seq(Keys)
  /\ early_stop \in EarlyStops
  /\ best \in Candidates \cup {NoCandidate}
  /\ selected_restart \in 0..(Restarts - 1)
  /\ restart_scores \in Seq(Scores) /\ Len(restart_scores) <= Restarts
  /\ sol \in Solutions \cup {NoSolution}
  /\ tried \subseteq scored /\ scored \subseteq Candidates /\ offered \subseteq Keys
  /\ log \in Seq(Scores) /\ Len(log) <= Rounds + 1

Init ==
  /\ landscape \in Landscapes
  /\ seed_keys \in SeedChoices
  /\ test_key \in Keys \cup {NoKey}
  /\ pc = "start" /\ weight = InitialWeight
  /\ restart = 0 /\ r = 0
  /\ beam = <<>>
  /\ recent_hashes = {} /\ recent_queue = <<>>
  /\ early_stop = EarlyStopReset(NegInf)
  /\ best = NoCandidate /\ selected_restart = 0 /\ restart_scores = <<>>
  /\ sol = NoSolution
  /\ scored = {} /\ tried = {} /\ offered = {} /\ log = <<>>

-----------------------------------------------------------------------------
TestKeyFastPath ==
  /\ pc = "start" /\ test_key # NoKey
  /\ sol' = [kind |-> "supplied", cand |-> Scored(test_key, weight),
             reason |-> "test_key"]
  /\ early_stop' = WithReason(early_stop, "test_key")
  /\ pc' = "done"
  /\ UNCHANGED <<problem, weight, restart, r, beam, window, chosen, history>>

Begin ==
  /\ pc = "start" /\ test_key = NoKey
  /\ pc' = "begin"
  /\ UNCHANGED <<problem, weight, restart, r, beam, window, early_stop, chosen, sol,
                 history>>

\* The first population: in the first restart the first Width seeds, made up to
\* Width with random keys; in any other only random keys.
Populations ==
  {p \in [1..Width -> Keys] :
     restart = 0 => \A i \in DOMAIN seed_keys : i <= Width => p[i] = seed_keys[i]}

\* Scoring the population of a restart, with the ramp set to its beginning.  Its
\* window of recent keys is empty, and the population itself does not enter it.
BeginRestart ==
  /\ pc = "begin"
  /\ weight' = Ramp[0]
  /\ \E p \in Populations :
       LET cands == ScoredSeq(p, weight')
           first == BestScore(Members(cands))
       IN  /\ beam' = cands
           /\ early_stop' = EarlyStopReset(first)
           /\ log' = <<first>>
           /\ offered' = {p[i] : i \in 1..Width}
           /\ tried' = Members(cands)
           /\ scored' = scored \cup tried'
  /\ recent_hashes' = {} /\ recent_queue' = <<>>
  /\ r' = 0
  /\ pc' = "round"
  /\ UNCHANGED <<problem, restart, chosen, sol>>

-----------------------------------------------------------------------------
(* _dedup_rows, one row at a time, on [keep, hashes, queue].                  *)

\* Mutant: an evicted key stays in the set.
RememberForever(w, k) ==
  LET queue == Append(w.queue, k)
      full == Len(queue) > WindowSize
  IN  [keep |-> Append(w.keep, k),
       hashes |-> w.hashes \cup {k},
       queue |-> IF full THEN Tail(queue) ELSE queue]

Remember(w, k) ==
  LET queue == Append(w.queue, k)
      full == Len(queue) > WindowSize
  IN  [keep |-> Append(w.keep, k),
       hashes |-> (w.hashes \cup {k}) \ (IF full THEN {Head(queue)} ELSE {}),
       queue |-> IF full THEN Tail(queue) ELSE queue]

DedupRow(w, k) == IF k \in w.hashes THEN w ELSE Remember(w, k)

\* after[i]: when i rows have been looked at.
Deduped(w, rows) ==
  LET after[i \in 0..Len(rows)] ==
        IF i = 0 THEN w ELSE DedupRow(after[i - 1], rows[i])
  IN  after[Len(rows)]

DedupRows(rows) ==
  LET w == [keep |-> <<>>, hashes |-> recent_hashes, queue |-> recent_queue]
  IN  IF Dedup THEN Deduped(w, rows) ELSE [w EXCEPT !.keep = rows]

\* Mutant: the children displace the beam before the cut.
ChildrenFirst(parents, children) == SubSeq(children \o parents, 1, Width)

Merged(parents, children) == parents \o children

\* One round: move the ramp on, expand, drop recently expanded keys, score, merge,
\* keep the best Width, then the two stop tests.  The beam is not scored again: its
\* old scores compete with the new ones.  The target is tested first, and the
\* plateau only when it is not reached.
Round ==
  /\ pc = "round"
  /\ r' = r + 1
  /\ weight' = Ramp[r']
  /\ \E rows \in SeqsUpTo(Keys, MaxChildren) \ {<<>>} :
       LET kept == DedupRows(rows)
           children == ScoredSeq(kept.keep, weight')
           top == StableTopK(Merged(beam, children), Width)
           round_best == ScoreOf(top[1])
           reached == StopScoreReached(round_best)
       IN  /\ beam' = top
           /\ recent_hashes' = kept.hashes /\ recent_queue' = kept.queue
           /\ early_stop' = IF reached THEN WithReason(early_stop, "target_score")
                            ELSE EarlyStopUpdate(early_stop, round_best, r')
           /\ pc' = IF \/ reached
                       \/ PlateauFires(early_stop, round_best, r')
                       \/ r' = Rounds
                    THEN "select" ELSE "round"
           /\ log' = Append(log, round_best)
           /\ offered' = offered \cup {rows[i] : i \in DOMAIN rows}
           /\ tried' = tried \cup Members(children)
           /\ scored' = scored \cup Members(children)
  /\ UNCHANGED <<problem, restart, chosen, sol>>

-----------------------------------------------------------------------------
(* The best restart so far, and whether there is another.                     *)

\* Mutant: a later restart wins a tie.
TieReplaces(head) == best = NoCandidate \/ ScoreOf(head) >= ScoreOf(best)

Replaces(head) == best = NoCandidate \/ ScoreOf(head) > ScoreOf(best)

\* Mutant: a plateau ends the whole search, not only its restart.
AnyStopEndsSearch(reason) == reason # "none"

EndsSearch(reason) == reason = "target_score"

SelectRestart ==
  /\ pc = "select"
  /\ restart' = restart + 1
  /\ restart_scores' = Append(restart_scores, ScoreOf(beam[1]))
  /\ IF Replaces(beam[1])
       THEN best' = beam[1] /\ selected_restart' = restart
       ELSE UNCHANGED <<best, selected_restart>>
  /\ pc' = IF EndsSearch(early_stop.reason) \/ restart' = Restarts
           THEN "finish" ELSE "begin"
  /\ early_stop' = IF pc' = "finish" /\ early_stop.reason = "none"
                   THEN WithReason(early_stop, "max_rounds_reached") ELSE early_stop
  /\ UNCHANGED <<problem, weight, r, beam, window, sol, history>>

\* _finalize_solution: polish the best key with the scorer as the last restart left
\* it; the reason is that of this restart too.
Finish ==
  /\ pc = "finish"
  /\ IF IsFinite(ScoreOf(best))
       THEN \E c \in LocalImprove(best, landscape[weight]) :
              sol' = [kind |-> "found", cand |-> c, reason |-> early_stop.reason]
       ELSE sol' = [kind |-> "rejected", cand |-> best,
                    reason |-> "all_rejected_by_hard_crib"]
  /\ pc' = "done"
  /\ UNCHANGED <<problem, weight, restart, r, beam, window, early_stop, chosen,
                 history>>

\* Inside the try the exception leaves a reason, if there is none yet.
Raise ==
  /\ pc \notin {"done", "raised"}
  /\ early_stop' \in IF pc = "start" THEN {early_stop} ELSE ReasonOrError(early_stop)
  /\ sol' = [kind |-> "raised", reason |-> early_stop'.reason]
  /\ pc' = "raised"
  /\ UNCHANGED <<problem, weight, restart, r, beam, window, chosen, history>>

Stopped == pc \in {"done", "raised"} /\ UNCHANGED vars

Step == TestKeyFastPath \/ Begin \/ BeginRestart \/ Round \/ SelectRestart \/ Finish

Next == Step \/ Raise \/ Stopped

Spec == Init /\ [][Next]_vars

\* solve is one sequential call: while it can go on it does.
FairSpec == Spec /\ WF_vars(Step)

-----------------------------------------------------------------------------
(* Properties.                                                                *)

\* The set and the queue of recent keys are two views of one window: the same
\* keys, none of them twice in the queue, and no more than the window holds.
WindowConsistent ==
  /\ recent_hashes = {recent_queue[i] : i \in DOMAIN recent_queue}
  /\ Cardinality(recent_hashes) = Len(recent_queue)
  /\ Len(recent_queue) <= WindowSize

\* The cut loses nothing that was scored, and the window refuses nothing that was
\* not: after a round the beam is sorted; every candidate scored since the restart
\* began, at whatever weight the ramp then had, is either in the beam or no better
\* than the worst of it; and every key offered since then - dropped by the window,
\* scored and evicted, or pushed out of the window and offered again - is one of
\* those that were scored.  A score is the one of its round: when the ramp has moved
\* on, a key that the window refuses is not scored at the new weight, at which it
\* might beat the worst of the beam.  Only while the weight stands still is a key
\* that was offered and is not in the beam no better than that by its present score.
BeamIsTopWidth ==
  pc \in {"round", "select"} /\ r > 0 =>
    /\ \A i, j \in 1..Width : i < j => ScoreOf(beam[i]) >= ScoreOf(beam[j])
    /\ \A c \in tried : c \in Members(beam) \/ ScoreOf(c) <= ScoreOf(beam[Width])
    /\ offered \subseteq KeysOf(tried)

\* The restart that is reported is the earliest with the highest score, and the
\* best candidate is the one it found.
SelectedRestartIsFirstBest ==
  restart > 0 =>
    /\ restart_scores[selected_restart + 1] = ScoreOf(best)
    /\ \A i \in DOMAIN restart_scores :
         IF i <= selected_restart THEN restart_scores[i] < ScoreOf(best)
                                  ELSE restart_scores[i] <= ScoreOf(best)

\* The reason of the answer is why the last restart ended: the target was reached
\* by the very best candidate, or the last PlateauRounds rounds gained at most
\* MinDelta, or all the rounds were used.  A search below its target runs every
\* restart it was given.
ReasonExplainsStop ==
  pc = "done" /\ sol.kind = "found" =>
    /\ (sol.reason = "target_score") = StopScoreReached(ScoreOf(best))
    /\ sol.reason = "no_improve" =>
         r >= PlateauRounds /\ log[r + 1] <= PlusDelta(log[r - PlateauRounds + 1])
    /\ sol.reason = "max_rounds_reached" => r = Rounds
    /\ sol.reason # "target_score" => restart = Restarts

\* Every call of solve returns or raises.
Termination == <>(pc \in {"done", "raised"})

-----------------------------------------------------------------------------
(* Refinement: beam search is a Search.  Its incumbent is the best of the     *)
(* restarts that are over and of the one that runs.                           *)

Head1(cands) ==
  cands[CHOOSE i \in DOMAIN cands : \A j \in DOMAIN cands : ~ Precedes(cands, j, i)]

Incumbent ==
  IF beam = <<>> THEN NoKey
  ELSE IF Replaces(Head1(beam)) THEN Head1(beam) ELSE best

Answer ==
  IF sol.kind = "none" THEN NoKey
  ELSE IF sol.kind = "raised" THEN [kind |-> "raised"]
  ELSE [kind |-> sol.kind, cand |-> sol.cand]

Abstract == INSTANCE Search WITH
  Nothing <- NoKey,
  seen <- scored,
  incumbent <- Incumbent,
  answer <- Answer

\* Every step of the beam is a step of the abstract search, or changes nothing
\* that it can see.
ImplementsSearch == Abstract!Spec
=============================================================================
