-------------------------- MODULE KaedingSolverProofs --------------------------
(* What KaedingSolver is proved to do, for every number of steps and restarts,*)
(* every slip and stall setting, every landscape and choice of seeds: its     *)
(* type, that a plateau stop that stands closes a real plateau, that the      *)
(* reason it leaves is why it stopped, and that it implements Search.         *)
EXTENDS KaedingSolver, SolverBaseProofs, TLAPS

-----------------------------------------------------------------------------
(* The inductive invariant.                                                   *)

InStep == {"column", "slip", "record"}
Running == {"block", "column", "slip", "record", "stall", "test"}

\* Where the search is: the counters are below their limits while there is something
\* left to do, there is a current key from the first restart on, and the log has one
\* score for every step that was recorded.
PlaceInv ==
  /\ pc \in {"start", "restart"} => step = 0
  /\ pc = "start" => restart = 0
  /\ pc \in {"start", "restart"} \cup Running => restart < Restarts
  /\ pc = "block" => step < Steps
  /\ pc \in InStep \cup {"stall", "test"} => step > 0
  /\ pc \in Running => key \in Keys
  /\ Len(log) = IF pc \in InStep THEN GlobalStep - 1
                ELSE IF pc = "raised" THEN Len(log) ELSE GlobalStep
  /\ pc \notin {"done", "raised"} => sol = NoSolution

\* Nothing recorded beats the best key, no key of a step beats the current one, and
\* the seeds are recorded with the first of them, which is the best of them.
BestInv ==
  /\ \A c \in scored : ScoreOf(c) <= BestRaw
  /\ best_key # NoKey => Scored(best_key) \in scored
  /\ pc \in Running => Scored(key) \in scored \cup batch
  /\ pc \in InStep => \A c \in batch : ScoreOf(c) <= score[key].raw
  /\ pc \in {"start", "restart", "block", "stall", "test"} => batch = {}
  /\ pc = "start" \/ (pc = "restart" /\ restart = 0) => scored = {}
  /\ pc = "restart" /\ restart = 0 =>
       \A i \in DOMAIN schedule : score[schedule[i]].raw <= score[schedule[1]].raw
  /\ pc = "restart" /\ restart > 0 => ScoredAll(Range(schedule)) \subseteq scored
  /\ pc \in Running => ScoredAll(Range(schedule)) \subseteq scored
  /\ pc = "end" => best_key # NoKey

\* The best score of the record was there at step t, and ever since.
Since(t) ==
  /\ t = 0 => early_stop.best = NegInf
  /\ \A i \in 1..Len(log) : i >= t => early_stop.best <= log[i]

\* The best raw score has crept no more than MinDelta above the record.
CreepInv ==
  /\ early_stop.at <= GlobalStep
  /\ log = <<>> => early_stop.best = NegInf
  /\ log # <<>> => /\ early_stop.best <= log[Len(log)]
                   /\ log[Len(log)] <= PlusDelta(early_stop.best)
                   /\ log[Len(log)] <= BestRaw
  /\ pc = "stall" => log[GlobalStep] = BestRaw

\* The step the plateau counts from is not before the record's score was reached; a
\* veto of the slip limit alone may put it there, but then the search keeps stalling
\* until the pct objective improves, and that improvement vetoes any plateau that is
\* not real.
AgeInv ==
  \/ Since(early_stop.at)
  \/ PctDelta > 0 /\ Since(last_pct_improve_at)
  \/ /\ PctDelta > 0 /\ slip_policy = "stall" /\ StallRounds > 0 /\ stall_stop_on_limit
     /\ GlobalStep - best_at_step >= StallRounds

\* A reason that was not withdrawn belongs to a stop that stands.
ReasonInv ==
  /\ pc \in {"start", "restart"} \cup Running => early_stop.reason # "target_score"
  /\ pc \in {"start", "restart", "block", "column", "slip", "record"} => ~ plateau_stop
  /\ pc = "stall" /\ plateau_stop =>
       early_stop.reason = "no_improve" /\ PatienceExhausted(early_stop, GlobalStep)
  /\ pc = "test" /\ plateau_stop => early_stop.reason \in {"no_improve", "stall_slip_limit"}
  /\ pc \in {"start", "restart"} \cup Running /\ ~ withdrawn =>
       /\ early_stop.reason = "no_improve" => plateau_stop
       /\ early_stop.reason = "stall_slip_limit" =>
            plateau_stop /\ stall_slips_used = StallSlipLimit /\ stall_stop_on_limit

-----------------------------------------------------------------------------
(* Facts about the operators.                                                 *)

LEMMA Numbers ==
  /\ Steps \in Nat \ {0} /\ Restarts \in Nat \ {0} /\ PctDelta \in Nat
  /\ StallRounds \in Nat /\ StallSlipLimit \in Nat
BY KaedingAssumption

\* Every key has its two scores; raw and pct reject the same keys.
LEMMA ScoreFacts ==
  ASSUME score \in Landscapes
  PROVE  \A k \in Keys : /\ score[k].raw \in Scores /\ score[k].pct \in Scores
                        /\ score[k].raw \in Int /\ score[k].pct \in Int
                        /\ NegInf <= score[k].raw /\ NegInf \in Int
                        /\ (IsFinite(score[k].raw) <=> IsFinite(score[k].pct))
                        /\ Scored(k) \in Candidates /\ ScoreOf(Scored(k)) = score[k].raw
<1> SUFFICES ASSUME NEW k \in Keys
             PROVE  /\ score[k].raw \in Scores /\ score[k].pct \in Scores
                    /\ score[k].raw \in Int /\ score[k].pct \in Int
                    /\ NegInf <= score[k].raw /\ NegInf \in Int
                    /\ (IsFinite(score[k].raw) <=> IsFinite(score[k].pct))
                    /\ Scored(k) \in Candidates /\ ScoreOf(Scored(k)) = score[k].raw
  OBVIOUS
<1>1. score \in [Keys -> [raw : Scores, pct : Scores]]
  BY KaedingAssumption
<1>2. score[k].raw \in Scores /\ score[k].pct \in Scores
  BY <1>1
<1>3. IsFinite(score[k].raw) <=> IsFinite(score[k].pct)
  BY KaedingAssumption
<1>4. Scored(k) \in Candidates /\ ScoreOf(Scored(k)) = score[k].raw
  BY <1>2 DEF Scored, Candidates, ScoreOf
<1> QED BY <1>2, <1>3, <1>4, ScoreRange

\* The step counter of the whole search, its next value, and that a restart ends
\* where the next begins.
LEMMA GlobalSteps ==
  ASSUME NEW a \in Nat, NEW b \in Nat
  PROVE  /\ a * Steps + b \in Nat
         /\ a * Steps + (b + 1) = (a * Steps + b) + 1
         /\ (a + 1) * Steps + 0 = a * Steps + Steps
<1>1. a * Steps \in Nat /\ Steps \in Nat
  BY Numbers
<1>2. (a + 1) * Steps = a * Steps + Steps
  BY Numbers
<1> QED BY <1>1, <1>2

LEMMA GlobalStepType ==
  ASSUME TypeOK
  PROVE  GlobalStep \in Nat
BY GlobalSteps, Numbers DEF TypeOK, GlobalStep

\* The best raw and pct score.
LEMMA BestFacts ==
  ASSUME TypeOK
  PROVE  /\ BestRaw \in Scores /\ BestRaw \in Int /\ BestPct \in Scores
         /\ NegInf <= BestRaw /\ NegInf \in Int
         /\ (IsFinite(BestRaw) <=> IsFinite(BestPct))
BY ScoreFacts, ScoreRange DEF TypeOK, BestRaw, BestPct, IsFinite

BestIsNumber == BestRaw \in Int

LEMMA BestIsNumberNow == TypeOK => BestIsNumber
BY BestFacts DEF BestIsNumber

LEMMA BestIsNumberNext == TypeOK' => BestIsNumber'
BY BestIsNumberNow, PTL

\* Showing a key to the best: the best never loses, is at least as good as the key,
\* and gives way only to something better.
LEMMA UpdateBestFacts ==
  ASSUME TypeOK, NEW k \in Keys, UpdateBest(k), score' = score
  PROVE  /\ best_key' \in Keys \cup {NoKey} /\ best_pct_seen' \in Scores
         /\ \/ best_key' = best_key /\ BestRaw' = BestRaw
            \/ best_key' = k /\ BestRaw' = score[k].raw /\ score[k].raw > BestRaw
         /\ BestRaw' \in Int /\ BestRaw <= BestRaw' /\ score[k].raw <= BestRaw'
         /\ last_pct_improve_at' \in {last_pct_improve_at, GlobalStep}
         /\ last_pct_improve_at' = IF PctImproved THEN GlobalStep ELSE last_pct_improve_at
         /\ PctImproved \in BOOLEAN
<1>1. /\ score[k].raw \in Int /\ score[k].pct \in Scores /\ score[k].pct \in Int
      /\ BestRaw \in Int /\ best_pct_seen \in Scores /\ best_pct_seen \in Int
  BY ScoreFacts, BestFacts, ScoreRange DEF TypeOK
<1>2. best_key' = IF score[k].raw > BestRaw THEN k ELSE best_key
  BY DEF UpdateBest
<1>3. /\ best_pct_seen' \in Scores /\ PctImproved \in BOOLEAN
      /\ last_pct_improve_at' = IF PctImproved THEN GlobalStep ELSE last_pct_improve_at
  <2>1. CASE score[k].pct > IF IsFinite(best_pct_seen) THEN best_pct_seen + PctDelta ELSE NegInf
    <3>1. best_pct_seen' = score[k].pct /\ last_pct_improve_at' = GlobalStep
      BY <2>1 DEF UpdateBest
    <3>2. score[k].pct > best_pct_seen
      BY <1>1, <2>1, Numbers DEF IsFinite
    <3> QED BY <1>1, <3>1, <3>2 DEF PctImproved
  <2>2. CASE ~ score[k].pct > IF IsFinite(best_pct_seen) THEN best_pct_seen + PctDelta ELSE NegInf
    BY <1>1, <2>2 DEF UpdateBest, PctImproved
  <2> QED BY <2>1, <2>2
<1>4. /\ best_key' \in Keys \cup {NoKey}
      /\ \/ best_key' = best_key /\ BestRaw' = BestRaw
         \/ best_key' = k /\ BestRaw' = score[k].raw /\ score[k].raw > BestRaw
      /\ BestRaw' \in Int /\ BestRaw <= BestRaw' /\ score[k].raw <= BestRaw'
  <2>1. CASE score[k].raw > BestRaw
    <3>1. best_key' = k /\ k # NoKey
      BY <1>2, <2>1, KeyAssumption
    <3>2. BestRaw' = score[k].raw
      BY <3>1 DEF BestRaw
    <3> QED BY <1>1, <2>1, <3>1, <3>2
  <2>2. CASE ~ score[k].raw > BestRaw
    <3>1. best_key' = best_key
      BY <1>2, <2>2
    <3>2. BestRaw' = BestRaw
      BY <3>1 DEF BestRaw
    <3> QED BY <1>1, <2>2, <3>1, <3>2 DEF TypeOK
  <2> QED BY <2>1, <2>2
<1> QED BY <1>3, <1>4

\* A move leads to a key of the batch or stays, and the key it leads to is beaten by
\* neither the batch nor the old key.
LEMMA MoveFacts ==
  ASSUME TypeOK, key \in Keys, NEW b \in Batches, NEW k \in Move(b)
  PROVE  /\ b \subseteq Keys /\ k \in b \cup {key} /\ score[key].raw <= score[k].raw
         /\ \A j \in b : score[j].raw <= score[k].raw
<1> DEFINE f == [j \in Keys |-> score[j].raw]
           tops == {j \in b : \A h \in b : score[h].raw <= score[j].raw}
<1>1. b \in SUBSET Keys /\ b # {}
  BY DEF Batches
<1>2. \A j \in Keys : score[j].raw \in Int /\ score[j].raw \in Scores
  BY ScoreFacts DEF TypeOK
<1>3. PICK t \in b : \A j \in b : score[j].raw <= score[t].raw
  <2>1. f \in [Keys -> Scores] /\ \A j \in Keys : f[j] = score[j].raw
    BY <1>2
  <2> HIDE DEF f
  <2>2. \E t \in b : \A j \in b : f[j] <= f[t]
    BY <1>1, <2>1, BestExists
  <2> QED BY <1>1, <2>1, <2>2
<1>4. Move(b) = IF \E j \in tops : score[j].raw > score[key].raw THEN tops ELSE {key}
  BY DEF Move
<1>5. CASE \E j \in tops : score[j].raw > score[key].raw
  <2>1. k \in tops
    BY <1>4, <1>5
  <2> QED BY <1>1, <1>2, <1>5, <2>1
<1>6. CASE ~ \E j \in tops : score[j].raw > score[key].raw
  <2>1. k = key
    BY <1>4, <1>6
  <2>2. score[t].raw <= score[key].raw
    BY <1>1, <1>2, <1>3, <1>6
  <2> QED BY <1>1, <1>2, <1>3, <2>1, <2>2
<1> QED BY <1>5, <1>6

\* The seeds in the order they are used: keys, the best of them first.
LEMMA ScheduleFacts ==
  ASSUME TypeOK
  PROVE  /\ SeedSchedule \in Seq(Keys)
         /\ \A i \in DOMAIN SeedSchedule :
              score[SeedSchedule[i]].raw <= score[SeedSchedule[1]].raw
<1> DEFINE count == Len(seed_keys)
           cands == [i \in 1..count |-> Scored(seed_keys[count + 1 - i])]
           ranked == StableTopK(cands, count)
           keys == [i \in DOMAIN ranked |-> KeyOf(ranked[i])]
<1>1. seed_keys \in Seq(Keys) /\ count \in Nat
  BY KaedingAssumption DEF TypeOK
<1>2. SeedSchedule = keys
  BY DEF SeedSchedule
<1>3. ASSUME NEW i \in 1..count
      PROVE  /\ seed_keys[count + 1 - i] \in Keys
             /\ cands[i] \in Candidates /\ cands[i] = Scored(KeyOf(cands[i]))
  <2>1. count + 1 - i \in 1..count
    BY <1>1
  <2>2. seed_keys[count + 1 - i] \in Keys
    BY <1>1, <2>1
  <2>3. Scored(seed_keys[count + 1 - i]) \in Candidates
        /\ KeyOf(Scored(seed_keys[count + 1 - i])) = seed_keys[count + 1 - i]
    BY <2>2, ScoreFacts DEF TypeOK, Scored, KeyOf
  <2> QED BY <2>2, <2>3
<1>4. cands \in Seq(Candidates) /\ Len(cands) = count /\ DOMAIN cands = 1..count
      /\ \A i \in 1..count : cands[i] = Scored(KeyOf(cands[i]))
  BY <1>1, <1>3
<1> HIDE DEF cands
<1>5. ranked \in Seq(Candidates) /\ Len(ranked) = count
  <2>1. count = IF count < Len(cands) THEN count ELSE Len(cands)
    BY <1>4
  <2> HIDE DEF count
  <2> QED BY <1>1, <1>4, <2>1, StableTopKFacts
<1>6. CASE count = 0
  BY <1>2, <1>5, <1>6
<1>7. CASE count # 0
  <2>1. /\ \A m \in 1..count : \E i \in DOMAIN cands : ranked[m] = cands[i]
        /\ \A l, m \in 1..count : l <= m => ScoreOf(ranked[l]) >= ScoreOf(ranked[m])
    <3>1. count \in Nat \ {0} /\ cands \in Seq(Candidates) /\ Len(cands) >= count
      BY <1>1, <1>4, <1>7
    <3> HIDE DEF count, keys
    <3>2. LET top == StableTopK(cands, count)
          IN  /\ top \in Seq(Candidates) /\ Len(top) = count
              /\ \A n \in 1..count : \E i \in DOMAIN cands : top[n] = cands[i]
              /\ \A m, n \in 1..count : m <= n => ScoreOf(top[m]) >= ScoreOf(top[n])
              /\ \A i \in DOMAIN cands :
                   \/ \E n \in 1..count : top[n] = cands[i]
                   \/ ScoreOf(cands[i]) <= ScoreOf(top[count])
      BY <3>1, StableTopKIsBest, Zenon
    <3> QED BY <3>2
  <2> HIDE DEF ranked
  <2>2. \A m \in 1..count : /\ ranked[m] = Scored(KeyOf(ranked[m])) /\ KeyOf(ranked[m]) \in Keys
                       /\ ScoreOf(ranked[m]) = score[KeyOf(ranked[m])].raw
                       /\ ScoreOf(ranked[m]) \in Int
    <3>1. \A m \in 1..count : ranked[m] = Scored(KeyOf(ranked[m])) /\ KeyOf(ranked[m]) \in Keys
      BY <1>4, <1>5, <2>1, CandidateParts
    <3> QED BY <3>1, ScoreFacts DEF TypeOK
  <2>3. keys \in Seq(Keys) /\ DOMAIN keys = 1..count /\ \A m \in 1..count : keys[m] = KeyOf(ranked[m])
    BY <1>1, <1>5, <2>2
  <2>4. 1 \in 1..count /\ \A m \in 1..count : 1 <= m
    BY <1>1, <1>7
  <2> HIDE DEF keys, count
  <2>5. \A m \in 1..count : score[keys[m]].raw <= score[keys[1]].raw
    BY <2>1, <2>2, <2>3, <2>4
  <2> QED BY <1>2, <2>3, <2>5
<1> QED BY <1>6, <1>7

-----------------------------------------------------------------------------
(* Type correctness and the place.                                            *)

\* Only the block swaps advance the step counter of the whole search.
LEMMA Clock ==
  ASSUME TypeOK, PlaceInv, [Next]_vars
  PROVE  /\ GlobalStep \in Nat
         /\ GlobalStep' = IF pc = "block" /\ pc' = "column" THEN GlobalStep + 1 ELSE GlobalStep
<1>1. restart \in Nat /\ step \in Nat /\ GlobalStep \in Nat
  BY GlobalStepType DEF TypeOK
<1>2. CASE BlockSwaps
  <2>1. restart' = restart /\ step' = step + 1 /\ pc = "block" /\ pc' = "column"
    BY <1>2 DEF BlockSwaps
  <2>2. GlobalStep' = restart * Steps + (step + 1)
    BY <2>1, Zenon DEF GlobalStep
  <2>3. restart * Steps + (step + 1) = (restart * Steps + step) + 1
    BY <1>1, GlobalSteps
  <2>4. GlobalStep' = GlobalStep + 1
    BY <2>2, <2>3, Zenon DEF GlobalStep
  <2> QED BY <1>1, <2>1, <2>4
<1>3. CASE Test
  <2>1. pc = "test" /\ \/ UNCHANGED <<restart, step>>
                       \/ step = Steps /\ restart' = restart + 1 /\ step' = 0
    BY <1>3 DEF Test
  <2>2. CASE UNCHANGED <<restart, step>>
    <3>1. restart' = restart /\ step' = step
      BY <2>2
    <3>2. GlobalStep' = GlobalStep
      BY <3>1, Zenon DEF GlobalStep
    <3> QED BY <1>1, <2>1, <3>2
  <2>3. CASE step = Steps /\ restart' = restart + 1 /\ step' = 0
    <3>1. (restart + 1) * Steps + 0 = restart * Steps + Steps
      BY <1>1, GlobalSteps
    <3>2. GlobalStep' = (restart + 1) * Steps + 0 /\ GlobalStep = restart * Steps + Steps
      BY <2>3, Zenon DEF GlobalStep
    <3>3. GlobalStep' = GlobalStep
      BY <3>1, <3>2, Zenon
    <3> QED BY <1>1, <2>1, <3>3
  <2> QED BY <2>1, <2>2, <2>3
<1>4. CASE ~ BlockSwaps /\ ~ Test
  <2>1. UNCHANGED <<restart, step>> /\ ~ (pc = "block" /\ pc' = "column")
    BY <1>4 DEF Next, Step, TestKeyFastPath, Start, BeginRestart, ColumnSwaps, FixedSlip,
                Record, StallSlip, NoStallSlip, Fallback, Finish, Raise, Stopped, vars, place
  <2>2. GlobalStep' = GlobalStep
    BY <2>1, Zenon DEF GlobalStep
  <2> QED BY <1>1, <2>1, <2>2
<1> QED BY <1>2, <1>3, <1>4

\* What the search is about does not change.
LEMMA SameProblem ==
  ASSUME [Next]_vars
  PROVE  UNCHANGED problem
BY DEF Next, Step, TestKeyFastPath, Start, BeginRestart, BlockSwaps, ColumnSwaps, FixedSlip,
       Record, StallSlip, NoStallSlip, Test, Fallback, Finish, Raise, Stopped, vars

\* Recording a step, with the best raw score that it leaves.
LEMMA RecordFacts ==
  ASSUME TypeOK, PlaceInv, Record
  PROVE  /\ score' = score /\ key \in Keys /\ UpdateBest(key)
         /\ BestRaw' \in Scores /\ BestRaw' \in Int
         /\ early_stop' = EarlyStopUpdate(early_stop, BestRaw', GlobalStep)
         /\ plateau_stop' = PlateauFires(early_stop, BestRaw', GlobalStep)
         /\ best_at_step' = IF IsImprovement(BestRaw', early_stop.best) \/ PctImproved
                              THEN GlobalStep ELSE best_at_step
         /\ log' = Append(log, BestRaw')
<1>1. score' = score /\ key \in Keys /\ UpdateBest(key)
  BY DEF Record, problem, PlaceInv, Running
<1> DEFINE raw == IF best_key' = NoKey THEN NegInf ELSE score[best_key'].raw
<1>2. raw = BestRaw'
  BY <1>1 DEF BestRaw
<1>3. BestRaw' \in Scores /\ BestRaw' \in Int
  <2>1. best_key' \in Keys \cup {NoKey}
    BY <1>1, UpdateBestFacts
  <2> QED BY <1>2, <2>1, ScoreFacts, ScoreRange DEF TypeOK
<1>4. /\ early_stop' = EarlyStopUpdate(early_stop, raw, GlobalStep)
      /\ plateau_stop' = PlateauFires(early_stop, raw, GlobalStep)
      /\ best_at_step' = IF IsImprovement(raw, early_stop.best) \/ PctImproved
                           THEN GlobalStep ELSE best_at_step
      /\ log' = Append(log, raw)
  BY DEF Record
<1> HIDE DEF raw
<1> QED BY <1>1, <1>2, <1>3, <1>4

\* A restart begins with a key, and so do the seeds.
LEMMA StartKeysNowFacts ==
  ASSUME TypeOK
  PROVE  StartKeysNow \subseteq Keys /\ ScoredAll(Range(schedule)) \subseteq Candidates
<1>1. schedule \in Seq(Keys) /\ restart \in Nat /\ Range(schedule) \subseteq Keys
  BY DEF TypeOK, Range
<1>2. StartKeysNow \subseteq Keys
  BY <1>1 DEF StartKeysNow
<1>3. ScoredAll(Range(schedule)) \subseteq Candidates
  BY <1>1, ScoreFacts DEF TypeOK, ScoredAll
<1> QED BY <1>2, <1>3

\* Every variable keeps its type.
LEMMA TypeStep ==
  ASSUME TypeOK, PlaceInv, BestInv, [Next]_vars
  PROVE  TypeOK'
<1>1. /\ UNCHANGED problem
      /\ \A k \in Keys : score[k].raw \in Scores /\ Scored(k) \in Candidates
      /\ \A k \in Keys : score'[k].raw = score[k].raw
  BY SameProblem, ScoreFacts DEF TypeOK, problem
<1>2. /\ GlobalStep \in Nat /\ GlobalStep' \in Nat /\ GlobalStep <= GlobalStep'
      /\ 0..GlobalStep \subseteq 0..GlobalStep' /\ GlobalStep \in 0..GlobalStep'
  <2>1. GlobalStep' \in {GlobalStep, GlobalStep + 1} /\ GlobalStep \in Nat
    BY Clock
  <2> QED BY <2>1
<1>3. /\ score' \in Landscapes /\ seed_keys' \in SeedChoices
      /\ test_key' \in Keys \cup {NoKey} /\ slip_policy' \in {"fixed", "stall"}
      /\ stall_stop_on_limit' \in BOOLEAN
  BY <1>1 DEF TypeOK, problem
<1>4. /\ pc' \in {"start", "restart", "block", "column", "slip", "record", "stall",
                  "test", "finish", "end", "done", "raised"}
      /\ schedule' \in Seq(Keys) /\ restart' \in 0..Restarts /\ step' \in 0..Steps
  <2>1. Steps \in Nat \ {0} /\ Restarts \in Nat \ {0} /\ restart \in 0..Restarts /\ step \in 0..Steps
        /\ SeedSchedule \in Seq(Keys) /\ schedule \in Seq(Keys)
    BY Numbers, ScheduleFacts DEF TypeOK
  <2>2. CASE BlockSwaps
    BY <2>1, <2>2 DEF BlockSwaps, PlaceInv
  <2>3. CASE Test
    BY <2>1, <2>3 DEF Test, PlaceInv, Running
  <2>4. CASE ~ BlockSwaps /\ ~ Test
    <3>1. UNCHANGED <<restart, step>> /\ schedule' \in {schedule, SeedSchedule}
      BY <2>4 DEF Next, Step, TestKeyFastPath, Start, BeginRestart, ColumnSwaps, FixedSlip,
                  Record, StallSlip, NoStallSlip, Fallback, Finish, Raise, Stopped, vars, place
    <3>2. pc' \in {"start", "restart", "block", "column", "slip", "record", "stall",
                   "test", "finish", "end", "done", "raised"}
      BY <2>4 DEF Next, Step, TestKeyFastPath, Start, BeginRestart, ColumnSwaps, FixedSlip,
                  Record, StallSlip, NoStallSlip, Fallback, Finish, Raise, Stopped, vars, TypeOK
    <3> QED BY <2>1, <3>1, <3>2
  <2> QED BY <2>2, <2>3, <2>4
<1>5. key' \in Keys \cup {NoKey} /\ batch' \subseteq Candidates
  <2>1. /\ key \in Keys \cup {NoKey} /\ batch \subseteq Candidates
        /\ \A k \in Keys : Scored(k) \in Candidates
        /\ \A S \in SUBSET Keys : ScoredAll(S) \subseteq Candidates
    BY <1>1 DEF TypeOK, ScoredAll
  <2>2. CASE BlockSwaps
    <3>1. PICK b \in Batches : key' \in Move(b) /\ batch' = ScoredAll(b)
      BY <2>2 DEF BlockSwaps
    <3>2. b \subseteq Keys /\ key' \in b \cup {key}
      BY <2>2, <3>1, MoveFacts DEF BlockSwaps, PlaceInv, Running
    <3> QED BY <2>1, <3>1, <3>2
  <2>3. CASE ColumnSwaps
    <3>1. CASE Every(ColEvery)
      <4>1. PICK b \in Batches : key' \in Move(b) /\ batch' = batch \cup ScoredAll(b)
        BY <2>3, <3>1 DEF ColumnSwaps
      <4>2. b \subseteq Keys /\ key' \in b \cup {key}
        BY <2>3, <4>1, MoveFacts DEF ColumnSwaps, PlaceInv, Running
      <4> QED BY <2>1, <4>1, <4>2
    <3> QED BY <2>1, <2>3, <3>1 DEF ColumnSwaps
  <2>4. CASE FixedSlip
    BY <2>1, <2>4 DEF FixedSlip
  <2>5. CASE BeginRestart
    BY <2>1, <2>5, StartKeysNowFacts DEF BeginRestart
  <2>6. CASE StallSlip
    BY <2>1, <2>6 DEF StallSlip
  <2>7. CASE Record
    BY <2>1, <2>7 DEF Record
  <2>8. CASE TestKeyFastPath \/ Start \/ NoStallSlip \/ Test \/ Fallback \/ Finish
             \/ Raise \/ Stopped \/ UNCHANGED vars
    BY <2>1, <2>8 DEF TestKeyFastPath, Start, NoStallSlip, Test, Fallback, Finish, Raise,
                      Stopped, vars, history
  <2> QED BY <2>2, <2>3, <2>4, <2>5, <2>6, <2>7, <2>8 DEF Next, Step
<1>6. /\ best_key' \in Keys \cup {NoKey} /\ best_pct_seen' \in Scores
      /\ last_pct_improve_at' \in {last_pct_improve_at, GlobalStep}
  <2>1. score' = score
    BY <1>1 DEF problem
  <2>2. ASSUME NEW k \in Keys, UpdateBest(k)
        PROVE  /\ best_key' \in Keys \cup {NoKey} /\ best_pct_seen' \in Scores
               /\ last_pct_improve_at' \in {last_pct_improve_at, GlobalStep}
    BY <2>1, <2>2, UpdateBestFacts
  <2>3. CASE BeginRestart \/ Record \/ StallSlip
    <3>1. \E k \in Keys : UpdateBest(k)
      BY <2>3, StartKeysNowFacts DEF BeginRestart, Record, StallSlip, PlaceInv, Running
    <3> QED BY <2>2, <3>1
  <2>4. CASE Fallback
    BY <2>4 DEF Fallback, TypeOK
  <2>5. CASE ~ (BeginRestart \/ Record \/ StallSlip \/ Fallback)
    <3>1. UNCHANGED bests
      BY <2>5 DEF Next, Step, TestKeyFastPath, Start, BlockSwaps, ColumnSwaps, FixedSlip,
                  NoStallSlip, Test, Finish, Raise, Stopped, vars
    <3> QED BY <3>1 DEF bests, TypeOK
  <2> QED BY <2>3, <2>4, <2>5
<1>7. last_pct_improve_at' \in 0..GlobalStep' /\ last_pct_improve_at \in Nat
  BY <1>2, <1>6 DEF TypeOK
<1>8. best_at_step' \in 0..GlobalStep'
  <2>1. best_at_step' \in {best_at_step, GlobalStep}
    BY RecordFacts
    DEF Next, Step, TestKeyFastPath, Start, BeginRestart, BlockSwaps, ColumnSwaps, FixedSlip,
        StallSlip, NoStallSlip, Test, Fallback, Finish, Raise, Stopped, vars, patience
  <2> QED BY <1>2, <2>1 DEF TypeOK
<1>9. early_stop' \in EarlyStops /\ plateau_stop' \in BOOLEAN
  <2>1. /\ early_stop \in EarlyStops /\ plateau_stop \in BOOLEAN
        /\ \A r \in Reasons : WithReason(early_stop, r) \in EarlyStops
        /\ ReasonOrError(early_stop) \subseteq EarlyStops
        /\ {"test_key", "stall_slip_limit", "target_score", "max_steps_reached"} \subseteq Reasons
    BY WithReasonType DEF TypeOK, Reasons
  <2>2. \A es \in EarlyStops, n \in Nat : [es EXCEPT !.at = n] \in EarlyStops
    BY DEF EarlyStops
  <2>3. CASE Record
    BY <1>2, <2>1, <2>3, RecordFacts, EarlyStopTypes
  <2>4. CASE StallSlip
    BY <1>2, <2>1, <2>2, <2>4 DEF StallSlip
  <2>5. CASE NoStallSlip
    <3>1. last_pct_improve_at \in Nat
      BY <1>7
    <3> QED BY <2>1, <2>2, <2>5, <3>1 DEF NoStallSlip
  <2>6. CASE TestKeyFastPath \/ Test \/ Fallback \/ Raise
    BY <2>1, <2>6 DEF TestKeyFastPath, Test, Fallback, Raise
  <2>7. CASE Start \/ BeginRestart \/ BlockSwaps \/ ColumnSwaps \/ FixedSlip \/ Finish
             \/ Stopped \/ UNCHANGED vars
    BY <2>1, <2>7 DEF Start, BeginRestart, BlockSwaps, ColumnSwaps, FixedSlip, Finish, Stopped,
                      vars, patience
  <2> QED BY <2>3, <2>4, <2>5, <2>6, <2>7 DEF Next, Step
<1>10. stall_slips_used' \in 0..StallSlipLimit
  <2>1. StallSlipLimit \in Nat /\ stall_slips_used \in 0..StallSlipLimit
    BY Numbers DEF TypeOK
  <2>2. \/ stall_slips_used' \in {0, stall_slips_used}
        \/ stall_slips_used < StallSlipLimit /\ stall_slips_used' = stall_slips_used + 1
    BY DEF Next, Step, TestKeyFastPath, Start, BeginRestart, BlockSwaps, ColumnSwaps, FixedSlip,
           Record, StallSlip, NoStallSlip, Test, Fallback, Finish, Raise, Stopped, vars, patience
  <2> QED BY <2>1, <2>2
<1>11. sol' \in Solutions \cup {NoSolution}
  <2>1. CASE TestKeyFastPath
    <3>1. Scored(test_key) \in Candidates /\ "test_key" \in Reasons
      BY <1>1, <2>1 DEF TestKeyFastPath, TypeOK, Reasons
    <3> QED BY <2>1, <3>1 DEF TestKeyFastPath, Solutions
  <2>2. CASE Finish
    <3>1. early_stop.reason \in Reasons /\ "all_rejected_by_hard_crib" \in Reasons
      BY DEF TypeOK, EarlyStops, Reasons
    <3>2. Scored(best_key) \in Candidates
      BY <1>1, <2>2 DEF Finish, TypeOK, BestInv
    <3> QED BY <2>2, <3>1, <3>2 DEF Finish, Solutions
  <2>3. CASE Raise
    <3>1. early_stop'.reason \in Reasons
      BY <1>9 DEF EarlyStops
    <3> QED BY <2>3, <3>1 DEF Raise, Solutions
  <2>4. CASE ~ (TestKeyFastPath \/ Finish \/ Raise)
    <3>1. sol' = sol
      BY <2>4 DEF Next, Step, Start, BeginRestart, BlockSwaps, ColumnSwaps, FixedSlip,
                  Record, StallSlip, NoStallSlip, Test, Fallback, Stopped, vars
    <3> QED BY <3>1 DEF TypeOK
  <2> QED BY <2>1, <2>2, <2>3, <2>4
<1>12. scored' \subseteq Candidates
  <2>1. scored \subseteq Candidates /\ batch \subseteq Candidates
    BY DEF TypeOK
  <2> QED BY <1>1, <2>1, StartKeysNowFacts
          DEF Next, Step, TestKeyFastPath, Start, BeginRestart, BlockSwaps, ColumnSwaps, FixedSlip,
              Record, StallSlip, NoStallSlip, Test, Fallback, Finish, Raise, Stopped, vars, history
<1>13. log' \in Seq(Scores) /\ withdrawn' \in BOOLEAN
  <2>1. log' \in Seq(Scores)
    <3>1. CASE Record
      <4>1. log' = Append(log, BestRaw') /\ BestRaw' \in Scores
        BY <3>1, RecordFacts
      <4>2. log \in Seq(Scores)
        BY DEF TypeOK
      <4> QED BY <4>1, <4>2
    <3>2. CASE ~ Record
      <4>1. log' = log
        BY <3>2
        DEF Next, Step, TestKeyFastPath, Start, BeginRestart, BlockSwaps, ColumnSwaps, FixedSlip,
            StallSlip, NoStallSlip, Test, Fallback, Finish, Raise, Stopped, vars, history
      <4> QED BY <4>1 DEF TypeOK
    <3> QED BY <3>1, <3>2
  <2>2. withdrawn' \in BOOLEAN
    BY DEF TypeOK, Next, Step, TestKeyFastPath, Start, BeginRestart, BlockSwaps, ColumnSwaps,
           FixedSlip, Record, StallSlip, NoStallSlip, Test, Fallback, Finish, Raise, Stopped,
           vars, history
  <2> QED BY <2>1, <2>2
<1> QED BY <1>2, <1>3, <1>4, <1>5, <1>6, <1>7, <1>8, <1>9, <1>10, <1>11, <1>12, <1>13 DEF TypeOK

LEMMA PlaceInit == Init => PlaceInv
<1> SUFFICES ASSUME Init PROVE PlaceInv
  OBVIOUS
<1>1. pc = "start" /\ restart = 0 /\ step = 0 /\ log = <<>> /\ sol = NoSolution
  BY DEF Init
<1>2. GlobalStep = 0 /\ Restarts \in Nat \ {0}
  BY <1>1, Numbers, GlobalSteps DEF GlobalStep
<1> QED BY <1>1, <1>2 DEF PlaceInv, InStep, Running

\* The search keeps its place.
LEMMA PlaceStep ==
  ASSUME TypeOK, PlaceInv, TypeOK', [Next]_vars
  PROVE  PlaceInv'
<1>1. /\ Steps \in Nat \ {0} /\ Restarts \in Nat \ {0} /\ restart \in Nat /\ step \in Nat
      /\ step \in 0..Steps /\ restart \in 0..Restarts
  BY Numbers DEF TypeOK
<1>2. /\ pc' \in {"start", "restart"} => step' = 0
      /\ pc' = "start" => restart' = 0
      /\ pc' \in {"start", "restart"} \cup Running => restart' < Restarts
      /\ pc' = "block" => step' < Steps
      /\ pc' \in InStep \cup {"stall", "test"} => step' > 0
  <2>1. CASE BlockSwaps
    BY <1>1, <2>1 DEF BlockSwaps, PlaceInv, Running, InStep
  <2>2. CASE Test
    BY <1>1, <2>2 DEF Test, PlaceInv, Running, InStep
  <2>3. CASE ~ BlockSwaps /\ ~ Test
    <3>1. UNCHANGED <<restart, step>>
      BY <2>3 DEF Next, Step, TestKeyFastPath, Start, BeginRestart, ColumnSwaps, FixedSlip,
                  Record, StallSlip, NoStallSlip, Fallback, Finish, Raise, Stopped, vars, place
    <3>2. <<pc, pc'>> \in {<<"start", "done">>, <<"start", "restart">>, <<"restart", "block">>,
                           <<"column", "slip">>, <<"slip", "record">>, <<"record", "stall">>,
                           <<"stall", "test">>, <<"finish", "end">>, <<"end", "done">>}
          \/ pc' = "raised" \/ pc' = pc
      BY <2>3 DEF Next, Step, TestKeyFastPath, Start, BeginRestart, ColumnSwaps, FixedSlip,
                  Record, StallSlip, NoStallSlip, Fallback, Finish, Raise, Stopped, vars
    <3> QED BY <1>1, <3>1, <3>2 DEF PlaceInv, Running, InStep
  <2> QED BY <2>1, <2>2, <2>3
<1>3. pc' \in Running => key' \in Keys
  <2>1. CASE BlockSwaps \/ ColumnSwaps
    <3>1. key \in Keys /\ (key' = key \/ \E b \in Batches : key' \in Move(b))
      BY <2>1 DEF BlockSwaps, ColumnSwaps, PlaceInv, Running
    <3>2. ASSUME NEW b \in Batches, key' \in Move(b) PROVE key' \in Keys
      <4>1. b \subseteq Keys /\ key' \in b \cup {key}
        BY <3>1, <3>2, MoveFacts
      <4> QED BY <3>1, <4>1
    <3> QED BY <3>1, <3>2
  <2>2. CASE ~ (BlockSwaps \/ ColumnSwaps)
    BY <2>2, StartKeysNowFacts
    DEF PlaceInv, Running, Next, Step, TestKeyFastPath, Start, BeginRestart, FixedSlip, Record,
        StallSlip, NoStallSlip, Test, Fallback, Finish, Raise, Stopped, vars
  <2> QED BY <2>1, <2>2
<1>4. Len(log') = IF pc' \in InStep THEN GlobalStep' - 1
                  ELSE IF pc' = "raised" THEN Len(log') ELSE GlobalStep'
  <2>1. /\ GlobalStep \in Nat /\ log \in Seq(Scores)
        /\ GlobalStep' = IF pc = "block" /\ pc' = "column" THEN GlobalStep + 1 ELSE GlobalStep
        /\ Len(log) = IF pc \in InStep THEN GlobalStep - 1
                      ELSE IF pc = "raised" THEN Len(log) ELSE GlobalStep
    BY Clock DEF PlaceInv, TypeOK
  <2>2. CASE Record
    <3>1. Len(log') = Len(log) + 1
      BY <2>1, <2>2, RecordFacts
    <3> QED BY <2>1, <2>2, <3>1 DEF Record, InStep
  <2>3. CASE ~ Record
    <3>1. /\ log' = log
          /\ \/ pc' = "raised"
             \/ pc = "block" /\ pc' = "column"
             \/ pc' = pc
             \/ pc \in {"column", "slip"} /\ pc' \in InStep
             \/ pc \notin InStep \cup {"raised"} /\ pc' \notin InStep
      BY <2>3
      DEF InStep, Next, Step, TestKeyFastPath, Start, BeginRestart, BlockSwaps, ColumnSwaps,
          FixedSlip, StallSlip, NoStallSlip, Test, Fallback, Finish, Raise, Stopped, vars, history
    <3> QED BY <2>1, <3>1 DEF InStep
  <2> QED BY <2>2, <2>3
<1>5. pc' \notin {"done", "raised"} => sol' = NoSolution
  BY DEF PlaceInv, Next, Step, TestKeyFastPath, Start, BeginRestart, BlockSwaps, ColumnSwaps,
         FixedSlip, Record, StallSlip, NoStallSlip, Test, Fallback, Finish, Raise, Stopped, vars
<1> QED BY <1>2, <1>3, <1>4, <1>5 DEF PlaceInv

-----------------------------------------------------------------------------
(* The best.                                                                  *)

\* Recording candidates with the key that beats the new ones.
LEMMA BestAdds ==
  ASSUME TypeOK, TypeOK', BestInv, score' = score, NEW k \in Keys, UpdateBest(k),
         scored \subseteq scored', Scored(k) \in scored',
         \A c \in scored' : c \in scored \/ ScoreOf(c) <= score[k].raw
  PROVE  /\ \A c \in scored' : ScoreOf(c) <= BestRaw'
         /\ best_key' # NoKey => Scored(best_key)' \in scored'
<1>1. /\ BestRaw \in Int /\ score[k].raw \in Int
      /\ \A c \in scored' : ScoreOf(c) \in Int
  <2>1. \A c \in scored' : c \in Candidates
    BY DEF TypeOK
  <2>2. BestRaw \in Int /\ score[k].raw \in Int
    BY BestFacts, ScoreFacts DEF TypeOK
  <2> QED BY <2>1, <2>2, CandidateParts, ScoreRange
<1>2. /\ \/ best_key' = best_key
         \/ best_key' = k
      /\ BestRaw' \in Int /\ BestRaw <= BestRaw' /\ score[k].raw <= BestRaw'
  BY UpdateBestFacts
<1>3. \A c \in scored' : ScoreOf(c) <= BestRaw'
  <2> SUFFICES ASSUME NEW c \in scored' PROVE ScoreOf(c) <= BestRaw'
    OBVIOUS
  <2>1. ScoreOf(c) <= BestRaw \/ ScoreOf(c) <= score[k].raw
    BY DEF BestInv
  <2> QED BY <1>1, <1>2, <2>1
<1>4. best_key' # NoKey => Scored(best_key)' \in scored'
  BY <1>2 DEF BestInv, Scored
<1> QED BY <1>3, <1>4

LEMMA BestInit == Init => BestInv
BY DEF Init, BestInv, Running, InStep

\* The best stays the best of what is recorded.
LEMMA BestStep ==
  ASSUME TypeOK, TypeOK', PlaceInv, BestInv, [Next]_vars
  PROVE  BestInv'
<1>1. /\ score' = score /\ schedule \in Seq(Keys)
      /\ \A k \in Keys : ScoreOf(Scored(k)) = score[k].raw /\ score[k].raw \in Int
      /\ \A c \in scored \cup batch : ScoreOf(c) \in Int
  <2>1. scored \cup batch \subseteq Candidates
    BY DEF TypeOK
  <2> QED BY <2>1, SameProblem, ScoreFacts, CandidateParts, ScoreRange DEF TypeOK, problem
<1>2. CASE TestKeyFastPath
  BY <1>1, <1>2 DEF TestKeyFastPath, BestInv, Running, InStep, bests, history, BestRaw, Scored
<1>3. CASE Start
  <2>1. /\ pc = "start" /\ pc' = "restart" /\ restart = 0 /\ restart' = 0 /\ schedule' = SeedSchedule
        /\ scored = {} /\ scored' = {} /\ batch' = {} /\ best_key' = best_key
    BY <1>3 DEF Start, BestInv, PlaceInv, bests, history
  <2>2. \A i \in DOMAIN schedule' : score'[schedule'[i]].raw <= score'[schedule'[1]].raw
    BY <1>1, <2>1, ScheduleFacts
  <2>3. best_key = NoKey
    BY <2>1 DEF BestInv
  <2> QED BY <2>1, <2>2, <2>3 DEF BestInv, Running, InStep
<1>4. CASE BeginRestart
  <2>1. PICK k \in StartKeysNow :
               /\ key' = k /\ UpdateBest(k)
               /\ scored' = scored \cup {Scored(k)} \cup ScoredAll(Range(schedule))
    BY <1>4 DEF BeginRestart
  <2>2. k \in Keys /\ pc = "restart" /\ pc' = "block" /\ schedule' = schedule /\ batch' = {}
    BY <1>4, <2>1, StartKeysNowFacts DEF BeginRestart, BestInv, place
  <2>3. ASSUME NEW c \in scored' PROVE c \in scored \/ ScoreOf(c) <= score[k].raw
    <3>1. CASE c = Scored(k)
      BY <1>1, <2>2, <3>1
    <3>2. CASE c \in ScoredAll(Range(schedule)) /\ restart = 0
      <4>1. PICK i \in DOMAIN schedule : c = Scored(schedule[i])
        BY <3>2 DEF ScoredAll, Range
      <4>2. k = schedule[1] /\ schedule[i] \in Keys
        BY <1>1, <2>1, <3>2, <4>1 DEF StartKeysNow
      <4>3. score[schedule[i]].raw <= score[schedule[1]].raw
        BY <2>2, <3>2, <4>1 DEF BestInv
      <4> QED BY <1>1, <4>1, <4>2, <4>3
    <3>3. CASE c \in ScoredAll(Range(schedule)) /\ restart # 0
      BY <2>2, <3>3 DEF BestInv, TypeOK
    <3> QED BY <2>1, <3>1, <3>2, <3>3
  <2>4. /\ \A c \in scored' : ScoreOf(c) <= BestRaw'
        /\ best_key' # NoKey => Scored(best_key)' \in scored'
    <3>1. scored \subseteq scored' /\ Scored(k) \in scored'
      BY <2>1
    <3> QED BY <1>1, <2>1, <2>2, <2>3, <3>1, BestAdds
  <2>5. Scored(key)' \in scored' /\ ScoredAll(Range(schedule))' \subseteq scored'
    BY <1>1, <2>1, <2>2 DEF Scored, ScoredAll
  <2> QED BY <2>2, <2>4, <2>5 DEF BestInv, Running, InStep
<1>5. ASSUME UNCHANGED <<best_key, scored>>
      PROVE  /\ \A c \in scored' : ScoreOf(c) <= BestRaw'
             /\ best_key' # NoKey => Scored(best_key)' \in scored'
  BY <1>1, <1>5 DEF BestInv, BestRaw, Scored
<1>6. CASE BlockSwaps
  <2>1. PICK b \in Batches : key' \in Move(b) /\ batch' = ScoredAll(b)
    BY <1>6 DEF BlockSwaps
  <2>2. /\ pc = "block" /\ pc' = "column" /\ key \in Keys /\ batch = {}
        /\ UNCHANGED <<best_key, scored, schedule>>
    BY <1>6 DEF BlockSwaps, PlaceInv, BestInv, Running, bests
  <2>3. /\ b \subseteq Keys /\ key' \in b \cup {key}
        /\ \A j \in b : score[j].raw <= score[key'].raw
    BY <2>1, <2>2, MoveFacts
  <2>4. Scored(key)' \in scored' \cup batch'
    BY <1>1, <2>1, <2>2, <2>3 DEF BestInv, Running, Scored, ScoredAll
  <2>5. \A c \in batch' : ScoreOf(c) <= score'[key'].raw
    BY <1>1, <2>1, <2>3 DEF ScoredAll
  <2>6. ScoredAll(Range(schedule))' \subseteq scored'
    BY <1>1, <2>2 DEF BestInv, Running, ScoredAll, Scored
  <2> QED BY <1>5, <2>2, <2>4, <2>5, <2>6 DEF BestInv, Running, InStep
<1>7. CASE ColumnSwaps
  <2>1. /\ pc = "column" /\ pc' = "slip" /\ key \in Keys
        /\ UNCHANGED <<best_key, scored, schedule>>
        /\ \A c \in batch : ScoreOf(c) <= score[key].raw
        /\ Scored(key) \in scored \cup batch
    BY <1>7 DEF ColumnSwaps, PlaceInv, BestInv, Running, InStep, bests, place
  <2>2. Scored(key)' \in scored' \cup batch' /\ \A c \in batch' : ScoreOf(c) <= score'[key'].raw
    <3>1. CASE UNCHANGED <<key, batch>>
      BY <1>1, <2>1, <3>1 DEF Scored
    <3>2. CASE \E b \in Batches : key' \in Move(b) /\ batch' = batch \cup ScoredAll(b)
      <4>1. PICK b \in Batches : key' \in Move(b) /\ batch' = batch \cup ScoredAll(b)
        BY <3>2
      <4>2. /\ b \subseteq Keys /\ key' \in b \cup {key} /\ score[key].raw <= score[key'].raw
            /\ \A j \in b : score[j].raw <= score[key'].raw
        BY <2>1, <4>1, MoveFacts
      <4>3. Scored(key)' \in scored' \cup batch'
        BY <1>1, <2>1, <4>1, <4>2 DEF Scored, ScoredAll
      <4>4. ASSUME NEW c \in batch' PROVE ScoreOf(c) <= score'[key'].raw
        <5>1. CASE c \in ScoredAll(b)
          BY <1>1, <4>2, <5>1 DEF ScoredAll
        <5>2. CASE c \in batch
          <6>1. ScoreOf(c) \in Int /\ score[key].raw \in Int /\ score[key'].raw \in Int
            BY <1>1, <2>1, <4>2, <5>2
          <6> QED BY <1>1, <2>1, <4>2, <5>2, <6>1
        <5> QED BY <4>1, <5>1, <5>2
      <4> QED BY <4>3, <4>4
    <3> QED BY <1>7, <3>1, <3>2 DEF ColumnSwaps
  <2>3. ScoredAll(Range(schedule))' \subseteq scored'
    BY <1>1, <2>1 DEF BestInv, Running, ScoredAll, Scored
  <2> QED BY <1>5, <2>1, <2>2, <2>3 DEF BestInv, Running, InStep
<1>8. CASE FixedSlip
  <2>1. /\ pc = "slip" /\ pc' = "record" /\ key \in Keys
        /\ UNCHANGED <<best_key, scored, schedule>>
        /\ \A c \in batch : ScoreOf(c) <= score[key].raw
        /\ Scored(key) \in scored \cup batch
    BY <1>8 DEF FixedSlip, PlaceInv, BestInv, Running, InStep, bests, place
  <2>2. Scored(key)' \in scored' \cup batch' /\ \A c \in batch' : ScoreOf(c) <= score'[key'].raw
    <3>1. CASE UNCHANGED <<key, batch>>
      BY <1>1, <2>1, <3>1 DEF Scored
    <3>2. CASE \E k \in Keys : key' = k /\ batch' = {Scored(k)}
      BY <1>1, <2>1, <3>2 DEF Scored
    <3> QED BY <1>8, <3>1, <3>2 DEF FixedSlip
  <2>3. ScoredAll(Range(schedule))' \subseteq scored'
    BY <1>1, <2>1 DEF BestInv, Running, ScoredAll, Scored
  <2> QED BY <1>5, <2>1, <2>2, <2>3 DEF BestInv, Running, InStep
<1>9. CASE Record
  <2>1. /\ pc = "record" /\ pc' = "stall" /\ key \in Keys /\ key' = key /\ UpdateBest(key)
        /\ scored' = scored \cup batch /\ batch' = {} /\ schedule' = schedule
        /\ \A c \in batch : ScoreOf(c) <= score[key].raw
        /\ Scored(key) \in scored \cup batch
    BY <1>9 DEF Record, PlaceInv, BestInv, Running, InStep, place
  <2>2. /\ \A c \in scored' : ScoreOf(c) <= BestRaw'
        /\ best_key' # NoKey => Scored(best_key)' \in scored'
    BY <1>1, <2>1, BestAdds
  <2>3. Scored(key)' \in scored' /\ ScoredAll(Range(schedule))' \subseteq scored'
    BY <1>1, <2>1 DEF BestInv, Running, ScoredAll, Scored
  <2> QED BY <2>1, <2>2, <2>3 DEF BestInv, Running, InStep
<1>10. CASE StallSlip
  <2>1. PICK k \in Keys : key' = k /\ UpdateBest(k) /\ scored' = scored \cup {Scored(k)}
    BY <1>10 DEF StallSlip
  <2>2. pc = "stall" /\ pc' = "test" /\ batch' = {} /\ schedule' = schedule
    BY <1>10 DEF StallSlip, BestInv, place
  <2>3. /\ \A c \in scored' : ScoreOf(c) <= BestRaw'
        /\ best_key' # NoKey => Scored(best_key)' \in scored'
    <3>1. \A c \in scored' : c \in scored \/ ScoreOf(c) <= score[k].raw
      BY <1>1, <2>1
    <3> QED BY <1>1, <2>1, <3>1, BestAdds
  <2>4. Scored(key)' \in scored' /\ ScoredAll(Range(schedule))' \subseteq scored'
    BY <1>1, <2>1, <2>2 DEF BestInv, Running, ScoredAll, Scored
  <2> QED BY <2>2, <2>3, <2>4 DEF BestInv, Running, InStep
<1>11. CASE NoStallSlip \/ Test
  <2>1. /\ pc \in {"stall", "test"} /\ pc' \in {"test", "finish", "block", "restart"}
        /\ UNCHANGED <<key, best_key, scored, batch, schedule>> /\ batch = {}
        /\ pc' = "restart" => restart' = restart + 1
        /\ Scored(key) \in scored /\ ScoredAll(Range(schedule)) \subseteq scored
    BY <1>11 DEF NoStallSlip, Test, bests, place, BestInv, Running
  <2>2. Scored(key)' \in scored' /\ ScoredAll(Range(schedule))' \subseteq scored'
    BY <1>1, <2>1 DEF ScoredAll, Scored
  <2>3. restart \in Nat
    BY DEF TypeOK
  <2> QED BY <1>5, <2>1, <2>2, <2>3 DEF BestInv, Running, InStep
<1>12. CASE Fallback
  <2>1. pc' = "end" /\ best_key \in Keys \cup {NoKey} /\ \A k \in Keys : k # NoKey
    BY <1>12, KeyAssumption DEF Fallback, TypeOK
  <2>2. CASE best_key = NoKey
    <3>1. PICK k \in Keys : best_key' = k /\ scored' = scored \cup {Scored(k)}
      BY <1>12, <2>2 DEF Fallback
    <3>2. /\ BestRaw' = score[k].raw /\ Scored(best_key)' = Scored(k)
          /\ BestRaw = NegInf /\ NegInf \in Int /\ NegInf <= score[k].raw
      BY <1>1, <2>1, <2>2, <3>1, ScoreFacts DEF BestRaw, Scored, TypeOK
    <3>3. ASSUME NEW c \in scored' PROVE ScoreOf(c) <= BestRaw'
      BY <1>1, <3>1, <3>2 DEF BestInv
    <3> QED BY <2>1, <3>1, <3>2, <3>3 DEF BestInv, Running, InStep
  <2>3. CASE best_key # NoKey
    BY <1>5, <1>12, <2>1, <2>3 DEF Fallback, BestInv, Running, InStep
  <2> QED BY <2>2, <2>3
<1>13. CASE Finish \/ Raise
  BY <1>5, <1>13 DEF Finish, Raise, bests, history, BestInv, Running, InStep
<1>14. CASE Stopped \/ UNCHANGED vars
  BY <1>5, <1>14 DEF Stopped, vars, bests, history, place, problem, BestInv, Running, InStep,
                     ScoredAll, Scored, BestRaw
<1> QED BY <1>2, <1>3, <1>4, <1>6, <1>7, <1>8, <1>9, <1>10, <1>11, <1>12, <1>13, <1>14
        DEF Next, Step

-----------------------------------------------------------------------------
(* The record.                                                                *)

\* Between two recorded steps the log and the record's score stay, and the best raw
\* score never falls.
LEMMA QuietSteps ==
  ASSUME TypeOK, PlaceInv, TypeOK', BestInv, [Next]_vars, ~ Record
  PROVE  log' = log /\ early_stop'.best = early_stop.best /\ BestRaw <= BestRaw'
<1>1. log' = log
  BY DEF Next, Step, TestKeyFastPath, Start, BeginRestart, BlockSwaps, ColumnSwaps, FixedSlip,
         StallSlip, NoStallSlip, Test, Fallback, Finish, Raise, Stopped, vars, history
<1>2. early_stop'.best = early_stop.best
  BY DEF Next, Step, TestKeyFastPath, Start, BeginRestart, BlockSwaps, ColumnSwaps, FixedSlip,
         StallSlip, NoStallSlip, Test, Fallback, Finish, Raise, Stopped, vars, patience,
         TypeOK, EarlyStops, WithReason, ReasonOrError
<1>3. BestRaw <= BestRaw'
  <2>1. score' = score /\ BestRaw \in Int
    BY SameProblem, BestFacts DEF problem
  <2>2. CASE BeginRestart \/ StallSlip
    <3>1. PICK k \in Keys : UpdateBest(k)
      BY <2>2, StartKeysNowFacts DEF BeginRestart, StallSlip
    <3> QED BY <2>1, <3>1, UpdateBestFacts
  <2>3. CASE Fallback /\ best_key = NoKey
    <3>1. PICK k \in Keys : best_key' = k
      BY <2>3 DEF Fallback
    <3>2. BestRaw' = score[k].raw /\ BestRaw = NegInf /\ NegInf <= score[k].raw
      BY <2>1, <2>3, <3>1, KeyAssumption, ScoreFacts DEF BestRaw, TypeOK
    <3> QED BY <3>2
  <2>4. CASE ~ (BeginRestart \/ StallSlip) /\ ~ (Fallback /\ best_key = NoKey)
    <3>1. best_key' = best_key
      BY <2>4 DEF Next, Step, TestKeyFastPath, Start, BlockSwaps, ColumnSwaps, FixedSlip,
                  NoStallSlip, Test, Fallback, Finish, Raise, Stopped, vars, bests
    <3>2. BestRaw' = BestRaw
      BY <2>1, <3>1 DEF BestRaw
    <3> QED BY <2>1, <3>2
  <2> QED BY <2>2, <2>3, <2>4
<1> QED BY <1>1, <1>2, <1>3

\* What recording a step does to the record and the log.
LEMMA RecordKeeps ==
  ASSUME TypeOK, PlaceInv, TypeOK', CreepInv, Record
  PROVE  /\ pc = "record" /\ pc' = "stall" /\ GlobalStep' = GlobalStep
         /\ GlobalStep \in Nat /\ GlobalStep > 0 /\ Len(log) = GlobalStep - 1
         /\ log' = Append(log, BestRaw') /\ Len(log') = GlobalStep
         /\ log'[GlobalStep] = BestRaw' /\ \A i \in 1..Len(log) : log'[i] = log[i]
         /\ BestRaw' \in Scores /\ BestRaw' \in Int
         /\ early_stop.best <= BestRaw' /\ early_stop'.best <= BestRaw'
         /\ BestRaw' <= PlusDelta(early_stop'.best)
         /\ early_stop'.at <= GlobalStep
         /\ \/ early_stop'.at = GlobalStep /\ early_stop'.best = BestRaw'
            \/ /\ early_stop'.at = early_stop.at /\ early_stop'.best = early_stop.best
               /\ best_at_step' = best_at_step \/ (PctImproved /\ best_at_step' = GlobalStep)
         /\ (plateau_stop' <=> PatienceExhausted(early_stop', GlobalStep))
         /\ early_stop'.reason = IF plateau_stop' THEN "no_improve" ELSE early_stop.reason
<1>1. pc = "record" /\ pc' = "stall" /\ [Next]_vars
  BY DEF Record, Next, Step
<1>2. GlobalStep' = GlobalStep /\ GlobalStep \in Nat
  BY <1>1, Clock
<1>3. Len(log) = GlobalStep - 1 /\ log \in Seq(Scores)
  BY <1>1 DEF PlaceInv, TypeOK, InStep
<1>4. GlobalStep > 0
  <2>1. Len(log) \in Nat
    BY <1>3
  <2> QED BY <1>2, <1>3, <2>1
<1>5. /\ early_stop' = EarlyStopUpdate(early_stop, BestRaw', GlobalStep)
      /\ plateau_stop' = PlateauFires(early_stop, BestRaw', GlobalStep)
      /\ log' = Append(log, BestRaw') /\ BestRaw' \in Scores /\ BestRaw' \in Int
      /\ best_at_step' = IF IsImprovement(BestRaw', early_stop.best) \/ PctImproved
                           THEN GlobalStep ELSE best_at_step
      /\ BestRaw <= BestRaw' /\ BestRaw \in Int
  BY RecordFacts, UpdateBestFacts, BestFacts
<1> DEFINE new == BestRaw'
           es == early_stop'
<1>6. /\ Len(log') = GlobalStep /\ log'[GlobalStep] = new
      /\ \A i \in 1..Len(log) : log'[i] = log[i]
  BY <1>2, <1>3, <1>4, <1>5
<1>7. early_stop.best <= new /\ early_stop \in EarlyStops /\ early_stop.best \in Int
  <2>1. early_stop \in EarlyStops /\ early_stop.best \in Int
    BY EarlyStopNumbers DEF TypeOK
  <2>2. CASE log = <<>>
    BY <1>5, <2>1, <2>2, ScoreRange DEF CreepInv
  <2>3. CASE log # <<>>
    <3>1. Len(log) \in 1..Len(log)
      BY <1>3, <2>3
    <3>2. log[Len(log)] \in Int
      BY <1>3, <3>1, ScoreRange
    <3> QED BY <1>5, <2>1, <2>3, <3>2 DEF CreepInv
  <2> QED BY <2>1, <2>2, <2>3
<1>8. /\ early_stop.at <= GlobalStep /\ new \in Scores
      /\ es = EarlyStopUpdate(early_stop, new, GlobalStep)
  BY <1>5 DEF CreepInv
<1> HIDE DEF new, es
<1>9. /\ es.at <= GlobalStep /\ es.best <= new /\ new <= PlusDelta(es.best)
      /\ (PlateauFires(early_stop, new, GlobalStep) <=> PatienceExhausted(es, GlobalStep))
      /\ \/ es.at = GlobalStep /\ es.best = new /\ new > PlusDelta(early_stop.best)
         \/ es.at = early_stop.at /\ es.best = early_stop.best
      /\ es.reason = IF PlateauFires(early_stop, new, GlobalStep)
                       THEN "no_improve" ELSE early_stop.reason
  BY <1>2, <1>7, <1>8, UpdateFacts
<1>10. \/ es.at = GlobalStep /\ es.best = new
       \/ /\ es.at = early_stop.at /\ es.best = early_stop.best
          /\ best_at_step' = best_at_step \/ (PctImproved /\ best_at_step' = GlobalStep)
  <2>1. CASE IsImprovement(new, early_stop.best)
    BY <1>8, <2>1, <1>7 DEF EarlyStopUpdate, EarlyStops
  <2>2. CASE ~ IsImprovement(new, early_stop.best)
    BY <1>5, <1>7, <1>8, <2>2 DEF new, EarlyStopUpdate, EarlyStops
  <2> QED BY <2>1, <2>2
<1> USE DEF new, es
<1> QED BY <1>1, <1>2, <1>3, <1>4, <1>5, <1>6, <1>7, <1>9, <1>10

LEMMA CreepInit == Init => CreepInv
<1> SUFFICES ASSUME Init PROVE CreepInv
  OBVIOUS
<1>1. restart = 0 /\ step = 0 /\ log = <<>> /\ pc = "start" /\ early_stop = EarlyStopReset(NegInf)
  BY DEF Init
<1>2. GlobalStep = 0
  BY <1>1, Numbers, GlobalSteps DEF GlobalStep
<1> QED BY <1>1, <1>2 DEF CreepInv, EarlyStopReset

\* The last score of the log, when there is one.
LEMMA LastScore ==
  ASSUME NEW lg \in Seq(Scores), lg # <<>>
  PROVE  Len(lg) \in 1..Len(lg) /\ lg[Len(lg)] \in Int /\ lg[Len(lg)] \in Scores
<1>1. Len(lg) \in 1..Len(lg)
  OBVIOUS
<1>2. lg[Len(lg)] \in Scores
  BY <1>1
<1> QED BY <1>1, <1>2, ScoreRange

\* The best raw score keeps close to the record.
LEMMA CreepStep ==
  ASSUME TypeOK, PlaceInv, TypeOK', BestInv, CreepInv, [Next]_vars
  PROVE  CreepInv'
<1>1. CASE Record
  <2>1. log' # <<>>
    BY <1>1, RecordKeeps
  <2> QED BY <1>1, <2>1, RecordKeeps DEF CreepInv
<1>2. CASE ~ Record
  <2>1. log' = log /\ early_stop'.best = early_stop.best /\ BestRaw <= BestRaw'
    BY <1>2, QuietSteps
  <2>2. /\ GlobalStep \in Nat /\ GlobalStep <= GlobalStep'
        /\ early_stop.at \in Nat /\ last_pct_improve_at \in 0..GlobalStep /\ GlobalStep' \in Nat
    <3>1. GlobalStep \in Nat /\ GlobalStep' \in {GlobalStep, GlobalStep + 1}
      BY Clock
    <3> QED BY <3>1, EarlyStopNumbers DEF TypeOK
  <2>3. early_stop'.at \in {early_stop.at, GlobalStep, last_pct_improve_at}
    BY <1>2
    DEF Next, Step, TestKeyFastPath, Start, BeginRestart, BlockSwaps, ColumnSwaps, FixedSlip,
        StallSlip, NoStallSlip, Test, Fallback, Finish, Raise, Stopped, vars, patience,
        TypeOK, EarlyStops, WithReason, ReasonOrError
  <2>4. early_stop'.at <= GlobalStep'
    BY <2>2, <2>3 DEF CreepInv
  <2>5. log # <<>> => log[Len(log)] <= BestRaw'
    <3> SUFFICES ASSUME log # <<>> PROVE log[Len(log)] <= BestRaw'
      OBVIOUS
    <3>1. log[Len(log)] \in Int
      BY LastScore DEF TypeOK
    <3>2. log[Len(log)] <= BestRaw /\ BestRaw \in Int /\ BestRaw' \in Int
      BY BestFacts, BestIsNumberNext DEF CreepInv, BestIsNumber
    <3> QED BY <2>1, <3>1, <3>2
  <2>6. pc' = "stall" => pc = "stall" /\ UNCHANGED vars
    BY <1>2
    DEF Next, Step, TestKeyFastPath, Start, BeginRestart, BlockSwaps, ColumnSwaps, FixedSlip,
        StallSlip, NoStallSlip, Test, Fallback, Finish, Raise, Stopped, vars
  <2>7. pc' = "stall" => log'[GlobalStep'] = BestRaw'
    <3> SUFFICES ASSUME pc' = "stall" PROVE log'[GlobalStep'] = BestRaw'
      OBVIOUS
    <3>1. pc = "stall" /\ UNCHANGED <<score, best_key, restart, step>>
      BY <2>6 DEF vars, problem, bests, place
    <3>2. BestRaw' = BestRaw /\ GlobalStep' = GlobalStep
      BY <3>1, Zenon DEF BestRaw, GlobalStep
    <3> QED BY <2>1, <3>1, <3>2 DEF CreepInv
  <2> QED BY <2>1, <2>4, <2>5, <2>7 DEF CreepInv
<1> QED BY <1>1, <1>2

\* Away from the middle of a step, the record's score is below that of the last step.
LEMMA SinceNow ==
  ASSUME TypeOK, PlaceInv, CreepInv, pc \notin InStep \cup {"raised"}
  PROVE  Since(GlobalStep)
<1>1. Len(log) = GlobalStep /\ log \in Seq(Scores)
  BY DEF PlaceInv, TypeOK
<1>2. GlobalStep = 0 => early_stop.best = NegInf
  BY <1>1 DEF CreepInv
<1>3. ASSUME NEW i \in 1..Len(log), i >= GlobalStep PROVE early_stop.best <= log[i]
  <2>1. i = Len(log) /\ log # <<>>
    BY <1>1, <1>3
  <2> QED BY <2>1 DEF CreepInv
<1> QED BY <1>2, <1>3 DEF Since

LEMMA AgeInit == Init => AgeInv
<1> SUFFICES ASSUME Init PROVE Since(early_stop.at)
  BY DEF AgeInv
<1>1. log = <<>> /\ early_stop.best = NegInf
  BY DEF Init, EarlyStopReset
<1> QED BY <1>1 DEF Since

\* What the plateau counts from stays where the record's score was there.
LEMMA AgeStep ==
  ASSUME TypeOK, PlaceInv, TypeOK', BestInv, CreepInv, AgeInv, ReasonInv, [Next]_vars
  PROVE  AgeInv'
<1>1. /\ GlobalStep \in Nat /\ GlobalStep' \in Nat /\ GlobalStep <= GlobalStep'
      /\ early_stop.at \in Nat /\ last_pct_improve_at \in 0..GlobalStep
      /\ best_at_step \in 0..GlobalStep /\ StallRounds \in Nat /\ log \in Seq(Scores)
      /\ UNCHANGED <<slip_policy, stall_stop_on_limit>>
  <2>1. GlobalStep \in Nat /\ GlobalStep' \in {GlobalStep, GlobalStep + 1}
    BY Clock
  <2> QED BY <2>1, EarlyStopNumbers, Numbers, SameProblem DEF TypeOK, problem
<1>2. CASE Record
  <2>1. /\ GlobalStep' = GlobalStep /\ GlobalStep > 0 /\ Len(log) = GlobalStep - 1
        /\ Len(log') = GlobalStep
        /\ log'[GlobalStep] = BestRaw' /\ \A i \in 1..Len(log) : log'[i] = log[i]
        /\ BestRaw' \in Int /\ early_stop.best <= BestRaw' /\ early_stop'.best <= BestRaw'
        /\ \/ early_stop'.at = GlobalStep /\ early_stop'.best = BestRaw'
           \/ /\ early_stop'.at = early_stop.at /\ early_stop'.best = early_stop.best
              /\ best_at_step' = best_at_step \/ (PctImproved /\ best_at_step' = GlobalStep)
    BY <1>2, RecordKeeps
  <2>2. Since(GlobalStep)'
    <3> SUFFICES ASSUME NEW i \in 1..Len(log'), i >= GlobalStep'
                 PROVE  early_stop'.best <= log'[i]
      BY <1>1, <2>1 DEF Since
    <3>1. i = GlobalStep
      BY <1>1, <2>1
    <3> QED BY <2>1, <3>1
  <2>3. ASSUME NEW t \in Nat, Since(t), early_stop'.best = early_stop.best
        PROVE  /\ t = 0 => early_stop'.best = NegInf
               /\ \A i \in 1..Len(log') : i >= t => early_stop'.best <= log'[i]
    <3> SUFFICES ASSUME NEW i \in 1..Len(log'), i >= t PROVE early_stop'.best <= log'[i]
      BY <2>3 DEF Since
    <3>1. CASE i = GlobalStep
      BY <2>1, <3>1
    <3>2. CASE i # GlobalStep
      <4>1. i \in 1..Len(log)
        BY <1>1, <2>1, <3>2
      <4> QED BY <2>1, <2>3, <4>1 DEF Since
    <3> QED BY <3>1, <3>2
  <2>4. CASE early_stop'.at = GlobalStep
    BY <2>1, <2>2, <2>4 DEF AgeInv, Since
  <2>5. CASE /\ early_stop'.at = early_stop.at /\ early_stop'.best = early_stop.best
             /\ best_at_step' = best_at_step \/ (PctImproved /\ best_at_step' = GlobalStep)
    <3>1. CASE Since(early_stop.at)
      BY <1>1, <2>3, <2>5, <3>1 DEF AgeInv, Since
    <3>2. CASE PctDelta > 0 /\ PctImproved
      <4>1. last_pct_improve_at' = GlobalStep
        BY <1>2, RecordFacts, UpdateBestFacts, <3>2
      <4> QED BY <2>1, <2>2, <3>2, <4>1 DEF AgeInv, Since
    <3>3. CASE PctDelta > 0 /\ Since(last_pct_improve_at) /\ ~ PctImproved
      <4>1. last_pct_improve_at' = last_pct_improve_at
        BY <1>2, RecordFacts, UpdateBestFacts, <3>3
      <4>2. last_pct_improve_at \in Nat
        BY <1>1
      <4> QED BY <2>3, <2>5, <3>3, <4>1, <4>2 DEF AgeInv, Since
    <3>4. CASE /\ PctDelta > 0 /\ slip_policy = "stall" /\ StallRounds > 0 /\ stall_stop_on_limit
               /\ GlobalStep - best_at_step >= StallRounds /\ ~ PctImproved
      BY <1>1, <2>1, <2>5, <3>4 DEF AgeInv
    <3> QED BY <3>1, <3>2, <3>3, <3>4 DEF AgeInv
  <2> QED BY <2>1, <2>4, <2>5
<1>3. CASE ~ Record
  <2>1. log' = log /\ early_stop'.best = early_stop.best
    BY <1>3, QuietSteps
  <2>2. ASSUME NEW t \in Nat, Since(t)
        PROVE  /\ t = 0 => early_stop'.best = NegInf
               /\ \A i \in 1..Len(log') : i >= t => early_stop'.best <= log'[i]
    BY <2>1, <2>2 DEF Since
  <2>3. Since(GlobalStep) \/ pc \in InStep \cup {"raised"}
    BY SinceNow
  <2>4. CASE StallSlip
    <3>1. early_stop'.at = GlobalStep /\ Since(GlobalStep)
      BY <2>3, <2>4 DEF StallSlip, InStep, TypeOK, EarlyStops
    <3> QED BY <1>1, <2>2, <3>1 DEF AgeInv, Since
  <2>5. CASE BeginRestart
    <3>1. PICK k \in Keys : UpdateBest(k)
      BY <2>5, StartKeysNowFacts DEF BeginRestart
    <3>2. score' = score
      BY <2>5 DEF BeginRestart, problem
    <3>3. /\ early_stop' = early_stop /\ GlobalStep' = GlobalStep /\ Since(GlobalStep)
          /\ best_at_step' = IF PctImproved THEN GlobalStep ELSE best_at_step
      BY <2>3, <2>5, Clock DEF BeginRestart, InStep
    <3>4. last_pct_improve_at' = IF PctImproved THEN GlobalStep ELSE last_pct_improve_at
      BY <3>1, <3>2, UpdateBestFacts
    <3>5. CASE Since(early_stop.at)
      BY <1>1, <2>2, <3>3, <3>5 DEF AgeInv, Since
    <3>6. CASE PctDelta > 0 /\ PctImproved
      BY <1>1, <2>2, <3>3, <3>4, <3>6 DEF AgeInv, Since
    <3>7. CASE PctDelta > 0 /\ Since(last_pct_improve_at) /\ ~ PctImproved
      BY <1>1, <2>2, <3>4, <3>7 DEF AgeInv, Since
    <3>8. CASE /\ slip_policy = "stall" /\ StallRounds > 0 /\ stall_stop_on_limit
               /\ PctDelta > 0 /\ GlobalStep - best_at_step >= StallRounds /\ ~ PctImproved
      BY <1>1, <3>3, <3>8 DEF AgeInv
    <3> QED BY <3>5, <3>6, <3>7, <3>8 DEF AgeInv
  <2>6. CASE NoStallSlip
    <3>1. /\ UNCHANGED <<best_at_step, last_pct_improve_at>> /\ GlobalStep' = GlobalStep
      BY <2>6, Clock DEF NoStallSlip, bests
    <3> DEFINE limit == Stalls /\ stall_stop_on_limit
               stop == plateau_stop \/ limit
    <3>2. early_stop'.at = IF Vetoed(stop) THEN last_pct_improve_at ELSE early_stop.at
      BY <2>6 DEF NoStallSlip, WithReason, TypeOK, EarlyStops
    <3>3. CASE ~ Vetoed(stop)
      <4>1. early_stop'.at = early_stop.at
        BY <3>2, <3>3
      <4>2. CASE Since(early_stop.at)
        BY <1>1, <2>2, <4>1, <4>2 DEF AgeInv, Since
      <4>3. CASE PctDelta > 0 /\ Since(last_pct_improve_at)
        BY <1>1, <2>2, <3>1, <4>3 DEF AgeInv, Since
      <4> QED BY <1>1, <3>1, <4>2, <4>3 DEF AgeInv
    <3>4. CASE Vetoed(stop)
      <4>1. /\ early_stop'.at = last_pct_improve_at /\ PctDelta > 0
            /\ GlobalStep - last_pct_improve_at < PlateauRounds /\ stop
        BY <3>2, <3>4 DEF Vetoed
      <4>2. CASE limit
        BY <1>1, <3>1, <4>1, <4>2 DEF AgeInv, Stalls
      <4>3. CASE ~ limit
        <5>1. plateau_stop /\ PatienceExhausted(early_stop, GlobalStep)
          BY <2>6, <4>1, <4>3 DEF ReasonInv, NoStallSlip
        <5>2. early_stop.at < last_pct_improve_at /\ last_pct_improve_at \in Nat
          BY <1>1, <4>1, <5>1, PlateauAssumption DEF PatienceExhausted
        <5>3. CASE Since(last_pct_improve_at)
          BY <1>1, <2>2, <4>1, <5>2, <5>3 DEF AgeInv, Since
        <5>4. CASE Since(early_stop.at)
          <6>1. Since(last_pct_improve_at)
            BY <1>1, <5>2, <5>4 DEF Since
          <6> QED BY <5>3, <6>1
        <5> QED BY <1>1, <3>1, <5>3, <5>4 DEF AgeInv
      <4> QED BY <4>2, <4>3
    <3> QED BY <3>3, <3>4
  <2>7. CASE ~ (StallSlip \/ BeginRestart \/ NoStallSlip)
    <3>1. UNCHANGED <<best_at_step, last_pct_improve_at>> /\ early_stop'.at = early_stop.at
      BY <1>3, <2>7
      DEF Next, Step, TestKeyFastPath, Start, BlockSwaps, ColumnSwaps, FixedSlip,
          Test, Fallback, Finish, Raise, Stopped, vars, bests, patience,
          TypeOK, EarlyStops, WithReason, ReasonOrError
    <3>2. CASE Since(early_stop.at)
      BY <1>1, <2>2, <3>1, <3>2 DEF AgeInv, Since
    <3>3. CASE PctDelta > 0 /\ Since(last_pct_improve_at)
      <4>1. last_pct_improve_at \in Nat /\ last_pct_improve_at' = last_pct_improve_at
        BY <1>1, <3>1
      <4>2. Since(last_pct_improve_at)'
        BY <2>2, <3>3, <4>1 DEF Since
      <4> QED BY <3>3, <4>2 DEF AgeInv
    <3>4. CASE /\ slip_policy = "stall" /\ StallRounds > 0 /\ stall_stop_on_limit
               /\ PctDelta > 0 /\ GlobalStep - best_at_step >= StallRounds
      <4>1. GlobalStep' - best_at_step' >= StallRounds
        <5>1. best_at_step' = best_at_step /\ best_at_step \in Int
          BY <1>1, <3>1
        <5> DEFINE now == GlobalStep
                   next == GlobalStep'
        <5>2. now \in Nat /\ next \in Nat /\ now <= next /\ now - best_at_step >= StallRounds
          BY <1>1, <3>4
        <5>3. StallRounds \in Nat
          BY Numbers
        <5> HIDE DEF now, next
        <5>4. next - best_at_step >= StallRounds
          BY <5>1, <5>2, <5>3
        <5> QED BY <5>1, <5>4 DEF next
      <4> QED BY <1>1, <3>4, <4>1 DEF AgeInv
    <3> QED BY <3>2, <3>3, <3>4 DEF AgeInv
  <2> QED BY <2>4, <2>5, <2>6, <2>7
<1> QED BY <1>2, <1>3

-----------------------------------------------------------------------------
(* The reason, and the plateau.                                               *)

LEMMA ReasonInit == Init => ReasonInv
BY DEF Init, ReasonInv, Running, EarlyStopReset

\* What the end of a step does when no slip answers a stall.
LEMMA NoStallSlipFacts ==
  ASSUME TypeOK, NoStallSlip
  PROVE  LET limit == Stalls /\ stall_stop_on_limit
             stop == plateau_stop \/ limit
         IN  /\ plateau_stop' = (stop /\ ~ Vetoed(stop))
             /\ early_stop'.reason = IF limit THEN "stall_slip_limit" ELSE early_stop.reason
             /\ withdrawn' = (Vetoed(stop) \/ (withdrawn /\ ~ limit))
             /\ limit => stall_slips_used = StallSlipLimit
             /\ stall_slips_used' = stall_slips_used
<1>1. stall_slips_used \in 0..StallSlipLimit /\ StallSlipLimit \in Nat
  BY Numbers DEF TypeOK
<1> DEFINE limit == Stalls /\ stall_stop_on_limit
           stop == plateau_stop \/ limit
<1>2. limit => stall_slips_used = StallSlipLimit
  BY <1>1 DEF NoStallSlip
<1>3. early_stop'.reason = IF limit THEN "stall_slip_limit" ELSE early_stop.reason
  BY DEF NoStallSlip, WithReason, TypeOK, EarlyStops
<1>4. /\ plateau_stop' = (stop /\ ~ Vetoed(stop)) /\ stall_slips_used' = stall_slips_used
      /\ withdrawn' = (Vetoed(stop) \/ (withdrawn /\ ~ limit))
  BY DEF NoStallSlip
<1> QED BY <1>2, <1>3, <1>4

\* The reason follows the stop.
LEMMA ReasonStep ==
  ASSUME TypeOK, PlaceInv, TypeOK', BestInv, CreepInv, ReasonInv, [Next]_vars
  PROVE  ReasonInv'
<1>1. CASE TestKeyFastPath \/ Fallback \/ Finish \/ Raise
  BY <1>1 DEF TestKeyFastPath, Fallback, Finish, Raise, ReasonInv, Running
<1>2. CASE Start \/ BeginRestart \/ BlockSwaps \/ ColumnSwaps \/ FixedSlip
  BY <1>2 DEF Start, BeginRestart, BlockSwaps, ColumnSwaps, FixedSlip, ReasonInv, Running,
              patience, history
<1>3. CASE Record
  <2>1. /\ pc = "record" /\ pc' = "stall" /\ GlobalStep' = GlobalStep
        /\ (plateau_stop' <=> PatienceExhausted(early_stop', GlobalStep))
        /\ early_stop'.reason = IF plateau_stop' THEN "no_improve" ELSE early_stop.reason
    BY <1>3, RecordKeeps
  <2>2. withdrawn' = (withdrawn /\ ~ plateau_stop') /\ plateau_stop' \in BOOLEAN
    BY <1>3 DEF Record, TypeOK
  <2>3. PatienceExhausted(early_stop, GlobalStep)' = PatienceExhausted(early_stop', GlobalStep)
    BY <2>1 DEF PatienceExhausted
  <2> QED BY <2>1, <2>2, <2>3 DEF ReasonInv, Running
<1>4. CASE StallSlip
  <2>1. /\ pc = "stall" /\ pc' = "test" /\ plateau_stop' = FALSE
        /\ withdrawn' = (withdrawn \/ plateau_stop) /\ early_stop'.reason = early_stop.reason
    BY <1>4 DEF StallSlip, TypeOK, EarlyStops
  <2> QED BY <2>1 DEF ReasonInv, Running
<1>5. CASE NoStallSlip
  <2> DEFINE limit == Stalls /\ stall_stop_on_limit
             stop == plateau_stop \/ limit
  <2>1. /\ plateau_stop' = (stop /\ ~ Vetoed(stop))
        /\ early_stop'.reason = IF limit THEN "stall_slip_limit" ELSE early_stop.reason
        /\ withdrawn' = (Vetoed(stop) \/ (withdrawn /\ ~ limit))
        /\ limit => stall_slips_used = StallSlipLimit
        /\ stall_slips_used' = stall_slips_used
    BY <1>5, NoStallSlipFacts
  <2>2. pc = "stall" /\ pc' = "test" /\ stall_stop_on_limit' = stall_stop_on_limit
    BY <1>5 DEF NoStallSlip, problem
  <2>3. limit => stall_stop_on_limit
    OBVIOUS
  <2> HIDE DEF limit
  <2> QED BY <2>1, <2>2, <2>3 DEF ReasonInv, Running
<1>6. CASE Test
  <2>1. /\ pc = "test"
        /\ UNCHANGED <<plateau_stop, stall_slips_used, stall_stop_on_limit>>
        /\ \/ pc' = "finish"
           \/ pc' \in {"block", "restart"} /\ ~ plateau_stop /\ early_stop' = early_stop
              /\ (withdrawn' => withdrawn) /\ (withdrawn => withdrawn')
    BY <1>6 DEF Test, problem
  <2> QED BY <2>1 DEF ReasonInv, Running
<1>7. CASE Stopped \/ UNCHANGED vars
  <2>1. UNCHANGED <<pc, early_stop, plateau_stop, withdrawn, stall_slips_used,
                    stall_stop_on_limit, restart, step>>
    BY <1>7 DEF Stopped, vars, patience, history, problem, place
  <2>2. GlobalStep' = GlobalStep
    BY <2>1, Zenon DEF GlobalStep
  <2>3. PatienceExhausted(early_stop, GlobalStep)' <=> PatienceExhausted(early_stop, GlobalStep)
    BY <2>1, <2>2 DEF PatienceExhausted
  <2> QED BY <2>1, <2>3 DEF ReasonInv, Running
<1> QED BY <1>1, <1>2, <1>3, <1>4, <1>5, <1>6, <1>7 DEF Next, Step

\* A plateau stop that stands is real.
LEMMA PlateauStep ==
  ASSUME TypeOK, PlaceInv, TypeOK', BestInv, CreepInv, AgeInv, ReasonInv, PlateauIsReal,
         [Next]_vars
  PROVE  PlateauIsReal'
<1>1. CASE NoStallSlip /\ plateau_stop' /\ early_stop'.reason = "no_improve"
  <2> DEFINE limit == Stalls /\ stall_stop_on_limit
             stop == plateau_stop \/ limit
  <2>1. /\ plateau_stop' = (stop /\ ~ Vetoed(stop))
        /\ early_stop'.reason = IF limit THEN "stall_slip_limit" ELSE early_stop.reason
    BY <1>1, NoStallSlipFacts
  <2>2. plateau_stop /\ ~ limit /\ ~ Vetoed(stop)
    BY <1>1, <2>1
  <2>3. /\ pc = "stall" /\ GlobalStep \in Nat /\ GlobalStep' = GlobalStep /\ log' = log
        /\ Len(log) = GlobalStep /\ log \in Seq(Scores) /\ GlobalStep > 0
        /\ log # <<>> /\ log[GlobalStep] = BestRaw
    <3>1. pc = "stall" /\ GlobalStep \in Nat /\ GlobalStep' = GlobalStep /\ log' = log
      BY <1>1, Clock DEF NoStallSlip
    <3>2. Len(log) = GlobalStep /\ log \in Seq(Scores)
      BY <3>1 DEF PlaceInv, TypeOK, InStep
    <3>3. GlobalStep > 0
      <4>1. restart \in Nat /\ step \in Nat /\ step > 0
        BY <3>1 DEF PlaceInv, TypeOK
      <4>2. restart * Steps \in Nat
        BY <4>1, Numbers
      <4> QED BY <4>1, <4>2 DEF GlobalStep
    <3> QED BY <3>1, <3>2, <3>3 DEF CreepInv
  <2>4. BestRaw' = BestRaw /\ BestRaw \in Int
    BY <1>1, BestFacts DEF NoStallSlip, bests, problem, BestRaw
  <2>5. /\ early_stop.at \in Nat /\ early_stop.best \in Scores /\ early_stop.best \in Int
        /\ PlateauRounds \in Nat /\ last_pct_improve_at \in 0..GlobalStep /\ PctDelta \in Nat
    BY EarlyStopNumbers, PlateauAssumption, Numbers DEF TypeOK
  <2>6. PlateauRounds > 0 /\ GlobalStep - early_stop.at >= PlateauRounds
    BY <2>2, <2>3 DEF ReasonInv, PatienceExhausted
  <2>7. PctDelta > 0 => GlobalStep - last_pct_improve_at >= PlateauRounds
    BY <2>2, <2>3, <2>5 DEF Vetoed
  <2>8. PICK t \in Nat : Since(t) /\ GlobalStep - t >= PlateauRounds
    <3>1. ~ (/\ slip_policy = "stall" /\ StallRounds > 0 /\ stall_stop_on_limit
             /\ GlobalStep - best_at_step >= StallRounds)
      BY <2>2 DEF Stalls
    <3> QED BY <2>3, <2>5, <2>6, <2>7, <3>1 DEF AgeInv
  <2> DEFINE i == GlobalStep - PlateauRounds
             earlier == IF GlobalStep = PlateauRounds THEN NegInf ELSE log[i]
  <2>9. i \in Nat /\ i >= t /\ i <= Len(log) /\ GlobalStep >= PlateauRounds
    BY <2>3, <2>5, <2>6, <2>8
  <2>10. early_stop.best <= earlier /\ earlier \in Scores
    <3>1. CASE i = 0
      <4>1. GlobalStep = PlateauRounds /\ t = 0
        BY <2>3, <2>5, <2>8, <2>9, <3>1
      <4> QED BY <2>8, <4>1, ScoreRange DEF Since
    <3>2. CASE i # 0
      <4>1. GlobalStep # PlateauRounds /\ i \in 1..Len(log)
        BY <2>3, <2>5, <2>9, <3>2
      <4>2. log[i] \in Scores
        BY <2>3, <4>1
      <4> HIDE DEF i
      <4> QED BY <2>8, <2>9, <4>1, <4>2 DEF Since
    <3> QED BY <3>1, <3>2
  <2>11. BestRaw <= PlusDelta(early_stop.best)
    BY <2>3 DEF CreepInv
  <2> HIDE DEF earlier
  <2>12. BestRaw <= PlusDelta(earlier)
    <3>1. PlusDelta(early_stop.best) <= PlusDelta(earlier)
      BY <2>5, <2>10, PlusDeltaFacts
    <3>2. PlusDelta(early_stop.best) \in Int /\ PlusDelta(earlier) \in Int
      BY <2>5, <2>10, PlusDeltaFacts
    <3> QED BY <2>4, <2>11, <3>1, <3>2
  <2>13. BestRaw' <= PlusDelta(IF GlobalStep' = PlateauRounds THEN NegInf
                               ELSE log'[GlobalStep' - PlateauRounds])
    BY <2>3, <2>4, <2>12 DEF earlier
  <2> QED BY <2>3, <2>9, <2>13 DEF PlateauIsReal
<1>2. CASE UNCHANGED vars
  <2>1. UNCHANGED <<pc, early_stop, plateau_stop, log, score, best_key, restart, step>>
    BY <1>2 DEF vars, patience, history, problem, place, bests
  <2>2. GlobalStep' = GlobalStep /\ BestRaw' = BestRaw
    BY <2>1, Zenon DEF GlobalStep, BestRaw
  <2> QED BY <2>1, <2>2 DEF PlateauIsReal
<1>3. CASE ~ UNCHANGED vars /\ ~ (NoStallSlip /\ plateau_stop' /\ early_stop'.reason = "no_improve")
  <2>1. ~ (pc' = "test" /\ plateau_stop' /\ early_stop'.reason = "no_improve")
    BY <1>3 DEF Next, Step, TestKeyFastPath, Start, BeginRestart, BlockSwaps, ColumnSwaps,
                FixedSlip, Record, StallSlip, Test, Fallback, Finish, Raise, Stopped, NoStallSlip
  <2> QED BY <2>1 DEF PlateauIsReal
<1> QED BY <1>1, <1>2, <1>3

-----------------------------------------------------------------------------
(* The invariants hold.                                                       *)

LEMMA TypeInit == Init => TypeOK
<1> SUFFICES ASSUME Init PROVE TypeOK
  OBVIOUS
<1>1. restart = 0 /\ step = 0
  BY DEF Init
<1>2. GlobalStep = 0
  BY <1>1, Numbers, GlobalSteps DEF GlobalStep
<1>3. early_stop \in EarlyStops
  BY EarlyStopResetType, ScoreRange DEF Init
<1>4. /\ step \in 0..Steps /\ restart \in 0..Restarts
      /\ last_pct_improve_at \in 0..GlobalStep /\ best_at_step \in 0..GlobalStep
      /\ stall_slips_used \in 0..StallSlipLimit
  BY <1>1, <1>2, Numbers DEF Init
<1>5. schedule \in Seq(Keys) /\ log \in Seq(Scores)
  BY DEF Init
<1> QED BY <1>3, <1>4, <1>5, ScoreRange DEF Init, TypeOK

KaedingInv ==
  TypeOK /\ PlaceInv /\ BestInv /\ CreepInv /\ AgeInv /\ ReasonInv /\ PlateauIsReal

LEMMA KaedingInvHolds == Spec => []KaedingInv
<1>1. Init => KaedingInv
  <2>1. Init => PlateauIsReal
    BY DEF Init, PlateauIsReal
  <2> QED BY <2>1, TypeInit, PlaceInit, BestInit, CreepInit, AgeInit, ReasonInit DEF KaedingInv
<1>2. KaedingInv /\ [Next]_vars => KaedingInv'
  <2> SUFFICES ASSUME KaedingInv, [Next]_vars PROVE KaedingInv'
    OBVIOUS
  <2> USE DEF KaedingInv
  <2>1. TypeOK'
    BY TypeStep
  <2>2. PlaceInv'
    BY <2>1, PlaceStep
  <2>3. BestInv'
    BY <2>1, BestStep
  <2>4. CreepInv'
    BY <2>1, CreepStep
  <2>5. AgeInv'
    BY <2>1, AgeStep
  <2>6. ReasonInv'
    BY <2>1, ReasonStep
  <2>7. PlateauIsReal'
    BY <2>1, PlateauStep
  <2> QED BY <2>1, <2>2, <2>3, <2>4, <2>5, <2>6, <2>7
<1> QED BY <1>1, <1>2, PTL DEF Spec

\* Every variable keeps its type.
THEOREM TypeCorrect == Spec => []TypeOK
<1>1. KaedingInv => TypeOK
  BY DEF KaedingInv
<1> QED BY <1>1, KaedingInvHolds, PTL

\* A plateau stop that stands closes PlateauRounds steps that together gained no more
\* than MinDelta, whatever slips and vetoes did to the step the plateau counts from.
THEOREM PlateauIsAlwaysReal == Spec => []PlateauIsReal
<1>1. KaedingInv => PlateauIsReal
  BY DEF KaedingInv
<1> QED BY <1>1, KaedingInvHolds, PTL

\* A reason that was not taken back says why the search stopped.
THEOREM ReasonAlwaysExplains == Spec => []ReasonExplainsStop
<1>1. Init => ReasonExplainsStop
  BY DEF Init, ReasonExplainsStop
<1>2. KaedingInv /\ ReasonExplainsStop /\ [Next]_vars => ReasonExplainsStop'
  <2> SUFFICES ASSUME KaedingInv, ReasonExplainsStop, [Next]_vars, pc' = "finish"
               PROVE  ReasonExplainsStop'
    BY DEF ReasonExplainsStop
  <2> USE DEF KaedingInv
  <2>1. CASE Test
    <3> DEFINE reached == StopScoreReached(BestPct)
    <3>1. /\ pc = "test" /\ UNCHANGED <<plateau_stop, stall_slips_used, stall_stop_on_limit>>
          /\ early_stop'.reason = IF reached THEN "target_score" ELSE early_stop.reason
          /\ withdrawn' = (withdrawn /\ ~ reached)
          /\ reached \/ plateau_stop \/ restart' = Restarts
      BY <2>1 DEF Test, problem, WithReason, TypeOK, EarlyStops
    <3>2. BestPct' = BestPct
      BY <2>1 DEF Test, bests, problem, BestPct
    <3>3. StopScoreReached(BestPct)' = reached /\ reached \in BOOLEAN
      BY <3>2 DEF StopScoreReached
    <3> HIDE DEF reached
    <3> QED BY <3>1, <3>3 DEF ReasonExplainsStop, ReasonInv, Running
  <2>2. CASE UNCHANGED vars
    <3>1. UNCHANGED <<pc, early_stop, plateau_stop, score, best_key, restart, withdrawn,
                      stall_slips_used, stall_stop_on_limit>>
      BY <2>2 DEF vars, patience, history, problem, place, bests
    <3>2. BestPct' = BestPct
      BY <3>1 DEF BestPct
    <3>3. StopScoreReached(BestPct)' = StopScoreReached(BestPct)
      BY <3>2 DEF StopScoreReached
    <3> QED BY <3>1, <3>3 DEF ReasonExplainsStop
  <2>3. CASE ~ Test /\ ~ UNCHANGED vars
    BY <2>3 DEF Next, Step, TestKeyFastPath, Start, BeginRestart, BlockSwaps, ColumnSwaps,
                FixedSlip, Record, StallSlip, NoStallSlip, Fallback, Finish, Raise, Stopped
  <2> QED BY <2>1, <2>2, <2>3
<1> QED BY <1>1, <1>2, KaedingInvHolds, PTL DEF Spec

-----------------------------------------------------------------------------
(* The solver implements Search.                                              *)

LEMMA SameCandidates == Abstract!Candidates = Candidates
BY DEF Abstract!Candidates, Candidates, Scores, NegInf

LEMMA NoAnswerYet ==
  ASSUME PlaceInv, pc \notin {"done", "raised"}
  PROVE  Answer = NoKey
BY DEF PlaceInv, Answer, NoSolution

\* The incumbent is the best key's candidate, or, while everything was rejected, one of
\* the rejected.
IncumbentIsBest ==
  /\ best_key # NoKey => Incumbent = Scored(best_key)
  /\ scored # {} => /\ Incumbent \in scored /\ Incumbent[2] = BestRaw
                    /\ \A c \in scored : c[2] <= Incumbent[2]

LEMMA IncumbentFacts == TypeOK /\ BestInv => IncumbentIsBest
<1> SUFFICES ASSUME TypeOK, BestInv PROVE IncumbentIsBest
  OBVIOUS
<1>1. \A c \in scored : c[2] \in Int /\ NegInf <= c[2] /\ c[2] <= BestRaw
  <2>1. scored \subseteq Candidates
    BY DEF TypeOK
  <2> QED BY <2>1, CandidateParts, ScoreRange DEF ScoreOf, BestInv
<1>2. CASE best_key # NoKey
  <2>1. Incumbent = Scored(best_key) /\ Scored(best_key) \in scored
    BY <1>2 DEF Incumbent, BestInv
  <2>2. Incumbent[2] = BestRaw
    BY <1>2, <2>1 DEF BestRaw, Scored
  <2> QED BY <1>1, <1>2, <2>1, <2>2 DEF IncumbentIsBest
<1>3. CASE best_key = NoKey
  <2> SUFFICES ASSUME scored # {}
               PROVE  /\ Incumbent \in scored /\ Incumbent[2] = BestRaw
                      /\ \A c \in scored : c[2] <= Incumbent[2]
    BY <1>3 DEF IncumbentIsBest
  <2>1. Incumbent \in scored
    BY <1>3 DEF Incumbent
  <2>2. BestRaw = NegInf /\ NegInf \in Int
    BY <1>3, ScoreRange DEF BestRaw
  <2>3. Incumbent[2] = BestRaw
    BY <1>1, <2>1, <2>2
  <2> QED BY <1>1, <2>1, <2>3
<1> QED BY <1>2, <1>3

LEMMA IncumbentFactsNext == TypeOK' /\ BestInv' => IncumbentIsBest'
BY IncumbentFacts, PTL

\* Recording candidates is exploring.
LEMMA ExploreStep ==
  ASSUME KaedingInv, KaedingInv', pc \notin {"done", "raised"}, pc' \notin {"done", "raised"},
         score' = score, scored \subseteq scored', scored' # {},
         best_key # NoKey => best_key' = best_key \/ BestRaw' > BestRaw
  PROVE  Abstract!Explore
<1> USE DEF KaedingInv
<1>1. Answer = NoKey /\ Answer' = NoKey
  <2>1. Answer' = NoKey
    BY DEF PlaceInv, Answer, NoSolution
  <2> QED BY <2>1, NoAnswerYet
<1>2. IncumbentIsBest /\ IncumbentIsBest'
  BY IncumbentFacts, IncumbentFactsNext
<1>3. /\ Incumbent' \in scored' /\ Incumbent'[2] = BestRaw'
      /\ \A c \in scored' : c[2] <= Incumbent'[2]
  BY <1>2 DEF IncumbentIsBest
<1>4. scored' \in SUBSET Abstract!Candidates
  BY SameCandidates DEF TypeOK
<1>5. ASSUME scored # {}, Incumbent[2] # -Inf, Incumbent'[2] = Incumbent[2]
      PROVE  Incumbent' = Incumbent
  <2>1. Incumbent[2] = BestRaw
    BY <1>2, <1>5 DEF IncumbentIsBest
  <2>2. best_key # NoKey
    BY <1>5, <2>1 DEF BestRaw, NegInf
  <2>3. BestRaw' = BestRaw /\ BestRaw \in Int
    BY <1>3, <1>5, <2>1, BestFacts
  <2>4. best_key' = best_key
    BY <2>2, <2>3
  <2>5. Scored(best_key)' = Scored(best_key) /\ Incumbent = Scored(best_key)
    BY <1>2, <2>2, <2>4 DEF Scored, IncumbentIsBest
  <2>6. Incumbent' = Scored(best_key)'
    BY <1>2, <2>2, <2>4 DEF IncumbentIsBest
  <2> QED BY <2>5, <2>6
<1> QED BY <1>1, <1>3, <1>4, <1>5 DEF Abstract!Explore, Abstract!Dominates

LEMMA RefinementStep ==
  ASSUME KaedingInv, KaedingInv', [Next]_vars
  PROVE  [Abstract!Next]_(Abstract!vars)
<1> USE DEF KaedingInv
<1>1. score' = score
  BY SameProblem DEF problem
<1>2. ASSUME UNCHANGED <<best_key, scored>> PROVE Incumbent' = Incumbent
  BY <1>1, <1>2 DEF Incumbent, Scored
<1>3. CASE TestKeyFastPath
  <2>1. pc = "start" /\ scored = {} /\ UNCHANGED <<best_key, scored>> /\ Answer = NoKey
    BY <1>3, NoAnswerYet DEF TestKeyFastPath, BestInv, bests, history
  <2>2. Scored(test_key) \in Abstract!Candidates
    BY <1>3, ScoreFacts, SameCandidates DEF TestKeyFastPath, TypeOK
  <2>3. Answer' = [kind |-> "supplied", cand |-> Scored(test_key)]
    BY <1>3 DEF TestKeyFastPath, Answer
  <2>4. Abstract!Supplied
    BY <1>2, <2>1, <2>2, <2>3 DEF Abstract!Supplied
  <2> QED BY <2>4 DEF Abstract!Next
<1>4. CASE BeginRestart \/ Record \/ StallSlip
  <2>1. PICK k \in Keys : UpdateBest(k)
    BY <1>4, StartKeysNowFacts DEF BeginRestart, Record, StallSlip, PlaceInv, Running
  <2>2. best_key' = best_key \/ BestRaw' > BestRaw
    BY <1>1, <2>1, UpdateBestFacts
  <2>3. /\ pc \in {"restart", "record", "stall"} /\ pc' \in {"block", "stall", "test"}
        /\ scored \subseteq scored'
    BY <1>4 DEF BeginRestart, Record, StallSlip
  <2>4. scored' # {}
    <3>1. (scored \cup batch)' # {}
      BY <2>3 DEF BestInv, Running
    <3>2. batch' = {}
      BY <2>3 DEF BestInv
    <3> QED BY <3>1, <3>2
  <2> QED BY <1>1, <2>2, <2>3, <2>4, ExploreStep DEF Abstract!Next
<1>5. CASE Fallback
  <2>1. pc = "finish" /\ pc' = "end"
    BY <1>5 DEF Fallback
  <2>2. CASE best_key = NoKey
    <3>1. scored \subseteq scored' /\ scored' # {}
      BY <1>5, <2>2 DEF Fallback
    <3> QED BY <1>1, <2>1, <2>2, <3>1, ExploreStep DEF Abstract!Next
  <2>3. CASE best_key # NoKey
    <3>1. UNCHANGED <<best_key, scored, sol>>
      BY <1>5, <2>3 DEF Fallback
    <3> QED BY <1>2, <3>1 DEF Abstract!vars, Answer
  <2> QED BY <2>2, <2>3
<1>6. CASE Finish
  <2>1. pc = "end" /\ UNCHANGED <<best_key, scored>> /\ Answer = NoKey /\ best_key \in Keys
    BY <1>6, NoAnswerYet DEF Finish, bests, history, BestInv, TypeOK
  <2>2. Incumbent = Scored(best_key) /\ scored # {} /\ Scored(best_key)[2] = BestRaw
    BY <2>1, KeyAssumption DEF Incumbent, BestInv, Scored, BestRaw
  <2>3. Scored(best_key) \in Abstract!Candidates
    BY <2>1, ScoreFacts, SameCandidates DEF TypeOK
  <2>4. IsFinite(BestPct) <=> BestRaw # -Inf
    BY BestFacts DEF IsFinite, NegInf
  <2>5. CASE IsFinite(BestPct)
    <3>1. Answer' = [kind |-> "found", cand |-> Scored(best_key)]
      BY <1>6, <2>5 DEF Finish, Answer
    <3>2. Abstract!Found
      BY <1>2, <2>1, <2>2, <2>3, <2>4, <2>5, <3>1 DEF Abstract!Found
    <3> QED BY <3>2 DEF Abstract!Next
  <2>6. CASE ~ IsFinite(BestPct)
    <3>1. Answer' = [kind |-> "rejected", cand |-> Scored(best_key)]
      BY <1>6, <2>6 DEF Finish, Answer
    <3>2. Abstract!Rejected
      BY <1>2, <2>1, <2>2, <2>4, <2>6, <3>1 DEF Abstract!Rejected
    <3> QED BY <3>2 DEF Abstract!Next
  <2> QED BY <2>5, <2>6
<1>7. CASE Raise
  <2>1. UNCHANGED <<best_key, scored>> /\ Answer = NoKey
    BY <1>7, NoAnswerYet DEF Raise, bests, history
  <2>2. Answer' = [kind |-> "raised"]
    BY <1>7 DEF Raise, Answer
  <2>3. Abstract!Raise
    BY <1>2, <2>1, <2>2 DEF Abstract!Raise
  <2> QED BY <2>3 DEF Abstract!Next
<1>8. CASE Start \/ BlockSwaps \/ ColumnSwaps \/ FixedSlip \/ NoStallSlip \/ Test
           \/ Stopped \/ UNCHANGED vars
  <2>1. UNCHANGED <<best_key, scored, sol>>
    BY <1>8 DEF Start, BlockSwaps, ColumnSwaps, FixedSlip, NoStallSlip, Test, Stopped, vars,
                bests, history
  <2> QED BY <1>2, <2>1 DEF Abstract!vars, Answer
<1> QED BY <1>3, <1>4, <1>5, <1>6, <1>7, <1>8 DEF Next, Step

\* The climb is a Search over the candidates that a fixed slip did not keep from being
\* recorded: the best of them is the incumbent and the answer.
THEOREM KaedingImplementsSearch == Spec => ImplementsSearch
<1>1. Init => Abstract!Init
  BY DEF Init, Abstract!Init, Answer, NoSolution, Incumbent
<1>2. KaedingInv /\ KaedingInv' /\ [Next]_vars => [Abstract!Next]_(Abstract!vars)
  BY RefinementStep
<1> QED BY <1>1, <1>2, KaedingInvHolds, PTL DEF Spec, ImplementsSearch, Abstract!Spec

-----------------------------------------------------------------------------
(* The promise of a search, kept.                                             *)

\* What is scored are candidates, the incumbent is one that none of them beats, and
\* the answer is as good.
PromiseInv ==
  /\ scored \subseteq Abstract!Candidates
  /\ scored # {} => Incumbent \in scored /\ Tops(Incumbent, scored)
  /\ Abstract!AnswerDominates

\* Each step of the abstract search preserves that.
LEMMA PromiseStep ==
  ASSUME PromiseInv, [Abstract!Next]_(Abstract!vars)
  PROVE  PromiseInv'
<1> USE DEF PromiseInv, Abstract!AnswerDominates, Abstract!Dominates, Tops
<1>1. CASE Abstract!Explore
  BY <1>1, Zenon DEF Abstract!Explore, Abstract!Candidates
<1>2. CASE Abstract!Found
  <2>1. /\ scored # {} /\ UNCHANGED <<scored, Incumbent>>
        /\ Answer' \in [kind : {"found"}, cand : Abstract!Candidates]
        /\ Answer'.cand = Incumbent \/ Answer'.cand[2] > Incumbent[2]
    BY <1>2 DEF Abstract!Found
  <2>2. /\ Answer'.kind = "found" /\ Answer'.cand \in Abstract!Candidates
        /\ Incumbent \in Abstract!Candidates
    BY <2>1
  <2>3. Tops(Answer'.cand, scored)
    BY <2>1, <2>2, TopsIsMonotone DEF Abstract!Candidates
  <2> QED BY <2>1, <2>2, <2>3
<1>3. CASE Abstract!Rejected
  <2>1. /\ scored # {} /\ UNCHANGED <<scored, Incumbent>> /\ Incumbent[2] = -Inf
        /\ Answer'.kind = "rejected"
    BY <1>3 DEF Abstract!Rejected
  <2>2. \A c \in scored : c[2] = -Inf
    BY <2>1, RejectedIsAll DEF Abstract!Candidates
  <2> QED BY <2>1, <2>2
<1>4. CASE Abstract!Supplied
  BY <1>4 DEF Abstract!Supplied
<1>5. CASE Abstract!Raise
  BY <1>5 DEF Abstract!Raise
<1>6. CASE UNCHANGED Abstract!vars
  BY <1>6 DEF Abstract!vars
<1> QED BY <1>1, <1>2, <1>3, <1>4, <1>5, <1>6 DEF Abstract!Next

\* The structured search keeps its promise to the caller of solve: an answer it found
\* is beaten by no key its steps recorded, and one it rejects means that all of them
\* were.
THEOREM KaedingAnswersWithTheBest == Spec => []Abstract!AnswerDominates
<1>1. Abstract!Init => PromiseInv
  BY DEF Abstract!Init, PromiseInv, Abstract!AnswerDominates
<1>2. PromiseInv /\ [Abstract!Next]_(Abstract!vars) => PromiseInv'
  BY PromiseStep
<1>3. PromiseInv => Abstract!AnswerDominates
  BY DEF PromiseInv
<1> QED BY <1>1, <1>2, <1>3, KaedingImplementsSearch, PTL DEF ImplementsSearch, Abstract!Spec

=============================================================================
