--------------------------- MODULE BeamSolverProofs ---------------------------
(* What BeamSolver is proved to do, for every width, number of rounds and     *)
(* restarts, every window, landscape and choice of seeds: its type, that the  *)
(* window of recent keys is one, that the cut loses nothing that was scored   *)
(* and the window refuses nothing that was not, which restart it reports and  *)
(* why it stopped, and that it implements Search.  Scores may change with the *)
(* Hamming weight from round to round in any way.                             *)
EXTENDS BeamSolver, SolverBaseProofs, TLAPS

-----------------------------------------------------------------------------
(* The window of recent keys.                                                 *)

Span(queue) == {queue[i] : i \in DOMAIN queue}

Distinct(queue) == \A i, j \in DOMAIN queue : i # j => queue[i] # queue[j]

\* The set and the queue hold the same keys, none twice, within the size.
IsWindow(hashes, queue) ==
  /\ hashes \subseteq Keys /\ queue \in Seq(Keys)
  /\ hashes = Span(queue) /\ Distinct(queue)
  /\ Len(queue) <= WindowSize

\* Remembering a key that is not in the window.
LEMMA RememberFacts ==
  ASSUME NEW keep, NEW hashes, NEW queue, NEW k \in Keys, IsWindow(hashes, queue), k \notin hashes,
         keep \in Seq(Keys),
         NEW w, w = [keep |-> keep, hashes |-> hashes, queue |-> queue]
  PROVE  /\ Remember(w, k).keep = Append(keep, k)
         /\ IsWindow(Remember(w, k).hashes, Remember(w, k).queue)
         /\ Remember(w, k).hashes \subseteq hashes \cup {k}
<1> DEFINE q == Append(queue, k)
           full == Len(q) > WindowSize
           new == Remember(w, k)
<1>1. /\ new.keep = Append(keep, k)
      /\ new.hashes = (hashes \cup {k}) \ (IF full THEN {Head(q)} ELSE {})
      /\ new.queue = IF full THEN Tail(q) ELSE q
  BY DEF Remember
<1>2. WindowSize \in Nat \ {0}
  BY BeamAssumption DEF WindowSize
<1>3. /\ queue \in Seq(Keys) /\ Len(queue) \in Nat /\ Len(queue) <= WindowSize
      /\ hashes = {queue[i] : i \in 1..Len(queue)} /\ hashes \subseteq Keys
      /\ \A i, j \in 1..Len(queue) : i # j => queue[i] # queue[j]
  BY DEF IsWindow, Span, Distinct
<1>4. /\ q \in Seq(Keys) /\ Len(q) = Len(queue) + 1 /\ q[Len(queue) + 1] = k
      /\ \A i \in 1..Len(queue) : q[i] = queue[i]
  BY <1>3
<1>5. \A i, j \in 1..Len(q) : i # j => q[i] # q[j]
  BY <1>3, <1>4
<1>6. hashes \cup {k} = {q[i] : i \in 1..Len(q)}
  BY <1>3, <1>4
<1> HIDE DEF q, new
<1>7. CASE ~ full
  <2>1. DOMAIN q = 1..Len(q) /\ new.queue = q /\ new.hashes = hashes \cup {k}
    BY <1>1, <1>4, <1>7
  <2>2. Len(q) <= WindowSize
    BY <1>2, <1>3, <1>4, <1>7
  <2>3. IsWindow(hashes \cup {k}, q)
    BY <1>3, <1>4, <1>5, <1>6, <2>1, <2>2 DEF IsWindow, Span, Distinct
  <2> QED BY <1>1, <2>1, <2>3 DEF new
<1>8. CASE full
  <2> DEFINE t == Tail(q)
  <2>1. /\ t \in Seq(Keys) /\ Len(t) = Len(q) - 1 /\ Head(q) = q[1]
        /\ \A i \in 1..Len(t) : t[i] = q[i + 1]
    BY <1>3, <1>4
  <2> HIDE DEF t
  <2>2. \A i, j \in 1..Len(t) : i # j => t[i] # t[j]
    BY <1>3, <1>4, <1>5, <2>1
  <2>3. {q[i] : i \in 1..Len(q)} \ {q[1]} = {t[i] : i \in 1..Len(t)}
    <3>1. ASSUME NEW i \in 1..Len(q), q[i] # q[1] PROVE \E j \in 1..Len(t) : t[j] = q[i]
      <4>1. i - 1 \in 1..Len(t) /\ i = (i - 1) + 1
        BY <1>3, <1>4, <2>1, <3>1
      <4> QED BY <2>1, <4>1
    <3>2. ASSUME NEW j \in 1..Len(t) PROVE j + 1 \in 1..Len(q) /\ t[j] = q[j + 1] /\ q[j + 1] # q[1]
      BY <1>3, <1>4, <1>5, <2>1
    <3>3. \A x \in {q[i] : i \in 1..Len(q)} \ {q[1]} : x \in {t[i] : i \in 1..Len(t)}
      BY <3>1
    <3>4. \A x \in {t[i] : i \in 1..Len(t)} : x \in {q[i] : i \in 1..Len(q)} \ {q[1]}
      BY <3>2
    <3> QED BY <3>3, <3>4
  <2>4. DOMAIN t = 1..Len(t)
    BY <2>1
  <2>5. new.queue = t /\ new.hashes = (hashes \cup {k}) \ {q[1]}
    BY <1>1, <1>8, <2>1 DEF t
  <2>6. Len(t) <= WindowSize
    BY <1>2, <1>3, <1>4, <2>1
  <2>7. IsWindow((hashes \cup {k}) \ {q[1]}, t)
    BY <1>3, <1>6, <2>1, <2>2, <2>3, <2>4, <2>6 DEF IsWindow, Span, Distinct
  <2> QED BY <1>1, <2>5, <2>7 DEF new
<1> QED BY <1>7, <1>8

\* The function that Deduped defines by recursion, and that there is one.
After(w, rows, n) ==
  CHOOSE g : g = [i \in 0..n |-> IF i = 0 THEN w ELSE DedupRow(g[i - 1], rows[i])]

LEMMA AfterIsDefined ==
  ASSUME NEW w, NEW rows, NEW n \in Nat
  PROVE  After(w, rows, n) =
           [i \in 0..n |-> IF i = 0 THEN w ELSE DedupRow(After(w, rows, n)[i - 1], rows[i])]
<1> DEFINE F(m, g) == [i \in 0..m |-> IF i = 0 THEN w ELSE DedupRow(g[i - 1], rows[i])]
           S == {m \in 0..n : \E g : g = F(m, g)}
<1>1. 0 \in S
  <2> DEFINE g == [i \in 0..0 |-> w]
  <2>1. g = F(0, g)
    OBVIOUS
  <2> HIDE DEF g, F
  <2> QED BY <2>1
<1>2. ASSUME NEW m \in 0..(n - 1), m \in S PROVE m + 1 \in S
  <2>1. PICK g : g = F(m, g)
    BY <1>2
  <2> DEFINE h == [i \in 0..(m + 1) |-> IF i = m + 1 THEN DedupRow(g[m], rows[m + 1]) ELSE g[i]]
  <2>2. ASSUME NEW i \in 0..(m + 1)
        PROVE  h[i] = IF i = 0 THEN w ELSE DedupRow(h[i - 1], rows[i])
    <3>1. CASE i = m + 1
      <4>1. i # 0 /\ i - 1 = m /\ m \in 0..(m + 1) /\ m # m + 1 /\ m \in Nat
        BY <3>1
      <4>2. h[i] = DedupRow(g[m], rows[m + 1]) /\ h[i - 1] = g[m]
        BY <3>1, <4>1
      <4> HIDE DEF h
      <4> QED BY <3>1, <4>1, <4>2
    <3>2. CASE i # m + 1
      <4>1. i \in 0..m /\ h[i] = g[i]
        BY <3>2
      <4>2. g[i] = IF i = 0 THEN w ELSE DedupRow(g[i - 1], rows[i])
        BY <2>1, <4>1
      <4>3. i # 0 => h[i - 1] = g[i - 1]
        BY <4>1
      <4> HIDE DEF h
      <4> QED BY <4>1, <4>2, <4>3
    <3> QED BY <3>1, <3>2
  <2>3. h = F(m + 1, h)
    <3>1. h = [i \in 0..(m + 1) |-> h[i]]
      OBVIOUS
    <3> HIDE DEF h
    <3> QED BY <2>2, <3>1
  <2>4. m + 1 \in 0..n
    OBVIOUS
  <2> HIDE DEF F, h
  <2> QED BY <2>3, <2>4
<1>3. n \in S
  <2> HIDE DEF S
  <2>1. 0..n \subseteq S
    BY <1>1, <1>2, IntervalInduction
  <2> QED BY <2>1
<1> QED BY <1>3 DEF After

\* A window and what was kept, when some of the rows have been looked at: each of
\* them was in the first window or is kept, and the window holds nothing else.
IsDeduped(new, hashes, rows, i) ==
  /\ new = [keep |-> new.keep, hashes |-> new.hashes, queue |-> new.queue]
  /\ new.keep \in Seq(Keys)
  /\ IsWindow(new.hashes, new.queue)
  /\ new.hashes \subseteq hashes \cup Span(new.keep)
  /\ Span(new.keep) \subseteq Span(rows)
  /\ \A j \in 1..i : rows[j] \in hashes \cup Span(new.keep)

LEMMA DedupRowFacts ==
  ASSUME NEW old, NEW hashes, NEW rows \in Seq(Keys), NEW i \in 1..Len(rows),
         IsDeduped(old, hashes, rows, i - 1)
  PROVE  IsDeduped(DedupRow(old, rows[i]), hashes, rows, i)
<1> DEFINE k == rows[i]
<1>1. /\ old = [keep |-> old.keep, hashes |-> old.hashes, queue |-> old.queue]
      /\ old.keep \in Seq(Keys)
      /\ IsWindow(old.hashes, old.queue)
      /\ old.hashes \subseteq hashes \cup Span(old.keep)
      /\ Span(old.keep) \subseteq Span(rows)
      /\ \A j \in 1..(i - 1) : rows[j] \in hashes \cup Span(old.keep)
  BY DEF IsDeduped
<1>2. k \in Keys /\ k \in Span(rows)
  BY DEF Span
<1>3. CASE k \in old.hashes
  <2>1. DedupRow(old, k) = old
    BY <1>3 DEF DedupRow
  <2>2. \A j \in 1..i : rows[j] \in hashes \cup Span(old.keep)
    <3>1. \A j \in 1..i : j = i \/ j \in 1..(i - 1)
      OBVIOUS
    <3> QED BY <1>1, <1>3, <3>1
  <2> QED BY <1>1, <2>1, <2>2 DEF IsDeduped
<1>4. CASE k \notin old.hashes
  <2> DEFINE new == Remember(old, k)
  <2>1. DedupRow(old, k) = new
    BY <1>4 DEF DedupRow
  <2>2. /\ new.keep = Append(old.keep, k)
        /\ IsWindow(new.hashes, new.queue)
        /\ new.hashes \subseteq old.hashes \cup {k}
    BY <1>1, <1>2, <1>4, RememberFacts
  <2>3. new = [keep |-> new.keep, hashes |-> new.hashes, queue |-> new.queue]
    BY DEF Remember
  <2> HIDE DEF new
  <2>4. new.keep \in Seq(Keys) /\ Span(new.keep) = Span(old.keep) \cup {k}
    <3>1. /\ Append(old.keep, k) \in Seq(Keys)
          /\ DOMAIN old.keep = 1..Len(old.keep) /\ Len(old.keep) \in Nat
          /\ DOMAIN Append(old.keep, k) = 1..(Len(old.keep) + 1)
          /\ Append(old.keep, k)[Len(old.keep) + 1] = k
          /\ \A j \in 1..Len(old.keep) : Append(old.keep, k)[j] = old.keep[j]
      BY <1>1, <1>2
    <3>2. \A j \in 1..(Len(old.keep) + 1) : j = Len(old.keep) + 1 \/ j \in 1..Len(old.keep)
      BY <3>1
    <3>3. \A x \in Span(Append(old.keep, k)) : x \in Span(old.keep) \cup {k}
      BY <3>1, <3>2 DEF Span
    <3>4. \A x \in Span(old.keep) \cup {k} : x \in Span(Append(old.keep, k))
      <4>1. Len(old.keep) + 1 \in DOMAIN Append(old.keep, k)
            /\ \A j \in DOMAIN old.keep : j \in DOMAIN Append(old.keep, k)
        BY <3>1
      <4> QED BY <3>1, <4>1 DEF Span
    <3> QED BY <2>2, <3>1, <3>3, <3>4
  <2>5. \A j \in 1..i : rows[j] \in hashes \cup Span(new.keep)
    <3>1. \A j \in 1..i : j = i \/ j \in 1..(i - 1)
      OBVIOUS
    <3> QED BY <1>1, <2>4, <3>1
  <2> QED BY <1>1, <1>2, <2>1, <2>2, <2>3, <2>4, <2>5 DEF IsDeduped
<1> QED BY <1>3, <1>4

\* What a round keeps of its rows.
LEMMA DedupRowsFacts ==
  ASSUME IsWindow(recent_hashes, recent_queue), NEW rows \in Seq(Keys),
         NEW kept, kept = DedupRows(rows)
  PROVE  /\ kept.keep \in Seq(Keys)
         /\ IsWindow(kept.hashes, kept.queue)
         /\ kept.hashes \subseteq recent_hashes \cup Span(kept.keep)
         /\ Span(kept.keep) \subseteq Span(rows)
         /\ Span(rows) \subseteq recent_hashes \cup Span(kept.keep)
<1> DEFINE w == [keep |-> <<>>, hashes |-> recent_hashes, queue |-> recent_queue]
<1>1. CASE ~ Dedup
  BY <1>1 DEF DedupRows
<1>2. CASE Dedup
  <2> DEFINE n == Len(rows)
             after == After(w, rows, n)
             S == {i \in 0..n : IsDeduped(after[i], recent_hashes, rows, i)}
  <2>1. kept = after[n]
    BY <1>2 DEF DedupRows, Deduped, After
  <2>2. n \in Nat
    OBVIOUS
  <2>3. after = [i \in 0..n |-> IF i = 0 THEN w ELSE DedupRow(after[i - 1], rows[i])]
    <3> HIDE DEF w, n
    <3> QED BY <2>2, AfterIsDefined
  <2> HIDE DEF after
  <2>4. 0 \in S
    <3>1. after[0] = w
      BY <2>2, <2>3
    <3>2. Span(w.keep) = {}
      BY DEF Span
    <3>3. w.keep \in Seq(Keys)
      OBVIOUS
    <3>4. IsDeduped(w, recent_hashes, rows, 0)
      BY <3>2, <3>3 DEF IsDeduped
    <3> QED BY <2>2, <3>1, <3>4
  <2>5. ASSUME NEW m \in 0..(n - 1), m \in S PROVE m + 1 \in S
    <3>1. m + 1 \in 1..n /\ m + 1 \in 0..n /\ (m + 1) - 1 = m /\ m + 1 # 0
      BY <2>2
    <3>2. after[m + 1] = DedupRow(after[m], rows[m + 1])
      BY <2>3, <3>1
    <3>3. IsDeduped(after[m], recent_hashes, rows, (m + 1) - 1)
      BY <2>5, <3>1
    <3>4. IsDeduped(DedupRow(after[m], rows[m + 1]), recent_hashes, rows, m + 1)
      BY <3>1, <3>3, DedupRowFacts
    <3> QED BY <3>1, <3>2, <3>4
  <2>6. IsDeduped(kept, recent_hashes, rows, n)
    <3> HIDE DEF S
    <3>1. 0..n \subseteq S
      BY <2>2, <2>4, <2>5, IntervalInduction
    <3> QED BY <2>1, <2>2, <3>1 DEF S
  <2>7. Span(rows) \subseteq recent_hashes \cup Span(kept.keep)
    <3>1. DOMAIN rows = 1..n
      OBVIOUS
    <3> HIDE DEF n
    <3> QED BY <2>6, <3>1 DEF IsDeduped, Span
  <2> QED BY <2>6, <2>7 DEF IsDeduped
<1> QED BY <1>1, <1>2

-----------------------------------------------------------------------------
(* The inductive invariant.                                                   *)

\* There is a beam from the first restart on, of candidates that were scored; the
\* counters are below their limits while there is something left to do.
BeamInv ==
  /\ beam = <<>> => scored = {} /\ restart = 0
  /\ pc = "start" => beam = <<>>
  /\ pc = "begin" /\ restart = 0 => beam = <<>>
  /\ pc \in {"round", "select", "finish"} => beam # <<>>
  /\ pc \notin {"done", "raised"} => sol = NoSolution
  /\ pc \in {"start", "begin", "round", "select"} => restart < Restarts
  /\ pc = "round" => r < Rounds
  /\ pc = "select" => r > 0
  /\ \A i \in DOMAIN beam : beam[i] \in scored

WindowInv == IsWindow(recent_hashes, recent_queue)

\* Every candidate scored in this restart is in the beam or no better than any in it;
\* what the window holds was scored, and so was all that was offered; after a round
\* the beam is in order.
CutInv ==
  pc \in {"round", "select"} =>
    /\ recent_hashes \subseteq KeysOf(tried) /\ offered \subseteq KeysOf(tried)
    /\ \A c \in tried :
         c \in Members(beam) \/ \A i \in 1..Width : ScoreOf(c) <= ScoreOf(beam[i])
    /\ r > 0 => \A i, j \in 1..Width : i < j => ScoreOf(beam[i]) >= ScoreOf(beam[j])

\* The best is that of the restarts that are over, as SelectedRestartIsFirstBest
\* says, and nothing ever scored beats it and the beam of the restart that runs.
BestInv ==
  /\ restart = 0 => best = NoCandidate /\ restart_scores = <<>>
  /\ restart > 0 => best \in Candidates /\ selected_restart < restart
  /\ Len(restart_scores) = restart
  /\ SelectedRestartIsFirstBest
  /\ pc = "finish" => restart > 0
  /\ pc = "finish" \/ (pc = "begin" /\ restart > 0) => ~ Replaces(Head1(beam))
  /\ beam # <<>> =>
       Incumbent \in scored /\ \A c \in scored : ScoreOf(c) <= ScoreOf(Incumbent)

\* The record of the restart agrees with its log until a reason other than the
\* plateau ends it; the plateau is there when it is the reason.
LogInv ==
  /\ pc \in {"round", "select"} => Len(log) = r + 1
  /\ pc = "round" => log[r + 1] = ScoreOf(Head1(beam))
  /\ (pc = "round" \/ (pc \in {"select", "finish", "done"} /\ early_stop.reason = "no_improve")) =>
       /\ Len(log) = r + 1
       /\ LogAgrees(early_stop, log, log[r + 1])
       /\ CreepIsBounded(early_stop, log[r + 1], r)
       /\ pc # "round" => PatienceExhausted(early_stop, r)

\* A search that goes on has not reached its target; one that is over has the reason
\* of its last restart.
ReasonInv ==
  /\ pc = "round" => early_stop.reason = "none"
  /\ pc \in {"begin", "round", "select"} /\ restart > 0 => ~ StopScoreReached(ScoreOf(best))
  /\ pc = "select" =>
       /\ early_stop.reason \in {"none", "target_score", "no_improve"}
       /\ (early_stop.reason = "target_score") = StopScoreReached(ScoreOf(beam[1]))
       /\ early_stop.reason = "none" => r = Rounds
  /\ pc = "finish" \/ (pc = "done" /\ sol.kind = "found") =>
       /\ (early_stop.reason = "target_score") = StopScoreReached(ScoreOf(best))
       /\ early_stop.reason # "target_score" => restart = Restarts
       /\ early_stop.reason = "max_rounds_reached" => r = Rounds
  /\ pc = "done" /\ sol.kind = "found" => sol.reason = early_stop.reason

-----------------------------------------------------------------------------
(* Facts about the operators.                                                 *)

\* The numbers.
LEMMA Numbers ==
  /\ Width \in Nat \ {0} /\ Rounds \in Nat \ {0} /\ Restarts \in Nat \ {0}
  /\ 1 \in 1..Width /\ Width \in 1..Width
BY BeamAssumption

LEMMA NoCandidateFacts == NoCandidate \notin Candidates /\ ScoreOf(NoCandidate) = NegInf
BY KeyAssumption DEF NoCandidate, Candidates, ScoreOf

\* Scoring keys, at whatever weight, gives as many candidates.
LEMMA ScoredFacts ==
  ASSUME landscape \in Landscapes, NEW w \in Weights
  PROVE  /\ landscape[w] \in [Keys -> Scores]
         /\ \A k \in Keys : Scored(k, w) \in Candidates /\ KeyOf(Scored(k, w)) = k
         /\ \A keys \in Seq(Keys) :
              /\ ScoredSeq(keys, w) \in Seq(Candidates) /\ Len(ScoredSeq(keys, w)) = Len(keys)
              /\ \A i \in 1..Len(keys) : KeyOf(ScoredSeq(keys, w)[i]) = keys[i]
<1>1. landscape[w] \in [Keys -> Scores]
  BY BeamAssumption
<1>2. \A k \in Keys : Scored(k, w) \in Candidates /\ KeyOf(Scored(k, w)) = k
  BY <1>1 DEF Scored, Candidates, KeyOf
<1>3. ASSUME NEW keys \in Seq(Keys)
      PROVE  /\ ScoredSeq(keys, w) \in Seq(Candidates) /\ Len(ScoredSeq(keys, w)) = Len(keys)
             /\ \A i \in 1..Len(keys) : KeyOf(ScoredSeq(keys, w)[i]) = keys[i]
  BY <1>2 DEF ScoredSeq
<1> QED BY <1>1, <1>2, <1>3

\* The head of candidates: the one that nothing precedes.
LEMMA HeadFacts ==
  ASSUME NEW cands \in Seq(Candidates), cands # <<>>
  PROVE  /\ \E h \in 1..Len(cands) :
              /\ Head1(cands) = cands[h]
              /\ \A j \in 1..Len(cands) : ~ Precedes(cands, j, h)
         /\ Head1(cands) \in Candidates
         /\ \A j \in 1..Len(cands) : ScoreOf(cands[j]) <= ScoreOf(Head1(cands))
<1>1. /\ DOMAIN cands = 1..Len(cands) /\ Len(cands) \in Nat \ {0}
      /\ \A j \in 1..Len(cands) : cands[j] \in Candidates
  OBVIOUS
<1>2. PICK i \in DOMAIN cands : Rank(cands, i) = 0
  <2>1. 0 \in 0..(Len(cands) - 1)
    BY <1>1
  <2> QED BY <2>1, RankIsOnto
<1>3. \A j \in DOMAIN cands : ~ Precedes(cands, j, i)
  <2> SUFFICES ASSUME NEW j \in DOMAIN cands, Precedes(cands, j, i) PROVE FALSE
    OBVIOUS
  <2>1. Rank(cands, j) < 0 /\ Rank(cands, j) \in 0..(Len(cands) - 1)
    BY <1>2, RankIsStrict, RankRange
  <2> QED BY <1>1, <2>1
<1> DEFINE h == CHOOSE n \in DOMAIN cands : \A j \in DOMAIN cands : ~ Precedes(cands, j, n)
<1>4. h \in DOMAIN cands /\ \A j \in DOMAIN cands : ~ Precedes(cands, j, h)
  BY <1>3
<1>5. Head1(cands) = cands[h]
  BY DEF Head1
<1> HIDE DEF h
<1>6. \A j \in 1..Len(cands) : ScoreOf(cands[j]) <= ScoreOf(cands[h])
  <2>1. \A j \in 1..Len(cands) : ScoreOf(cands[j]) \in Int
    BY <1>1, CandidateParts, ScoreRange
  <2> QED BY <1>1, <1>4, <2>1 DEF Precedes
<1> QED BY <1>1, <1>4, <1>5, <1>6

\* Candidates in order have their head at the front.
LEMMA HeadOfOrdered ==
  ASSUME NEW cands \in Seq(Candidates), cands # <<>>,
         \A i \in 1..Len(cands) : ScoreOf(cands[i]) <= ScoreOf(cands[1])
  PROVE  Head1(cands) = cands[1]
<1>1. PICK h \in 1..Len(cands) :
           Head1(cands) = cands[h] /\ \A j \in 1..Len(cands) : ~ Precedes(cands, j, h)
  BY HeadFacts
<1>2. 1 \in 1..Len(cands) /\ 1 \in Int /\ h \in Int
      /\ ScoreOf(cands[1]) \in Int /\ ScoreOf(cands[h]) \in Int
  BY CandidateParts, ScoreRange
<1>3. h = 1
  <2>1. ~ Precedes(cands, 1, h) /\ ScoreOf(cands[h]) <= ScoreOf(cands[1]) /\ h >= 1
    BY <1>1, <1>2
  <2> QED BY <1>2, <2>1 DEF Precedes
<1> QED BY <1>1, <1>3

\* The best score of a population is that of its head.
LEMMA BestScoreIsOfHead ==
  ASSUME NEW cands \in Seq(Candidates), cands # <<>>
  PROVE  BestScore({cands[i] : i \in 1..Len(cands)}) = ScoreOf(Head1(cands))
<1> DEFINE C == {cands[i] : i \in 1..Len(cands)}
           P(s) == s \in {ScoreOf(c) : c \in C} /\ \A c \in C : ScoreOf(c) <= s
<1>1. Head1(cands) \in C /\ P(ScoreOf(Head1(cands)))
  BY HeadFacts
<1>2. \A c \in C : ScoreOf(c) \in Int
  BY CandidateParts, ScoreRange
<1>3. \A s, t : P(s) /\ P(t) => s = t
  BY <1>2
<1>4. P(BestScore(C))
  BY <1>1 DEF BestScore
<1> HIDE DEF P
<1> QED BY <1>1, <1>3, <1>4

\* Cutting a beam and its children back: the beam gives its head up only to something
\* strictly better, and the best is at the front.
LEMMA HeadOfSelection ==
  ASSUME NEW cands \in Seq(Candidates), Len(cands) = Width,
         NEW more \in Seq(Candidates),
         NEW top, top = StableTopK(cands \o more, Width)
  PROVE  top[1] = Head1(cands) \/ ScoreOf(top[1]) > ScoreOf(Head1(cands))
<1> DEFINE pool == cands \o more
<1>1. /\ pool \in Seq(Candidates) /\ Len(pool) = Width + Len(more) /\ Len(pool) >= Width
      /\ \A i \in 1..Width : i \in DOMAIN pool /\ pool[i] = cands[i]
      /\ cands # <<>> /\ DOMAIN pool = 1..Len(pool)
  BY Numbers
<1>2. PICK n \in DOMAIN pool : top[1] = pool[n] /\ \A i \in DOMAIN pool : ~ Precedes(pool, i, n)
  <2> HIDE DEF pool
  <2>1. top = StableTopK(pool, Width)
    BY DEF pool
  <2> QED BY <1>1, <2>1, StableTopKHead, Numbers
<1>3. PICK h \in 1..Width : Head1(cands) = cands[h] /\ \A j \in 1..Width : ~ Precedes(cands, j, h)
  <2>1. \E h \in 1..Len(cands) :
           Head1(cands) = cands[h] /\ \A j \in 1..Len(cands) : ~ Precedes(cands, j, h)
    BY <1>1, HeadFacts, Zenon
  <2> QED BY <2>1
<1>4. n = h \/ Precedes(pool, n, h)
  BY <1>1, <1>2, <1>3, PrecedesIsOrder
<1>5. pool[h] = cands[h]
  BY <1>1
<1> HIDE DEF pool
<1>6. CASE n \in 1..Width
  <2>1. ~ Precedes(cands, n, h) /\ pool[n] = cands[n]
    BY <1>1, <1>3, <1>6
  <2>2. Precedes(pool, n, h) <=> Precedes(cands, n, h)
    BY <1>5, <2>1 DEF Precedes
  <2> QED BY <1>2, <1>3, <1>4, <1>5, <2>1, <2>2
<1>7. CASE n \notin 1..Width
  <2>1. n \in Nat /\ n >= 1 /\ ~ n <= Width /\ h \in Nat /\ h <= Width /\ Width \in Nat
    BY <1>1, <1>7, Numbers
  <2>2. n # h /\ ~ n < h
    BY <2>1
  <2>3. ScoreOf(pool[n]) > ScoreOf(pool[h])
    BY <1>4, <2>2 DEF Precedes
  <2> QED BY <1>2, <1>3, <1>5, <2>3
<1> QED BY <1>6, <1>7

-----------------------------------------------------------------------------
(* What the steps do.                                                         *)

\* A restart begins with a full beam, of all that it has scored and been offered.
LEMMA BeginRestartFacts ==
  ASSUME TypeOK, BeginRestart
  PROVE  /\ beam' \in Seq(Candidates) /\ Len(beam') = Width /\ beam' # <<>>
         /\ early_stop' = EarlyStopReset(ScoreOf(Head1(beam')))
         /\ log' = <<ScoreOf(Head1(beam'))>>
         /\ tried' = {beam'[i] : i \in 1..Width} /\ tried' = Members(beam')
         /\ offered' \subseteq Keys /\ offered' \subseteq KeysOf(tried')
         /\ scored' = scored \cup {beam'[i] : i \in 1..Width}
         /\ weight' \in Weights
<1>1. PICK p \in Populations :
        LET cands == ScoredSeq(p, weight')
            first == BestScore(Members(cands))
        IN  /\ beam' = cands
            /\ early_stop' = EarlyStopReset(first)
            /\ log' = <<first>>
            /\ offered' = {p[i] : i \in 1..Width}
            /\ tried' = Members(cands)
            /\ scored' = scored \cup tried'
  BY DEF BeginRestart
<1>2. p \in Seq(Keys) /\ Len(p) = Width /\ \A i \in 1..Width : p[i] \in Keys
  BY Numbers DEF Populations
<1>3. weight' \in Weights
  BY BeamAssumption DEF BeginRestart
<1>4. /\ beam' \in Seq(Candidates) /\ Len(beam') = Width /\ beam' # <<>>
      /\ \A i \in 1..Width : KeyOf(beam'[i]) = p[i]
  BY <1>1, <1>2, <1>3, ScoredFacts, Numbers DEF TypeOK
<1>5. Members(beam') = {beam'[i] : i \in 1..Width}
  BY <1>4 DEF Members
<1>6. BestScore(Members(beam')) = ScoreOf(Head1(beam'))
  BY <1>4, <1>5, BestScoreIsOfHead
<1>7. offered' \subseteq KeysOf(tried')
  BY <1>1, <1>4, <1>5 DEF KeysOf
<1> QED BY <1>1, <1>2, <1>3, <1>4, <1>5, <1>6, <1>7

\* A round keeps the best Width of the beam and of the rows that are scored, in
\* order; its window stays a window; what was scored in the restart and is not in the
\* beam is no better than the worst of it, and what was offered was scored.
LEMMA RoundFacts ==
  ASSUME TypeOK, BeamInv, WindowInv, CutInv, Round
  PROVE  /\ beam' \in Seq(Candidates) /\ Len(beam') = Width /\ beam' # <<>>
         /\ \A i, j \in 1..Width : i <= j => ScoreOf(beam'[i]) >= ScoreOf(beam'[j])
         /\ Head1(beam') = beam'[1]
         /\ beam'[1] = Head1(beam) \/ ScoreOf(beam'[1]) > ScoreOf(Head1(beam))
         /\ \A i \in 1..Width : beam'[i] \in scored'
         /\ scored \subseteq scored' /\ scored' \subseteq Candidates
         /\ \A c \in scored' : c \in scored \/ ScoreOf(c) <= ScoreOf(beam'[1])
         /\ IsWindow(recent_hashes', recent_queue')
         /\ tried' \subseteq scored' /\ offered' \subseteq Keys
         /\ recent_hashes' \subseteq KeysOf(tried') /\ offered' \subseteq KeysOf(tried')
         /\ \A c \in tried' : c \in Members(beam') \/ ScoreOf(c) <= ScoreOf(beam'[Width])
         /\ weight' \in Weights
<1>1. PICK rows \in SeqsUpTo(Keys, MaxChildren) \ {<<>>} :
        LET kept == DedupRows(rows)
            children == ScoredSeq(kept.keep, weight')
            top == StableTopK(Merged(beam, children), Width)
        IN  /\ beam' = top
            /\ recent_hashes' = kept.hashes /\ recent_queue' = kept.queue
            /\ offered' = offered \cup {rows[i] : i \in DOMAIN rows}
            /\ tried' = tried \cup Members(children)
            /\ scored' = scored \cup Members(children)
  BY DEF Round
<1>2. rows \in Seq(Keys)
  BY BeamAssumption DEF SeqsUpTo
<1> DEFINE kept == DedupRows(rows)
           ch == ScoredSeq(kept.keep, weight')
           pool == beam \o ch
<1>3. /\ kept.keep \in Seq(Keys)
      /\ IsWindow(kept.hashes, kept.queue)
      /\ kept.hashes \subseteq recent_hashes \cup Span(kept.keep)
      /\ Span(kept.keep) \subseteq Span(rows)
      /\ Span(rows) \subseteq recent_hashes \cup Span(kept.keep)
  BY <1>2, DedupRowsFacts DEF WindowInv
<1> HIDE DEF kept
<1>4. /\ beam' = StableTopK(pool, Width)
      /\ recent_hashes' = kept.hashes /\ recent_queue' = kept.queue
      /\ offered' = offered \cup Span(rows)
      /\ tried' = tried \cup Members(ch) /\ scored' = scored \cup Members(ch)
  BY <1>1 DEF kept, Merged, Span
<1>5. /\ pc = "round" /\ beam \in Seq(Candidates) /\ Len(beam) = Width /\ beam # <<>>
      /\ landscape \in Landscapes /\ scored \subseteq Candidates /\ offered \subseteq Keys
      /\ tried \subseteq scored
      /\ recent_hashes \subseteq KeysOf(tried) /\ offered \subseteq KeysOf(tried)
      /\ \A i \in 1..Width : beam[i] \in scored
  BY DEF Round, BeamInv, TypeOK, CutInv
<1>6. weight' \in Weights
  <2>1. r' \in 0..Rounds
    BY Numbers DEF Round, BeamInv, TypeOK
  <2> QED BY <2>1, BeamAssumption DEF Round
<1>7. /\ ch \in Seq(Candidates) /\ Len(ch) = Len(kept.keep)
      /\ \A i \in 1..Len(ch) : KeyOf(ch[i]) = kept.keep[i]
      /\ DOMAIN kept.keep = 1..Len(ch) /\ DOMAIN ch = 1..Len(ch)
  BY <1>3, <1>5, <1>6, ScoredFacts
<1> HIDE DEF ch
<1>8. /\ pool \in Seq(Candidates) /\ Len(pool) = Width + Len(ch) /\ Len(pool) >= Width
      /\ DOMAIN pool = 1..Len(pool)
      /\ \A i \in 1..Width : i \in DOMAIN pool /\ pool[i] = beam[i]
      /\ \A i \in 1..Len(ch) : Width + i \in DOMAIN pool /\ pool[Width + i] = ch[i]
  BY <1>5, <1>7, Numbers
<1>9. ASSUME NEW i \in DOMAIN pool
      PROVE  i \in 1..Width \/ \E j \in 1..Len(ch) : pool[i] = ch[j]
  <2>1. CASE i <= Width
    BY <1>8, <2>1, Numbers
  <2>2. CASE ~ i <= Width
    <3>1. i - Width \in 1..Len(ch) /\ Width + (i - Width) = i
      BY <1>7, <1>8, <2>2, Numbers
    <3> QED BY <1>8, <3>1
  <2> QED BY <2>1, <2>2
<1> HIDE DEF pool
<1>10. /\ beam' \in Seq(Candidates) /\ Len(beam') = Width
       /\ \A n \in 1..Width : \E i \in DOMAIN pool : beam'[n] = pool[i]
       /\ \A m, n \in 1..Width : m <= n => ScoreOf(beam'[m]) >= ScoreOf(beam'[n])
       /\ \A i \in DOMAIN pool :
            \/ \E n \in 1..Width : beam'[n] = pool[i]
            \/ ScoreOf(pool[i]) <= ScoreOf(beam'[Width])
  <2>1. pool \in Seq(Candidates) /\ Width \in Nat \ {0} /\ Len(pool) >= Width
    BY <1>8, Numbers
  <2> DEFINE top == StableTopK(pool, Width)
  <2>2. /\ top \in Seq(Candidates) /\ Len(top) = Width
        /\ \A n \in 1..Width : \E i \in DOMAIN pool : top[n] = pool[i]
        /\ \A m, n \in 1..Width : m <= n => ScoreOf(top[m]) >= ScoreOf(top[n])
        /\ \A i \in DOMAIN pool :
             \/ \E n \in 1..Width : top[n] = pool[i]
             \/ ScoreOf(pool[i]) <= ScoreOf(top[Width])
    BY <2>1, StableTopKIsBest, Zenon
  <2>3. beam' = top
    BY <1>4
  <2> HIDE DEF top
  <2> QED BY <2>2, <2>3, Zenon
<1>11. beam' # <<>> /\ DOMAIN beam' = 1..Width
       /\ \A n \in 1..Width : ScoreOf(beam'[n]) \in Int
  BY <1>10, Numbers, CandidateParts, ScoreRange
<1>12. Head1(beam') = beam'[1]
  <2>1. \A n \in 1..Width : ScoreOf(beam'[n]) <= ScoreOf(beam'[1])
    BY <1>10, <1>11, Numbers
  <2> QED BY <1>10, <1>11, <2>1, HeadOfOrdered
<1>13. beam'[1] = Head1(beam) \/ ScoreOf(beam'[1]) > ScoreOf(Head1(beam))
  BY <1>4, <1>5, <1>7, HeadOfSelection DEF pool
<1>14. \A i \in 1..Width : beam'[i] \in scored'
  <2>1. \A j \in 1..Len(ch) : ch[j] \in scored'
    BY <1>4, <1>7 DEF Members
  <2>2. \A i \in DOMAIN pool : pool[i] \in scored'
    BY <1>4, <1>5, <1>8, <1>9, <2>1
  <2> QED BY <1>10, <2>2
<1>15. scored' \subseteq Candidates /\ tried' \subseteq scored' /\ scored \subseteq scored'
  <2>1. Members(ch) \subseteq Candidates
    BY <1>7 DEF Members
  <2> QED BY <1>4, <1>5, <2>1
\* Whatever competed is in the beam or no better than its worst.
<1>16. ASSUME NEW i \in DOMAIN pool
       PROVE  /\ pool[i] \in Members(beam') \/ ScoreOf(pool[i]) <= ScoreOf(beam'[Width])
              /\ ScoreOf(pool[i]) <= ScoreOf(beam'[1])
  <2>1. CASE \E n \in 1..Width : beam'[n] = pool[i]
    BY <1>10, <1>11, <2>1, Numbers DEF Members
  <2>2. CASE ScoreOf(pool[i]) <= ScoreOf(beam'[Width])
    <3>1. ScoreOf(pool[i]) \in Int /\ ScoreOf(beam'[Width]) \in Int /\ ScoreOf(beam'[1]) \in Int
      BY <1>8, <1>11, Numbers, CandidateParts, ScoreRange
    <3>2. ScoreOf(beam'[Width]) <= ScoreOf(beam'[1])
      BY <1>10, <1>11, Numbers
    <3> QED BY <2>2, <3>1, <3>2
  <2> QED BY <1>10, <2>1, <2>2
<1>17. ASSUME NEW c \in Members(ch)
       PROVE  /\ c \in Members(beam') \/ ScoreOf(c) <= ScoreOf(beam'[Width])
              /\ ScoreOf(c) <= ScoreOf(beam'[1])
  <2>1. PICK j \in 1..Len(ch) : c = ch[j]
    BY <1>7 DEF Members
  <2>2. Width + j \in DOMAIN pool /\ pool[Width + j] = c
    BY <1>8, <2>1
  <2> QED BY <1>16, <2>2
<1>18. \A c \in scored' : c \in scored \/ ScoreOf(c) <= ScoreOf(beam'[1])
  BY <1>4, <1>17
<1>19. recent_hashes' \subseteq KeysOf(tried') /\ offered' \subseteq KeysOf(tried')
       /\ offered' \subseteq Keys
  <2>1. Span(rows) \subseteq Keys
    BY <1>2 DEF Span
  <2>2. Span(kept.keep) \subseteq KeysOf(tried')
    BY <1>4, <1>7 DEF Span, KeysOf, Members
  <2>3. KeysOf(tried) \subseteq KeysOf(tried')
    BY <1>4 DEF KeysOf
  <2> QED BY <1>3, <1>4, <1>5, <2>1, <2>2, <2>3
<1>20. ASSUME NEW c \in tried'
       PROVE  c \in Members(beam') \/ ScoreOf(c) <= ScoreOf(beam'[Width])
  <2>1. CASE c \in Members(ch)
    BY <1>17, <2>1
  <2>2. CASE c \in Members(beam)
    <3>1. PICK i \in 1..Width : c = beam[i]
      BY <1>5, <2>2 DEF Members
    <3> QED BY <1>8, <1>16, <3>1
  <2>3. CASE c \in tried /\ \A i \in 1..Width : ScoreOf(c) <= ScoreOf(beam[i])
    <3>1. ScoreOf(c) \in Int
      <4>1. c \in Candidates
        BY <1>5, <2>3
      <4> QED BY <4>1, CandidateParts, ScoreRange
    <3>2. /\ 1..Width \in SUBSET (DOMAIN pool) /\ Cardinality(1..Width) = Width
          /\ \A i \in 1..Width : ScoreOf(pool[i]) >= ScoreOf(c)
      <4>1. \A i \in 1..Width : ScoreOf(beam[i]) \in Int
        BY <1>5, CandidateParts, ScoreRange
      <4>2. Cardinality(1..Width) = Width
        BY Numbers, IntervalSize
      <4> QED BY <1>8, <2>3, <3>1, <4>1, <4>2
    <3> DEFINE G == 1..Width
    <3>3. Cardinality(G) >= Width
      BY <3>2, Numbers
    <3> HIDE DEF G
    <3>4. ScoreOf(StableTopK(pool, Width)[Width]) >= ScoreOf(c)
      <4>1. G \in SUBSET (DOMAIN pool) /\ \A i \in G : ScoreOf(pool[i]) >= ScoreOf(c)
        BY <3>2 DEF G
      <4>2. Width \in Nat /\ Width \in 1..Width
        BY Numbers
      <4> DEFINE s == ScoreOf(c)
      <4> HIDE DEF s
      <4>3. G \in SUBSET (DOMAIN pool) /\ (\A i \in G : ScoreOf(pool[i]) >= s) /\ s \in Int
        BY <3>1, <4>1 DEF s
      <4>4. ScoreOf(StableTopK(pool, Width)[Width]) >= s
        BY <1>8, <3>3, <4>2, <4>3, StableTopKThreshold
      <4> QED BY <4>4 DEF s
    <3>5. ScoreOf(beam'[Width]) \in Int
      BY <1>11, Numbers
    <3> QED BY <1>4, <3>1, <3>4, <3>5
  <2> QED BY <1>4, <1>5, <2>1, <2>2, <2>3 DEF CutInv
<1>21. IsWindow(recent_hashes', recent_queue')
  BY <1>3, <1>4
<1> QED BY <1>6, <1>10, <1>11, <1>12, <1>13, <1>14, <1>15, <1>18, <1>19, <1>20, <1>21

\* What a round does besides.
LEMMA RoundControl ==
  ASSUME Round
  PROVE  /\ pc = "round" /\ r' = r + 1
         /\ early_stop' = IF StopScoreReached(ScoreOf(beam'[1]))
                          THEN WithReason(early_stop, "target_score")
                          ELSE EarlyStopUpdate(early_stop, ScoreOf(beam'[1]), r')
         /\ pc' = IF \/ StopScoreReached(ScoreOf(beam'[1]))
                     \/ PlateauFires(early_stop, ScoreOf(beam'[1]), r')
                     \/ r' = Rounds
                  THEN "select" ELSE "round"
         /\ log' = Append(log, ScoreOf(beam'[1]))
         /\ UNCHANGED <<landscape, seed_keys, test_key, restart, best, selected_restart,
                        restart_scores, sol>>
BY DEF Round, problem, chosen

\* The head of the beam in the states where there is one.
LEMMA BeamHead ==
  ASSUME TypeOK, beam # <<>>
  PROVE  /\ Len(beam) = Width /\ DOMAIN beam = 1..Width /\ beam[1] \in Candidates
         /\ Head1(beam) \in Candidates /\ ScoreOf(Head1(beam)) \in Scores
         /\ ScoreOf(beam[1]) \in Scores
         /\ \A i \in 1..Width : ScoreOf(beam[i]) <= ScoreOf(Head1(beam))
<1>1. beam \in Seq(Candidates) /\ Len(beam) = Width
  BY DEF TypeOK
<1>2. beam[1] \in Candidates /\ DOMAIN beam = 1..Width
  BY <1>1, Numbers
<1>3. Head1(beam) \in Candidates /\ \A i \in 1..Width : ScoreOf(beam[i]) <= ScoreOf(Head1(beam))
  BY <1>1, HeadFacts
<1> QED BY <1>1, <1>2, <1>3, CandidateParts

\* The record after a round.
LEMMA RecordFacts ==
  ASSUME TypeOK, BeamInv, WindowInv, CutInv, LogInv, ReasonInv, Round
  PROVE  /\ early_stop' \in EarlyStops
         /\ ScoreOf(beam'[1]) \in Scores /\ r' \in 1..Rounds
         /\ log' \in Seq(Scores) /\ Len(log') = r' + 1 /\ log'[r' + 1] = ScoreOf(beam'[1])
         /\ ~ StopScoreReached(ScoreOf(beam'[1])) =>
              /\ early_stop'.reason =
                   IF PlateauFires(early_stop, ScoreOf(beam'[1]), r') THEN "no_improve" ELSE "none"
              /\ PlateauFires(early_stop, ScoreOf(beam'[1]), r') => PatienceExhausted(early_stop', r')
              /\ LogAgrees(early_stop', log', ScoreOf(beam'[1]))
              /\ CreepIsBounded(early_stop', ScoreOf(beam'[1]), r')
         /\ StopScoreReached(ScoreOf(beam'[1])) => early_stop'.reason = "target_score"
<1> DEFINE new == ScoreOf(beam'[1])
           old == ScoreOf(Head1(beam))
           es == EarlyStopUpdate(early_stop, new, r')
<1>1. /\ pc = "round" /\ r' = r + 1 /\ r \in Nat /\ r < Rounds /\ Rounds \in Nat
      /\ early_stop \in EarlyStops /\ log \in Seq(Scores) /\ Len(log) = r + 1
      /\ beam # <<>> /\ early_stop.reason = "none"
      /\ log[r + 1] = old
      /\ LogAgrees(early_stop, log, old) /\ CreepIsBounded(early_stop, old, r)
  BY RoundControl, Numbers DEF TypeOK, BeamInv, LogInv, ReasonInv
<1>2. new \in Scores /\ old \in Scores /\ old <= new
  <2>1. old \in Scores
    BY <1>1, BeamHead
  <2>2. beam' \in Seq(Candidates) /\ Len(beam') = Width
        /\ (beam'[1] = Head1(beam) \/ new > old)
    BY RoundFacts
  <2>3. beam'[1] \in Candidates
    BY <2>2, Numbers
  <2>4. new \in Scores
    BY <2>3, CandidateParts
  <2> QED BY <2>1, <2>2, <2>4, ScoreRange
<1> HIDE DEF new, old
<1>3. r' \in 1..Rounds /\ r' \in Nat
  BY <1>1
<1>4. log' = Append(log, new)
  BY RoundControl DEF new
<1>5. log' \in Seq(Scores) /\ Len(log') = r' + 1 /\ log'[r' + 1] = new
  BY <1>1, <1>2, <1>4
<1>6. early_stop' \in EarlyStops
  <2>1. es \in EarlyStops /\ WithReason(early_stop, "target_score") \in EarlyStops
    BY <1>1, <1>2, <1>3, EarlyStopTypes, WithReasonType DEF Reasons
  <2> QED BY <2>1, RoundControl DEF new
<1>7. ASSUME ~ StopScoreReached(new)
      PROVE  /\ early_stop'.reason = IF PlateauFires(early_stop, new, r') THEN "no_improve" ELSE "none"
             /\ PlateauFires(early_stop, new, r') => PatienceExhausted(early_stop', r')
             /\ LogAgrees(early_stop', log', new)
             /\ CreepIsBounded(early_stop', new, r')
  <2>1. early_stop' = es
    BY <1>7, RoundControl DEF new
  <2>2. LogAgrees(es, log, new) /\ CreepIsBounded(es, new, r')
    <3>1. /\ r \in Nat /\ r' \in Nat /\ r <= r' /\ Len(log) <= r'
      BY <1>1, <1>3
    <3> QED BY <1>1, <1>2, <3>1, LogAfterUpdate
  <2>3. LogAgrees(es, log', new)
    <3>1. es \in EarlyStops /\ Len(log) = r' /\ r' \in Nat
      BY <1>1, <1>3, <1>6, <2>1
    <3> HIDE DEF es
    <3> QED BY <1>1, <1>2, <1>4, <2>2, <3>1, LogAfterAppend
  <2>4. /\ es.reason = IF PlateauFires(early_stop, new, r') THEN "no_improve" ELSE early_stop.reason
        /\ (PlateauFires(early_stop, new, r') <=> PatienceExhausted(es, r'))
    <3>1. early_stop.at <= r' /\ early_stop.best <= new
      <4>1. /\ early_stop.at \in Int /\ early_stop.best \in Int
            /\ early_stop.at <= r /\ early_stop.best <= old /\ old \in Int /\ new \in Int
        BY <1>1, <1>2, EarlyStopNumbers, ScoreRange DEF CreepIsBounded
      <4> QED BY <1>1, <1>2, <4>1
    <3> QED BY <1>1, <1>2, <1>3, <3>1, UpdateFacts
  <2> HIDE DEF es
  <2> QED BY <1>1, <2>1, <2>2, <2>3, <2>4
<1>8. ASSUME StopScoreReached(new) PROVE early_stop'.reason = "target_score"
  <2>1. early_stop' = WithReason(early_stop, "target_score")
    BY <1>8, RoundControl DEF new
  <2> QED BY <1>1, <2>1, WithReasonType DEF Reasons
<1> QED BY <1>2, <1>3, <1>5, <1>6, <1>7, <1>8 DEF new

\* A restart that is over puts its beam's first up against the best.
LEMMA SelectFacts ==
  ASSUME TypeOK, BeamInv, CutInv, BestInv, SelectRestart
  PROVE  /\ pc = "select" /\ beam # <<>> /\ Head1(beam) = beam[1]
         /\ restart \in 0..(Restarts - 1) /\ restart' = restart + 1 /\ restart' \in 1..Restarts
         /\ beam[1] \in Candidates /\ ScoreOf(beam[1]) \in Scores
         /\ restart_scores' = Append(restart_scores, ScoreOf(beam[1]))
         /\ IF Replaces(beam[1])
              THEN best' = beam[1] /\ selected_restart' = restart
              ELSE best' = best /\ selected_restart' = selected_restart
         /\ pc' = IF early_stop.reason = "target_score" \/ restart' = Restarts
                  THEN "finish" ELSE "begin"
         /\ early_stop' = IF pc' = "finish" /\ early_stop.reason = "none"
                          THEN WithReason(early_stop, "max_rounds_reached") ELSE early_stop
         /\ UNCHANGED <<landscape, seed_keys, test_key, weight, r, beam, recent_hashes,
                        recent_queue, sol, scored, tried, offered, log>>
         /\ restart = 0 => Replaces(beam[1])
         /\ best' \in Candidates /\ (best' = beam[1] \/ best' = best)
<1>1. pc = "select" /\ beam # <<>> /\ r > 0 /\ restart < Restarts
  BY DEF SelectRestart, BeamInv
<1>2. beam[1] \in Candidates /\ ScoreOf(beam[1]) \in Scores /\ Len(beam) = Width
      /\ beam \in Seq(Candidates)
  BY <1>1, BeamHead DEF TypeOK
<1>3. Head1(beam) = beam[1]
  <2>1. \A i \in 1..Width : ScoreOf(beam[i]) \in Int
    BY <1>2, CandidateParts, ScoreRange
  <2>2. \A i \in 1..Width : i = 1 \/ ScoreOf(beam[1]) >= ScoreOf(beam[i])
    BY <1>1, Numbers DEF CutInv
  <2>3. \A i \in 1..Len(beam) : ScoreOf(beam[i]) <= ScoreOf(beam[1])
    BY <1>2, <2>1, <2>2, Numbers
  <2> QED BY <1>1, <1>2, <2>3, HeadOfOrdered
<1>4. restart \in 0..(Restarts - 1) /\ restart' = restart + 1 /\ restart' \in 1..Restarts
  BY <1>1, Numbers DEF TypeOK, SelectRestart
<1>5. restart = 0 => Replaces(beam[1])
  BY DEF BestInv, Replaces
<1>6. IF Replaces(beam[1])
        THEN best' = beam[1] /\ selected_restart' = restart
        ELSE best' = best /\ selected_restart' = selected_restart
  BY DEF SelectRestart
<1>7. best' \in Candidates /\ (best' = beam[1] \/ best' = best)
  <2>1. ~ Replaces(beam[1]) => best \in Candidates
    BY DEF Replaces, TypeOK
  <2> QED BY <1>2, <1>6, <2>1
<1>8. pc' = IF early_stop.reason = "target_score" \/ restart' = Restarts
            THEN "finish" ELSE "begin"
  BY DEF SelectRestart, EndsSearch
<1> QED BY <1>1, <1>2, <1>3, <1>4, <1>5, <1>6, <1>7, <1>8 DEF SelectRestart, problem, window, history

-----------------------------------------------------------------------------
(* Every step keeps the invariant.                                            *)

LEMMA TypeStep ==
  ASSUME TypeOK, BeamInv, WindowInv, CutInv, BestInv, LogInv, ReasonInv, [Next]_vars
  PROVE  TypeOK'
<1> USE Numbers
<1>1. CASE TestKeyFastPath
  <2>1. test_key \in Keys /\ Scored(test_key, weight) \in Candidates
    BY <1>1, ScoredFacts DEF TypeOK, TestKeyFastPath
  <2>2. sol' \in Solutions /\ early_stop' \in EarlyStops
    BY <1>1, <2>1, WithReasonType DEF TypeOK, TestKeyFastPath, Solutions, Reasons
  <2> QED BY <1>1, <2>2 DEF TypeOK, TestKeyFastPath, problem, window, chosen, history
<1>2. CASE Begin
  BY <1>2 DEF TypeOK, Begin, problem, window, chosen, history
<1>3. CASE BeginRestart
  <2>1. /\ beam' \in Seq(Candidates) /\ Len(beam') = Width /\ beam' # <<>>
        /\ early_stop' = EarlyStopReset(ScoreOf(Head1(beam')))
        /\ log' = <<ScoreOf(Head1(beam'))>>
        /\ offered' \subseteq Keys /\ weight' \in Weights
        /\ tried' = {beam'[i] : i \in 1..Width}
        /\ scored' = scored \cup {beam'[i] : i \in 1..Width}
    BY <1>3, BeginRestartFacts
  <2>2. ScoreOf(Head1(beam')) \in Scores
    BY <2>1, HeadFacts, CandidateParts
  <2>3. early_stop' \in EarlyStops /\ log' \in Seq(Scores) /\ Len(log') = 1
    BY <2>1, <2>2, EarlyStopResetType
  <2>4. tried' \subseteq scored' /\ scored' \subseteq Candidates
    BY <2>1 DEF TypeOK
  <2>5. pc' = "round" /\ r' = 0 /\ recent_hashes' = {} /\ recent_queue' = <<>>
        /\ UNCHANGED <<problem, restart, chosen, sol>>
    BY <1>3 DEF BeginRestart
  <2> QED BY <2>1, <2>3, <2>4, <2>5 DEF TypeOK, problem, chosen
<1>4. CASE Round
  <2>1. /\ beam' \in Seq(Candidates) /\ Len(beam') = Width
        /\ tried' \subseteq scored' /\ scored' \subseteq Candidates /\ offered' \subseteq Keys
        /\ weight' \in Weights /\ IsWindow(recent_hashes', recent_queue')
    BY <1>4, RoundFacts
  <2>2. /\ early_stop' \in EarlyStops /\ r' \in 1..Rounds
        /\ log' \in Seq(Scores) /\ Len(log') = r' + 1
    BY <1>4, RecordFacts
  <2>3. recent_hashes' \subseteq Keys /\ recent_queue' \in Seq(Keys)
    BY <2>1 DEF IsWindow
  <2>4. /\ pc' \in {"round", "select"}
        /\ UNCHANGED <<landscape, seed_keys, test_key, restart, best, selected_restart,
                       restart_scores, sol>>
    BY <1>4, RoundControl
  <2>5. r' \in 0..Rounds /\ r' + 1 <= Rounds + 1
    <3> DEFINE n == r'
    <3>1. n \in 1..Rounds
      BY <2>2
    <3> HIDE DEF n
    <3>2. n \in 0..Rounds /\ n + 1 <= Rounds + 1
      BY <3>1
    <3> QED BY <3>2 DEF n
  <2>6. Len(log') <= Rounds + 1
    BY <2>2, <2>5
  <2> QED BY <2>1, <2>2, <2>3, <2>4, <2>5, <2>6 DEF TypeOK
<1>5. CASE SelectRestart
  <2>1. /\ restart \in 0..(Restarts - 1) /\ restart' = restart + 1 /\ restart' \in 1..Restarts
        /\ restart_scores' = Append(restart_scores, ScoreOf(beam[1]))
        /\ ScoreOf(beam[1]) \in Scores /\ beam[1] \in Candidates
        /\ pc' \in {"finish", "begin"}
        /\ UNCHANGED <<landscape, seed_keys, test_key, weight, r, beam, recent_hashes,
                       recent_queue, sol, scored, tried, offered, log>>
    BY <1>5, SelectFacts
  <2>2. best' \in Candidates \cup {NoCandidate} /\ selected_restart' \in 0..(Restarts - 1)
    BY <1>5, <2>1, SelectFacts DEF TypeOK
  <2>3. early_stop' \in EarlyStops
    <3>1. WithReason(early_stop, "max_rounds_reached") \in EarlyStops
      BY WithReasonType DEF TypeOK, Reasons
    <3> QED BY <1>5, <3>1, SelectFacts DEF TypeOK
  <2>4. restart_scores' \in Seq(Scores) /\ Len(restart_scores') <= Restarts
    BY <2>1 DEF TypeOK, BestInv
  <2>5. restart' \in 0..Restarts
    BY <2>1
  <2> QED BY <2>1, <2>2, <2>3, <2>4, <2>5 DEF TypeOK
<1>6. CASE Finish
  <2>1. beam # <<>> /\ best \in Candidates
    BY <1>6 DEF Finish, BeamInv, BestInv, TypeOK
  <2>2. landscape[weight] \in [Keys -> Scores] /\ early_stop.reason \in Reasons
    BY ScoredFacts DEF TypeOK, EarlyStops
  <2>3. sol' \in Solutions
    <3>1. CASE IsFinite(ScoreOf(best))
      <4>1. PICK c \in LocalImprove(best, landscape[weight]) :
                 sol' = [kind |-> "found", cand |-> c, reason |-> early_stop.reason]
        BY <1>6, <3>1 DEF Finish
      <4>2. c \in Candidates
        BY <2>1, <2>2, LocalImproveFacts
      <4> QED BY <2>2, <4>1, <4>2 DEF Solutions
    <3>2. CASE ~ IsFinite(ScoreOf(best))
      BY <1>6, <2>1, <3>2 DEF Finish, Solutions, Reasons
    <3> QED BY <3>1, <3>2
  <2> QED BY <1>6, <2>3 DEF TypeOK, Finish, problem, window, chosen, history
<1>7. CASE Raise
  <2>1. early_stop' \in EarlyStops
    BY <1>7, WithReasonType DEF Raise, TypeOK, Reasons
  <2>2. sol' \in Solutions
    BY <1>7, <2>1 DEF Raise, EarlyStops, Solutions
  <2> QED BY <1>7, <2>1, <2>2 DEF TypeOK, Raise, problem, window, chosen, history
<1>8. CASE Stopped \/ UNCHANGED vars
  BY <1>8 DEF TypeOK, Stopped, vars, problem, window, chosen, history
<1> QED BY <1>1, <1>2, <1>3, <1>4, <1>5, <1>6, <1>7, <1>8 DEF Next, Step

LEMMA BeamStep ==
  ASSUME TypeOK, BeamInv, WindowInv, CutInv, BestInv, LogInv, ReasonInv, [Next]_vars
  PROVE  BeamInv'
<1> USE Numbers
<1>1. CASE TestKeyFastPath
  BY <1>1 DEF BeamInv, TestKeyFastPath, history
<1>2. CASE Begin
  BY <1>2 DEF BeamInv, Begin, history
<1>3. CASE BeginRestart
  <2>1. /\ beam' \in Seq(Candidates) /\ Len(beam') = Width /\ beam' # <<>>
        /\ scored' = scored \cup {beam'[i] : i \in 1..Width}
    BY <1>3, BeginRestartFacts
  <2>2. DOMAIN beam' = 1..Width
    BY <2>1
  <2> QED BY <1>3, <2>1, <2>2 DEF BeamInv, BeginRestart, history
<1>4. CASE Round
  <2>1. /\ beam' \in Seq(Candidates) /\ Len(beam') = Width /\ beam' # <<>>
        /\ \A i \in 1..Width : beam'[i] \in scored'
    BY <1>4, RoundFacts
  <2>2. DOMAIN beam' = 1..Width
    BY <2>1
  <2>3. r' \in 1..Rounds
    BY <1>4, RecordFacts
  <2>4. /\ pc = "round" /\ pc' \in {"round", "select"} /\ (r' = Rounds => pc' = "select")
        /\ UNCHANGED <<restart, sol>>
    BY <1>4, RoundControl
  <2> QED BY <2>1, <2>2, <2>3, <2>4 DEF BeamInv
<1>5. CASE SelectRestart
  <2>1. /\ pc = "select" /\ beam # <<>> /\ restart' \in 1..Restarts
        /\ pc' = IF early_stop.reason = "target_score" \/ restart' = Restarts
                 THEN "finish" ELSE "begin"
        /\ UNCHANGED <<beam, sol, scored>>
    BY <1>5, SelectFacts
  <2> QED BY <2>1 DEF BeamInv
<1>6. CASE Finish
  BY <1>6 DEF BeamInv, Finish, history
<1>7. CASE Raise
  BY <1>7 DEF BeamInv, Raise, history
<1>8. CASE Stopped \/ UNCHANGED vars
  BY <1>8 DEF BeamInv, Stopped, vars, history
<1> QED BY <1>1, <1>2, <1>3, <1>4, <1>5, <1>6, <1>7, <1>8 DEF Next, Step

LEMMA WindowStep ==
  ASSUME TypeOK, BeamInv, WindowInv, CutInv, [Next]_vars
  PROVE  WindowInv'
<1>1. CASE BeginRestart
  <2>1. recent_hashes' = {} /\ recent_queue' = <<>>
    BY <1>1 DEF BeginRestart
  <2>2. WindowSize \in Nat
    BY BeamAssumption DEF WindowSize
  <2>3. IsWindow({}, <<>>)
    BY <2>2 DEF IsWindow, Span, Distinct
  <2> QED BY <2>1, <2>3 DEF WindowInv
<1>2. CASE Round
  BY <1>2, RoundFacts DEF WindowInv
<1>3. CASE UNCHANGED window
  BY <1>3 DEF WindowInv, window
<1> QED BY <1>1, <1>2, <1>3
        DEF Next, Step, TestKeyFastPath, Begin, SelectRestart, Finish, Raise, Stopped, vars

LEMMA CutStep ==
  ASSUME TypeOK, BeamInv, WindowInv, CutInv, BestInv, [Next]_vars
  PROVE  CutInv'
<1>1. CASE BeginRestart
  <2>1. /\ recent_hashes' = {} /\ r' = 0
        /\ tried' = Members(beam') /\ offered' \subseteq KeysOf(tried')
    BY <1>1, BeginRestartFacts DEF BeginRestart
  <2> QED BY <2>1 DEF CutInv, Members, KeysOf
<1>2. CASE Round
  <2>1. /\ beam' \in Seq(Candidates) /\ Len(beam') = Width
        /\ \A i, j \in 1..Width : i <= j => ScoreOf(beam'[i]) >= ScoreOf(beam'[j])
        /\ recent_hashes' \subseteq KeysOf(tried') /\ offered' \subseteq KeysOf(tried')
        /\ tried' \subseteq scored' /\ scored' \subseteq Candidates
        /\ \A c \in tried' : c \in Members(beam') \/ ScoreOf(c) <= ScoreOf(beam'[Width])
    BY <1>2, RoundFacts
  <2>2. \A i \in 1..Width : ScoreOf(beam'[i]) \in Int
    BY <2>1, CandidateParts, ScoreRange
  <2>3. \A c \in tried' : ScoreOf(c) \in Int
    BY <2>1, CandidateParts, ScoreRange
  <2>4. \A i \in 1..Width : ScoreOf(beam'[i]) >= ScoreOf(beam'[Width])
    BY <2>1, Numbers
  <2>5. \A c \in tried' :
          c \in Members(beam') \/ \A i \in 1..Width : ScoreOf(c) <= ScoreOf(beam'[i])
    BY <2>1, <2>2, <2>3, <2>4, Numbers
  <2>6. \A i, j \in 1..Width : i < j => i <= j
    BY Numbers
  <2> QED BY <2>1, <2>5, <2>6 DEF CutInv, Members, KeysOf
<1>3. CASE pc' \notin {"round", "select"}
  BY <1>3 DEF CutInv
<1>4. CASE UNCHANGED vars
  BY <1>4 DEF CutInv, Members, KeysOf, vars, window, history
<1> QED BY <1>1, <1>2, <1>3, <1>4
        DEF Next, Step, TestKeyFastPath, Begin, SelectRestart, Finish, Raise, Stopped

\* The incumbent, spelled out.
LEMMA IncumbentFacts ==
  ASSUME TypeOK, BeamInv, BestInv, beam # <<>>
  PROVE  /\ Head1(beam) \in Candidates /\ ScoreOf(Head1(beam)) \in Int
         /\ restart = 0 => Incumbent = Head1(beam) /\ best = NoCandidate
         /\ restart > 0 =>
              /\ best \in Candidates /\ ScoreOf(best) \in Int /\ best # NoCandidate
              /\ Incumbent = IF ScoreOf(Head1(beam)) > ScoreOf(best) THEN Head1(beam) ELSE best
         /\ restart = 0 \/ restart > 0
         /\ Incumbent \in Candidates /\ ScoreOf(Incumbent) \in Int
<1>1. Head1(beam) \in Candidates /\ ScoreOf(Head1(beam)) \in Int
  BY BeamHead, ScoreRange
<1>2. restart = 0 => Incumbent = Head1(beam) /\ best = NoCandidate
  BY DEF Incumbent, Replaces, BestInv
<1>3. restart > 0 =>
        /\ best \in Candidates /\ ScoreOf(best) \in Int /\ best # NoCandidate
        /\ Incumbent = IF ScoreOf(Head1(beam)) > ScoreOf(best) THEN Head1(beam) ELSE best
  BY NoCandidateFacts, CandidateParts, ScoreRange DEF BestInv, Incumbent, Replaces
<1>4. restart = 0 \/ restart > 0
  BY Numbers DEF TypeOK
<1> QED BY <1>1, <1>2, <1>3, <1>4

LEMMA BestStep ==
  ASSUME TypeOK, BeamInv, WindowInv, CutInv, BestInv, TypeOK', [Next]_vars
  PROVE  BestInv'
<1> USE Numbers
<1>1. CASE BeginRestart
  <2> DEFINE head == Head1(beam')
  <2>1. /\ beam' \in Seq(Candidates) /\ Len(beam') = Width /\ beam' # <<>>
        /\ scored' = scored \cup {beam'[i] : i \in 1..Width}
    BY <1>1, BeginRestartFacts
  <2>2. /\ pc = "begin" /\ pc' = "round"
        /\ UNCHANGED <<restart, best, selected_restart, restart_scores>>
    BY <1>1 DEF BeginRestart, chosen
  <2>3. /\ head \in Candidates /\ ScoreOf(head) \in Int /\ head \in scored'
        /\ \A i \in 1..Width : ScoreOf(beam'[i]) <= ScoreOf(head)
    BY <2>1, HeadFacts, CandidateParts, ScoreRange
  <2>4. Incumbent' = IF best = NoCandidate \/ ScoreOf(head) > ScoreOf(best) THEN head ELSE best
    BY <2>1, <2>2 DEF Incumbent, Replaces
  <2>5. \A i \in 1..Width : ScoreOf(beam'[i]) \in Int
    BY <2>1, CandidateParts, ScoreRange
  <2> HIDE DEF head
  <2>6. CASE restart = 0
    <3>1. best = NoCandidate /\ scored = {}
      BY <2>2, <2>6 DEF BestInv, BeamInv
    <3>2. Incumbent' \in scored' /\ \A c \in scored' : ScoreOf(c) <= ScoreOf(Incumbent')
      BY <2>1, <2>3, <2>4, <3>1
    <3> QED BY <2>2, <2>6, <3>2 DEF BestInv, SelectedRestartIsFirstBest
  <2>7. CASE restart > 0
    <3>1. beam # <<>> /\ ~ Replaces(Head1(beam))
      BY <2>2, <2>7 DEF BestInv, BeamInv
    <3>2. /\ Incumbent = best /\ best \in scored /\ best \in Candidates /\ ScoreOf(best) \in Int
          /\ best # NoCandidate
          /\ \A c \in scored : ScoreOf(c) <= ScoreOf(best)
      BY <2>7, <3>1, IncumbentFacts DEF BestInv, Incumbent
    <3>3. \A c \in scored : ScoreOf(c) \in Int
      BY CandidateParts, ScoreRange DEF TypeOK
    <3>4. Incumbent' \in scored' /\ \A c \in scored' : ScoreOf(c) <= ScoreOf(Incumbent')
      BY <2>1, <2>3, <2>4, <2>5, <3>2, <3>3
    <3> QED BY <2>2, <2>7, <3>4 DEF BestInv, SelectedRestartIsFirstBest
  <2> QED BY <2>6, <2>7 DEF TypeOK
<1>2. CASE Round
  <2> DEFINE head == Head1(beam')
  <2>1. /\ beam' \in Seq(Candidates) /\ Len(beam') = Width /\ beam' # <<>>
        /\ head = beam'[1]
        /\ head = Head1(beam) \/ ScoreOf(head) > ScoreOf(Head1(beam))
        /\ beam'[1] \in scored' /\ scored \subseteq scored'
        /\ \A c \in scored' : c \in scored \/ ScoreOf(c) <= ScoreOf(head)
    BY <1>2, RoundFacts
  <2>2. /\ pc = "round" /\ pc' \in {"round", "select"}
        /\ UNCHANGED <<restart, best, selected_restart, restart_scores>>
    BY <1>2, RoundControl
  <2>3. beam # <<>>
    BY <2>2 DEF BeamInv
  <2>4. head \in Candidates /\ ScoreOf(head) \in Int
    BY <2>1, HeadFacts, CandidateParts, ScoreRange
  <2>5. Incumbent' = IF best = NoCandidate \/ ScoreOf(head) > ScoreOf(best) THEN head ELSE best
    BY <2>1, <2>2 DEF Incumbent, Replaces
  <2>6. /\ Incumbent \in scored /\ \A c \in scored : ScoreOf(c) <= ScoreOf(Incumbent)
        /\ \A c \in scored : ScoreOf(c) \in Int
    BY <2>3, CandidateParts, ScoreRange DEF BestInv, TypeOK
  <2>7. \A c \in scored' : ScoreOf(c) \in Int
    BY <1>2, RoundFacts, CandidateParts, ScoreRange
  <2> HIDE DEF head
  <2>8. Incumbent' \in scored' /\ \A c \in scored' : ScoreOf(c) <= ScoreOf(Incumbent')
    <3>1. CASE restart = 0
      <4>1. Incumbent = Head1(beam) /\ Incumbent' = head /\ ScoreOf(Head1(beam)) \in Int
        BY <2>3, <2>5, <3>1, IncumbentFacts
      <4> QED BY <2>1, <2>4, <2>6, <4>1
    <3>2. CASE restart > 0
      <4>1. /\ ScoreOf(Head1(beam)) \in Int /\ ScoreOf(best) \in Int /\ best # NoCandidate
            /\ Incumbent = IF ScoreOf(Head1(beam)) > ScoreOf(best) THEN Head1(beam) ELSE best
        BY <2>3, <3>2, IncumbentFacts
      <4>2. CASE ScoreOf(head) > ScoreOf(best)
        <5>1. Incumbent' = head /\ ScoreOf(Incumbent) <= ScoreOf(head)
          BY <2>1, <2>4, <2>5, <4>1, <4>2
        <5> QED BY <2>1, <2>4, <2>6, <2>7, <5>1
      <4>3. CASE ~ ScoreOf(head) > ScoreOf(best)
        <5>1. Incumbent' = best /\ Incumbent = best
          BY <2>1, <2>4, <2>5, <4>1, <4>3
        <5> QED BY <2>1, <2>4, <2>6, <2>7, <4>1, <4>3, <5>1
      <4> QED BY <4>2, <4>3
    <3> QED BY <2>3, <3>1, <3>2, IncumbentFacts
  <2> QED BY <2>2, <2>8 DEF BestInv, SelectedRestartIsFirstBest
<1>3. CASE SelectRestart
  <2> DEFINE head == beam[1]
  <2>1. /\ pc = "select" /\ beam # <<>> /\ Head1(beam) = head
        /\ restart \in 0..(Restarts - 1) /\ restart' = restart + 1 /\ restart' \in 1..Restarts
        /\ head \in Candidates /\ ScoreOf(head) \in Scores
        /\ restart_scores' = Append(restart_scores, ScoreOf(head))
        /\ IF Replaces(head)
             THEN best' = head /\ selected_restart' = restart
             ELSE best' = best /\ selected_restart' = selected_restart
        /\ beam' = beam /\ scored' = scored
        /\ restart = 0 => Replaces(head)
        /\ pc' \in {"finish", "begin"}
    BY <1>3, SelectFacts
  <2>2. ScoreOf(head) \in Int
    BY <2>1, ScoreRange
  <2> HIDE DEF head
  <2>3. /\ restart_scores \in Seq(Scores) /\ Len(restart_scores) = restart
        /\ \A i \in 1..restart : restart_scores[i] \in Int
    BY ScoreRange DEF TypeOK, BestInv
  <2>4. /\ Len(restart_scores') = restart + 1 /\ restart_scores'[restart + 1] = ScoreOf(head)
        /\ DOMAIN restart_scores' = 1..(restart + 1) /\ DOMAIN restart_scores = 1..restart
        /\ \A i \in 1..restart : restart_scores'[i] = restart_scores[i]
    BY <2>1, <2>3
  <2>5. restart > 0 =>
          /\ best \in Candidates /\ ScoreOf(best) \in Int /\ best # NoCandidate
          /\ selected_restart \in 0..(restart - 1)
          /\ restart_scores[selected_restart + 1] = ScoreOf(best)
          /\ \A i \in 1..restart : IF i <= selected_restart THEN restart_scores[i] < ScoreOf(best)
                                   ELSE restart_scores[i] <= ScoreOf(best)
    <3> SUFFICES ASSUME restart > 0
                 PROVE  /\ best \in Candidates /\ ScoreOf(best) \in Int /\ best # NoCandidate
                        /\ selected_restart \in 0..(restart - 1)
                        /\ restart_scores[selected_restart + 1] = ScoreOf(best)
                        /\ \A i \in 1..restart :
                             IF i <= selected_restart THEN restart_scores[i] < ScoreOf(best)
                             ELSE restart_scores[i] <= ScoreOf(best)
      OBVIOUS
    <3>1. selected_restart \in Nat /\ selected_restart < restart
      BY DEF BestInv, TypeOK
    <3>2. selected_restart \in 0..(restart - 1)
      BY <2>1, <3>1
    <3>3. best \in Candidates /\ ScoreOf(best) \in Int /\ best # NoCandidate
      BY <2>1, IncumbentFacts
    <3> QED BY <2>4, <3>2, <3>3 DEF BestInv, SelectedRestartIsFirstBest
  <2>6. /\ best' \in Candidates /\ ~ ScoreOf(head) > ScoreOf(best') /\ selected_restart' \in 0..restart
        /\ restart_scores'[selected_restart' + 1] = ScoreOf(best')
        /\ \A i \in 1..(restart + 1) :
             IF i <= selected_restart' THEN restart_scores'[i] < ScoreOf(best')
             ELSE restart_scores'[i] <= ScoreOf(best')
    <3>1. CASE Replaces(head)
      <4>1. best' = head /\ selected_restart' = restart
        BY <2>1, <3>1
      <4>2. ASSUME NEW i \in 1..restart PROVE restart_scores'[i] < ScoreOf(head)
        <5>1. restart > 0
          BY <2>1
        <5>2. ScoreOf(head) > ScoreOf(best)
          BY <2>5, <3>1, <5>1 DEF Replaces
        <5>3. restart_scores[i] <= ScoreOf(best)
          BY <2>3, <2>5, <5>1
        <5> QED BY <2>2, <2>3, <2>4, <2>5, <5>1, <5>2, <5>3
      <4>3. \A i \in 1..(restart + 1) : i = restart + 1 \/ i \in 1..restart
        BY <2>1
      <4>4. ~ restart + 1 <= restart /\ ScoreOf(head) <= ScoreOf(head) /\ restart \in 0..restart
        BY <2>1, <2>2
      <4>5. \A i \in 1..restart : i <= restart
        BY <2>1
      <4> QED BY <2>1, <2>2, <2>4, <4>1, <4>2, <4>3, <4>4, <4>5
    <3>2. CASE ~ Replaces(head)
      <4>1. best' = best /\ selected_restart' = selected_restart /\ restart > 0
        BY <2>1, <3>2
      <4>2. best \in Candidates /\ ~ ScoreOf(head) > ScoreOf(best) /\ ScoreOf(head) <= ScoreOf(best)
        BY <2>2, <2>5, <3>2, <4>1 DEF Replaces
      <4>3. \A i \in 1..(restart + 1) : i = restart + 1 \/ i \in 1..restart
        BY <2>1
      <4>4. ~ restart + 1 <= selected_restart /\ selected_restart + 1 \in 1..restart
            /\ selected_restart \in 0..restart
        BY <2>1, <2>5, <4>1
      <4> QED BY <2>4, <2>5, <4>1, <4>2, <4>3, <4>4
    <3> QED BY <3>1, <3>2
  <2>7. Incumbent' = best' /\ Incumbent = best' /\ ~ Replaces(Head1(beam))'
    <3>1. best' # NoCandidate
      BY <2>6, NoCandidateFacts
    <3>2. ~ Replaces(Head1(beam))' /\ Incumbent' = best'
      BY <2>1, <2>6, <3>1 DEF Incumbent, Replaces
    <3>3. Incumbent = best'
      BY <2>1 DEF Incumbent
    <3> QED BY <3>2, <3>3
  <2>8. Incumbent' \in scored' /\ \A c \in scored' : ScoreOf(c) <= ScoreOf(Incumbent')
    <3>1. Incumbent \in scored /\ \A c \in scored : ScoreOf(c) <= ScoreOf(Incumbent)
      BY <2>1 DEF BestInv
    <3> QED BY <2>1, <2>7, <3>1
  <2>9. restart' # 0 /\ restart' > 0 /\ selected_restart' < restart'
    BY <2>1, <2>6
  <2>10. SelectedRestartIsFirstBest'
    BY <2>1, <2>4, <2>6 DEF SelectedRestartIsFirstBest
  <2> QED BY <2>1, <2>4, <2>6, <2>7, <2>8, <2>9, <2>10 DEF BestInv
<1>4. CASE TestKeyFastPath \/ Begin \/ Finish \/ Raise
  <2>1. /\ UNCHANGED <<restart, beam, best, selected_restart, restart_scores, scored>>
        /\ pc' \in {"begin", "done", "raised"} /\ (pc' = "begin" => pc = "start")
    BY <1>4 DEF TestKeyFastPath, Begin, Finish, Raise, chosen, history
  <2>2. pc' = "begin" => restart = 0
    BY <2>1 DEF BeamInv
  <2> QED BY <2>1, <2>2 DEF BestInv, SelectedRestartIsFirstBest, Incumbent, Replaces
<1>5. CASE Stopped \/ UNCHANGED vars
  BY <1>5 DEF Stopped, vars, chosen, history, BestInv, SelectedRestartIsFirstBest, Incumbent, Replaces
<1> QED BY <1>1, <1>2, <1>3, <1>4, <1>5 DEF Next, Step

LEMMA LogStep ==
  ASSUME TypeOK, BeamInv, WindowInv, CutInv, BestInv, LogInv, ReasonInv, [Next]_vars
  PROVE  LogInv'
<1>1. CASE TestKeyFastPath
  <2>1. pc' = "done" /\ early_stop'.reason = "test_key"
    BY <1>1, WithReasonType DEF TestKeyFastPath, TypeOK, Reasons
  <2> QED BY <2>1 DEF LogInv
<1>2. CASE Begin
  BY <1>2 DEF Begin, history, LogInv
<1>3. CASE BeginRestart
  <2> DEFINE first == ScoreOf(Head1(beam'))
  <2>1. /\ beam' \in Seq(Candidates) /\ beam' # <<>>
        /\ early_stop' = EarlyStopReset(first) /\ log' = <<first>>
        /\ pc' = "round" /\ r' = 0
    BY <1>3, BeginRestartFacts DEF BeginRestart
  <2>2. first \in Scores
    BY <2>1, HeadFacts, CandidateParts
  <2> HIDE DEF first
  <2>3. /\ LogAgrees(EarlyStopReset(first), <<first>>, first)
        /\ CreepIsBounded(EarlyStopReset(first), first, 0)
    BY <2>2, LogAfterReset
  <2>4. Len(log') = r' + 1 /\ log'[r' + 1] = first /\ 0 + 1 = 1
    BY <2>1
  <2>5. LogAgrees(early_stop, log, log[r + 1])' /\ CreepIsBounded(early_stop, log[r + 1], r)'
    BY <2>1, <2>3, <2>4 DEF LogAgrees, CreepIsBounded
  <2>6. (log[r + 1] = ScoreOf(Head1(beam)))'
    BY <2>4 DEF first
  <2> QED BY <2>1, <2>4, <2>5, <2>6 DEF LogInv
<1>4. CASE Round
  <2> DEFINE new == ScoreOf(beam'[1])
  <2>1. /\ log' \in Seq(Scores) /\ Len(log') = r' + 1 /\ log'[r' + 1] = new
        /\ ~ StopScoreReached(new) =>
             /\ early_stop'.reason = IF PlateauFires(early_stop, new, r') THEN "no_improve" ELSE "none"
             /\ PlateauFires(early_stop, new, r') => PatienceExhausted(early_stop', r')
             /\ LogAgrees(early_stop', log', new)
             /\ CreepIsBounded(early_stop', new, r')
        /\ StopScoreReached(new) => early_stop'.reason = "target_score"
    BY <1>4, RecordFacts
  <2>2. Head1(beam') = beam'[1]
    BY <1>4, RoundFacts
  <2>3. pc' = IF \/ StopScoreReached(new)
                 \/ PlateauFires(early_stop, new, r')
                 \/ r' = Rounds
              THEN "select" ELSE "round"
    BY <1>4, RoundControl
  <2>4. (log[r + 1] = ScoreOf(Head1(beam)))'
    BY <2>1, <2>2
  <2> HIDE DEF new
  <2>5. CASE StopScoreReached(new)
    BY <2>1, <2>3, <2>4, <2>5 DEF LogInv
  <2>6. CASE ~ StopScoreReached(new)
    <3>1. LogAgrees(early_stop, log, log[r + 1])' /\ CreepIsBounded(early_stop, log[r + 1], r)'
      BY <2>1, <2>6 DEF LogAgrees, CreepIsBounded
    <3>2. early_stop'.reason = "no_improve" => PatienceExhausted(early_stop, r)'
      BY <2>1, <2>6 DEF PatienceExhausted
    <3> QED BY <2>1, <2>3, <2>4, <3>1, <3>2 DEF LogInv
  <2> QED BY <2>5, <2>6
<1>5. CASE SelectRestart
  <2>1. /\ pc = "select" /\ pc' \in {"finish", "begin"} /\ UNCHANGED <<r, log>>
        /\ early_stop' = IF pc' = "finish" /\ early_stop.reason = "none"
                         THEN WithReason(early_stop, "max_rounds_reached") ELSE early_stop
    BY <1>5, SelectFacts
  <2>2. WithReason(early_stop, "max_rounds_reached").reason = "max_rounds_reached"
    BY WithReasonType DEF TypeOK, Reasons
  <2>3. early_stop'.reason = "no_improve" => early_stop' = early_stop
    BY <2>1, <2>2
  <2> QED BY <2>1, <2>3 DEF LogInv, LogAgrees, CreepIsBounded, PatienceExhausted
<1>6. CASE Finish
  BY <1>6 DEF Finish, history, LogInv, LogAgrees, CreepIsBounded, PatienceExhausted
<1>7. CASE Raise
  BY <1>7 DEF Raise, LogInv
<1>8. CASE Stopped \/ UNCHANGED vars
  BY <1>8 DEF Stopped, vars, history, LogInv, LogAgrees, CreepIsBounded, PatienceExhausted
<1> QED BY <1>1, <1>2, <1>3, <1>4, <1>5, <1>6, <1>7, <1>8 DEF Next, Step

LEMMA ReasonStep ==
  ASSUME TypeOK, BeamInv, WindowInv, CutInv, BestInv, LogInv, ReasonInv, [Next]_vars
  PROVE  ReasonInv'
<1>1. CASE TestKeyFastPath
  <2>1. pc' = "done" /\ sol'.kind = "supplied"
    BY <1>1 DEF TestKeyFastPath
  <2> QED BY <2>1 DEF ReasonInv
<1>2. CASE Begin
  <2>1. pc' = "begin" /\ restart' = 0
    BY <1>2 DEF Begin, BeamInv
  <2> QED BY <2>1 DEF ReasonInv
<1>3. CASE BeginRestart
  <2>1. early_stop'.reason = "none"
    BY <1>3, BeginRestartFacts DEF EarlyStopReset
  <2>2. pc = "begin" /\ pc' = "round" /\ UNCHANGED <<restart, best>>
    BY <1>3 DEF BeginRestart, chosen
  <2> QED BY <2>1, <2>2 DEF ReasonInv, StopScoreReached
<1>4. CASE Round
  <2> DEFINE new == ScoreOf(beam'[1])
             fires == PlateauFires(early_stop, new, r')
  <2>1. /\ ~ StopScoreReached(new) =>
             early_stop'.reason = IF fires THEN "no_improve" ELSE "none"
        /\ StopScoreReached(new) => early_stop'.reason = "target_score"
    BY <1>4, RecordFacts
  <2>2. /\ pc = "round" /\ UNCHANGED <<restart, best>>
        /\ pc' = IF StopScoreReached(new) \/ fires \/ r' = Rounds THEN "select" ELSE "round"
    BY <1>4, RoundControl
  <2>3. StopScoreReached(ScoreOf(beam[1]))' = StopScoreReached(new)
    BY DEF StopScoreReached
  <2>4. (early_stop.reason = "target_score")' = StopScoreReached(new)
    BY <2>1 DEF StopScoreReached
  <2>5. ~ StopScoreReached(ScoreOf(best)) => ~ StopScoreReached(ScoreOf(best))'
    BY <2>2 DEF StopScoreReached
  <2> HIDE DEF new, fires
  <2> QED BY <2>1, <2>2, <2>3, <2>4, <2>5 DEF ReasonInv
<1>5. CASE SelectRestart
  <2> DEFINE head == beam[1]
  <2>1. /\ pc = "select" /\ beam # <<>> /\ restart' \in 1..Restarts
        /\ ScoreOf(head) \in Scores
        /\ IF Replaces(head) THEN best' = head ELSE best' = best
        /\ pc' = IF early_stop.reason = "target_score" \/ restart' = Restarts
                 THEN "finish" ELSE "begin"
        /\ early_stop' = IF pc' = "finish" /\ early_stop.reason = "none"
                         THEN WithReason(early_stop, "max_rounds_reached") ELSE early_stop
        /\ UNCHANGED <<r, sol>>
        /\ restart = 0 => Replaces(head) /\ restart \in 0..(Restarts - 1)
    BY <1>5, SelectFacts
  <2>2. /\ early_stop.reason \in {"none", "target_score", "no_improve"}
        /\ (early_stop.reason = "target_score") = StopScoreReached(ScoreOf(head))
        /\ early_stop.reason = "none" => r = Rounds
        /\ restart > 0 => ~ StopScoreReached(ScoreOf(best))
    BY <2>1 DEF ReasonInv
  <2>3. WithReason(early_stop, "max_rounds_reached").reason = "max_rounds_reached"
    BY WithReasonType DEF TypeOK, Reasons
  <2> HIDE DEF head
\* The best has reached the target exactly when this restart has.
  <2>4. StopScoreReached(ScoreOf(best')) = StopScoreReached(ScoreOf(head))
    <3>1. CASE Replaces(head)
      BY <2>1, <3>1
    <3>2. CASE ~ Replaces(head)
      <4>1. restart > 0
        BY <1>5, <2>1, <3>2, SelectFacts DEF head
      <4>2. ~ ScoreOf(head) > ScoreOf(best) /\ ScoreOf(best) \in Int /\ ScoreOf(head) \in Int
        BY <2>1, <3>2, <4>1, IncumbentFacts, ScoreRange DEF Replaces
      <4>3. ~ StopScoreReached(ScoreOf(best))
        BY <2>2, <4>1
      <4>4. ~ StopScoreReached(ScoreOf(head))
        BY <4>2, <4>3, TargetAssumption, InfAssumption DEF StopScoreReached
      <4> QED BY <2>1, <3>2, <4>3, <4>4 DEF StopScoreReached
    <3> QED BY <3>1, <3>2
  <2>5. StopScoreReached(ScoreOf(best))' = StopScoreReached(ScoreOf(best'))
    BY DEF StopScoreReached
  <2>6. (early_stop.reason = "target_score")' = StopScoreReached(ScoreOf(best))'
    BY <2>1, <2>2, <2>3, <2>4, <2>5
  <2>7. pc' = "begin" => ~ StopScoreReached(ScoreOf(best))'
    BY <2>1, <2>2, <2>4, <2>5
  <2>8. pc' = "finish" => /\ early_stop'.reason # "target_score" => restart' = Restarts
                          /\ early_stop'.reason = "max_rounds_reached" => r' = Rounds
    BY <2>1, <2>2, <2>3
  <2> QED BY <2>1, <2>6, <2>7, <2>8 DEF ReasonInv
<1>6. CASE Finish
  <2>1. /\ pc = "finish" /\ pc' = "done" /\ UNCHANGED <<early_stop, best, restart, r>>
        /\ sol'.kind = "found" => sol'.reason = early_stop.reason
    BY <1>6 DEF Finish, chosen
  <2>2. StopScoreReached(ScoreOf(best))' = StopScoreReached(ScoreOf(best))
    BY <2>1 DEF StopScoreReached
  <2> QED BY <2>1, <2>2 DEF ReasonInv
<1>7. CASE Raise
  BY <1>7 DEF Raise, ReasonInv
<1>8. CASE Stopped \/ UNCHANGED vars
  BY <1>8 DEF Stopped, vars, chosen, ReasonInv, StopScoreReached
<1> QED BY <1>1, <1>2, <1>3, <1>4, <1>5, <1>6, <1>7, <1>8 DEF Next, Step

-----------------------------------------------------------------------------
(* What the beam search promises.                                             *)

BeamSearchInv ==
  TypeOK /\ BeamInv /\ WindowInv /\ CutInv /\ BestInv /\ LogInv /\ ReasonInv

LEMMA BeamSearchInvHolds == Spec => []BeamSearchInv
<1>1. Init => BeamSearchInv
  <2> SUFFICES ASSUME Init PROVE BeamSearchInv
    OBVIOUS
  <2> USE Numbers
  <2>1. EarlyStopReset(NegInf) \in EarlyStops
    BY EarlyStopResetType, ScoreRange
  <2>2. TypeOK
    BY <2>1, BeamAssumption DEF Init, TypeOK
  <2>3. WindowInv
    <3>1. WindowSize \in Nat
      BY BeamAssumption DEF WindowSize
    <3> QED BY <3>1 DEF Init, WindowInv, IsWindow, Span, Distinct
  <2>4. BeamInv /\ CutInv /\ LogInv /\ ReasonInv
    BY DEF Init, BeamInv, CutInv, LogInv, ReasonInv
  <2>5. BestInv
    BY DEF Init, BestInv, SelectedRestartIsFirstBest
  <2> QED BY <2>2, <2>3, <2>4, <2>5 DEF BeamSearchInv
<1>2. BeamSearchInv /\ [Next]_vars => BeamSearchInv'
  BY TypeStep, BeamStep, WindowStep, CutStep, BestStep, LogStep, ReasonStep DEF BeamSearchInv
<1> QED BY <1>1, <1>2, PTL DEF Spec

\* The beam search keeps its type: the beam is empty or Width wide, and no restart or
\* round beyond the last is begun.
THEOREM TypeCorrect == Spec => []TypeOK
<1>1. BeamSearchInv => TypeOK
  BY DEF BeamSearchInv
<1> QED BY <1>1, BeamSearchInvHolds, PTL

\* The set and the queue of recently expanded keys never fall out of step, however
\* keys leave the window and come back, and never grow beyond it.
THEOREM WindowIsAlwaysConsistent == Spec => []WindowConsistent
<1>1. WindowInv => WindowConsistent
  <2> SUFFICES ASSUME WindowInv PROVE WindowConsistent
    OBVIOUS
  <2> DEFINE D == 1..Len(recent_queue)
  <2>1. /\ recent_queue \in Seq(Keys) /\ Len(recent_queue) \in Nat /\ DOMAIN recent_queue = D
        /\ recent_hashes = {recent_queue[i] : i \in D}
        /\ \A i, j \in D : i # j => recent_queue[i] # recent_queue[j]
        /\ Len(recent_queue) <= WindowSize
    BY DEF WindowInv, IsWindow, Span, Distinct
  <2>2. IsFiniteSet(D) /\ Cardinality(D) = Len(recent_queue)
    BY <2>1, IntervalSize
  <2> HIDE DEF D
  <2>3. recent_queue \in [D -> recent_hashes]
    BY <2>1
  <2>4. recent_queue \in Bijection(D, recent_hashes)
    BY <2>1, <2>3 DEF Bijection, Injection, Surjection, IsInjective
  <2>5. Cardinality(recent_hashes) = Len(recent_queue)
    <3>1. ExistsBijection(D, recent_hashes)
      BY <2>4 DEF ExistsBijection
    <3> QED BY <2>2, <3>1, FS_Bijection
  <2> QED BY <2>1, <2>5 DEF WindowConsistent
<1>2. BeamSearchInv => WindowInv
  BY DEF BeamSearchInv
<1> QED BY <1>1, <1>2, BeamSearchInvHolds, PTL

\* The cut loses nothing that was scored and the window refuses nothing that was not:
\* a candidate scored in this restart is in the beam or no better than the worst of
\* it, and a key offered in it was scored in it, whatever is offered, in whatever
\* order and however the scores change with the Hamming weight.  A refused key keeps
\* its earlier score: the theorem does not say that it would lose at the new weight.
THEOREM BeamIsAlwaysTopWidth == Spec => []BeamIsTopWidth
<1>1. CutInv => BeamIsTopWidth
  BY Numbers DEF CutInv, BeamIsTopWidth
<1>2. BeamSearchInv => CutInv
  BY DEF BeamSearchInv
<1> QED BY <1>1, <1>2, BeamSearchInvHolds, PTL

\* The restart reported is always the earliest of the highest score.
THEOREM SelectedRestartIsAlwaysFirstBest == Spec => []SelectedRestartIsFirstBest
<1>1. BeamSearchInv => SelectedRestartIsFirstBest
  BY DEF BeamSearchInv, BestInv
<1> QED BY <1>1, BeamSearchInvHolds, PTL

\* A reported reason is why the last restart stopped, and a search below its target
\* ran every restart.
THEOREM ReasonAlwaysExplains == Spec => []ReasonExplainsStop
<1>1. BeamSearchInv => ReasonExplainsStop
  <2> SUFFICES ASSUME BeamSearchInv, pc = "done", sol.kind = "found"
               PROVE  /\ (sol.reason = "target_score") = StopScoreReached(ScoreOf(best))
                      /\ sol.reason = "no_improve" =>
                           /\ r >= PlateauRounds
                           /\ log[r + 1] <= PlusDelta(log[r - PlateauRounds + 1])
                      /\ sol.reason = "max_rounds_reached" => r = Rounds
                      /\ sol.reason # "target_score" => restart = Restarts
    BY DEF ReasonExplainsStop
  <2>1. /\ sol.reason = early_stop.reason
        /\ (early_stop.reason = "target_score") = StopScoreReached(ScoreOf(best))
        /\ early_stop.reason # "target_score" => restart = Restarts
        /\ early_stop.reason = "max_rounds_reached" => r = Rounds
    BY DEF BeamSearchInv, ReasonInv
  <2>2. ASSUME early_stop.reason = "no_improve"
        PROVE  r >= PlateauRounds /\ log[r + 1] <= PlusDelta(log[r - PlateauRounds + 1])
    <3>1. /\ Len(log) = r + 1 /\ LogAgrees(early_stop, log, log[r + 1])
          /\ CreepIsBounded(early_stop, log[r + 1], r)
          /\ PatienceExhausted(early_stop, r)
      BY <2>2 DEF BeamSearchInv, LogInv
    <3>2. early_stop \in EarlyStops /\ log \in Seq(Scores) /\ r \in Nat
      BY Numbers DEF BeamSearchInv, TypeOK
    <3> DEFINE top == log[r + 1]
    <3>3. top \in Scores /\ Len(log) >= r
      BY <3>1, <3>2
    <3> HIDE DEF top
    <3>4. LogAgrees(early_stop, log, top) /\ CreepIsBounded(early_stop, top, r)
      BY <3>1 DEF top
    <3>5. r >= PlateauRounds /\ top <= PlusDelta(log[r - PlateauRounds + 1])
      BY <3>1, <3>2, <3>3, <3>4, PatienceMeans, PlateauAssumption
    <3> QED BY <3>5 DEF top
  <2> QED BY <2>1, <2>2
<1> QED BY <1>1, BeamSearchInvHolds, PTL

-----------------------------------------------------------------------------
(* Beam search implements Search.                                             *)

LEMMA SameCandidates == Abstract!Candidates = Candidates
BY DEF Abstract!Candidates, Candidates, Scores, NegInf

LEMMA NoAnswerYet ==
  ASSUME BeamInv, pc \notin {"done", "raised"}
  PROVE  Answer = NoKey
BY DEF BeamInv, Answer, NoSolution

\* Scoring more, with an incumbent that gives way only to something better.
LEMMA ExploreStep ==
  ASSUME TypeOK, TypeOK', BeamInv, BeamInv', BestInv, BestInv',
         pc \notin {"done", "raised"}, pc' \notin {"done", "raised"},
         scored \subseteq scored', beam' # <<>>,
         beam # <<>> => Incumbent' = Incumbent \/ ScoreOf(Incumbent') > ScoreOf(Incumbent)
  PROVE  Abstract!Explore
<1>1. Answer = NoKey /\ Answer' = NoKey
  <2>1. Answer' = NoKey
    BY DEF BeamInv, Answer, NoSolution
  <2> QED BY <2>1, NoAnswerYet
<1>2. Incumbent' \in scored' /\ \A c \in scored' : c[2] <= Incumbent'[2]
  BY DEF BestInv, ScoreOf
<1>3. scored' \in SUBSET Abstract!Candidates
  BY SameCandidates DEF TypeOK
<1>4. ASSUME scored # {}, Incumbent'[2] = Incumbent[2] PROVE Incumbent' = Incumbent
  <2>1. beam # <<>>
    BY <1>4 DEF BeamInv
  <2>2. ScoreOf(Incumbent) \in Int /\ ScoreOf(Incumbent') = ScoreOf(Incumbent)
    BY <1>4, <2>1, IncumbentFacts DEF ScoreOf
  <2> QED BY <2>1, <2>2
<1> QED BY <1>1, <1>2, <1>3, <1>4 DEF Abstract!Explore, Abstract!Dominates

\* Whoever runs, the incumbent gives way only to something better.
LEMMA IncumbentStep ==
  ASSUME TypeOK, BeamInv, WindowInv, CutInv, BestInv, beam # <<>>, BeginRestart \/ Round
  PROVE  Incumbent' = Incumbent \/ ScoreOf(Incumbent') > ScoreOf(Incumbent)
<1> DEFINE head == Head1(beam')
<1>1. beam' \in Seq(Candidates) /\ beam' # <<>> /\ best' = best
  BY BeginRestartFacts, RoundFacts, RoundControl DEF BeginRestart, chosen
<1>2. ScoreOf(head) \in Int
  BY <1>1, HeadFacts, CandidateParts, ScoreRange
<1>3. Incumbent' = IF best = NoCandidate \/ ScoreOf(head) > ScoreOf(best) THEN head ELSE best
  BY <1>1 DEF Incumbent, Replaces
<1>4. CASE BeginRestart
  <2>1. restart > 0 /\ ~ Replaces(Head1(beam))
    BY <1>4, IncumbentFacts DEF BeginRestart, BeamInv, BestInv
  <2>2. Incumbent = best /\ best # NoCandidate
    BY <2>1, IncumbentFacts DEF Incumbent
  <2> HIDE DEF head
  <2> QED BY <1>3, <2>2
<1>5. CASE Round
  <2>1. head = Head1(beam) \/ ScoreOf(head) > ScoreOf(Head1(beam))
    BY <1>5, RoundFacts
  <2> HIDE DEF head
  <2> QED BY <1>2, <1>3, <2>1, IncumbentFacts
<1> QED BY <1>4, <1>5

LEMMA RefinementStep ==
  ASSUME BeamSearchInv, BeamSearchInv', [Next]_vars
  PROVE  [Abstract!Next]_(Abstract!vars)
<1> USE DEF BeamSearchInv
<1>1. CASE TestKeyFastPath
  <2>1. pc = "start" /\ beam = <<>> /\ beam' = <<>> /\ scored = {} /\ scored' = {} /\ Answer = NoKey
    BY <1>1, NoAnswerYet DEF BeamInv, TestKeyFastPath, history
  <2> DEFINE c == Scored(test_key, weight)
  <2>2. c \in Abstract!Candidates
    BY <1>1, ScoredFacts, SameCandidates DEF TypeOK, TestKeyFastPath
  <2>3. Answer' = [kind |-> "supplied", cand |-> c]
    BY <1>1 DEF TestKeyFastPath, Answer
  <2> HIDE DEF c
  <2>4. Abstract!Supplied
    BY <2>1, <2>2, <2>3 DEF Abstract!Supplied, Incumbent
  <2> QED BY <2>4 DEF Abstract!Next
<1>2. CASE BeginRestart
  <2>1. pc = "begin" /\ pc' = "round"
    BY <1>2 DEF BeginRestart
  <2>2. beam' # <<>> /\ scored \subseteq scored'
    BY <1>2, BeginRestartFacts
  <2> QED BY <1>2, <2>1, <2>2, IncumbentStep, ExploreStep DEF Abstract!Next
<1>3. CASE Round
  <2>1. pc = "round" /\ pc' \in {"round", "select"}
    BY <1>3, RoundControl
  <2>2. beam' # <<>> /\ scored \subseteq scored'
    BY <1>3, RoundFacts
  <2> QED BY <1>3, <2>1, <2>2, IncumbentStep, ExploreStep DEF Abstract!Next
<1>4. CASE SelectRestart
  <2>1. /\ Head1(beam) = beam[1] /\ beam # <<>> /\ UNCHANGED <<beam, sol, scored>>
        /\ IF Replaces(beam[1]) THEN best' = beam[1] ELSE best' = best
        /\ best' \in Candidates
    BY <1>4, SelectFacts
  <2>2. best' # NoCandidate /\ ScoreOf(beam[1]) \in Int
    BY <2>1, NoCandidateFacts, IncumbentFacts
  <2>3. Incumbent' = Incumbent
    BY <2>1, <2>2 DEF Incumbent, Replaces
  <2> QED BY <2>1, <2>3 DEF Abstract!vars, Answer
<1>5. CASE Finish
  <2>1. /\ pc = "finish" /\ restart > 0 /\ best \in Candidates /\ beam # <<>> /\ Incumbent = best
        /\ best \in scored
    <3>1. pc = "finish" /\ restart > 0 /\ beam # <<>> /\ ~ Replaces(Head1(beam))
      BY <1>5 DEF Finish, BeamInv, BestInv
    <3>2. Incumbent = best /\ Incumbent \in scored
      BY <3>1 DEF Incumbent, BestInv
    <3> QED BY <3>1, <3>2 DEF BestInv
  <2>2. UNCHANGED <<scored, Incumbent>>
    BY <1>5 DEF Finish, chosen, history, Incumbent, Replaces
  <2>3. Answer = NoKey
    BY <2>1, NoAnswerYet
  <2>4. CASE IsFinite(ScoreOf(best))
    <3>1. PICK c \in LocalImprove(best, landscape[weight]) : sol'.kind = "found" /\ sol'.cand = c
      BY <1>5, <2>4 DEF Finish
    <3>2. landscape[weight] \in [Keys -> Scores]
      BY ScoredFacts DEF TypeOK
    <3>3. c \in Abstract!Candidates /\ (c = best \/ c[2] > best[2])
      BY <2>1, <3>2, LocalImproveFacts, SameCandidates DEF ScoreOf
    <3>4. Answer' = [kind |-> "found", cand |-> c]
      BY <3>1 DEF Answer
    <3>5. Abstract!Found
      BY <2>1, <2>2, <2>3, <2>4, <3>3, <3>4 DEF Abstract!Found, IsFinite, NegInf, ScoreOf
    <3> QED BY <3>5 DEF Abstract!Next
  <2>5. CASE ~ IsFinite(ScoreOf(best))
    <3>1. Answer' = [kind |-> "rejected", cand |-> best]
      BY <1>5, <2>5 DEF Finish, Answer
    <3>2. Abstract!Rejected
      BY <2>1, <2>2, <2>3, <2>5, <3>1 DEF Abstract!Rejected, IsFinite, NegInf, ScoreOf
    <3> QED BY <3>2 DEF Abstract!Next
  <2> QED BY <2>4, <2>5
<1>6. CASE Raise
  <2>1. Answer = NoKey /\ UNCHANGED <<scored, Incumbent>>
    BY <1>6, NoAnswerYet DEF Raise, chosen, history, Incumbent, Replaces
  <2>2. Answer' = [kind |-> "raised"]
    BY <1>6 DEF Raise, Answer
  <2>3. Abstract!Raise
    BY <2>1, <2>2 DEF Abstract!Raise
  <2> QED BY <2>3 DEF Abstract!Next
<1>7. CASE Begin \/ Stopped \/ UNCHANGED vars
  <2>1. UNCHANGED <<scored, beam, best, sol>>
    BY <1>7 DEF Begin, Stopped, vars, chosen, history
  <2> QED BY <2>1 DEF Abstract!vars, Answer, Incumbent, Replaces
<1> QED BY <1>1, <1>2, <1>3, <1>4, <1>5, <1>6, <1>7 DEF Next, Step

\* Beam search is a Search: the best of the restarts that are over and of the beam
\* that runs is the incumbent, and no restart loses it.
THEOREM BeamImplementsSearch == Spec => ImplementsSearch
<1>1. Init => Abstract!Init
  BY DEF Init, Abstract!Init, Answer, NoSolution, Incumbent
<1>2. BeamSearchInv /\ BeamSearchInv' /\ [Next]_vars => [Abstract!Next]_(Abstract!vars)
  BY RefinementStep
<1> QED BY <1>1, <1>2, BeamSearchInvHolds, PTL DEF Spec, ImplementsSearch, Abstract!Spec

-----------------------------------------------------------------------------
(* The promise of a search, kept.                                             *)

\* What is scored are candidates, the incumbent is one that none of them beats, and
\* the answer is as good.
PromiseInv ==
  /\ scored \subseteq Abstract!Candidates
  /\ scored # {} => Incumbent \in scored /\ Tops(Incumbent, scored)
  /\ Abstract!AnswerDominates

\* Each step of the abstract search preserves that.
LEMMA PromiseStep ==
  ASSUME PromiseInv, [Abstract!Next]_(Abstract!vars)
  PROVE  PromiseInv'
<1> USE DEF PromiseInv, Abstract!AnswerDominates, Abstract!Dominates, Tops
<1>1. CASE Abstract!Explore
  BY <1>1, Zenon DEF Abstract!Explore, Abstract!Candidates
<1>2. CASE Abstract!Found
  <2>1. /\ scored # {} /\ UNCHANGED <<scored, Incumbent>>
        /\ Answer' \in [kind : {"found"}, cand : Abstract!Candidates]
        /\ Answer'.cand = Incumbent \/ Answer'.cand[2] > Incumbent[2]
    BY <1>2 DEF Abstract!Found
  <2>2. /\ Answer'.kind = "found" /\ Answer'.cand \in Abstract!Candidates
        /\ Incumbent \in Abstract!Candidates
    BY <2>1
  <2>3. Tops(Answer'.cand, scored)
    BY <2>1, <2>2, TopsIsMonotone DEF Abstract!Candidates
  <2> QED BY <2>1, <2>2, <2>3
<1>3. CASE Abstract!Rejected
  <2>1. /\ scored # {} /\ UNCHANGED <<scored, Incumbent>> /\ Incumbent[2] = -Inf
        /\ Answer'.kind = "rejected"
    BY <1>3 DEF Abstract!Rejected
  <2>2. \A c \in scored : c[2] = -Inf
    BY <2>1, RejectedIsAll DEF Abstract!Candidates
  <2> QED BY <2>1, <2>2
<1>4. CASE Abstract!Supplied
  BY <1>4 DEF Abstract!Supplied
<1>5. CASE Abstract!Raise
  BY <1>5 DEF Abstract!Raise
<1>6. CASE UNCHANGED Abstract!vars
  BY <1>6 DEF Abstract!vars
<1> QED BY <1>1, <1>2, <1>3, <1>4, <1>5, <1>6 DEF Abstract!Next

\* The beam search keeps its promise to the caller of solve: an answer it found is
\* beaten by no key any restart scored, and one it rejects means that all of them
\* were.
THEOREM BeamAnswersWithTheBest == Spec => []Abstract!AnswerDominates
<1>1. Abstract!Init => PromiseInv
  BY DEF Abstract!Init, PromiseInv, Abstract!AnswerDominates
<1>2. PromiseInv /\ [Abstract!Next]_(Abstract!vars) => PromiseInv'
  BY PromiseStep
<1>3. PromiseInv => Abstract!AnswerDominates
  BY DEF PromiseInv
<1> QED BY <1>1, <1>2, <1>3, BeamImplementsSearch, PTL DEF ImplementsSearch, Abstract!Spec

=============================================================================
