----------------------------- MODULE Evaluation -----------------------------
(* DecryptionProblem: what a key decrypts to and how it scores.  A lookup     *)
(* cipher may encrypt two symbols alike, or leave a symbol no inverse; when   *)
(* degeneracy is allowed a key has several readings, and its score is that of *)
(* the best reading tried.  A hard crib rejects texts before they are scored. *)
(*                                                                            *)
(* The scorer is a function of the text, whether it is asked for a batch or,  *)
(* when that fails, for one text at a time; it has raw scores.  Of the        *)
(* telemetry, the counters of keys, readings and crib verdicts are kept.      *)
EXTENDS Pipeline

CONSTANTS
  Tables,             \* table[p][v]: the symbols that p becomes under key value v
  Ciphertexts,
  Cores,              \* keys of the cipher: arrays over 0..A-1
  Orientations,       \* records [perm, rtl]
  ExactPositions,     \* the fixed sets of interruptors
  KeyPositions,       \* the sets of interruptors a composite key may hold
  Cribs,              \* records [fixed, perWord, byLength], or NoCrib
  NoCrib,
  Problems,           \* the configurations to look at
  WordSpans,          \* the words' <<start, end>>, from the WLI
  PrimaryScore(_), RawScore(_),   \* naturals
  NoText, NoKey,
  MaxBatch,           \* bound: keys evaluated together
  MaxCalls            \* bound: evaluations, and resolutions, of a run

MinusInfinity == -1

VARIABLES
  problem,     \* what is fixed for a run
  telemetry,   \* DecryptionProblem.telemetry
  result,      \* of the last evaluation: its keys, their plaintexts and scores
  resolved,    \* of the last resolve_plaintext: its key and plaintext
  rescored     \* history: the readings resolve_plaintext scored

vars == <<problem, telemetry, result, resolved, rescored>>

KeysOf(p) == [core : Cores, at : IF p.search THEN KeyPositions ELSE {{}}]

\* Every ciphertext and key is an array of symbols; a key has at least one.
ASSUME CipherAssumption ==
  /\ \A c \in Ciphertexts : IsArray(c)
  /\ \A k \in Cores : IsArray(k) /\ Size(k) > 0
  /\ Tables \subseteq [Symbols -> [Symbols -> SUBSET Symbols]]

\* per_position_limit and resolver_limit are whatever the caller set.  A
\* permutation is one of the whole text, and no interruptor is outside of it.
ASSUME ProblemAssumption ==
  \A p \in Problems :
    /\ p \in [table : Tables, ciphertext : Ciphertexts, orient : Orientations,
              exact : ExactPositions, search : BOOLEAN, crib : Cribs,
              degeneracy : {"forbid", "allow"}, resolver : {"first", "expand_beam"},
              perPosition : Int, limit : Int, avg : BOOLEAN]
    /\ p.search => p.exact = {} /\ \A at \in KeyPositions : at \subseteq DOMAIN p.ciphertext
    /\ p.exact \subseteq DOMAIN p.ciphertext
    /\ p.orient.perm # NoPerm =>
         p.orient.perm \in Bijection(DOMAIN p.ciphertext, DOMAIN p.ciphertext)

\* Scores are naturals; NoText is no text and NoKey no key.
ASSUME ScorerAssumption ==
  \A p \in Problems :
    /\ \A t \in [DOMAIN p.ciphertext -> Symbols] : PrimaryScore(t) \in Nat /\ RawScore(t) \in Nat
    /\ NoText \notin [DOMAIN p.ciphertext -> Symbols]
    /\ NoKey \notin KeysOf(p)

ASSUME BoundsAssumption == MaxBatch \in Nat /\ MaxCalls \in Nat

Counters == {"keys", "candidates", "pass", "fixed", "word", "global", "reject"}

Init ==
  /\ problem \in Problems
  /\ telemetry = [c \in Counters \cup {"calls"} |-> 0]
  /\ result = [batch |-> <<>>, byRaw |-> FALSE, plains |-> <<>>, pct |-> <<>>, raw |-> <<>>]
  /\ resolved = [key |-> NoKey, text |-> NoText]
  /\ rescored = [calls |-> 0, readings |-> 0]

-----------------------------------------------------------------------------
(* Keys to texts.                                                             *)

\* The inverses of symbol c under key value v, ascending and each once.
Inverses(c, v) ==
  Ascending({p \in 0 .. A - 1 : c \in problem.table[p][v]})

\* The decoder's table: the first inverse, or 0 for a symbol without one.
DecFirst(c, v) == IF Inverses(c, v) = <<>> THEN 0 ELSE Inverses(c, v)[1]

\* The positions of a composite key, or the configured ones.
InterruptIdx(key) == IF problem.search THEN key.at ELSE problem.exact

Decrypt(key) ==
  Through(problem.orient, problem.ciphertext, InterruptIdx(key),
          LAMBDA c : [i \in DOMAIN c |-> DecFirst(c[i], key.core[i % Size(key.core)])])

\* The limits in force: none, or one beyond the alphabet, means the alphabet.
PerPositionLimit ==
  IF problem.perPosition \in 1 .. A THEN problem.perPosition ELSE A
ResolverLimit == IF problem.limit <= 0 THEN 1 ELSE problem.limit

\* What decrypt would hand to the kernel, and how to undo it.
CandidateInputs(key) ==
  LET info == Prepare(problem.orient, problem.ciphertext, InterruptIdx(key))
  IN  [text |-> ApplyText(problem.orient, info.core), info |-> info]

\* The inverses of each symbol, cut at the limit.
CandidatesFor(key) ==
  LET c == CandidateInputs(key).text
      All(i) == Inverses(c[i], key.core[i % Size(key.core)])
  IN  [i \in DOMAIN c |-> SubSeq(All(i), 1, Min({PerPositionLimit, Len(All(i))}))]

\* A symbol without an inverse makes the key invalid.
Invalid(key) == \E i \in DOMAIN CandidatesFor(key) : CandidatesFor(key)[i] = <<>>

\* Mutant: the counter carries into the next position, which is not yet there.
EnumerateWithoutCarry(cands) ==
  LET most == Max({Len(cands[i]) : i \in DOMAIN cands})
  IN  IF DOMAIN cands = {} THEN <<>>
      ELSE [n \in 1 .. Min({ResolverLimit, most}) |->
              [i \in DOMAIN cands |-> cands[i][((n - 1) % Len(cands[i])) + 1]]]

\* The first readings of a mixed-radix counter whose last position is fastest.
Enumerate(cands) ==
  LET later[i \in DOMAIN cands] ==
        IF i + 1 \notin DOMAIN cands THEN 1 ELSE Len(cands[i + 1]) * later[i + 1]
  IN  IF DOMAIN cands = {} THEN <<>>
      ELSE [n \in 1 .. Min({ResolverLimit, Len(cands[0]) * later[0]}) |->
              [i \in DOMAIN cands |->
                 cands[i][(((n - 1) \div later[i]) % Len(cands[i])) + 1]]]

\* The texts that stand for a key when degeneracy is allowed.
Readings(key) ==
  IF Invalid(key) THEN <<>>
  ELSE IF problem.resolver # "expand_beam" THEN <<Decrypt(key)>>
  ELSE LET cores == Enumerate(CandidatesFor(key))
       IN  [n \in DOMAIN cores |->
              Reassemble(problem.orient, cores[n], CandidateInputs(key).info)]

-----------------------------------------------------------------------------
(* Texts to scores.                                                           *)

WordAt(t, w) ==
  [i \in 0 .. WordSpans[w][2] - WordSpans[w][1] - 1 |-> t[WordSpans[w][1] + i]]

BreaksFixed(t) ==
  \E i \in DOMAIN problem.crib.fixed :
    i \notin DOMAIN t \/ t[i] \notin problem.crib.fixed[i]
BreaksWord(t) ==
  \E w \in DOMAIN problem.crib.perWord : WordAt(t, w) \notin problem.crib.perWord[w]
BreaksGlobal(t) ==
  \E w \in DOMAIN WordSpans :
    LET n == WordSpans[w][2] - WordSpans[w][1]
    IN  n \in DOMAIN problem.crib.byLength /\ WordAt(t, w) \notin problem.crib.byLength[n]

\* The first rule that fails is the one that is counted.
Verdict(t) ==
  CASE problem.crib = NoCrib -> "pass"
    [] OTHER -> IF BreaksFixed(t) THEN "fixed" ELSE IF BreaksWord(t) THEN "word"
                ELSE IF BreaksGlobal(t) THEN "global" ELSE "pass"

\* Mutant: a word-rule verdict falls through to the next rule and counts twice.
TallyFallingThrough(counters, texts) ==
  LET Count(v) == Cardinality({i \in DOMAIN texts : Verdict(texts[i]) = v})
  IN  IF problem.crib = NoCrib THEN counters
      ELSE [counters EXCEPT
              !["pass"] = @ + Count("pass"), !["fixed"] = @ + Count("fixed"),
              !["word"] = @ + Count("word"),
              !["global"] = @ + Cardinality({i \in DOMAIN texts : BreaksGlobal(texts[i])}),
              !["reject"] = @ + Len(texts) - Count("pass")]

\* The crib's counters after a batch of texts.
Tally(counters, texts) ==
  LET Count(v) == Cardinality({i \in DOMAIN texts : Verdict(texts[i]) = v})
  IN  IF problem.crib = NoCrib THEN counters
      ELSE [counters EXCEPT
              !["pass"] = @ + Count("pass"), !["fixed"] = @ + Count("fixed"),
              !["word"] = @ + Count("word"), !["global"] = @ + Count("global"),
              !["reject"] = @ + Len(texts) - Count("pass")]

\* Only texts that pass are scored; the scores go back to their texts' rows.
ScoreTexts(texts, byRaw) ==
  LET Score(t) == IF byRaw THEN RawScore(t) ELSE PrimaryScore(t)
      keep == Ascending({i \in DOMAIN texts : Verdict(texts[i]) = "pass"})
      kept == [j \in DOMAIN keep |-> Score(texts[keep[j]])]
  IN  [i \in DOMAIN texts |->
         IF i \in ToSet(keep) THEN kept[CHOOSE j \in DOMAIN keep : keep[j] = i]
         ELSE MinusInfinity]

\* argmax: the first of the best.
FirstBest(scores) ==
  CHOOSE i \in DOMAIN scores :
    /\ \A j \in DOMAIN scores : scores[j] <= scores[i]
    /\ \A j \in 1 .. i - 1 : scores[j] < scores[i]

\* What a key without readings, and a key with some, comes to.
Resolve(texts, byRaw) ==
  LET pct == ScoreTexts(texts, FALSE)
      raw == ScoreTexts(texts, TRUE)
      best == FirstBest(IF byRaw THEN raw ELSE pct)
  IN  IF texts = <<>> THEN [text |-> NoText, pct |-> MinusInfinity, raw |-> MinusInfinity]
      ELSE [text |-> texts[best], pct |-> pct[best], raw |-> raw[best]]

-----------------------------------------------------------------------------
(* The operations.                                                            *)

Batches == UNION {[1 .. n -> KeysOf(problem)] : n \in 1 .. MaxBatch}

\* Average objectives and callers that insist on raw scores choose among the
\* readings by them.
ByRaw(requireRaw) == problem.degeneracy = "allow" /\ (requireRaw \/ problem.avg)

\* Every key has one text, and the texts are scored together.
Plain(batch, byRaw) ==
  LET texts == [b \in DOMAIN batch |-> Decrypt(batch[b])]
  IN  [texts |-> texts,
       result |-> [batch |-> batch, byRaw |-> byRaw, plains |-> texts,
                   pct |-> ScoreTexts(texts, FALSE),
                   raw |-> ScoreTexts(texts, TRUE)]]

\* Key by key, the best of a key's readings.
Degenerate(batch, byRaw) ==
  LET best == [b \in DOMAIN batch |-> Resolve(Readings(batch[b]), byRaw)]
  IN  [texts |-> FlattenSeq([b \in DOMAIN batch |-> Readings(batch[b])]),
       result |-> [batch |-> batch, byRaw |-> byRaw,
                   plains |-> [b \in DOMAIN batch |-> best[b].text],
                   pct |-> [b \in DOMAIN batch |-> best[b].pct],
                   raw |-> [b \in DOMAIN batch |-> best[b].raw]]]

Evaluate(batch, byRaw) ==
  LET done == IF problem.degeneracy = "allow" THEN Degenerate(batch, byRaw)
              ELSE Plain(batch, byRaw)
  IN  /\ telemetry["calls"] < MaxCalls
      /\ result' = done.result
      /\ telemetry' = [Tally(telemetry, done.texts) EXCEPT
                         !["calls"] = @ + 1, !["keys"] = @ + Len(batch),
                         !["candidates"] = @ + Len(done.texts)]
      /\ UNCHANGED <<problem, resolved, rescored>>

EvaluateKeys(batch) == Evaluate(batch, FALSE)
EvaluateKeysWithRaw(batch, requireRaw) == Evaluate(batch, ByRaw(requireRaw))

\* Mutant: the plaintext that is shown is the cipher's own, whatever the resolver.
PlaintextOfDecrypt(key) ==
  IF problem.degeneracy = "allow" /\ Invalid(key) THEN NoText ELSE Decrypt(key)

\* The plaintext a solution shows for its key: chosen by the primary score.
PlaintextOf(key) ==
  IF problem.degeneracy = "allow" THEN Resolve(Readings(key), FALSE).text ELSE Decrypt(key)

\* Only the expanding resolver scores, and so counts, what it resolves.
Scored(key) ==
  IF problem.degeneracy = "allow" /\ problem.resolver = "expand_beam" THEN Readings(key)
  ELSE <<>>

ResolvePlaintext(key) ==
  /\ rescored.calls < MaxCalls
  /\ resolved' = [key |-> key, text |-> PlaintextOf(key)]
  /\ telemetry' = Tally(telemetry, Scored(key))
  /\ rescored' = [calls |-> rescored.calls + 1,
                  readings |-> rescored.readings + Len(Scored(key))]
  /\ UNCHANGED <<problem, result>>

Next ==
  \/ \E batch \in Batches :
       \/ EvaluateKeys(batch)
       \/ \E requireRaw \in BOOLEAN : EvaluateKeysWithRaw(batch, requireRaw)
  \/ \E key \in KeysOf(problem) : ResolvePlaintext(key)

Spec == Init /\ [][Next]_vars

-----------------------------------------------------------------------------
(* Properties.                                                                *)

\* What a key could stand for, said of encryption: the texts that have the
\* ciphertext's interruptors and that the table can turn into the rest of it.
EncryptsTo(t, key) ==
  LET S == InterruptIdx(key)
      of == Prepare(problem.orient, t, S)
      to == CandidateInputs(key)
      p == ApplyText(problem.orient, of.core)
  IN  /\ of.sym = to.info.sym
      /\ \A i \in DOMAIN p :
           to.text[i] \in problem.table[p[i]][key.core[i % Size(key.core)]]

Texts == [DOMAIN problem.ciphertext -> 0 .. A - 1]
Meanings(key) == {t \in Texts : EncryptsTo(t, key)}
Passing(texts) == {t \in texts : Verdict(t) = "pass"}

\* No limit cut a key's readings, and there is something to read: a key whose
\* interruptors are the whole text has no reading when they are enumerated.
Exhaustive(key) ==
  /\ DOMAIN CandidateInputs(key).text # {}
  /\ problem.resolver = "expand_beam" /\ PerPositionLimit = A
  /\ Cardinality(Meanings(key)) <= ResolverLimit

\* Whatever batch a key is in, and whether degeneracy is allowed, the score it
\* gets is that of the plaintext it gets, or minus infinity; the plaintext
\* encrypts to the ciphertext if any does.  When no limit cuts the readings, the
\* score is the best of the texts that encrypt to the ciphertext and pass the
\* crib, and minus infinity if there are none.
ScoreIsOfAReading ==
  \A b \in DOMAIN result.batch :
    LET key == result.batch[b]
        best == IF result.byRaw THEN result.raw[b] ELSE result.pct[b]
        Score(t) == IF result.byRaw THEN RawScore(t) ELSE PrimaryScore(t)
    IN  /\ IF result.plains[b] = NoText
             THEN {result.pct[b], result.raw[b]} = {MinusInfinity}
             ELSE /\ Meanings(key) # {} => result.plains[b] \in Meanings(key)
                  /\ IF Verdict(result.plains[b]) = "pass"
                       THEN /\ result.pct[b] = PrimaryScore(result.plains[b])
                            /\ result.raw[b] = RawScore(result.plains[b])
                       ELSE {result.pct[b], result.raw[b]} = {MinusInfinity}
        /\ problem.degeneracy = "allow" /\ Exhaustive(key) =>
             best = Max({MinusInfinity} \cup {Score(t) : t \in Passing(Meanings(key))})

\* The plaintext a solution shows for a key scores no less than the score
\* reported for that key, whichever call reported it, and exactly that unless the
\* report went by raw scores.
ShownPlaintextDeservesScore ==
  \A b \in DOMAIN result.batch :
    result.batch[b] = resolved.key =>
      LET shown == IF resolved.text = NoText \/ Verdict(resolved.text) # "pass"
                     THEN MinusInfinity ELSE PrimaryScore(resolved.text)
      IN  IF result.byRaw THEN shown >= result.pct[b] ELSE shown = result.pct[b]

\* Every text given a score or a rejection is counted once: the crib's passes and
\* rejections add up to the readings evaluated and those scored again to be shown,
\* and each rejection is put down to one rule.
CountersAgree ==
  problem.crib # NoCrib =>
    /\ telemetry["pass"] + telemetry["reject"] = telemetry["candidates"] + rescored.readings
    /\ telemetry["reject"] = telemetry["fixed"] + telemetry["word"] + telemetry["global"]

=============================================================================
