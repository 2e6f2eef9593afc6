--------------------------- MODULE TwoPeriodCribs ---------------------------
(* rdp.solvers.two_period_cribs: words known or guessed to be in the text are *)
(* equations for the two streams of an overlaid key.  Each choice of guesses  *)
(* and of interruptors that the equations allow is a branch; its solutions    *)
(* are searched coordinate by coordinate under three scores, the last of      *)
(* which judges what all three found.                                         *)
(*                                                                            *)
(* A word is its runes, an array.  Scores are finite and functions of the     *)
(* plaintext: a key a branch offers that its own crib rejects would raise in  *)
(* the code, and BranchesAreExact says that there is none.  Identifiers are   *)
(* what they are hashes of, and the order of the hashes is any order.         *)
EXTENDS ScheduledStream

LOCAL INSTANCE Sequences
LOCAL INSTANCE SequencesExt
LOCAL INSTANCE FiniteSetsExt

CONSTANTS
  PeriodA, PeriodB,
  Problems,          \* records [text, words, fixed, guesses, at, config, scores]
  Score(_, _, _),    \* of a plaintext, by the problem's scores and the profile
  Starts,            \* searches of a branch's scout
  Sweeps,            \* of each profile, over all coordinates
  NoSpan, NoSpace, None

Profiles == {"S2", "B1", "F1"}
KeyLength == PeriodA + PeriodB
Columns == 0 .. KeyLength - 1
Gauge == PeriodA     \* the first place of B is 0

\* The runic alphabet has a prime number of symbols, so every pivot has an inverse.
ASSUME CribsAssumption ==
  /\ A > 1 /\ \A d \in 2 .. A - 1 : A % d # 0
  /\ {PeriodA, PeriodB, Starts} \subseteq Nat \ {0}
  /\ Sweeps \in [Profiles -> Nat \ {0}]

VARIABLES
  problem,    \* the ciphertext and the request
  pc,         \* what is done next
  branches,   \* those not searched yet
  branch,     \* the one being searched
  left,       \* scout searches to start; inputs of a refinement to take up
  found,      \* the terminals of each profile in this branch, by identifier
  union,      \* all_union: the terminals of all branches, by identifier
  answer,
  judged      \* history: the highest final-profile score of any key

vars == <<problem, pc, branches, branch, left, found, union, answer, judged>>

-----------------------------------------------------------------------------
(* Linear equations modulo A.  A row maps the columns to their coefficients   *)
(* and KeyLength to the right-hand side.                                      *)

InverseMod(x) == CHOOSE y \in 1 .. A - 1 : (x * y) % A = 1

\* Mutant: a pivot clears its column only in the rows below.
EliminateBelow(state, col) ==
  LET r == Len(state.pivots) + 1
      choices == {i \in r .. Len(state.rows) : state.rows[i][col] # 0}
      s == Min(choices)
      scaled == [c \in 0 .. KeyLength |->
                   (state.rows[s][c] * InverseMod(state.rows[s][col])) % A]
      swapped == [state.rows EXCEPT ![s] = state.rows[r], ![r] = scaled]
  IN  IF choices = {} THEN state
      ELSE [rows |-> [i \in DOMAIN swapped |->
                        IF i <= r THEN swapped[i]
                        ELSE [c \in 0 .. KeyLength |->
                                (swapped[i][c] - swapped[i][col] * scaled[c]) % A]],
            pivots |-> Append(state.pivots, col)]

\* One column: its first row at or below the next pivot's place is moved there,
\* scaled to one and taken from all other rows.
Eliminate(state, col) ==
  LET r == Len(state.pivots) + 1
      choices == {i \in r .. Len(state.rows) : state.rows[i][col] # 0}
      s == Min(choices)
      scaled == [c \in 0 .. KeyLength |->
                   (state.rows[s][c] * InverseMod(state.rows[s][col])) % A]
      swapped == [state.rows EXCEPT ![s] = state.rows[r], ![r] = scaled]
  IN  IF choices = {} THEN state
      ELSE [rows |-> [i \in DOMAIN swapped |->
                        IF i = r THEN scaled
                        ELSE [c \in 0 .. KeyLength |->
                                (swapped[i][c] - swapped[i][col] * scaled[c]) % A]],
            pivots |-> Append(state.pivots, col)]

Reduce(rows) ==
  FoldLeft(Eliminate, [rows |-> rows, pivots |-> <<>>], [c \in 1 .. KeyLength |-> c - 1])

Contradictory(rows) ==
  \E i \in DOMAIN rows : rows[i][KeyLength] # 0 /\ \A c \in Columns : rows[i][c] = 0

-----------------------------------------------------------------------------
(* What cribs say of the key.                                                 *)

CribAt(span) == {<<span.start + i, span.runes[i]>> : i \in DOMAIN span.runes}

\* The equation of a rune: the values of both streams make the difference.
Equation(text, ints, pos, rune) ==
  LET core == pos - Rank(ints, pos)
  IN  [c \in 0 .. KeyLength |->
         IF c = KeyLength THEN (text[pos] - rune) % A
         ELSE IF c \in {core % PeriodA, PeriodA + (core % PeriodB)} THEN 1 ELSE 0]

GaugeEquation == [c \in 0 .. KeyLength |-> IF c = Gauge THEN 1 ELSE 0]

\* derive_constraint_space: NoSpace where the code raises.  The cribs' runes on
\* interruptors are not enciphered.
Derive(text, spans, ints) ==
  LET runes == UNION {CribAt(s) : s \in spans}
      rows == Append(SetToSeq({Equation(text, ints, r[1], r[2]) :
                                 r \in {x \in runes : x[1] \notin ints}}), GaugeEquation)
      reduced == Reduce(rows)
      free == Columns \ ToSet(reduced.pivots)
      RowOf(c) == reduced.rows[CHOOSE i \in DOMAIN reduced.pivots : reduced.pivots[i] = c]
  IN  IF \E r \in runes : r[1] \notin DOMAIN text \/ (r[1] \in ints /\ text[r[1]] # r[2])
        THEN NoSpace
      ELSE IF Contradictory(reduced.rows) THEN NoSpace
      ELSE [free |-> free,
            particular |-> [c \in Columns |-> IF c \in free THEN 0 ELSE RowOf(c)[KeyLength]],
            basis |-> [c \in Columns |->
                         [f \in free |-> IF c \in free THEN (IF c = f THEN 1 ELSE 0)
                                         ELSE (- RowOf(c)[f]) % A]]]

\* expand_reduced_key.
Expand(values, space) ==
  [c \in Columns |->
     (space.particular[c]
        + MapThenSumSet(LAMBDA f : space.basis[c][f] * values[f], space.free)) % A]

Values(space) == [space.free -> 0 .. A - 1]

-----------------------------------------------------------------------------
(* Branches.                                                                  *)

CompleteWordStarts(p, w) == {s[1] : s \in {s \in p.words : s[2] = Size(w)}}

\* Places a word may have: those asked for, or every word of its length.
StartsOf(p, w) == IF w \in DOMAIN p.at THEN p.at[w] ELSE CompleteWordStarts(p, w)

\* A guessed word is asked for where no word of its length begins.
InvalidPositions(p) ==
  \E w \in p.guesses \cap DOMAIN p.at : ~ (p.at[w] \subseteq CompleteWordStarts(p, w))

\* Without a word to guess the fixed cribs are all there is.
Alternatives(p) ==
  IF p.guesses = {} THEN {NoSpan}
  ELSE UNION {{[runes |-> w, start |-> s] : s \in StartsOf(p, w)} : w \in p.guesses}

SpansOf(p, guess) == p.fixed \cup ({guess} \ {NoSpan})

\* The sets of interruptors to consider: a given one, or those of a pool that are
\* neither too small nor too large.
Hypotheses(p) ==
  IF p.config.mode = "exact" THEN {p.config.positions}
  ELSE {S \in SUBSET p.config.pool : Cardinality(S) \in p.config.min .. p.config.max}

\* Too many of them for a caller who left the way of searching open, or the wish
\* to search them by key operations.
Refused(p) ==
  /\ p.config.mode = "search"
  /\ \/ p.config.strategy = "keyops"
     \/ p.config.strategy = "auto" /\ Cardinality(Hypotheses(p)) > p.config.most

\* build_branches: none if the fixed cribs alone contradict the hypothesis.
BranchesFor(p, ints) ==
  LET Space(guess) == Derive(p.text, SpansOf(p, guess), ints)
  IN  IF Derive(p.text, p.fixed, ints) = NoSpace THEN {}
      ELSE {[guess |-> g, ints |-> ints, space |-> Space(g)] :
              g \in {h \in Alternatives(p) : Space(h) # NoSpace}}

AllBranches(p) == UNION {BranchesFor(p, ints) : ints \in Hypotheses(p)}

-----------------------------------------------------------------------------
(* Keys to scores.                                                            *)

Overlay ==
  LET periodic(n) == [kind |-> "periodic", period |-> n, values |-> None, offset |-> 0,
                      direction |-> "forward", anchor |-> "start", repeat |-> TRUE]
  IN  [streams |-> [x \in Names |-> periodic(IF x = "A" THEN PeriodA ELSE PeriodB)],
       schedule |-> "overlay", operation |-> "add"]

Forwards == [perm |-> NoPerm, rtl |-> FALSE]
Decrypt(text, key, ints) ==
  Through(Forwards, text, ints, LAMBDA c : StreamDecrypt(Overlay, c, key))

ScoreOfKey(p, profile, key, ints) == Score(p.scores, profile, Decrypt(p.text, key, ints))

-----------------------------------------------------------------------------
(* Coordinate search, given the scores.  A state is [at, top]: the values, and*)
(* the highest score seen on the way.                                         *)

\* One coordinate: the first of the values that score best, if better than now.
Step(score, state, f) ==
  LET Try(v) == [state.at EXCEPT ![f] = v]
      high == Max({score[Try(v)] : v \in 0 .. A - 1})
      best == Min({v \in 0 .. A - 1 : score[Try(v)] = high})
  IN  [at |-> IF high > score[state.at] THEN Try(best) ELSE state.at,
       top |-> Max({state.top, high})]

\* Mutant: a search stops after its first sweep whatever that did.
StillImprovingNever(before, after) == FALSE
StillImproving(before, after) == after.at # before.at

\* Every terminal, with its reason: each sweep takes the coordinates in any order.
Terminals(score, free, sweeps, start) ==
  LET orders == SetToSeqs(free)
      begin == [at |-> start, top |-> score[start]]
      Sweep(state, order) == FoldLeft(LAMBDA s, f : Step(score, s, f), state, order)
      sweep[n \in Nat] ==   \* states after n sweeps, and whether the last improved
        IF n = 0 THEN {<<begin, TRUE>>}
        ELSE UNION {IF s[2] THEN {<<Sweep(s[1], o), StillImproving(s[1], Sweep(s[1], o))>> :
                                    o \in orders}
                            ELSE {s} : s \in sweep[n - 1]}
      Record(state, reason) ==
        [values |-> state.at, score |-> score[state.at], reason |-> reason, top |-> state.top]
  IN  IF free = {} THEN {Record(begin, "exact")}
      ELSE {Record(s[1], IF s[2] THEN "max_sweeps" ELSE "no_improvement") : s \in sweep[sweeps]}

\* What all solutions of a branch score: a table for the sake of checking.
Scored(p, b) ==
  [profile \in Profiles |->
    [v \in Values(b.space) |-> ScoreOfKey(p, profile, Expand(v, b.space), b.ints)]]
Search(profile, start) ==
  Terminals(branch.score[profile], branch.space.free, Sweeps[profile], start)

RecordOf(t) == [values |-> t.values, score |-> t.score, reason |-> t.reason]
\* Mutant: an identifier of the key alone.
IdOfKeyAlone(b, values) == [key |-> Expand(values, b.space), ints |-> {}]
IdOf(b, values) == [key |-> Expand(values, b.space), ints |-> b.ints]

\* A terminal reached again replaces the record only with a higher score.
Keep(surface, id, record) ==
  IF id \in DOMAIN surface /\ record.score <= surface[id].score THEN surface
  ELSE (id :> record) @@ surface

\* _stage_stop_reason.
StageReason(surface) ==
  LET reasons == {surface[id].reason : id \in DOMAIN surface}
  IN  IF "max_sweeps" \in reasons THEN "max_sweeps"
      ELSE IF "no_improvement" \in reasons THEN "no_improvement" ELSE "exact"

-----------------------------------------------------------------------------
(* run_two_period_stages.                                                     *)

NothingFound == [profile \in Profiles |-> <<>>]

Init ==
  /\ problem \in Problems
  /\ pc = "build" /\ branches = {} /\ branch = None /\ left = None
  /\ found = NothingFound /\ union = <<>> /\ answer = None /\ judged = None

\* What is never searched, whatever the cribs say.
IllFormed(p) == Refused(p) \/ InvalidPositions(p)

\* A contradiction, a search too wide or an impossible place is the caller's error.
Raise ==
  /\ pc = "build" /\ (IllFormed(problem) \/ AllBranches(problem) = {})
  /\ pc' = "raised"
  /\ UNCHANGED <<problem, branches, branch, left, found, union, answer, judged>>

Build ==
  /\ pc = "build" /\ ~ IllFormed(problem) /\ AllBranches(problem) # {}
  /\ pc' = "branch" /\ branches' = AllBranches(problem)
  /\ UNCHANGED <<problem, branch, left, found, union, answer, judged>>

OpenBranch ==
  /\ pc = "branch" /\ branches # {}
  /\ \E b \in branches :
       /\ branch' = [space |-> b.space, ints |-> b.ints, score |-> Scored(problem, b)]
       /\ branches' = branches \ {b}
  /\ pc' = "S2" /\ left' = Starts /\ found' = NothingFound
  /\ UNCHANGED <<problem, union, answer, judged>>

\* A search from random values.
Scout ==
  /\ pc = "S2" /\ left > 0
  /\ \E start \in Values(branch.space) :
       \E t \in Search("S2", start) :
         found' = [found EXCEPT !["S2"] = Keep(@, IdOf(branch, t.values), RecordOf(t))]
  /\ left' = left - 1
  /\ UNCHANGED <<problem, pc, branches, branch, union, answer, judged>>

\* The scout's terminals go to the bridge, those of both to the judge.
EndScout ==
  /\ pc = "S2" /\ left = 0
  /\ pc' = "B1" /\ left' = DOMAIN found["S2"]
  /\ UNCHANGED <<problem, branches, branch, found, union, answer, judged>>

EndBridge ==
  /\ pc = "B1" /\ left = {}
  /\ pc' = "F1" /\ left' = DOMAIN found["S2"] \cup DOMAIN found["B1"]
  /\ UNCHANGED <<problem, branches, branch, found, union, answer, judged>>

\* The values of an input: of the first surface that has it.
InputValues(id) ==
  IF id \in DOMAIN found["S2"] THEN found["S2"][id].values ELSE found["B1"][id].values

HigherOf(x, y) == IF x = None \/ y > x THEN y ELSE x

\* One input of _run_refinement_stage.
Refine(profile) ==
  /\ pc = profile /\ left # {}
  /\ \E id \in left : \E t \in Search(profile, InputValues(id)) :
       /\ left' = left \ {id}
       /\ found' = [found EXCEPT ![profile] = Keep(@, IdOf(branch, t.values), RecordOf(t))]
       /\ judged' = IF profile = "F1" THEN HigherOf(judged, t.top) ELSE judged
  /\ UNCHANGED <<problem, pc, branches, branch, union, answer>>

Bridge == Refine("B1")
Judge == Refine("F1")

TerminalsOfAll == UNION {DOMAIN found[profile] : profile \in DOMAIN found}

\* The final profile scores the terminals of all three once more, and they join
\* those of earlier branches.
Rescore ==
  LET Final(id) == [values |-> None, reason |-> "rescored",
                    score |-> ScoreOfKey(problem, "F1", id.key, id.ints)]
      Better(id) == id \notin DOMAIN union \/ Final(id).score > union[id].score
      better == {id \in TerminalsOfAll : Better(id)}
  IN  /\ pc = "F1" /\ left = {}
      /\ union' = [id \in better |-> Final(id)] @@ union
      /\ judged' = HigherOf(judged, Max({Final(id).score : id \in TerminalsOfAll}))
      /\ pc' = "branch" /\ left' = None
      /\ UNCHANGED <<problem, branches, branch, found, answer>>

LexicallyBefore(k, l) ==
  \E i \in Columns : k[i] < l[i] /\ \A j \in 0 .. i - 1 : k[j] = l[j]

\* The best score, then the first key; then the order of the branches' hashes.
First(id) ==
  \A other \in DOMAIN union :
    \/ union[id].score > union[other].score
    \/ union[id].score = union[other].score /\ ~ LexicallyBefore(other.key, id.key)

Answer ==
  /\ pc = "branch" /\ branches = {}
  /\ \E id \in DOMAIN union :
       /\ First(id)
       /\ answer' = [key |-> id.key, ints |-> id.ints, score |-> union[id].score,
                     text |-> Decrypt(problem.text, id.key, id.ints)]
  /\ pc' = "done"
  /\ UNCHANGED <<problem, branches, branch, left, found, union, judged>>

Finished == pc \in {"done", "raised"} /\ UNCHANGED vars

Next ==
  \/ Raise \/ Build \/ OpenBranch \/ Scout \/ EndScout \/ Bridge \/ EndBridge
  \/ Judge \/ Rescore \/ Answer \/ Finished

Spec == Init /\ [][Next]_vars

-----------------------------------------------------------------------------
(* Properties.                                                                *)

CribsHold(text, spans) ==
  \A s \in spans : \A r \in CribAt(s) : r[1] \in DOMAIN text /\ text[r[1]] = r[2]

\* What any key at all makes of the text, of which the cribs are true.
ReadingsWith(guess, ints) ==
  {t \in {Decrypt(problem.text, k, ints) : k \in [Columns -> 0 .. A - 1]} :
     CribsHold(t, SpansOf(problem, guess))}

\* What the search can reach of them.
ReadingsOf(b) == {Decrypt(problem.text, Expand(v, b.space), b.ints) : v \in Values(b.space)}

\* Unless the request is refused outright: for every place of every guess and every
\* set of interruptors, the branches offer the readings of which the cribs are true,
\* all of them and no other.  Fixing a place of the key loses none, what is rejected
\* has none, and no key that is searched is rejected by the hard crib.
BranchesAreExact ==
  (pc = "branch" /\ branch = None) \/ (pc = "raised" /\ ~ IllFormed(problem)) =>
    \A ints \in Hypotheses(problem), g \in Alternatives(problem) :
      ReadingsWith(g, ints) =
        UNION {ReadingsOf(b) : b \in {b \in branches : b.guess = g /\ b.ints = ints}}

\* A stage that does not say its sweeps ran out found only keys that no change of
\* one coordinate betters, also where two searches ended in the same key.
StageReasonIsTrue ==
  LET Over(profile) == CASE profile = "S2" -> pc \in {"B1", "F1"}
                         [] profile = "B1" -> pc = "F1"
                         [] profile = "F1" -> pc = "F1" /\ left = {}
      Improvable(profile, record) ==
        \E f \in branch.space.free, v \in 0 .. A - 1 :
          LET key == Expand([record.values EXCEPT ![f] = v], branch.space)
          IN  ScoreOfKey(problem, profile, key, branch.ints) > record.score
  IN  \A profile \in Profiles :
        Over(profile) /\ StageReason(found[profile]) # "max_sweeps" =>
          \A id \in DOMAIN found[profile] : ~ Improvable(profile, found[profile][id])

\* The answer is of the highest score the judge gave to any key of any branch, the
\* plaintext beside it earns that score, and the cribs of a branch are true of it.
AnswerIsBestJudged ==
  pc = "done" =>
    /\ answer.score = judged
    /\ Score(problem.scores, "F1", answer.text) = answer.score
    /\ \E g \in Alternatives(problem) : CribsHold(answer.text, SpansOf(problem, g))

=============================================================================
