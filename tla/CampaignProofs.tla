--------------------------- MODULE CampaignProofs ---------------------------
(* What is proved of a campaign's records, for any number of runs: wherever   *)
(* a process is killed and whichever write fails, the ledger agrees with the  *)
(* results; and whatever is offered in whatever order, the archive keeps the  *)
(* selection of it and can be read again once it is written.                  *)
EXTENDS Campaign, FiniteSetTheorems, SequenceTheorems, TLAPS

\* The types of the process, its results and the ledger.  Inside a run there is
\* a run directory.
ProcessOK ==
  /\ pc \in {"out", "body", "raised"} \cup Statuses
  /\ run \in 0 .. MaxRuns /\ finished \in BOOLEAN
  /\ results \in [1 .. MaxRuns -> Statuses \cup {NoFile}]
  /\ ledger \in Seq(Lines)
  /\ pc # "out" => run \in 1 .. MaxRuns

Legible(lines) == {i \in DOMAIN lines : lines[i].row # NoRow}

\* The rows of a ledger are of runs begun, agree with the results, and no two are
\* of one run.
Agrees(lines) ==
  /\ \A i \in Legible(lines) :
       lines[i].row.run <= run /\ results[lines[i].row.run] = lines[i].row.status
  /\ \A i, j \in Legible(lines) : lines[i].row.run = lines[j].row.run => i = j

NoneOf(r, lines) == \A i \in Legible(lines) : lines[i].row.run # r

\* The strengthening: a run has no row until it has finished, and none between
\* writing its result and appending its row, when the result says what the row
\* will.
LedgerInv ==
  /\ Agrees(ledger)
  /\ pc \in Statuses => finished /\ results[run] = pc /\ NoneOf(run, ledger)
  /\ pc \in {"body", "raised"} /\ ~ finished => NoneOf(run, ledger)

-----------------------------------------------------------------------------
(* Lines.                                                                     *)

\* The row of a legible line is a row.
LEMMA LegibleRows ==
  ASSUME NEW lines \in Seq(Lines), NEW i \in Legible(lines)
  PROVE  lines[i].row \in Rows
<1>1. lines[i] \in Lines /\ lines[i].row # NoRow
  BY DEF Legible
<1> QED BY <1>1 DEF Lines

\* Appending a line leaves the legible lines where they are, and adds one at most,
\* at the end, with the row that was appended.
LEMMA AppendedLines ==
  ASSUME NEW lines \in Seq(Lines), NEW line \in Lines
  PROVE  /\ Appended(lines, line) \in Seq(Lines)
         /\ \A i \in Legible(Appended(lines, line)) :
              \/ i \in Legible(lines) /\ Appended(lines, line)[i].row = lines[i].row
              \/ i = Len(lines) + 1 /\ Appended(lines, line)[i].row = line.row
<1>1. CASE lines # <<>> /\ ~ lines[Len(lines)].ended
  <2> DEFINE spoilt == Line(NoRow, line.ended)
  <2>1. Appended(lines, line) = [lines EXCEPT ![Len(lines)] = spoilt]
    BY <1>1 DEF Appended
  <2>2. spoilt \in Lines /\ spoilt.row = NoRow
    BY DEF Line, Lines
  <2>3. Len(lines) \in Nat /\ DOMAIN lines = 1 .. Len(lines)
        /\ \A i \in DOMAIN lines : lines[i] \in Lines
    OBVIOUS
  <2> HIDE DEF spoilt
  <2>4. [lines EXCEPT ![Len(lines)] = spoilt] \in Seq(Lines)
    BY <1>1, <2>2, <2>3, ExceptSeq
  <2>5. \A i \in DOMAIN lines :
          [lines EXCEPT ![Len(lines)] = spoilt][i]
            = IF i = Len(lines) THEN spoilt ELSE lines[i]
    BY <2>3
  <2> QED BY <2>1, <2>2, <2>3, <2>4, <2>5 DEF Legible
<1>2. CASE ~ (lines # <<>> /\ ~ lines[Len(lines)].ended)
  <2>1. Appended(lines, line) = Append(lines, line)
    BY <1>2 DEF Appended
  <2> QED BY <2>1 DEF Legible
<1> QED BY <1>1, <1>2

\* A line of the row that is due, or of part of it, may be appended or lost.
LEMMA AppendKeeps ==
  ASSUME ProcessOK, LedgerInv, pc \in Statuses,
         NEW line \in Lines, line.row \in {NoRow, Row}
  PROVE  Appended(ledger, line) \in Seq(Lines) /\ Agrees(Appended(ledger, line))
<1> DEFINE longer == Appended(ledger, line)
<1>1. ledger \in Seq(Lines) /\ run \in 1 .. MaxRuns
  BY DEF ProcessOK, Statuses
<1>2. longer \in Seq(Lines)
      /\ \A i \in Legible(longer) :
           \/ i \in Legible(ledger) /\ longer[i].row = ledger[i].row
           \/ i = Len(ledger) + 1 /\ longer[i].row = line.row
  BY <1>1, AppendedLines
<1>3. \A i \in Legible(longer) : longer[i].row # NoRow
  BY DEF Legible
<1>4. Row.run = run /\ Row.status = pc /\ results[run] = pc /\ NoneOf(run, ledger)
  BY DEF Row, LedgerInv
<1>5. \A i \in Legible(longer) :
        \/ i \in Legible(ledger) /\ longer[i].row = ledger[i].row
        \/ i = Len(ledger) + 1 /\ longer[i].row = Row
  BY <1>2, <1>3
<1> HIDE DEF longer
<1>6. \A i \in Legible(longer) :
        longer[i].row.run <= run /\ results[longer[i].row.run] = longer[i].row.status
  BY <1>1, <1>4, <1>5 DEF LedgerInv, Agrees
<1>7. \A i, j \in Legible(longer) : longer[i].row.run = longer[j].row.run => i = j
  BY <1>4, <1>5 DEF LedgerInv, Agrees, NoneOf
<1> QED BY <1>2, <1>6, <1>7 DEF Agrees, longer

\* The same of whatever a write that is cut short leaves.
LEMMA RemainsKeep ==
  ASSUME ProcessOK, LedgerInv, pc \in Statuses, NEW l \in Remains
  PROVE  l \in Seq(Lines) /\ Agrees(l)
<1>1. Row \in Rows
  BY DEF Row, Rows, ProcessOK, Statuses
<1>2. /\ Line(NoRow, FALSE) \in Lines /\ Line(NoRow, FALSE).row = NoRow
      /\ Line(Row, FALSE) \in Lines /\ Line(Row, FALSE).row = Row
      /\ Line(Row, TRUE) \in Lines /\ Line(Row, TRUE).row = Row
  BY <1>1 DEF Line, Lines
<1>3. CASE l = ledger
  BY <1>3 DEF ProcessOK, LedgerInv
<1>4. CASE \E line \in {Line(NoRow, FALSE), Line(Row, FALSE), Line(Row, TRUE)} :
             l = Appended(ledger, line)
  BY <1>2, <1>4, AppendKeeps
<1> QED BY <1>3, <1>4 DEF Remains

-----------------------------------------------------------------------------
(* The invariant.                                                             *)

LEMMA InitHolds == Init => ProcessOK /\ LedgerInv
<1> SUFFICES ASSUME Init PROVE ProcessOK /\ LedgerInv
  OBVIOUS
<1>1. ProcessOK
  <2>1. <<>> \in Seq(Lines) /\ 0 \in 0 .. MaxRuns
    BY RunAssumption
  <2>2. [r \in 1 .. MaxRuns |-> NoFile] \in [1 .. MaxRuns -> Statuses \cup {NoFile}]
    OBVIOUS
  <2> QED BY <2>1, <2>2 DEF Init, ProcessOK
<1>2. Legible(ledger) = {}
  BY DEF Init, Legible
<1> QED BY <1>1, <1>2 DEF Init, LedgerInv, Agrees, Statuses

\* A result is written before the run has a row, so no row is contradicted.
LEMMA WriteResultKeeps ==
  ASSUME ProcessOK, LedgerInv, pc \in {"body", "raised"}, ~ finished,
         NEW status \in Statuses, WriteResult(status), UNCHANGED <<run, ledger>>
  PROVE  ProcessOK' /\ LedgerInv'
<1>1. run \in 1 .. MaxRuns /\ ledger \in Seq(Lines) /\ NoneOf(run, ledger)
  BY DEF ProcessOK, LedgerInv
<1>2. results'[run] = status /\ results' \in [1 .. MaxRuns -> Statuses \cup {NoFile}]
  BY <1>1 DEF ProcessOK, WriteResult
<1>3. ProcessOK'
  BY <1>1, <1>2 DEF ProcessOK, WriteResult
<1>4. \A i \in Legible(ledger) :
        ledger[i].row.run \in 1 .. MaxRuns /\ ledger[i].row.run # run
  BY <1>1, LegibleRows DEF Rows, NoneOf
<1>5. \A r \in 1 .. MaxRuns : r # run => results'[r] = results[r]
  BY <1>1 DEF WriteResult, ProcessOK
<1>6. Agrees(ledger)'
  BY <1>4, <1>5 DEF Agrees, LedgerInv, Legible
<1>7. NoneOf(run, ledger)'
  BY <1>1 DEF NoneOf, Legible
<1> QED BY <1>2, <1>3, <1>6, <1>7 DEF LedgerInv, WriteResult, Statuses

\* Steps that leave results and ledger alone.
LEMMA QuietKeeps ==
  ASSUME ProcessOK, LedgerInv, UNCHANGED <<run, results, ledger>>,
         \/ UNCHANGED <<pc, finished>>
         \/ pc' = "out" /\ finished' \in BOOLEAN
         \/ pc \in {"body", "raised"} /\ pc' \in {"body", "raised"} /\ UNCHANGED finished
  PROVE  ProcessOK' /\ LedgerInv'
<1>1. Agrees(ledger)' /\ (NoneOf(run, ledger) => NoneOf(run, ledger)')
  BY DEF LedgerInv, Agrees, NoneOf, Legible
<1>2. ProcessOK'
  BY DEF ProcessOK, Statuses
<1> QED BY <1>1, <1>2 DEF LedgerInv, Statuses

LEMMA NextHolds == ProcessOK /\ LedgerInv /\ [Next]_vars => ProcessOK' /\ LedgerInv'
<1> SUFFICES ASSUME ProcessOK, LedgerInv, [Next]_vars PROVE ProcessOK' /\ LedgerInv'
  OBVIOUS
<1> USE DEF process
<1>1. CASE \E record \in Records : Offer(record)
  BY <1>1, QuietKeeps DEF Offer
<1>2. CASE WriteArchive
  BY <1>2, QuietKeeps DEF WriteArchive
<1>3. CASE ReadArchive
  BY <1>3, QuietKeeps DEF ReadArchive
<1>4. CASE Enter
  <2>1. run \in 0 .. MaxRuns /\ run < MaxRuns /\ run' = run + 1 /\ run' \in 1 .. MaxRuns
    BY <1>4, RunAssumption DEF Enter, ProcessOK
  <2>2. ProcessOK'
    <3>1. /\ pc' \in {"out", "body", "raised"} \cup Statuses /\ finished' \in BOOLEAN
          /\ UNCHANGED <<results, ledger>>
      BY <1>4 DEF Enter
    <3> QED BY <2>1, <3>1 DEF ProcessOK
  <2>3. \A i \in Legible(ledger) : ledger[i].row.run \in Int /\ ledger[i].row.run <= run
    BY LegibleRows DEF ProcessOK, Rows, LedgerInv, Agrees
  <2>4. Agrees(ledger)' /\ NoneOf(run, ledger)'
    BY <1>4, <2>1, <2>3 DEF Enter, Agrees, NoneOf, LedgerInv, Legible
  <2> QED BY <1>4, <2>2, <2>4 DEF Enter, LedgerInv, Statuses
<1>5. CASE Finish
  BY <1>5, WriteResultKeeps, QuietKeeps DEF Finish, Statuses
<1>6. CASE BodyRaises
  BY <1>6, QuietKeeps DEF BodyRaises
<1>7. CASE Exit
  BY <1>7, QuietKeeps DEF Exit, ProcessOK
<1>8. CASE Fail
  BY <1>8, WriteResultKeeps, QuietKeeps DEF Fail, Statuses, ProcessOK
<1>9. CASE AppendRow
  <2>1. Line(Row, TRUE) \in Lines /\ Line(Row, TRUE).row = Row
    BY <1>9 DEF AppendRow, Line, Lines, Row, Rows, ProcessOK, Statuses
  <2>2. ledger' \in Seq(Lines) /\ Agrees(ledger')
    BY <1>9, <2>1, AppendKeeps DEF AppendRow
  <2>3. Agrees(ledger)'
    BY <1>9, <2>2 DEF AppendRow, Agrees, Legible
  <2>4. finished' /\ pc' \in {"body", "out"}
    BY <1>9 DEF AppendRow, LedgerInv
  <2> QED BY <1>9, <2>2, <2>3, <2>4 DEF AppendRow, ProcessOK, LedgerInv, Statuses
<1>10. CASE AppendFails
  <2>1. ledger' \in Seq(Lines) /\ Agrees(ledger')
    BY <1>10, RemainsKeep DEF AppendFails
  <2>2. Agrees(ledger)'
    BY <1>10, <2>1 DEF AppendFails, Agrees, Legible
  <2>3. finished' /\ pc' \in {"raised", "out"}
    BY <1>10 DEF AppendFails, LedgerInv
  <2> QED BY <1>10, <2>1, <2>2, <2>3 DEF AppendFails, ProcessOK, LedgerInv, Statuses
<1>11. CASE Kill
  <2>1. ledger' \in Seq(Lines) /\ Agrees(ledger')
    <3>1. CASE pc \in Statuses
      BY <1>11, <3>1, RemainsKeep DEF Kill
    <3>2. CASE pc \notin Statuses
      BY <1>11, <3>2 DEF Kill, ProcessOK, LedgerInv
    <3> QED BY <3>1, <3>2
  <2>2. Agrees(ledger)'
    BY <1>11, <2>1 DEF Kill, Agrees, Legible
  <2> QED BY <1>11, <2>1, <2>2 DEF Kill, ProcessOK, LedgerInv, Statuses
<1>12. CASE UNCHANGED vars
  BY <1>12, QuietKeeps DEF vars
<1> QED
  BY <1>1, <1>2, <1>3, <1>4, <1>5, <1>6, <1>7, <1>8, <1>9, <1>10, <1>11, <1>12 DEF Next

\* The process, its results and the ledger keep their types.
THEOREM ProcessTypes == Spec => []ProcessOK
BY InitHolds, NextHolds, PTL DEF Spec

\* However runs are killed, fail or fail to be recorded, each row that can be read
\* names a run whose result is there and says the same, and no run has two rows.
THEOREM LedgerAlwaysAgrees == Spec => []LedgerAgreesWithResults
<1>1. Spec => [](ProcessOK /\ LedgerInv)
  BY InitHolds, NextHolds, PTL DEF Spec
<1>2. LedgerInv => LedgerAgreesWithResults
  BY DEF LedgerInv, Agrees, LedgerAgreesWithResults, Legible
<1> QED BY <1>1, <1>2, PTL

-----------------------------------------------------------------------------
(* The order of the records.                                                  *)

\* Records with a score, and sets of them that hold one version of a candidate.
Scored == {r \in Records : r.score # NoScore}
Versions == {R \in SUBSET Scored : /\ IsFiniteSet(R)
                                   /\ \A q, r \in R : q.id = r.id => q = r}

LEMMA ScoredParts ==
  ASSUME NEW r \in Scored
  PROVE  /\ r \in Records /\ r.score # NoScore /\ r.score \in Int /\ r.id \in Int
         /\ r = [id |-> r.id, score |-> r.score, family |-> r.family]
<1>1. /\ r \in [id : Candidates, score : Scores \cup {NoScore},
                family : Families \cup {NoFamily}]
      /\ r \in Records /\ r.score # NoScore
  BY PolicyAssumption DEF Scored
<1>2. /\ r.id \in Candidates /\ r.score \in Scores
      /\ r = [id |-> r.id, score |-> r.score, family |-> r.family]
  BY <1>1
<1>3. Candidates \subseteq Nat /\ Scores \subseteq Int
  BY PolicyAssumption
<1>4. r.score \in Int /\ r.id \in Int
  <2>1. r.id \in Nat /\ r.score \in Int
    BY <1>2, <1>3, Zenon
  <2> QED BY <2>1
<1> QED BY <1>1, <1>2, <1>4, Zenon

LEMMA AheadIsOrder ==
  /\ \A q \in Scored : ~ Ahead(q, q)
  /\ \A q, r \in Scored : ~ (Ahead(q, r) /\ Ahead(r, q))
  /\ \A p, q, r \in Scored : Ahead(p, q) /\ Ahead(q, r) => Ahead(p, r)
  /\ \A q, r \in Scored : q.id # r.id => Ahead(q, r) \/ Ahead(r, q)
<1>1. \A r \in Scored : r.score \in Int /\ r.id \in Int
  BY ScoredParts
<1> QED BY <1>1 DEF Ahead

\* Any two versions are ordered.
LEMMA VersionsAreOrdered ==
  ASSUME NEW R \in Versions
  PROVE  /\ R \subseteq Scored /\ IsFiniteSet(R) /\ Cardinality(R) \in Nat
         /\ \A q, r \in R : q # r => Ahead(q, r) \/ Ahead(r, q)
BY AheadIsOrder, FS_CardinalityType DEF Versions

LEMMA SubsetVersions ==
  ASSUME NEW R \in Versions, NEW S \in SUBSET R
  PROVE  S \in Versions
BY FS_Subset DEF Versions

\* Ranks of a set and of a part of it.
LEMMA RankOfSubset ==
  ASSUME NEW R, IsFiniteSet(R), NEW Q \in SUBSET R, NEW r
  PROVE  Rank(Q, r) \in Nat /\ Rank(R, r) \in Nat /\ Rank(Q, r) <= Rank(R, r)
<1> DEFINE P == {q \in Q : Ahead(q, r)}
           O == {q \in R : Ahead(q, r)}
<1>1. P \in SUBSET O /\ O \in SUBSET R
  OBVIOUS
<1> HIDE DEF P, O
<1>2. IsFiniteSet(O) /\ IsFiniteSet(P) /\ Cardinality(P) <= Cardinality(O)
  BY <1>1, FS_Subset
<1>3. Cardinality(P) \in Nat /\ Cardinality(O) \in Nat
  BY <1>2, FS_CardinalityType
<1> QED BY <1>2, <1>3 DEF Rank, P, O

LEMMA RankRange ==
  ASSUME NEW R \in Versions, NEW r \in R
  PROVE  Rank(R, r) \in 0 .. (Cardinality(R) - 1)
<1> DEFINE P == {q \in R : Ahead(q, r)}
<1>1. IsFiniteSet(R) /\ Cardinality(R) \in Nat /\ P \in SUBSET R /\ P # R
  BY VersionsAreOrdered, AheadIsOrder
<1>2. IsFiniteSet(P) /\ Cardinality(P) \in Nat /\ Cardinality(P) <= Cardinality(R)
      /\ Cardinality(P) # Cardinality(R)
  <2> HIDE DEF P
  <2> QED BY <1>1, FS_Subset, FS_CardinalityType
<1> QED BY <1>1, <1>2 DEF Rank

LEMMA RankIsStrict ==
  ASSUME NEW R \in Versions, NEW q \in R, NEW r \in R
  PROVE  (Ahead(q, r) <=> Rank(R, q) < Rank(R, r)) /\ (Rank(R, q) = Rank(R, r) => q = r)
<1> DEFINE P(n) == {h \in R : Ahead(h, n)}
<1>1. IsFiniteSet(R) /\ R \subseteq Scored
  BY VersionsAreOrdered
<1>2. ASSUME NEW x \in R, NEW y \in R, Ahead(x, y)
      PROVE  Rank(R, x) < Rank(R, y)
  <2>1. P(x) \in SUBSET P(y) /\ x \in P(y) /\ x \notin P(x)
    BY <1>1, <1>2, AheadIsOrder
  <2>2. IsFiniteSet(P(x)) /\ IsFiniteSet(P(y))
    BY <1>1, FS_Subset
  <2>3. /\ Cardinality(P(x)) \in Nat /\ Cardinality(P(y)) \in Nat
        /\ Cardinality(P(x)) <= Cardinality(P(y))
        /\ Cardinality(P(x)) # Cardinality(P(y))
    <3> HIDE DEF P
    <3> QED BY <2>1, <2>2, FS_Subset, FS_CardinalityType
  <2> QED BY <2>3 DEF Rank
<1>3. Rank(R, q) \in Int /\ Rank(R, r) \in Int
  BY RankRange
<1>4. q = r \/ Ahead(q, r) \/ Ahead(r, q)
  BY VersionsAreOrdered
<1>5. q # r => Rank(R, q) # Rank(R, r)
  BY <1>2, <1>3, <1>4
<1>6. Rank(R, q) < Rank(R, r) => Ahead(q, r)
  BY <1>2, <1>3, <1>4
<1> QED BY <1>2, <1>5, <1>6

\* Every rank is taken.
LEMMA RankIsOnto ==
  ASSUME NEW R \in Versions, NEW n \in 0 .. (Cardinality(R) - 1)
  PROVE  \E r \in R : Rank(R, r) = n
<1> DEFINE N == 0 .. (Cardinality(R) - 1)
           f == [r \in R |-> Rank(R, r)]
<1>1. Cardinality(R) \in Nat /\ IsFiniteSet(R)
  BY VersionsAreOrdered
<1>2. IsFiniteSet(N) /\ Cardinality(N) = Cardinality(R)
  <2> DEFINE c == Cardinality(R)
             b == c - 1
  <2>1. b \in Int /\ 0 \in Int /\ c = IF 0 > b THEN 0 ELSE b - 0 + 1
    BY <1>1
  <2> HIDE DEF b
  <2>2. IsFiniteSet(0 .. b) /\ Cardinality(0 .. b) = IF 0 > b THEN 0 ELSE b - 0 + 1
    BY <2>1, FS_Interval, Zenon
  <2> QED BY <2>1, <2>2 DEF b
<1>3. f \in Injection(R, N)
  BY RankRange, RankIsStrict DEF Injection, IsInjective
<1>4. f \in Surjection(R, N)
  <2> HIDE DEF f, N
  <2> QED BY <1>1, <1>2, <1>3, FS_Injection
<1> QED BY <1>4 DEF Surjection

\* Where there are enough, as many are foremost as are wanted.
LEMMA ForemostCount ==
  ASSUME NEW R \in Versions, NEW n \in Nat, n <= Cardinality(R)
  PROVE  IsFiniteSet(Foremost(R, n)) /\ Cardinality(Foremost(R, n)) >= n
<1> DEFINE N == 0 .. (n - 1)
           F == Foremost(R, n)
           f == [i \in N |-> CHOOSE r \in R : Rank(R, r) = i]
<1>1. Cardinality(R) \in Nat /\ IsFiniteSet(R) /\ F \in SUBSET R
  BY VersionsAreOrdered DEF Foremost
<1>2. IsFiniteSet(F) /\ Cardinality(F) \in Nat
  <2> HIDE DEF F
  <2> QED BY <1>1, FS_Subset, FS_CardinalityType
<1>3. ASSUME NEW i \in N PROVE f[i] \in F /\ Rank(R, f[i]) = i
  <2>1. i \in 0 .. (Cardinality(R) - 1) /\ i < n
    BY <1>1
  <2>2. f[i] \in R /\ Rank(R, f[i]) = i
    BY <2>1, RankIsOnto
  <2> QED BY <2>1, <2>2 DEF Foremost
<1>4. f \in Injection(N, F)
  <2>1. f \in [N -> F]
    BY <1>3
  <2>2. \A i, j \in N : f[i] = f[j] => i = j
    BY <1>3
  <2> HIDE DEF f, F, N
  <2> QED BY <2>1, <2>2 DEF Injection, IsInjective
<1>5. Cardinality(N) = n
  <2> DEFINE b == n - 1
  <2>1. b \in Int /\ 0 \in Int /\ n = IF 0 > b THEN 0 ELSE b - 0 + 1
    OBVIOUS
  <2> HIDE DEF b
  <2>2. Cardinality(0 .. b) = IF 0 > b THEN 0 ELSE b - 0 + 1
    BY <2>1, FS_Interval, Zenon
  <2> QED BY <2>1, <2>2 DEF b
<1>6. Cardinality(N) <= Cardinality(F)
  <2> HIDE DEF f, F, N
  <2> QED BY <1>2, <1>4, FS_Injection
<1> QED BY <1>2, <1>5, <1>6 DEF F

\* What is not foremost has the foremost ahead of it.
LEMMA ForemostAreAhead ==
  ASSUME NEW R \in Versions, NEW n \in Nat, NEW r \in R, r \notin Foremost(R, n)
  PROVE  /\ IsFiniteSet(Foremost(R, n)) /\ Cardinality(Foremost(R, n)) >= n
         /\ \A q \in Foremost(R, n) : Ahead(q, r)
<1>1. Cardinality(R) \in Nat /\ Rank(R, r) \in 0 .. (Cardinality(R) - 1)
  BY VersionsAreOrdered, RankRange
<1>2. n <= Rank(R, r)
  BY <1>1 DEF Foremost
<1>3. n <= Cardinality(R)
  BY <1>1, <1>2
<1>4. \A q \in Foremost(R, n) : q \in R /\ Rank(R, q) \in Int /\ Rank(R, q) < n
  BY RankRange DEF Foremost
<1>5. \A q \in Foremost(R, n) : Ahead(q, r)
  BY <1>1, <1>2, <1>4, RankIsStrict
<1> QED BY <1>3, <1>5, ForemostCount

\* So many of a set are ahead of r, so its rank is no less.
LEMMA RankAtLeast ==
  ASSUME NEW R, IsFiniteSet(R), NEW r, NEW n \in Nat, NEW Q \in SUBSET R,
         Cardinality(Q) >= n, \A q \in Q : Ahead(q, r)
  PROVE  Rank(R, r) >= n
<1> DEFINE P == {q \in R : Ahead(q, r)}
<1>1. Q \in SUBSET P /\ P \in SUBSET R
  OBVIOUS
<1> HIDE DEF P
<1>2. /\ IsFiniteSet(P) /\ IsFiniteSet(Q) /\ Cardinality(Q) <= Cardinality(P)
  BY <1>1, FS_Subset
<1>3. Cardinality(P) \in Nat /\ Cardinality(Q) \in Nat
  BY <1>2, FS_CardinalityType
<1> QED BY <1>2, <1>3 DEF Rank, P

\* The foremost of a set are the foremost of any part that holds them.
LEMMA ForemostOfSubset ==
  ASSUME NEW R \in Versions, NEW n \in Nat, NEW Q \in SUBSET R, Foremost(R, n) \subseteq Q
  PROVE  Foremost(Q, n) = Foremost(R, n)
<1>1. IsFiniteSet(R) /\ Q \in Versions /\ IsFiniteSet(Q)
  BY VersionsAreOrdered, SubsetVersions
<1>2. ASSUME NEW r \in Foremost(R, n) PROVE r \in Foremost(Q, n)
  <2>1. r \in Q /\ Rank(R, r) < n
    BY DEF Foremost
  <2>2. Rank(Q, r) \in Nat /\ Rank(R, r) \in Nat /\ Rank(Q, r) <= Rank(R, r)
    BY <1>1, RankOfSubset
  <2> QED BY <2>1, <2>2 DEF Foremost
<1>3. ASSUME NEW r \in Q, r \notin Foremost(R, n) PROVE r \notin Foremost(Q, n)
  <2>1. r \in R
    OBVIOUS
  <2>2. Cardinality(Foremost(R, n)) >= n /\ \A q \in Foremost(R, n) : Ahead(q, r)
    BY <1>3, <2>1, ForemostAreAhead
  <2>3. Rank(Q, r) >= n
    BY <1>1, <2>2, RankAtLeast
  <2>4. Rank(Q, r) \in Nat
    BY <1>1, RankOfSubset
  <2> QED BY <2>3, <2>4 DEF Foremost
<1>4. Foremost(Q, n) \subseteq Q
  BY DEF Foremost
<1> QED BY <1>2, <1>3, <1>4

-----------------------------------------------------------------------------
(* The selection.                                                             *)

\* r is within the limit of its family in R; r may be any record.
InLimit(R, r) == r.family = NoFamily \/ Rank(Family(R, r), r) < FamilyLimit

LEMMA PolicyNumbers ==
  Capacity \in Nat /\ FamilyLimit \in Nat /\ Capacity > 0 /\ FamilyLimit > 0
BY PolicyAssumption

LEMMA WithinFamilyFacts ==
  ASSUME NEW R \in Versions
  PROVE  /\ WithinFamily(R) \in SUBSET R /\ WithinFamily(R) \in Versions
         /\ \A r \in R : r \in WithinFamily(R) <=> InLimit(R, r)
         /\ \A r : Family(R, r) \in SUBSET R /\ Family(R, r) \in Versions
<1>1. WithinFamily(R) \in SUBSET R
  BY DEF WithinFamily
<1>2. \A r : Family(R, r) \in SUBSET R
  BY DEF Family
<1>3. \A r \in R : r \in Family(R, r)
  BY DEF Family
<1>4. \A r \in R : r \in WithinFamily(R) <=> InLimit(R, r)
  BY <1>3 DEF WithinFamily, InLimit, Foremost
<1>5. WithinFamily(R) \in Versions /\ \A r : Family(R, r) \in Versions
  BY <1>1, <1>2, SubsetVersions
<1> QED BY <1>1, <1>2, <1>4, <1>5

LEMMA SelectFacts ==
  ASSUME NEW R \in Versions
  PROVE  /\ Select(R) \in SUBSET R /\ Select(R) \in Versions
         /\ Select(R) \subseteq WithinFamily(R)
         /\ \A r \in R : r \in Select(R)
              <=> (InLimit(R, r) /\ Rank(WithinFamily(R), r) < Capacity)
<1>1. Select(R) \subseteq WithinFamily(R) /\ Select(R) \in SUBSET R
  BY WithinFamilyFacts DEF Select, Foremost
<1>2. Select(R) \in Versions
  BY <1>1, SubsetVersions
<1>3. \A r \in R : r \in Select(R)
              <=> (InLimit(R, r) /\ Rank(WithinFamily(R), r) < Capacity)
  BY WithinFamilyFacts DEF Select, Foremost
<1> QED BY <1>1, <1>2, <1>3

\* What is within the limit of its family stays so when records are dropped.
LEMMA LimitOfSubset ==
  ASSUME NEW R, IsFiniteSet(R), NEW Q \in SUBSET R, NEW r, InLimit(R, r)
  PROVE  InLimit(Q, r)
<1>1. Family(Q, r) \in SUBSET Family(R, r) /\ Family(R, r) \in SUBSET R
  BY DEF Family
<1>2. IsFiniteSet(Family(R, r))
  BY <1>1, FS_Subset
<1>3. /\ Rank(Family(Q, r), r) \in Nat /\ Rank(Family(R, r), r) \in Nat
      /\ Rank(Family(Q, r), r) <= Rank(Family(R, r), r)
  BY <1>1, <1>2, RankOfSubset
<1> QED BY <1>3, PolicyNumbers DEF InLimit

\* The selection of a set is the selection of any part of it that holds what was
\* selected.  A record that only the part lets through its family is behind a
\* record of the family that the capacity cut off, so the capacity cuts it off too.
LEMMA SelectOfSubset ==
  ASSUME NEW R \in Versions, NEW Q \in SUBSET R, Select(R) \subseteq Q
  PROVE  Select(Q) = Select(R)
<1> DEFINE few == WithinFamily(R)
           fewer == WithinFamily(Q)
           both == few \cap Q
<1>1. /\ Q \in Versions /\ IsFiniteSet(R) /\ IsFiniteSet(Q) /\ R \subseteq Scored
      /\ Capacity \in Nat /\ FamilyLimit \in Nat
  BY VersionsAreOrdered, SubsetVersions, PolicyNumbers
<1>2. /\ few \in SUBSET R /\ few \in Versions /\ fewer \in SUBSET Q /\ fewer \in Versions
      /\ IsFiniteSet(fewer)
  BY <1>1, WithinFamilyFacts, VersionsAreOrdered
<1>3. both \in SUBSET few /\ both \in SUBSET fewer
  BY <1>1, LimitOfSubset, WithinFamilyFacts
<1>4. Select(R) = Foremost(few, Capacity) /\ Select(Q) = Foremost(fewer, Capacity)
  BY DEF Select
<1>5. Foremost(few, Capacity) \subseteq both
  BY <1>4 DEF Foremost
<1>6. Foremost(both, Capacity) = Foremost(few, Capacity)
  BY <1>1, <1>2, <1>3, <1>5, ForemostOfSubset
<1>7. ASSUME NEW r \in fewer, r \notin few
      PROVE  r \notin Foremost(fewer, Capacity)
  <2> DEFINE clan == Family(R, r)
  <2>1. /\ r \in Q /\ r \in R /\ r.family # NoFamily
        /\ Rank(clan, r) \in Nat /\ ~ Rank(clan, r) < FamilyLimit
        /\ Rank(Family(Q, r), r) < FamilyLimit
    <3>1. r \in Q /\ r \in R /\ InLimit(Q, r) /\ ~ InLimit(R, r)
      BY <1>1, <1>2, <1>7, WithinFamilyFacts
    <3>2. IsFiniteSet(clan)
      BY WithinFamilyFacts, VersionsAreOrdered
    <3> HIDE DEF clan
    <3>3. Rank(clan, r) \in Nat
      BY <3>2, RankOfSubset
    <3> QED BY <3>1, <3>3 DEF InLimit, clan
  <2>2. clan \in Versions /\ r \in clan /\ r \notin Foremost(clan, FamilyLimit)
    BY <2>1, WithinFamilyFacts DEF Family, Foremost
  <2>3. /\ Cardinality(Foremost(clan, FamilyLimit)) >= FamilyLimit
        /\ \A q \in Foremost(clan, FamilyLimit) : Ahead(q, r)
    <3> HIDE DEF clan
    <3> QED BY <1>1, <2>2, ForemostAreAhead
  <2>4. PICK g \in Foremost(clan, FamilyLimit) : g \notin Q
    <3> SUFFICES ASSUME Foremost(clan, FamilyLimit) \subseteq Q PROVE FALSE
      OBVIOUS
    <3>1. Foremost(clan, FamilyLimit) \in SUBSET Family(Q, r)
      BY DEF Foremost, Family
    <3>2. IsFiniteSet(Family(Q, r))
      BY <1>1, WithinFamilyFacts, VersionsAreOrdered
    <3>3. Rank(Family(Q, r), r) >= FamilyLimit /\ Rank(Family(Q, r), r) \in Nat
      <4> HIDE DEF clan
      <4>1. Rank(Family(Q, r), r) >= FamilyLimit
        BY <1>1, <2>3, <3>1, <3>2, RankAtLeast
      <4>2. Rank(Family(Q, r), r) \in Nat
        BY <3>2, RankOfSubset
      <4> QED BY <4>1, <4>2
    <3> QED BY <1>1, <2>1, <3>3
  <2>5. g \in few /\ Ahead(g, r) /\ g \notin Foremost(few, Capacity)
    <3>1. g \in R /\ g.family = r.family /\ Rank(clan, g) < FamilyLimit
      BY DEF Foremost, Family
    <3>2. Family(R, g) = clan
      BY <3>1 DEF Family
    <3>3. InLimit(R, g)
      BY <3>1, <3>2 DEF InLimit
    <3> QED BY <1>4, <1>5, <2>3, <2>4, <3>1, <3>3, WithinFamilyFacts
  <2>6. /\ Cardinality(Foremost(few, Capacity)) >= Capacity
        /\ \A q \in Foremost(few, Capacity) : Ahead(q, g)
    <3> HIDE DEF few
    <3> QED BY <1>1, <1>2, <2>5, ForemostAreAhead
  <2>7. \A q \in Foremost(few, Capacity) : Ahead(q, r)
    <3>1. g \in Scored /\ r \in Scored /\ Foremost(few, Capacity) \subseteq Scored
      BY <1>1, <1>2, <2>1, <2>5 DEF Foremost
    <3> QED BY <2>5, <2>6, <3>1, AheadIsOrder
  <2>8. Foremost(few, Capacity) \in SUBSET fewer
    BY <1>3, <1>5
  <2>9. Rank(fewer, r) >= Capacity /\ Rank(fewer, r) \in Nat
    <3> HIDE DEF few, fewer
    <3>1. Rank(fewer, r) >= Capacity
      BY <1>1, <1>2, <2>6, <2>7, <2>8, RankAtLeast
    <3>2. Rank(fewer, r) \in Nat
      BY <1>2, RankOfSubset
    <3> QED BY <3>1, <3>2
  <2> HIDE DEF few, fewer
  <2> QED BY <1>1, <2>9 DEF Foremost
<1>8. Foremost(fewer, Capacity) \subseteq both
  BY <1>2, <1>7 DEF Foremost
<1>9. Foremost(both, Capacity) = Foremost(fewer, Capacity)
  <2> HIDE DEF few, fewer, both
  <2> QED BY <1>1, <1>2, <1>3, <1>8, ForemostOfSubset
<1> QED BY <1>4, <1>6, <1>9

\* Where everything is selected, every part is.
LEMMA SelectWhole ==
  ASSUME NEW R \in Versions, Select(R) = R, NEW Q \in SUBSET R
  PROVE  Select(Q) = Q
<1>1. Q \in Versions /\ IsFiniteSet(R)
  BY VersionsAreOrdered, SubsetVersions
<1>2. ASSUME NEW r \in Q PROVE r \in Select(Q)
  <2>1. r \in R /\ InLimit(R, r) /\ Rank(WithinFamily(R), r) < Capacity
    BY SelectFacts
  <2>2. InLimit(Q, r)
    BY <1>1, <2>1, LimitOfSubset
  <2>3. WithinFamily(R) = R
    BY SelectFacts, WithinFamilyFacts
  <2>4. WithinFamily(Q) \in SUBSET R
    BY <1>1, WithinFamilyFacts
  <2>5. Rank(WithinFamily(Q), r) < Capacity
    <3>1. /\ Rank(WithinFamily(Q), r) \in Nat /\ Rank(R, r) \in Nat
          /\ Rank(WithinFamily(Q), r) <= Rank(R, r)
      BY <1>1, <2>4, RankOfSubset
    <3> QED BY <2>1, <2>3, <3>1, PolicyNumbers
  <2> QED BY <1>1, <2>2, <2>5, SelectFacts
<1>3. Select(Q) \subseteq Q
  BY <1>1, SelectFacts
<1> QED BY <1>2, <1>3

\* What is selected is selected again.
LEMMA SelectTwice ==
  ASSUME NEW R \in Versions
  PROVE  Select(Select(R)) = Select(R)
BY SelectFacts, SelectOfSubset

-----------------------------------------------------------------------------
(* A better version of a candidate.                                           *)

\* r betters v: the same candidate, of the same family, with a better score.
Betters(r, v) == r.id = v.id /\ r.family = v.family /\ r.score > v.score

\* R with r instead of the version it held.
With(R, r) == {q \in R : q.id # r.id} \cup {r}

LEMMA BettersFacts ==
  ASSUME NEW r \in Scored, NEW v \in Scored, Betters(r, v)
  PROVE  /\ Ahead(r, v)
         /\ \A q \in Scored : Ahead(q, r) => Ahead(q, v)
         /\ \A q \in Scored : Ahead(v, q) => Ahead(r, q)
<1>1. Ahead(r, v)
  BY DEF Betters, Ahead
<1> QED BY <1>1, AheadIsOrder

LEMMA WithFacts ==
  ASSUME NEW R \in Versions, NEW r \in Scored
  PROVE  With(R, r) \in Versions /\ r \in With(R, r) /\ IsFiniteSet(With(R, r))
<1>1. {q \in R : q.id # r.id} \in SUBSET R /\ IsFiniteSet(R) /\ R \subseteq Scored
  BY VersionsAreOrdered
<1>2. IsFiniteSet({q \in R : q.id # r.id})
  BY <1>1, FS_Subset
<1>3. IsFiniteSet(With(R, r))
  BY <1>2, FS_AddElement DEF With
<1>4. With(R, r) \subseteq Scored /\ \A p, q \in With(R, r) : p.id = q.id => p = q
  BY <1>1 DEF With, Versions
<1> QED BY <1>3, <1>4 DEF Versions, With

\* Comparing ranks: by what is ahead, or by that but for one and another.
LEMMA RankMono ==
  ASSUME NEW Q, NEW R, IsFiniteSet(R), NEW x, NEW y,
         \A q \in Q : Ahead(q, x) => q \in R /\ Ahead(q, y)
  PROVE  Rank(Q, x) \in Nat /\ Rank(R, y) \in Nat /\ Rank(Q, x) <= Rank(R, y)
<1> DEFINE P == {q \in Q : Ahead(q, x)}
           O == {q \in R : Ahead(q, y)}
<1>1. P \in SUBSET O /\ O \in SUBSET R
  OBVIOUS
<1> HIDE DEF P, O
<1>2. IsFiniteSet(O) /\ IsFiniteSet(P) /\ Cardinality(P) <= Cardinality(O)
  BY <1>1, FS_Subset
<1>3. Cardinality(P) \in Nat /\ Cardinality(O) \in Nat
  BY <1>2, FS_CardinalityType
<1> QED BY <1>2, <1>3 DEF Rank, P, O

LEMMA RankSwap ==
  ASSUME NEW Q, NEW R, IsFiniteSet(R), NEW x, NEW y, NEW a, NEW b,
         \A q \in Q : q # a /\ Ahead(q, x) => q \in R /\ Ahead(q, y),
         b \in R, Ahead(b, y), b = a \/ ~ (b \in Q /\ Ahead(b, x))
  PROVE  Rank(Q, x) \in Nat /\ Rank(R, y) \in Nat /\ Rank(Q, x) <= Rank(R, y)
<1> DEFINE P == {q \in Q : Ahead(q, x)}
           O == {q \in R : Ahead(q, y)}
           C == P \ {a}
<1>1. C \in SUBSET O /\ O \in SUBSET R /\ b \in O /\ b \notin C /\ P \in SUBSET (C \cup {a})
  OBVIOUS
<1> HIDE DEF P, O, C
<1>2. IsFiniteSet(O) /\ IsFiniteSet(C)
  BY <1>1, FS_Subset
<1>3. /\ IsFiniteSet(C \cup {a}) /\ IsFiniteSet(C \cup {b})
      /\ Cardinality(C \cup {a}) = (IF a \in C THEN Cardinality(C) ELSE Cardinality(C) + 1)
      /\ Cardinality(C \cup {b}) = Cardinality(C) + 1
  BY <1>1, <1>2, FS_AddElement
<1>4. IsFiniteSet(P) /\ Cardinality(P) <= Cardinality(C \cup {a})
  BY <1>1, <1>3, FS_Subset
<1>5. C \cup {b} \in SUBSET O
  BY <1>1
<1>6. Cardinality(C \cup {b}) <= Cardinality(O)
  BY <1>2, <1>5, FS_Subset
<1>7. Cardinality(P) \in Nat /\ Cardinality(O) \in Nat /\ Cardinality(C) \in Nat
  BY <1>2, <1>4, FS_CardinalityType
<1> QED BY <1>3, <1>4, <1>6, <1>7 DEF Rank, P, O

\* The better version is within the limit where the other was.
LEMMA BetterInLimit ==
  ASSUME NEW R \in Versions, NEW r \in Scored, NEW v \in R, Betters(r, v), InLimit(R, v)
  PROVE  InLimit(With(R, r), r)
<1>1. R \subseteq Scored /\ IsFiniteSet(Family(R, v)) /\ r.family = v.family
  BY WithinFamilyFacts, VersionsAreOrdered DEF Betters
<1>2. \A q \in Family(With(R, r), r) : Ahead(q, r) => q \in Family(R, v) /\ Ahead(q, v)
  BY <1>1, BettersFacts, AheadIsOrder DEF Family, With
<1>3. /\ Rank(Family(With(R, r), r), r) \in Nat /\ Rank(Family(R, v), v) \in Nat
      /\ Rank(Family(With(R, r), r), r) <= Rank(Family(R, v), v)
  BY <1>1, <1>2, RankMono
<1> QED BY <1>1, <1>3, PolicyNumbers DEF InLimit

\* A better version of a selected record is selected in its place.
LEMMA BetterIsSelected ==
  ASSUME NEW R \in Versions, NEW r \in Scored, NEW v \in R, Betters(r, v), v \in Select(R)
  PROVE  r \in Select(With(R, r))
<1> DEFINE more == With(R, r)
<1>1. /\ R \subseteq Scored /\ IsFiniteSet(R) /\ more \in Versions /\ r \in more
      /\ IsFiniteSet(more)
  BY VersionsAreOrdered, WithFacts
<1>2. InLimit(R, v) /\ Rank(WithinFamily(R), v) < Capacity
  BY SelectFacts
<1>3. InLimit(more, r)
  BY <1>2, BetterInLimit
<1>4. ASSUME NEW q \in WithinFamily(more), Ahead(q, r)
      PROVE  q \in WithinFamily(R) /\ Ahead(q, v)
  <2>1. q \in more /\ InLimit(more, q)
    BY <1>1, WithinFamilyFacts
  <2>2. q # r
    BY <1>4, AheadIsOrder
  <2>3. q \in R /\ q \in Scored /\ v \in Scored /\ Ahead(q, v)
    BY <1>1, <1>4, <2>1, <2>2, BettersFacts DEF With
  <2>4. ASSUME NEW p \in Family(R, q), Ahead(p, q)
        PROVE  p \in Family(more, q) /\ Ahead(p, q)
    <3>1. p \in R /\ p.family = q.family /\ p # v
      BY <1>1, <2>3, <2>4, AheadIsOrder DEF Family
    <3>2. p.id # r.id
      BY <3>1 DEF Betters, Versions
    <3> QED BY <2>4, <3>1, <3>2 DEF Family, With
  <2>5. IsFiniteSet(Family(more, q))
    BY <1>1, WithinFamilyFacts, VersionsAreOrdered
  <2>6. /\ Rank(Family(R, q), q) \in Nat /\ Rank(Family(more, q), q) \in Nat
        /\ Rank(Family(R, q), q) <= Rank(Family(more, q), q)
    <3> HIDE DEF more
    <3> QED BY <2>4, <2>5, RankMono
  <2>7. InLimit(R, q)
    BY <2>1, <2>6, PolicyNumbers DEF InLimit
  <2> QED BY <2>3, <2>7, WithinFamilyFacts
<1>5. IsFiniteSet(WithinFamily(R))
  BY WithinFamilyFacts, VersionsAreOrdered
<1>6. /\ Rank(WithinFamily(more), r) \in Nat /\ Rank(WithinFamily(R), v) \in Nat
      /\ Rank(WithinFamily(more), r) <= Rank(WithinFamily(R), v)
  <2> HIDE DEF more
  <2> QED BY <1>4, <1>5, RankMono
<1>7. Rank(WithinFamily(more), r) < Capacity
  BY <1>2, <1>6, PolicyNumbers
<1> QED BY <1>1, <1>3, <1>7, SelectFacts

\* A record that the better version pushes out of its family: it was the last one
\* in, and whatever version r replaces was not ahead of it.
LEMMA PushedOut ==
  ASSUME NEW R \in Versions, NEW r \in Scored, \A q \in R : q.id = r.id => Betters(r, q),
         NEW p \in R, p.id # r.id, p \in WithinFamily(R), p \notin WithinFamily(With(R, r))
  PROVE  /\ Ahead(r, p) /\ r.family = p.family
         /\ \A z \in R : z.family = p.family /\ Ahead(p, z) => z \notin WithinFamily(R)
         /\ \A v \in R : v.id = r.id => ~ Ahead(v, p)
<1> DEFINE more == With(R, r)
           clan == Family(R, p)
           grown == Family(more, p)
<1>1. /\ R \subseteq Scored /\ IsFiniteSet(R) /\ more \in Versions /\ p \in more
      /\ IsFiniteSet(clan) /\ IsFiniteSet(grown)
  BY VersionsAreOrdered, WithFacts, WithinFamilyFacts DEF With
<1>2. p.family # NoFamily /\ Rank(clan, p) < FamilyLimit /\ ~ Rank(grown, p) < FamilyLimit
  <2>1. InLimit(R, p) /\ ~ InLimit(more, p)
    BY <1>1, WithinFamilyFacts
  <2> QED BY <2>1 DEF InLimit
<1>3. Rank(clan, p) \in Nat /\ Rank(grown, p) \in Nat
  <2> HIDE DEF clan, grown
  <2> QED BY <1>1, RankMono
<1>4. \A q \in grown : q # r => q \in clan
  BY DEF Family, With
<1>5. r \in grown /\ Ahead(r, p)
  <2> SUFFICES ASSUME ~ (r \in grown /\ Ahead(r, p)) PROVE FALSE
    OBVIOUS
  <2>1. \A q \in grown : Ahead(q, p) => q \in clan /\ Ahead(q, p)
    BY <1>4
  <2>2. Rank(grown, p) <= Rank(clan, p)
    <3> HIDE DEF clan, grown
    <3> QED BY <1>1, <2>1, RankMono
  <2> QED BY <1>2, <1>3, <2>2, PolicyNumbers
<1>6. r.family = p.family
  BY <1>5 DEF Family
<1>7. ASSUME NEW z \in R, z.family = p.family, Ahead(p, z), z \in WithinFamily(R) PROVE FALSE
  <2>1. InLimit(R, z) /\ Family(R, z) = clan /\ z \in Scored /\ p \in Scored
    BY <1>1, <1>7, WithinFamilyFacts DEF Family
  <2>2. Rank(clan, z) < FamilyLimit
    BY <1>2, <1>7, <2>1 DEF InLimit
  <2>3. \A q \in grown : q # r /\ Ahead(q, p) => q \in clan /\ Ahead(q, z)
    <3>1. clan \subseteq Scored
      BY <1>1 DEF Family
    <3> QED BY <1>4, <1>7, <2>1, <3>1, AheadIsOrder
  <2>4. p \in clan /\ ~ Ahead(p, p)
    BY <2>1, AheadIsOrder DEF Family
  <2>5. Rank(grown, p) <= Rank(clan, z) /\ Rank(clan, z) \in Nat
    <3> HIDE DEF clan, grown
    <3> QED BY <1>1, <1>7, <2>3, <2>4, RankSwap
  <2> QED BY <1>2, <1>3, <2>2, <2>5, PolicyNumbers
<1>8. ASSUME NEW v \in R, v.id = r.id, Ahead(v, p) PROVE FALSE
  <2>1. v \in clan /\ v \notin grown
    <3>1. Betters(r, v) /\ ~ Betters(r, r)
      BY <1>8, ScoredParts DEF Betters
    <3>2. v.family = p.family /\ v # r
      BY <1>6, <3>1 DEF Betters
    <3> QED BY <1>8, <3>2 DEF Family, With
  <2>2. \A q \in grown : q # r /\ Ahead(q, p) => q \in clan /\ Ahead(q, p)
    BY <1>4
  <2>3. Rank(grown, p) <= Rank(clan, p)
    <3> HIDE DEF clan, grown
    <3> QED BY <1>1, <1>8, <2>1, <2>2, RankSwap
  <2> QED BY <1>2, <1>3, <2>3, PolicyNumbers
<1> QED BY <1>5, <1>6, <1>7, <1>8

\* A better version lets no other record in: whatever is selected beside it was
\* selected before.
LEMMA RestWasSelected ==
  ASSUME NEW R \in Versions, NEW r \in Scored, \A q \in R : q.id = r.id => Betters(r, q),
         NEW x \in Select(With(R, r)), x # r
  PROVE  x \in Select(R)
<1> DEFINE more == With(R, r)
           few == WithinFamily(R)
           fewer == WithinFamily(more)
<1>1. /\ R \subseteq Scored /\ IsFiniteSet(R) /\ more \in Versions /\ r \in more
      /\ IsFiniteSet(more) /\ more \subseteq Scored
  BY VersionsAreOrdered, WithFacts
<1>2. x \in R /\ x \in more /\ x.id # r.id /\ x \in Scored
  BY <1>1, SelectFacts DEF With
<1>3. r \notin R
  BY ScoredParts DEF Betters
<1>4. InLimit(more, x) /\ Rank(fewer, x) < Capacity
  BY <1>1, <1>2, SelectFacts
<1>5. IsFiniteSet(few) /\ IsFiniteSet(fewer) /\ few \subseteq R /\ fewer \subseteq more
  BY <1>1, WithinFamilyFacts, VersionsAreOrdered
<1>6. PICK v : (\A q \in R : q.id = r.id => q = v) /\ (v \in R => v.id = r.id)
  <2>1. CASE \E w \in R : w.id = r.id
    BY <2>1 DEF Versions
  <2>2. CASE \A w \in R : w.id # r.id
    BY <1>3, <2>2
  <2> QED BY <2>1, <2>2
<1>7. v \in R => Betters(r, v) /\ v \notin more
  <2>1. v \in R => v.id = r.id /\ v # r
    BY <1>3, <1>6
  <2> QED BY <2>1 DEF With
<1>8. \A q \in R : q # v => q \in more
  BY <1>6 DEF With
<1>9. InLimit(R, x)
  <2> DEFINE clan == Family(R, x)
             grown == Family(more, x)
  <2>1. IsFiniteSet(grown)
    BY <1>1, WithinFamilyFacts, VersionsAreOrdered
  <2>2. \A q \in clan : q # v /\ Ahead(q, x) => q \in grown /\ Ahead(q, x)
    BY <1>8 DEF Family
  <2>3. CASE v \in clan /\ Ahead(v, x)
    <3>1. v \in R /\ v \in Scored /\ Betters(r, v) /\ v.family = x.family
      BY <1>1, <1>7, <2>3 DEF Family
    <3>2. Ahead(r, x)
      BY <1>2, <2>3, <3>1, BettersFacts
    <3>3. r \in grown /\ r \notin clan
      BY <1>1, <1>3, <3>1 DEF Family, Betters
    <3>4. Rank(clan, x) \in Nat /\ Rank(grown, x) \in Nat /\ Rank(clan, x) <= Rank(grown, x)
      <4> HIDE DEF clan, grown
      <4> QED BY <2>1, <2>2, <3>2, <3>3, RankSwap
    <3> QED BY <1>4, <3>4, PolicyNumbers DEF InLimit
  <2>4. CASE ~ (v \in clan /\ Ahead(v, x))
    <3>1. \A q \in clan : Ahead(q, x) => q \in grown /\ Ahead(q, x)
      BY <2>2, <2>4
    <3>2. Rank(clan, x) \in Nat /\ Rank(grown, x) \in Nat /\ Rank(clan, x) <= Rank(grown, x)
      <4> HIDE DEF clan, grown
      <4> QED BY <2>1, <3>1, RankMono
    <3> QED BY <1>4, <3>2, PolicyNumbers DEF InLimit
  <2> QED BY <2>3, <2>4
<1>10. Rank(few, x) \in Nat /\ Rank(fewer, x) \in Nat /\ Rank(few, x) <= Rank(fewer, x)
  <2>1. CASE v \in few /\ Ahead(v, x)
    <3>1. v \in R /\ v \in Scored /\ Betters(r, v)
      BY <1>1, <1>5, <1>7, <2>1
    <3>2. Ahead(r, x)
      BY <1>2, <2>1, <3>1, BettersFacts
    <3>3. r \in fewer
      BY <1>1, <2>1, <3>1, BetterInLimit, WithinFamilyFacts
    <3>4. ASSUME NEW q \in few, q # v, Ahead(q, x), q \notin fewer PROVE FALSE
      <4>1. q \in R /\ q.id # r.id /\ v.id = r.id /\ v.family = r.family
        BY <1>5, <1>6, <3>1, <3>4 DEF Betters
      <4>2. /\ r.family = q.family /\ ~ Ahead(v, q)
            /\ (v.family = q.family /\ Ahead(q, v) => v \notin few)
        BY <3>1, <3>4, <4>1, PushedOut
      <4>3. Ahead(q, v)
        BY <3>1, <3>4, <4>1, <4>2, VersionsAreOrdered
      <4> QED BY <2>1, <4>1, <4>2, <4>3
    <3> HIDE DEF few, fewer
    <3> QED BY <1>3, <1>5, <3>2, <3>3, <3>4, RankSwap
  <2>2. CASE ~ (v \in few /\ Ahead(v, x)) /\ \E p \in few : Ahead(p, x) /\ p \notin fewer
    <3>1. PICK p \in few : Ahead(p, x) /\ p \notin fewer
      BY <2>2
    <3>2. p \in R /\ p.id # r.id /\ p \in Scored /\ InLimit(R, p)
      BY <1>1, <1>5, <1>6, <2>2, <3>1, WithinFamilyFacts
    <3>3. /\ Ahead(r, p) /\ r.family = p.family
          /\ \A z \in R : z.family = p.family /\ Ahead(p, z) => z \notin few
      BY <3>1, <3>2, PushedOut
    <3>4. Ahead(r, x)
      BY <1>2, <3>1, <3>2, <3>3, AheadIsOrder
    <3>5. r \in fewer
      <4>1. \A q \in Family(more, r) : Ahead(q, r) => q \in Family(R, p) /\ Ahead(q, p)
        BY <1>1, <3>2, <3>3, AheadIsOrder DEF Family, With
      <4>2. IsFiniteSet(Family(R, p))
        BY WithinFamilyFacts, VersionsAreOrdered
      <4>3. /\ Rank(Family(more, r), r) \in Nat /\ Rank(Family(R, p), p) \in Nat
            /\ Rank(Family(more, r), r) <= Rank(Family(R, p), p)
        <5> HIDE DEF more
        <5> QED BY <4>1, <4>2, RankMono
      <4>4. InLimit(more, r)
        BY <3>2, <3>3, <4>3, PolicyNumbers DEF InLimit
      <4> QED BY <1>1, <4>4, WithinFamilyFacts
    <3>6. ASSUME NEW q \in few, q # p, Ahead(q, x), q \notin fewer PROVE FALSE
      <4>1. q \in R /\ q.id # r.id
        BY <1>5, <1>6, <2>2, <3>6
      <4>2. /\ r.family = q.family
            /\ \A z \in R : z.family = q.family /\ Ahead(q, z) => z \notin few
        BY <3>6, <4>1, PushedOut
      <4>3. Ahead(p, q) \/ Ahead(q, p)
        BY <3>2, <3>6, <4>1, VersionsAreOrdered
      <4> QED BY <3>1, <3>2, <3>3, <3>6, <4>1, <4>2, <4>3
    <3> HIDE DEF few, fewer
    <3> QED BY <1>3, <1>5, <3>4, <3>5, <3>6, RankSwap
  <2>3. CASE \A p \in few : Ahead(p, x) => p \in fewer
    <3> HIDE DEF few, fewer
    <3> QED BY <1>5, <2>3, RankMono
  <2> QED BY <2>1, <2>2, <2>3
<1>11. Rank(few, x) < Capacity
  BY <1>4, <1>10, PolicyNumbers
<1> QED BY <1>2, <1>9, <1>11, SelectFacts

-----------------------------------------------------------------------------
(* Offers.                                                                    *)

\* No candidate changes its family.
Steady(O) == \A q, r \in O : q.id = r.id => q.family = r.family

\* There is a best version of whatever was offered with a score.
HasBest(O) ==
  \A q \in O \cap Scored : \E b \in BestVersions(O) : b.id = q.id /\ b.score >= q.score

\* What an archive that was offered O holds.
Holds(R, O) ==
  /\ R \in Versions /\ Select(R) = R
  /\ O \in SUBSET Records /\ IsFiniteSet(O) /\ HasBest(O)
  /\ Steady(O) => R = Select(BestVersions(O))

LEMMA BestVersionsFacts ==
  ASSUME NEW O \in SUBSET Records
  PROVE  /\ BestVersions(O) = {r \in O \cap Scored :
                                \A q \in O \cap Scored : q.id = r.id => q.score <= r.score}
         /\ Steady(O) /\ IsFiniteSet(O) => BestVersions(O) \in Versions
<1>1. {r \in O : r.score # NoScore} = O \cap Scored
  BY DEF Scored
<1>2. BestVersions(O) = {r \in O \cap Scored :
                            \A q \in O \cap Scored : q.id = r.id => q.score <= r.score}
  BY <1>1 DEF BestVersions
<1>3. ASSUME Steady(O), IsFiniteSet(O) PROVE BestVersions(O) \in Versions
  <2>1. BestVersions(O) \in SUBSET O /\ BestVersions(O) \in SUBSET Scored
    BY <1>2
  <2>2. IsFiniteSet(BestVersions(O))
    BY <1>3, <2>1, FS_Subset
  <2>3. ASSUME NEW q \in BestVersions(O), NEW r \in BestVersions(O), q.id = r.id
        PROVE  q = r
    <3>1. q.score <= r.score /\ r.score <= q.score /\ q.family = r.family
      BY <1>2, <1>3, <2>3 DEF Steady
    <3>2. q.score = r.score
      BY <1>2, <3>1, ScoredParts
    <3>3. /\ q = [id |-> q.id, score |-> q.score, family |-> q.family]
          /\ r = [id |-> r.id, score |-> r.score, family |-> r.family]
      BY <1>2, ScoredParts
    <3> QED BY <2>3, <3>1, <3>2, <3>3, Zenon
  <2> QED BY <2>1, <2>2, <2>3 DEF Versions
<1> QED BY <1>2, <1>3

\* The best versions when one more record is offered: the same as far as anyone
\* can tell, or the record instead of the version it betters.
LEMMA BestOfOneMore ==
  ASSUME NEW O \in SUBSET Records, HasBest(O), NEW r \in Records,
         NEW more, more = O \cup {r}
  PROVE  /\ HasBest(more)
         /\ r \notin Scored => BestVersions(more) = BestVersions(O)
         /\ r \in Scored /\ Steady(more) =>
              \/ /\ BestVersions(more) = BestVersions(O)
                 /\ \E b \in BestVersions(O) : b = r \/ Betters(b, r)
              \/ /\ BestVersions(more) = With(BestVersions(O), r)
                 /\ \A q \in BestVersions(O) : q.id = r.id => Betters(r, q)
<1>1. more \in SUBSET Records
  OBVIOUS
<1>2. /\ BestVersions(O) = {b \in O \cap Scored :
                          \A q \in O \cap Scored : q.id = b.id => q.score <= b.score}
      /\ BestVersions(more) = {b \in more \cap Scored :
                          \A q \in more \cap Scored : q.id = b.id => q.score <= b.score}
  BY <1>1, BestVersionsFacts
<1>3. CASE r \notin Scored
  <2>1. more \cap Scored = O \cap Scored
    BY <1>3
  <2> QED BY <1>2, <1>3, <2>1 DEF HasBest
<1>4. CASE r \in Scored /\ \E b \in BestVersions(O) : b.id = r.id /\ b.score >= r.score
  <2>1. PICK b \in BestVersions(O) : b.id = r.id /\ b.score >= r.score
    BY <1>4
  <2>2. more \cap Scored = (O \cap Scored) \cup {r} /\ b \in O \cap Scored
    BY <1>2, <1>4
  <2>3. \A q \in more \cap Scored : q.score \in Int
    BY ScoredParts
  <2>4. \A q \in BestVersions(O) : q.id = r.id => q.score >= r.score
    BY <1>2, <2>1, <2>2, <2>3
  <2>5. BestVersions(O) \subseteq BestVersions(more)
    BY <1>2, <2>2, <2>4
  <2>6. HasBest(more)
    BY <2>1, <2>2, <2>5 DEF HasBest
  <2>7. ASSUME Steady(more)
        PROVE  BestVersions(more) = BestVersions(O) /\ (b = r \/ Betters(b, r))
    <3>1. b.family = r.family
      BY <2>1, <2>2, <2>7 DEF Steady
    <3>2. b = r \/ Betters(b, r)
      <4>1. CASE b.score = r.score
        <5>1. /\ b = [id |-> b.id, score |-> b.score, family |-> b.family]
              /\ r = [id |-> r.id, score |-> r.score, family |-> r.family]
          BY <1>4, <2>2, ScoredParts
        <5> QED BY <2>1, <3>1, <4>1, <5>1, Zenon
      <4>2. CASE b.score # r.score
        BY <1>4, <2>1, <2>2, <2>3, <3>1, <4>2 DEF Betters
      <4> QED BY <4>1, <4>2
    <3>3. r \in BestVersions(more) => r \in BestVersions(O)
      <4>1. ASSUME Betters(b, r), r \in BestVersions(more) PROVE FALSE
        <5>1. b \in more \cap Scored /\ b.id = r.id /\ b.score > r.score
          BY <2>2, <4>1 DEF Betters
        <5>2. b.score <= r.score
          BY <1>2, <4>1, <5>1
        <5> QED BY <1>4, <2>2, <2>3, <5>1, <5>2
      <4> QED BY <2>1, <3>2, <4>1
    <3>4. BestVersions(more) \subseteq BestVersions(O)
      BY <1>2, <2>2, <3>3
    <3> QED BY <2>5, <3>2, <3>4
  <2> QED BY <1>4, <2>1, <2>6, <2>7
<1>5. CASE r \in Scored /\ ~ \E b \in BestVersions(O) : b.id = r.id /\ b.score >= r.score
  <2>1. more \cap Scored = (O \cap Scored) \cup {r}
    BY <1>5
  <2>2. \A q \in more \cap Scored : q.score \in Int
    BY ScoredParts
  <2>3. \A q \in O \cap Scored : q.id = r.id => q.score < r.score
    <3> SUFFICES ASSUME NEW q \in O \cap Scored, q.id = r.id PROVE q.score < r.score
      OBVIOUS
    <3>1. PICK b \in BestVersions(O) : b.id = q.id /\ b.score >= q.score
      BY DEF HasBest
    <3>2. ~ b.score >= r.score /\ b \in O \cap Scored
      BY <1>2, <1>5, <3>1
    <3> QED BY <2>1, <2>2, <3>1, <3>2
  <2>4. r \in BestVersions(more)
    <3>1. \A q \in more \cap Scored : q.id = r.id => q.score <= r.score
      BY <2>1, <2>2, <2>3
    <3> QED BY <1>2, <1>5, <2>1, <3>1
  <2>5. ASSUME NEW q \in O \cap Scored, q.id # r.id
        PROVE  q \in BestVersions(more) <=> q \in BestVersions(O)
    <3>1. /\ q \in BestVersions(O)
             <=> \A p \in O \cap Scored : p.id = q.id => p.score <= q.score
          /\ q \in BestVersions(more)
             <=> \A p \in more \cap Scored : p.id = q.id => p.score <= q.score
      BY <1>2, <2>1
    <3> QED BY <2>1, <2>5, <3>1
  <2>6. ASSUME NEW q \in O \cap Scored, q.id = r.id
        PROVE  q \notin BestVersions(more)
    <3>1. q.score < r.score /\ r \in more \cap Scored
      BY <2>1, <2>3, <2>6
    <3>2. ~ r.score <= q.score
      BY <2>1, <2>2, <3>1
    <3> QED BY <1>2, <2>6, <3>1, <3>2
  <2>7. BestVersions(more) = With(BestVersions(O), r)
    BY <1>2, <2>1, <2>4, <2>5, <2>6 DEF With
  <2>8. HasBest(more)
    <3> SUFFICES ASSUME NEW q \in more \cap Scored
                 PROVE  \E b \in BestVersions(more) : b.id = q.id /\ b.score >= q.score
      BY DEF HasBest
    <3>1. CASE q.id = r.id
      BY <2>1, <2>2, <2>3, <2>4, <3>1
    <3>2. CASE q.id # r.id
      <4>1. PICK b \in BestVersions(O) : b.id = q.id /\ b.score >= q.score
        BY <2>1, <3>2 DEF HasBest
      <4> QED BY <1>2, <2>5, <3>2, <4>1
    <3> QED BY <3>1, <3>2
  <2>9. Steady(more) => \A q \in BestVersions(O) : q.id = r.id => Betters(r, q)
    BY <1>2, <1>5, <2>1, <2>2, <2>3 DEF Steady, Betters
  <2> QED BY <1>5, <2>7, <2>8, <2>9
<1> QED BY <1>3, <1>4, <1>5

\* AfterOffer in these words.
LEMMA AfterOfferFacts ==
  ASSUME NEW R \in Versions, NEW r \in Records
  PROVE  AfterOffer(R, r) =
           IF /\ r \in Scored /\ \A q \in R : q.id = r.id => r.score > q.score
              /\ r \in Select(With(R, r))
           THEN Select(With(R, r)) ELSE R
<1> DEFINE held == {q \in R : q.id = r.id}
<1>1. (R \ held) \cup {r} = With(R, r)
  BY DEF With
<1>2. r \in Scored <=> r.score # NoScore
  BY DEF Scored
<1>3. (\A q \in held : r.score > q.score) <=> \A q \in R : q.id = r.id => r.score > q.score
  OBVIOUS
<1> QED BY <1>1, <1>2, <1>3 DEF AfterOffer

\* An offer that changes the best versions by nothing changes nothing.
LEMMA WorseOffer ==
  ASSUME NEW B \in Versions, NEW r \in Scored, NEW b \in B, b = r \/ Betters(b, r)
  PROVE  AfterOffer(Select(B), r) = Select(B)
<1> DEFINE S == Select(B)
<1>1. S \in SUBSET B /\ S \in Versions /\ B \subseteq Scored /\ r \in Records
  BY SelectFacts, VersionsAreOrdered DEF Scored
<1>2. b.id = r.id /\ b.score >= r.score /\ b.score \in Int /\ r.score \in Int
  BY <1>1, ScoredParts DEF Betters
<1>3. SUFFICES ASSUME \A q \in S : q.id = r.id => r.score > q.score, r \in Select(With(S, r))
               PROVE  FALSE
  BY <1>1, AfterOfferFacts
<1>4. b \notin S /\ \A q \in S : q.id # r.id
  <2>1. b \notin S
    BY <1>2, <1>3
  <2>2. \A q \in B : q.id = r.id => q = b
    BY <1>2 DEF Versions
  <2> QED BY <1>1, <2>1, <2>2
<1>5. With(S, b) \in SUBSET B /\ S \subseteq With(S, b)
  BY <1>1, <1>2, <1>4 DEF With
<1>6. Select(With(S, b)) = S
  <2> HIDE DEF S
  <2>1. Select(B) \subseteq With(S, b)
    BY <1>5 DEF S
  <2> QED BY <1>5, <2>1, SelectOfSubset DEF S
<1>7. CASE b = r
  BY <1>3, <1>4, <1>6, <1>7
<1>8. CASE Betters(b, r)
  <2>1. With(S, r) \in Versions /\ r \in With(S, r) /\ b \in Scored
    BY <1>1, WithFacts
  <2>2. With(With(S, r), b) = With(S, b)
    BY <1>2 DEF With
  <2>3. b \in Select(With(With(S, r), b))
    <3> HIDE DEF S
    <3> QED BY <1>3, <1>8, <2>1, BetterIsSelected
  <2> QED BY <1>4, <1>6, <2>2, <2>3
<1> QED BY <1>7, <1>8

\* An offer that betters the best versions leaves the selection of the new ones.
LEMMA BetterOffer ==
  ASSUME NEW B \in Versions, NEW r \in Scored, \A q \in B : q.id = r.id => Betters(r, q)
  PROVE  AfterOffer(Select(B), r) = Select(With(B, r))
<1> DEFINE S == Select(B)
           more == With(B, r)
<1>1. /\ S \in SUBSET B /\ S \in Versions /\ r \in Records /\ r \in more
      /\ more \in Versions
  BY SelectFacts, WithFacts DEF Scored
<1>2. Select(more) \subseteq With(S, r) /\ With(S, r) \subseteq more
  <2>1. Select(more) \in SUBSET more
    BY <1>1, SelectFacts
  <2>2. \A x \in Select(more) : x # r => x \in S /\ x.id # r.id
    BY <2>1, RestWasSelected DEF With
  <2> QED BY <1>1, <2>2 DEF With
<1>3. Select(With(S, r)) = Select(more)
  <2> HIDE DEF S, more
  <2> QED BY <1>1, <1>2, SelectOfSubset
<1>4. \A q \in S : q.id = r.id => r.score > q.score
  BY <1>1 DEF Betters
<1>5. CASE r \in Select(more)
  BY <1>1, <1>3, <1>4, <1>5, AfterOfferFacts
<1>6. CASE r \notin Select(more)
  <2>1. AfterOffer(S, r) = S
    BY <1>1, <1>3, <1>6, AfterOfferFacts
  <2>2. \A v \in S : v.id # r.id
    BY <1>1, <1>6, BetterIsSelected
  <2> DEFINE rest == {q \in B : q.id # r.id}
  <2>3. rest \in SUBSET B /\ rest \in SUBSET more /\ S \subseteq rest
    BY <1>1, <2>2 DEF With
  <2>4. Select(more) \subseteq rest
    BY <1>2, <1>6, <2>3 DEF With
  <2>5. Select(rest) = Select(more)
    <3> HIDE DEF S, more, rest
    <3> QED BY <1>1, <2>3, <2>4, SelectOfSubset
  <2>6. Select(rest) = S
    <3> HIDE DEF rest
    <3> QED BY <2>3, SelectOfSubset
  <2> QED BY <2>1, <2>5, <2>6
<1> QED BY <1>5, <1>6

\* An archive holds what it should after every offer.
LEMMA OfferKeepsHolds ==
  ASSUME NEW R, NEW O, Holds(R, O), NEW r \in Records
  PROVE  Holds(AfterOffer(R, r), O \cup {r})
<1> DEFINE more == O \cup {r}
           B == BestVersions(O)
<1>1. /\ R \in Versions /\ Select(R) = R /\ O \in SUBSET Records /\ IsFiniteSet(O)
      /\ HasBest(O) /\ (Steady(O) => R = Select(B))
  BY DEF Holds
<1>2. AfterOffer(R, r) \in Versions /\ Select(AfterOffer(R, r)) = AfterOffer(R, r)
  <2>1. r \in Scored => With(R, r) \in Versions
    BY <1>1, WithFacts
  <2>2. /\ r \in Scored => Select(With(R, r)) \in Versions
        /\ r \in Scored => Select(Select(With(R, r))) = Select(With(R, r))
    BY <2>1, SelectFacts, SelectTwice
  <2> QED BY <1>1, <2>2, AfterOfferFacts
<1>3. more \in SUBSET Records /\ IsFiniteSet(more)
  BY <1>1, FS_AddElement
<1>4. /\ HasBest(more)
      /\ r \notin Scored => BestVersions(more) = B
      /\ r \in Scored /\ Steady(more) =>
              \/ /\ BestVersions(more) = B
                 /\ \E b \in B : b = r \/ Betters(b, r)
              \/ /\ BestVersions(more) = With(B, r)
                 /\ \A q \in B : q.id = r.id => Betters(r, q)
  <2> HIDE DEF more
  <2> QED BY <1>1, BestOfOneMore DEF more
<1>5. ASSUME Steady(more) PROVE AfterOffer(R, r) = Select(BestVersions(more))
  <2>1. Steady(O) /\ R = Select(B) /\ B \in Versions
    <3>1. Steady(O)
      BY <1>5 DEF Steady
    <3> QED BY <1>1, <3>1, BestVersionsFacts
  <2> HIDE DEF B, more
  <2>2. CASE r \notin Scored
    BY <1>1, <1>4, <2>1, <2>2, AfterOfferFacts
  <2>3. CASE r \in Scored
    BY <1>4, <1>5, <2>1, <2>3, WorseOffer, BetterOffer
  <2> QED BY <2>2, <2>3
<1> QED BY <1>2, <1>3, <1>4, <1>5 DEF Holds

LEMMA EmptyHolds == Holds({}, {})
<1>1. {} \in Versions
  BY FS_EmptySet DEF Versions
<1>2. Select({}) = {}
  BY <1>1, SelectFacts
<1>3. BestVersions({}) = {}
  BY DEF BestVersions
<1> QED BY <1>1, <1>2, <1>3, FS_EmptySet DEF Holds, HasBest

-----------------------------------------------------------------------------
(* The file.                                                                  *)

\* BestFirst lists the records by their ranks.
LEMMA BestFirstFacts ==
  ASSUME NEW R \in Versions
  PROVE  /\ BestFirst(R) \in Seq(R) /\ Len(BestFirst(R)) = Cardinality(R)
         /\ \A n \in 1 .. Cardinality(R) :
              BestFirst(R)[n] \in R /\ Rank(R, BestFirst(R)[n]) = n - 1
         /\ \A n \in 0 .. Cardinality(R) : FirstOf(BestFirst(R), n) = Foremost(R, n)
         /\ FirstOf(BestFirst(R), Len(BestFirst(R))) = R
<1> DEFINE s == BestFirst(R)
           c == Cardinality(R)
<1>1. c \in Nat
  BY VersionsAreOrdered
<1>2. s = [n \in 1 .. c |-> s[n]]
  BY DEF BestFirst
<1>3. ASSUME NEW n \in 1 .. c PROVE s[n] \in R /\ Rank(R, s[n]) = n - 1
  <2>1. n - 1 \in 0 .. (c - 1)
    BY <1>1
  <2>2. \E r \in R : Rank(R, r) = n - 1
    BY <2>1, RankIsOnto
  <2>3. s[n] = CHOOSE r \in R : Rank(R, r) = n - 1
    BY DEF BestFirst
  <2> QED BY <2>2, <2>3
<1>4. s \in Seq(R) /\ Len(s) = c
  <2>1. s \in [1 .. c -> R]
    BY <1>2, <1>3
  <2> HIDE DEF s, c
  <2> QED BY <1>1, <2>1
<1>5. ASSUME NEW n \in 0 .. c PROVE FirstOf(s, n) = Foremost(R, n)
  <2>1. ASSUME NEW i \in 1 .. n PROVE s[i] \in Foremost(R, n)
    <3>1. i \in 1 .. c /\ i - 1 < n
      BY <1>1
    <3> QED BY <1>3, <3>1 DEF Foremost
  <2>2. ASSUME NEW r \in Foremost(R, n) PROVE \E i \in 1 .. n : r = s[i]
    <3>1. r \in R /\ Rank(R, r) < n /\ Rank(R, r) \in 0 .. (c - 1)
      BY RankRange DEF Foremost
    <3>2. Rank(R, r) + 1 \in 1 .. n /\ Rank(R, r) + 1 \in 1 .. c
      BY <1>1, <3>1
    <3>3. s[Rank(R, r) + 1] \in R /\ Rank(R, s[Rank(R, r) + 1]) = Rank(R, r)
      BY <1>3, <3>1, <3>2
    <3>4. r = s[Rank(R, r) + 1]
      BY <3>1, <3>3, RankIsStrict
    <3> QED BY <3>2, <3>4
  <2> QED BY <2>1, <2>2 DEF FirstOf
<1>6. Foremost(R, c) = R
  BY <1>1, RankRange DEF Foremost
<1>7. c \in 0 .. c
  BY <1>1
<1> QED BY <1>3, <1>4, <1>5, <1>6, <1>7

\* What is written from a selection can be read, and is the selection.
LEMMA SelectionIsReadable ==
  ASSUME NEW R \in Versions, Select(R) = R
  PROVE  Readable(BestFirst(R)) /\ FirstOf(BestFirst(R), Len(BestFirst(R))) = R
<1> DEFINE s == BestFirst(R)
           c == Cardinality(R)
<1>1. /\ s \in Seq(R) /\ Len(s) = c /\ c \in Nat /\ DOMAIN s = 1 .. c
      /\ FirstOf(s, Len(s)) = R
  BY BestFirstFacts, VersionsAreOrdered
<1>2. ASSUME NEW n \in DOMAIN s PROVE AfterOffer(FirstOf(s, n - 1), s[n]) = FirstOf(s, n)
  <2> DEFINE Q == FirstOf(s, n - 1)
             P == FirstOf(s, n)
  <2>1. n - 1 \in 0 .. c /\ n \in 0 .. c /\ n \in 1 .. c
    BY <1>1
  <2>2. s[n] \in R /\ Rank(R, s[n]) = n - 1 /\ Q = Foremost(R, n - 1)
    BY <2>1, BestFirstFacts
  <2>3. s[n] \notin Q /\ Q \in SUBSET R
    BY <2>1, <2>2 DEF Foremost
  <2>4. P = Q \cup {s[n]}
    <3>1. 1 .. n = (1 .. (n - 1)) \cup {n}
      BY <2>1
    <3> QED BY <3>1 DEF FirstOf
  <2>5. \A q \in Q : q.id # s[n].id
    BY <2>2, <2>3 DEF Versions
  <2>6. With(Q, s[n]) = P
    BY <2>4, <2>5 DEF With
  <2>7. P \in SUBSET R /\ Q \in Versions /\ s[n] \in Scored /\ s[n] \in Records
    BY <2>2, <2>3, <2>4, SubsetVersions, VersionsAreOrdered DEF Scored
  <2>8. Select(P) = P
    <3> HIDE DEF P
    <3> QED BY <2>7, SelectWhole
  <2>9. AfterOffer(Q, s[n]) = P
    <3> DEFINE r == s[n]
    <3> HIDE DEF P, Q, r
    <3>1. r \in P /\ Select(With(Q, r)) = P /\ \A q \in Q : q.id = r.id => r.score > q.score
      BY <2>4, <2>5, <2>6, <2>8 DEF r
    <3>2. Q \in Versions /\ r \in Scored /\ r \in Records
      BY <2>7 DEF r
    <3>3. AfterOffer(Q, r) = P
      BY <3>1, <3>2, AfterOfferFacts
    <3> QED BY <3>3 DEF r
  <2> QED BY <2>9
<1> QED BY <1>1, <1>2 DEF Readable

-----------------------------------------------------------------------------
(* The archive's invariant.                                                   *)

\* The archive in memory holds what it should of what it was offered, and so does
\* the file, of what had been offered when it was written.
ArchiveInv ==
  /\ Holds(archive, offered)
  /\ file # NoFile =>
       LET R == FirstOf(file, Len(file)) IN file = BestFirst(R) /\ Holds(R, written)

LEMMA ArchiveStep == ArchiveInv /\ [Next]_vars => ArchiveInv'
<1> SUFFICES ASSUME ArchiveInv, [Next]_vars PROVE ArchiveInv'
  OBVIOUS
<1>1. CASE UNCHANGED <<memory, disk>>
  BY <1>1 DEF ArchiveInv, memory, disk
<1>2. CASE archive' = {} /\ offered' = {} /\ UNCHANGED disk
  BY <1>2, EmptyHolds DEF ArchiveInv, disk
<1>3. CASE \E record \in Records : Offer(record)
  <2>1. PICK record \in Records : Offer(record)
    BY <1>3
  <2>2. Holds(AfterOffer(archive, record), offered \cup {record})
    BY OfferKeepsHolds DEF ArchiveInv
  <2>3. /\ archive' = AfterOffer(archive, record) /\ offered' = offered \cup {record}
        /\ UNCHANGED <<file, written>>
    BY <2>1 DEF Offer, disk
  <2> QED BY <2>2, <2>3 DEF ArchiveInv
<1>4. CASE WriteArchive
  <2>1. /\ file' = BestFirst(archive) /\ written' = offered
        /\ UNCHANGED <<archive, offered>>
    BY <1>4 DEF WriteArchive, memory
  <2>2. FirstOf(BestFirst(archive), Len(BestFirst(archive))) = archive
    BY SelectionIsReadable DEF ArchiveInv, Holds
  <2> QED BY <2>1, <2>2 DEF ArchiveInv
<1>5. CASE ReadArchive
  <2>1. CASE UNCHANGED <<memory, disk>>
    BY <1>1, <2>1
  <2>2. CASE /\ file # NoFile /\ archive' = FirstOf(file, Len(file)) /\ offered' = written
             /\ UNCHANGED <<file, written>>
    BY <2>2 DEF ArchiveInv
  <2> QED BY <1>5, <2>1, <2>2 DEF ReadArchive, memory, disk
<1>6. CASE Enter
  BY <1>2, <1>6 DEF Enter
<1>7. CASE Finish
  BY <1>1, <1>7 DEF Finish
<1>8. CASE BodyRaises
  BY <1>1, <1>8 DEF BodyRaises
<1>9. CASE Exit
  BY <1>1, <1>9 DEF Exit
<1>10. CASE Fail
  BY <1>1, <1>10 DEF Fail
<1>11. CASE AppendRow
  BY <1>1, <1>11 DEF AppendRow
<1>12. CASE AppendFails
  BY <1>1, <1>12 DEF AppendFails
<1>13. CASE Kill
  BY <1>2, <1>13 DEF Kill
<1>14. CASE UNCHANGED vars
  BY <1>1, <1>14 DEF vars
<1> QED
  BY <1>3, <1>4, <1>5, <1>6, <1>7, <1>8, <1>9, <1>10, <1>11, <1>12, <1>13, <1>14 DEF Next

LEMMA ArchiveAlways == Spec => []ArchiveInv
<1>1. Init => ArchiveInv
  BY EmptyHolds DEF Init, ArchiveInv
<1> QED BY <1>1, ArchiveStep, PTL DEF Spec

\* Whatever is offered in whatever order, and read back by whichever run, the
\* archive holds the selection from the best versions of all that was offered,
\* where no candidate changes its family.
THEOREM ArchiveAlwaysKeepsTheBest == Spec => []ArchiveKeepsTheBest
<1>1. ArchiveInv => ArchiveKeepsTheBest
  BY DEF ArchiveInv, Holds, Steady, ArchiveKeepsTheBest
<1> QED BY <1>1, ArchiveAlways, PTL

\* What an archive wrote, a later run can always read, whether or not a candidate
\* changed its family.
THEOREM WrittenCanAlwaysBeRead == Spec => []WrittenCanBeRead
<1>1. ArchiveInv => WrittenCanBeRead
  BY SelectionIsReadable DEF ArchiveInv, Holds, WrittenCanBeRead
<1> QED BY <1>1, ArchiveAlways, PTL

=============================================================================
