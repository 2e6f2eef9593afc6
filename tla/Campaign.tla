------------------------------ MODULE Campaign ------------------------------
(* The records of a campaign of experiments: ExperimentRun, the ledger its    *)
(* runs append to, and the archive of candidates a run fills, writes and may  *)
(* read back.  A process has one run at a time; it may be killed at any step, *)
(* and a write may fail.                                                      *)
(*                                                                            *)
(* Manifests, snapshots, logs and the validation of the rows' fields are left *)
(* out.  A file written by rename is whole; a line appended to the ledger     *)
(* need not be.  Scores rank higher first; lower first is the mirror image.   *)
EXTENDS Integers, Sequences, FiniteSets

CONSTANTS
  Candidates,      \* candidate ids, which are ordered
  Scores,          \* decision scores
  NoScore,         \* a record without the decision score
  Families, NoFamily,
  Records,         \* the records that may be offered
  Capacity, FamilyLimit,
  NoFile, NoRow,
  MaxRuns,         \* bound: run directories
  MaxOffers        \* bound: records offered to one archive

ASSUME PolicyAssumption ==
  /\ Candidates \subseteq Nat /\ Scores \subseteq Int /\ NoScore \notin Scores
  /\ NoFamily \notin Families
  /\ Records \subseteq [id : Candidates, score : Scores \cup {NoScore},
                        family : Families \cup {NoFamily}]
  /\ Capacity \in Nat \ {0} /\ FamilyLimit \in 1 .. Capacity

Statuses == {"completed", "failed"}

\* A line of the ledger holds a row, or NoRow when it does not parse, and is
\* ended by a newline or not.
Rows == [run : 1 .. MaxRuns, status : Statuses]
Lines == [row : Rows \cup {NoRow}, ended : BOOLEAN]

ASSUME RunAssumption == MaxRuns \in Nat /\ NoFile \notin Statuses /\ NoRow \notin Rows

VARIABLES
  pc,         \* where the process is: out of a run, in its body, ...
  run,        \* the number of the last run directory
  finished,   \* ExperimentRun._finished
  results,    \* experiment_result.json of each run directory
  ledger,     \* experiment_ledger.jsonl, line by line
  archive,    \* CandidateArchive._records of this run
  offered,    \* history: the records the archive has been offered
  file,       \* the archive last written
  written     \* history: the records offered to it before that

process == <<pc, run, finished, results, ledger>>
memory == <<archive, offered>>
disk == <<file, written>>
vars == <<process, memory, disk>>

Init ==
  /\ pc = "out" /\ run = 0 /\ finished = FALSE
  /\ results = [r \in 1 .. MaxRuns |-> NoFile]
  /\ ledger = <<>>
  /\ archive = {} /\ offered = {}
  /\ file = NoFile /\ written = {}

-----------------------------------------------------------------------------
(* The archive.                                                               *)

\* _rank_key: the better score, then the smaller id.
Ahead(a, b) == a.score > b.score \/ (a.score = b.score /\ a.id < b.id)

Rank(R, r) == Cardinality({q \in R : Ahead(q, r)})
Foremost(R, n) == {r \in R : Rank(R, r) < n}

\* At most FamilyLimit of a family, and then at most Capacity; a record without
\* a family is in nobody's way.
Family(R, r) == {q \in R : q.family = r.family}
WithinFamily(R) ==
  {r \in R : r.family = NoFamily \/ r \in Foremost(Family(R, r), FamilyLimit)}
Select(R) == Foremost(WithinFamily(R), Capacity)

BestFirst(R) ==
  [n \in 1 .. Cardinality(R) |-> CHOOSE r \in R : Rank(R, r) = n - 1]

\* Mutant: a record already held is replaced whatever its score.
AfterOfferReplacing(R, record) ==
  LET selected == Select({r \in R : r.id # record.id} \cup {record})
  IN  IF record.score # NoScore /\ record \in selected THEN selected ELSE R

\* Mutant: a record that betters the one held under its id takes its place, and
\* the selection is not made again.
AfterOfferInPlace(R, record) ==
  LET held == {r \in R : r.id = record.id}
      proposed == (R \ held) \cup {record}
      better == record.score # NoScore /\ \A r \in held : record.score > r.score
  IN  IF better /\ held # {} THEN proposed
      ELSE IF better /\ record \in Select(proposed) THEN Select(proposed) ELSE R

\* What is retained after an offer.  A record that does not better the one held
\* under its id, or is not selected, changes nothing.
AfterOffer(R, record) ==
  LET held == {r \in R : r.id = record.id}
      selected == Select((R \ held) \cup {record})
  IN  IF /\ record.score # NoScore
         /\ \A r \in held : record.score > r.score
         /\ record \in selected
      THEN selected ELSE R

\* read_candidate_archive offers the records again, in their order: each must be
\* retained and evict no other, and in the end they must be in order.
FirstOf(s, n) == {s[i] : i \in 1 .. n}
Readable(s) ==
  /\ \A n \in DOMAIN s : AfterOffer(FirstOf(s, n - 1), s[n]) = FirstOf(s, n)
  /\ BestFirst(FirstOf(s, Len(s))) = s

Offer(record) ==
  /\ pc = "body" /\ Cardinality(offered) < MaxOffers
  /\ archive' = AfterOffer(archive, record)
  /\ offered' = offered \cup {record}
  /\ UNCHANGED <<process, disk>>

WriteArchive ==
  /\ pc = "body"
  /\ file' = BestFirst(archive)
  /\ written' = offered
  /\ UNCHANGED <<process, memory>>

\* A file that contradicts its policy raises.
ReadArchive ==
  /\ pc = "body" /\ file # NoFile /\ offered = {}
  /\ IF Readable(file)
       THEN /\ archive' = FirstOf(file, Len(file)) /\ offered' = written
            /\ UNCHANGED <<process, disk>>
       ELSE /\ pc' = "raised"
            /\ UNCHANGED <<run, finished, results, ledger, memory, disk>>

-----------------------------------------------------------------------------
(* The run.                                                                   *)

\* A new directory; initialising the logs or the manifest may fail.
Enter ==
  /\ pc = "out" /\ run < MaxRuns
  /\ run' = run + 1
  /\ pc' \in {"body", "out"}
  /\ finished' = FALSE
  /\ archive' = {} /\ offered' = {}
  /\ UNCHANGED <<results, ledger, disk>>

\* Mutant: the run is not marked once its result is written.
WriteResultUnmarked(status) ==
  /\ results' = [results EXCEPT ![run] = status]
  /\ finished' = finished
  /\ pc' = status

\* The result is in place, the run is finished, its row is still to be appended.
WriteResult(status) ==
  /\ results' = [results EXCEPT ![run] = status]
  /\ finished' = TRUE
  /\ pc' = status

\* finish: raises if the run has finished or the result cannot be written.
Finish ==
  /\ pc = "body"
  /\ \/ ~ finished /\ WriteResult("completed")
     \/ pc' = "raised" /\ UNCHANGED <<results, finished>>
  /\ UNCHANGED <<run, ledger, memory, disk>>

\* The body raises, a write in it fails, or it ends without finish.
BodyRaises ==
  /\ pc = "body"
  /\ pc' = "raised"
  /\ UNCHANGED <<run, finished, results, ledger, memory, disk>>

Exit ==
  /\ pc = "body" /\ finished
  /\ pc' = "out"
  /\ UNCHANGED <<run, finished, results, ledger, memory, disk>>

\* _fail: nothing for a finished run; what goes wrong on the way is swallowed.
Fail ==
  /\ pc = "raised"
  /\ \/ ~ finished /\ WriteResult("failed")
     \/ pc' = "out" /\ UNCHANGED <<results, finished>>
  /\ UNCHANGED <<run, ledger, memory, disk>>

Line(row, ended) == [row |-> row, ended |-> ended]

\* What is appended to an unended line spoils it.
Appended(lines, line) ==
  IF lines # <<>> /\ ~ lines[Len(lines)].ended
    THEN [lines EXCEPT ![Len(lines)] = Line(NoRow, line.ended)]
    ELSE Append(lines, line)

Row == [run |-> run, status |-> pc]

AppendRow ==
  /\ pc \in Statuses
  /\ ledger' = Appended(ledger, Line(Row, TRUE))
  /\ pc' = IF pc = "completed" THEN "body" ELSE "out"
  /\ UNCHANGED <<run, finished, results, memory, disk>>

\* What a write that fails, or is cut short, leaves of the line.
Remains == {ledger} \cup {Appended(ledger, line) :
             line \in {Line(NoRow, FALSE), Line(Row, FALSE), Line(Row, TRUE)}}

\* The error reaches the body's end from finish and is swallowed in _fail.
AppendFails ==
  /\ pc \in Statuses
  /\ ledger' \in Remains
  /\ pc' = IF pc = "completed" THEN "raised" ELSE "out"
  /\ UNCHANGED <<run, finished, results, memory, disk>>

\* The process dies: what it held in memory is gone, and a row being appended
\* may be there in part.
Kill ==
  /\ pc # "out"
  /\ pc' = "out"
  /\ ledger' \in (IF pc \in Statuses THEN Remains ELSE {ledger})
  /\ finished' = FALSE /\ archive' = {} /\ offered' = {}
  /\ UNCHANGED <<run, results, disk>>

Next ==
  \/ \E record \in Records : Offer(record)
  \/ WriteArchive \/ ReadArchive
  \/ Enter \/ Finish \/ BodyRaises \/ Exit \/ Fail
  \/ AppendRow \/ AppendFails \/ Kill

Spec == Init /\ [][Next]_vars

-----------------------------------------------------------------------------
(* Properties.                                                                *)

\* Whatever is killed or fails, each row of the ledger that can be read names a
\* run whose result is there and says the same, and a run has one row at most.
LedgerAgreesWithResults ==
  LET rows == {i \in DOMAIN ledger : ledger[i].row # NoRow}
  IN  /\ \A i \in rows : results[ledger[i].row.run] = ledger[i].row.status
      /\ \A i, j \in rows : ledger[i].row.run = ledger[j].row.run => i = j

\* The best version of each candidate that was offered with a score.
BestVersions(R) ==
  LET scored == {r \in R : r.score # NoScore}
  IN  {r \in scored : \A q \in scored : q.id = r.id => q.score <= r.score}

\* Where a candidate never changes its family, an archive filled one record at a
\* time, in any order, holds what would be selected from the best versions of all
\* the records it was ever offered; also after it was written and read back by a
\* later run.
ArchiveKeepsTheBest ==
  (\A q, r \in offered : q.id = r.id => q.family = r.family) =>
    archive = Select(BestVersions(offered))

\* What an archive wrote, a later run can read: offered again from the best to the
\* worst its records are all retained, whatever was offered before it was written.
WrittenCanBeRead == file # NoFile => Readable(file)

=============================================================================
