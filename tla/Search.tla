------------------------------- MODULE Search -------------------------------
(* What a solver promises, whichever it is: it scores candidates, keeps as    *)
(* its incumbent one that nothing scored so far beats, never trades it for an *)
(* equally good one, and answers with the incumbent or something better.      *)
(* Every solver module is shown to implement it.                              *)
EXTENDS Integers

CONSTANTS
  Keys,
  Inf,
  Nothing     \* no incumbent yet, or no answer yet

VARIABLES
  seen,       \* the <<key, score>> pairs the search has scored
  incumbent,  \* the best of them
  answer      \* [kind, cand] once the search has ended

vars == <<seen, incumbent, answer>>

Candidates == Keys \X ((-Inf)..(Inf - 1))

Answers ==
  [kind : {"found", "supplied", "rejected"}, cand : Candidates]
    \cup [kind : {"raised"}]

TypeOK ==
  /\ seen \subseteq Candidates
  /\ incumbent \in seen \cup {Nothing}
  /\ seen = {} => incumbent = Nothing
  /\ answer \in Answers \cup {Nothing}

Dominates(c, S) == \A d \in S : d[2] <= c[2]

Init ==
  /\ seen = {}
  /\ incumbent = Nothing
  /\ answer = Nothing

\* Score any number of further candidates.  Between equals the first stays; only
\* rejected candidates are all alike.
Explore ==
  /\ answer = Nothing
  /\ seen' \in SUBSET Candidates
  /\ seen \subseteq seen'
  /\ incumbent' \in seen'
  /\ Dominates(incumbent', seen')
  /\ seen # {} /\ incumbent[2] # -Inf /\ incumbent'[2] = incumbent[2] =>
       incumbent' = incumbent
  /\ UNCHANGED answer

\* End with the incumbent or with a polished candidate that beats it.
Found ==
  /\ answer = Nothing
  /\ seen # {}
  /\ incumbent[2] # -Inf
  /\ answer' \in [kind : {"found"}, cand : Candidates]
  /\ answer'.cand = incumbent \/ answer'.cand[2] > incumbent[2]
  /\ UNCHANGED <<seen, incumbent>>

\* Every candidate was rejected.
Rejected ==
  /\ answer = Nothing
  /\ seen # {}
  /\ incumbent[2] = -Inf
  /\ answer' = [kind |-> "rejected", cand |-> incumbent]
  /\ UNCHANGED <<seen, incumbent>>

\* The caller supplied the key to report.
Supplied ==
  /\ answer = Nothing
  /\ seen = {}
  /\ answer' \in [kind : {"supplied"}, cand : Candidates]
  /\ UNCHANGED <<seen, incumbent>>

Raise ==
  /\ answer = Nothing
  /\ answer' = [kind |-> "raised"]
  /\ UNCHANGED <<seen, incumbent>>

Next == Explore \/ Found \/ Rejected \/ Supplied \/ Raise

Spec == Init /\ [][Next]_vars

-----------------------------------------------------------------------------
\* The incumbent is at least as good as everything scored.
IncumbentDominates == seen # {} => incumbent \in seen /\ Dominates(incumbent, seen)

\* A found answer is at least as good as every candidate ever scored, and a
\* rejected one means that not one candidate got through.
AnswerDominates ==
  answer # Nothing =>
    /\ answer.kind = "found" => Dominates(answer.cand, seen)
    /\ answer.kind = "rejected" => \A c \in seen : c[2] = -Inf
=============================================================================
