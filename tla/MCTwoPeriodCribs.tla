-------------------------- MODULE MCTwoPeriodCribs --------------------------
(* Streams of two and three places over three symbols and a text of six: two  *)
(* runes leave two coordinates to search.  Cribs that leave one key, that     *)
(* contradict each other or an interruptor, a place where no such word is,    *)
(* and searches for interruptors.                                             *)
EXTENDS TwoPeriodCribs

MCArray(s) == [i \in 0 .. Cardinality(DOMAIN s) - 1 |-> s[i + 1]]
MCText == MCArray(<<1, 2, 0, 2, 1, 1>>)
MCWords == {<<0, 2>>, <<2, 3>>, <<5, 1>>}
MCSpan(start, s) == [runes |-> MCArray(s), start |-> start]
MCAt == [w \in {MCArray(<<0>>)} |-> {5}]
MCAmiss == [w \in {MCArray(<<0>>)} |-> {0, 5}]
MCNowhere == [w \in {} |-> {}]

MCExact(S) == [mode |-> "exact", positions |-> S]
MCSearch(pool, min, max, strategy) ==
  [mode |-> "search", pool |-> pool, min |-> min, max |-> max, strategy |-> strategy, most |-> 3]

MCProblem(fixed, guesses, at, config, scores) ==
  [text |-> MCText, words |-> MCWords, fixed |-> fixed, guesses |-> guesses, at |-> at,
   config |-> config, scores |-> scores]

MCGuess == {MCArray(<<0, 1>>), MCArray(<<2, 2, 0>>)}

MCProblems ==
  {MCProblem({MCSpan(0, <<0, 1>>)}, {}, MCNowhere, MCExact({}), n) : n \in 1 .. 2}
  \cup {
   MCProblem({MCSpan(2, <<1, 1>>)}, {MCArray(<<0>>)}, MCAt, MCExact({4}), 1),
   MCProblem({MCSpan(2, <<1, 1>>)}, {MCArray(<<0>>)}, MCAmiss, MCExact({4}), 1),
   MCProblem({}, MCGuess, MCNowhere, MCExact({1}), 1),
   MCProblem({MCSpan(0, <<0, 1>>), MCSpan(1, <<2>>)}, {}, MCNowhere, MCExact({}), 1),
   MCProblem({MCSpan(0, <<2, 0>>)}, MCGuess, MCNowhere, MCSearch({1, 3}, 0, 1, "auto"), 2),
   MCProblem({MCSpan(2, <<0, 2, 2, 0>>)}, {}, MCNowhere, MCSearch({2, 3}, 1, 2, "bruteforce"), 2),
   MCProblem({MCSpan(2, <<0, 2, 2, 0>>)}, {}, MCNowhere, MCSearch({1, 2, 3}, 1, 2, "auto"), 2),
   MCProblem({}, {}, MCNowhere, MCSearch({1}, 0, 1, "keyops"), 1)}

\* The scores of a text, from its number: rugged, and with ties.
MCScore(n, profile, t) ==
  LET x == t[0] + 3 * t[1] + 9 * t[2] + 27 * t[3] + 81 * t[4] + 243 * t[5]
      m == CASE profile = "S2" -> 101 [] profile = "B1" -> 103 [] profile = "F1" -> 107
  IN  ((x * x + n * x) % m) % (4 * n)
MCSweeps == [profile \in {"S2", "B1", "F1"} |->
               CASE profile = "S2" -> 1 [] profile = "B1" -> 2 [] profile = "F1" -> 3]
=============================================================================
