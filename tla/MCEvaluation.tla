---------------------------- MODULE MCEvaluation ----------------------------
(* A text of two words of two symbols.  Under key value 0 two symbols encrypt *)
(* alike and one ciphertext symbol has no inverse; under 1 two symbols have   *)
(* homophones; 2 is a shift.                                                  *)
EXTENDS Evaluation

MCArray(s) == [i \in 0 .. Cardinality(DOMAIN s) - 1 |-> s[i + 1]]
MCTable == MCArray(<<MCArray(<<{0}, {0, 1}, {1}>>),
                     MCArray(<<{0}, {1}, {2}>>),
                     MCArray(<<{1}, {2, 0}, {0}>>)>>)
MCTables == {MCTable}
MCCiphertexts == {MCArray(<<0, 1, 0, 2>>)}
MCCores == {MCArray(<<1, 1>>), MCArray(<<0, 1>>), MCArray(<<2, 0>>)}
MCOrientations == {[perm |-> NoPerm, rtl |-> FALSE],
                   [perm |-> MCArray(<<2, 0, 3, 1>>), rtl |-> TRUE]}
MCExactPositions == {{}, {0, 3}}
MCKeyPositions == {{}, {1}, 0 .. 3}
MCSpans == <<<<0, 2>>, <<2, 4>>>>
MCCrib == [fixed |-> [i \in {0} |-> {0, 2}],
           perWord |-> [w \in {2} |-> {MCArray(<<0, 0>>), MCArray(<<2, 2>>), MCArray(<<0, 2>>)}],
           byLength |-> [n \in {2} |-> {MCArray(<<0, 0>>), MCArray(<<2, 2>>), MCArray(<<2, 0>>),
                                        MCArray(<<0, 1>>)}]]
MCCribs == {NoCrib, MCCrib}
MCPrimary(t) == (t[0] + 2 * t[1] + 4 * t[2] + t[3]) % 5
MCRaw(t) == (2 * t[0] + t[1] + t[2] + 3 * t[3]) % 7

MCPlainRuns ==
  [table : MCTables, ciphertext : MCCiphertexts, orient : MCOrientations,
   exact : MCExactPositions, search : {FALSE}, crib : MCCribs,
   degeneracy : {"forbid", "allow"}, resolver : {"first"},
   perPosition : {0}, limit : {1}, avg : {FALSE}]
MCExpandingRuns ==
  [table : MCTables, ciphertext : MCCiphertexts, orient : MCOrientations,
   exact : MCExactPositions, search : {FALSE}, crib : MCCribs,
   degeneracy : {"allow"}, resolver : {"expand_beam"},
   perPosition : {0, 1}, limit : {0, 3, 100}, avg : {FALSE}]
MCSearchRuns ==
  [table : MCTables, ciphertext : MCCiphertexts, orient : MCOrientations,
   exact : {{}}, search : {TRUE}, crib : {MCCrib},
   degeneracy : {"forbid", "allow"}, resolver : {"expand_beam"},
   perPosition : {2}, limit : {100}, avg : {TRUE}]
MCProblems == MCPlainRuns \cup MCExpandingRuns \cup MCSearchRuns
=============================================================================
