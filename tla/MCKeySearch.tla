---------------------------- MODULE MCKeySearch -----------------------------
(* Every cipher with keys of a few places and a text of five symbols, so that *)
(* columns and rails are uneven; seeds with ties, gaps, negative positions    *)
(* and positions between two of the pool.                                     *)
EXTENDS KeySearch

MCPool == {0, 2, 3}
MCText == [i \in 0 .. 4 |-> <<0, 1, 2, 2, 1>>[i + 1]]
MCTexts == {MCText}
MCPerm == [i \in 0 .. 4 |-> <<3, 0, 4, 1, 2>>[i + 1]]
MCOrientations == {[perm |-> NoPerm, rtl |-> FALSE], [perm |-> NoPerm, rtl |-> TRUE],
                   [perm |-> MCPerm, rtl |-> TRUE]}
MCExactPositions == {{}, {1}, {0, 3, 4}}
MCRawSeeds == {<<2, 0, -1, -1, -1, -1, 2, 1, 0>>,
               <<7, 7, -1, 1, 4, -1, 5, 5, 2>>}

\* Streams of every kind, direction and anchor; every schedule and operation.
MCPeriodic == [kind |-> "periodic", period |-> 1, values |-> <<>>, direction |-> "forward",
               anchor |-> "start", offset |-> 0, repeat |-> TRUE]
MCBackward == [MCPeriodic EXCEPT !.period = 2, !.direction = "backward", !.offset = 1]
MCFixed == [MCPeriodic EXCEPT !.kind = "fixed", !.anchor = "end",
                              !.values = [i \in 0 .. 2 |-> <<1, 0, 2>>[i + 1]]]
MCOnce == [MCFixed EXCEPT !.direction = "backward", !.repeat = FALSE,
                          !.values = [i \in 0 .. 4 |-> (i * i) % 3]]
MCPrimes == [MCPeriodic EXCEPT !.kind = "primes", !.offset = 1]

MCStream(a, b, schedule, operation) ==
  [streams |-> [x \in {"A", "B"} |-> IF x = "A" THEN a ELSE b],
   schedule |-> schedule, operation |-> operation, first |-> "B",
   from |-> [A |-> 1, B |-> 0], to |-> [A |-> NoEnd, B |-> 2],
   mask |-> [i \in 0 .. 4 |-> <<{"A"}, {}, {"B"}, {"A", "B"}, {"B"}>>[i + 1]],
   lookup |-> [s \in {{"A"}, {"B"}, {"A", "B"}} |->
                 [p \in 0 .. 2 |-> [x \in 0 .. 2 |-> [y \in 0 .. 2 |->
                    IF x = 1 THEN <<>> ELSE <<(p * y + x) % 3>>]]]]]

MCStreams ==
  {[MCStream(MCBackward, MCPeriodic, "overlay", "xor_mod")
      EXCEPT !.streams = [x \in {"A"} |-> MCBackward]],
   MCStream(MCPeriodic, MCBackward, "overlay", "add"),
   MCStream(MCPeriodic, MCPrimes, "overlay", "add_sub"),
   MCStream(MCOnce, MCBackward, "alternating", "sub_add"),
   MCStream(MCBackward, MCFixed, "staggered_overlay", "beaufort_sum"),
   MCStream(MCPeriodic, MCFixed, "ragged_overlap", "add"),
   MCStream(MCPeriodic, MCPeriodic, "mask", "xor_mod"),
   MCStream(MCBackward, MCPrimes, "mask", "lookup")}
=============================================================================
