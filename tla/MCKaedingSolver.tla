-------------------------- MODULE MCKaedingSolver --------------------------
(* Three keys; the raw scores and the pct scores order them alike or          *)
(* differently, and keys may be rejected.                                     *)
EXTENDS KaedingSolver, TLC

CONSTANTS k1, k2, k3

MCKeys == {k1, k2, k3}

Rated(r, p) == [raw |-> r, pct |-> p]
Out == Rated(NegInf, NegInf)

\* Agreeing scores, scores in opposite orders, ties, and rejected keys.
MCLandscapes ==
  {[k \in MCKeys |-> CASE k = k1 -> t[1] [] k = k2 -> t[2] [] k = k3 -> t[3]] :
     t \in {<<Rated(0, 0), Rated(1, 1), Rated(2, 2)>>,
            <<Rated(0, 3), Rated(1, 4), Rated(2, 1)>>,
            <<Rated(1, 0), Rated(1, 2), Rated(1, 4)>>,
            <<Out, Out, Rated(1, 5)>>,
            <<Out, Out, Out>>}}

MCSeedChoices == {<<>>, <<k1, k2>>, <<k2, k1, k1>>}
=============================================================================
