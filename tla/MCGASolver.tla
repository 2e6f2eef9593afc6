----------------------------- MODULE MCGASolver -----------------------------
(* A population of three with one elite over three keys; the penalty is       *)
(* subtracted, weighted, as AVG objectives do.                                *)
EXTENDS GASolver

CONSTANTS k1, k2, k3

MCKeys == {k1, k2, k3}

\* Keys are interchangeable: their raw scores may be taken in order.
Graded == {raw \in [MCKeys -> {NegInf, 0, 1, 3}] : raw[k1] >= raw[k2] /\ raw[k2] >= raw[k3]}
Penalised(raw, penalty, w) ==
  [k \in MCKeys |-> IF IsFinite(raw[k]) THEN raw[k] - w * penalty[k] ELSE NegInf]

\* A ramp that is off until half way; the scorer is built with its full weight.
MCWeights == {0, 1}
MCRamp == [step \in 0..Generations |-> IF 2 * step <= Generations THEN 0 ELSE 1]
MCLandscapes ==
  {[w \in MCWeights |-> Penalised(raw, penalty, w)] :
     raw \in Graded, penalty \in {[k \in MCKeys |-> IF k = j THEN 1 ELSE 0] : j \in MCKeys}}

\* No seed, or more than the population has places, the best last.
MCSeedChoices == {<<>>, <<k3, k2, k3, k1>>}
=============================================================================
