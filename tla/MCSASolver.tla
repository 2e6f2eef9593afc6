----------------------------- MODULE MCSASolver -----------------------------
(* Annealing over three keys.  The penalty is subtracted from a key's raw     *)
(* score, weighted, as AVG objectives do; a rejected key stays rejected.      *)
EXTENDS SASolver, TLC

CONSTANTS k1, k2, k3

MCKeys == {k1, k2, k3}

Grades == {NegInf, 0, 2, 4}
\* Keys are interchangeable, so their raw scores may be taken in order.
Graded == {raw \in [MCKeys -> Grades] : raw[k1] >= raw[k2] /\ raw[k2] >= raw[k3]}
Penalised(raw, penalty, w) ==
  [k \in MCKeys |-> IF IsFinite(raw[k]) THEN raw[k] - w * penalty[k] ELSE NegInf]

\* No Hamming ramp.
FlatWeights == {0}
FlatRamp == [step \in 0..Iters |-> 0]
FlatLandscapes == {[w \in FlatWeights |-> raw] : raw \in Graded}

\* A ramp that is off until half way.
RampWeights == {0, 1}
HalfRamp == [step \in 0..Iters |-> IF 2 * step <= Iters THEN 0 ELSE 1]
RampLandscapes ==
  {[w \in RampWeights |-> Penalised(raw, penalty, w)] :
     raw \in Graded, penalty \in [MCKeys -> {0, 1}]}
=============================================================================
