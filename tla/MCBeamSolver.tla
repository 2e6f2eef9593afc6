---------------------------- MODULE MCBeamSolver ----------------------------
(* Beam search over three keys, with a window narrower than the key space so  *)
(* that keys leave it and come back.                                          *)
EXTENDS BeamSolver, TLC

CONSTANTS k1, k2, k3

MCKeys == {k1, k2, k3}

\* The raw scores: all rejected; one finite; a key ahead of two; two ahead of one;
\* one at the target.  Keys are interchangeable, so they are given in order.
Graded == {<<NegInf, NegInf, NegInf>>, <<0, NegInf, NegInf>>, <<1, 0, 0>>, <<1, 1, 0>>, <<2, 1, 0>>}

\* The weight is off in the first round and on after it; the scorer is built with it
\* on.  It rewards one key, the best or the worst by raw score.
MCWeights == {0, 1}
MCRamp == [step \in 0..Rounds |-> IF 2 * step <= Rounds THEN 0 ELSE 1]
Rewarded(raw, hit, w) ==
  LET at == k1 :> raw[1] @@ k2 :> raw[2] @@ k3 :> raw[3]
  IN  [k \in MCKeys |-> IF k = hit /\ IsFinite(at[k]) THEN at[k] + w ELSE at[k]]
MCLandscapes ==
  {[w \in MCWeights |-> Rewarded(raw, hit, w)] : raw \in Graded, hit \in {k1, k3}}

\* No seed, or one seed more than the beam is wide, the best last.
MCSeedChoices == {<<>>, <<k3, k2, k1>>}
=============================================================================
