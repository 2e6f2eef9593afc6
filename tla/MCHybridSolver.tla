--------------------------- MODULE MCHybridSolver ---------------------------
(* The three phases over three keys, with and without a beam, with and        *)
(* without seeds.                                                             *)
EXTENDS HybridSolver

CONSTANTS k1, k2, k3

MCKeys == {k1, k2, k3}
MCLandscapes == [MCKeys -> {NegInf, 0, 1, 2}]
MCSeedSets == {{}, {k1}, {k1, k2}}
MCBeamSets == {keys \in SUBSET MCKeys : Cardinality(keys) \in 1..2}
=============================================================================
