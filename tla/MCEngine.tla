------------------------------ MODULE MCEngine ------------------------------
(* A call of the engine with the hybrid solver, over the landscapes and seeds *)
(* of MCHybridSolver.                                                         *)
EXTENDS Engine, MCHybridSolver
=============================================================================
