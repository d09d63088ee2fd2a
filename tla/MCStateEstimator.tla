-------------------------- MODULE MCStateEstimator --------------------------
(* StateEstimator on a small instance: the vehicle between the surface and  *)
(* 2 depth steps, a gate of one step, stamps of a few milliseconds.         *)
EXTENDS StateEstimator
CONSTANTS h1, h2
MCHeadings == {h1, h2}
=============================================================================
