------------------------- MODULE MCThrusterAllocator -------------------------
(* Three thrusters, asked for thrusts at rest, within the limits, at them and *)
(* beyond them in both directions.                                           *)
EXTENDS ThrusterAllocator

MCThrusts == {-11, -9, -4, -1, 0, 2, 5, 11}
=============================================================================
