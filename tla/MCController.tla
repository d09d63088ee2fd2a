---------------------------- MODULE MCController ----------------------------
(* Positions on both sides of the target, in every heading and with a roll to *)
(* either side; ticks in time and late; an integral that fills in a few ticks. *)
EXTENDS Controller

MCTarget == [x |-> 0, y |-> 1, z |-> 1]
=============================================================================
