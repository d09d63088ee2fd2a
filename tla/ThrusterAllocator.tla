-------------------------- MODULE ThrusterAllocator --------------------------
(***************************************************************************)
(* From the wrench to the motor command (thruster_allocator.cpp and        *)
(* allocate_thrusters, thrust_to_speed of controller.cpp): the thrusts     *)
(* that the pseudo-inverse asks for are scaled until every thruster is     *)
(* within its limits, and turned into speeds in per cent.                  *)
(*                                                                         *)
(* The pseudo-inverse is not computed: it may ask for any thrusts.  These  *)
(* are integers, in units of 1/Unit kgf.  A wrench with a NaN makes every  *)
(* thrust NaN: NaN times the zeros of the matrix is NaN too.               *)
(***************************************************************************)
EXTENDS Integers, Sequences

CONSTANTS Count,   \* thrusters, the columns of the configuration
          Unit,    \* units per kgf
          Thrusts, \* thrusts asked of a thruster
          NaN

ASSUME AllocatorAssumption ==
  /\ Count \in Nat \ {0} /\ Unit \in Nat \ {0}
  /\ Thrusts \subseteq Int /\ NaN \notin Int

VARIABLES
  pc,               \* "idle", or the loop that runs: "ratio" or "convert"
  thrusts,
  i,
  max_ratio,        \* max_saturation_ratio, in units of 1/(20 * Unit)
  allocation_array

vars == <<pc, thrusts, i, max_ratio, allocation_array>>

Demands == [1 .. Count -> Thrusts] \cup {[k \in 1 .. Count |-> NaN]}

TypeOK ==
  /\ pc \in {"idle", "ratio", "convert"}
  /\ thrusts \in Demands
  /\ i \in 1 .. Count + 1
  /\ max_ratio \in Nat
  /\ allocation_array \in Seq(-128 .. 127)

Init ==
  /\ pc = "idle" /\ i = 1 /\ max_ratio = 0
  /\ thrusts \in Demands /\ allocation_array = <<>>

-----------------------------------------------------------------------------
(* The constants of the controller, in these units; X_Something is a       *)
(* plausible mistake in X, used to test that the properties notice it.     *)
max_thrust == 5 * Unit
min_thrust == -4 * Unit
One == 20 * Unit  \* a ratio of 1.0

\* ratio, of one thruster.  No comparison with NaN is true.
Ratio_MaxOnly(t) == IF t \in Int /\ t > max_thrust THEN 4 * t ELSE 0
Ratio(t) ==
  IF t \notin Int THEN 0
  ELSE IF t > max_thrust THEN 4 * t
  ELSE IF t < min_thrust THEN -5 * t
  ELSE 0

Larger(a, b) == IF a < b THEN b ELSE a

\* thrust_to_speed, of a thrust that is num/den of full speed one way.  After a
\* division by the ratio, a float, a quotient that should be an integer may fall
\* below it.
Percent(num, den) == (100 * num) \div den
Truncated(num, den) == {Percent(num, den)}
TruncatedScaled(num, den) ==
  LET q == Percent(num, den)
  IN  {q} \cup (IF 100 * num = q * den /\ q > 0 THEN {q - 1} ELSE {})

\* "thrusts /= max_saturation_ratio" and then thrust_to_speed.  The conversion
\* of NaN to int8_t, undefined in C++, is 0 on the machines this is built for.
Speed_Clipped(t) ==
  IF t \notin Int THEN {0}
  ELSE IF t > 0
  THEN IF t > max_thrust THEN {100} ELSE Truncated(t, max_thrust)
  ELSE {-s : s \in IF t < min_thrust THEN {100} ELSE Truncated(-t, -min_thrust)}
Speed(t) ==
  IF t \notin Int THEN {0}
  ELSE IF t > 0
  THEN IF max_ratio > One THEN TruncatedScaled(4 * t, max_ratio)
                          ELSE Truncated(t, max_thrust)
  ELSE {-s : s \in IF max_ratio > One THEN TruncatedScaled(-5 * t, max_ratio)
                                      ELSE Truncated(-t, -min_thrust)}

-----------------------------------------------------------------------------
\* getThrusts_, and the start of getMaxSaturationRatio_.
getThrusts_(demand) ==
  /\ pc = "idle"
  /\ thrusts' = demand
  /\ pc' = "ratio" /\ i' = 1 /\ max_ratio' = 0
  /\ allocation_array' = <<>>

\* One round of the loop of getMaxSaturationRatio_.
getMaxSaturationRatio_ ==
  /\ pc = "ratio" /\ i <= Count
  /\ max_ratio' = Larger(max_ratio, Ratio(thrusts[i]))
  /\ i' = i + 1
  /\ UNCHANGED <<pc, thrusts, allocation_array>>

allocate ==
  /\ pc = "ratio" /\ i > Count
  /\ pc' = "convert" /\ i' = 1
  /\ UNCHANGED <<thrusts, max_ratio, allocation_array>>

\* One round of the loop of allocate_thrusters.
push_back ==
  /\ pc = "convert" /\ i <= Count
  /\ \E speed \in Speed(thrusts[i]) : allocation_array' = Append(allocation_array, speed)
  /\ i' = i + 1
  /\ UNCHANGED <<pc, thrusts, max_ratio>>

\* sendCmd(255, &allocation[0]).
sendCmd ==
  /\ pc = "convert" /\ i > Count
  /\ pc' = "idle"
  /\ UNCHANGED <<thrusts, i, max_ratio, allocation_array>>

Next ==
  \/ \E demand \in Demands : getThrusts_(demand)
  \/ getMaxSaturationRatio_ \/ allocate \/ push_back \/ sendCmd

Spec == Init /\ [][Next]_vars

-----------------------------------------------------------------------------
(* Properties.                                                             *)

\* thruster_allocator.cpp:63: the thrusts are scaled "to ensure they are within
\* the limits", so no speed leaves [-100, 100] of ThrusterCommand.msg, although
\* the limits differ in the two directions and the cast has eight bits.
SpeedsInRange ==
  \A k \in 1 .. Len(allocation_array) : allocation_array[k] \in -100 .. 100

Abs(n) == IF n < 0 THEN -n ELSE n

\* A speed as hundredths of a kgf.
Hundredths(speed) == IF speed > 0 THEN 5 * speed ELSE 4 * speed

\* The scaling keeps the direction of the wrench: the thrusts commanded are to
\* each other as those asked for, up to the truncation to whole per cents.
KeepsDirection ==
  thrusts \in [1 .. Count -> Int] =>
    \A j, k \in 1 .. Len(allocation_array) :
      Abs(Hundredths(allocation_array[j]) * thrusts[k]
            - Hundredths(allocation_array[k]) * thrusts[j])
        <= 5 * (Abs(thrusts[j]) + Abs(thrusts[k]))

\* It scales no more than it must: a demand beyond the limits has a thruster at
\* full speed, up to the rounding of the ratio.
FullSpeedUsed ==
  pc = "convert" /\ i > Count /\ (\E k \in 1 .. Count : Ratio(thrusts[k]) > 0) =>
    \E k \in 1 .. Count : Abs(allocation_array[k]) \in {99, 100}
=============================================================================
