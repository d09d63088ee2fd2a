----------------------- MODULE ThrusterAllocatorProofs -----------------------
(***************************************************************************)
(* Proofs about ThrusterAllocator, for any number of thrusters, any demand *)
(* and any resolution of the thrusts.  The loop invariant of the ratio     *)
(* says that max_ratio is the largest ratio seen so far, and that some     *)
(* thruster has it; that of the conversion, that every speed pushed is one *)
(* that thrust_to_speed gives for its thruster.                            *)
(***************************************************************************)
EXTENDS ThrusterAllocator, TLAPS

\* max_ratio after the first n rounds of the loop.
Rated(n) ==
  /\ \A k \in 1 .. n : Ratio(thrusts[k]) <= max_ratio
  /\ max_ratio = 0 \/ \E k \in 1 .. n : Ratio(thrusts[k]) = max_ratio

Converted == \A k \in 1 .. Len(allocation_array) : allocation_array[k] \in Speed(thrusts[k])

AInv ==
  /\ TypeOK
  /\ Converted
  /\ pc = "ratio" => Len(allocation_array) = 0 /\ Rated(i - 1)
  /\ pc = "convert" => Len(allocation_array) = i - 1 /\ Rated(Count)
  /\ pc = "idle" => Len(allocation_array) = 0 \/ (Len(allocation_array) = Count /\ Rated(Count))

-----------------------------------------------------------------------------
(* Arithmetic of the conversion.                                           *)

\* A part of a whole is between 0 and 100 per cent of it.
LEMMA PerCent ==
  ASSUME NEW n \in Nat, NEW d \in Nat \ {0}, n <= d
  PROVE  (100 * n) \div d \in 0 .. 100
<1> DEFINE q == (100 * n) \div d
<1>1. q \in Int /\ 100 * n = q * d + ((100 * n) % d) /\ (100 * n) % d \in 0 .. d - 1
  OBVIOUS
<1> HIDE DEF q
<1>2. q <= 100
  <2> SUFFICES ASSUME q >= 101 PROVE FALSE
    BY <1>1
  <2>1. q * d >= 101 * d
    BY <1>1
  <2> QED
    BY <1>1, <2>1
<1>3. q >= 0
  <2> SUFFICES ASSUME q <= -1 PROVE FALSE
    BY <1>1
  <2>1. q * d <= -d
    BY <1>1
  <2> QED
    BY <1>1, <2>1
<1> QED
  BY <1>1, <1>2, <1>3 DEF q

\* The whole is 100 per cent of itself.
LEMMA Whole == ASSUME NEW d \in Nat \ {0} PROVE (100 * d) \div d = 100
OBVIOUS

LEMMA TruncatedRange ==
  ASSUME NEW n \in Nat, NEW d \in Nat \ {0}, n <= d
  PROVE  Truncated(n, d) \subseteq 0 .. 100 /\ TruncatedScaled(n, d) \subseteq 0 .. 100
<1> DEFINE q == Percent(n, d)
<1>1. q \in 0 .. 100
  BY PerCent DEF Percent
<1>2. /\ Truncated(n, d) \subseteq {q}
      /\ TruncatedScaled(n, d) \subseteq {q} \cup (IF q > 0 THEN {q - 1} ELSE {})
  BY DEF Truncated, TruncatedScaled
<1> HIDE DEF q
<1> QED
  BY <1>1, <1>2

LEMMA TruncatedWhole ==
  ASSUME NEW d \in Nat \ {0}
  PROVE  TruncatedScaled(d, d) \subseteq 99 .. 100
BY Whole DEF TruncatedScaled, Percent

LEMMA NegatedRange ==
  ASSUME NEW S, NEW a \in Int, NEW b \in Int, S \subseteq a .. b
  PROVE  {-s : s \in S} \subseteq -b .. -a
OBVIOUS

\* The limits are not zero, and the ratio of a thrust is never negative.
LEMMA Limits ==
  /\ One \in Nat \ {0} /\ max_thrust \in Nat \ {0} /\ min_thrust \in Int /\ -min_thrust \in Nat \ {0}
  /\ One = 4 * max_thrust /\ One = 5 * (-min_thrust)
BY AllocatorAssumption DEF One, max_thrust, min_thrust

LEMMA RatioType == \A t \in Int \cup {NaN} :
  /\ Ratio(t) \in Nat
  /\ Ratio(t) > 0 => t \in Int /\ ((Ratio(t) = 4 * t /\ t > 0) \/ (Ratio(t) = -5 * t /\ t < 0))
  /\ Ratio(t) > 0 => Ratio(t) > One
<1> SUFFICES ASSUME NEW t \in Int \cup {NaN}
             PROVE  /\ Ratio(t) \in Nat
                    /\ Ratio(t) > 0 => t \in Int /\ ((Ratio(t) = 4 * t /\ t > 0) \/ (Ratio(t) = -5 * t /\ t < 0))
                    /\ Ratio(t) > 0 => Ratio(t) > One
  OBVIOUS
<1>1. CASE t \notin Int
  BY <1>1 DEF Ratio
<1>2. CASE t \in Int /\ t > max_thrust
  <2>1. Ratio(t) = 4 * t
    BY <1>2 DEF Ratio
  <2> QED
    BY <1>2, <2>1, Limits
<1>3. CASE t \in Int /\ ~(t > max_thrust) /\ t < min_thrust
  <2>1. Ratio(t) = -5 * t
    BY <1>3 DEF Ratio
  <2> QED
    BY <1>3, <2>1, Limits
<1>4. CASE t \in Int /\ ~(t > max_thrust) /\ ~(t < min_thrust)
  <2>1. Ratio(t) = 0
    BY <1>4 DEF Ratio
  <2> QED
    BY <2>1
<1> QED
  BY <1>1, <1>2, <1>3, <1>4

\* A thrust within the ratio becomes a speed within the range.
LEMMA SpeedRange ==
  ASSUME max_ratio \in Nat, NEW t \in Int \cup {NaN}, Ratio(t) <= max_ratio
  PROVE  Speed(t) \subseteq -100 .. 100
<1>1. CASE t \notin Int
  BY <1>1 DEF Speed
<1>2. CASE t \in Int /\ t > 0
  <2>1. CASE max_ratio > One
    <3>1. 4 * t \in Nat /\ 4 * t <= max_ratio /\ max_ratio \in Nat \ {0}
      BY <1>2, <2>1, Limits DEF Ratio
    <3>2. TruncatedScaled(4 * t, max_ratio) \subseteq 0 .. 100
      BY <3>1, TruncatedRange
    <3>3. Speed(t) = TruncatedScaled(4 * t, max_ratio)
      BY <1>2, <2>1 DEF Speed
    <3> QED
      BY <3>2, <3>3
  <2>2. CASE ~(max_ratio > One)
    <3>1. t \in Nat /\ t <= max_thrust /\ max_thrust \in Nat \ {0}
      BY <1>2, <2>2, Limits DEF Ratio
    <3>2. Truncated(t, max_thrust) \subseteq 0 .. 100
      BY <3>1, TruncatedRange
    <3>3. Speed(t) = Truncated(t, max_thrust)
      BY <1>2, <2>2 DEF Speed
    <3> QED
      BY <3>2, <3>3
  <2> QED
    BY <2>1, <2>2
<1>3. CASE t \in Int /\ ~(t > 0)
  <2>1. CASE max_ratio > One
    <3>1. -5 * t \in Nat /\ -5 * t <= max_ratio /\ max_ratio \in Nat \ {0}
      BY <1>3, <2>1, Limits DEF Ratio
    <3>2. TruncatedScaled(-5 * t, max_ratio) \subseteq 0 .. 100
      BY <3>1, TruncatedRange
    <3>3. Speed(t) = {-s : s \in TruncatedScaled(-5 * t, max_ratio)}
      BY <1>3, <2>1 DEF Speed
    <3>4. Speed(t) \subseteq -100 .. -0
      BY <3>2, <3>3, NegatedRange
    <3> QED
      BY <3>4
  <2>2. CASE ~(max_ratio > One)
    <3>1. -t \in Nat /\ -t <= -min_thrust /\ -min_thrust \in Nat \ {0}
      BY <1>3, <2>2, Limits DEF Ratio
    <3>2. Truncated(-t, -min_thrust) \subseteq 0 .. 100
      BY <3>1, TruncatedRange
    <3>3. Speed(t) = {-s : s \in Truncated(-t, -min_thrust)}
      BY <1>3, <2>2 DEF Speed
    <3>4. Speed(t) \subseteq -100 .. -0
      BY <3>2, <3>3, NegatedRange
    <3> QED
      BY <3>4
  <2> QED
    BY <2>1, <2>2
<1> QED
  BY <1>1, <1>2, <1>3

\* The thruster with the largest ratio runs at full speed.
LEMMA SpeedFull ==
  ASSUME max_ratio \in Nat, NEW t \in Int \cup {NaN}, Ratio(t) = max_ratio, max_ratio > 0
  PROVE  \A s \in Speed(t) : Abs(s) \in {99, 100}
<1>1. /\ t \in Int /\ max_ratio > One /\ max_ratio \in Nat \ {0}
      /\ (max_ratio = 4 * t /\ t > 0) \/ (max_ratio = -5 * t /\ t < 0)
  BY RatioType, Limits
<1>2. TruncatedScaled(max_ratio, max_ratio) \subseteq 99 .. 100
  BY <1>1, TruncatedWhole
<1>3. CASE max_ratio = 4 * t /\ t > 0
  <2>1. Speed(t) = TruncatedScaled(4 * t, max_ratio)
    BY <1>1, <1>3 DEF Speed
  <2>2. Speed(t) \subseteq 99 .. 100
    BY <1>2, <1>3, <2>1
  <2> QED
    BY <2>2 DEF Abs
<1>4. CASE max_ratio = -5 * t /\ t < 0
  <2>1. ~(t > 0)
    BY <1>1, <1>4
  <2>2. Speed(t) = {-s : s \in TruncatedScaled(-5 * t, max_ratio)}
    BY <1>1, <2>1 DEF Speed
  <2>3. TruncatedScaled(-5 * t, max_ratio) \subseteq 99 .. 100
    BY <1>2, <1>4
  <2>4. Speed(t) \subseteq -100 .. -99
    BY <2>2, <2>3, NegatedRange
  <2> QED
    BY <2>4 DEF Abs
<1> QED
  BY <1>1, <1>3, <1>4

\* The demand on a thruster is a number or NaN.
LEMMA DemandType ==
  ASSUME TypeOK
  PROVE  /\ Count \in Nat \ {0} /\ i \in Nat /\ max_ratio \in Nat /\ Len(allocation_array) \in Nat
         /\ \A k \in 1 .. Count : thrusts[k] \in Int \cup {NaN} /\ Ratio(thrusts[k]) \in Nat
<1>1. \A k \in 1 .. Count : thrusts[k] \in Int \cup {NaN}
  BY AllocatorAssumption DEF TypeOK, Demands
<1>2. Count \in Nat \ {0} /\ i \in Nat /\ max_ratio \in Nat
  BY AllocatorAssumption DEF TypeOK
<1>3. Len(allocation_array) \in Nat
  BY DEF TypeOK
<1> QED
  BY <1>1, <1>2, <1>3, RatioType

-----------------------------------------------------------------------------
(* The invariant.                                                          *)

LEMMA InitInv == Init => AInv
<1> SUFFICES ASSUME Init PROVE AInv
  OBVIOUS
<1>1. allocation_array \in Seq(-128 .. 127) /\ Len(allocation_array) = 0
  BY DEF Init
<1>2. TypeOK
  BY <1>1, AllocatorAssumption DEF Init, TypeOK
<1> QED
  BY <1>1, <1>2 DEF Init, AInv, Converted

LEMMA StartInv == ASSUME AInv, NEW demand \in Demands, getThrusts_(demand) PROVE AInv'
<1>1. /\ thrusts' = demand /\ pc' = "ratio" /\ i' = 1 /\ max_ratio' = 0
      /\ allocation_array' = <<>>
  BY DEF getThrusts_
<1>2. allocation_array' \in Seq(-128 .. 127) /\ Len(allocation_array') = 0
  BY <1>1
<1>3. TypeOK'
  BY <1>1, <1>2, AllocatorAssumption DEF TypeOK
<1>4. Rated(i - 1)'
  BY <1>1 DEF Rated
<1> QED
  BY <1>1, <1>2, <1>3, <1>4 DEF AInv, Converted

LEMMA RatioInv == ASSUME AInv, getMaxSaturationRatio_ PROVE AInv'
<1>1. /\ pc = "ratio" /\ i <= Count /\ i' = i + 1
      /\ max_ratio' = Larger(max_ratio, Ratio(thrusts[i]))
      /\ UNCHANGED <<pc, thrusts, allocation_array>>
  BY DEF getMaxSaturationRatio_
<1>2. TypeOK /\ Len(allocation_array) = 0 /\ Rated(i - 1)
  BY <1>1 DEF AInv
<1>3. i \in 1 .. Count
  BY <1>1, <1>2, DemandType DEF TypeOK
<1>4. /\ max_ratio' \in Nat /\ max_ratio <= max_ratio' /\ Ratio(thrusts[i]) <= max_ratio'
      /\ max_ratio' = max_ratio \/ max_ratio' = Ratio(thrusts[i])
  BY <1>1, <1>2, <1>3, DemandType DEF Larger
<1>5. TypeOK'
  BY <1>1, <1>2, <1>3, <1>4, DemandType DEF TypeOK
<1>6. Rated(i - 1)'
  <2>1. i' - 1 = i
    BY <1>1, <1>2, DemandType
  <2>2. ASSUME NEW k \in 1 .. i PROVE Ratio(thrusts'[k]) <= max_ratio'
    <3>1. CASE k = i
      BY <1>1, <1>4, <3>1
    <3>2. CASE k # i
      <4>1. k \in 1 .. i - 1 /\ k \in 1 .. Count
        BY <1>2, <1>3, <3>2, DemandType
      <4>2. Ratio(thrusts[k]) <= max_ratio
        BY <1>2, <4>1 DEF Rated
      <4> QED
        BY <1>1, <1>2, <1>4, <4>1, <4>2, DemandType
    <3> QED
      BY <3>1, <3>2
  <2>3. max_ratio' = 0 \/ \E k \in 1 .. i : Ratio(thrusts'[k]) = max_ratio'
    <3>1. CASE max_ratio' = Ratio(thrusts[i])
      BY <1>1, <1>3, <3>1
    <3>2. CASE max_ratio' = max_ratio
      <4>1. 1 .. i - 1 \subseteq 1 .. i
        BY <1>3
      <4> QED
        BY <1>1, <1>2, <3>2, <4>1 DEF Rated
    <3> QED
      BY <1>4, <3>1, <3>2
  <2> QED
    BY <2>1, <2>2, <2>3 DEF Rated
<1>7. Converted'
  BY <1>1, <1>2 DEF Converted
<1> QED
  BY <1>1, <1>2, <1>5, <1>6, <1>7 DEF AInv

LEMMA AllocateInv == ASSUME AInv, allocate PROVE AInv'
<1>1. /\ pc = "ratio" /\ i > Count /\ pc' = "convert" /\ i' = 1
      /\ UNCHANGED <<thrusts, max_ratio, allocation_array>>
  BY DEF allocate
<1>2. TypeOK /\ Len(allocation_array) = 0 /\ Rated(i - 1)
  BY <1>1 DEF AInv
<1>3. i - 1 = Count
  BY <1>1, <1>2, DemandType DEF TypeOK
<1>4. TypeOK'
  BY <1>1, <1>2, DemandType DEF TypeOK
<1>5. Rated(Count)'
  BY <1>1, <1>2, <1>3 DEF Rated
<1>6. Converted'
  BY <1>1, <1>2 DEF Converted
<1> QED
  BY <1>1, <1>2, <1>4, <1>5, <1>6 DEF AInv

LEMMA PushInv == ASSUME AInv, push_back PROVE AInv'
<1>1. /\ pc = "convert" /\ i <= Count /\ i' = i + 1
      /\ UNCHANGED <<pc, thrusts, max_ratio>>
  BY DEF push_back
<1>2. PICK speed \in Speed(thrusts[i]) : allocation_array' = Append(allocation_array, speed)
  BY DEF push_back
<1>3. TypeOK /\ Len(allocation_array) = i - 1 /\ Rated(Count) /\ Converted
  BY <1>1 DEF AInv
<1>4. i \in 1 .. Count
  BY <1>1, <1>3, DemandType DEF TypeOK
<1>5. speed \in -100 .. 100
  BY <1>2, <1>3, <1>4, DemandType, SpeedRange DEF Rated
<1>6. /\ allocation_array' \in Seq(-128 .. 127) /\ Len(allocation_array') = i
      /\ \A k \in 1 .. i - 1 : allocation_array'[k] = allocation_array[k]
      /\ allocation_array'[i] = speed
  <2>1. allocation_array \in Seq(-128 .. 127) /\ speed \in -128 .. 127
    BY <1>3, <1>5 DEF TypeOK
  <2> QED
    BY <1>2, <1>3, <1>4, <2>1
<1>7. TypeOK'
  BY <1>1, <1>3, <1>4, <1>6, DemandType DEF TypeOK
<1>8. Converted'
  <2>1. ASSUME NEW k \in 1 .. i PROVE (allocation_array[k] \in Speed(thrusts[k]))'
    <3>1. Speed(thrusts[k])' = Speed(thrusts[k])
      BY <1>1 DEF Speed
    <3>2. CASE k = i
      BY <1>2, <1>6, <3>1, <3>2
    <3>3. CASE k # i
      <4>1. k \in 1 .. i - 1
        BY <1>4, <3>3
      <4>2. allocation_array[k] \in Speed(thrusts[k])
        BY <1>3, <4>1 DEF Converted
      <4>3. allocation_array'[k] = allocation_array[k]
        BY <1>6, <4>1
      <4> QED
        BY <3>1, <4>2, <4>3
    <3> QED
      BY <3>2, <3>3
  <2> QED
    BY <1>6, <2>1 DEF Converted
<1>9. Rated(Count)' /\ Len(allocation_array') = i' - 1
  BY <1>1, <1>3, <1>4, <1>6 DEF Rated
<1> QED
  BY <1>1, <1>7, <1>8, <1>9 DEF AInv

LEMMA SendInv == ASSUME AInv, sendCmd PROVE AInv'
<1>1. /\ pc = "convert" /\ i > Count /\ pc' = "idle"
      /\ UNCHANGED <<thrusts, i, max_ratio, allocation_array>>
  BY DEF sendCmd
<1>2. TypeOK /\ Len(allocation_array) = i - 1 /\ Rated(Count) /\ Converted
  BY <1>1 DEF AInv
<1>3. Len(allocation_array) = Count
  BY <1>1, <1>2, DemandType DEF TypeOK
<1>4. TypeOK'
  BY <1>1, <1>2 DEF TypeOK
<1>5. Converted' /\ Rated(Count)'
  BY <1>1, <1>2 DEF Converted, Rated, Speed
<1> QED
  BY <1>1, <1>3, <1>4, <1>5 DEF AInv

LEMMA NextInv == ASSUME AInv, [Next]_vars PROVE AInv'
<1>1. ASSUME NEW demand \in Demands, getThrusts_(demand) PROVE AInv'
  BY <1>1, StartInv
<1>2. CASE getMaxSaturationRatio_
  BY <1>2, RatioInv
<1>3. CASE allocate
  BY <1>3, AllocateInv
<1>4. CASE push_back
  BY <1>4, PushInv
<1>5. CASE sendCmd
  BY <1>5, SendInv
<1>6. CASE UNCHANGED vars
  BY <1>6 DEF vars, AInv, TypeOK, Converted, Rated, Speed
<1> QED
  BY <1>1, <1>2, <1>3, <1>4, <1>5, <1>6 DEF Next

\* The two loop invariants.
THEOREM Inductive == Spec => []AInv
BY InitInv, NextInv, PTL DEF Spec

\* Type correctness: in particular, every speed fits the int8_t it is cast to.
THEOREM TypeCorrect == Spec => []TypeOK
<1>1. AInv => TypeOK
  BY DEF AInv
<1> QED
  BY <1>1, Inductive, PTL

\* Whatever the pseudo-inverse asks for, no command leaves [-100, 100].
THEOREM InRange == Spec => []SpeedsInRange
<1>1. ASSUME AInv PROVE SpeedsInRange
  <2> SUFFICES ASSUME NEW k \in 1 .. Len(allocation_array)
               PROVE  allocation_array[k] \in -100 .. 100
    BY DEF SpeedsInRange
  <2>1. TypeOK /\ pc \in {"idle", "ratio", "convert"}
    BY <1>1 DEF AInv, TypeOK
  <2>2. Rated(Count) /\ k \in 1 .. Count
    BY <1>1, <2>1, DemandType DEF AInv, TypeOK
  <2>3. allocation_array[k] \in Speed(thrusts[k])
    BY <1>1 DEF AInv, Converted
  <2> QED
    BY <2>1, <2>2, <2>3, DemandType, SpeedRange DEF Rated
<1> QED
  BY <1>1, Inductive, PTL

\* A demand beyond the limits puts a thruster at full speed: it is scaled by the
\* largest ratio and no more.
THEOREM FullSpeed == Spec => []FullSpeedUsed
<1>1. ASSUME AInv PROVE FullSpeedUsed
  <2> SUFFICES ASSUME pc = "convert", i > Count, NEW j \in 1 .. Count, Ratio(thrusts[j]) > 0
               PROVE  \E k \in 1 .. Count : Abs(allocation_array[k]) \in {99, 100}
    BY DEF FullSpeedUsed
  <2>1. TypeOK /\ Rated(Count) /\ Converted /\ Len(allocation_array) = i - 1
    BY <1>1 DEF AInv
  <2>2. Len(allocation_array) = Count
    BY <2>1, DemandType DEF TypeOK
  <2>3. max_ratio > 0
    BY <2>1, DemandType DEF Rated
  <2>4. PICK k \in 1 .. Count : Ratio(thrusts[k]) = max_ratio
    BY <2>1, <2>3 DEF Rated
  <2>5. allocation_array[k] \in Speed(thrusts[k])
    BY <2>1, <2>2 DEF Converted
  <2>6. Abs(allocation_array[k]) \in {99, 100}
    BY <2>1, <2>3, <2>4, <2>5, DemandType, SpeedFull
  <2> QED
    BY <2>6
<1> QED
  BY <1>1, Inductive, PTL
-----------------------------------------------------------------------------
(* The direction.  What is commanded is a multiple of what is asked for,    *)
(* the same for all thrusters, but for one per cent of truncation.          *)

\* The quotient of a division, as a product.
LEMMA Quotient ==
  ASSUME NEW n \in Nat, NEW d \in Nat \ {0}
  PROVE  LET q == Percent(n, d)
         IN  q \in Nat /\ d * q <= 100 * n /\ 100 * n < d * q + d
<1> DEFINE q == (100 * n) \div d  r == (100 * n) % d
<1>1. q \in Int /\ r \in 0 .. d - 1 /\ 100 * n = q * d + r
  OBVIOUS
<1> HIDE DEF q, r
<1>2. q >= 0
  <2> SUFFICES ASSUME q <= -1 PROVE FALSE
    BY <1>1
  <2>1. q * d <= -d
    BY <1>1
  <2> QED
    BY <1>1, <2>1
<1>3. q * d = d * q
  BY <1>1
<1>4. Percent(n, d) = q
  BY DEF Percent, q
<1> QED
  BY <1>1, <1>2, <1>3, <1>4

\* Truncation takes away one per cent at most, also after a division by a float.
LEMMA TruncatedError ==
  ASSUME NEW n \in Nat, NEW d \in Nat \ {0}, NEW s \in Truncated(n, d) \cup TruncatedScaled(n, d)
  PROVE  s \in Nat /\ d * s <= 100 * n /\ 100 * n <= d * s + d
<1> DEFINE q == Percent(n, d)
<1>1. q \in Nat /\ d * q <= 100 * n /\ 100 * n < d * q + d
  BY Quotient
<1>2. s = q \/ (100 * n = q * d /\ q > 0 /\ s = q - 1)
  BY DEF Truncated, TruncatedScaled
<1> HIDE DEF q
<1>3. CASE s = q
  BY <1>1, <1>3
<1>4. CASE 100 * n = q * d /\ q > 0 /\ s = q - 1
  <2>1. d * s = d * q - d
    BY <1>1, <1>4
  <2>2. d * q = q * d
    BY <1>1
  <2> QED
    BY <1>1, <1>4, <2>1, <2>2
<1> QED
  BY <1>2, <1>3, <1>4

\* The factor common to all thrusters: hundredths commanded per thrust asked for.
Den == IF max_ratio > One THEN max_ratio ELSE Unit
Num == IF max_ratio > One THEN 2000 ELSE 100

LEMMA FactorType == ASSUME max_ratio \in Nat PROVE Den \in Nat \ {0} /\ Num \in Nat
BY AllocatorAssumption, Limits DEF Den, Num

\* A speed, in hundredths, is the factor times the thrust, up to a per cent.
LEMMA SpeedIsProportional ==
  ASSUME max_ratio \in Nat, NEW t \in Int, NEW s \in Speed(t)
  PROVE  /\ Hundredths(s) \in Int
         /\ -(5 * Den) <= Den * Hundredths(s) - Num * t
         /\ Den * Hundredths(s) - Num * t <= 5 * Den
<1>1. CASE t > 0 /\ max_ratio > One
  <2>1. s \in TruncatedScaled(4 * t, max_ratio) /\ 4 * t \in Nat /\ max_ratio \in Nat \ {0}
    BY <1>1, Limits DEF Speed
  <2>2. s \in Nat /\ max_ratio * s <= 100 * (4 * t) /\ 100 * (4 * t) <= max_ratio * s + max_ratio
    BY <2>1, TruncatedError
  <2>3. Hundredths(s) = 5 * s
    BY <2>2 DEF Hundredths
  <2>4. max_ratio * (5 * s) = 5 * (max_ratio * s)
    BY <2>2
  <2>5. Den = max_ratio /\ Num = 2000
    BY <1>1 DEF Den, Num
  <2> QED
    BY <2>2, <2>3, <2>4, <2>5
<1>2. CASE t > 0 /\ ~(max_ratio > One)
  <2>1. s \in Truncated(t, max_thrust) /\ t \in Nat /\ max_thrust \in Nat \ {0}
    BY <1>2, Limits DEF Speed
  <2>2. s \in Nat /\ max_thrust * s <= 100 * t /\ 100 * t <= max_thrust * s + max_thrust
    BY <2>1, TruncatedError
  <2>3. Hundredths(s) = 5 * s
    BY <2>2 DEF Hundredths
  <2>4. Unit * (5 * s) = max_thrust * s /\ max_thrust = 5 * Unit
    BY <2>2, AllocatorAssumption DEF max_thrust
  <2>5. Den = Unit /\ Num = 100
    BY <1>2 DEF Den, Num
  <2> QED
    BY <2>2, <2>3, <2>4, <2>5, AllocatorAssumption
<1>3. CASE ~(t > 0) /\ max_ratio > One
  <2>1. /\ -5 * t \in Nat /\ max_ratio \in Nat \ {0}
        /\ Speed(t) = {-p : p \in TruncatedScaled(-5 * t, max_ratio)}
    BY <1>3, Limits DEF Speed
  <2>2. PICK p \in TruncatedScaled(-5 * t, max_ratio) : s = -p
    BY <2>1
  <2>3. p \in Nat /\ max_ratio * p <= 100 * (-5 * t) /\ 100 * (-5 * t) <= max_ratio * p + max_ratio
    BY <2>1, <2>2, TruncatedError
  <2>4. Hundredths(s) = -(4 * p)
    BY <2>2, <2>3 DEF Hundredths
  <2>5. max_ratio * (-(4 * p)) = -(4 * (max_ratio * p))
    BY <2>3
  <2>6. Den = max_ratio /\ Num = 2000
    BY <1>3 DEF Den, Num
  <2> QED
    BY <2>1, <2>3, <2>4, <2>5, <2>6
<1>4. CASE ~(t > 0) /\ ~(max_ratio > One)
  <2>1. /\ -t \in Nat /\ -min_thrust \in Nat \ {0}
        /\ Speed(t) = {-p : p \in Truncated(-t, -min_thrust)}
    BY <1>4, Limits DEF Speed
  <2>2. PICK p \in Truncated(-t, -min_thrust) : s = -p
    BY <2>1
  <2>3. /\ p \in Nat /\ (-min_thrust) * p <= 100 * (-t)
        /\ 100 * (-t) <= (-min_thrust) * p + (-min_thrust)
    BY <2>1, <2>2, TruncatedError
  <2>4. Hundredths(s) = -(4 * p)
    BY <2>2, <2>3 DEF Hundredths
  <2>5. Unit * (-(4 * p)) = -((-min_thrust) * p) /\ -min_thrust = 4 * Unit
    BY <2>3, AllocatorAssumption DEF min_thrust
  <2>6. Den = Unit /\ Num = 100
    BY <1>4 DEF Den, Num
  <2> QED
    BY <2>1, <2>3, <2>4, <2>5, <2>6, AllocatorAssumption
<1> QED
  BY <1>1, <1>2, <1>3, <1>4

LEMMA AbsType == \A n \in Int : Abs(n) \in Nat /\ -Abs(n) <= n /\ n <= Abs(n)
BY DEF Abs

LEMMA AbsProduct ==
  ASSUME NEW e \in Int, NEW m \in Nat, -m <= e, e <= m, NEW u \in Int
  PROVE  -(m * Abs(u)) <= e * u /\ e * u <= m * Abs(u)
<1>1. CASE u >= 0
  <2>1. Abs(u) = u
    BY <1>1 DEF Abs
  <2>2. (-m) * u <= e * u /\ e * u <= m * u
    BY <1>1
  <2>3. (-m) * u = -(m * u)
    OBVIOUS
  <2> QED
    BY <2>1, <2>2, <2>3
<1>2. CASE u < 0
  <2>1. Abs(u) = -u
    BY <1>2 DEF Abs
  <2>2. m * u <= e * u /\ e * u <= (-m) * u
    BY <1>2
  <2>3. m * (-u) = -(m * u) /\ (-m) * u = -(m * u)
    OBVIOUS
  <2> QED
    BY <2>1, <2>2, <2>3
<1> QED
  BY <1>1, <1>2

LEMMA Cancel ==
  ASSUME NEW d \in Nat \ {0}, NEW x \in Int, NEW y \in Int, d * x <= d * y
  PROVE  x <= y
<1> SUFFICES ASSUME x >= y + 1 PROVE FALSE
  OBVIOUS
<1>1. d * x >= d * (y + 1)
  OBVIOUS
<1>2. d * (y + 1) = d * y + d
  OBVIOUS
<1> QED
  BY <1>1, <1>2

\* Two numbers close to the same multiple of two others are to each other as those.
LEMMA Proportion ==
  ASSUME NEW d \in Nat \ {0}, NEW n \in Nat, NEW a \in Int, NEW b \in Int, NEW t \in Int, NEW u \in Int,
         -(5 * d) <= d * a - n * t, d * a - n * t <= 5 * d,
         -(5 * d) <= d * b - n * u, d * b - n * u <= 5 * d
  PROVE  Abs(a * u - b * t) <= 5 * (Abs(t) + Abs(u))
<1> DEFINE e == d * a - n * t  f == d * b - n * u  x == a * u - b * t
           y == 5 * (Abs(t) + Abs(u))
<1>1. e \in Int /\ f \in Int /\ x \in Int /\ Abs(t) \in Nat /\ Abs(u) \in Nat /\ y \in Nat
  BY AbsType
<1>2. d * x = e * u - f * t
  <2>1. d * (a * u - b * t) = (d * a) * u - (d * b) * t
    OBVIOUS
  <2>2. (d * a - n * t) * u = (d * a) * u - (n * t) * u
    OBVIOUS
  <2>3. (d * b - n * u) * t = (d * b) * t - (n * u) * t
    OBVIOUS
  <2>4. (n * t) * u = (n * u) * t
    OBVIOUS
  <2> QED
    BY <2>1, <2>2, <2>3, <2>4
<1> DEFINE m == 5 * d
<1>3. m \in Nat /\ -m <= e /\ e <= m /\ -m <= f /\ f <= m
  OBVIOUS
<1> HIDE DEF e, f, m
<1>4. -(m * Abs(u)) <= e * u /\ e * u <= m * Abs(u)
  BY <1>1, <1>3, AbsProduct
<1>5. -(m * Abs(t)) <= f * t /\ f * t <= m * Abs(t)
  BY <1>1, <1>3, AbsProduct
<1>6. d * y = m * Abs(u) + m * Abs(t) /\ d * (-y) = -(d * y)
  BY <1>1 DEF m
<1> HIDE DEF x, y
<1>7. d * x <= d * y /\ d * (-y) <= d * x
  <2> DEFINE dx == d * x  dy == d * y  low == d * (-y)  eu == e * u  ft == f * t
             mu == m * Abs(u)  mt == m * Abs(t)
  <2>1. /\ dx \in Int /\ dy \in Int /\ low \in Int /\ eu \in Int /\ ft \in Int
        /\ mu \in Int /\ mt \in Int
    BY <1>1, <1>3
  <2>2. /\ dx = eu - ft /\ dy = mu + mt /\ low = -dy
        /\ -mu <= eu /\ eu <= mu /\ -mt <= ft /\ ft <= mt
    BY <1>2, <1>4, <1>5, <1>6
  <2> HIDE DEF dx, dy, low, eu, ft, mu, mt
  <2>3. dx <= dy /\ low <= dx
    BY <2>1, <2>2
  <2> QED
    BY <2>3 DEF dx, dy, low
<1>8. x <= y /\ -y <= x
  BY <1>1, <1>7, Cancel
<1> QED
  BY <1>1, <1>8 DEF Abs, x, y

\* For any number of thrusters and any demand, what is commanded has the direction
\* that was asked for.
THEOREM DirectionKept == Spec => []KeepsDirection
<1>1. ASSUME AInv PROVE KeepsDirection
  <2> SUFFICES ASSUME thrusts \in [1 .. Count -> Int],
                      NEW j \in 1 .. Len(allocation_array), NEW k \in 1 .. Len(allocation_array)
               PROVE  Abs(Hundredths(allocation_array[j]) * thrusts[k]
                            - Hundredths(allocation_array[k]) * thrusts[j])
                        <= 5 * (Abs(thrusts[j]) + Abs(thrusts[k]))
    BY DEF KeepsDirection
  <2>1. TypeOK /\ Converted /\ max_ratio \in Nat /\ j \in 1 .. Count /\ k \in 1 .. Count
    BY <1>1, DemandType DEF AInv, TypeOK
  <2>2. thrusts[j] \in Int /\ thrusts[k] \in Int
    BY <2>1
  <2>3. allocation_array[j] \in Speed(thrusts[j]) /\ allocation_array[k] \in Speed(thrusts[k])
    BY <2>1 DEF Converted
  <2> QED
    BY <2>1, <2>2, <2>3, FactorType, SpeedIsProportional, Proportion
<1> QED
  BY <1>1, Inductive, PTL
=============================================================================
