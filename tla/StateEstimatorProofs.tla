------------------------ MODULE StateEstimatorProofs ------------------------
(***************************************************************************)
(* Proofs about StateEstimator for every instance of its constants.        *)
(*                                                                         *)
(* None of the invariants is inductive alone.  IInv adds to them what the  *)
(* callbacks rely on: how far ahead of the last stamp time may have been   *)
(* integrated, that a buffered heading is a heading, that a filter whose   *)
(* attitude is NaN has a NaN position too, and that an infinite position   *)
(* is the one the frame was seeded with.                                   *)
(***************************************************************************)
EXTENDS StateEstimator, TLAPS

\* Buffering: an IMU2 message sets both flags of its source, and a buffered
\* orientation is one the vehicle had.
Buffered ==
  /\ imu2_initialized_ <=> init_imu2_ready_
  /\ init_imu2_ready_ => init_imu2_quat_ \in Headings

\* Time ahead of the last stamp was integrated only before a backward step; and
\* that stamp is the one of the message before, unless nothing is integrated yet,
\* nor published.
FusedBehind ==
  /\ pose # NoPose => imu2_initialized_ /\ last_time_imu2_sec_ = prev_stamp
  /\ last_time_imu2_sec_ # prev_stamp => \A t \in Stamp : fused[t] = 0
  /\ \A t \in Stamp : last_time_imu2_sec_ < t => fused[t] <= backsteps

\* NaN spreads from the position, never to it, and an infinity is the seed's.
OddFromPosition ==
  /\ ~kf.finite => kf.z = NaN
  /\ ~frame_initialized_ => odd_fused = {}
  /\ frame_initialized_ /\ kf.z \in Infinities => kf.z = init_depth_

IInv ==
  /\ TypeOK /\ Buffered /\ AnchoredWhenBothSeen /\ SilentBeforeAnchor
  /\ NoIntervalFusedTwice /\ FusedBehind
  /\ OddFromPosition /\ NonFiniteExactlyByDepth

-----------------------------------------------------------------------------
(* The filter operations.                                                  *)

\* A filter whose NaNs, if any, include the position.
SoundFilter(k) == k \in Filter /\ (~k.finite => k.z = NaN)

\* Readings are of four kinds.
LEMMA ReadingKinds ==
  /\ NaN \notin Depth /\ NaN \notin Infinities
  /\ \A r \in Infinities : r \notin Depth /\ r # NaN /\ r \notin Int
  /\ \A r \in Reading : r \notin Depth /\ r \notin Infinities => r = NaN
<1> QED BY KalmanAssumption DEF Reading, Depth, Infinities

\* Dead reckoning keeps the alignment, a position that is not finite, and the
\* finiteness of one that is.
LEMMA PredictSound ==
  ASSUME NEW k, SoundFilter(k), NEW dt \in Int, NEW r \in predict(k, dt)
  PROVE  /\ SoundFilter(r) /\ r.align = k.align
         /\ k.z \in Depth => r.z \in Depth
         /\ k.z \notin Depth => r.z = k.z
<1> USE ReadingKinds DEF SoundFilter, Filter, Reading
<1>1. CASE ~k.finite
  BY <1>1 DEF predict, Poisoned
<1>2. CASE k.finite /\ k.z \notin Depth
  BY <1>2 DEF predict
<1>3. CASE k.finite /\ k.z \in Depth
  BY <1>3 DEF predict, Moved
<1> QED BY <1>1, <1>2, <1>3

\* A finite DVL velocity likewise.
LEMMA DvlSound ==
  ASSUME NEW k, SoundFilter(k), NEW v, v # NaN, NEW r \in updateDVLVelocity(k, v)
  PROVE  /\ SoundFilter(r) /\ r.align = k.align
         /\ k.z \in Depth => r.z \in Depth
         /\ k.z \notin Depth => r.z = k.z
<1> USE ReadingKinds DEF SoundFilter, Filter, Reading
<1>1. CASE ~k.finite
  BY <1>1 DEF updateDVLVelocity, Poisoned
<1>2. CASE k.finite /\ k.z \notin Depth
  BY <1>2 DEF updateDVLVelocity
<1>3. CASE k.finite /\ k.z \in Depth
  BY <1>3 DEF updateDVLVelocity, Moved
<1> QED BY <1>1, <1>2, <1>3

\* A depth reading makes the position NaN exactly if it is NaN, or the position
\* is, or both are the same infinity; else it leaves the position alone or moves a
\* finite one by at most Gate.
LEMMA DepthSound ==
  ASSUME NEW k, SoundFilter(k), NEW d \in Reading, NEW r \in updateDepth(k, d)
  PROVE  /\ SoundFilter(r) /\ r.align = k.align
         /\ r.z = NaN <=> NaN \in {k.z, d} \/ (d = k.z /\ d \in Infinities)
         /\ r.z \notin {k.z, NaN} => /\ {k.z, r.z} \subseteq Depth
                                     /\ r.z - k.z <= Gate /\ k.z - r.z <= Gate
<1> USE ReadingKinds
<1>0. k \in Filter /\ k.z \in Reading
  BY DEF SoundFilter, Filter
<1>1. CASE NaN \in {k.z, d} \/ (d = k.z /\ d \in Infinities)
  <2>1. Residual(k, d) = NaN
    BY <1>1 DEF Residual
  <2>2. ~GateRejects(NaN) /\ NaN \notin Int
    BY KalmanAssumption DEF GateRejects, Above, Below, Infinities
  <2>3. r = Poisoned(k)
    BY <2>1, <2>2 DEF updateDepth
  <2>4. r.z = NaN /\ r.align = k.align /\ r \in Filter
    BY <1>0, <2>3 DEF Poisoned, Filter, Reading
  <2> QED BY <1>1, <2>4 DEF SoundFilter
<1>2. CASE NaN \notin {k.z, d} /\ k.z # d /\ (d \in Infinities \/ k.z \in Infinities)
  <2>1. Residual(k, d) \in Infinities
    BY <1>2, <1>0 DEF Residual, Infinities
  <2>2. GateRejects(Residual(k, d))
    BY <2>1 DEF GateRejects, Above, Below, Infinities
  <2>3. r = k
    BY <2>2 DEF updateDepth
  <2> QED BY <1>2, <2>3
<1>3. CASE k.z \in Depth /\ d \in Depth
  <2> DEFINE res == d - k.z
  <2>0. k.z \in Int /\ d \in Int /\ res \in Int /\ Gate \in Int
    BY <1>3, KalmanAssumption DEF Depth
  <2>1. Residual(k, d) = res
    BY <1>3 DEF Residual, Infinities
  <2>2. CASE GateRejects(res)
    BY <1>3, <2>1, <2>2 DEF updateDepth
  <2>3. CASE ~GateRejects(res)
    <3>1. res <= Gate /\ -Gate <= res
      BY <2>0, <2>3 DEF GateRejects, Above, Below
    <3>2. PICK w \in Between(k.z, d) : r = [k EXCEPT !.z = w]
      BY <2>0, <2>1, <2>3 DEF updateDepth
    <3>3. w \in Depth /\ w - k.z <= Gate /\ k.z - w <= Gate
      BY <1>3, <2>0, <3>1, <3>2, KalmanAssumption DEF Between, Depth
    <3>4. r.z = w /\ r.align = k.align /\ r.finite = k.finite /\ r \in Filter
      BY <1>0, <3>2, <3>3 DEF Filter, Reading
    <3> QED BY <1>3, <3>3, <3>4 DEF SoundFilter
  <2> QED BY <2>2, <2>3
<1> QED BY <1>0, <1>1, <1>2, <1>3

-----------------------------------------------------------------------------
(* The helpers of the callbacks.                                           *)

\* Whatever the buffers hold, the filter found after try_initialize is sound; if
\* this call anchored it, it sits at the buffered heading and depth.
LEMMA AnchoredSound ==
  ASSUME IInv, frame_initialized_' \in BOOLEAN, frame_initialized_ => frame_initialized_',
         init_depth_' \in Reading,
         frame_initialized_' => init_imu2_quat_' \in Headings
  PROVE  /\ SoundFilter(kf_anchored)
         /\ frame_initialized_' => kf_anchored.align \in Headings
         /\ frame_initialized_ => kf_anchored = kf
         /\ frame_initialized_' /\ ~frame_initialized_ =>
              kf_anchored.z = init_depth_' /\ kf_anchored.align = init_imu2_quat_'
<1> USE DEF IInv, TypeOK, OddFromPosition, SoundFilter, Filter
<1>1. CASE frame_initialized_' /\ ~frame_initialized_
  BY <1>1 DEF kf_anchored, reset
<1>2. CASE ~(frame_initialized_' /\ ~frame_initialized_)
  BY <1>2 DEF kf_anchored
<1> QED BY <1>1, <1>2

-----------------------------------------------------------------------------
(* IInv is inductive: one lemma per action.                                *)

LEMMA InitIInv == Init => IInv
<1> SUFFICES ASSUME Init PROVE IInv
  OBVIOUS
<1> USE KalmanAssumption, EstimatorAssumption DEF Init
<1>1. TypeOK
  <2>1. 0 \in Depth /\ 0 \in Stamp /\ 0 \in 0 .. MaxBack
    BY DEF Stamp
  <2>2. kf \in Filter
    BY <2>1 DEF Filter, Reading
  <2>3. /\ imu1_initialized_ \in BOOLEAN /\ imu2_initialized_ \in BOOLEAN
        /\ init_imu2_ready_ \in BOOLEAN /\ init_depth_ready_ \in BOOLEAN
        /\ frame_initialized_ \in BOOLEAN
        /\ running \in BOOLEAN
    OBVIOUS
  <2>4. /\ last_time_imu1_sec_ \in Stamp /\ last_time_imu2_sec_ \in Stamp
        /\ prev_stamp \in Stamp /\ backsteps \in 0 .. MaxBack
        /\ fused \in [Stamp -> Nat] /\ odd_fused \in SUBSET (Reading \ Depth)
    BY <2>1
  <2>5. /\ init_depth_ \in Reading /\ pose \in Reading \cup {NoPose}
        /\ init_imu2_quat_ \in Headings \cup {NoHeading}
    BY <2>1 DEF Reading
  <2>6. ~frame_initialized_
    OBVIOUS
  <2> QED BY <2>2, <2>3, <2>4, <2>5, <2>6 DEF TypeOK
<1>2. Buffered /\ AnchoredWhenBothSeen /\ SilentBeforeAnchor
  BY DEF Buffered, AnchoredWhenBothSeen, SilentBeforeAnchor
<1>3. NoIntervalFusedTwice /\ FusedBehind
  BY DEF NoIntervalFusedTwice, FusedBehind
<1>4. OddFromPosition /\ NonFiniteExactlyByDepth
  BY DEF OddFromPosition, NonFiniteExactlyByDepth
<1> QED BY <1>1, <1>2, <1>3, <1>4 DEF IInv

LEMMA Imu1Inductive == ASSUME IInv, Imu1Arrives PROVE IInv'
<1>1. PICK now \in Stamp : imu1_callback(now)
  BY DEF Imu1Arrives
<1> USE <1>1 DEF imu1_callback, imu2_vars, frame_vars, time_history, IInv
<1>2. TypeOK'
  BY DEF TypeOK, Filter, Reading, Stamp
<1>3. SilentBeforeAnchor'
  BY DEF SilentBeforeAnchor, TypeOK
<1>4. Buffered' /\ AnchoredWhenBothSeen'
  BY DEF Buffered, AnchoredWhenBothSeen
<1>5. NoIntervalFusedTwice' /\ FusedBehind'
  BY DEF NoIntervalFusedTwice, FusedBehind
<1>6. OddFromPosition' /\ NonFiniteExactlyByDepth'
  BY DEF OddFromPosition, NonFiniteExactlyByDepth
<1> QED BY <1>2, <1>3, <1>4, <1>5, <1>6

LEMMA DvlInductive == ASSUME IInv, DvlArrives PROVE IInv'
<1>1. PICK v \in {0, NaN} : dvl_callback(v)
  BY DEF DvlArrives
<1>2. frame_initialized_ /\ v # NaN /\ kf' \in updateDVLVelocity(kf, v)
  BY <1>1 DEF dvl_callback, FusesDvl
<1>3. /\ SoundFilter(kf') /\ kf'.align = kf.align
      /\ kf.z \in Depth => kf'.z \in Depth
      /\ kf.z \notin Depth => kf'.z = kf.z
  <2>1. SoundFilter(kf)
    BY DEF IInv, TypeOK, OddFromPosition, SoundFilter
  <2> QED BY <1>2, <2>1, DvlSound
<1> USE <1>1, <1>2, <1>3
<1> USE DEF dvl_callback, imu1_vars, imu2_vars, frame_vars, time_history, IInv
<1>4. TypeOK'
  BY DEF TypeOK, SoundFilter, Filter, Reading, Stamp
<1>5. Buffered' /\ AnchoredWhenBothSeen' /\ SilentBeforeAnchor'
  BY DEF Buffered, AnchoredWhenBothSeen, SilentBeforeAnchor
<1>6. NoIntervalFusedTwice' /\ FusedBehind'
  BY DEF NoIntervalFusedTwice, FusedBehind
<1>7. OddFromPosition' /\ NonFiniteExactlyByDepth'
  BY ReadingKinds DEF OddFromPosition, NonFiniteExactlyByDepth, SoundFilter
<1> QED BY <1>4, <1>5, <1>6, <1>7

LEMMA DepthInductive == ASSUME IInv, DepthArrives PROVE IInv'
<1> USE KalmanAssumption, EstimatorAssumption
<1>1. PICK d \in Reading : depth_callback(d)
  BY DEF DepthArrives
<1>2. /\ init_depth_ready_' /\ frame_initialized_' \in BOOLEAN
      /\ init_depth_' \in Reading
      /\ UNCHANGED <<init_imu2_ready_, init_imu2_quat_>>
      /\ frame_initialized_' <=> init_imu2_ready_
      /\ frame_initialized_ => frame_initialized_' /\ init_depth_' = init_depth_
      /\ frame_initialized_' /\ ~frame_initialized_ => init_depth_' = d
  BY <1>1 DEF depth_callback, BufferDepth, try_initialize, Initializable, IInv,
              TypeOK, AnchoredWhenBothSeen
<1>3. frame_initialized_' => init_imu2_quat_' \in Headings
  BY <1>2 DEF IInv, Buffered
<1>4. /\ SoundFilter(kf_anchored)
      /\ frame_initialized_' => kf_anchored.align \in Headings
      /\ frame_initialized_ => kf_anchored = kf
      /\ frame_initialized_' /\ ~frame_initialized_ =>
           kf_anchored.z = init_depth_' /\ kf_anchored.align = init_imu2_quat_'
  BY <1>2, <1>3, AnchoredSound
<1>5. frame_initialized_' =>
        /\ SoundFilter(kf') /\ kf'.align = kf_anchored.align
        /\ kf'.z = NaN <=> \/ NaN \in {kf_anchored.z, d}
                           \/ d = kf_anchored.z /\ d \in Infinities
        /\ kf'.z \notin {kf_anchored.z, NaN} => {kf_anchored.z, kf'.z} \subseteq Depth
        /\ odd_fused' = odd_fused \cup ({d} \ Depth)
  BY <1>1, <1>4, DepthSound DEF depth_callback
<1>6. ~frame_initialized_' => UNCHANGED <<kf, odd_fused>>
  BY <1>1 DEF depth_callback
<1>7. UNCHANGED <<imu1_vars, imu2_vars, pose, running, time_history>>
  BY <1>1 DEF depth_callback
<1> USE <1>2, <1>7 DEF imu1_vars, imu2_vars, time_history, IInv
<1>8. TypeOK'
  <2>1. kf' \in Filter /\ (frame_initialized_' => kf'.align \in Headings)
    BY <1>4, <1>5, <1>6 DEF SoundFilter, TypeOK
  <2>2. odd_fused' \in SUBSET (Reading \ Depth)
    BY <1>5, <1>6 DEF TypeOK
  <2> QED BY <2>1, <2>2 DEF TypeOK, Stamp
<1>9. Buffered' /\ AnchoredWhenBothSeen'
  BY DEF Buffered, AnchoredWhenBothSeen
<1>10. SilentBeforeAnchor'
  BY <1>6 DEF SilentBeforeAnchor
<1>11. NoIntervalFusedTwice' /\ FusedBehind'
  BY DEF NoIntervalFusedTwice, FusedBehind
<1>12. OddFromPosition' /\ NonFiniteExactlyByDepth'
  <2>1. CASE ~frame_initialized_'
    BY <1>6, <2>1 DEF OddFromPosition, NonFiniteExactlyByDepth
  <2>2. CASE frame_initialized_ /\ frame_initialized_'
    BY <1>4, <1>5, <2>2, ReadingKinds
       DEF OddFromPosition, NonFiniteExactlyByDepth, SoundFilter
  <2>3. CASE ~frame_initialized_ /\ frame_initialized_'
    BY <1>4, <1>5, <2>3, ReadingKinds
       DEF OddFromPosition, NonFiniteExactlyByDepth, SoundFilter
  <2> QED BY <2>1, <2>2, <2>3
<1> QED BY <1>8, <1>9, <1>10, <1>11, <1>12

LEMMA Imu2Inductive == ASSUME IInv, Imu2Arrives PROVE IInv'
<1> USE KalmanAssumption, EstimatorAssumption
<1>1. PICK now \in Imu2Stamp, heading \in Headings : imu2_callback(now, heading)
  BY DEF Imu2Arrives
<1> DEFINE last == IF imu2_initialized_ THEN last_time_imu2_sec_ ELSE now
           dt == now - last
<1>2. /\ now \in Stamp /\ last \in Stamp /\ dt \in Int
      /\ imu2_initialized_ /\ now < prev_stamp => backsteps < MaxBack
  BY <1>1 DEF Imu2Stamp, IInv, TypeOK, Stamp
<1>3. /\ imu2_initialized_' /\ init_imu2_ready_' /\ frame_initialized_' \in BOOLEAN
      /\ UNCHANGED <<init_depth_ready_, init_depth_>>
      /\ init_imu2_quat_' \in Headings
      /\ frame_initialized_' <=> init_depth_ready_
      /\ frame_initialized_ => frame_initialized_'
  BY <1>1 DEF imu2_callback, BufferImu2, try_initialize, Initializable, IInv,
              TypeOK, Buffered, AnchoredWhenBothSeen
<1>4. init_depth_' \in Reading
  BY <1>3 DEF IInv, TypeOK
<1>5. /\ SoundFilter(kf_anchored)
      /\ frame_initialized_' => kf_anchored.align \in Headings
      /\ frame_initialized_ => kf_anchored = kf
      /\ frame_initialized_' /\ ~frame_initialized_ =>
           kf_anchored.z = init_depth_' /\ kf_anchored.align = init_imu2_quat_'
  BY <1>3, <1>4, AnchoredSound
<1>6. frame_initialized_' =>
        /\ last_time_imu2_sec_' = now
        /\ fused' = [t \in Stamp |->
                      IF Integrates(dt) /\ last < t /\ t <= now
                      THEN fused[t] + 1 ELSE fused[t]]
        /\ kf' \in IF Integrates(dt) THEN predict(kf_anchored, dt) ELSE {kf_anchored}
        /\ pose' = kf'.z
  BY <1>1 DEF imu2_callback, LastTime, Account
<1>7. frame_initialized_' =>
        /\ SoundFilter(kf') /\ kf'.align = kf_anchored.align
        /\ kf_anchored.z \in Depth => kf'.z \in Depth
        /\ kf_anchored.z \notin Depth => kf'.z = kf_anchored.z
  BY <1>2, <1>5, <1>6, PredictSound
<1>8. ~frame_initialized_' =>
        last_time_imu2_sec_' = last /\ UNCHANGED <<kf, pose, fused>>
  BY <1>1 DEF imu2_callback
<1>9. /\ prev_stamp' = now
      /\ backsteps' = IF imu2_initialized_ /\ now < prev_stamp
                      THEN backsteps + 1 ELSE backsteps
  BY <1>1 DEF imu2_callback, SeenStamp
<1>10. UNCHANGED <<imu1_vars, running, odd_fused>>
  BY <1>1 DEF imu2_callback
<1>11. Integrates(dt) => dt > 0
  BY <1>2 DEF Integrates
<1> HIDE DEF dt
<1> USE <1>3, <1>10 DEF imu1_vars, IInv
<1>12. TypeOK'
  <2>1. kf' \in Filter /\ (frame_initialized_' => kf'.align \in Headings)
    BY <1>5, <1>7, <1>8 DEF SoundFilter, TypeOK
  <2>2. pose' \in Reading \cup {NoPose}
    BY <1>6, <1>8, <2>1 DEF TypeOK, Filter
  <2>3. fused' \in [Stamp -> Nat]
    BY <1>6, <1>8 DEF TypeOK
  <2>4. /\ prev_stamp' \in Stamp
        /\ last_time_imu2_sec_' \in Stamp /\ backsteps' \in 0 .. MaxBack
    BY <1>2, <1>6, <1>8, <1>9 DEF TypeOK, Stamp
  <2> QED BY <2>1, <2>2, <2>3, <2>4 DEF TypeOK
<1>13. Buffered' /\ AnchoredWhenBothSeen'
  BY DEF Buffered, AnchoredWhenBothSeen
<1>14. SilentBeforeAnchor'
  BY <1>8 DEF SilentBeforeAnchor
<1>15. NoIntervalFusedTwice' /\ FusedBehind'
  <2> DEFINE b == IF imu2_initialized_ /\ now < prev_stamp
                  THEN backsteps + 1 ELSE backsteps
  <2>0. /\ backsteps \in Int /\ backsteps' = b /\ prev_stamp' = now
        /\ fused \in [Stamp -> Nat] /\ prev_stamp \in Int /\ now \in Int /\ last \in Int
        /\ \A t \in Stamp : t \in Int /\ fused[t] \in Nat
    BY <1>2, <1>9 DEF TypeOK, Stamp
  <2>1. b \in Int /\ backsteps <= b
    BY <2>0
  <2>4. pose' # NoPose => imu2_initialized_' /\ last_time_imu2_sec_' = prev_stamp'
    BY <1>6, <1>9, <1>14 DEF SilentBeforeAnchor
  <2>2. CASE ~frame_initialized_'
    <3>1. fused' = fused /\ \A t \in Stamp : fused[t] = 0
      BY <1>3, <1>8, <2>2 DEF SilentBeforeAnchor, TypeOK
    <3>2. 0 <= backsteps
      BY DEF TypeOK
    <3> QED BY <2>0, <2>1, <2>4, <3>1, <3>2 DEF NoIntervalFusedTwice, FusedBehind
  <2>3. CASE frame_initialized_'
    <3>1. last_time_imu2_sec_' = now
      BY <1>6, <2>3
    <3>2. ASSUME NEW t \in Stamp
          PROVE  fused'[t] <= 1 + b /\ (now < t => fused'[t] <= b)
      <4>1. fused'[t] = IF Integrates(dt) /\ last < t /\ t <= now
                        THEN fused[t] + 1 ELSE fused[t]
        BY <1>6, <2>3
      <4>2. fused[t] <= 1 + backsteps /\ (last < t => fused[t] <= backsteps)
        <5>1. CASE imu2_initialized_
          BY <5>1 DEF NoIntervalFusedTwice, FusedBehind
        <5>2. CASE ~imu2_initialized_
          <6>1. fused[t] = 0 /\ 0 <= backsteps
            BY <5>2 DEF Buffered, AnchoredWhenBothSeen, SilentBeforeAnchor, TypeOK
          <6> QED BY <2>0, <6>1
        <5> QED BY <5>1, <5>2
      <4>3. CASE last < t
        BY <2>0, <2>1, <4>1, <4>2, <4>3
      <4>4. CASE t <= last /\ now < t
        <5>1. fused'[t] = fused[t] /\ imu2_initialized_ /\ last = last_time_imu2_sec_
          BY <2>0, <4>1, <4>4
        <5>2. CASE last = prev_stamp
          <6>1. b = backsteps + 1
            BY <2>0, <4>4, <5>1, <5>2
          <6> QED BY <2>0, <4>2, <5>1, <6>1
        <5>3. CASE last # prev_stamp
          <6>1. fused[t] = 0 /\ 0 <= backsteps
            BY <5>1, <5>3 DEF FusedBehind, TypeOK
          <6> QED BY <2>0, <2>1, <5>1, <6>1
        <5> QED BY <5>2, <5>3
      <4>5. CASE t <= last /\ t <= now
        BY <2>0, <2>1, <4>1, <4>2, <4>5
      <4> QED BY <2>0, <4>3, <4>4, <4>5
    <3> QED BY <2>0, <2>4, <3>1, <3>2 DEF NoIntervalFusedTwice, FusedBehind
  <2> QED BY <2>2, <2>3
<1>16. OddFromPosition' /\ NonFiniteExactlyByDepth'
  <2>1. CASE ~frame_initialized_'
    BY <1>8, <2>1 DEF OddFromPosition, NonFiniteExactlyByDepth
  <2>2. CASE frame_initialized_ /\ frame_initialized_'
    BY <1>5, <1>7, <2>2, ReadingKinds DEF OddFromPosition, NonFiniteExactlyByDepth, SoundFilter
  <2>3. CASE ~frame_initialized_ /\ frame_initialized_'
    BY <1>5, <1>7, <2>3, ReadingKinds DEF OddFromPosition, NonFiniteExactlyByDepth, SoundFilter
  <2> QED BY <2>1, <2>2, <2>3
<1> QED BY <1>12, <1>13, <1>14, <1>15, <1>16

LEMMA NextInductive == IInv /\ [Next]_vars => IInv'
<1> SUFFICES ASSUME IInv, [Next]_vars PROVE IInv'
  OBVIOUS
<1>1. CASE UNCHANGED vars
  BY <1>1 DEF vars, imu1_vars, imu2_vars, frame_vars, time_history,
       IInv, TypeOK, Buffered, AnchoredWhenBothSeen, SilentBeforeAnchor,
       NoIntervalFusedTwice, FusedBehind, OddFromPosition, NonFiniteExactlyByDepth,
       Filter, Reading, Stamp
<1> QED BY <1>1, Imu1Inductive, Imu2Inductive, DepthInductive, DvlInductive DEF Next

\* The strengthened invariant holds in every behaviour of the estimator.
THEOREM Inductive == Spec => []IInv
<1> QED BY InitIInv, NextInductive, PTL DEF Spec

-----------------------------------------------------------------------------
(* What the node guarantees.                                               *)

\* Type correctness; an anchored frame has a real heading.
THEOREM TypeCorrect == Spec => []TypeOK
<1>1. IInv => TypeOK
  BY DEF IInv
<1> QED BY <1>1, Inductive, PTL

\* The frame is anchored exactly when both sources have been heard
\* (try_initialize).
THEOREM AnchorCorrect == Spec => []AnchoredWhenBothSeen
<1>1. IInv => AnchoredWhenBothSeen
  BY DEF IInv
<1> QED BY <1>1, Inductive, PTL

\* Before that nothing is fused or published (the early returns).
THEOREM NothingBeforeAnchor == Spec => []SilentBeforeAnchor
<1>1. IInv => SilentBeforeAnchor
  BY DEF IInv
<1> QED BY <1>1, Inductive, PTL

\* No stretch of time is integrated twice for want of a backward step.
THEOREM NoIntervalTwice == Spec => []NoIntervalFusedTwice
<1>1. IInv => NoIntervalFusedTwice
  BY DEF IInv
<1> QED BY <1>1, Inductive, PTL

\* Only depths make the estimate NaN or infinite, and exactly the ones named.
THEOREM PoisonedOnlyByDepth == Spec => []NonFiniteExactlyByDepth
<1>1. IInv => NonFiniteExactlyByDepth
  BY DEF IInv
<1> QED BY <1>1, Inductive, PTL

-----------------------------------------------------------------------------
(* Steps: the anchor is written once, and the mission frame is implemented. *)

\* What one step does to the anchor and the pose.
AnchorStep ==
  /\ frame_initialized_ => /\ frame_initialized_'
                           /\ kf'.align = kf.align
                           /\ init_depth_' = init_depth_
  /\ ~frame_initialized_' => pose' = pose
  /\ pose' # pose => pose' \in Reading

LEMMA Imu2AnchorStep == ASSUME IInv, Imu2Arrives PROVE AnchorStep
<1>1. PICK now \in Imu2Stamp, heading \in Headings : imu2_callback(now, heading)
  BY DEF Imu2Arrives
<1>2. frame_initialized_ => frame_initialized_'
  BY <1>1 DEF imu2_callback, BufferImu2, try_initialize, IInv, TypeOK
<1>3. init_depth_' = init_depth_ /\ (~frame_initialized_' => pose' = pose)
  BY <1>1 DEF imu2_callback, BufferImu2
<1>4. IInv'
  BY Imu2Inductive
<1>5. frame_initialized_' => pose' = kf'.z
  BY <1>1 DEF imu2_callback
<1>6. frame_initialized_ => kf'.align = kf.align
  <2> SUFFICES ASSUME frame_initialized_ PROVE kf'.align = kf.align
    OBVIOUS
  <2> DEFINE last == IF imu2_initialized_ THEN last_time_imu2_sec_ ELSE now
             dt == now - last
  <2>1. kf_anchored = kf
    BY <1>2 DEF kf_anchored
  <2>2. SoundFilter(kf) /\ dt \in Int
    BY <1>1 DEF SoundFilter, IInv, TypeOK, OddFromPosition, Imu2Stamp, Stamp
  <2>3. kf' \in IF Integrates(dt) THEN predict(kf, dt) ELSE {kf}
    BY <1>1, <1>2, <2>1 DEF imu2_callback
  <2> QED BY <2>2, <2>3, PredictSound
<1> QED BY <1>2, <1>3, <1>4, <1>5, <1>6 DEF AnchorStep, IInv, TypeOK, Filter

LEMMA DepthAnchorStep == ASSUME IInv, DepthArrives PROVE AnchorStep
<1>1. PICK d \in Reading : depth_callback(d)
  BY DEF DepthArrives
<1>2. frame_initialized_ => frame_initialized_' /\ init_depth_' = init_depth_
  BY <1>1 DEF depth_callback, BufferDepth, IInv, TypeOK, AnchoredWhenBothSeen
<1>3. pose' = pose
  BY <1>1 DEF depth_callback
<1>4. frame_initialized_ => kf'.align = kf.align
  <2> SUFFICES ASSUME frame_initialized_ PROVE kf'.align = kf.align
    OBVIOUS
  <2>1. kf' \in updateDepth(kf, d)
    BY <1>1, <1>2 DEF depth_callback, kf_anchored
  <2>2. SoundFilter(kf)
    BY DEF SoundFilter, IInv, TypeOK, OddFromPosition
  <2> QED BY <2>1, <2>2, DepthSound
<1> QED BY <1>2, <1>3, <1>4 DEF AnchorStep

LEMMA NextAnchorStep == ASSUME IInv, [Next]_vars PROVE AnchorStep
<1>1. CASE Imu1Arrives
  BY <1>1 DEF Imu1Arrives, imu1_callback, frame_vars, AnchorStep
<1>2. CASE DvlArrives
  <2>1. PICK v \in {0, NaN} : dvl_callback(v)
    BY <1>2 DEF DvlArrives
  <2>2. SoundFilter(kf)
    BY DEF SoundFilter, IInv, TypeOK, OddFromPosition
  <2>3. kf'.align = kf.align
    BY <2>1, <2>2, DvlSound DEF dvl_callback, FusesDvl
  <2> QED BY <2>1, <2>3 DEF dvl_callback, frame_vars, AnchorStep
<1>3. CASE UNCHANGED vars
  BY <1>3 DEF vars, frame_vars, AnchorStep
<1> QED BY <1>1, <1>2, <1>3, Imu2AnchorStep, DepthAnchorStep DEF Next

\* Once anchored the frame keeps its heading and its origin (the guards of
\* try_initialize and of the two buffers).
THEOREM AnchorFixed == Spec => AnchorNeverMoves
<1>1. IInv /\ [Next]_vars =>
        [frame_initialized_ => /\ frame_initialized_'
                               /\ kf'.align = kf.align
                               /\ init_depth_' = init_depth_]_vars
  BY NextAnchorStep DEF AnchorStep
<1> QED BY <1>1, Inductive, PTL DEF Spec, AnchorNeverMoves

\* A depth message leaves the estimate alone, poisons it, or moves a finite one by
\* at most Gate.
THEOREM DepthGated == Spec => DepthCannotTeleport
<1>1. IInv /\ [Next]_vars =>
        [DepthArrives /\ frame_initialized_ /\ kf'.z \notin {kf.z, NaN} =>
           /\ {kf.z, kf'.z} \subseteq Depth
           /\ kf'.z - kf.z <= Gate /\ kf.z - kf'.z <= Gate]_vars
  <2> SUFFICES ASSUME IInv, DepthArrives, frame_initialized_, kf'.z \notin {kf.z, NaN}
               PROVE  /\ {kf.z, kf'.z} \subseteq Depth
                      /\ kf'.z - kf.z <= Gate /\ kf.z - kf'.z <= Gate
    OBVIOUS
  <2>1. PICK d \in Reading : depth_callback(d)
    BY DEF DepthArrives
  <2>2. frame_initialized_'
    BY <2>1 DEF depth_callback, BufferDepth, IInv, TypeOK, AnchoredWhenBothSeen
  <2>3. kf' \in updateDepth(kf, d)
    BY <2>1, <2>2 DEF depth_callback, kf_anchored
  <2>4. SoundFilter(kf)
    BY DEF SoundFilter, IInv, TypeOK, OddFromPosition
  <2> QED BY <2>3, <2>4, DepthSound
<1> QED BY <1>1, Inductive, PTL DEF Spec, DepthCannotTeleport

\* Only the first message after the anchor integrates time before the message
\* before it (last_time_imu2_sec_ is not kept while the frame is missing).
THEOREM DtAfterTheFirst == Spec => DtIsBetweenMessages
<1>1. IInv /\ [Next]_vars =>
        [\A t \in Stamp : fused'[t] # fused[t] => prev_stamp < t \/ pose = NoPose]_vars
  <2> SUFFICES ASSUME IInv, Next, NEW t \in Stamp, fused'[t] # fused[t], pose # NoPose
               PROVE  prev_stamp < t
    OBVIOUS
  <2>1. Imu2Arrives
    BY DEF Next, Imu1Arrives, DepthArrives, DvlArrives, imu1_callback, depth_callback,
           dvl_callback, time_history
  <2>2. PICK now \in Imu2Stamp, heading \in Headings : imu2_callback(now, heading)
    BY <2>1 DEF Imu2Arrives
  <2>3. imu2_initialized_ /\ last_time_imu2_sec_ = prev_stamp
    BY DEF IInv, FusedBehind
  <2>4. fused' # fused
    OBVIOUS
  <2>5. Account(now, prev_stamp)
    BY <2>2, <2>3, <2>4 DEF imu2_callback
  <2> QED BY <2>5 DEF Account
<1> QED BY <1>1, Inductive, PTL DEF Spec, DtIsBetweenMessages

\* The node implements MissionFrame: a frame chosen once, poses only inside it.
THEOREM Refinement == Spec => ImplementsMissionFrame
<1>1. Init => Frame!Init
  BY DEF Init, Frame!Init
<1>2. IInv /\ [Next]_vars => [Frame!Next]_Frame!vars
  <2> SUFFICES ASSUME IInv, [Next]_vars PROVE [Frame!Next]_Frame!vars
    OBVIOUS
  <2>1. AnchorStep /\ IInv'
    BY NextAnchorStep, NextInductive
  <2>2. CASE frame_initialized_
    <3>1. \/ pose' = pose
          \/ pose' \in Reading
      BY <2>1 DEF AnchorStep
    <3>2. <<kf.align, init_depth_>> # NoHeading
      <4>1. <<kf.align, init_depth_>> \in Headings \X Reading
        BY <2>2 DEF IInv, TypeOK
      <4> QED BY <4>1, NoAnchorAssumption DEF Reading
    <3> QED BY <2>1, <2>2, <3>1, <3>2
            DEF AnchorStep, Frame!Next, Frame!Publish, Frame!vars
  <2>3. CASE ~frame_initialized_ /\ frame_initialized_'
    <3>1. <<kf.align, init_depth_>>' \in Headings \X Reading
      BY <2>1, <2>3 DEF IInv, TypeOK
    <3>2. pose' \in Reading \cup {NoPose}
      BY <2>1 DEF IInv, TypeOK
    <3> QED BY <2>3, <3>1, <3>2 DEF Frame!Next, Frame!Anchor
  <2>4. CASE ~frame_initialized_ /\ ~frame_initialized_'
    BY <2>1, <2>4 DEF AnchorStep, Frame!vars
  <2> QED BY <2>2, <2>3, <2>4
<1> QED BY <1>1, <1>2, Inductive, PTL DEF Spec, ImplementsMissionFrame, Frame!Spec
=============================================================================
