-------------------------- MODULE MotorboardProofs --------------------------
(***************************************************************************)
(* Proofs about Motorboard, for all int8_t speeds.  The invariant says of  *)
(* the command on its way that it is the one last asked for, and of every  *)
(* group of thrusters that the board runs it as the last movement that has *)
(* reached it would have it.                                               *)
(*                                                                         *)
(* A movement speaks of eight thrusters, a mask of one of three groups:    *)
(* the lemmas reduce both to a thruster and the only group that drives it. *)
(***************************************************************************)
EXTENDS Motorboard, TLAPS

\* The command on its way is what was asked for.
CommandIsAsked ==
  msg # NoCommand =>
    /\ asked \in Call
    /\ msg = [thruster_mask |-> Movement[asked.movement].mask,
              thrust_pct |-> speedArr(asked.movement, asked.speed)]

\* A group has been told only movements of its own, and stops.
ObeysItsOwn ==
  \A g \in Groups : obeyed[g].movement = "stop" \/ Movement[obeyed[g].movement].mask = g

\* The board runs a thruster as the last movement that reached its group drives it.
RunsAsObeyed ==
  \A g \in Groups : \A i \in g : running[i] = speedArr(obeyed[g].movement, obeyed[g].speed)[i]

MInv == TypeOK /\ CommandIsAsked /\ ObeysItsOwn /\ RunsAsObeyed

-----------------------------------------------------------------------------
(* The constants.                                                          *)

\* Every thruster is in exactly one group.
LEMMA GroupsPartition ==
  /\ VERTICAL = {1, 3, 5, 7} /\ FORWARD = {2, 6} /\ LATERAL = {0, 4}
  /\ Thruster = VERTICAL \cup FORWARD \cup LATERAL
  /\ \A g, h \in Groups : g # h => g \cap h = {}
  /\ \A g \in Groups : g \subseteq Thruster
BY DEF VERTICAL, FORWARD, LATERAL, Thruster, Groups, FRONT_LEFT, FRONT_RIGHT, BACK_RIGHT,
       BACK_LEFT, FRONT_YAW, BACK_YAW, FORWARD_RIGHT, FORWARD_LEFT

LEMMA MovementNames ==
  Movements = {"forward", "backward", "down", "up", "right", "left", "yaw_cw", "yaw_ccw",
               "roll_left", "roll_right", "pitch_up", "pitch_down", "stop"}
BY DEF Movements, Movement

\* A movement drives thrusters of its mask only, and its mask is a group; a stop
\* names all thrusters and drives none.
LEMMA MaskNamesWhatItDrives ==
  ASSUME NEW m \in Movements
  PROVE  /\ m = "stop" => /\ Movement[m].mask = Thruster
                          /\ Movement[m].plus = {} /\ Movement[m].minus = {}
         /\ m # "stop" => Movement[m].mask \in Groups
         /\ Movement[m].mask \subseteq Thruster
         /\ Movement[m].plus \subseteq Movement[m].mask
         /\ Movement[m].minus \subseteq Movement[m].mask
<1>1. ALL = Thruster /\ Groups = {VERTICAL, FORWARD, LATERAL}
  BY DEF ALL, Groups
<1>2. CASE m \in {"forward", "backward"}
  <2>1. /\ Movement[m].mask = FORWARD /\ m # "stop"
        /\ Movement[m].plus \subseteq {2, 6} /\ Movement[m].minus \subseteq {2, 6}
    BY <1>2 DEF Movement
  <2> QED BY <1>1, <2>1, GroupsPartition
<1>3. CASE m \in {"right", "left", "yaw_cw", "yaw_ccw"}
  <2>1. /\ Movement[m].mask = LATERAL /\ m # "stop"
        /\ Movement[m].plus \subseteq {0, 4} /\ Movement[m].minus \subseteq {0, 4}
    BY <1>3 DEF Movement
  <2> QED BY <1>1, <2>1, GroupsPartition
<1>4. CASE m \in {"down", "up", "roll_left", "roll_right", "pitch_up", "pitch_down"}
  <2>1. /\ Movement[m].mask = VERTICAL /\ m # "stop"
        /\ Movement[m].plus \subseteq {1, 3, 5, 7} /\ Movement[m].minus \subseteq {1, 3, 5, 7}
    BY <1>4 DEF Movement
  <2> QED BY <1>1, <2>1, GroupsPartition
<1>5. CASE m = "stop"
  BY <1>1, <1>5 DEF Movement
<1> QED
  BY <1>2, <1>3, <1>4, <1>5, MovementNames

\* The casts.
LEMMA Int8Fact ==
  ASSUME NEW n \in -128 .. 127
  PROVE  /\ Negated(n) \in -128 .. 127
         /\ n # -128 => Negated(n) = -n
         /\ Negated(n) = 0 <=> n = 0
BY DEF Negated, Int8

LEMMA SpeedArrType ==
  ASSUME NEW m \in Movements, NEW speed \in -128 .. 127
  PROVE  /\ speedArr(m, speed) \in [Thruster -> -128 .. 127]
         /\ \A i \in Thruster : m = "stop" \/ i \notin Movement[m].mask =>
                                  speedArr(m, speed)[i] = 0
<1>1. ASSUME NEW i \in Thruster
      PROVE  speedArr(m, speed)[i] = IF i \in Movement[m].plus THEN speed
                                     ELSE IF i \in Movement[m].minus THEN Negated(speed) ELSE 0
  BY DEF speedArr
<1>2. Negated(speed) \in -128 .. 127 /\ 0 \in -128 .. 127
  BY Int8Fact
<1>3. ASSUME NEW i \in Thruster PROVE speedArr(m, speed)[i] \in -128 .. 127
  BY <1>1, <1>2
<1>4. speedArr(m, speed) \in [Thruster -> -128 .. 127]
  BY <1>3 DEF speedArr
<1>5. ASSUME NEW i \in Thruster, m = "stop" \/ i \notin Movement[m].mask
      PROVE  speedArr(m, speed)[i] = 0
  <2>1. i \notin Movement[m].plus /\ i \notin Movement[m].minus
    BY <1>5, MaskNamesWhatItDrives
  <2> QED
    BY <1>1, <2>1
<1> QED
  BY <1>4, <1>5

LEMMA CallType ==
  ASSUME NEW call \in Call \cup {Standstill}
  PROVE  call.movement \in Movements /\ call.speed \in -128 .. 127
<1>1. "stop" \in Movements
  BY MovementNames
<1>2. CASE call \in Call
  BY <1>2, MotorboardAssumption DEF Call
<1>3. CASE call = Standstill
  BY <1>1, <1>3 DEF Standstill
<1> QED
  BY <1>2, <1>3

LEMMA StandstillDrivesNothing ==
  \A i \in Thruster : speedArr(Standstill.movement, Standstill.speed)[i] = 0
<1>1. "stop" \in Movements /\ 0 \in -128 .. 127
  BY MovementNames
<1>2. \A i \in Thruster : speedArr("stop", 0)[i] = 0
  BY <1>1, SpeedArrType
<1> QED
  BY <1>2 DEF Standstill

-----------------------------------------------------------------------------
(* The invariant.                                                          *)

LEMMA InitInv == Init => MInv
<1> SUFFICES ASSUME Init PROVE MInv
  OBVIOUS
<1>1. TypeOK
  BY DEF Init, TypeOK
<1>2. CommandIsAsked
  BY DEF Init, CommandIsAsked
<1>3. ObeysItsOwn
  BY DEF Init, ObeysItsOwn, Standstill
<1>4. RunsAsObeyed
  <2> SUFFICES ASSUME NEW g \in Groups, NEW i \in g
               PROVE  running[i] = speedArr(obeyed[g].movement, obeyed[g].speed)[i]
    BY DEF RunsAsObeyed
  <2>1. i \in Thruster
    BY GroupsPartition
  <2>2. running[i] = 0 /\ obeyed[g] = Standstill
    BY <2>1 DEF Init
  <2> QED
    BY <2>1, <2>2, StandstillDrivesNothing
<1> QED
  BY <1>1, <1>2, <1>3, <1>4 DEF MInv

LEMMA MoveInv ==
  ASSUME MInv, NEW m \in Movements, NEW speed \in Speeds, move(m, speed)
  PROVE  MInv'
<1>1. /\ msg' = [thruster_mask |-> Movement[m].mask, thrust_pct |-> speedArr(m, speed)]
      /\ asked' = [movement |-> m, speed |-> speed]
      /\ UNCHANGED <<running, obeyed>>
  BY DEF move, sendCmd
<1>2. asked' \in Call
  BY <1>1 DEF Call
<1>3. TypeOK'
  <2>1. msg' \in ThrusterCommand
    BY <1>1, MotorboardAssumption, SpeedArrType, MaskNamesWhatItDrives DEF ThrusterCommand
  <2> QED
    BY <1>1, <1>2, <2>1 DEF MInv, TypeOK
<1>4. CommandIsAsked'
  BY <1>1, <1>2 DEF CommandIsAsked
<1>5. ObeysItsOwn' /\ RunsAsObeyed'
  BY <1>1 DEF MInv, ObeysItsOwn, RunsAsObeyed
<1> QED
  BY <1>3, <1>4, <1>5 DEF MInv

LEMMA LoseInv == ASSUME MInv, Lose PROVE MInv'
BY DEF MInv, Lose, TypeOK, CommandIsAsked, ObeysItsOwn, RunsAsObeyed

\* The heart of the proof: the delivered array replaces exactly the groups that the
\* history says it does.
LEMMA DeliverInv == ASSUME MInv, Deliver PROVE MInv'
<1> DEFINE m == asked.movement
           Told(g) == g = Movement[m].mask \/ m = "stop"
<1>1. /\ msg # NoCommand /\ msg' = NoCommand /\ asked' = asked
      /\ running' = [i \in Thruster |-> IF i \in msg.thruster_mask THEN msg.thrust_pct[i]
                                        ELSE running[i]]
      /\ obeyed' = [g \in Groups |-> IF Told(g) THEN asked ELSE obeyed[g]]
  BY DEF Deliver
<1>2. /\ TypeOK /\ asked \in Call
      /\ msg.thruster_mask = Movement[m].mask
      /\ msg.thrust_pct = speedArr(m, asked.speed)
  BY <1>1 DEF MInv, CommandIsAsked
<1>3. m \in Movements /\ asked.speed \in -128 .. 127
  BY <1>2, CallType
<1> HIDE DEF m
<1>4. TypeOK'
  <2>1. speedArr(m, asked.speed) \in [Thruster -> -128 .. 127] /\ running \in [Thruster -> -128 .. 127]
    BY <1>2, <1>3, SpeedArrType DEF TypeOK
  <2>2. running' \in [Thruster -> -128 .. 127]
    BY <1>1, <1>2, <2>1
  <2>3. obeyed' \in [Groups -> Call \cup {Standstill}]
    BY <1>1, <1>2 DEF TypeOK
  <2> QED
    BY <1>1, <1>2, <2>2, <2>3 DEF TypeOK
<1>5. CommandIsAsked'
  BY <1>1 DEF CommandIsAsked
<1>6. ObeysItsOwn'
  BY <1>1 DEF ObeysItsOwn, MInv, m
<1>7. RunsAsObeyed'
  <2> SUFFICES ASSUME NEW g \in Groups, NEW i \in g
               PROVE  running'[i] = speedArr(obeyed'[g].movement, obeyed'[g].speed)[i]
    BY DEF RunsAsObeyed
  <2>1. i \in Thruster
    BY GroupsPartition
  <2>2. CASE Told(g)
    <3>1. obeyed'[g] = asked
      BY <1>1, <2>2
    <3>2. i \in Movement[m].mask
      BY <1>3, <2>1, <2>2, MaskNamesWhatItDrives
    <3> QED
      BY <1>1, <1>2, <2>1, <3>1, <3>2 DEF m
  <2>3. CASE ~Told(g)
    <3>1. obeyed'[g] = obeyed[g]
      BY <1>1, <2>3
    <3>2. i \notin Movement[m].mask
      BY <1>3, <2>3, MaskNamesWhatItDrives, GroupsPartition
    <3>3. running'[i] = running[i]
      BY <1>1, <1>2, <2>1, <3>2
    <3> QED
      BY <3>1, <3>3 DEF MInv, RunsAsObeyed
  <2> QED
    BY <2>2, <2>3
<1> QED
  BY <1>4, <1>5, <1>6, <1>7 DEF MInv

LEMMA NextInv == ASSUME MInv, [Next]_vars PROVE MInv'
<1>1. ASSUME NEW m \in Movements, NEW speed \in Speeds, move(m, speed) PROVE MInv'
  BY <1>1, MoveInv
<1>2. CASE UNCHANGED vars
  BY <1>2 DEF vars, MInv, TypeOK, CommandIsAsked, ObeysItsOwn, RunsAsObeyed
<1> QED
  BY <1>1, <1>2, DeliverInv, LoseInv DEF Next

\* The board runs every group as the history says.
THEOREM Inductive == Spec => []MInv
BY InitInv, NextInv, PTL DEF Spec

\* Type correctness: every speed, negated ones included, fits its int8_t.
THEOREM TypeCorrect == Spec => []TypeOK
<1>1. MInv => TypeOK
  BY DEF MInv
<1> QED
  BY <1>1, Inductive, PTL

-----------------------------------------------------------------------------
(* The properties.                                                         *)

\* For all speeds and every order of deliveries and losses: the thrusters run as the
\* last movement delivered to each group, and nothing else turns.
THEOREM GroupsObeyTheirLast == Spec => []EachGroupObeysItsLast
<1>1. ASSUME MInv PROVE EachGroupObeysItsLast
  <2> DEFINE drives(g, i) == speedArr(obeyed[g].movement, obeyed[g].speed)[i]
  <2>1. ASSUME NEW g \in Groups, NEW i \in Thruster
        PROVE  /\ drives(g, i) \in Int
               /\ i \in g => drives(g, i) = running[i]
               /\ i \notin g => drives(g, i) = 0
    <3>1. /\ obeyed[g] \in Call \cup {Standstill}
          /\ obeyed[g].movement = "stop" \/ Movement[obeyed[g].movement].mask = g
          /\ i \in g => running[i] = drives(g, i)
      BY <1>1 DEF MInv, TypeOK, ObeysItsOwn, RunsAsObeyed
    <3>2. obeyed[g].movement \in Movements /\ obeyed[g].speed \in -128 .. 127
      BY <3>1, CallType
    <3>3. drives(g, i) \in -128 .. 127
      BY <3>2, SpeedArrType
    <3>4. i \notin g => drives(g, i) = 0
      BY <3>1, <3>2, SpeedArrType
    <3> QED
      BY <3>1, <3>3, <3>4
  <2> HIDE DEF drives
  <2>2. ASSUME NEW i \in Thruster
        PROVE  running[i] = drives(VERTICAL, i) + drives(FORWARD, i) + drives(LATERAL, i)
    <3>1. /\ VERTICAL \in Groups /\ FORWARD \in Groups /\ LATERAL \in Groups
      BY DEF Groups
    <3>2. \/ i \in VERTICAL /\ i \notin FORWARD /\ i \notin LATERAL
          \/ i \notin VERTICAL /\ i \in FORWARD /\ i \notin LATERAL
          \/ i \notin VERTICAL /\ i \notin FORWARD /\ i \in LATERAL
      BY GroupsPartition
    <3>3. /\ drives(VERTICAL, i) \in Int /\ drives(FORWARD, i) \in Int /\ drives(LATERAL, i) \in Int
          /\ i \notin VERTICAL => drives(VERTICAL, i) = 0
          /\ i \notin FORWARD => drives(FORWARD, i) = 0
          /\ i \notin LATERAL => drives(LATERAL, i) = 0
      BY <2>1, <3>1
    <3>4. /\ i \in VERTICAL => drives(VERTICAL, i) = running[i]
          /\ i \in FORWARD => drives(FORWARD, i) = running[i]
          /\ i \in LATERAL => drives(LATERAL, i) = running[i]
      BY <2>1, <3>1
    <3> DEFINE v == drives(VERTICAL, i)  f == drives(FORWARD, i)  l == drives(LATERAL, i)
    <3>5. v + f + l = running[i]
      <4>1. /\ v \in Int /\ f \in Int /\ l \in Int
            /\ \/ v = running[i] /\ f = 0 /\ l = 0
               \/ v = 0 /\ f = running[i] /\ l = 0
               \/ v = 0 /\ f = 0 /\ l = running[i]
        BY <3>2, <3>3, <3>4
      <4> HIDE DEF v, f, l
      <4> QED
        BY <4>1
    <3> QED
      BY <3>5
  <2>3. running = [i \in Thruster |-> running[i]]
    BY <1>1 DEF MInv, TypeOK
  <2> QED
    BY <2>2, <2>3 DEF EachGroupObeysItsLast, drives
<1> QED
  BY <1>1, Inductive, PTL

LEMMA RowSums ==
  \A a, b, c, d, e, f, g, h \in Int :
    /\ 0*a + 0*b + 10000*c + 0*d + 0*e + 0*f + 10000*g + 0*h = 10000*c + 10000*g
    /\ -10000*a + 0*b + 0*c + 0*d + 10000*e + 0*f + 0*g + 0*h = 10000*e - 10000*a
    /\ 0*a + 10000*b + 0*c + 10000*d + 0*e + 10000*f + 0*g + 10000*h
         = 10000*b + 10000*d + 10000*f + 10000*h
    /\ 1302*a + 1654*b + 0*c + 1654*d + -1302*e + -1648*f + 0*g + -1648*h
         = 1302*a + 1654*b + 1654*d - 1302*e - 1648*f - 1648*h
    /\ -3142*a + 0*b + -2739*c + 0*d + -3022*e + 0*f + 2734*g + 0*h
         = 2734*g - 3142*a - 2739*c - 3022*e
OBVIOUS

\* The configuration matrix, written out for any thrusts.
LEMMA MatrixRows ==
  ASSUME NEW T \in [Thruster -> Int]
  PROVE  /\ Along("Fx", T) = 10000 * T[2] + 10000 * T[6]
         /\ Along("Fy", T) = 10000 * T[4] - 10000 * T[0]
         /\ Along("Fz", T) = 10000 * T[1] + 10000 * T[3] + 10000 * T[5] + 10000 * T[7]
         /\ Along("Tx", T) = 1302 * T[0] + 1654 * T[1] + 1654 * T[3] - 1302 * T[4]
                               - 1648 * T[5] - 1648 * T[7]
         /\ Along("Tz", T) = 2734 * T[6] - 3142 * T[0] - 2739 * T[2] - 3022 * T[4]
<1>1. /\ T[0] \in Int /\ T[1] \in Int /\ T[2] \in Int /\ T[3] \in Int
      /\ T[4] \in Int /\ T[5] \in Int /\ T[6] \in Int /\ T[7] \in Int
  BY DEF Thruster
<1> DEFINE R(a, b, c, d, e, f, g, h) ==
             a * T[0] + b * T[1] + c * T[2] + d * T[3] + e * T[4] + f * T[5] + g * T[6] + h * T[7]
<1>2. ASSUME NEW a \in Int, NEW b \in Int, NEW c \in Int, NEW d \in Int,
             NEW e \in Int, NEW f \in Int, NEW g \in Int, NEW h \in Int,
             NEW axis \in Axes, configuration[axis] = Row(a, b, c, d, e, f, g, h)
      PROVE  Along(axis, T) = R(a, b, c, d, e, f, g, h)
  <2>1. /\ configuration[axis][0] = a /\ configuration[axis][1] = b
        /\ configuration[axis][2] = c /\ configuration[axis][3] = d
        /\ configuration[axis][4] = e /\ configuration[axis][5] = f
        /\ configuration[axis][6] = g /\ configuration[axis][7] = h
    BY <1>2 DEF Row, Thruster
  <2> QED
    BY <2>1 DEF Along
<1>3. /\ "Fx" \in Axes /\ configuration["Fx"] = Row(0, 0, 10000, 0, 0, 0, 10000, 0)
      /\ "Fy" \in Axes /\ configuration["Fy"] = Row(-10000, 0, 0, 0, 10000, 0, 0, 0)
      /\ "Fz" \in Axes /\ configuration["Fz"] = Row(0, 10000, 0, 10000, 0, 10000, 0, 10000)
      /\ "Tx" \in Axes /\ configuration["Tx"] = Row(1302, 1654, 0, 1654, -1302, -1648, 0, -1648)
      /\ "Tz" \in Axes /\ configuration["Tz"] = Row(-3142, 0, -2739, 0, -3022, 0, 2734, 0)
  BY DEF configuration, Axes
<1>4. /\ Along("Fx", T) = R(0, 0, 10000, 0, 0, 0, 10000, 0)
      /\ Along("Fy", T) = R(-10000, 0, 0, 0, 10000, 0, 0, 0)
      /\ Along("Fz", T) = R(0, 10000, 0, 10000, 0, 10000, 0, 10000)
      /\ Along("Tx", T) = R(1302, 1654, 0, 1654, -1302, -1648, 0, -1648)
      /\ Along("Tz", T) = R(-3142, 0, -2739, 0, -3022, 0, 2734, 0)
  <2> HIDE DEF R
  <2> QED
    BY <1>2, <1>3
<1> HIDE DEF R
<1>5. /\ R(0, 0, 10000, 0, 0, 0, 10000, 0) = 10000 * T[2] + 10000 * T[6]
      /\ R(-10000, 0, 0, 0, 10000, 0, 0, 0) = 10000 * T[4] - 10000 * T[0]
      /\ R(0, 10000, 0, 10000, 0, 10000, 0, 10000)
           = 10000 * T[1] + 10000 * T[3] + 10000 * T[5] + 10000 * T[7]
      /\ R(1302, 1654, 0, 1654, -1302, -1648, 0, -1648)
           = 1302 * T[0] + 1654 * T[1] + 1654 * T[3] - 1302 * T[4] - 1648 * T[5] - 1648 * T[7]
      /\ R(-3142, 0, -2739, 0, -3022, 0, 2734, 0)
           = 2734 * T[6] - 3142 * T[0] - 2739 * T[2] - 3022 * T[4]
  BY <1>1, RowSums DEF R
<1> QED
  BY <1>4, <1>5

\* What a movement makes of a speed: p for its plus thrusters, -p for the others.
LEMMA ArrayValues ==
  ASSUME NEW m \in Movements, NEW speed \in -127 .. 127
  PROVE  \A i \in Thruster :
           /\ i \in Movement[m].plus => speedArr(m, speed)[i] = speed
           /\ i \in Movement[m].minus /\ i \notin Movement[m].plus => speedArr(m, speed)[i] = -speed
           /\ i \notin Movement[m].plus \cup Movement[m].minus => speedArr(m, speed)[i] = 0
BY Int8Fact DEF speedArr

\* A positive multiple of the speed has its sign.
LEMMA SameSign ==
  ASSUME NEW speed \in Int, NEW k \in Nat \ {0}
  PROVE  (k * speed) * speed >= 0 /\ (k * speed # 0 <=> speed # 0)
<1>1. CASE speed > 0
  <2>1. k * speed > 0
    BY <1>1
  <2>2. ASSUME NEW p \in Int, p > 0 PROVE p * speed > 0
    BY <1>1, <2>2
  <2> QED
    BY <1>1, <2>1, <2>2
<1>2. CASE speed < 0
  <2>1. k * speed < 0
    BY <1>2
  <2>2. ASSUME NEW p \in Int, p < 0 PROVE p * speed > 0
    BY <1>2, <2>2
  <2> QED
    BY <1>2, <2>1, <2>2
<1>3. CASE speed = 0
  BY <1>3
<1> QED
  BY <1>1, <1>2, <1>3

\* For every speed that has a negative in an int8_t, each movement but the pitches has
\* the sign of the matrix and no force off its axis.
LEMMA PushesAsTheMatrix ==
  ASSUME NEW m \in Movements \ (Pitches \cup {"stop"}), NEW speed \in -127 .. 127
  PROVE  PushesRight(m, speed)
<1> DEFINE T == speedArr(m, speed)
<1>1. m \in Movements /\ m \notin Pitches /\ m # "stop" /\ speed \in Int /\ speed \in -128 .. 127
  OBVIOUS
<1>2. T \in [Thruster -> Int]
  <2>1. T \in [Thruster -> -128 .. 127]
    BY <1>1, SpeedArrType
  <2> QED BY <2>1
<1>3. \A i \in 0 .. 7 :
           /\ i \in Movement[m].plus => T[i] = speed
           /\ i \in Movement[m].minus /\ i \notin Movement[m].plus => T[i] = -speed
           /\ i \notin Movement[m].plus \cup Movement[m].minus => T[i] = 0
  BY <1>1, ArrayValues DEF Thruster
<1>4. \A axis \in Forces : axis \in {"Fx", "Fy", "Fz"}
  BY DEF Forces
<1>5. /\ Along("Fx", T) = 10000 * T[2] + 10000 * T[6]
      /\ Along("Fy", T) = 10000 * T[4] - 10000 * T[0]
      /\ Along("Fz", T) = 10000 * T[1] + 10000 * T[3] + 10000 * T[5] + 10000 * T[7]
      /\ Along("Tx", T) = 1302 * T[0] + 1654 * T[1] + 1654 * T[3] - 1302 * T[4]
                            - 1648 * T[5] - 1648 * T[7]
      /\ Along("Tz", T) = 2734 * T[6] - 3142 * T[0] - 2739 * T[2] - 3022 * T[4]
  BY <1>2, MatrixRows
<1> HIDE DEF T
<1>6. CASE m = "forward"
  <2>1. /\ Movement[m].plus = {2, 6} /\ Movement[m].minus = {}
        /\ Pushes[m][1] = "Fx" /\ Pushes[m][2] = 1
    BY <1>6 DEF Movement, Pushes
  <2>2. /\ T[0] = 0 /\ T[1] = 0 /\ T[2] = speed /\ T[3] = 0
        /\ T[4] = 0 /\ T[5] = 0 /\ T[6] = speed /\ T[7] = 0
    BY <1>3, <2>1
  <2>3. /\ Along("Fx", T) = 20000 * speed
        /\ Along("Fy", T) = 0 /\ Along("Fz", T) = 0
    BY <1>1, <1>5, <2>2
  <2>4. /\ Along("Fx", T) * 1 * speed >= 0
        /\ Along("Fx", T) # 0 <=> speed # 0
    BY <1>1, <2>3, SameSign
  <2>5. \A other \in Forces \ {"Fx"} : Along(other, T) = 0
    BY <1>4, <2>3
  <2> QED
    BY <2>1, <2>4, <2>5 DEF T, PushesRight
<1>7. CASE m = "backward"
  <2>1. /\ Movement[m].plus = {} /\ Movement[m].minus = {2, 6}
        /\ Pushes[m][1] = "Fx" /\ Pushes[m][2] = -1
    BY <1>7 DEF Movement, Pushes
  <2>2. /\ T[0] = 0 /\ T[1] = 0 /\ T[2] = -speed /\ T[3] = 0
        /\ T[4] = 0 /\ T[5] = 0 /\ T[6] = -speed /\ T[7] = 0
    BY <1>3, <2>1
  <2>3. /\ Along("Fx", T) = -(20000 * speed)
        /\ Along("Fy", T) = 0 /\ Along("Fz", T) = 0
    BY <1>1, <1>5, <2>2
  <2>4. /\ Along("Fx", T) * (-1) * speed >= 0
        /\ Along("Fx", T) # 0 <=> speed # 0
    BY <1>1, <2>3, SameSign
  <2>5. \A other \in Forces \ {"Fx"} : Along(other, T) = 0
    BY <1>4, <2>3
  <2> QED
    BY <2>1, <2>4, <2>5 DEF T, PushesRight
<1>8. CASE m = "right"
  <2>1. /\ Movement[m].plus = {4} /\ Movement[m].minus = {0}
        /\ Pushes[m][1] = "Fy" /\ Pushes[m][2] = 1
    BY <1>8 DEF Movement, Pushes
  <2>2. /\ T[0] = -speed /\ T[1] = 0 /\ T[2] = 0 /\ T[3] = 0
        /\ T[4] = speed /\ T[5] = 0 /\ T[6] = 0 /\ T[7] = 0
    BY <1>3, <2>1
  <2>3. /\ Along("Fy", T) = 20000 * speed
        /\ Along("Fx", T) = 0 /\ Along("Fz", T) = 0
    BY <1>1, <1>5, <2>2
  <2>4. /\ Along("Fy", T) * 1 * speed >= 0
        /\ Along("Fy", T) # 0 <=> speed # 0
    BY <1>1, <2>3, SameSign
  <2>5. \A other \in Forces \ {"Fy"} : Along(other, T) = 0
    BY <1>4, <2>3
  <2> QED
    BY <2>1, <2>4, <2>5 DEF T, PushesRight
<1>9. CASE m = "left"
  <2>1. /\ Movement[m].plus = {0} /\ Movement[m].minus = {4}
        /\ Pushes[m][1] = "Fy" /\ Pushes[m][2] = -1
    BY <1>9 DEF Movement, Pushes
  <2>2. /\ T[0] = speed /\ T[1] = 0 /\ T[2] = 0 /\ T[3] = 0
        /\ T[4] = -speed /\ T[5] = 0 /\ T[6] = 0 /\ T[7] = 0
    BY <1>3, <2>1
  <2>3. /\ Along("Fy", T) = -(20000 * speed)
        /\ Along("Fx", T) = 0 /\ Along("Fz", T) = 0
    BY <1>1, <1>5, <2>2
  <2>4. /\ Along("Fy", T) * (-1) * speed >= 0
        /\ Along("Fy", T) # 0 <=> speed # 0
    BY <1>1, <2>3, SameSign
  <2>5. \A other \in Forces \ {"Fy"} : Along(other, T) = 0
    BY <1>4, <2>3
  <2> QED
    BY <2>1, <2>4, <2>5 DEF T, PushesRight
<1>10. CASE m = "down"
  <2>1. /\ Movement[m].plus = {1, 3, 5, 7} /\ Movement[m].minus = {}
        /\ Pushes[m][1] = "Fz" /\ Pushes[m][2] = 1
    BY <1>10 DEF Movement, Pushes
  <2>2. /\ T[0] = 0 /\ T[1] = speed /\ T[2] = 0 /\ T[3] = speed
        /\ T[4] = 0 /\ T[5] = speed /\ T[6] = 0 /\ T[7] = speed
    BY <1>3, <2>1
  <2>3. /\ Along("Fz", T) = 40000 * speed
        /\ Along("Fx", T) = 0 /\ Along("Fy", T) = 0
    BY <1>1, <1>5, <2>2
  <2>4. /\ Along("Fz", T) * 1 * speed >= 0
        /\ Along("Fz", T) # 0 <=> speed # 0
    BY <1>1, <2>3, SameSign
  <2>5. \A other \in Forces \ {"Fz"} : Along(other, T) = 0
    BY <1>4, <2>3
  <2> QED
    BY <2>1, <2>4, <2>5 DEF T, PushesRight
<1>11. CASE m = "up"
  <2>1. /\ Movement[m].plus = {} /\ Movement[m].minus = {1, 3, 5, 7}
        /\ Pushes[m][1] = "Fz" /\ Pushes[m][2] = -1
    BY <1>11 DEF Movement, Pushes
  <2>2. /\ T[0] = 0 /\ T[1] = -speed /\ T[2] = 0 /\ T[3] = -speed
        /\ T[4] = 0 /\ T[5] = -speed /\ T[6] = 0 /\ T[7] = -speed
    BY <1>3, <2>1
  <2>3. /\ Along("Fz", T) = -(40000 * speed)
        /\ Along("Fx", T) = 0 /\ Along("Fy", T) = 0
    BY <1>1, <1>5, <2>2
  <2>4. /\ Along("Fz", T) * (-1) * speed >= 0
        /\ Along("Fz", T) # 0 <=> speed # 0
    BY <1>1, <2>3, SameSign
  <2>5. \A other \in Forces \ {"Fz"} : Along(other, T) = 0
    BY <1>4, <2>3
  <2> QED
    BY <2>1, <2>4, <2>5 DEF T, PushesRight
<1>12. CASE m = "yaw_cw"
  <2>1. /\ Movement[m].plus = {} /\ Movement[m].minus = {0, 4}
        /\ Pushes[m][1] = "Tz" /\ Pushes[m][2] = 1
    BY <1>12 DEF Movement, Pushes
  <2>2. /\ T[0] = -speed /\ T[1] = 0 /\ T[2] = 0 /\ T[3] = 0
        /\ T[4] = -speed /\ T[5] = 0 /\ T[6] = 0 /\ T[7] = 0
    BY <1>3, <2>1
  <2>3. /\ Along("Tz", T) = 6164 * speed
        /\ Along("Fx", T) = 0 /\ Along("Fy", T) = 0 /\ Along("Fz", T) = 0
    BY <1>1, <1>5, <2>2
  <2>4. /\ Along("Tz", T) * 1 * speed >= 0
        /\ Along("Tz", T) # 0 <=> speed # 0
    BY <1>1, <2>3, SameSign
  <2>5. \A other \in Forces \ {"Tz"} : Along(other, T) = 0
    BY <1>4, <2>3
  <2> QED
    BY <2>1, <2>4, <2>5 DEF T, PushesRight
<1>13. CASE m = "yaw_ccw"
  <2>1. /\ Movement[m].plus = {0, 4} /\ Movement[m].minus = {}
        /\ Pushes[m][1] = "Tz" /\ Pushes[m][2] = -1
    BY <1>13 DEF Movement, Pushes
  <2>2. /\ T[0] = speed /\ T[1] = 0 /\ T[2] = 0 /\ T[3] = 0
        /\ T[4] = speed /\ T[5] = 0 /\ T[6] = 0 /\ T[7] = 0
    BY <1>3, <2>1
  <2>3. /\ Along("Tz", T) = -(6164 * speed)
        /\ Along("Fx", T) = 0 /\ Along("Fy", T) = 0 /\ Along("Fz", T) = 0
    BY <1>1, <1>5, <2>2
  <2>4. /\ Along("Tz", T) * (-1) * speed >= 0
        /\ Along("Tz", T) # 0 <=> speed # 0
    BY <1>1, <2>3, SameSign
  <2>5. \A other \in Forces \ {"Tz"} : Along(other, T) = 0
    BY <1>4, <2>3
  <2> QED
    BY <2>1, <2>4, <2>5 DEF T, PushesRight
<1>14. CASE m = "roll_right"
  <2>1. /\ Movement[m].plus = {1, 3} /\ Movement[m].minus = {5, 7}
        /\ Pushes[m][1] = "Tx" /\ Pushes[m][2] = 1
    BY <1>14 DEF Movement, Pushes
  <2>2. /\ T[0] = 0 /\ T[1] = speed /\ T[2] = 0 /\ T[3] = speed
        /\ T[4] = 0 /\ T[5] = -speed /\ T[6] = 0 /\ T[7] = -speed
    BY <1>3, <2>1
  <2>3. /\ Along("Tx", T) = 6604 * speed
        /\ Along("Fx", T) = 0 /\ Along("Fy", T) = 0 /\ Along("Fz", T) = 0
    BY <1>1, <1>5, <2>2
  <2>4. /\ Along("Tx", T) * 1 * speed >= 0
        /\ Along("Tx", T) # 0 <=> speed # 0
    BY <1>1, <2>3, SameSign
  <2>5. \A other \in Forces \ {"Tx"} : Along(other, T) = 0
    BY <1>4, <2>3
  <2> QED
    BY <2>1, <2>4, <2>5 DEF T, PushesRight
<1>15. CASE m = "roll_left"
  <2>1. /\ Movement[m].plus = {5, 7} /\ Movement[m].minus = {1, 3}
        /\ Pushes[m][1] = "Tx" /\ Pushes[m][2] = -1
    BY <1>15 DEF Movement, Pushes
  <2>2. /\ T[0] = 0 /\ T[1] = -speed /\ T[2] = 0 /\ T[3] = -speed
        /\ T[4] = 0 /\ T[5] = speed /\ T[6] = 0 /\ T[7] = speed
    BY <1>3, <2>1
  <2>3. /\ Along("Tx", T) = -(6604 * speed)
        /\ Along("Fx", T) = 0 /\ Along("Fy", T) = 0 /\ Along("Fz", T) = 0
    BY <1>1, <1>5, <2>2
  <2>4. /\ Along("Tx", T) * (-1) * speed >= 0
        /\ Along("Tx", T) # 0 <=> speed # 0
    BY <1>1, <2>3, SameSign
  <2>5. \A other \in Forces \ {"Tx"} : Along(other, T) = 0
    BY <1>4, <2>3
  <2> QED
    BY <2>1, <2>4, <2>5 DEF T, PushesRight
<1> QED
  BY <1>1, <1>6, <1>7, <1>8, <1>9, <1>10, <1>11, <1>12, <1>13, <1>14, <1>15, MovementNames DEF Pitches

\* The hypothesis of the theorem below is needed: -(-128) is -128 again in an int8_t,
\* and a movement to the right at -128 pushes nowhere.
LEMMA NowhereAtMinus128 == ~PushesRight("right", -128)
<1> DEFINE T == speedArr("right", -128)
<1>1. "right" \in Movements /\ -128 \in -128 .. 127
  BY MovementNames
<1>2. T \in [Thruster -> Int]
  <2>1. T \in [Thruster -> -128 .. 127]
    BY <1>1, SpeedArrType
  <2> QED BY <2>1
<1>3. Negated(-128) = -128
  BY DEF Negated, Int8
<1>4. Movement["right"].plus = {4} /\ Movement["right"].minus = {0} /\ Pushes["right"][1] = "Fy"
  BY DEF Movement, Pushes
<1>5. T[4] = -128 /\ T[0] = -128
  BY <1>3, <1>4 DEF speedArr, Thruster
<1>6. Along("Fy", T) = 10000 * T[4] - 10000 * T[0]
  BY <1>2, MatrixRows
<1> HIDE DEF T
<1>7. Along("Fy", T) = 0
  BY <1>5, <1>6
<1> QED
  BY <1>4, <1>7 DEF T, PushesRight

\* The board's movements and the controller's matrix agree, whatever the speed asked
\* for, provided that its negative is an int8_t.
THEOREM MovementsAgree == -128 \notin Speeds => (Spec => []MovementsMatchMatrix)
<1> SUFFICES ASSUME -128 \notin Speeds PROVE Spec => []MovementsMatchMatrix
  OBVIOUS
<1>1. ASSUME MInv PROVE MovementsMatchMatrix
  <2> SUFFICES ASSUME msg # NoCommand, asked.movement \notin Pitches \cup {"stop"}
               PROVE  PushesRight(asked.movement, asked.speed)
    BY DEF MovementsMatchMatrix
  <2>1. asked \in Call
    BY <1>1 DEF MInv, CommandIsAsked
  <2>2. asked.movement \in Movements \ (Pitches \cup {"stop"})
    BY <2>1 DEF Call
  <2>3. asked.speed \in Speeds
    BY <2>1 DEF Call
  <2>4. asked.speed \in -127 .. 127
    <3>1. \A v \in Speeds : v \in -128 .. 127 /\ v # -128
      BY MotorboardAssumption
    <3>2. \A v \in -128 .. 127 : v # -128 => v \in -127 .. 127
      OBVIOUS
    <3> QED
      BY <2>3, <3>1, <3>2
  <2> QED
    BY <2>2, <2>4, PushesAsTheMatrix
<1> QED
  BY <1>1, Inductive, PTL
=============================================================================
