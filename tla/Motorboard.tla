----------------------------- MODULE Motorboard -----------------------------
(***************************************************************************)
(* Motor::Motorboard (motorboard.cpp): twelve movements and a stop, each   *)
(* published as a ThrusterCommand whose mask names the thrusters to        *)
(* update.  The topic is best effort: a command may be lost.  The STM32 at *)
(* the other end is external; as ThrusterCommand.msg has it, it keeps the  *)
(* speed of every thruster that the mask does not name.                    *)
(***************************************************************************)
EXTENDS Thrusters

CONSTANTS Speeds,    \* the int8_t speeds asked for
          NoCommand  \* no command on its way

ASSUME MotorboardAssumption == Speeds \subseteq -128 .. 127

\* static_cast<int8_t>
Int8_Unsigned(n) == n % 256
Int8(n) == ((n + 128) % 256) - 128

\* A movement: its mask, and the thrusters that get speed and -speed.
Movement ==
  [forward    |-> [mask |-> FORWARD, plus |-> {2, 6}, minus |-> {}],
   backward   |-> [mask |-> FORWARD, plus |-> {}, minus |-> {2, 6}],
   down       |-> [mask |-> VERTICAL, plus |-> {1, 3, 5, 7}, minus |-> {}],
   up         |-> [mask |-> VERTICAL, plus |-> {}, minus |-> {1, 3, 5, 7}],
   right      |-> [mask |-> LATERAL, plus |-> {4}, minus |-> {0}],
   left       |-> [mask |-> LATERAL, plus |-> {0}, minus |-> {4}],
   yaw_cw     |-> [mask |-> LATERAL, plus |-> {}, minus |-> {0, 4}],
   yaw_ccw    |-> [mask |-> LATERAL, plus |-> {0, 4}, minus |-> {}],
   roll_left  |-> [mask |-> VERTICAL, plus |-> {5, 7}, minus |-> {1, 3}],
   roll_right |-> [mask |-> VERTICAL, plus |-> {1, 3}, minus |-> {5, 7}],
   pitch_up   |-> [mask |-> VERTICAL, plus |-> {3, 5}, minus |-> {1, 7}],
   pitch_down |-> [mask |-> VERTICAL, plus |-> {1, 7}, minus |-> {3, 5}],
   stop       |-> [mask |-> ALL, plus |-> {}, minus |-> {}]]

Movements == DOMAIN Movement

Negated(speed) == Int8(-speed)

\* The array that a movement fills in.
speedArr_OneSign(m, speed) ==
  [i \in Thruster |-> IF i \in Movement[m].plus \cup Movement[m].minus THEN speed ELSE 0]
speedArr(m, speed) ==
  [i \in Thruster |-> IF i \in Movement[m].plus THEN speed
                      ELSE IF i \in Movement[m].minus THEN Negated(speed) ELSE 0]

ThrusterCommand == [thruster_mask : SUBSET Thruster, thrust_pct : [Thruster -> -128 .. 127]]

VARIABLES
  msg,     \* the command on its way
  running, \* the speeds at which the board runs the thrusters
  asked,   \* history: the movement and speed that msg came from
  obeyed   \* history: the last movement and speed delivered to each thruster group

vars == <<msg, running, asked, obeyed>>

Groups == {VERTICAL, FORWARD, LATERAL}
Call == [movement : Movements, speed : Speeds]
Standstill == [movement |-> "stop", speed |-> 0]

TypeOK ==
  /\ msg \in ThrusterCommand \cup {NoCommand}
  /\ running \in [Thruster -> -128 .. 127]
  /\ asked \in Call \cup {Standstill}
  /\ obeyed \in [Groups -> Call \cup {Standstill}]

Init ==
  /\ msg = NoCommand
  /\ running = [i \in Thruster |-> 0]
  /\ asked = Standstill /\ obeyed = [g \in Groups |-> Standstill]

sendCmd(mask, speeds) == msg' = [thruster_mask |-> mask, thrust_pct |-> speeds]

move(m, speed) ==
  /\ msg = NoCommand
  /\ sendCmd(Movement[m].mask, speedArr(m, speed))
  /\ asked' = [movement |-> m, speed |-> speed]
  /\ UNCHANGED <<running, obeyed>>

\* The board updates the thrusters named by the mask.
Deliver ==
  /\ msg # NoCommand
  /\ running' = [i \in Thruster |-> IF i \in msg.thruster_mask THEN msg.thrust_pct[i]
                                    ELSE running[i]]
  /\ obeyed' = [g \in Groups |->
                  IF g = Movement[asked.movement].mask \/ asked.movement = "stop"
                  THEN asked ELSE obeyed[g]]
  /\ msg' = NoCommand
  /\ UNCHANGED asked

\* Best effort.
Lose ==
  /\ msg # NoCommand
  /\ msg' = NoCommand
  /\ UNCHANGED <<running, asked, obeyed>>

Next == (\E m \in Movements, speed \in Speeds : move(m, speed)) \/ Deliver \/ Lose

Spec == Init /\ [][Next]_vars

-----------------------------------------------------------------------------
(* Properties.                                                             *)

\* The mask of a movement names the thrusters that its array drives: whatever
\* was delivered or lost before, the thrusters that the board runs are those of
\* the last movement delivered to each group, and nothing else still turns.
EachGroupObeysItsLast ==
  running = [i \in Thruster |->
               LET drives(g) == speedArr(obeyed[g].movement, obeyed[g].speed)[i]
               IN  drives(VERTICAL) + drives(FORWARD) + drives(LATERAL)]

\* The axis along which a movement pushes, and in which direction.
Pushes ==
  [forward |-> <<"Fx", 1>>, backward |-> <<"Fx", -1>>, right |-> <<"Fy", 1>>,
   left |-> <<"Fy", -1>>, down |-> <<"Fz", 1>>, up |-> <<"Fz", -1>>,
   yaw_cw |-> <<"Tz", 1>>, yaw_ccw |-> <<"Tz", -1>>,
   roll_right |-> <<"Tx", 1>>, roll_left |-> <<"Tx", -1>>,
   pitch_up |-> <<"Ty", 1>>, pitch_down |-> <<"Ty", -1>>]

\* By the controller's matrix, in the body frame of kalman.cpp:20 (x forward, y
\* right, z down), the command has the right sign and no force off its axis.
PushesRight(m, speed) ==
  LET thrust == speedArr(m, speed) IN
  /\ Along(Pushes[m][1], thrust) * Pushes[m][2] * speed >= 0
  /\ Along(Pushes[m][1], thrust) # 0 <=> speed # 0
  /\ \A axis \in Forces \ {Pushes[m][1]} : Along(axis, thrust) = 0

Pitches == {"pitch_up", "pitch_down"}

\* The board's movements and the controller's matrix agree on which way the
\* vehicle goes, for every movement but the two pitches.
MovementsMatchMatrix ==
  msg # NoCommand /\ asked.movement \notin Pitches \cup {"stop"} =>
    PushesRight(asked.movement, asked.speed)
=============================================================================
