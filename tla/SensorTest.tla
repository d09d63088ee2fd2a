----------------------------- MODULE SensorTest -----------------------------
(***************************************************************************)
(* The pre-dive check: the sensor_test node (sensorTest.cpp) and the part  *)
(* of snappy_sensor_test.launch.py that reacts to its exit.  The node      *)
(* waits for one message of every sensor, at most timeout_sec_ long, and   *)
(* prints a verdict; when the process ends the launch is shut down.        *)
(*                                                                         *)
(* Which sensors publish is not known beforehand.  The executor is single  *)
(* threaded, so a callback runs to its end.  The subscription lambda ends  *)
(* without a return value for a sensor already seen (60-70); the build     *)
(* sets no optimisation, the value is unused, and nothing is done then.    *)
(***************************************************************************)
EXTENDS Sequences, Naturals

CONSTANT Sensors  \* the entries of the sensor list

ASSUME SensorsAssumption == Sensors # {}

VARIABLES
  alive,     \* sensors that publish
  received_, \* sensors of which a message has arrived
  armed,     \* the wall timer has been created and not cancelled
  ok,        \* rclcpp::ok()
  running,   \* the process has not exited
  launched,  \* the launch is up
  verdicts   \* what print_results has printed

vars == <<alive, received_, armed, ok, running, launched, verdicts>>

TypeOK ==
  /\ alive \subseteq Sensors /\ received_ \subseteq alive
  /\ armed \in BOOLEAN /\ ok \in BOOLEAN /\ running \in BOOLEAN /\ launched \in BOOLEAN
  /\ verdicts \in Seq({"ready", "failure"})

\* received_[s.name] = false for every sensor.  (X_Something is a plausible
\* mistake in X, used to test that the properties notice it.)
InitiallyReceived_Inverted == Sensors
InitiallyReceived == {}

Init ==
  /\ alive \in SUBSET Sensors /\ received_ = InitiallyReceived
  /\ armed = TRUE /\ ok = TRUE /\ running = TRUE
  /\ launched = TRUE
  /\ verdicts = <<>>

-----------------------------------------------------------------------------
(* The operations of the node.                                             *)

Verdict(received) == IF received = Sensors THEN "ready" ELSE "failure"
print_results(received) == verdicts' = Append(verdicts, Verdict(received))

\* check_if_done prints and returns; its rclcpp::shutdown() is never reached.
check_if_done_Running(received) ==
  IF received = Sensors THEN print_results(received) /\ UNCHANGED <<armed, ok>>
                        ELSE UNCHANGED <<armed, ok, verdicts>>
check_if_done_Shutdown(received) ==
  IF received = Sensors THEN print_results(received) /\ armed' = FALSE /\ ok' = FALSE
                        ELSE UNCHANGED <<armed, ok, verdicts>>
check_if_done(received) ==
  IF received = Sensors THEN print_results(received) /\ armed' = FALSE /\ UNCHANGED ok
                        ELSE UNCHANGED <<armed, ok, verdicts>>

\* The generic subscription's callback, for the first message of a sensor.
sensor_message(s) ==
  /\ ok /\ s \notin received_
  /\ received_' = received_ \cup {s}
  /\ check_if_done(received_')
  /\ UNCHANGED <<alive, running, launched>>

\* The timer's callback.
AfterTimeout_Waiting == ok
AfterTimeout == FALSE  \* rclcpp::shutdown()

timeout ==
  /\ ok /\ armed
  /\ armed' = FALSE
  /\ print_results(received_)
  /\ ok' = AfterTimeout
  /\ UNCHANGED <<alive, received_, running, launched>>

\* spin returns once the context is shut down, and so does main: with 0.
main_returns ==
  /\ running /\ ~ok
  /\ running' = FALSE
  /\ UNCHANGED <<alive, received_, armed, ok, launched, verdicts>>

\* The launch file's OnProcessExit handler, which does not look at the code.
on_sensor_test_exit ==
  /\ ~running /\ launched
  /\ launched' = FALSE
  /\ UNCHANGED <<alive, received_, armed, ok, running, verdicts>>

\* A message of a sensor that publishes is delivered.
MessageArrives(s) == s \in alive /\ sensor_message(s)

Next == (\E s \in Sensors : MessageArrives(s)) \/ timeout \/ main_returns \/ on_sensor_test_exit

(* The wall timer fires, spin and main return, the launch hears of the     *)
(* exit.  Messages are given no fairness: best-effort delivery.            *)
Fairness == WF_vars(timeout) /\ WF_vars(main_returns) /\ WF_vars(on_sensor_test_exit)

Spec == Init /\ [][Next]_vars /\ Fairness

-----------------------------------------------------------------------------
(* Properties.                                                             *)

\* The operator reads one verdict at most, and it stays true: after "do not
\* operate the submarine" no late message completes the set, and after "ready
\* to dive" the timer does not report again.
OneHonestVerdict ==
  /\ Len(verdicts) <= 1
  /\ verdicts = <<"ready">> <=> received_ = Sensors

\* snappy_sensor_test.launch.py:110: "Only shut down the launch if sensorTest
\* returned non-zero (failure)".  The drivers started by the launch are not
\* stopped under a vehicle whose sensors all work.  It holds although main always
\* returns 0 and the handler does not look at the code, because a passed test
\* never ends its process.
WorkingSensorsStayUp == received_ = Sensors => launched

\* A vehicle with a dead sensor does get its verdict, and its launch stopped.
DeadSensorStopsLaunch == (alive # Sensors) ~> (verdicts = <<"failure">> /\ ~launched)
=============================================================================
