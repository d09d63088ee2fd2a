-------------------------- MODULE SensorTestProofs --------------------------
(***************************************************************************)
(* Proofs about SensorTest, for every set of sensors.  The state of the    *)
(* test is one of three: waiting (the timer is armed), passed (all sensors *)
(* received, the context still valid) or failed (the context shut down),   *)
(* and only the last leads on to the exit and the end of the launch.       *)
(***************************************************************************)
EXTENDS SensorTest, TLAPS

Waiting == received_ # Sensors /\ armed /\ verdicts = <<>>
Passed == received_ = Sensors /\ ~armed /\ ok /\ verdicts = <<"ready">>
Failed == received_ # Sensors /\ ~armed /\ ~ok /\ verdicts = <<"failure">>

TInv ==
  /\ TypeOK
  /\ Waiting \/ Passed \/ Failed
  /\ Waiting => ok
  /\ ok => running
  /\ running => launched

\* Printing the first verdict.
LEMMA FirstVerdict ==
  ASSUME verdicts = <<>>, NEW received, print_results(received)
  PROVE  verdicts' = <<Verdict(received)>>
BY DEF print_results

LEMMA VerdictType == \A received : Verdict(received) \in {"ready", "failure"}
BY DEF Verdict

\* A one-verdict list has the type of verdicts.
LEMMA VerdictSeq == \A v \in {"ready", "failure"} :
                      <<v>> \in Seq({"ready", "failure"}) /\ Len(<<v>>) = 1
OBVIOUS

LEMMA InitInv == Init => TInv
<1> SUFFICES ASSUME Init PROVE TInv
  OBVIOUS
<1>1. /\ alive \subseteq Sensors /\ received_ = {} /\ armed = TRUE /\ ok = TRUE
      /\ running = TRUE /\ launched = TRUE /\ verdicts = <<>>
  BY DEF Init, InitiallyReceived
<1>2. armed \in BOOLEAN /\ ok \in BOOLEAN /\ running \in BOOLEAN /\ launched \in BOOLEAN
  BY <1>1
<1>3. TypeOK
  BY <1>1, <1>2 DEF TypeOK
<1> QED
  BY <1>1, <1>3, SensorsAssumption DEF TInv, Waiting

\* The first message of a sensor keeps the test waiting, or passes it.
LEMMA MessageInv ==
  ASSUME TInv, NEW s \in Sensors, MessageArrives(s)
  PROVE  TInv'
<1>1. /\ s \in alive /\ ok /\ s \notin received_ /\ received_' = received_ \cup {s}
      /\ UNCHANGED <<alive, running, launched>>
      /\ check_if_done(received_')
  BY DEF MessageArrives, sensor_message
<1>2. Waiting
  BY <1>1 DEF TInv, Passed, Failed
<1>3. received_' \subseteq alive' /\ alive' \subseteq Sensors
  BY <1>1 DEF TInv, TypeOK
<1>4. CASE received_' = Sensors
  <2>1. print_results(received_') /\ armed' = FALSE /\ ok' = ok
    BY <1>1, <1>4 DEF check_if_done
  <2>2. verdicts' = <<"ready">>
    BY <1>2, <1>4, <2>1, FirstVerdict DEF Waiting, Verdict
  <2>3. verdicts' \in Seq({"ready", "failure"})
    BY <2>2, VerdictSeq
  <2>4. armed' \in BOOLEAN
    BY <2>1
  <2>5. TypeOK'
    BY <1>1, <1>3, <2>1, <2>3, <2>4 DEF TInv, TypeOK
  <2>6. Passed'
    BY <1>1, <1>4, <2>1, <2>2 DEF Passed
  <2> QED
    BY <1>1, <2>1, <2>5, <2>6 DEF TInv, Passed, Waiting
<1>5. CASE received_' # Sensors
  <2>1. UNCHANGED <<armed, ok, verdicts>>
    BY <1>1, <1>5 DEF check_if_done
  <2>2. TypeOK'
    BY <1>1, <1>3, <2>1 DEF TInv, TypeOK
  <2> QED
    BY <1>1, <1>2, <1>5, <2>1, <2>2 DEF TInv, Waiting
<1> QED
  BY <1>4, <1>5

\* The timer ends the wait with a failure.
LEMMA TimeoutInv == ASSUME TInv, timeout PROVE TInv'
<1>1. /\ ok /\ armed /\ armed' = FALSE /\ ok' = FALSE /\ print_results(received_)
      /\ UNCHANGED <<alive, received_, running, launched>>
  BY DEF timeout, AfterTimeout
<1>2. Waiting
  BY <1>1 DEF TInv, Passed, Failed
<1>3. verdicts' = <<"failure">>
  BY <1>1, <1>2, FirstVerdict DEF Waiting, Verdict
<1>4. verdicts' \in Seq({"ready", "failure"})
  BY <1>3, VerdictSeq
<1>5. armed' \in BOOLEAN /\ ok' \in BOOLEAN
  BY <1>1
<1>6. TypeOK'
  BY <1>1, <1>4, <1>5 DEF TInv, TypeOK
<1>7. Failed'
  BY <1>1, <1>2, <1>3 DEF Waiting, Failed
<1> QED
  BY <1>1, <1>6, <1>7 DEF TInv, Waiting

\* Only a failed test returns from main and takes the launch down.
LEMMA ExitInv == ASSUME TInv, main_returns \/ on_sensor_test_exit PROVE TInv'
<1>1. CASE main_returns
  <2>1. /\ ~ok /\ running' = FALSE
        /\ UNCHANGED <<alive, received_, armed, ok, launched, verdicts>>
    BY <1>1 DEF main_returns
  <2>2. running' \in BOOLEAN
    BY <2>1
  <2>3. TypeOK'
    BY <2>1, <2>2 DEF TInv, TypeOK
  <2> QED
    BY <2>1, <2>3 DEF TInv, Waiting, Passed, Failed
<1>2. CASE on_sensor_test_exit
  <2>1. /\ ~running /\ launched' = FALSE
        /\ UNCHANGED <<alive, received_, armed, ok, running, verdicts>>
    BY <1>2 DEF on_sensor_test_exit
  <2>2. launched' \in BOOLEAN
    BY <2>1
  <2>3. TypeOK'
    BY <2>1, <2>2 DEF TInv, TypeOK
  <2> QED
    BY <2>1, <2>3 DEF TInv, Waiting, Passed, Failed
<1> QED
  BY <1>1, <1>2

LEMMA NextInv == ASSUME TInv, [Next]_vars PROVE TInv'
<1>1. ASSUME NEW s \in Sensors, MessageArrives(s) PROVE TInv'
  BY <1>1, MessageInv
<1>2. CASE timeout
  BY <1>2, TimeoutInv
<1>3. CASE main_returns \/ on_sensor_test_exit
  BY <1>3, ExitInv
<1>4. CASE UNCHANGED vars
  BY <1>4 DEF vars, TInv, TypeOK, Waiting, Passed, Failed
<1> QED
  BY <1>1, <1>2, <1>3, <1>4 DEF Next

\* The three states of the test.
THEOREM Inductive == Spec => []TInv
BY InitInv, NextInv, PTL DEF Spec

\* Type correctness of the sensor test.
THEOREM TypeCorrect == Spec => []TypeOK
<1>1. TInv => TypeOK
  BY DEF TInv
<1> QED
  BY <1>1, Inductive, PTL

\* One verdict at most, and it stays true: the completing message cancels the
\* timer, and the timer shuts the subscriptions' context down.
THEOREM HonestVerdict == Spec => []OneHonestVerdict
<1>1. ASSUME TInv PROVE OneHonestVerdict
  <2>1. CASE Waiting
    <3>1. Len(<<>>) = 0 /\ <<>> # <<"ready">>
      OBVIOUS
    <3> QED
      BY <2>1, <3>1 DEF Waiting, OneHonestVerdict
  <2>2. CASE Passed
    BY <2>2, VerdictSeq DEF Passed, OneHonestVerdict
  <2>3. CASE Failed
    <3>1. <<"failure">> # <<"ready">>
      OBVIOUS
    <3> QED
      BY <2>3, <3>1, VerdictSeq DEF Failed, OneHonestVerdict
  <2> QED
    BY <1>1, <2>1, <2>2, <2>3 DEF TInv
<1> QED
  BY <1>1, Inductive, PTL

\* A launch whose sensors all work is never shut down by the test.
THEOREM PassedStaysUp == Spec => []WorkingSensorsStayUp
<1>1. TInv => WorkingSensorsStayUp
  BY DEF TInv, WorkingSensorsStayUp, Waiting, Passed, Failed
<1> QED
  BY <1>1, Inductive, PTL
=============================================================================
