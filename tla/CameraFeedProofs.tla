-------------------------- MODULE CameraFeedProofs --------------------------
(***************************************************************************)
(* Proofs about a camera node, by itself and together with the display,    *)
(* for every queue bound, rate limit, number of frames, topic depth, image *)
(* size, network output and depth image.                                   *)
(*                                                                         *)
(* The node comes first, under Spec.  Two facts carry its thread: while    *)
(* the worker stands between its test and its sleep the queue is empty,    *)
(* because it holds the mutex that push_job needs; and a worker that       *)
(* finished a job after the flag was cleared is on its way out.            *)
(*                                                                         *)
(* The composition, FeedSpec, only adds to the node: its steps are steps   *)
(* of CameraVision or leave the node alone, so what is shown of the node   *)
(* holds there too.  On top of the queue's invariant comes that all that   *)
(* has been published is older than what the worker holds.                 *)
(***************************************************************************)
EXTENDS CameraFeed, TLAPS, FiniteSetTheorems

-----------------------------------------------------------------------------
(* The camera node.                                                        *)

CheckedIsEmpty == worker = "checked" => job_queue_ = <<>>

LeavingAfterStop ==
  /\ after_stop \in Nat
  /\ worker_running_ \in BOOLEAN
  /\ worker_running_ => after_stop = 0
  /\ after_stop # 0 => after_stop = 1 /\ worker \in {"loop", "exited"}

SInv == /\ CheckedIsEmpty /\ NoSleepOnWork
        /\ LeavingAfterStop

LEMMA InitSInv == Init => SInv
<1> SUFFICES ASSUME Init PROVE SInv
  OBVIOUS
<1> QED BY DEF Init, SInv, CheckedIsEmpty, NoSleepOnWork, LeavingAfterStop

\* The executor thread: callback, queueing, notifications, destructor.
LEMMA ExecutorSInv ==
  ASSUME SInv, FrameArrives \/ stop_worker \/ Executor
  PROVE  SInv'
<1> USE DEF SInv, CheckedIsEmpty, NoSleepOnWork, LeavingAfterStop, history
<1>1. ASSUME NEW t, NEW e, image_callback(t, e) PROVE SInv'
  BY <1>1 DEF image_callback
<1>2. CASE push_job
  BY <1>2 DEF push_job, WorkerHoldsMutex
<1>3. CASE queue_cv_notify_one
  BY <1>3 DEF queue_cv_notify_one, Wake
<1>4. CASE stop_worker
  BY <1>4 DEF stop_worker
<1>5. CASE queue_cv_notify_all
  BY <1>5 DEF queue_cv_notify_all, Wake
<1>6. CASE worker_thread_join
  BY <1>6 DEF worker_thread_join
<1> QED BY <1>1, <1>2, <1>3, <1>4, <1>5, <1>6 DEF FrameArrives, Executor

\* The worker thread.
LEMMA WorkerSInv ==
  ASSUME SInv, Worker \/ spurious_wakeup
  PROVE  SInv'
<1> USE DEF SInv, CheckedIsEmpty, NoSleepOnWork, LeavingAfterStop, quiet
<1>1. CASE while_running
  BY <1>1 DEF while_running, LoopAgain
<1>2. CASE lock_queue_mutex
  BY <1>2 DEF lock_queue_mutex
<1>3. CASE wait_predicate
  BY <1>3 DEF wait_predicate, WaitDone
<1>4. CASE wait_sleep
  BY <1>4 DEF wait_sleep
<1>5. CASE take_job
  BY <1>5 DEF take_job
<1>6. CASE infer_and_publish
  BY <1>6 DEF infer_and_publish
<1>7. CASE spurious_wakeup
  BY <1>7 DEF spurious_wakeup
<1> QED BY <1>1, <1>2, <1>3, <1>4, <1>5, <1>6, <1>7 DEF Worker

LEMMA NextSInv == SInv /\ [Next]_vars => SInv'
<1> SUFFICES ASSUME SInv, [Next]_vars PROVE SInv'
  OBVIOUS
<1>1. CASE UNCHANGED vars
  BY <1>1 DEF vars, thread, history, SInv, CheckedIsEmpty, NoSleepOnWork,
              LeavingAfterStop
<1> QED BY <1>1, ExecutorSInv, WorkerSInv DEF Next

\* No wakeup of the callback is lost: a sleeping worker with a job queued is
\* about to be notified (push under the mutex, notify after it).
THEOREM WorkerAwake == Spec => []NoSleepOnWork
<1>1. SInv => NoSleepOnWork
  BY DEF SInv
<1> QED BY <1>1, InitSInv, NextSInv, PTL DEF Spec

\* After the destructor has cleared worker_running_ at most one job is finished.
THEOREM StopsSoon == Spec => []AtMostOneJobAfterStop
<1>1. SInv => AtMostOneJobAfterStop
  BY DEF SInv, LeavingAfterStop, AtMostOneJobAfterStop
<1> QED BY <1>1, InitSInv, NextSInv, PTL DEF Spec

-----------------------------------------------------------------------------
(* The queue.  Frames are accepted with increasing stamps; the queue is the *)
(* tail of what was accepted, and what was taken is older than the queue.   *)

Increasing(s) == \A i, j \in 1 .. Len(s) : i < j => s[i] < s[j]

\* The i-th job of the queue is the frame accepted that far from the end.
QueueIsTail ==
  /\ Len(job_queue_) <= Len(accepted) /\ Len(job_queue_) <= Capacity
  /\ \A i \in 1 .. Len(job_queue_) :
        job_queue_[i].stamp = accepted[Len(accepted) - Len(job_queue_) + i]
  /\ Len(accepted) # 0 /\ Len(job_queue_) = 0 => taken = accepted[Len(accepted)]

\* A frame about to be queued is newer than everything seen.
NewestIncoming ==
  /\ \A i \in 1 .. Len(accepted) : accepted[i] <= now
  /\ taken # Never => taken <= now
  /\ main = "push" =>
       /\ incoming.stamp <= now
       /\ \A i \in 1 .. Len(accepted) : accepted[i] < incoming.stamp
       /\ taken # Never => taken < incoming.stamp

TakenIsOlder ==
  taken # Never => \A i \in 1 .. Len(job_queue_) : taken < job_queue_[i].stamp

\* The worker takes only from a queue it has seen non-empty, or it leaves.
TakesSomething ==
  worker = "taking" /\ worker_running_ => job_queue_ # <<>>

QInv == /\ TypeOK /\ Increasing(accepted) /\ QueueIsTail
        /\ NewestIncoming /\ TakenIsOlder /\ TakesSomething

\* Queueing drops from the front only, and ends with the new job.
LEMMA EnqueueFact ==
  ASSUME NEW q \in Seq(Job), NEW j \in Job, Len(q) <= Capacity
  PROVE  /\ Enqueue(q, j) \in Seq(Job)
         /\ Len(Enqueue(q, j)) \in 1 .. Len(q) + 1
         /\ Len(Enqueue(q, j)) <= Capacity
         /\ Enqueue(q, j)[Len(Enqueue(q, j))] = j
         /\ \A i \in 1 .. Len(Enqueue(q, j)) - 1 :
              Enqueue(q, j)[i] = q[Len(q) - Len(Enqueue(q, j)) + 1 + i]
<1> USE CameraAssumption
<1> DEFINE r == IF Len(q) >= Capacity THEN SubSeq(q, Len(q) - Capacity + 2, Len(q))
                ELSE q
<1>1. r \in Seq(Job) /\ Len(r) \in 0 .. Len(q) /\ Len(r) <= Capacity - 1
      /\ \A i \in 1 .. Len(r) : r[i] = q[Len(q) - Len(r) + i]
  <2>1. CASE Len(q) >= Capacity
    <3> DEFINE t == SubSeq(q, Len(q) - Capacity + 2, Len(q))
    <3>1. t \in Seq(Job) /\ Len(t) = Capacity - 1
          /\ \A i \in 1 .. Len(t) : t[i] = q[Len(q) - Capacity + 1 + i]
      BY <2>1
    <3>2. r = t
      BY <2>1
    <3> HIDE DEF t, r
    <3>3. Len(q) \in Nat
      OBVIOUS
    <3>4. Len(r) = Capacity - 1
      BY <3>1, <3>2
    <3>5. Len(q) - Len(r) = Len(q) - Capacity + 1
      BY <3>3, <3>4
    <3> QED BY <2>1, <3>1, <3>2, <3>3, <3>4, <3>5
  <2>2. CASE Len(q) < Capacity
    <3>1. r = q /\ Len(q) \in Nat
      BY <2>2
    <3> HIDE DEF r
    <3> QED BY <2>2, <3>1
  <2>3. Len(q) \in Nat
    OBVIOUS
  <2> HIDE DEF r
  <2> QED BY <2>1, <2>2, <2>3
<1>2. Enqueue(q, j) = Append(r, j)
  BY DEF Enqueue
<1> HIDE DEF r
<1>3. /\ Append(r, j) \in Seq(Job) /\ Len(Append(r, j)) = Len(r) + 1
      /\ Append(r, j)[Len(r) + 1] = j
      /\ \A i \in 1 .. Len(r) : Append(r, j)[i] = r[i]
  BY <1>1
<1> QED BY <1>1, <1>2, <1>3

LEMMA InitQInv == Init => QInv
<1> SUFFICES ASSUME Init PROVE QInv
  OBVIOUS
<1> USE CameraAssumption DEF Init
<1>1. TypeOK
  BY DEF TypeOK, MainPC, WorkerPC, NoJob, Job, Time
<1>2. Increasing(accepted) /\ QueueIsTail /\ NewestIncoming
  BY DEF Increasing, QueueIsTail, NewestIncoming
<1> QED BY <1>1, <1>2 DEF QInv, TakenIsOlder, TakesSomething

LEMMA FrameQInv == ASSUME QInv, FrameArrives PROVE QInv'
<1>1. PICK t \in Time, e \in BOOLEAN : t > now /\ image_callback(t, e)
  BY DEF FrameArrives
<1> USE <1>1, CameraAssumption DEF image_callback, QInv, history
<1>2. TypeOK'
  <2>1. [stamp |-> t, empty |-> e] \in Job /\ [stamp |-> t, empty |-> e] # NoJob
    BY DEF Job, NoJob, Time
  <2>2. main' \in MainPC /\ incoming' \in Job \cup {NoJob}
        /\ (main' = "push" => incoming' # NoJob)
    BY <2>1 DEF TypeOK, MainPC
  <2>3. last_inference_time_' \in Time \cup {Never} /\ now' \in 0 .. MaxTime
    BY DEF TypeOK, Time
  <2> QED BY <2>2, <2>3 DEF TypeOK
<1>3. Increasing(accepted)' /\ QueueIsTail' /\ TakenIsOlder' /\ TakesSomething'
  BY DEF Increasing, QueueIsTail, TakenIsOlder, TakesSomething
<1>4. NewestIncoming'
  <2>1. \A i \in 1 .. Len(accepted) : accepted[i] \in Time /\ accepted[i] < t
    BY DEF TypeOK, NewestIncoming, Time
  <2>2. taken # Never => taken \in Time /\ taken < t
    BY DEF TypeOK, NewestIncoming, Time
  <2>3. main' = "push" => incoming'.stamp = t
    OBVIOUS
  <2> QED BY <2>1, <2>2, <2>3 DEF NewestIncoming, Time
<1> QED BY <1>2, <1>3, <1>4

LEMMA PushQInv == ASSUME QInv, push_job PROVE QInv'
<1> USE CameraAssumption DEF push_job, QInv
<1> DEFINE q == Enqueue(job_queue_, incoming)
           n == Len(accepted)
<1>1. incoming \in Job /\ incoming.stamp \in Time /\ job_queue_ \in Seq(Job)
      /\ accepted \in Seq(Time) /\ Len(job_queue_) <= Capacity
  BY DEF TypeOK, Job, QueueIsTail
<1>2. /\ q \in Seq(Job) /\ Len(q) \in 1 .. Len(job_queue_) + 1
      /\ Len(q) <= Capacity /\ q[Len(q)] = incoming
      /\ \A i \in 1 .. Len(q) - 1 : q[i] = job_queue_[Len(job_queue_) - Len(q) + 1 + i]
  BY <1>1, EnqueueFact
<1>3. /\ job_queue_' = q /\ accepted' = Append(accepted, incoming.stamp)
      /\ main' = "notify" /\ incoming' = NoJob
      /\ UNCHANGED <<worker, worker_running_, taken, now>>
  OBVIOUS
<1>4. /\ accepted' \in Seq(Time) /\ Len(accepted') = n + 1
      /\ accepted'[n + 1] = incoming.stamp
      /\ \A i \in 1 .. n : accepted'[i] = accepted[i]
  BY <1>1, <1>3
<1> HIDE DEF q
<1>5. TypeOK'
  BY <1>2, <1>3, <1>4 DEF TypeOK, MainPC
<1>6. Increasing(accepted)'
  BY <1>1, <1>4 DEF Increasing, NewestIncoming
<1>7. QueueIsTail'
  <2>1. Len(q) <= n + 1 /\ n \in Nat /\ Len(q) \in Nat /\ Len(job_queue_) \in Nat
    BY <1>1, <1>2 DEF QueueIsTail
  <2>2. ASSUME NEW i \in 1 .. Len(q)
        PROVE  q[i].stamp = accepted'[n + 1 - Len(q) + i]
    <3>1. CASE i = Len(q)
      BY <1>2, <1>4, <2>1, <3>1
    <3>2. CASE i < Len(q)
      <4> DEFINE k == Len(job_queue_) - Len(q) + 1 + i
      <4>1. k \in 1 .. Len(job_queue_) /\ q[i] = job_queue_[k]
        BY <1>2, <2>1, <3>2
      <4>2. job_queue_[k].stamp = accepted[n - Len(job_queue_) + k]
        BY <4>1 DEF QueueIsTail
      <4>3. n - Len(job_queue_) + k = n + 1 - Len(q) + i
            /\ n + 1 - Len(q) + i \in 1 .. n
        BY <1>2, <2>1, <3>2
      <4> QED BY <1>4, <4>1, <4>2, <4>3
    <3> QED BY <2>1, <3>1, <3>2
  <2>3. job_queue_' = q /\ Len(accepted') = n + 1 /\ Len(q) # 0 /\ Len(q) <= Capacity
    BY <1>2, <1>3, <1>4, <2>1
  <2> HIDE DEF n
  <2>4. ASSUME NEW i \in 1 .. Len(q)
        PROVE  q[i].stamp = accepted'[Len(accepted') - Len(q) + i]
    <3>1. q[i].stamp = accepted'[n + 1 - Len(q) + i]
      BY <2>2
    <3>2. Len(accepted') - Len(q) + i = n + 1 - Len(q) + i
      BY <2>1, <2>3
    <3> QED BY <3>1, <3>2
  <2> QED BY <2>1, <2>3, <2>4 DEF QueueIsTail
<1>8. NewestIncoming'
  BY <1>1, <1>3, <1>4 DEF NewestIncoming
<1>9. TakenIsOlder'
  <2>1. ASSUME taken # Never, NEW i \in 1 .. Len(q) PROVE taken < q[i].stamp
    <3>1. CASE i = Len(q)
      BY <1>2, <2>1, <3>1 DEF NewestIncoming
    <3>2. CASE i < Len(q)
      <4> DEFINE k == Len(job_queue_) - Len(q) + 1 + i
      <4>1. k \in 1 .. Len(job_queue_) /\ q[i] = job_queue_[k]
        BY <1>1, <1>2, <3>2
      <4> QED BY <2>1, <4>1 DEF TakenIsOlder
    <3> QED BY <1>2, <3>1, <3>2
  <2> QED BY <1>3, <2>1 DEF TakenIsOlder
<1>10. TakesSomething'
  BY <1>3 DEF TakesSomething, WorkerHoldsMutex
<1> QED BY <1>5, <1>6, <1>7, <1>8, <1>9, <1>10

LEMMA TakeQInv == ASSUME QInv, take_job PROVE QInv'
<1> USE CameraAssumption DEF take_job, QInv, quiet
<1>1. CASE ~worker_running_ /\ job_queue_ = <<>>
  BY <1>1 DEF TypeOK, WorkerPC, Increasing, QueueIsTail, NewestIncoming,
              TakenIsOlder, TakesSomething
<1>2. CASE ~(~worker_running_ /\ job_queue_ = <<>>)
  <2> DEFINE q == job_queue_
             n == Len(accepted)
  <2>1. q # <<>>
    BY <1>2 DEF TakesSomething, TypeOK
  <2>2. /\ worker' = "inferring" /\ job' = q[1] /\ taken' = q[1].stamp
        /\ job_queue_' = Tail(q)
        /\ UNCHANGED <<main, worker_running_, last_inference_time_, incoming,
                       now, accepted, last_save_s_, after_stop>>
    BY <1>2, <2>1 DEF TypeOK
  <2>3. /\ q \in Seq(Job) /\ Len(q) \in Nat \ {0} /\ q[1] \in Job
        /\ q[1].stamp \in Time /\ Tail(q) \in Seq(Job)
        /\ Len(Tail(q)) = Len(q) - 1
        /\ \A i \in 1 .. Len(q) - 1 : Tail(q)[i] = q[i + 1]
    <3>1. q \in Seq(Job) /\ Len(q) \in Nat /\ Len(q) # 0
      BY <2>1 DEF TypeOK
    <3>2. q[1] \in Job
      BY <3>1
    <3>3. Tail(q) \in Seq(Job) /\ Len(Tail(q)) = Len(q) - 1
          /\ \A i \in 1 .. Len(q) - 1 : Tail(q)[i] = q[i + 1]
      BY <2>1, <3>1
    <3> QED BY <3>1, <3>2, <3>3 DEF Job
  <2>4. /\ n \in Nat /\ Len(q) <= n
        /\ \A i \in 1 .. Len(q) : q[i].stamp = accepted[n - Len(q) + i]
    BY DEF QueueIsTail, TypeOK
  <2> HIDE DEF q
  <2>5. TypeOK'
    <3>1. q[1] # NoJob
      BY <2>3 DEF NoJob, Time
    <3> QED BY <2>2, <2>3, <3>1 DEF TypeOK, WorkerPC
  <2>6. Increasing(accepted)'
    BY <2>2 DEF Increasing
  <2>7. QueueIsTail'
    <3>1. ASSUME NEW i \in 1 .. Len(q) - 1
          PROVE  Tail(q)[i].stamp = accepted[n - (Len(q) - 1) + i]
      <4>1. i + 1 \in 1 .. Len(q) /\ n - Len(q) + (i + 1) = n - (Len(q) - 1) + i
        BY <2>3, <2>4
      <4> QED BY <2>3, <2>4, <4>1
    <3>2. Len(q) = 1 => q[1].stamp = accepted[n]
      BY <2>3, <2>4
    <3>3. Len(q) <= Capacity
      BY DEF QueueIsTail, q
    <3> QED BY <2>2, <2>3, <2>4, <3>1, <3>2, <3>3 DEF QueueIsTail
  <2>8. NewestIncoming'
    <3>1. n - Len(q) + 1 \in 1 .. n /\ q[1].stamp = accepted[n - Len(q) + 1]
      BY <2>3, <2>4
    <3> QED BY <2>2, <3>1 DEF NewestIncoming
  <2>9. TakenIsOlder'
    <3>1. ASSUME NEW i \in 1 .. Len(q) - 1 PROVE q[1].stamp < Tail(q)[i].stamp
      <4>1. /\ n - Len(q) + 1 \in 1 .. n /\ n - Len(q) + (i + 1) \in 1 .. n
            /\ n - Len(q) + 1 < n - Len(q) + (i + 1)
        BY <2>3, <2>4
      <4>2. accepted[n - Len(q) + 1] < accepted[n - Len(q) + (i + 1)]
        BY <4>1 DEF Increasing
      <4> QED BY <2>3, <2>4, <4>2
    <3> QED BY <2>2, <2>3, <3>1 DEF TakenIsOlder
  <2>10. TakesSomething'
    BY <2>2 DEF TakesSomething
  <2> QED BY <2>5, <2>6, <2>7, <2>8, <2>9, <2>10
<1> QED BY <1>1, <1>2

\* The remaining steps leave the queue and its history alone.
LEMMA QuietQInv ==
  ASSUME QInv,
         \/ queue_cv_notify_one \/ queue_cv_notify_all \/ stop_worker
         \/ worker_thread_join \/ while_running \/ lock_queue_mutex
         \/ wait_predicate \/ wait_sleep \/ infer_and_publish \/ spurious_wakeup
         \/ UNCHANGED vars
  PROVE  QInv'
<1> USE CameraAssumption
        DEF QInv, quiet, history, Increasing, QueueIsTail, NewestIncoming,
            TakenIsOlder, TakesSomething, TypeOK, MainPC, WorkerPC
<1>1. CASE queue_cv_notify_one
  BY <1>1 DEF queue_cv_notify_one, Wake
<1>2. CASE queue_cv_notify_all
  BY <1>2 DEF queue_cv_notify_all, Wake
<1>3. CASE stop_worker
  BY <1>3 DEF stop_worker
<1>4. CASE worker_thread_join
  BY <1>4 DEF worker_thread_join
<1>5. CASE while_running
  BY <1>5 DEF while_running
<1>6. CASE lock_queue_mutex
  BY <1>6 DEF lock_queue_mutex
<1>7. CASE wait_predicate
  BY <1>7 DEF wait_predicate, WaitDone
<1>8. CASE wait_sleep
  BY <1>8 DEF wait_sleep
<1>9. CASE infer_and_publish
  <2>1. last_save_s_' \in Time \cup {Never}
    BY <1>9 DEF infer_and_publish, Job, NoJob
  <2> QED BY <1>9, <2>1 DEF infer_and_publish
<1>10. CASE spurious_wakeup
  BY <1>10 DEF spurious_wakeup
<1>11. CASE UNCHANGED vars
  BY <1>11 DEF vars, thread
<1> QED BY <1>1, <1>2, <1>3, <1>4, <1>5, <1>6, <1>7, <1>8, <1>9, <1>10, <1>11

LEMMA NextQInv == QInv /\ [Next]_vars => QInv'
BY FrameQInv, PushQInv, TakeQInv, QuietQInv DEF Next, Executor, Worker

THEOREM QueueInvariant == Spec => []QInv
BY InitQInv, NextQInv, PTL DEF Spec

THEOREM TypeCorrect == Spec => []TypeOK
<1>1. QInv => TypeOK
  BY DEF QInv
<1> QED BY <1>1, QueueInvariant, PTL

\* Only the oldest frames are ever dropped (the pop_front loop of the callback).
THEOREM NewestKept == Spec => []NewestFramesKept
<1>1. QInv => NewestFramesKept
  <2> SUFFICES ASSUME QInv PROVE NewestFramesKept
    OBVIOUS
  <2> DEFINE q == job_queue_
             m == Len(accepted) - Len(job_queue_)
             s == SubSeq(accepted, m + 1, Len(accepted))
  <2>1. /\ q \in Seq(Job) /\ accepted \in Seq(Time) /\ Len(q) <= Len(accepted)
        /\ \A i \in 1 .. Len(q) : q[i].stamp = accepted[m + i]
    BY DEF QInv, TypeOK, QueueIsTail
  <2>2. s = [i \in 1 .. Len(q) |-> accepted[m + i]]
    BY <2>1
  <2>3. Stamps(q) = [i \in 1 .. Len(q) |-> q[i].stamp]
    BY <2>1 DEF Stamps
  <2>4. Stamps(q) = s
    BY <2>1, <2>2, <2>3
  <2> QED BY <2>1, <2>4 DEF QInv, QueueIsTail, NewestFramesKept
<1> QED BY <1>1, QueueInvariant, PTL

\* The backlog is bounded and served in order.
THEOREM BacklogBounded == Spec => []LatencyBounded
<1>1. QInv => LatencyBounded
  BY DEF QInv, QueueIsTail, TakenIsOlder, LatencyBounded, TypeOK
<1> QED BY <1>1, QueueInvariant, PTL

-----------------------------------------------------------------------------
(* The camera node and the display.                                        *)

\* Every step of the composition is one of the camera node, or none.
LEMMA FeedStep == [FeedNext]_<<vars, feed_vars>> => [Next]_vars
BY DEF FeedNext, CameraNode, Infer, Deliver, Display, DetectionsArrive, ImageArrives,
       Render, TimePasses, Escape, Next, Worker, vars

\* The composition implements the camera node.
THEOREM ImplementsCameraNode == FeedSpec => Spec
<1>1. FeedInit => Init
  BY DEF FeedInit
<1> QED BY <1>1, FeedStep, PTL DEF FeedSpec, Spec

-----------------------------------------------------------------------------
(* The median.  A distance measured by more than half of the pixels is the *)
(* one in the middle: fewer than half are below it, and fewer above.       *)

LEMMA FewerThanHalf ==
  ASSUME NEW S, IsFiniteSet(S), NEW A \in SUBSET S, NEW B \in SUBSET S, A \cap B = {}
  PROVE  /\ Cardinality(S) \in Nat /\ Cardinality(A) \in Nat /\ Cardinality(B) \in Nat
         /\ Cardinality(A) + Cardinality(B) <= Cardinality(S)
<1>1. IsFiniteSet(A) /\ IsFiniteSet(B)
  BY FS_Subset
<1>2. IsFiniteSet(A \cup B) /\ Cardinality(A \cup B) <= Cardinality(S)
  <2>1. A \cup B \in SUBSET S
    OBVIOUS
  <2> QED BY <2>1, FS_Subset
<1>3. Cardinality(A \cup B) = Cardinality(A) + Cardinality(B) - Cardinality(A \cap B)
  BY <1>1, FS_Union
<1>4. Cardinality(A \cap B) = 0
  BY FS_EmptySet
<1>5. Cardinality(A) \in Nat /\ Cardinality(B) \in Nat /\ Cardinality(S) \in Nat
  BY <1>1, FS_CardinalityType
<1> QED BY <1>2, <1>3, <1>4, <1>5

\* nth_element in the middle returns the value most have.
LEMMA MajorityIsMedian ==
  ASSUME NEW S, IsFiniteSet(S), NEW depth, \A p \in S : depth[p] \in Int,
         NEW near \in {depth[p] : p \in S},
         2 * Cardinality({p \in S : depth[p] = near}) > Cardinality(S)
  PROVE  nth_element(S, depth, Cardinality(S) \div 2) = near
<1> DEFINE n == Cardinality(S) \div 2
           Below(mm) == {p \in S : depth[p] < mm}
           UpTo(mm) == {p \in S : depth[p] <= mm}
           Same == {p \in S : depth[p] = near}
<1>1. Cardinality(S) \in Nat /\ Cardinality(Same) \in Nat
  <2>1. Same \in SUBSET S
    OBVIOUS
  <2> HIDE DEF Same
  <2> QED BY <2>1, FS_Subset, FS_CardinalityType
<1>2. n \in Nat /\ 2 * n <= Cardinality(S) /\ Cardinality(S) < 2 * n + 2
  BY <1>1
<1>3. near \in Int
  OBVIOUS
<1>4. ASSUME NEW mm \in Int
      PROVE  /\ Cardinality(Below(mm)) \in Nat /\ Cardinality(UpTo(mm)) \in Nat
             /\ mm <= near => Cardinality(Below(mm)) <= n
             /\ mm < near => Cardinality(UpTo(mm)) <= n
             /\ near <= mm => Cardinality(UpTo(mm)) > n
             /\ near < mm => Cardinality(Below(mm)) > n
  <2> DEFINE A == Below(mm)
             B == UpTo(mm)
  <2>1. A \in SUBSET S /\ B \in SUBSET S /\ Same \in SUBSET S
    OBVIOUS
  <2>2. Cardinality(A) \in Nat /\ Cardinality(B) \in Nat
    <3> HIDE DEF A, B
    <3> QED BY <2>1, FS_Subset, FS_CardinalityType
  <2>3. mm <= near => Cardinality(A) + Cardinality(Same) <= Cardinality(S)
    <3>1. mm <= near => A \cap Same = {}
      BY <1>3
    <3> HIDE DEF A, Same
    <3> QED BY <2>1, <3>1, FewerThanHalf
  <2>4. mm < near => Cardinality(B) + Cardinality(Same) <= Cardinality(S)
    <3>1. mm < near => B \cap Same = {}
      BY <1>3
    <3> HIDE DEF B, Same
    <3> QED BY <2>1, <3>1, FewerThanHalf
  <2>5. near <= mm => Cardinality(Same) <= Cardinality(B)
    <3>1. near <= mm => Same \in SUBSET B
      OBVIOUS
    <3>2. IsFiniteSet(B)
      BY <2>1, FS_Subset
    <3> HIDE DEF B, Same
    <3> QED BY <3>1, <3>2, FS_Subset
  <2>6. near < mm => Cardinality(Same) <= Cardinality(A)
    <3>1. near < mm => Same \in SUBSET A
      OBVIOUS
    <3>2. IsFiniteSet(A)
      BY <2>1, FS_Subset
    <3> HIDE DEF A, Same
    <3> QED BY <3>1, <3>2, FS_Subset
  <2>7. 2 * Cardinality(Same) > Cardinality(S)
    OBVIOUS
  <2> HIDE DEF A, B, Same, n
  <2>8. /\ mm <= near => Cardinality(A) <= n
        /\ mm < near => Cardinality(B) <= n
        /\ near <= mm => Cardinality(B) > n
        /\ near < mm => Cardinality(A) > n
    BY <1>1, <1>2, <1>3, <2>2, <2>3, <2>4, <2>5, <2>6, <2>7
  <2> QED BY <2>2, <2>8 DEF A, B
<1> DEFINE Middle(mm) == Cardinality(Below(mm)) <= n /\ Cardinality(UpTo(mm)) > n
<1>5. Middle(near)
  <2> HIDE DEF Below, UpTo, n
  <2> QED BY <1>3, <1>4
<1>6. ASSUME NEW mm \in {depth[p] : p \in S}, Middle(mm) PROVE mm = near
  <2>1. mm \in Int
    OBVIOUS
  <2> HIDE DEF Below, UpTo, n
  <2> QED BY <1>2, <1>3, <1>4, <1>6, <2>1
<1>7. nth_element(S, depth, n) = CHOOSE mm \in {depth[p] : p \in S} : Middle(mm)
  BY DEF nth_element
<1> HIDE DEF Middle, n
<1>8. (CHOOSE mm \in {depth[p] : p \in S} : Middle(mm)) = near
  BY <1>5, <1>6
<1> QED BY <1>7, <1>8 DEF n

\* The message for a frame is right about distances, whatever the network and the
\* depth camera make of the frame.
LEMMA MessageDistance ==
  ASSUME NEW t \in Time, NEW i \in DOMAIN Message(t).detections,
         NEW near \in {DepthImage[t].mm[p] : p \in Measured(Message(t), Message(t).detections[i])},
         2 * Cardinality({p \in Measured(Message(t), Message(t).detections[i]) :
                            DepthImage[t].mm[p] = near})
           > Cardinality(Measured(Message(t), Message(t).detections[i]))
  PROVE  Message(t).detections[i].distance = near
<1> DEFINE dets == parse_segmentation_output(Output0[t])
           det == dets[i]
           image == DepthImage[t]
           samples == {p \in ObjectMask(det) : IsSample(image.mm[p])}
           measured == Measured(Message(t), Message(t).detections[i])
<1>1. /\ Message(t).stamp = t
      /\ Message(t).detections =
           [k \in DOMAIN dets |->
             [object_class |-> class_name_for(dets[k].class_id),
              confidence |-> dets[k].confidence,
              distance |-> estimate_distance_m(image, dets[k]),
              bounding_box |-> dets[k].box,
              mask |-> dets[k].polygon]]
  BY DEF Message, DetectionArray
<1>2. i \in DOMAIN dets
  BY <1>1
<1>3. /\ Message(t).detections[i].distance = estimate_distance_m(image, det)
      /\ Message(t).detections[i].bounding_box = det.box
      /\ Message(t).detections[i].mask = det.polygon
  <2> HIDE DEF dets, image
  <2> QED BY <1>1, <1>2
<1> HIDE DEF dets
<1>4. ObjectMask([box |-> det.box, polygon |-> det.polygon]) = ObjectMask(det)
  BY DEF ObjectMask
<1>5. measured = {p \in ObjectMask(det) : /\ image.encoding \in {"16UC1", "32FC1"}
                                          /\ image.mm[p] \in Nat \ {0}}
  BY <1>1, <1>3, <1>4 DEF Measured
<1>6. measured # {} /\ near \in {image.mm[p] : p \in measured}
  OBVIOUS
<1> HIDE DEF measured, image
<1>7. image.encoding \in {"16UC1", "32FC1"}
  BY <1>5, <1>6
<1>8. measured = samples
  BY <1>5, <1>7 DEF IsSample
<1>9. IsFiniteSet(samples) /\ \A p \in samples : image.mm[p] \in Int
  <2>1. IsFiniteSet(Pixels)
    <3>1. Width - 1 \in Int /\ Height - 1 \in Int
      BY LetterboxAssumption
    <3>2. IsFiniteSet(0 .. Width - 1) /\ IsFiniteSet(0 .. Height - 1)
      BY <3>1, FS_Interval
    <3> DEFINE columns == 0 .. Width - 1
               rows == 0 .. Height - 1
    <3>3. Pixels = columns \X rows
      BY DEF Pixels
    <3> HIDE DEF columns, rows
    <3> QED BY <3>2, <3>3, FS_Product DEF columns, rows
  <2>2. samples \in SUBSET Pixels
    BY DEF ObjectMask, Inside
  <2>3. \A p \in samples : image.mm[p] \in Int
    BY DEF IsSample
  <2> HIDE DEF samples
  <2> QED BY <2>1, <2>2, <2>3, FS_Subset
<1>10. 2 * Cardinality({p \in samples : image.mm[p] = near}) > Cardinality(samples)
  BY <1>8 DEF image, measured
<1>11. estimate_distance_m(image, det)
         = nth_element(samples, image.mm, Cardinality(samples) \div 2)
  BY <1>6, <1>7, <1>8 DEF estimate_distance_m
<1> HIDE DEF samples
<1>12. nth_element(samples, image.mm, Cardinality(samples) \div 2) = near
  BY <1>6, <1>8, <1>9, <1>10, MajorityIsMedian
<1> QED BY <1>3, <1>11, <1>12

-----------------------------------------------------------------------------
(* The order of the boxes.                                                 *)

Messages == {Message(t) : t \in Time}
Received == [msg : Messages, age : Int]

\* Everything published is a frame's message, at most as new as the last frame
\* taken, and older than it while it is being processed.
OlderThanTaken(stamp) ==
  /\ taken # Never
  /\ stamp <= taken
  /\ worker = "inferring" => stamp < taken

InOrder(q) == q \in Seq(Messages) /\ Increasing(Stamps(q)) /\ Len(q) <= Depth

PublishedInOrder ==
  /\ InOrder(sent) /\ InOrder(detections)
  /\ \A j \in 1 .. Len(sent) : OlderThanTaken(sent[j].stamp)
  /\ \A k \in 1 .. Len(detections) : OlderThanTaken(detections[k].stamp)
  /\ \A k \in 1 .. Len(detections), j \in 1 .. Len(sent) : detections[k].stamp < sent[j].stamp
  /\ det_ \in [Cameras -> {Nothing} \cup Received]
  /\ det_[Camera] # Nothing =>
       /\ OlderThanTaken(det_[Camera].msg.stamp)
       /\ \A j \in 1 .. Len(sent) : det_[Camera].msg.stamp < sent[j].stamp
       /\ \A k \in 1 .. Len(detections) : det_[Camera].msg.stamp < detections[k].stamp

FeedInv ==
  /\ QInv
  /\ worker = "inferring" => taken # Never /\ job.stamp = taken
  /\ PublishedInOrder

LEMMA MessageStamp == ASSUME NEW msg \in Messages PROVE msg.stamp \in Time
BY DEF Messages, Message, DetectionArray

LEMMA StampsFact ==
  ASSUME NEW S, NEW q \in Seq(S)
  PROVE  /\ DOMAIN Stamps(q) = 1 .. Len(q) /\ Len(Stamps(q)) = Len(q)
         /\ \A k \in 1 .. Len(q) : Stamps(q)[k] = q[k].stamp
<1>1. Stamps(q) = [k \in 1 .. Len(q) |-> q[k].stamp] /\ Len(q) \in Nat
  BY DEF Stamps
<1> QED BY <1>1

LEMMA InitFeedInv == FeedInit => FeedInv
<1> SUFFICES ASSUME FeedInit PROVE FeedInv
  OBVIOUS
<1>1. QInv /\ worker = "loop"
  BY InitQInv DEF FeedInit, Init
<1>2. InOrder(sent) /\ Len(sent) = 0 /\ InOrder(detections) /\ Len(detections) = 0
  BY FeedAssumption DEF FeedInit, InOrder, Increasing, Stamps
<1>3. det_ \in [Cameras -> {Nothing} \cup Received] /\ det_[Camera] = Nothing
  BY FeedAssumption DEF FeedInit, DisplayInit
<1> QED BY <1>1, <1>2, <1>3 DEF FeedInv, PublishedInOrder

\* The camera node's steps but inference: what has been published stays, and no
\* job but the one taken is newer.
LEMMA CameraFeedInv == ASSUME FeedInv, CameraNode PROVE FeedInv'
<1>1. [Next]_vars
  BY DEF CameraNode, Next, Worker
<1>2. QInv'
  BY <1>1, NextQInv DEF FeedInv
<1>3. UNCHANGED <<sent, detections, det_>>
  BY DEF CameraNode, feed_vars, topic, display_vars
<1>4. CASE take_job /\ worker' = "inferring"
  <2>1. /\ job' = Head(job_queue_) /\ taken' = Head(job_queue_).stamp /\ job_queue_ # <<>>
        /\ worker' = "inferring"
    BY <1>4 DEF take_job, FeedInv, QInv, TakesSomething
  <2>2. /\ job_queue_ \in Seq(Job) /\ Len(job_queue_) \in Nat \ {0}
        /\ Head(job_queue_) = job_queue_[1]
    BY <2>1 DEF FeedInv, QInv, TypeOK
  <2>3. taken' \in Time /\ taken' # Never /\ (taken # Never => taken < taken')
    <3>1. job_queue_[1] \in Job
      BY <2>2
    <3>2. taken # Never => taken < job_queue_[1].stamp
      BY <2>2 DEF FeedInv, QInv, TakenIsOlder
    <3> QED BY <2>1, <2>2, <3>1, <3>2, CameraAssumption DEF Job, Time
  <2>4. \A stamp \in Time : OlderThanTaken(stamp) => OlderThanTaken(stamp)'
    <3>1. taken \in Time \cup {Never}
      BY DEF FeedInv, QInv, TypeOK
    <3> QED BY <2>3, <3>1 DEF OlderThanTaken, Time
  <2>5. /\ \A j \in 1 .. Len(sent) : sent[j].stamp \in Time
        /\ \A k \in 1 .. Len(detections) : detections[k].stamp \in Time
    BY MessageStamp DEF FeedInv, PublishedInOrder, InOrder
  <2>6. det_[Camera] # Nothing => det_[Camera].msg.stamp \in Time
    BY MessageStamp, FeedAssumption DEF FeedInv, PublishedInOrder, Received
  <2>7. PublishedInOrder'
    BY <1>3, <2>4, <2>5, <2>6 DEF FeedInv, PublishedInOrder
  <2> QED BY <1>2, <2>1, <2>3, <2>7 DEF FeedInv
<1>5. CASE ~(take_job /\ worker' = "inferring")
  <2>1. UNCHANGED taken /\ (worker' = "inferring" => worker = "inferring" /\ UNCHANGED job)
    <3>1. CASE take_job
      BY <1>5, <3>1 DEF take_job, quiet
    <3>2. ASSUME NEW t, NEW e, image_callback(t, e)
          PROVE  UNCHANGED <<job, taken, worker>>
      BY <3>2 DEF image_callback, history
    <3>3. CASE stop_worker \/ push_job \/ worker_thread_join
      BY <3>3 DEF stop_worker, push_job, worker_thread_join, history
    <3>4. CASE queue_cv_notify_one \/ queue_cv_notify_all
      BY <3>4 DEF queue_cv_notify_one, queue_cv_notify_all, Wake, history
    <3>5. CASE spurious_wakeup \/ while_running \/ lock_queue_mutex \/ wait_predicate
               \/ wait_sleep
      BY <3>5 DEF spurious_wakeup, while_running, lock_queue_mutex, wait_predicate,
                  wait_sleep, quiet
    <3> QED BY <3>1, <3>2, <3>3, <3>4, <3>5 DEF CameraNode, FrameArrives, Executor
  <2>2. PublishedInOrder'
    BY <1>3, <2>1 DEF FeedInv, PublishedInOrder, OlderThanTaken
  <2> QED BY <1>2, <2>1, <2>2 DEF FeedInv
<1> QED BY <1>4, <1>5

\* Appending to a sequence, and forgetting its head, keeps its order.
LEMMA AppendInOrder ==
  ASSUME NEW q \in Seq(Messages), Increasing(Stamps(q)), NEW msg \in Messages,
         \A k \in 1 .. Len(q) : q[k].stamp < msg.stamp
  PROVE  /\ Append(q, msg) \in Seq(Messages)
         /\ Increasing(Stamps(Append(q, msg)))
         /\ \A k \in 1 .. Len(Append(q, msg)) : \/ Append(q, msg)[k] = msg
                                                \/ \E l \in 1 .. Len(q) : Append(q, msg)[k] = q[l]
<1> DEFINE r == Append(q, msg)
<1>1. /\ r \in Seq(Messages) /\ Len(q) \in Nat /\ Len(r) = Len(q) + 1 /\ r[Len(q) + 1] = msg
      /\ \A k \in 1 .. Len(q) : r[k] = q[k]
  OBVIOUS
<1>2. /\ Len(Stamps(q)) = Len(q) /\ \A k \in 1 .. Len(q) : Stamps(q)[k] = q[k].stamp
      /\ \A k, l \in 1 .. Len(q) : k < l => q[k].stamp < q[l].stamp
  BY StampsFact DEF Increasing
<1>3. Len(Stamps(r)) = Len(r) /\ \A k \in 1 .. Len(r) : Stamps(r)[k] = r[k].stamp
  BY <1>1, StampsFact
<1> HIDE DEF r
<1>4. ASSUME NEW k \in 1 .. Len(r), NEW l \in 1 .. Len(r), k < l
      PROVE  r[k].stamp < r[l].stamp
  <2>1. CASE l = Len(q) + 1
    BY <1>1, <1>4, <2>1
  <2>2. CASE l # Len(q) + 1
    <3>1. k \in 1 .. Len(q) /\ l \in 1 .. Len(q)
      BY <1>1, <1>4, <2>2
    <3> QED BY <1>1, <1>2, <1>4, <3>1
  <2> QED BY <2>1, <2>2
<1>5. Increasing(Stamps(r))
  BY <1>3, <1>4 DEF Increasing
<1>6. \A k \in 1 .. Len(r) : r[k] = msg \/ \E l \in 1 .. Len(q) : r[k] = q[l]
  <2>1. \A k \in 1 .. Len(r) : k = Len(q) + 1 \/ k \in 1 .. Len(q)
    BY <1>1
  <2> QED BY <1>1, <2>1
<1> QED BY <1>1, <1>5, <1>6 DEF r

LEMMA TailInOrder ==
  ASSUME NEW q \in Seq(Messages), q # <<>>, Increasing(Stamps(q))
  PROVE  /\ Tail(q) \in Seq(Messages)
         /\ Increasing(Stamps(Tail(q)))
         /\ q[1] \in Messages /\ Head(q) = q[1]
         /\ 1 \in 1 .. Len(q)
         /\ \A k \in 1 .. Len(Tail(q)) : /\ k + 1 \in 1 .. Len(q)
                                         /\ Tail(q)[k] = q[k + 1]
                                         /\ q[1].stamp < Tail(q)[k].stamp
<1>1. Len(q) \in Nat \ {0}
  OBVIOUS
<1>2. /\ Tail(q) \in Seq(Messages) /\ Len(Tail(q)) = Len(q) - 1 /\ Head(q) = q[1]
      /\ q[1] \in Messages
      /\ \A k \in 1 .. Len(q) - 1 : Tail(q)[k] = q[k + 1]
  BY <1>1
<1>3. \A k, l \in 1 .. Len(q) : k < l => q[k].stamp < q[l].stamp
  BY StampsFact DEF Increasing
<1>4. \A k \in 1 .. Len(q) - 1 : k + 1 \in 1 .. Len(q) /\ 1 \in 1 .. Len(q) /\ 1 < k + 1
  BY <1>1
<1>5. ASSUME NEW k \in 1 .. Len(q) - 1, NEW l \in 1 .. Len(q) - 1, k < l
      PROVE  q[k + 1].stamp < q[l + 1].stamp
  <2>1. k + 1 < l + 1
    BY <1>1, <1>5
  <2> QED BY <1>3, <1>4, <2>1
<1>6. /\ Len(Stamps(Tail(q))) = Len(q) - 1
      /\ \A k \in 1 .. Len(q) - 1 : Stamps(Tail(q))[k] = q[k + 1].stamp
  <2>1. /\ Len(Stamps(Tail(q))) = Len(Tail(q))
        /\ \A k \in 1 .. Len(Tail(q)) : Stamps(Tail(q))[k] = Tail(q)[k].stamp
    BY <1>2, StampsFact
  <2> QED BY <1>2, <2>1
<1>7. Increasing(Stamps(Tail(q)))
  BY <1>5, <1>6 DEF Increasing
<1> QED BY <1>1, <1>2, <1>3, <1>4, <1>7

\* A message newer than all of a history, put into it, leaves it in order.
LEMMA KeepLastInOrder ==
  ASSUME NEW q, InOrder(q), NEW msg \in Messages,
         \A k \in 1 .. Len(q) : q[k].stamp < msg.stamp
  PROVE  /\ InOrder(KeepLast(q, msg))
         /\ \A k \in 1 .. Len(KeepLast(q, msg)) :
              \/ KeepLast(q, msg)[k] = msg
              \/ \E l \in 1 .. Len(q) : KeepLast(q, msg)[k] = q[l]
<1> DEFINE r == Append(q, msg)
<1>1. /\ q \in Seq(Messages) /\ Increasing(Stamps(q)) /\ Len(q) <= Depth
      /\ Len(q) \in Nat /\ Depth \in Nat \ {0}
  BY FeedAssumption DEF InOrder
<1>2. /\ r \in Seq(Messages) /\ Increasing(Stamps(r))
      /\ \A k \in 1 .. Len(r) : r[k] = msg \/ \E l \in 1 .. Len(q) : r[k] = q[l]
  BY <1>1, AppendInOrder
<1>3. r # <<>> /\ Len(r) = Len(q) + 1 /\ Len(Tail(r)) = Len(r) - 1
  <2>1. r # <<>> /\ Len(r) = Len(q) + 1
    BY <1>1
  <2> HIDE DEF r
  <2> QED BY <1>1, <1>2, <2>1
<1>4. KeepLast(q, msg) = IF Len(r) > Depth THEN Tail(r) ELSE r
  BY DEF KeepLast
<1> HIDE DEF r
<1>5. CASE Len(r) > Depth
  <2>1. /\ Tail(r) \in Seq(Messages) /\ Increasing(Stamps(Tail(r)))
        /\ \A k \in 1 .. Len(Tail(r)) : k + 1 \in 1 .. Len(r) /\ Tail(r)[k] = r[k + 1]
    BY <1>2, <1>3, TailInOrder
  <2>2. Len(Tail(r)) <= Depth
    BY <1>1, <1>3
  <2> QED BY <1>2, <1>4, <1>5, <2>1, <2>2 DEF InOrder
<1>6. CASE ~(Len(r) > Depth)
  BY <1>1, <1>2, <1>3, <1>4, <1>6 DEF InOrder
<1> QED BY <1>5, <1>6

\* Inference ends: the message is newer than all published before it.
LEMMA InferFeedInv == ASSUME FeedInv, Infer PROVE FeedInv'
<1>1. [Next]_vars
  BY DEF Infer, Next, Worker
<1>2. QInv'
  BY <1>1, NextQInv DEF FeedInv
<1>3. /\ UNCHANGED <<taken, detections, det_>> /\ worker = "inferring" /\ worker' = "loop"
      /\ taken # Never /\ job.stamp = taken
  BY DEF Infer, infer_and_publish, quiet, display_vars, FeedInv
<1>4. CASE sent' = sent
  BY <1>2, <1>3, <1>4 DEF FeedInv, PublishedInOrder, OlderThanTaken
<1>5. CASE sent' # sent
  <2> DEFINE msg == Message(job.stamp)
  <2>1. job.stamp \in Time /\ msg \in Messages /\ msg.stamp = taken /\ taken \in Int
    <3>1. job \in Job
      BY <1>3 DEF FeedInv, QInv, TypeOK, Job, NoJob
    <3>2. job.stamp \in Time
      BY <3>1 DEF Job
    <3>3. msg \in Messages /\ msg.stamp = taken
      BY <1>3, <3>2 DEF Messages, Message, DetectionArray
    <3> QED BY <1>3, <3>2, <3>3 DEF Time
  <2>2. sent' = KeepLast(sent, msg)
    BY <1>5 DEF Infer
  <2> HIDE DEF msg
  <2>3. /\ InOrder(sent)
        /\ \A j \in 1 .. Len(sent) : sent[j].stamp < msg.stamp /\ sent[j].stamp <= taken
    BY <1>3, <2>1 DEF FeedInv, PublishedInOrder, OlderThanTaken
  <2>4. /\ InOrder(sent')
        /\ \A j \in 1 .. Len(sent') : sent'[j] = msg \/ \E l \in 1 .. Len(sent) : sent'[j] = sent[l]
    BY <2>1, <2>2, <2>3, KeepLastInOrder
  <2>5. \A j \in 1 .. Len(sent') :
          /\ sent'[j].stamp <= taken
          /\ \A k \in 1 .. Len(detections) : detections[k].stamp < sent'[j].stamp
          /\ det_[Camera] # Nothing => det_[Camera].msg.stamp < sent'[j].stamp
    <3> DEFINE Newer(stamp) ==
          /\ stamp <= taken
          /\ \A k \in 1 .. Len(detections) : detections[k].stamp < stamp
          /\ det_[Camera] # Nothing => det_[Camera].msg.stamp < stamp
    <3>1. Newer(msg.stamp)
      BY <1>3, <2>1 DEF FeedInv, PublishedInOrder, OlderThanTaken
    <3>2. \A l \in 1 .. Len(sent) : Newer(sent[l].stamp)
      BY <2>3 DEF FeedInv, PublishedInOrder
    <3> HIDE DEF Newer
    <3>3. \A j \in 1 .. Len(sent') : Newer(sent'[j].stamp)
      BY <2>4, <3>1, <3>2
    <3> QED BY <3>3 DEF Newer
  <2>6. PublishedInOrder'
    BY <1>3, <2>4, <2>5 DEF FeedInv, PublishedInOrder, InOrder, OlderThanTaken
  <2> QED BY <1>2, <1>3, <2>6 DEF FeedInv
<1> QED BY <1>4, <1>5

\* A message reaches the subscriber: the oldest sent is newer than all received.
LEMMA DeliverFeedInv == ASSUME FeedInv, Deliver PROVE FeedInv'
<1>1. QInv'
  BY FeedStep, NextQInv DEF FeedInv, FeedNext
<1>2. /\ UNCHANGED <<taken, worker, job, det_>> /\ sent # <<>>
      /\ detections' = KeepLast(detections, Head(sent)) /\ sent' = Tail(sent)
  BY DEF Deliver, vars, thread, history, display_vars
<1>3. /\ sent \in Seq(Messages) /\ Increasing(Stamps(sent)) /\ Len(sent) <= Depth
      /\ InOrder(detections)
  BY DEF FeedInv, PublishedInOrder, InOrder
<1>4. /\ Tail(sent) \in Seq(Messages) /\ Increasing(Stamps(Tail(sent)))
      /\ sent[1] \in Messages /\ Head(sent) = sent[1] /\ 1 \in 1 .. Len(sent)
      /\ \A j \in 1 .. Len(Tail(sent)) : /\ j + 1 \in 1 .. Len(sent)
                                         /\ Tail(sent)[j] = sent[j + 1]
                                         /\ sent[1].stamp < Tail(sent)[j].stamp
  BY <1>2, <1>3, TailInOrder
<1>5. InOrder(sent')
  <2>1. Len(Tail(sent)) <= Depth
    <3>1. Len(Tail(sent)) = Len(sent) - 1 /\ Len(sent) \in Nat /\ Depth \in Nat
      BY <1>2, <1>3, FeedAssumption
    <3> QED BY <1>3, <3>1
  <2> QED BY <1>2, <1>4, <2>1 DEF InOrder
<1>6. /\ InOrder(detections')
      /\ \A k \in 1 .. Len(detections') :
           detections'[k] = sent[1] \/ \E l \in 1 .. Len(detections) : detections'[k] = detections[l]
  <2>1. \A k \in 1 .. Len(detections) : detections[k].stamp < sent[1].stamp
    BY <1>4 DEF FeedInv, PublishedInOrder
  <2> QED BY <1>2, <1>3, <1>4, <2>1, KeepLastInOrder
<1>7. \A j \in 1 .. Len(sent') :
        /\ OlderThanTaken(sent'[j].stamp)
        /\ sent[1].stamp < sent'[j].stamp
        /\ \A l \in 1 .. Len(detections) : detections[l].stamp < sent'[j].stamp
        /\ det_[Camera] # Nothing => det_[Camera].msg.stamp < sent'[j].stamp
  BY <1>2, <1>4 DEF FeedInv, PublishedInOrder
<1>8. \A k \in 1 .. Len(detections') :
        /\ OlderThanTaken(detections'[k].stamp)
        /\ \A j \in 1 .. Len(sent') : detections'[k].stamp < sent'[j].stamp
        /\ det_[Camera] # Nothing => det_[Camera].msg.stamp < detections'[k].stamp
  BY <1>4, <1>6, <1>7 DEF FeedInv, PublishedInOrder
<1>9. PublishedInOrder'
  BY <1>2, <1>5, <1>6, <1>7, <1>8 DEF FeedInv, PublishedInOrder, OlderThanTaken
<1> QED BY <1>1, <1>2, <1>9 DEF FeedInv

LEMMA DisplayFeedInv == ASSUME FeedInv, Display \/ UNCHANGED <<vars, feed_vars>> PROVE FeedInv'
<1>1. [Next]_vars
  BY FeedStep DEF FeedNext
<1>2. QInv'
  BY <1>1, NextQInv DEF FeedInv
<1>3. UNCHANGED <<taken, worker, job>>
  BY DEF Display, DetectionsArrive, ImageArrives, Render, TimePasses, Escape, vars, thread,
         history
<1>4. CASE UNCHANGED <<sent, detections, det_>>
  BY <1>2, <1>3, <1>4 DEF FeedInv, PublishedInOrder, OlderThanTaken
<1>5. ASSUME NEW c \in Cameras, grow_older(c), UNCHANGED topic PROVE FeedInv'
  <2>1. det_' = [det_ EXCEPT ![c].age = @ + 1] /\ det_[c] # Nothing
    BY <1>5 DEF grow_older
  <2>2. det_ \in [Cameras -> {Nothing} \cup Received]
    BY DEF FeedInv, PublishedInOrder
  <2>3. det_'[c] \in Received /\ det_'[c].msg = det_[c].msg
    BY <2>1, <2>2 DEF Received
  <2>4. det_' \in [Cameras -> {Nothing} \cup Received]
    BY <2>1, <2>2, <2>3
  <2>5. /\ det_'[Camera] # Nothing => det_[Camera] # Nothing
        /\ det_'[Camera] # Nothing => det_'[Camera].msg = det_[Camera].msg
    BY <2>1, <2>2, <2>3, FeedAssumption
  <2> QED BY <1>2, <1>3, <1>5, <2>4, <2>5 DEF FeedInv, PublishedInOrder, OlderThanTaken, topic
<1>6. CASE DetectionsArrive
  <2> DEFINE q == detections
  <2>1. PICK age \in Ages : front_detection_sub_(Camera, Head(q), age)
    BY <1>6 DEF DetectionsArrive
  <2>2. det_' = [det_ EXCEPT ![Camera] = [msg |-> Head(q), age |-> age]] /\ q # <<>>
        /\ detections' = Tail(q) /\ sent' = sent
    BY <1>6, <2>1 DEF DetectionsArrive, front_detection_sub_
  <2>3. /\ det_ \in [Cameras -> {Nothing} \cup Received] /\ age \in Int
        /\ q \in Seq(Messages) /\ Increasing(Stamps(q)) /\ Len(q) <= Depth
        /\ \A k \in 1 .. Len(q) : OlderThanTaken(q[k].stamp)
        /\ \A k \in 1 .. Len(q), j \in 1 .. Len(sent) : q[k].stamp < sent[j].stamp
    BY DisplayAssumption DEF FeedInv, PublishedInOrder, InOrder, Ages
  <2> HIDE DEF q
  <2>4. /\ Tail(q) \in Seq(Messages) /\ Increasing(Stamps(Tail(q)))
        /\ q[1] \in Messages /\ Head(q) = q[1] /\ 1 \in 1 .. Len(q)
        /\ \A k \in 1 .. Len(Tail(q)) : /\ k + 1 \in 1 .. Len(q)
                                        /\ Tail(q)[k] = q[k + 1]
                                        /\ q[1].stamp < Tail(q)[k].stamp
    BY <2>2, <2>3, TailInOrder
  <2>5. [msg |-> q[1], age |-> age] \in Received
    BY <2>3, <2>4 DEF Received
  <2>6. det_' \in [Cameras -> {Nothing} \cup Received] /\ det_'[Camera].msg = q[1]
    BY <2>2, <2>3, <2>4, <2>5, FeedAssumption
  <2>7. /\ OlderThanTaken(q[1].stamp) /\ \A k \in 1 .. Len(Tail(q)) : OlderThanTaken(Tail(q)[k].stamp)
        /\ \A j \in 1 .. Len(sent) : /\ q[1].stamp < sent[j].stamp
                                     /\ \A k \in 1 .. Len(Tail(q)) : Tail(q)[k].stamp < sent[j].stamp
    BY <2>3, <2>4
  <2>8. InOrder(Tail(q))
    <3>1. Len(Tail(q)) = Len(q) - 1 /\ Len(q) \in Nat /\ Depth \in Nat
      BY <2>2, <2>3, FeedAssumption
    <3> QED BY <2>3, <2>4, <3>1 DEF InOrder
  <2>9. PublishedInOrder'
    BY <1>3, <2>2, <2>4, <2>6, <2>7, <2>8 DEF FeedInv, PublishedInOrder, OlderThanTaken
  <2> QED BY <1>2, <1>3, <2>9 DEF FeedInv
<1>7. CASE ImageArrives \/ Render \/ Escape \/ UNCHANGED <<vars, feed_vars>>
  <2>1. UNCHANGED <<sent, detections, det_>>
    BY <1>7 DEF ImageArrives, front_image_sub_, Render, render_combined, Escape, shutdown,
                feed_vars, topic, display_vars
  <2> QED BY <1>4, <2>1
<1> QED BY <1>5, <1>6, <1>7 DEF Display, TimePasses

THEOREM FeedInvariant == FeedSpec => []FeedInv
<1>1. FeedInv /\ [FeedNext]_<<vars, feed_vars>> => FeedInv'
  BY CameraFeedInv, InferFeedInv, DeliverFeedInv, DisplayFeedInv DEF FeedNext
<1> QED BY <1>1, InitFeedInv, PTL DEF FeedSpec

\* Two ordered sequences, all of the first before all of the second.
LEMMA ConcatInOrder ==
  ASSUME NEW s \in Seq(Int), NEW t \in Seq(Int), Increasing(s), Increasing(t),
         \A i \in 1 .. Len(s), j \in 1 .. Len(t) : s[i] < t[j]
  PROVE  /\ s \o t \in Seq(Int) /\ Increasing(s \o t)
         /\ \A x \in Int : (\A i \in 1 .. Len(s) : s[i] < x) /\ (\A j \in 1 .. Len(t) : t[j] < x)
              => \A k \in 1 .. Len(s \o t) : (s \o t)[k] < x
<1> DEFINE r == s \o t
<1>1. /\ r \in Seq(Int) /\ Len(s) \in Nat /\ Len(t) \in Nat /\ Len(r) = Len(s) + Len(t)
      /\ \A k \in 1 .. Len(r) : r[k] = IF k <= Len(s) THEN s[k] ELSE t[k - Len(s)]
  OBVIOUS
<1>2. ASSUME NEW k \in 1 .. Len(r)
      PROVE  \/ k \in 1 .. Len(s) /\ r[k] = s[k]
             \/ k > Len(s) /\ k - Len(s) \in 1 .. Len(t) /\ r[k] = t[k - Len(s)]
  <2> HIDE DEF r
  <2> QED BY <1>1
<1>3. ASSUME NEW k \in 1 .. Len(r), NEW l \in 1 .. Len(r), k < l PROVE r[k] < r[l]
  <2> HIDE DEF r
  <2> DEFINE n == Len(s)
  <2>1. k \in Int /\ l \in Int /\ n \in Nat
    BY <1>1
  <2>2. /\ \/ k \in 1 .. n /\ r[k] = s[k]
           \/ k > n /\ k - n \in 1 .. Len(t) /\ r[k] = t[k - n]
        /\ \/ l \in 1 .. n /\ r[l] = s[l]
           \/ l > n /\ l - n \in 1 .. Len(t) /\ r[l] = t[l - n]
    BY <1>2
  <2>3. /\ \A i, j \in 1 .. n : i < j => s[i] < s[j]
        /\ \A i, j \in 1 .. Len(t) : i < j => t[i] < t[j]
        /\ \A i \in 1 .. n, j \in 1 .. Len(t) : s[i] < t[j]
    BY DEF Increasing
  <2> HIDE DEF n
  <2>4. CASE k \in 1 .. n /\ l \in 1 .. n
    <3>1. r[k] = s[k] /\ r[l] = s[l]
      BY <2>1, <2>2, <2>4
    <3> QED BY <1>3, <2>3, <2>4, <3>1
  <2>5. CASE k \in 1 .. n /\ l > n
    <3>1. r[k] = s[k] /\ r[l] = t[l - n] /\ l - n \in 1 .. Len(t)
      BY <2>1, <2>2, <2>5
    <3> QED BY <2>3, <2>5, <3>1
  <2>6. CASE k > n /\ l > n
    <3>1. /\ r[k] = t[k - n] /\ k - n \in 1 .. Len(t)
          /\ r[l] = t[l - n] /\ l - n \in 1 .. Len(t)
      BY <2>1, <2>2, <2>6
    <3>2. k - n < l - n
      BY <1>3, <2>1
    <3> QED BY <2>3, <3>1, <3>2
  <2> QED BY <1>3, <2>1, <2>2, <2>4, <2>5, <2>6
<1>4. ASSUME NEW x \in Int, \A i \in 1 .. Len(s) : s[i] < x, \A j \in 1 .. Len(t) : t[j] < x,
             NEW k \in 1 .. Len(r)
      PROVE  r[k] < x
  <2> HIDE DEF r
  <2> QED BY <1>2, <1>4
<1> QED BY <1>1, <1>3, <1>4 DEF Increasing

LEMMA HistoryFact ==
  ASSUME NEW q, InOrder(q)
  PROVE  /\ Stamps(q) \in Seq(Int) /\ Increasing(Stamps(q)) /\ Len(Stamps(q)) = Len(q)
         /\ \A k \in 1 .. Len(q) : Stamps(q)[k] = q[k].stamp
<1>1. q \in Seq(Messages) /\ Increasing(Stamps(q)) /\ Len(q) \in Nat
  BY DEF InOrder
<1>2. \A k \in 1 .. Len(q) : q[k].stamp \in Int
  <2>1. \A k \in 1 .. Len(q) : q[k] \in Messages
    BY <1>1
  <2> QED BY <2>1, MessageStamp DEF Time
<1>3. Stamps(q) = [k \in 1 .. Len(q) |-> q[k].stamp]
  BY <1>1 DEF Stamps
<1>4. Stamps(q) \in Seq(Int)
  BY <1>1, <1>2, <1>3
<1> QED BY <1>1, <1>4, StampsFact

\* What reaches the display is in the order of the frames: the queue drops from the
\* front, the topic drops from the front, and there is one worker.
THEOREM BoxesInOrder == FeedSpec => []BoxesNeverGoBack
<1>1. FeedInv => BoxesNeverGoBack
  <2> SUFFICES ASSUME FeedInv PROVE BoxesNeverGoBack
    OBVIOUS
  <2> DEFINE shown == IF det_[Camera] = Nothing THEN <<>> ELSE <<det_[Camera].msg.stamp>>
             received == Stamps(detections)
             published == Stamps(sent)
             working == IF worker = "inferring" THEN <<job.stamp>> ELSE <<>>
             queued == Stamps(job_queue_)
  <2>1. taken \in Time \cup {Never} /\ Time \in SUBSET Int /\ Never \notin Int
    BY CameraAssumption DEF FeedInv, QInv, TypeOK, Time
  <2>2. /\ shown \in Seq(Int) /\ Increasing(shown)
        /\ \A i \in 1 .. Len(shown) : det_[Camera] # Nothing /\ shown[i] = det_[Camera].msg.stamp
    <3>1. CASE det_[Camera] = Nothing
      <4>1. shown = <<>>
        BY <3>1
      <4> HIDE DEF shown
      <4> QED BY <4>1 DEF Increasing
    <3>2. CASE det_[Camera] # Nothing
      <4>1. shown = <<det_[Camera].msg.stamp>> /\ det_[Camera].msg.stamp \in Int
        BY <2>1, <3>2, MessageStamp, FeedAssumption DEF FeedInv, PublishedInOrder, Received
      <4> HIDE DEF shown
      <4> QED BY <3>2, <4>1 DEF Increasing
    <3> QED BY <3>1, <3>2
  <2>3. /\ received \in Seq(Int) /\ Increasing(received)
        /\ published \in Seq(Int) /\ Increasing(published)
        /\ \A i \in 1 .. Len(received) : OlderThanTaken(received[i])
        /\ \A i \in 1 .. Len(published) : OlderThanTaken(published[i])
        /\ \A i \in 1 .. Len(received), j \in 1 .. Len(published) : received[i] < published[j]
    BY HistoryFact DEF FeedInv, PublishedInOrder
  <2>4. /\ working \in Seq(Int) /\ Increasing(working)
        /\ \A i \in 1 .. Len(working) : worker = "inferring" /\ working[i] = taken /\ taken \in Int
    <3>1. CASE worker = "inferring"
      <4>1. working = <<taken>> /\ taken \in Int
        BY <2>1, <3>1 DEF FeedInv
      <4> HIDE DEF working
      <4> QED BY <3>1, <4>1 DEF Increasing
    <3>2. CASE worker # "inferring"
      <4>1. working = <<>>
        BY <3>2
      <4> HIDE DEF working
      <4> QED BY <4>1 DEF Increasing
    <3> QED BY <3>1, <3>2
  <2>5. /\ queued \in Seq(Int) /\ Increasing(queued)
        /\ \A i \in 1 .. Len(queued) : taken # Never => taken < queued[i]
    <3> DEFINE m == Len(accepted) - Len(job_queue_)
    <3>1. /\ job_queue_ \in Seq(Job) /\ accepted \in Seq(Time) /\ Len(job_queue_) <= Len(accepted)
          /\ \A i \in 1 .. Len(job_queue_) : job_queue_[i].stamp = accepted[m + i]
          /\ taken # Never => \A i \in 1 .. Len(job_queue_) : taken < job_queue_[i].stamp
          /\ Increasing(accepted)
      BY DEF FeedInv, QInv, TypeOK, QueueIsTail, TakenIsOlder
    <3>2. m \in Nat /\ Len(job_queue_) \in Nat /\ m + Len(job_queue_) = Len(accepted)
      BY <3>1
    <3>3. queued = [i \in 1 .. Len(job_queue_) |-> job_queue_[i].stamp]
      BY <3>1 DEF Stamps
    <3> HIDE DEF m
    <3>4. \A i \in 1 .. Len(job_queue_) : m + i \in 1 .. Len(accepted) /\ accepted[m + i] \in Int
      <4>1. \A i \in 1 .. Len(job_queue_) : m + i \in 1 .. Len(accepted)
        BY <3>1, <3>2
      <4>2. \A k \in 1 .. Len(accepted) : accepted[k] \in Time
        BY <3>1
      <4> QED BY <2>1, <4>1, <4>2
    <3> HIDE DEF queued
    <3>5. queued \in Seq(Int) /\ Len(queued) = Len(job_queue_)
          /\ \A i \in 1 .. Len(job_queue_) : queued[i] = accepted[m + i]
                                             /\ queued[i] = job_queue_[i].stamp
      BY <3>1, <3>2, <3>3, <3>4
    <3>6. ASSUME NEW i \in 1 .. Len(job_queue_), NEW j \in 1 .. Len(job_queue_), i < j
          PROVE  accepted[m + i] < accepted[m + j]
      <4>1. m + i < m + j
        BY <3>2, <3>6
      <4> QED BY <3>1, <3>4, <4>1 DEF Increasing
    <3> QED BY <3>1, <3>5, <3>6 DEF Increasing
  <2>6. \A i \in 1 .. Len(shown) :
          /\ \A j \in 1 .. Len(received) : shown[i] < received[j]
          /\ \A j \in 1 .. Len(published) : shown[i] < published[j]
          /\ OlderThanTaken(shown[i])
    BY <2>2, HistoryFact DEF FeedInv, PublishedInOrder
  <2>7. Pipeline = (((shown \o received) \o published) \o working) \o queued
    BY DEF Pipeline
  <2> HIDE DEF shown, received, published, working, queued
  <2>8. ASSUME NEW s \in Seq(Int), \A i \in 1 .. Len(s) : OlderThanTaken(s[i])
        PROVE  /\ \A j \in 1 .. Len(working) : \A i \in 1 .. Len(s) : s[i] < working[j]
               /\ \A j \in 1 .. Len(queued) : \A i \in 1 .. Len(s) : s[i] < queued[j]
    <3>1. \A i \in 1 .. Len(s) : /\ s[i] \in Int /\ taken # Never /\ s[i] <= taken
                                 /\ worker = "inferring" => s[i] < taken
      BY <2>8 DEF OlderThanTaken
    <3>2. ASSUME NEW j \in 1 .. Len(working), NEW i \in 1 .. Len(s) PROVE s[i] < working[j]
      BY <2>4, <3>1
    <3>3. ASSUME NEW j \in 1 .. Len(queued), NEW i \in 1 .. Len(s) PROVE s[i] < queued[j]
      <4>1. s[i] \in Int /\ taken # Never /\ s[i] <= taken
        BY <3>1
      <4>2. queued[j] \in Int /\ taken < queued[j] /\ taken \in Int
        BY <2>1, <2>5, <4>1
      <4> QED BY <4>1, <4>2
    <3> QED BY <3>2, <3>3
  <2>9. \A j \in 1 .. Len(queued) : \A i \in 1 .. Len(working) : working[i] < queued[j]
    BY <2>1, <2>4, <2>5
  <2>10. /\ \A i \in 1 .. Len(published) : published[i] \in Int
         /\ \A i \in 1 .. Len(working) : working[i] \in Int
         /\ \A i \in 1 .. Len(queued) : queued[i] \in Int
    BY <2>3, <2>4, <2>5
  <2> DEFINE a == shown \o received
             b == a \o published
             c == b \o working
  <2>11. /\ a \in Seq(Int) /\ Increasing(a)
         /\ \A j \in 1 .. Len(published) : \A k \in 1 .. Len(a) : a[k] < published[j]
         /\ \A j \in 1 .. Len(working) : \A k \in 1 .. Len(a) : a[k] < working[j]
         /\ \A j \in 1 .. Len(queued) : \A k \in 1 .. Len(a) : a[k] < queued[j]
    <3>1. /\ a \in Seq(Int) /\ Increasing(a)
          /\ \A x \in Int : /\ \A i \in 1 .. Len(shown) : shown[i] < x
                            /\ \A j \in 1 .. Len(received) : received[j] < x
                            => \A k \in 1 .. Len(a) : a[k] < x
      BY <2>2, <2>3, <2>6, ConcatInOrder
    <3>2. /\ \A j \in 1 .. Len(working) : /\ \A i \in 1 .. Len(shown) : shown[i] < working[j]
                                          /\ \A i \in 1 .. Len(received) : received[i] < working[j]
          /\ \A j \in 1 .. Len(queued) : /\ \A i \in 1 .. Len(shown) : shown[i] < queued[j]
                                         /\ \A i \in 1 .. Len(received) : received[i] < queued[j]
      BY <2>2, <2>3, <2>6, <2>8
    <3> HIDE DEF a
    <3> QED BY <2>3, <2>6, <2>10, <3>1, <3>2
  <2> HIDE DEF a
  <2>12. /\ b \in Seq(Int) /\ Increasing(b)
         /\ \A j \in 1 .. Len(working) : \A k \in 1 .. Len(b) : b[k] < working[j]
         /\ \A j \in 1 .. Len(queued) : \A k \in 1 .. Len(b) : b[k] < queued[j]
    <3>1. /\ b \in Seq(Int) /\ Increasing(b)
          /\ \A x \in Int : /\ \A i \in 1 .. Len(a) : a[i] < x
                            /\ \A j \in 1 .. Len(published) : published[j] < x
                            => \A k \in 1 .. Len(b) : b[k] < x
      BY <2>3, <2>11, ConcatInOrder
    <3>2. /\ \A j \in 1 .. Len(working) : \A i \in 1 .. Len(published) : published[i] < working[j]
          /\ \A j \in 1 .. Len(queued) : \A i \in 1 .. Len(published) : published[i] < queued[j]
      BY <2>3, <2>8
    <3> HIDE DEF b
    <3> QED BY <2>10, <2>11, <3>1, <3>2
  <2> HIDE DEF b
  <2>13. /\ c \in Seq(Int) /\ Increasing(c)
         /\ \A j \in 1 .. Len(queued) : \A k \in 1 .. Len(c) : c[k] < queued[j]
    <3>1. /\ c \in Seq(Int) /\ Increasing(c)
          /\ \A x \in Int : /\ \A i \in 1 .. Len(b) : b[i] < x
                            /\ \A j \in 1 .. Len(working) : working[j] < x
                            => \A k \in 1 .. Len(c) : c[k] < x
      BY <2>4, <2>12, ConcatInOrder
    <3> HIDE DEF c
    <3> QED BY <2>9, <2>10, <2>12, <3>1
  <2> HIDE DEF c
  <2>14. c \o queued \in Seq(Int) /\ Increasing(c \o queued)
    BY <2>5, <2>13, ConcatInOrder
  <2>15. Pipeline = c \o queued
    BY <2>7 DEF a, b, c
  <2> QED BY <2>14, <2>15 DEF Increasing, BoxesNeverGoBack
<1> QED BY <1>1, FeedInvariant, PTL

\* Every distance received, or on its way, is the one most of its pixels agree on.
THEOREM DistancesAreTheObjects == FeedSpec => []DistanceIsTheObjects
<1>1. FeedInv => DistanceIsTheObjects
  <2> SUFFICES ASSUME FeedInv PROVE DistanceIsTheObjects
    OBVIOUS
  <2>1. ReceivedOrOnItsWay \in SUBSET Messages
    BY FeedAssumption DEF FeedInv, PublishedInOrder, InOrder, ReceivedOrOnItsWay, Received
  <2>2. \A t \in Time : Message(t).stamp = t
    BY DEF Message, DetectionArray
  <2> SUFFICES ASSUME NEW msg \in Messages, NEW i \in DOMAIN msg.detections,
                      NEW near \in {DepthImage[msg.stamp].mm[p] :
                                      p \in Measured(msg, msg.detections[i])},
                      2 * Cardinality({p \in Measured(msg, msg.detections[i]) :
                                         DepthImage[msg.stamp].mm[p] = near})
                        > Cardinality(Measured(msg, msg.detections[i]))
               PROVE  msg.detections[i].distance = near
    BY <2>1 DEF DistanceIsTheObjects
  <2>3. PICK t \in Time : msg = Message(t) /\ msg.stamp = t
    BY <2>2 DEF Messages
  <2> QED BY <2>3, MessageDistance
<1> QED BY <1>1, FeedInvariant, PTL

-----------------------------------------------------------------------------
(* The refinement: camera node, topic and display implement FrameStream.   *)

\* The set of stamps of a sequence: appending adds one, and forgetting the head of a
\* sequence in order takes away the least.
LEMMA StampsOfAppend ==
  ASSUME NEW S, NEW q \in Seq(S), NEW x \in S
  PROVE  StampsOf(Append(q, x)) = StampsOf(q) \cup {x.stamp}
<1> DEFINE r == Append(q, x)
<1>1. /\ Len(q) \in Nat /\ StampsOf(q) = {q[k].stamp : k \in 1 .. Len(q)}
      /\ DOMAIN r = 1 .. Len(q) + 1 /\ r[Len(q) + 1] = x
      /\ \A k \in 1 .. Len(q) : r[k] = q[k]
  BY DEF StampsOf
<1>2. StampsOf(r) = {r[k].stamp : k \in 1 .. Len(q) + 1}
  BY <1>1 DEF StampsOf
<1>3. /\ Len(q) + 1 \in 1 .. Len(q) + 1 /\ \A k \in 1 .. Len(q) : k \in 1 .. Len(q) + 1
      /\ \A k \in 1 .. Len(q) + 1 : k \in 1 .. Len(q) \/ k = Len(q) + 1
  BY <1>1
<1> HIDE DEF r
<1> QED BY <1>1, <1>2, <1>3 DEF r

LEMMA StampsOfFact ==
  ASSUME NEW S, \A x \in S : x.stamp \in Int,
         NEW q \in Seq(S), Increasing(Stamps(q))
  PROVE  /\ StampsOf(q) \in SUBSET Int
         /\ q # <<>> =>
              /\ Head(q) \in S /\ Head(q).stamp \in StampsOf(q)
              /\ StampsOf(Tail(q)) = StampsOf(q) \ {Head(q).stamp}
              /\ \A stamp \in StampsOf(q) : Head(q).stamp <= stamp
<1>1. /\ Len(q) \in Nat /\ DOMAIN q = 1 .. Len(q)
      /\ \A k \in 1 .. Len(q) : q[k] \in S /\ q[k].stamp \in Int
      /\ \A k, l \in 1 .. Len(q) : k < l => q[k].stamp < q[l].stamp
  BY StampsFact DEF Increasing
<1>2. StampsOf(q) = {q[k].stamp : k \in 1 .. Len(q)}
  BY <1>1 DEF StampsOf
<1>3. StampsOf(q) \in SUBSET Int
  BY <1>1, <1>2
<1>4. ASSUME q # <<>>
      PROVE  /\ Head(q) \in S /\ Head(q).stamp \in StampsOf(q)
             /\ StampsOf(Tail(q)) = StampsOf(q) \ {Head(q).stamp}
             /\ \A stamp \in StampsOf(q) : Head(q).stamp <= stamp
  <2> DEFINE r == Tail(q)
  <2>1. /\ Len(q) # 0 /\ Head(q) = q[1] /\ DOMAIN r = 1 .. Len(q) - 1
        /\ \A k \in 1 .. Len(q) - 1 : r[k] = q[k + 1]
    BY <1>1, <1>4
  <2>2. StampsOf(r) = {r[k].stamp : k \in 1 .. Len(q) - 1}
    BY <2>1 DEF StampsOf
  <2>3. /\ 1 \in 1 .. Len(q) /\ \A k \in 1 .. Len(q) - 1 : k + 1 \in 1 .. Len(q) /\ 1 < k + 1
        /\ \A k \in 1 .. Len(q) : k = 1 \/ (k - 1 \in 1 .. Len(q) - 1 /\ (k - 1) + 1 = k /\ 1 < k)
    BY <1>1, <2>1
  <2> HIDE DEF r
  <2>4. \A k \in 1 .. Len(q) : k = 1 \/ q[1].stamp < q[k].stamp
    BY <1>1, <2>3
  <2>5. \A k \in 1 .. Len(q) : k = 1 \/ \E l \in 1 .. Len(q) - 1 : r[l] = q[k]
    BY <2>1, <2>3
  <2>6. \A stamp \in StampsOf(r) : stamp \in StampsOf(q) /\ q[1].stamp < stamp
    <3>1. ASSUME NEW k \in 1 .. Len(q) - 1
          PROVE  r[k].stamp \in StampsOf(q) /\ q[1].stamp < r[k].stamp
      BY <1>1, <1>2, <2>1, <2>3
    <3> QED BY <2>2, <3>1
  <2>7. \A stamp \in StampsOf(q) : stamp = q[1].stamp \/ stamp \in StampsOf(r)
    BY <1>2, <2>2, <2>5
  <2>8. q[1].stamp \in StampsOf(q) /\ q[1] \in S /\ q[1].stamp \in Int
    BY <1>1, <1>2, <2>3
  <2>9. StampsOf(r) = StampsOf(q) \ {q[1].stamp}
    BY <1>3, <2>6, <2>7, <2>8
  <2>10. \A stamp \in StampsOf(q) : q[1].stamp <= stamp
    BY <1>3, <2>6, <2>7, <2>8
  <2> QED BY <2>1, <2>8, <2>9, <2>10 DEF r
<1> QED BY <1>3, <1>4

\* A sequence has at most as many stamps as elements.
LEMMA StampsOfBound ==
  ASSUME NEW S, NEW q \in Seq(S)
  PROVE  IsFiniteSet(StampsOf(q)) /\ Cardinality(StampsOf(q)) <= Len(q)
<1> DEFINE n == Len(q)
           f == [k \in 1 .. n |-> q[k].stamp]
<1>1. n \in Nat /\ StampsOf(q) = {q[k].stamp : k \in 1 .. n}
  BY DEF StampsOf
<1>2. f \in Surjection(1 .. n, StampsOf(q))
  <2>1. f \in [1 .. n -> StampsOf(q)]
    BY <1>1
  <2>2. \A t \in StampsOf(q) : \E k \in 1 .. n : f[k] = t
    BY <1>1
  <2> HIDE DEF f
  <2> QED BY <2>1, <2>2 DEF Surjection
<1>3. IsFiniteSet(1 .. n) /\ Cardinality(1 .. n) = n
  BY <1>1, FS_Interval
<1> HIDE DEF n, f
<1>4. IsFiniteSet(StampsOf(q)) /\ Cardinality(StampsOf(q)) <= Cardinality(1 .. n)
  BY <1>2, <1>3, FS_Surjection
<1> QED BY <1>3, <1>4 DEF n

\* What is on its way, in order: the topic's two histories, worker, queue.
LEMMA InFlightFact ==
  ASSUME FeedInv
  PROVE  /\ job_queue_ \in Seq(Job) /\ Increasing(Stamps(job_queue_))
         /\ InOrder(sent) /\ InOrder(detections) /\ StampsOf(job_queue_) \in SUBSET Int
         /\ StampsOf(sent) \in SUBSET Int /\ StampsOf(detections) \in SUBSET Int
         /\ taken # Never => taken \in Int
         /\ worker = "inferring" => taken # Never /\ job.stamp = taken
         /\ \A stamp \in StampsOf(sent) \cup StampsOf(detections) : OlderThanTaken(stamp)
         /\ \A older \in StampsOf(detections), stamp \in StampsOf(sent) : older < stamp
         /\ taken # Never => \A stamp \in StampsOf(job_queue_) : taken < stamp
         /\ InFlight \in SUBSET Int /\ Never \notin InFlight
<1>1. /\ job_queue_ \in Seq(Job) /\ InOrder(sent) /\ InOrder(detections)
      /\ sent \in Seq(Messages) /\ Increasing(Stamps(sent))
      /\ detections \in Seq(Messages) /\ Increasing(Stamps(detections))
      /\ worker = "inferring" => taken # Never /\ job.stamp = taken
  BY DEF FeedInv, QInv, TypeOK, PublishedInOrder, InOrder
<1>2. taken # Never => taken \in Int
  BY DEF FeedInv, QInv, TypeOK, Time
<1>3. Increasing(Stamps(job_queue_))
  <2> DEFINE m == Len(accepted) - Len(job_queue_)
  <2>1. /\ accepted \in Seq(Time) /\ Len(job_queue_) <= Len(accepted)
        /\ \A k \in 1 .. Len(job_queue_) : job_queue_[k].stamp = accepted[m + k]
        /\ Increasing(accepted)
    BY DEF FeedInv, QInv, TypeOK, QueueIsTail
  <2>2. m \in Nat /\ Len(job_queue_) \in Nat /\ m + Len(job_queue_) = Len(accepted)
    BY <1>1, <2>1
  <2> HIDE DEF m
  <2>3. \A k \in 1 .. Len(job_queue_) : m + k \in 1 .. Len(accepted)
    BY <2>2
  <2>4. \A k, l \in 1 .. Len(job_queue_) : k < l => m + k < m + l
    BY <2>2
  <2>5. \A k, l \in 1 .. Len(job_queue_) : k < l => job_queue_[k].stamp < job_queue_[l].stamp
    BY <2>1, <2>3, <2>4 DEF Increasing
  <2> QED BY <1>1, <2>5, StampsFact DEF Increasing
<1>4. /\ \A x \in Job : x.stamp \in Int
      /\ \A x \in Messages : x.stamp \in Int
  BY MessageStamp DEF Job, Time
<1>5. /\ StampsOf(job_queue_) \in SUBSET Int
      /\ StampsOf(sent) \in SUBSET Int /\ StampsOf(detections) \in SUBSET Int
  BY <1>1, <1>3, <1>4, StampsOfFact
<1>6. /\ \A stamp \in StampsOf(sent) \cup StampsOf(detections) : OlderThanTaken(stamp)
      /\ \A older \in StampsOf(detections), stamp \in StampsOf(sent) : older < stamp
  <2>1. /\ StampsOf(sent) = {sent[k].stamp : k \in 1 .. Len(sent)}
        /\ StampsOf(detections) = {detections[k].stamp : k \in 1 .. Len(detections)}
    BY <1>1 DEF StampsOf
  <2> QED BY <2>1 DEF FeedInv, PublishedInOrder
<1>7. taken # Never => \A stamp \in StampsOf(job_queue_) : taken < stamp
  <2>1. StampsOf(job_queue_) = {job_queue_[k].stamp : k \in 1 .. Len(job_queue_)}
    BY <1>1 DEF StampsOf
  <2> QED BY <2>1 DEF FeedInv, QInv, TakenIsOlder
<1>8. InFlight \in SUBSET Int /\ Never \notin InFlight
  <2>1. InFlight \in SUBSET Int
    BY <1>1, <1>2, <1>5 DEF InFlight
  <2> QED BY <2>1, CameraAssumption
<1> QED BY <1>1, <1>2, <1>3, <1>5, <1>6, <1>7, <1>8

\* At most a full queue, the worker's job and two full histories are on their way.
LEMMA InFlightBound ==
  ASSUME FeedInv
  PROVE  IsFiniteSet(InFlight) /\ Cardinality(InFlight) <= Capacity + 1 + 2 * Depth
<1> DEFINE queued == StampsOf(job_queue_)
           published == StampsOf(sent)
           received == StampsOf(detections)
           working == IF worker = "inferring" THEN {job.stamp} ELSE {}
<1>1. /\ Len(job_queue_) \in Nat /\ Len(sent) \in Nat /\ Len(detections) \in Nat
      /\ Len(job_queue_) <= Capacity /\ Len(sent) <= Depth /\ Len(detections) <= Depth
      /\ Capacity \in Nat /\ Depth \in Nat
  BY InFlightFact, CameraAssumption, FeedAssumption DEF FeedInv, QInv, QueueIsTail, InOrder
<1>2. /\ IsFiniteSet(queued) /\ Cardinality(queued) <= Len(job_queue_)
      /\ IsFiniteSet(published) /\ Cardinality(published) <= Len(sent)
      /\ IsFiniteSet(received) /\ Cardinality(received) <= Len(detections)
  BY InFlightFact, StampsOfBound DEF InOrder
<1>3. IsFiniteSet(working) /\ Cardinality(working) <= 1
  <2>1. working = {job.stamp} \/ working = {}
    OBVIOUS
  <2> HIDE DEF working
  <2>2. CASE working = {job.stamp}
    <3>1. IsFiniteSet({job.stamp}) /\ Cardinality({job.stamp}) = 1
      BY FS_Singleton
    <3> QED BY <2>2, <3>1
  <2>3. CASE working = {}
    <3>1. IsFiniteSet({}) /\ Cardinality({}) = 0
      BY FS_EmptySet
    <3> QED BY <2>3, <3>1
  <2> QED BY <2>1, <2>2, <2>3
<1>4. InFlight = ((queued \cup published) \cup received) \cup working
  BY DEF InFlight
<1> HIDE DEF queued, published, received, working
<1>5. ASSUME NEW A, NEW B, IsFiniteSet(A), IsFiniteSet(B)
      PROVE  /\ IsFiniteSet(A \cup B)
             /\ Cardinality(A) \in Nat /\ Cardinality(B) \in Nat /\ Cardinality(A \cup B) \in Nat
             /\ Cardinality(A \cup B) <= Cardinality(A) + Cardinality(B)
  <2>1. IsFiniteSet(A \cup B) /\ IsFiniteSet(A \cap B)
    <3>1. A \cap B \in SUBSET A
      OBVIOUS
    <3> QED BY <1>5, <3>1, FS_Union, FS_Subset
  <2>2. Cardinality(A \cup B) = Cardinality(A) + Cardinality(B) - Cardinality(A \cap B)
    BY <1>5, FS_Union
  <2>3. /\ Cardinality(A) \in Nat /\ Cardinality(B) \in Nat /\ Cardinality(A \cup B) \in Nat
        /\ Cardinality(A \cap B) \in Nat
    BY <1>5, <2>1, FS_CardinalityType
  <2> QED BY <2>1, <2>2, <2>3
<1> DEFINE a == queued \cup published
           b == a \cup received
<1>6. /\ IsFiniteSet(a) /\ Cardinality(a) \in Nat
      /\ Cardinality(queued) \in Nat /\ Cardinality(published) \in Nat
      /\ Cardinality(a) <= Cardinality(queued) + Cardinality(published)
  BY <1>2, <1>5
<1> HIDE DEF a
<1>7. /\ IsFiniteSet(b) /\ Cardinality(b) \in Nat /\ Cardinality(received) \in Nat
      /\ Cardinality(b) <= Cardinality(a) + Cardinality(received)
  BY <1>2, <1>5, <1>6
<1> HIDE DEF b
<1>8. /\ IsFiniteSet(InFlight) /\ Cardinality(working) \in Nat /\ Cardinality(InFlight) \in Nat
      /\ Cardinality(InFlight) <= Cardinality(b) + Cardinality(working)
  BY <1>3, <1>4, <1>5, <1>7 DEF a, b
<1> QED BY <1>1, <1>2, <1>3, <1>6, <1>7, <1>8

StreamInv == FeedInv /\ Cardinality(InFlight) <= Capacity + 1 + 2 * Depth

THEOREM StreamInvariant == FeedSpec => []StreamInv
<1>1. FeedInv => StreamInv
  BY InFlightBound DEF StreamInv
<1> QED BY <1>1, FeedInvariant, PTL

\* Queueing drops nothing, or the head.
LEMMA EnqueueStamps ==
  ASSUME NEW q \in Seq(Job), Increasing(Stamps(q)), Len(q) <= Capacity, NEW j \in Job
  PROVE  \/ StampsOf(Enqueue(q, j)) = StampsOf(q) \cup {j.stamp}
         \/ /\ q # <<>>
            /\ StampsOf(Enqueue(q, j)) = (StampsOf(q) \ {Head(q).stamp}) \cup {j.stamp}
<1>1. Len(q) \in Nat /\ Capacity \in Nat \ {0}
  BY CameraAssumption
<1>2. CASE Len(q) < Capacity
  <2>1. Enqueue(q, j) = Append(q, j)
    BY <1>1, <1>2 DEF Enqueue
  <2> QED BY <2>1, StampsOfAppend
<1>3. CASE Len(q) = Capacity
  <2>1. q # <<>>
    BY <1>1, <1>3
  <2>2. SubSeq(q, 2, Len(q)) = Tail(q) /\ Tail(q) \in Seq(Job)
    BY <2>1
  <2>3. Enqueue(q, j) = Append(Tail(q), j)
    <3>1. Len(q) - Capacity + 2 = 2
      BY <1>1, <1>3
    <3> QED BY <1>1, <1>3, <2>2, <3>1 DEF Enqueue
  <2>4. StampsOf(Append(Tail(q), j)) = StampsOf(Tail(q)) \cup {j.stamp}
    BY <2>2, StampsOfAppend
  <2>5. StampsOf(Tail(q)) = StampsOf(q) \ {Head(q).stamp}
    <3>1. \A x \in Job : x.stamp \in Int
      BY DEF Job, Time
    <3> QED BY <2>1, <3>1, StampsOfFact
  <2> QED BY <2>1, <2>3, <2>4, <2>5
<1> QED BY <1>1, <1>2, <1>3

\* A frame is queued: it is accepted, and a full queue loses its head.
LEMMA PushStream ==
  ASSUME StreamInv, StreamInv', push_job, UNCHANGED feed_vars
  PROVE  Stream!Accept
<1> DEFINE frame == incoming.stamp
           others == StampsOf(sent) \cup StampsOf(detections)
                       \cup (IF worker = "inferring" THEN {job.stamp} ELSE {})
<1>1. /\ incoming \in Job /\ frame \in Time /\ job_queue_ \in Seq(Job)
      /\ accepted \in Seq(Time) /\ Len(job_queue_) <= Capacity
      /\ Increasing(Stamps(job_queue_))
      /\ \A i \in 1 .. Len(accepted) : accepted[i] < frame
  BY InFlightFact DEF push_job, StreamInv, FeedInv, QInv, TypeOK, QueueIsTail, NewestIncoming, Job
<1>2. /\ job_queue_' = Enqueue(job_queue_, incoming) /\ accepted' = Append(accepted, frame)
      /\ UNCHANGED <<worker, job, sent, detections, det_>>
  BY DEF push_job, feed_vars, topic, display_vars
<1>3. UNCHANGED Shown
  BY <1>2 DEF Shown
<1>4. Newest' = frame /\ (Newest # Never => Newest < frame)
  <2>1. accepted' # <<>> /\ accepted'[Len(accepted')] = frame
    BY <1>1, <1>2
  <2>2. accepted # <<>> => accepted[Len(accepted)] < frame
    BY <1>1
  <2> QED BY <2>1, <2>2 DEF Newest
<1>5. InFlight = StampsOf(job_queue_) \cup others /\ InFlight' = StampsOf(job_queue_') \cup others
  BY <1>2 DEF InFlight
<1>6. \E lost \in InFlight \cup {Never} : InFlight' = (InFlight \ {lost}) \cup {frame}
  <2>1. CASE StampsOf(job_queue_') = StampsOf(job_queue_) \cup {frame}
    <3>1. InFlight' = (InFlight \ {Never}) \cup {frame}
      BY <1>5, <2>1, InFlightFact DEF StreamInv
    <3> QED BY <3>1
  <2>2. CASE /\ job_queue_ # <<>>
             /\ StampsOf(job_queue_') = (StampsOf(job_queue_) \ {Head(job_queue_).stamp}) \cup {frame}
    <3> DEFINE lost == Head(job_queue_).stamp
    <3>1. lost \in StampsOf(job_queue_) /\ lost \in Int
      <4>1. \A x \in Job : x.stamp \in Int
        BY DEF Job, Time
      <4> QED BY <1>1, <2>2, <4>1, StampsOfFact
    <3>2. lost \notin others
      <4>1. \A stamp \in others : taken # Never /\ stamp <= taken /\ taken \in Int /\ stamp \in Int
        BY InFlightFact DEF StreamInv, OlderThanTaken
      <4>2. taken # Never => taken < lost
        BY <3>1, InFlightFact DEF StreamInv
      <4> HIDE DEF others, lost
      <4> QED BY <3>1, <4>1, <4>2
    <3> HIDE DEF others
    <3>3. InFlight' = (InFlight \ {lost}) \cup {frame}
      BY <1>5, <2>2, <3>1, <3>2
    <3> QED BY <1>5, <3>1, <3>3
  <2> QED BY <1>1, <1>2, <2>1, <2>2, EnqueueStamps
<1>7. Cardinality(InFlight)' <= Capacity + 1 + 2 * Depth
  BY DEF StreamInv
<1>8. frame \in Time
  BY <1>1
<1>9. PICK lost \in InFlight \cup {Never} : InFlight' = (InFlight \ {lost}) \cup {frame}
  BY <1>6
<1>10. Cardinality(InFlight') <= Capacity + 1 + 2 * Depth
  BY <1>7
<1> HIDE DEF frame
<1> QED BY <1>3, <1>4, <1>8, <1>9, <1>10 DEF Stream!Accept, Stream!Cardinality, Cardinality

\* A job is taken: it stays on its way.
LEMMA TakeStream ==
  ASSUME StreamInv, take_job, UNCHANGED feed_vars
  PROVE  UNCHANGED Stream!vars
<1>1. worker = "taking" /\ UNCHANGED <<accepted, sent, detections, det_>>
  BY DEF take_job, quiet, feed_vars, topic, display_vars
<1>2. InFlight' = InFlight
  <2>1. CASE worker' = "exited" /\ UNCHANGED job_queue_
    BY <1>1, <2>1 DEF InFlight
  <2>2. CASE worker' = "inferring" /\ job' = Head(job_queue_) /\ job_queue_' = Tail(job_queue_)
    <3>1. job_queue_ # <<>>
      BY <2>2 DEF take_job, StreamInv, FeedInv, QInv, TakesSomething
    <3>2. \A x \in Job : x.stamp \in Int
      BY DEF Job, Time
    <3>3. /\ Head(job_queue_).stamp \in StampsOf(job_queue_)
          /\ StampsOf(Tail(job_queue_)) = StampsOf(job_queue_) \ {Head(job_queue_).stamp}
      BY <3>1, <3>2, StampsOfFact, InFlightFact DEF StreamInv
    <3> QED BY <1>1, <2>2, <3>3 DEF InFlight
  <2> QED BY <2>1, <2>2 DEF take_job
<1> QED BY <1>1, <1>2 DEF Stream!vars, Newest, Shown

\* A history gets the message, and may lose its oldest for it.
LEMMA KeepLastStamps ==
  ASSUME NEW q, InOrder(q), NEW msg \in Messages,
         \A k \in 1 .. Len(q) : q[k].stamp < msg.stamp
  PROVE  \/ StampsOf(KeepLast(q, msg)) = StampsOf(q) \cup {msg.stamp}
         \/ \E lost \in StampsOf(q) \cup {msg.stamp} :
              StampsOf(KeepLast(q, msg)) = (StampsOf(q) \cup {msg.stamp}) \ {lost}
<1> DEFINE r == Append(q, msg)
<1>1. q \in Seq(Messages) /\ Increasing(Stamps(q))
  BY DEF InOrder
<1>2. /\ r \in Seq(Messages) /\ Increasing(Stamps(r)) /\ r # <<>>
      /\ StampsOf(r) = StampsOf(q) \cup {msg.stamp}
  BY <1>1, AppendInOrder, StampsOfAppend
<1>3. KeepLast(q, msg) = IF Len(r) > Depth THEN Tail(r) ELSE r
  BY DEF KeepLast
<1> HIDE DEF r
<1>4. \A x \in Messages : x.stamp \in Int
  BY MessageStamp DEF Time
<1>5. Head(r).stamp \in StampsOf(r) /\ StampsOf(Tail(r)) = StampsOf(r) \ {Head(r).stamp}
  BY <1>2, <1>4, StampsOfFact
<1> QED BY <1>2, <1>3, <1>5

\* Inference ends: the frame goes into the publisher's history, where it may drive out
\* the oldest, or is skipped.
LEMMA InferStream ==
  ASSUME StreamInv, Infer
  PROVE  Stream!Lose \/ UNCHANGED Stream!vars
<1> DEFINE published == StampsOf(sent)
           others == StampsOf(job_queue_) \cup StampsOf(detections)
           frame == job.stamp
<1>1. /\ worker = "inferring" /\ worker' = "loop" /\ job \in Job
      /\ UNCHANGED <<accepted, job_queue_, detections, det_>>
      /\ \/ sent' = sent
         \/ sent' = KeepLast(sent, Message(frame))
  BY DEF Infer, infer_and_publish, quiet, display_vars, StreamInv, FeedInv, QInv, TypeOK, NoJob, Job
<1>2. /\ UNCHANGED <<Newest, Shown>>
      /\ InFlight = others \cup published \cup {frame}
      /\ InFlight' = others \cup StampsOf(sent')
  BY <1>1 DEF Newest, Shown, InFlight
<1>3. /\ InOrder(sent) /\ frame = taken /\ taken \in Int
      /\ \A stamp \in published : stamp < taken
      /\ \A stamp \in StampsOf(detections) : stamp < taken
      /\ \A stamp \in StampsOf(job_queue_) : taken < stamp
      /\ \A older \in StampsOf(detections), stamp \in published : older < stamp
      /\ published \in SUBSET Int /\ others \in SUBSET Int
  BY <1>1, InFlightFact DEF StreamInv, OlderThanTaken
<1>4. \A stamp \in published \cup {frame} : stamp \notin others
  <2> HIDE DEF published, frame
  <2> QED BY <1>3
<1>5. CASE sent' = sent
  <2>1. StampsOf(sent') = published /\ frame \notin published
    BY <1>3, <1>5
  <2> HIDE DEF published, others, frame
  <2>2. InFlight' = InFlight \ {frame} /\ frame \in InFlight
    BY <1>2, <1>4, <2>1
  <2> QED BY <1>2, <2>2 DEF Stream!Lose
<1>6. CASE sent' = KeepLast(sent, Message(frame))
  <2> DEFINE msg == Message(frame)
  <2>1. msg \in Messages /\ msg.stamp = frame
    BY <1>1 DEF Messages, Message, DetectionArray, Job
  <2>2. \A k \in 1 .. Len(sent) : sent[k].stamp < msg.stamp
    BY <1>1, <1>3, <2>1 DEF StreamInv, FeedInv, PublishedInOrder, OlderThanTaken
  <2> HIDE DEF msg
  <2>3. \/ StampsOf(sent') = published \cup {frame}
        \/ \E lost \in published \cup {frame} :
             StampsOf(sent') = (published \cup {frame}) \ {lost}
    BY <1>3, <1>6, <2>1, <2>2, KeepLastStamps DEF msg
  <2> HIDE DEF published, others, frame
  <2>4. CASE StampsOf(sent') = published \cup {frame}
    <3>1. InFlight' = InFlight
      BY <1>2, <2>4
    <3> QED BY <1>2, <3>1 DEF Stream!vars
  <2>5. ASSUME NEW lost \in published \cup {frame},
               StampsOf(sent') = (published \cup {frame}) \ {lost}
        PROVE  Stream!Lose
    <3>1. InFlight' = InFlight \ {lost} /\ lost \in InFlight
      BY <1>2, <1>4, <2>5
    <3> QED BY <1>2, <3>1 DEF Stream!Lose
  <2> QED BY <2>3, <2>4, <2>5
<1> QED BY <1>1, <1>5, <1>6

\* A message reaches the subscriber, whose history may lose its oldest for it.
LEMMA DeliverStream ==
  ASSUME StreamInv, Deliver
  PROVE  Stream!Lose \/ UNCHANGED Stream!vars
<1> DEFINE msg == Head(sent)
           frame == msg.stamp
           received == StampsOf(detections)
           published == StampsOf(sent)
           working == IF worker = "inferring" THEN {job.stamp} ELSE {}
           others == StampsOf(job_queue_) \cup working \cup StampsOf(Tail(sent))
<1>1. /\ sent # <<>> /\ sent' = Tail(sent) /\ detections' = KeepLast(detections, msg)
      /\ UNCHANGED <<accepted, job_queue_, worker, job, det_>>
  BY DEF Deliver, vars, thread, history, display_vars
<1>2. /\ InOrder(sent) /\ InOrder(detections) /\ sent \in Seq(Messages)
      /\ Increasing(Stamps(sent))
  BY InFlightFact DEF StreamInv, InOrder
<1>3. /\ msg \in Messages /\ frame \in published
      /\ StampsOf(Tail(sent)) = published \ {frame}
      /\ \A stamp \in published : frame <= stamp
  <2>1. \A x \in Messages : x.stamp \in Int
    BY MessageStamp DEF Time
  <2> QED BY <1>1, <1>2, <2>1, StampsOfFact
<1>4. /\ InFlight = others \cup received \cup {frame}
      /\ InFlight' = others \cup StampsOf(detections')
      /\ UNCHANGED <<Newest, Shown>>
  <2>1. /\ InFlight = StampsOf(job_queue_) \cup published \cup received \cup working
        /\ InFlight' = StampsOf(job_queue_) \cup StampsOf(Tail(sent)) \cup StampsOf(detections')
                        \cup working
        /\ UNCHANGED <<Newest, Shown>>
    BY <1>1 DEF InFlight, Newest, Shown
  <2>2. published = StampsOf(Tail(sent)) \cup {frame}
    BY <1>3
  <2> HIDE DEF published, received, working, frame
  <2> QED BY <2>1, <2>2
<1>5. \A stamp \in received \cup {frame} : stamp \notin others
  <2>1. /\ received \in SUBSET Int /\ published \in SUBSET Int
        /\ StampsOf(job_queue_) \in SUBSET Int
        /\ \A stamp \in received \cup published :
             /\ taken # Never /\ taken \in Int /\ stamp <= taken
             /\ worker = "inferring" => stamp < taken
        /\ \A older \in received, stamp \in published : older < stamp
        /\ taken # Never => \A stamp \in StampsOf(job_queue_) : taken < stamp
        /\ worker = "inferring" => job.stamp = taken
    BY InFlightFact DEF StreamInv, OlderThanTaken
  <2>2. \A stamp \in working : worker = "inferring" /\ stamp = taken
    BY <2>1
  <2> HIDE DEF received, published, working, frame
  <2>3. \A stamp \in received \cup {frame} :
          /\ stamp \notin StampsOf(job_queue_) /\ stamp \notin working
    BY <1>3, <2>1, <2>2
  <2>4. \A stamp \in received \cup {frame} : stamp \notin StampsOf(Tail(sent))
    BY <1>3, <2>1
  <2> QED BY <2>3, <2>4
<1>6. \/ StampsOf(detections') = received \cup {frame}
      \/ \E lost \in received \cup {frame} :
           StampsOf(detections') = (received \cup {frame}) \ {lost}
  <2>1. \A k \in 1 .. Len(detections) : detections[k].stamp < frame
    <3>1. sent[1] = Head(sent) /\ 1 \in 1 .. Len(sent)
      BY <1>1, <1>2
    <3> QED BY <3>1 DEF StreamInv, FeedInv, PublishedInOrder
  <2> HIDE DEF msg
  <2> QED BY <1>1, <1>2, <1>3, <2>1, KeepLastStamps
<1> HIDE DEF frame, received, others
<1>7. CASE StampsOf(detections') = received \cup {frame}
  <2>1. InFlight' = InFlight
    BY <1>4, <1>7
  <2> QED BY <1>4, <2>1 DEF Stream!vars
<1>8. ASSUME NEW lost \in received \cup {frame},
             StampsOf(detections') = (received \cup {frame}) \ {lost}
      PROVE  Stream!Lose
  <2>1. InFlight' = InFlight \ {lost} /\ lost \in InFlight
    BY <1>4, <1>5, <1>8
  <2> QED BY <1>4, <2>1 DEF Stream!Lose
<1> QED BY <1>6, <1>7, <1>8

\* The display takes the head of the topic: the oldest frame on its way.
LEMMA ArriveStream ==
  ASSUME StreamInv, DetectionsArrive
  PROVE  Stream!Show
<1> DEFINE frame == Head(detections).stamp
           working == IF worker = "inferring" THEN {job.stamp} ELSE {}
<1>1. PICK age \in Ages : front_detection_sub_(Camera, Head(detections), age)
  BY DEF DetectionsArrive
<1>2. /\ detections # <<>> /\ detections' = Tail(detections)
      /\ det_' = [det_ EXCEPT ![Camera] = [msg |-> Head(detections), age |-> age]]
      /\ UNCHANGED <<accepted, job_queue_, worker, job, sent>>
  BY <1>1 DEF DetectionsArrive, front_detection_sub_, vars, thread, history
<1>3. /\ det_ \in [Cameras -> {Nothing} \cup Received] /\ age \in Int
      /\ detections \in Seq(Messages) /\ Increasing(Stamps(detections))
  BY InFlightFact, DisplayAssumption DEF StreamInv, FeedInv, PublishedInOrder, InOrder, Ages
<1>4. /\ Head(detections) \in Messages /\ frame \in StampsOf(detections) /\ frame \in Int
      /\ StampsOf(Tail(detections)) = StampsOf(detections) \ {frame}
      /\ \A stamp \in StampsOf(detections) : frame <= stamp
  <2>1. \A x \in Messages : x.stamp \in Int
    BY MessageStamp DEF Time
  <2> QED BY <1>2, <1>3, <2>1, StampsOfFact
<1>5. Shown' = frame
  <2> DEFINE received == [msg |-> Head(detections), age |-> age]
  <2>1. received \in Received /\ received.msg = Head(detections)
    BY <1>3, <1>4 DEF Received
  <2> HIDE DEF received
  <2>2. det_'[Camera] = received
    BY <1>2, <1>3, FeedAssumption DEF received
  <2>3. received # Nothing
    BY <2>1, NullAssumption DEF Received, Messages, Message
  <2> QED BY <2>1, <2>2, <2>3 DEF Shown
<1>6. \A stamp \in StampsOf(job_queue_) \cup working \cup StampsOf(sent) : frame < stamp
  <2>1. taken # Never /\ taken \in Int /\ frame <= taken /\ (worker = "inferring" => frame < taken)
    BY <1>4, InFlightFact DEF StreamInv, OlderThanTaken
  <2>2. StampsOf(job_queue_) \in SUBSET Int /\ (\A stamp \in StampsOf(job_queue_) : taken < stamp)
        /\ (worker = "inferring" => job.stamp = taken)
        /\ \A stamp \in StampsOf(sent) : frame < stamp
    BY <1>4, <2>1, InFlightFact DEF StreamInv
  <2> HIDE DEF frame
  <2> QED BY <1>4, <2>1, <2>2
<1>7. /\ InFlight = StampsOf(job_queue_) \cup StampsOf(sent) \cup StampsOf(detections) \cup working
      /\ InFlight' = StampsOf(job_queue_) \cup StampsOf(sent) \cup StampsOf(Tail(detections))
                      \cup working
  BY <1>2 DEF InFlight
<1> HIDE DEF frame, working
<1>8. /\ frame \in InFlight /\ InFlight' = InFlight \ {frame}
      /\ \A other \in InFlight : frame <= other
  <2>1. \A stamp \in StampsOf(job_queue_) \cup working \cup StampsOf(sent) :
          stamp # frame /\ frame <= stamp
    <3>1. InFlight \in SUBSET Int
      BY InFlightFact DEF StreamInv
    <3> QED BY <1>4, <1>6, <1>7, <3>1
  <2> QED BY <1>4, <1>7, <2>1
<1>9. UNCHANGED Newest
  BY <1>2 DEF Newest
<1> QED BY <1>5, <1>8, <1>9 DEF Stream!Show

\* The other steps, and stuttering, neither move a frame nor lose one.
LEMMA QuietStream ==
  ASSUME StreamInv,
         \/ CameraNode /\ ~push_job /\ ~take_job
         \/ ImageArrives \/ Render \/ TimePasses \/ Escape
         \/ UNCHANGED <<vars, feed_vars>>
  PROVE  UNCHANGED Stream!vars
<1>1. /\ UNCHANGED <<accepted, job_queue_, sent, detections>>
      /\ worker' = "inferring" <=> worker = "inferring"
      /\ worker = "inferring" => UNCHANGED job
  <2>1. ASSUME NEW t, NEW e, image_callback(t, e)
        PROVE  UNCHANGED <<accepted, job_queue_, worker, job>>
    BY <2>1 DEF image_callback, history
  <2>2. ASSUME queue_cv_notify_one \/ queue_cv_notify_all
        PROVE  /\ UNCHANGED <<accepted, job_queue_, job>>
               /\ worker' = "inferring" <=> worker = "inferring"
    BY <2>2 DEF queue_cv_notify_one, queue_cv_notify_all, Wake, history
  <2>3. ASSUME \/ spurious_wakeup \/ while_running \/ lock_queue_mutex
               \/ wait_predicate \/ wait_sleep
        PROVE  /\ UNCHANGED <<accepted, job_queue_, job>>
               /\ worker' = "inferring" <=> worker = "inferring"
    BY <2>3 DEF spurious_wakeup, while_running, lock_queue_mutex, wait_predicate, wait_sleep,
                quiet
  <2>4. CASE CameraNode /\ ~push_job /\ ~take_job
    <3>1. UNCHANGED <<sent, detections>>
      BY <2>4 DEF CameraNode, feed_vars, topic
    <3>2. ASSUME stop_worker \/ worker_thread_join
          PROVE  UNCHANGED <<accepted, job_queue_, worker, job>>
      BY <3>2 DEF stop_worker, worker_thread_join, history
    <3> QED BY <2>1, <2>2, <2>3, <2>4, <3>1, <3>2 DEF CameraNode, FrameArrives, Executor
  <2>5. CASE \/ ImageArrives \/ Render \/ TimePasses \/ Escape
             \/ UNCHANGED <<vars, feed_vars>>
    BY <2>5 DEF ImageArrives, Render, TimePasses, Escape, vars, feed_vars, topic, thread, history
  <2> QED BY <2>4, <2>5
<1>2. UNCHANGED Shown
  <2>1. ASSUME NEW c \in Cameras, grow_older(c) PROVE UNCHANGED Shown
    <3>1. det_' = [det_ EXCEPT ![c].age = @ + 1] /\ det_[c] # Nothing
      BY <2>1 DEF grow_older
    <3>2. det_ \in [Cameras -> {Nothing} \cup Received]
      BY DEF StreamInv, FeedInv, PublishedInOrder
    <3>3. det_'[c] \in Received /\ det_'[c].msg = det_[c].msg
      BY <3>1, <3>2 DEF Received
    <3>4. det_'[c] # Nothing
      BY <3>3, NullAssumption DEF Received, Messages, Message
    <3>5. Camera # c => det_'[Camera] = det_[Camera]
      BY <3>1, <3>2, FeedAssumption
    <3> QED BY <3>1, <3>3, <3>4, <3>5 DEF Shown
  <2>2. CASE UNCHANGED det_
    BY <2>2 DEF Shown
  <2> QED BY <2>1, <2>2 DEF CameraNode, ImageArrives, front_image_sub_, Render,
             render_combined, TimePasses, Escape, shutdown, feed_vars, display_vars
<1> QED BY <1>1, <1>2 DEF Stream!vars, Newest, InFlight

\* The camera node, the topic and the display implement the stream: frames are lost on
\* the way, but those shown are frames accepted, in order, once each, and the backlog
\* is bounded by the queue, the worker and the topic's two histories.
THEOREM StreamRefinement == FeedSpec => ImplementsFrameStream
<1>1. FeedInit => Stream!Init
  <2> SUFFICES ASSUME FeedInit PROVE Stream!Init
    OBVIOUS
  <2>1. /\ accepted = <<>> /\ worker = "loop" /\ job_queue_ = <<>> /\ sent = <<>>
        /\ detections = <<>> /\ det_[Camera] = Nothing
    BY FeedAssumption DEF FeedInit, Init, DisplayInit
  <2>2. StampsOf(<<>>) = {}
    BY DEF StampsOf
  <2> QED BY <2>1, <2>2 DEF Stream!Init, Newest, InFlight, Shown
<1>2. ASSUME StreamInv, StreamInv', [FeedNext]_<<vars, feed_vars>>
      PROVE  [Stream!Next]_Stream!vars
  <2>1. CASE CameraNode
    <3>1. CASE push_job
      BY <1>2, <2>1, <3>1, PushStream DEF CameraNode, Stream!Next
    <3>2. CASE take_job
      BY <1>2, <2>1, <3>2, TakeStream DEF CameraNode
    <3> QED BY <1>2, <2>1, <3>1, <3>2, QuietStream
  <2>2. CASE Infer
    BY <1>2, <2>2, InferStream DEF Stream!Next
  <2>3. CASE DetectionsArrive
    BY <1>2, <2>3, ArriveStream DEF Stream!Next
  <2>4. CASE Deliver
    BY <1>2, <2>4, DeliverStream DEF Stream!Next
  <2>5. CASE \/ ImageArrives \/ Render \/ TimePasses \/ Escape
             \/ UNCHANGED <<vars, feed_vars>>
    BY <1>2, <2>5, QuietStream
  <2> QED BY <1>2, <2>1, <2>2, <2>3, <2>4, <2>5 DEF FeedNext, Display
<1> QED BY <1>1, <1>2, StreamInvariant, PTL DEF FeedSpec, ImplementsFrameStream, Stream!Spec
=============================================================================
