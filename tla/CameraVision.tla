---------------------------- MODULE CameraVision ----------------------------
(***************************************************************************)
(* The two camera nodes (bottom_camera_vision.cpp, and front_camera_vision *)
(* .cpp, which has the same structure): the executor thread turns frames   *)
(* into jobs of a bounded queue, a worker thread runs the network on them  *)
(* and publishes the detections, and the destructor stops the worker.      *)
(*                                                                         *)
(* main and worker are the control points of the two threads.  The worker  *)
(* holds queue_mutex_ in "testing", "checked" and "taking"; the critical   *)
(* section of the callback is one step, taken while the mutex is free.     *)
(* condition_variable::wait(lock, pred) is a loop: test the predicate with *)
(* the mutex held; if false, release it and sleep in one step; on a wakeup *)
(* take the mutex again and test again.                                    *)
(***************************************************************************)
EXTENDS Integers, Sequences

CONSTANTS Capacity,    \* the queue bound, 2 in the code
          Period,      \* 1 / inference_hz_, or 0 for no limit
          SavePeriod,  \* the 5 s between saved frames
          MaxTime,     \* bound: frames arrive, with that stamp, at 1 .. MaxTime
          Never        \* no time: an empty std::optional, last_save_s_ = 0.0,
                       \* or nothing taken yet

ASSUME CameraAssumption ==
  /\ Capacity \in Nat \ {0}
  /\ Period \in Nat /\ SavePeriod \in Nat \ {0} /\ MaxTime \in Nat
  /\ Never \notin Int

VARIABLES
  main,                  \* executor thread, later the destructor
  worker,
  worker_running_, job_queue_, last_inference_time_, last_save_s_,
  incoming,              \* the job built by the callback
  job,                   \* the job the worker holds
  now,
  \* history
  accepted,              \* stamps of all frames queued so far
  taken,                 \* stamp of the last frame the worker took
  after_stop             \* jobs finished since worker_running_ was cleared

thread == <<main, worker>>
history == <<accepted, taken, after_stop>>
vars == <<thread, worker_running_, job_queue_, last_inference_time_,
          last_save_s_, incoming, job, now, history>>

Time == 1 .. MaxTime
Job == [stamp : Time, empty : BOOLEAN]
NoJob == [stamp |-> Never, empty |-> TRUE]
MainPC == {"spin", "push", "notify", "notify_all", "join", "done"}
WorkerPC == {"loop", "locking", "testing", "checked", "asleep", "taking",
             "inferring", "exited"}

TypeOK ==
  /\ main \in MainPC /\ worker \in WorkerPC
  /\ worker_running_ \in BOOLEAN
  /\ job_queue_ \in Seq(Job)
  /\ last_inference_time_ \in Time \cup {Never}
  /\ last_save_s_ \in Time \cup {Never}
  /\ incoming \in Job \cup {NoJob} /\ (main = "push" => incoming # NoJob)
  /\ job \in Job \cup {NoJob} /\ (worker = "inferring" => job # NoJob)
  /\ now \in 0 .. MaxTime
  /\ accepted \in Seq(Time) /\ taken \in Time \cup {Never}
  /\ after_stop \in Nat

\* The constructor has just started the worker.
Init ==
  /\ main = "spin" /\ worker = "loop"
  /\ worker_running_ = TRUE
  /\ job_queue_ = <<>>
  /\ last_inference_time_ = Never /\ last_save_s_ = Never
  /\ incoming = NoJob /\ job = NoJob
  /\ now = 0
  /\ accepted = <<>> /\ taken = Never /\ after_stop = 0

-----------------------------------------------------------------------------
(* The executor thread: image_callback, then the destructor.  X_Something   *)
(* is a plausible mistake in X, used to test that the properties notice it. *)

WorkerHoldsMutex == worker \in {"testing", "checked", "taking"}

RateLimited(t) ==
  last_inference_time_ # Never /\ t - last_inference_time_ < Period

\* Up to the lock: the rate limit, the time stamp it consumes, and the two
\* conversions, either of which may throw.  t is both the node's clock and the
\* header's stamp: a camera stamps its frames in the order it takes them.
image_callback(t, e) ==
  /\ main = "spin"
  /\ now' = t
  /\ IF RateLimited(t)
     THEN UNCHANGED <<main, last_inference_time_, incoming>>
     ELSE /\ last_inference_time_' = t
          /\ \/ UNCHANGED <<main, incoming>>
             \/ main' = "push" /\ incoming' = [stamp |-> t, empty |-> e]
  /\ UNCHANGED <<worker, worker_running_, job_queue_, last_save_s_, job, history>>

\* "Drop oldest frame if queue is full (never accumulate latency)"
Enqueue_DropNewest(q, j) == IF Len(q) >= Capacity THEN q ELSE Append(q, j)
Enqueue_MovedFrom(q, j) == Append(q, NoJob)
Enqueue_OffByOne(q, j) ==
  Append(IF Len(q) > Capacity THEN Tail(q) ELSE q, j)
Enqueue(q, j) ==
  Append(IF Len(q) >= Capacity THEN SubSeq(q, Len(q) - Capacity + 2, Len(q)) ELSE q, j)

push_job ==
  /\ main = "push" /\ ~WorkerHoldsMutex
  /\ job_queue_' = Enqueue(job_queue_, incoming)
  /\ accepted' = Append(accepted, incoming.stamp)
  /\ incoming' = NoJob
  /\ main' = "notify"
  /\ UNCHANGED <<worker, worker_running_, last_inference_time_, last_save_s_,
                 job, now, taken, after_stop>>

\* notify_one and notify_all: there is one waiter at most.
Wake_Nobody == UNCHANGED worker
Wake == worker' = IF worker = "asleep" THEN "locking" ELSE worker

queue_cv_notify_one ==
  /\ main = "notify"
  /\ Wake
  /\ main' = "spin"
  /\ UNCHANGED <<worker_running_, job_queue_, last_inference_time_, last_save_s_,
                 incoming, job, now, history>>

\* ~BottomCameraVision, after spin has returned: the flag is cleared without
\* the mutex, then the worker is notified, then joined.
stop_worker ==
  /\ main = "spin"
  /\ worker_running_' = FALSE
  /\ main' = "notify_all"
  /\ UNCHANGED <<worker, job_queue_, last_inference_time_, last_save_s_,
                 incoming, job, now, history>>

queue_cv_notify_all ==
  /\ main = "notify_all"
  /\ Wake
  /\ main' = "join"
  /\ UNCHANGED <<worker_running_, job_queue_, last_inference_time_, last_save_s_,
                 incoming, job, now, history>>

\* join returns when the thread has ended.  The engine and the buffers are freed
\* after it by a thread that is then alone, so the frees are no step of their own.
worker_thread_join ==
  /\ main = "join" /\ worker = "exited"
  /\ main' = "done"
  /\ UNCHANGED <<worker, worker_running_, job_queue_, last_inference_time_,
                 last_save_s_, incoming, job, now, history>>

-----------------------------------------------------------------------------
(* The worker thread: inference_worker.                                    *)

quiet == UNCHANGED <<main, worker_running_, last_inference_time_, incoming, now,
                     accepted>>

\* "while (worker_running_)"
LoopAgain_Forever == TRUE
LoopAgain == worker_running_

while_running ==
  /\ worker = "loop"
  /\ worker' = IF LoopAgain THEN "locking" ELSE "exited"
  /\ quiet /\ UNCHANGED <<job_queue_, job, last_save_s_, taken, after_stop>>

lock_queue_mutex ==
  /\ worker = "locking"
  /\ worker' = "testing"
  /\ quiet /\ UNCHANGED <<job_queue_, job, last_save_s_, taken, after_stop>>

\* "return !worker_running_ || !job_queue_.empty()"
WaitDone_JobOnly == job_queue_ # <<>>
WaitDone == ~worker_running_ \/ job_queue_ # <<>>

wait_predicate ==
  /\ worker = "testing"
  /\ worker' = IF WaitDone THEN "taking" ELSE "checked"
  /\ quiet /\ UNCHANGED <<job_queue_, job, last_save_s_, taken, after_stop>>

wait_sleep ==
  /\ worker = "checked"
  /\ worker' = "asleep"
  /\ quiet /\ UNCHANGED <<job_queue_, job, last_save_s_, taken, after_stop>>

spurious_wakeup ==
  /\ worker = "asleep"
  /\ worker' = "locking"
  /\ quiet /\ UNCHANGED <<job_queue_, job, last_save_s_, taken, after_stop>>

take_job ==
  /\ worker = "taking"
  /\ IF ~worker_running_ /\ job_queue_ = <<>>
     THEN /\ worker' = "exited"
          /\ UNCHANGED <<job_queue_, job, taken>>
     ELSE /\ worker' = "inferring"
          /\ job' = Head(job_queue_)
          /\ job_queue_' = Tail(job_queue_)
          /\ taken' = Head(job_queue_).stamp
  /\ quiet /\ UNCHANGED <<last_save_s_, after_stop>>

\* "frame_s - last_save_s_ >= 5.0"; the initial 0.0 is long before any stamp.
SaveDue == last_save_s_ = Never \/ job.stamp - last_save_s_ >= SavePeriod

\* run_inference, estimate_distance_m, save_image and publish_detections; an
\* empty image is skipped.
infer_and_publish ==
  /\ worker = "inferring"
  /\ worker' = "loop"
  /\ job' = NoJob
  /\ last_save_s_' = IF ~job.empty /\ SaveDue THEN job.stamp ELSE last_save_s_
  /\ after_stop' = IF worker_running_ THEN 0 ELSE after_stop + 1
  /\ quiet /\ UNCHANGED <<job_queue_, taken>>

-----------------------------------------------------------------------------
FrameArrives == \E t \in Time, e \in BOOLEAN : t > now /\ image_callback(t, e)

Executor == \/ push_job \/ queue_cv_notify_one
            \/ queue_cv_notify_all \/ worker_thread_join
Worker == \/ while_running \/ lock_queue_mutex \/ wait_predicate \/ wait_sleep
          \/ take_job \/ infer_and_publish

Next == FrameArrives \/ stop_worker \/ Executor \/ Worker \/ spurious_wakeup

Spec == Init /\ [][Next]_vars

\* Both threads are scheduled.  Frames need not come, nobody has to stop the
\* node, and a wakeup without a notification is allowed but not relied upon.
FairSpec == Spec /\ WF_vars(Executor) /\ WF_vars(Worker)

-----------------------------------------------------------------------------
(* Properties.                                                             *)

Stamps(q) == [i \in DOMAIN q |-> q[i].stamp]

\* The worker never sleeps on work: if it sleeps while a job is queued, the
\* executor has just queued it and is about to notify.
NoSleepOnWork == worker = "asleep" /\ job_queue_ # <<>> => main = "notify"

\* The queue holds the newest frames, oldest first, and an empty queue means the
\* newest of all has been taken: what is dropped is always the oldest.
NewestFramesKept ==
  /\ Len(job_queue_) <= Len(accepted)
  /\ Stamps(job_queue_) = SubSeq(accepted, Len(accepted) - Len(job_queue_) + 1,
                                 Len(accepted))
  /\ accepted # <<>> /\ job_queue_ = <<>> => taken = accepted[Len(accepted)]

\* "never accumulate latency": while one frame is being processed, at most
\* Capacity newer ones wait, and they are processed in the order they came.
LatencyBounded ==
  /\ Len(job_queue_) <= Capacity
  /\ taken # Never => \A i \in DOMAIN job_queue_ : taken < job_queue_[i].stamp

\* Once the destructor has cleared the flag the worker finishes at most one job.
AtMostOneJobAfterStop == ~worker_running_ => after_stop <= 1

\* A destructor that does not notify while the worker is between its test and
\* its sleep returns.
CleanShutdown ==
  main = "join" /\ worker \notin {"checked", "asleep"} ~> main = "done"

\* The wait predicate "!worker_running_ || ..." promises that clearing the flag
\* and notifying ends the wait: every shutdown completes.
ShutdownCompletes == main = "notify_all" ~> main = "done"
=============================================================================
