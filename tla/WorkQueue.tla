------------------------------ MODULE WorkQueue ------------------------------
(***************************************************************************)
(* The background thread of an Env (PosixEnv::Schedule and                 *)
(* BackgroundThreadMain, util/env_posix.cc): one thread, started by the    *)
(* first Schedule, that runs the work of all databases of the process in   *)
(* the order it was scheduled.  An action is what one thread does between  *)
(* taking and giving up background_work_mutex_.                            *)
(***************************************************************************)
EXTENDS Sequences

VARIABLES
  queue,    \* background_work_queue_: whose work it is
  worker    \* the background thread: "none" before it is started, "loop"
            \* about to take the mutex, "waiting" for background_work_cv_,
            \* or whose work it runs

poolVars == <<queue, worker>>

PoolInit == queue = <<>> /\ worker = "none"

(* Where Schedule leaves the thread: it is started, or woken if it may be  *)
(* waiting, which it is only while the queue is empty.                     *)
Signalled_Late(at) ==   \* mutant: the test is made after the work was put
  IF at = "none" THEN "loop"
  ELSE IF at = "waiting" /\ queue # <<>> THEN "loop"
  ELSE at

Signalled(at) ==
  IF at = "none" THEN "loop"
  ELSE IF at = "waiting" /\ queue = <<>> THEN "loop"
  ELSE at

Schedule(w, at) == queue' = Append(queue, w) /\ worker' = Signalled(at)

(* BackgroundThreadMain: wait while there is nothing, or take the oldest.  *)
WaitForWork ==
  /\ worker = "loop" /\ queue = <<>>
  /\ worker' = "waiting"
  /\ UNCHANGED queue

TakeWork ==
  /\ worker = "loop" /\ queue # <<>>
  /\ worker' = Head(queue)
  /\ queue' = Tail(queue)

(* The function returns.                                                   *)
WorkDone(w) == worker = w /\ worker' = "loop" /\ UNCHANGED queue
=============================================================================
