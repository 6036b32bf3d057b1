----------------------------- MODULE MCThreads -----------------------------
(***************************************************************************)
(* The places where threads meet, one at a time: the element MtNewThread   *)
(* with two producers, a task on two router threads, the spinlock with     *)
(* nested calls, and the kernel modules with two processors.  A behaviour  *)
(* is about one of them, and the others stay as they are constructed; the  *)
(* spinlock uses the variables of MtNewThread's.  The router threads are   *)
(* alike, so the task starts on one of them or on the quiescent thread.    *)
(***************************************************************************)
EXTENDS MtNewThread

CONSTANTS Routers, Quiescent, MaxCalls, MaxDepth,
          Senders, RecordSize, FifoSize, QueueLimit, Garbled, MaxSent

VARIABLES subject,
          home, scheduled, strong, thread, listed, pending, marked, task_pc, ret,
          wakee, pipe, piped, calls, late, overlapped,
          shmq, cancel_work, fifo, slot, sent_msgs, worker, msg, queue, raced,
          accepted_msgs, got, client, my_hook1, modules, cpu, target, once

T == INSTANCE TaskScheduling WITH Threads <- Routers, pc <- task_pc

L == INSTANCE Spinlock

C == INSTANCE Capture WITH sent <- sent_msgs, accepted <- accepted_msgs

taskVars == <<home, scheduled, strong, thread, listed, pending, marked, task_pc, ret,
              wakee, pipe, piped, calls, late, overlapped>>
captureVars == <<shmq, cancel_work, fifo, slot, sent_msgs, worker, msg, queue, raced,
                 accepted_msgs, got, client, my_hook1, modules, cpu, target, once>>
hookVars == <<my_hook1, modules, cpu, target, once>>
allVars == <<vars, taskVars, captureVars, subject>>

Subjects == {"MtNewThread", "Task", "Spinlock", "Capture"}

MCInit ==
  /\ subject \in Subjects
  /\ Init /\ (subject # "MtNewThread" => ~active)
  /\ T!Init
  /\ thread \in {CHOOSE r \in Routers : TRUE, Quiescent}
  /\ subject # "Task" => ~scheduled /\ thread = Quiescent
  /\ C!CaptureInit /\ (subject # "Capture" => ~client /\ once)

OnlyMt == subject = "MtNewThread" /\ UNCHANGED <<taskVars, captureVars, subject>>
OnlyTask == subject = "Task" /\ UNCHANGED <<vars, captureVars, subject>>
OnlySpinlock == subject = "Spinlock" /\ UNCHANGED <<ownVars, taskVars, captureVars, subject>>
OnlyCapture == subject = "Capture" /\ UNCHANGED <<vars, taskVars, subject>>

MCNext ==
  \/ OnlyMt /\ Next
  \/ OnlyTask /\ T!Next
  \/ OnlySpinlock /\ L!Next
  \/ OnlyCapture /\ C!CaptureNext

\* The fairness of each module.
MCSpec ==
  /\ MCInit
  /\ [][MCNext]_allVars
  /\ \A t \in Producers : WF_vars(subject = "MtNewThread" /\ ProducerStep(t))
  /\ WF_vars(subject = "MtNewThread" /\ ConsumerStep)
  /\ \A r \in Routers : WF_taskVars(subject = "Task" /\ T!ThreadStep(r))
  /\ \A c \in Senders : WF_captureVars(subject = "Capture" /\ C!Alive /\ C!CpuStep(c))
  /\ WF_captureVars(subject = "Capture" /\ C!Alive /\ C!WorkerStep /\ UNCHANGED hookVars)
  /\ WF_captureVars(subject = "Capture" /\ C!Alive /\ C!MsgRcv /\ UNCHANGED hookVars)
  /\ WF_captureVars(subject = "Capture" /\ C!Alive /\ C!CleanupDone /\ UNCHANGED hookVars)

-----------------------------------------------------------------------------
(* The properties of the instances *)

\* A task is run by its own thread only (TaskScheduling).
RunsOnOne == T!RunsOnOne

\* A scheduled task is on a list or seen to by some thread, unless calls of
\* move_thread have overlapped (TaskScheduling).
NotForgotten == T!NotForgotten

\* A task is started at most once after unschedule (TaskScheduling).
LateOnce == T!LateOnce

\* A scheduled task eventually runs, unless calls of move_thread have overlapped
\* (TaskScheduling).
EventuallyRuns == T!EventuallyRuns

\* Every move of a task ends (TaskScheduling).
EventuallyMoved == T!EventuallyMoved

\* The lock excludes, with nested calls too (Spinlock).
Exclusive == L!Exclusive

\* No processor is in the code of a module that is gone (Capture).
CodeThere == C!CodeThere

\* What the kfifo takes is on its way to the client, once and in order (Shmq).
Delivered == C!Delivered

\* Removing shmq ends (Capture).
Unloads == C!Unloads

\* With a client, what the kfifo takes arrives (Capture).
Arrives == C!Arrives

=============================================================================
