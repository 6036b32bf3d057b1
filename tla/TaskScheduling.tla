--------------------------- MODULE TaskScheduling ---------------------------
(***************************************************************************)
(* How Click schedules a task on its threads (lib/task.cc, task.hh,        *)
(* lib/routerthread.cc, selectset.cc).  A task has a status word that any  *)
(* thread may write without a lock, a thread, and is linked into that      *)
(* thread's list of scheduled tasks, which only the thread itself touches; *)
(* other threads put the task on the thread's pending list, under a lock,  *)
(* and wake the thread through a pipe.                                     *)
(*                                                                         *)
(* One task; the other tasks of a thread matter as the code that calls     *)
(* reschedule, unschedule and move_thread.  That code runs where pc is     *)
(* "driver"; the task's own callback may reschedule the task.  What is     *)
(* done under _pending_lock is one step (see Spinlock), but for the two    *)
(* stores that wake a thread.  The router runs: stopping the driver and    *)
(* hot-swapping are left out.                                              *)
(***************************************************************************)
EXTENDS Integers

CONSTANTS Threads,    \* the router threads
          Quiescent,  \* the thread that never runs, with the id -1
          MaxCalls    \* bound on the calls made by other code

VARIABLES home, scheduled, strong,  \* _status
          thread,      \* _thread
          listed,      \* the threads in whose scheduled list the task is
          pending,     \* the threads on whose pending list the task is
          marked,      \* _pending_nextptr # 0
          pc,          \* where each thread is
          ret,         \* where a call returns to
          wakee,       \* the thread being woken
          pipe, piped, \* bytes in _wake_pipe, and _wake_pipe_pending
          calls,       \* the calls made by other code
          late,        \* the times it was started since it was unscheduled, or
                       \* -1 when it was rescheduled in the meantime (history)
          overlapped   \* move_thread was called during another call of it (history)

status == <<home, scheduled, strong>>
lists == <<listed, pending, marked>>
wakes == <<wakee, pipe, piped>>
vars == <<status, thread, lists, pc, ret, wakes, calls, late, overlapped>>

\* Task::initialize, before the threads run.
Init ==
  /\ thread \in Threads \cup {Quiescent}
  /\ home = thread
  /\ scheduled \in BOOLEAN
  /\ strong = FALSE
  /\ listed = {}
  /\ pending = IF scheduled THEN {thread} \ {Quiescent} ELSE {}
  /\ marked = (pending # {})
  /\ pc = [r \in Threads |-> "driver"]
  /\ ret = [r \in Threads |-> "driver"]
  /\ wakee = [r \in Threads |-> r]
  /\ pipe = [r \in Threads |-> r \in pending]
  /\ piped = pipe
  /\ calls = 0
  /\ late = IF scheduled THEN -1 ELSE 0
  /\ overlapped = FALSE

Goto(r, to) == pc' = [pc EXCEPT ![r] = to]

Step(r, from, to) == pc[r] = from /\ Goto(r, to)

\* A call by other code on thread r, whose first step ends at to.
Call(r, to) ==
  /\ calls < MaxCalls
  /\ calls' = calls + 1
  /\ Step(r, "driver", to)
  /\ ret' = [ret EXCEPT ![r] = "driver"]

-----------------------------------------------------------------------------
(* The calls *)

Unschedule(r) ==
  /\ Call(r, "driver")
  /\ scheduled' = FALSE
  /\ late' = 0
  /\ UNCHANGED <<home, strong, thread, lists, wakes>>

StrongUnschedule(r) ==
  /\ Call(r, "strong_unschedule")
  /\ scheduled' = FALSE
  /\ late' = 0
  /\ UNCHANGED <<home, strong, thread, lists, wakes>>

StrongUnscheduled(r) ==
  /\ Step(r, "strong_unschedule", "driver")
  /\ strong' = TRUE
  /\ UNCHANGED <<home, scheduled, thread, lists, ret, wakes, calls, late>>

StrongReschedule(r) ==
  /\ Call(r, "reschedule")
  /\ strong' = FALSE
  /\ UNCHANGED <<home, scheduled, thread, lists, wakes, late>>

Reschedule(r) ==
  /\ Call(r, "decide")
  /\ scheduled' = TRUE
  /\ late' = -1
  /\ UNCHANGED <<home, strong, thread, lists, wakes>>

\* The reschedule of a strong_reschedule.
RescheduleToo(r) ==
  /\ Step(r, "reschedule", "decide")
  /\ scheduled' = TRUE
  /\ late' = -1
  /\ UNCHANGED <<home, strong, thread, lists, ret, wakes, calls>>

\* Is there anything to do?  The list is looked at without a lock.
Decide(r) ==
  /\ Step(r, "decide", IF listed # {} /\ thread = r THEN ret[r] ELSE "true_reschedule")
  /\ UNCHANGED <<status, thread, lists, ret, wakes, calls, late>>

fast_schedule(r) == listed' = IF listed = {} THEN {r} ELSE listed

TrueReschedule(r) ==
  /\ Step(r, "true_reschedule", IF thread \in {r, Quiescent} THEN ret[r] ELSE "add_pending")
  /\ IF thread = r THEN fast_schedule(r) ELSE UNCHANGED listed
  /\ UNCHANGED <<status, thread, pending, marked, ret, wakes, calls, late>>

\* Under the lock of the task's thread th; the thread is then to be woken.
add_pending_locked(r, th) ==
  IF marked
  THEN /\ Goto(r, ret[r])
       /\ UNCHANGED <<pending, marked, wakee>>
  ELSE /\ marked' = TRUE
       /\ pending' = pending \cup {th}
       /\ wakee' = [wakee EXCEPT ![r] = th]
       /\ Goto(r, IF th = r THEN ret[r] ELSE "wake")

AddPending(r) ==
  /\ pc[r] = "add_pending"
  /\ IF thread = Quiescent
     THEN Goto(r, ret[r]) /\ UNCHANGED <<pending, marked, wakee>>
     ELSE add_pending_locked(r, thread)
  /\ UNCHANGED <<status, thread, listed, ret, pipe, piped, calls, late>>

\* SelectSet::wake_immediate.
Wake(r) ==
  /\ Step(r, "wake", "write_pipe")
  /\ piped' = [piped EXCEPT ![wakee[r]] = TRUE]
  /\ UNCHANGED <<status, thread, lists, ret, wakee, pipe, calls, late>>

WritePipe(r) ==
  /\ Step(r, "write_pipe", ret[r])
  /\ pipe' = [pipe EXCEPT ![wakee[r]] = TRUE]
  /\ UNCHANGED <<status, thread, lists, ret, wakee, piped, calls, late>>

\* Thread q is in a call of move_thread and has not looked at the task's thread yet.
InMoveThread(q) == pc[q] \in {"move_thread", "move"} /\ ret[q] = "driver"

\* By BalancedThreadSched's timer or the home_thread handler, on any thread.
MoveThread(r, new) ==
  /\ Call(r, "move_thread")
  /\ home' = new
  /\ overlapped' = (overlapped \/ \E q \in Threads : InMoveThread(q))
  /\ UNCHANGED <<scheduled, strong, thread, lists, wakes, late>>

MoveFirstHalf(r) ==
  /\ Step(r, "move_thread", IF home = thread THEN "driver" ELSE "move")
  /\ UNCHANGED <<status, thread, lists, ret, wakes, calls, late>>

\* Mutant: whoever moves the task unlinks it.
Move_Anyone(r) ==
  /\ Step(r, "move", "moved")
  /\ listed' = {}
  /\ pending' = pending \ {thread}
  /\ marked' = (marked /\ thread \notin pending)
  /\ thread' = home
  /\ UNCHANGED <<status, ret, wakes, calls, late>>

\* move_thread_second_half: only the task's thread may unlink it; another thread
\* asks it to.
Move(r) ==
  /\ pc[r] = "move"
  /\ IF thread \in {r, Quiescent}
     THEN /\ listed' = {}
          /\ pending' = pending \ {thread}
          /\ marked' = (marked /\ thread \notin pending)
          /\ thread' = home
          /\ Goto(r, "moved")
          /\ UNCHANGED wakee
     ELSE /\ add_pending_locked(r, thread)
          /\ UNCHANGED <<thread, listed>>
  /\ UNCHANGED <<status, ret, pipe, piped, calls, late>>

Moved(r) ==
  /\ Step(r, "moved", IF scheduled THEN "add_pending" ELSE ret[r])
  /\ UNCHANGED <<status, thread, lists, ret, wakes, calls, late>>

-----------------------------------------------------------------------------
(* RouterThread::driver *)

\* process_pending claims the list; the tasks on it stay marked.
Claim(r) ==
  /\ Step(r, "driver", IF r \in pending THEN "claimed" ELSE "run_tasks")
  /\ pending' = pending \ {r}
  /\ UNCHANGED <<status, thread, listed, marked, ret, wakes, calls, late>>

\* Mutant: the status is read while the task is still marked.
Unmark_Late(r) ==
  /\ Step(r, "claimed", IF home = r /\ scheduled THEN "process" ELSE "run_tasks")
  /\ marked' = FALSE
  /\ UNCHANGED <<status, thread, listed, pending, ret, wakes, calls, late>>

Unmark(r) ==
  /\ Step(r, "claimed", "process")
  /\ marked' = FALSE
  /\ UNCHANGED <<status, thread, listed, pending, ret, wakes, calls, late>>

\* Mutant: a task that is not scheduled is left alone.
Process_Scheduled(r) ==
  /\ Step(r, "process", IF home # r /\ scheduled THEN "move" ELSE "run_tasks")
  /\ ret' = [ret EXCEPT ![r] = "run_tasks"]
  /\ IF home = r /\ scheduled THEN fast_schedule(r) ELSE UNCHANGED listed
  /\ UNCHANGED <<status, thread, pending, marked, wakes, calls, late>>

\* Task::process_pending.
Process(r) ==
  /\ Step(r, "process", IF home # r THEN "move" ELSE "run_tasks")
  /\ ret' = [ret EXCEPT ![r] = "run_tasks"]
  /\ IF home = r /\ scheduled THEN fast_schedule(r) ELSE UNCHANGED listed
  /\ UNCHANGED <<status, thread, pending, marked, wakes, calls, late>>

\* Mutant: only the home thread of the status is looked at.
RunTasks_HomeOnly(r) ==
  /\ Step(r, "run_tasks",
          IF r \notin listed THEN "run_os" ELSE IF home = r THEN "chosen" ELSE "unlink")
  /\ UNCHANGED <<status, thread, lists, ret, wakes, calls, late>>

\* One turn of run_tasks.
RunTasks(r) ==
  /\ Step(r, "run_tasks",
          IF r \notin listed THEN "run_os"
          ELSE IF home = r /\ scheduled /\ ~strong THEN "chosen" ELSE "unlink")
  /\ UNCHANGED <<status, thread, lists, ret, wakes, calls, late>>

\* A task whose status is not what the thread wants is unlinked, and moved when
\* its home is elsewhere by now.
Unlink(r) ==
  /\ Step(r, "unlink", IF home # r THEN "move" ELSE "run_tasks")
  /\ ret' = [ret EXCEPT ![r] = "run_tasks"]
  /\ listed' = {}
  /\ UNCHANGED <<status, thread, pending, marked, wakes, calls, late>>

Fire(r) ==
  /\ Step(r, "chosen", "firing")
  /\ scheduled' = FALSE
  /\ late' = IF late >= 0 THEN late + 1 ELSE late
  /\ UNCHANGED <<home, strong, thread, lists, ret, wakes, calls>>

\* The callback ends, with or without fast_reschedule.
Fired(r) ==
  /\ Step(r, "firing", "fired")
  /\ \/ scheduled' = TRUE /\ late' = -1
     \/ UNCHANGED <<scheduled, late>>
  /\ UNCHANGED <<home, strong, thread, lists, ret, wakes, calls>>

\* A task that is scheduled again goes to the back of the list, another one is
\* unlinked.  (With one task the rest of the turns of run_tasks are like the
\* first turn of the next round.)
Relist(r) ==
  /\ Step(r, "fired", IF scheduled THEN "run_os" ELSE "relist")
  /\ UNCHANGED <<status, thread, lists, ret, wakes, calls, late>>

Unlist(r) ==
  /\ Step(r, "relist", "run_os")
  /\ listed' = {}
  /\ UNCHANGED <<status, thread, pending, marked, ret, wakes, calls, late>>

\* Mutant: only the scheduled list is looked at.
RunOs_Listed(r) ==
  /\ Step(r, "run_os", IF r \in listed THEN "post_select" ELSE "asleep")
  /\ UNCHANGED <<status, thread, lists, ret, wakes, calls, late>>

\* run_selects: poll without a timeout unless the thread is active.
RunOs(r) ==
  /\ Step(r, "run_os", IF r \in listed \cup pending THEN "post_select" ELSE "asleep")
  /\ UNCHANGED <<status, thread, lists, ret, wakes, calls, late>>

\* A byte in the pipe ends the poll.
Awake(r) ==
  /\ pipe[r]
  /\ Step(r, "asleep", "post_select")
  /\ UNCHANGED <<status, thread, lists, ret, wakes, calls, late>>

\* So does a packet or a timer of some other element.
OtherEvent(r) ==
  /\ Step(r, "asleep", "post_select")
  /\ UNCHANGED <<status, thread, lists, ret, wakes, calls, late>>

PostSelect(r) ==
  /\ Step(r, "post_select", IF piped[r] THEN "drain" ELSE "driver")
  /\ piped' = [piped EXCEPT ![r] = FALSE]
  /\ UNCHANGED <<status, thread, lists, ret, wakee, pipe, calls, late>>

Drain(r) ==
  /\ Step(r, "drain", "driver")
  /\ pipe' = [pipe EXCEPT ![r] = FALSE]
  /\ UNCHANGED <<status, thread, lists, ret, wakee, piped, calls, late>>

ThreadStep(r) ==
  /\ UNCHANGED overlapped
  /\ \/ StrongUnscheduled(r) \/ RescheduleToo(r) \/ Decide(r) \/ TrueReschedule(r)
     \/ AddPending(r) \/ Wake(r) \/ WritePipe(r) \/ MoveFirstHalf(r) \/ Move(r)
     \/ Moved(r) \/ Claim(r) \/ Unmark(r) \/ Process(r) \/ RunTasks(r) \/ Unlink(r)
     \/ Fire(r) \/ Fired(r) \/ Relist(r) \/ Unlist(r) \/ RunOs(r) \/ Awake(r)
     \/ PostSelect(r) \/ Drain(r)

OtherCode(r) ==
  \/ /\ UNCHANGED overlapped
     /\ \/ Unschedule(r) \/ StrongUnschedule(r) \/ StrongReschedule(r) \/ Reschedule(r)
        \/ OtherEvent(r)
  \/ \E new \in Threads \cup {Quiescent} : MoveThread(r, new)

Next == \E r \in Threads : ThreadStep(r) \/ OtherCode(r)

\* Every thread goes on with what it does; it need not be called or interrupted.
Spec == Init /\ [][Next]_vars /\ \A r \in Threads : WF_vars(ThreadStep(r))

-----------------------------------------------------------------------------
(* Properties *)

Running(r) == pc[r] \in {"chosen", "firing", "fired", "relist"}

\* The task is only ever run by its own thread, and by one thread at a time,
\* however it is moved and rescheduled meanwhile; MtNewThread::run_task is written
\* on the assumption "that it is only even entered by one thread at a time".
RunsOnOne == \A r \in Threads : Running(r) => thread = r /\ listed = {r}

\* A thread that is about to link the task or to give it to its thread.
Sees(r) ==
  pc[r] \in {"reschedule", "decide", "true_reschedule", "add_pending", "move", "moved", "process"}

\* The invariant of task.cc while threads are between their steps: a scheduled task of
\* a thread that runs is on the thread's list or pending, unless some thread is at a
\* step that sees to it; as long as no call of move_thread begins during another.
NotForgotten ==
  ~overlapped /\ scheduled /\ ~strong /\ thread # Quiescent =>
    listed # {} \/ marked \/ \E r \in Threads : Sees(r)

\* The invariant as task.cc states it, "If _is_scheduled && !_is_strong_unscheduled &&
\* not on quiescent thread, then either on_scheduled_list() or _pending_nextptr != 0",
\* asked only when no thread is at a step that sees to the task or in move_thread.  It
\* does not survive overlapping calls of move_thread.
OnSomeList ==
  /\ scheduled /\ ~strong /\ thread # Quiescent
  /\ \A r \in Threads : ~Sees(r) /\ ~InMoveThread(r)
  => listed # {} \/ marked

\* The lists a task can be on are those of its thread; a pending list holds only
\* marked tasks.
OwnLists ==
  /\ listed \subseteq {thread}
  /\ pending \subseteq {thread}
  /\ pending # {} => marked

\* "After unschedule() returns, the task will not run until it is rescheduled" is
\* true up to one run: the thread that had read the status before, without a lock,
\* still starts the task, once.
LateOnce == late <= 1

\* What the comment of Task::reschedule promises: the task will eventually run
\* (which clears the flag) unless it is unscheduled, its home is quiescent, or calls
\* of move_thread overlap; in particular no thread sleeps in poll while its task waits.
EventuallyRuns == []<>(~scheduled \/ strong \/ home = Quiescent \/ overlapped)

\* Every move ends: whoever called move_thread, and however the calls overlap, the
\* task comes to belong to the thread that its status names, although only its old
\* thread may let it go and has to be told.
EventuallyMoved == []<>(thread = home)
=============================================================================
