----------------------------- MODULE TaskProofs -----------------------------
(***************************************************************************)
(* A Click task is run by one thread at a time, no move of it is forgotten *)
(* and, unless calls of move_thread overlap, neither is the task, for      *)
(* every number of router threads and every number of calls.               *)
(***************************************************************************)
EXTENDS TaskScheduling, TLAPS

-----------------------------------------------------------------------------
(* The inductive invariant *)

Places ==
  {"driver", "claimed", "process", "run_tasks", "unlink", "chosen", "firing", "fired", "relist",
   "run_os", "asleep", "post_select", "drain", "strong_unschedule", "reschedule", "decide",
   "true_reschedule", "add_pending", "wake", "write_pipe", "move_thread", "move", "moved"}

TaskTypes ==
  /\ home \in Threads \cup {Quiescent}
  /\ thread \in Threads \cup {Quiescent}
  /\ scheduled \in BOOLEAN
  /\ strong \in BOOLEAN
  /\ marked \in BOOLEAN
  /\ pc \in [Threads -> Places]
  /\ ret \in [Threads -> {"driver", "run_tasks"}]

\* From the time it claims the task, and from the time it looks at the task on its
\* list, a thread stays the task's thread; what it looks at stays on its list.
AtHome ==
  \A q \in Threads :
    /\ pc[q] \in {"claimed", "process", "unlink", "chosen", "firing", "fired", "relist"} => thread = q
    /\ pc[q] \in {"unlink", "chosen", "firing", "fired", "relist"} => listed = {q}

\* A claimed task is on no pending list but still marked, so nobody adds it.
Claimed == \A q \in Threads : pc[q] = "claimed" => pending = {} /\ marked

\* The driver moves only the tasks of its own thread.
Moving ==
  \A q \in Threads :
    /\ pc[q] = "move_thread" => ret[q] = "driver"
    /\ pc[q] = "move" /\ ret[q] = "run_tasks" => thread = q

\* A task that is not where its home is has a thread that will see to it.
MoveSeen ==
  home # thread =>
    \/ marked
    \/ \E q \in Threads : pc[q] \in {"move_thread", "move"}
    \/ \E q \in Threads : q = thread /\ pc[q] = "process"

TaskInv == TaskTypes /\ OwnLists /\ AtHome /\ Claimed /\ Moving /\ MoveSeen

\* A thread about to unlink a task that is by now to be run again need not care:
\* some other thread will mark it, or has.
UnlinkSeen ==
  \A q \in Threads :
    /\ pc[q] = "relist" \/ (pc[q] = "unlink" /\ home = q)
    /\ scheduled
    /\ ~strong
    => marked \/ \E p \in Threads \ {q} : Sees(p)

\* The conclusion of NotForgotten.
Listed ==
  scheduled /\ ~strong /\ thread # Quiescent =>
    listed # {} \/ marked \/ \E r \in Threads : Sees(r)

\* What overlapping calls of move_thread would break.
SeenTo == UnlinkSeen /\ Listed

-----------------------------------------------------------------------------

\* Task::initialize leaves the task on no list, or pending when it is scheduled.
LEMMA TaskStart ==
  ASSUME Quiescent \notin Threads
  PROVE  Init => TaskInv /\ SeenTo
BY DEF Init, TaskInv, TaskTypes, Places, OwnLists, AtHome, Claimed, Moving, MoveSeen, SeenTo,
       UnlinkSeen, Listed, Sees

\* Every step of a router thread, and every call of other code, keeps the invariant,
\* overlapping calls of move_thread included.
LEMMA TaskStep ==
  ASSUME Quiescent \notin Threads, TaskInv, [Next]_vars
  PROVE  TaskInv'
<1> USE DEF status, lists, wakes, TaskInv, TaskTypes, Places, OwnLists, AtHome, Claimed, Moving,
            MoveSeen
<1>1. ASSUME NEW r \in Threads, StrongUnscheduled(r)
      PROVE  TaskInv'
  BY <1>1 DEF StrongUnscheduled, Step, Goto
<1>2. ASSUME NEW r \in Threads, RescheduleToo(r)
      PROVE  TaskInv'
  BY <1>2 DEF RescheduleToo, Step, Goto
<1>3. ASSUME NEW r \in Threads, Decide(r)
      PROVE  TaskInv'
  BY <1>3 DEF Decide, Step, Goto
<1>4. ASSUME NEW r \in Threads, TrueReschedule(r)
      PROVE  TaskInv'
  BY <1>4 DEF TrueReschedule, Step, Goto, fast_schedule
<1>5. ASSUME NEW r \in Threads, AddPending(r)
      PROVE  TaskInv'
  <2>1. TaskTypes'
    <3>1. \E to \in {"driver", "run_tasks", "wake"} : pc' = [pc EXCEPT ![r] = to]
      BY <1>5 DEF AddPending, Goto, add_pending_locked
    <3>2. marked' \in BOOLEAN
      BY <1>5 DEF AddPending, Goto, add_pending_locked
    <3> QED
      BY <1>5, <3>1, <3>2 DEF AddPending
  <2>2. OwnLists'
    BY <1>5 DEF AddPending, Goto, add_pending_locked
  <2>3. AtHome'
    BY <1>5 DEF AddPending, Goto, add_pending_locked
  <2>4. Claimed'
    BY <1>5 DEF AddPending, Goto, add_pending_locked
  <2>5. Moving'
    BY <1>5 DEF AddPending, Goto, add_pending_locked
  <2>6. MoveSeen'
    BY <1>5 DEF AddPending, Goto, add_pending_locked
  <2> QED
    BY <2>1, <2>2, <2>3, <2>4, <2>5, <2>6
<1>6. ASSUME NEW r \in Threads, Wake(r)
      PROVE  TaskInv'
  BY <1>6 DEF Wake, Step, Goto
<1>7. ASSUME NEW r \in Threads, WritePipe(r)
      PROVE  TaskInv'
  BY <1>7 DEF WritePipe, Step, Goto
<1>8. ASSUME NEW r \in Threads, MoveFirstHalf(r)
      PROVE  TaskInv'
  BY <1>8 DEF MoveFirstHalf, Step, Goto
<1>9. ASSUME NEW r \in Threads, Move(r)
      PROVE  TaskInv'
  <2>1. TaskTypes'
    BY <1>9 DEF Move, Goto, add_pending_locked
  <2>2. OwnLists'
    BY <1>9 DEF Move, Goto, add_pending_locked
  <2>3. AtHome'
    BY <1>9 DEF Move, Goto, add_pending_locked
  <2>4. Claimed'
    BY <1>9 DEF Move, Goto, add_pending_locked
  <2>5. Moving'
    BY <1>9 DEF Move, Goto, add_pending_locked
  <2>6. MoveSeen'
    BY <1>9 DEF Move, Goto, add_pending_locked
  <2> QED
    BY <2>1, <2>2, <2>3, <2>4, <2>5, <2>6
<1>10. ASSUME NEW r \in Threads, Moved(r)
      PROVE  TaskInv'
  BY <1>10 DEF Moved, Step, Goto
<1>11. ASSUME NEW r \in Threads, Claim(r)
      PROVE  TaskInv'
  BY <1>11 DEF Claim, Step, Goto
<1>12. ASSUME NEW r \in Threads, Unmark(r)
      PROVE  TaskInv'
  BY <1>12 DEF Unmark, Step, Goto
<1>13. ASSUME NEW r \in Threads, Process(r)
      PROVE  TaskInv'
  BY <1>13 DEF Process, Step, Goto, fast_schedule
<1>14. ASSUME NEW r \in Threads, RunTasks(r)
      PROVE  TaskInv'
  BY <1>14 DEF RunTasks, Step, Goto
<1>15. ASSUME NEW r \in Threads, Unlink(r)
      PROVE  TaskInv'
  BY <1>15 DEF Unlink, Step, Goto
<1>16. ASSUME NEW r \in Threads, Fire(r)
      PROVE  TaskInv'
  BY <1>16 DEF Fire, Step, Goto
<1>17. ASSUME NEW r \in Threads, Fired(r)
      PROVE  TaskInv'
  BY <1>17 DEF Fired, Step, Goto
<1>18. ASSUME NEW r \in Threads, Relist(r)
      PROVE  TaskInv'
  BY <1>18 DEF Relist, Step, Goto
<1>19. ASSUME NEW r \in Threads, Unlist(r)
      PROVE  TaskInv'
  BY <1>19 DEF Unlist, Step, Goto
<1>20. ASSUME NEW r \in Threads, RunOs(r)
      PROVE  TaskInv'
  BY <1>20 DEF RunOs, Step, Goto
<1>21. ASSUME NEW r \in Threads, Awake(r)
      PROVE  TaskInv'
  BY <1>21 DEF Awake, Step, Goto
<1>22. ASSUME NEW r \in Threads, PostSelect(r)
      PROVE  TaskInv'
  BY <1>22 DEF PostSelect, Step, Goto
<1>23. ASSUME NEW r \in Threads, Drain(r)
      PROVE  TaskInv'
  BY <1>23 DEF Drain, Step, Goto
<1>24. ASSUME NEW r \in Threads, Unschedule(r)
      PROVE  TaskInv'
  BY <1>24 DEF Unschedule, Step, Goto, Call
<1>25. ASSUME NEW r \in Threads, StrongUnschedule(r)
      PROVE  TaskInv'
  BY <1>25 DEF StrongUnschedule, Step, Goto, Call
<1>26. ASSUME NEW r \in Threads, StrongReschedule(r)
      PROVE  TaskInv'
  <2>1. TaskTypes'
    BY <1>26 DEF StrongReschedule, Step, Goto, Call
  <2>2. OwnLists'
    BY <1>26 DEF StrongReschedule, Step, Goto, Call
  <2>3. AtHome'
    BY <1>26 DEF StrongReschedule, Step, Goto, Call
  <2>4. Claimed'
    BY <1>26 DEF StrongReschedule, Step, Goto, Call
  <2>5. Moving'
    BY <1>26 DEF StrongReschedule, Step, Goto, Call
  <2>6. MoveSeen'
    BY <1>26 DEF StrongReschedule, Step, Goto, Call
  <2> QED
    BY <2>1, <2>2, <2>3, <2>4, <2>5, <2>6
<1>27. ASSUME NEW r \in Threads, Reschedule(r)
      PROVE  TaskInv'
  BY <1>27 DEF Reschedule, Step, Goto, Call
<1>28. ASSUME NEW r \in Threads, NEW new \in Threads \cup {Quiescent}, MoveThread(r, new)
      PROVE  TaskInv'
  BY <1>28 DEF MoveThread, Step, Goto, Call
<1>29. ASSUME NEW r \in Threads, OtherEvent(r)
      PROVE  TaskInv'
  BY <1>29 DEF OtherEvent, Step, Goto
<1>30. CASE UNCHANGED vars
  BY <1>30 DEF vars
<1> QED
  BY <1>1, <1>2, <1>3, <1>4, <1>5, <1>6, <1>7, <1>8, <1>9, <1>10, <1>11, <1>12, <1>13, <1>14, <1>15,
     <1>16, <1>17, <1>18, <1>19, <1>20, <1>21, <1>22, <1>23, <1>24, <1>25, <1>26, <1>27, <1>28, <1>29, <1>30
     DEF Next, ThreadStep, OtherCode

\* Every step that does not overlap a call of move_thread with another leaves the task
\* seen to.
LEMMA SeenStep ==
  ASSUME Quiescent \notin Threads, TaskInv, ~overlapped => SeenTo, [Next]_vars
  PROVE  ~overlapped' => SeenTo'
<1> SUFFICES ASSUME ~overlapped'
             PROVE  SeenTo'
  OBVIOUS
<1> USE DEF status, lists, wakes, TaskInv, TaskTypes, Places, OwnLists, AtHome, Claimed,
            Moving, MoveSeen, SeenTo, UnlinkSeen, Listed, Sees
<1>1. ASSUME NEW r \in Threads, StrongUnscheduled(r), UNCHANGED overlapped
      PROVE  SeenTo'
  BY <1>1 DEF StrongUnscheduled, Step, Goto
<1>2. ASSUME NEW r \in Threads, RescheduleToo(r), UNCHANGED overlapped
      PROVE  SeenTo'
  BY <1>2 DEF RescheduleToo, Step, Goto
<1>3. ASSUME NEW r \in Threads, Decide(r), UNCHANGED overlapped
      PROVE  SeenTo'
  BY <1>3 DEF Decide, Step, Goto
<1>4. ASSUME NEW r \in Threads, TrueReschedule(r), UNCHANGED overlapped
      PROVE  SeenTo'
  BY <1>4 DEF TrueReschedule, Step, Goto, fast_schedule
<1>5. ASSUME NEW r \in Threads, AddPending(r), UNCHANGED overlapped
      PROVE  SeenTo'
  <2>1. UnlinkSeen'
    BY <1>5 DEF AddPending, Goto, add_pending_locked
  <2>2. Listed'
    BY <1>5 DEF AddPending, Goto, add_pending_locked
  <2> QED
    BY <2>1, <2>2
<1>6. ASSUME NEW r \in Threads, Wake(r), UNCHANGED overlapped
      PROVE  SeenTo'
  BY <1>6 DEF Wake, Step, Goto
<1>7. ASSUME NEW r \in Threads, WritePipe(r), UNCHANGED overlapped
      PROVE  SeenTo'
  BY <1>7 DEF WritePipe, Step, Goto
<1>8. ASSUME NEW r \in Threads, MoveFirstHalf(r), UNCHANGED overlapped
      PROVE  SeenTo'
  BY <1>8 DEF MoveFirstHalf, Step, Goto
<1>9. ASSUME NEW r \in Threads, Move(r), UNCHANGED overlapped
      PROVE  SeenTo'
  <2>1. UnlinkSeen'
    BY <1>9 DEF Move, Goto, add_pending_locked
  <2>2. Listed'
    BY <1>9 DEF Move, Goto, add_pending_locked
  <2> QED
    BY <2>1, <2>2
<1>10. ASSUME NEW r \in Threads, Moved(r), UNCHANGED overlapped
      PROVE  SeenTo'
  BY <1>10 DEF Moved, Step, Goto
<1>11. ASSUME NEW r \in Threads, Claim(r), UNCHANGED overlapped
      PROVE  SeenTo'
  BY <1>11 DEF Claim, Step, Goto
<1>12. ASSUME NEW r \in Threads, Unmark(r), UNCHANGED overlapped
      PROVE  SeenTo'
  BY <1>12 DEF Unmark, Step, Goto
<1>13. ASSUME NEW r \in Threads, Process(r), UNCHANGED overlapped
      PROVE  SeenTo'
  BY <1>13 DEF Process, Step, Goto, fast_schedule
<1>14. ASSUME NEW r \in Threads, RunTasks(r), UNCHANGED overlapped
      PROVE  SeenTo'
  BY <1>14 DEF RunTasks, Step, Goto
<1>15. ASSUME NEW r \in Threads, Unlink(r), UNCHANGED overlapped
      PROVE  SeenTo'
  BY <1>15 DEF Unlink, Step, Goto
<1>16. ASSUME NEW r \in Threads, Fire(r), UNCHANGED overlapped
      PROVE  SeenTo'
  BY <1>16 DEF Fire, Step, Goto
<1>17. ASSUME NEW r \in Threads, Fired(r), UNCHANGED overlapped
      PROVE  SeenTo'
  BY <1>17 DEF Fired, Step, Goto
<1>18. ASSUME NEW r \in Threads, Relist(r), UNCHANGED overlapped
      PROVE  SeenTo'
  BY <1>18 DEF Relist, Step, Goto
<1>19. ASSUME NEW r \in Threads, Unlist(r), UNCHANGED overlapped
      PROVE  SeenTo'
  BY <1>19 DEF Unlist, Step, Goto
<1>20. ASSUME NEW r \in Threads, RunOs(r), UNCHANGED overlapped
      PROVE  SeenTo'
  BY <1>20 DEF RunOs, Step, Goto
<1>21. ASSUME NEW r \in Threads, Awake(r), UNCHANGED overlapped
      PROVE  SeenTo'
  BY <1>21 DEF Awake, Step, Goto
<1>22. ASSUME NEW r \in Threads, PostSelect(r), UNCHANGED overlapped
      PROVE  SeenTo'
  BY <1>22 DEF PostSelect, Step, Goto
<1>23. ASSUME NEW r \in Threads, Drain(r), UNCHANGED overlapped
      PROVE  SeenTo'
  BY <1>23 DEF Drain, Step, Goto
<1>24. ASSUME NEW r \in Threads, Unschedule(r), UNCHANGED overlapped
      PROVE  SeenTo'
  BY <1>24 DEF Unschedule, Step, Goto, Call
<1>25. ASSUME NEW r \in Threads, StrongUnschedule(r), UNCHANGED overlapped
      PROVE  SeenTo'
  BY <1>25 DEF StrongUnschedule, Step, Goto, Call
<1>26. ASSUME NEW r \in Threads, StrongReschedule(r), UNCHANGED overlapped
      PROVE  SeenTo'
  <2>1. UnlinkSeen'
    BY <1>26 DEF StrongReschedule, Step, Goto, Call
  <2>2. Listed'
    BY <1>26 DEF StrongReschedule, Step, Goto, Call
  <2> QED
    BY <2>1, <2>2
<1>27. ASSUME NEW r \in Threads, Reschedule(r), UNCHANGED overlapped
      PROVE  SeenTo'
  BY <1>27 DEF Reschedule, Step, Goto, Call
<1>28. ASSUME NEW r \in Threads, NEW new \in Threads \cup {Quiescent}, MoveThread(r, new)
      PROVE  SeenTo'
  BY <1>28 DEF MoveThread, Step, Goto, Call, InMoveThread
<1>29. ASSUME NEW r \in Threads, OtherEvent(r), UNCHANGED overlapped
      PROVE  SeenTo'
  BY <1>29 DEF OtherEvent, Step, Goto
<1>30. CASE UNCHANGED vars
  BY <1>30 DEF vars
<1> QED
  BY <1>1, <1>2, <1>3, <1>4, <1>5, <1>6, <1>7, <1>8, <1>9, <1>10, <1>11, <1>12, <1>13, <1>14, <1>15,
     <1>16, <1>17, <1>18, <1>19, <1>20, <1>21, <1>22, <1>23, <1>24, <1>25, <1>26, <1>27, <1>28, <1>29, <1>30
     DEF Next, ThreadStep, OtherCode

\* The task is run by its own thread only (see RunsOnOne), whatever is read without
\* a lock and however it is moved.
THEOREM TaskRunsOnOne ==
  ASSUME Quiescent \notin Threads
  PROVE  Spec => []RunsOnOne
<1>1. Init => TaskInv
  BY TaskStart
<1>2. TaskInv /\ [Next]_vars => TaskInv'
  BY TaskStep
<1>3. TaskInv => RunsOnOne
  BY DEF TaskInv, AtHome, RunsOnOne, Running
<1> QED
  BY <1>1, <1>2, <1>3, PTL DEF Spec

\* Nobody but the task's thread links or unlinks it, and the lists it is on are those
\* of its thread (see OwnLists).
THEOREM TaskOwnLists ==
  ASSUME Quiescent \notin Threads
  PROVE  Spec => []OwnLists
<1>1. Init => TaskInv
  BY TaskStart
<1>2. TaskInv /\ [Next]_vars => TaskInv'
  BY TaskStep
<1>3. TaskInv => OwnLists
  BY DEF TaskInv
<1> QED
  BY <1>1, <1>2, <1>3, PTL DEF Spec

\* No interleaving, overlapping calls of move_thread included, forgets a move: a task
\* that does not belong to its home thread is marked, or some thread is at a step that
\* moves it or asks its thread to (see MoveSeen, and EventuallyMoved for what follows
\* when the threads go on).
THEOREM TaskMoveSeen ==
  ASSUME Quiescent \notin Threads
  PROVE  Spec => []MoveSeen
<1>1. Init => TaskInv
  BY TaskStart
<1>2. TaskInv /\ [Next]_vars => TaskInv'
  BY TaskStep
<1>3. TaskInv => MoveSeen
  BY DEF TaskInv
<1> QED
  BY <1>1, <1>2, <1>3, PTL DEF Spec

\* No interleaving of reschedule, unschedule and move_thread with the driver leaves a
\* scheduled task on no list with nobody to put it there (see NotForgotten), unless a
\* call of move_thread has begun during another; the calls themselves are not
\* restricted.
THEOREM TaskNotForgotten ==
  ASSUME Quiescent \notin Threads
  PROVE  Spec => []NotForgotten
<1>1. Init => TaskInv /\ (~overlapped => SeenTo)
  BY TaskStart
<1>2. TaskInv /\ (~overlapped => SeenTo) /\ [Next]_vars => TaskInv' /\ (~overlapped' => SeenTo')
  BY TaskStep, SeenStep
<1>3. (~overlapped => SeenTo) => NotForgotten
  BY DEF SeenTo, Listed, NotForgotten
<1> QED
  BY <1>1, <1>2, <1>3, PTL DEF Spec

-----------------------------------------------------------------------------
(* The last run of a task that was unscheduled *)

\* A task that was unscheduled since is chosen only by the thread that had read the
\* status before, which has not started it yet.
LateChosen ==
  /\ late \in {-1, 0, 1}
  /\ late >= 0 => ~scheduled
  /\ \A q \in Threads : pc[q] = "chosen" => late <= 0

\* Every step keeps this: only a thread that finds the task scheduled chooses it.
LEMMA LateStep ==
  ASSUME TaskInv, LateChosen, [Next]_vars
  PROVE  LateChosen'
<1> USE DEF LateChosen, TaskInv, TaskTypes, Places, AtHome, status, lists, wakes
<1>1. ASSUME NEW r \in Threads, StrongUnscheduled(r)
      PROVE  LateChosen'
  BY <1>1 DEF StrongUnscheduled, Step, Goto
<1>2. ASSUME NEW r \in Threads, RescheduleToo(r)
      PROVE  LateChosen'
  BY <1>2 DEF RescheduleToo, Step, Goto
<1>3. ASSUME NEW r \in Threads, Decide(r)
      PROVE  LateChosen'
  BY <1>3 DEF Decide, Step, Goto
<1>4. ASSUME NEW r \in Threads, TrueReschedule(r)
      PROVE  LateChosen'
  BY <1>4 DEF TrueReschedule, Step, Goto
<1>5. ASSUME NEW r \in Threads, AddPending(r)
      PROVE  LateChosen'
  BY <1>5 DEF AddPending, Goto, add_pending_locked
<1>6. ASSUME NEW r \in Threads, Wake(r)
      PROVE  LateChosen'
  BY <1>6 DEF Wake, Step, Goto
<1>7. ASSUME NEW r \in Threads, WritePipe(r)
      PROVE  LateChosen'
  BY <1>7 DEF WritePipe, Step, Goto
<1>8. ASSUME NEW r \in Threads, MoveFirstHalf(r)
      PROVE  LateChosen'
  BY <1>8 DEF MoveFirstHalf, Step, Goto
<1>9. ASSUME NEW r \in Threads, Move(r)
      PROVE  LateChosen'
  BY <1>9 DEF Move, Goto, add_pending_locked
<1>10. ASSUME NEW r \in Threads, Moved(r)
      PROVE  LateChosen'
  BY <1>10 DEF Moved, Step, Goto
<1>11. ASSUME NEW r \in Threads, Claim(r)
      PROVE  LateChosen'
  BY <1>11 DEF Claim, Step, Goto
<1>12. ASSUME NEW r \in Threads, Unmark(r)
      PROVE  LateChosen'
  BY <1>12 DEF Unmark, Step, Goto
<1>13. ASSUME NEW r \in Threads, Process(r)
      PROVE  LateChosen'
  BY <1>13 DEF Process, Step, Goto
<1>14. ASSUME NEW r \in Threads, RunTasks(r)
      PROVE  LateChosen'
  BY <1>14 DEF RunTasks, Step, Goto
<1>15. ASSUME NEW r \in Threads, Unlink(r)
      PROVE  LateChosen'
  BY <1>15 DEF Unlink, Step, Goto
<1>16. ASSUME NEW r \in Threads, Fire(r)
      PROVE  LateChosen'
  BY <1>16 DEF Fire, Step, Goto
<1>17. ASSUME NEW r \in Threads, Fired(r)
      PROVE  LateChosen'
  BY <1>17 DEF Fired, Step, Goto
<1>18. ASSUME NEW r \in Threads, Relist(r)
      PROVE  LateChosen'
  BY <1>18 DEF Relist, Step, Goto
<1>19. ASSUME NEW r \in Threads, Unlist(r)
      PROVE  LateChosen'
  BY <1>19 DEF Unlist, Step, Goto
<1>20. ASSUME NEW r \in Threads, RunOs(r)
      PROVE  LateChosen'
  BY <1>20 DEF RunOs, Step, Goto
<1>21. ASSUME NEW r \in Threads, Awake(r)
      PROVE  LateChosen'
  BY <1>21 DEF Awake, Step, Goto
<1>22. ASSUME NEW r \in Threads, PostSelect(r)
      PROVE  LateChosen'
  BY <1>22 DEF PostSelect, Step, Goto
<1>23. ASSUME NEW r \in Threads, Drain(r)
      PROVE  LateChosen'
  BY <1>23 DEF Drain, Step, Goto
<1>24. ASSUME NEW r \in Threads, Unschedule(r)
      PROVE  LateChosen'
  BY <1>24 DEF Unschedule, Step, Goto, Call
<1>25. ASSUME NEW r \in Threads, StrongUnschedule(r)
      PROVE  LateChosen'
  BY <1>25 DEF StrongUnschedule, Step, Goto, Call
<1>26. ASSUME NEW r \in Threads, StrongReschedule(r)
      PROVE  LateChosen'
  BY <1>26 DEF StrongReschedule, Step, Goto, Call
<1>27. ASSUME NEW r \in Threads, Reschedule(r)
      PROVE  LateChosen'
  BY <1>27 DEF Reschedule, Step, Goto, Call
<1>28. ASSUME NEW r \in Threads, NEW new \in Threads \cup {Quiescent}, MoveThread(r, new)
      PROVE  LateChosen'
  BY <1>28 DEF MoveThread, Step, Goto, Call
<1>29. ASSUME NEW r \in Threads, OtherEvent(r)
      PROVE  LateChosen'
  BY <1>29 DEF OtherEvent, Step, Goto
<1>30. CASE UNCHANGED vars
  BY <1>30 DEF vars
<1> QED
  BY <1>1, <1>2, <1>3, <1>4, <1>5, <1>6, <1>7, <1>8, <1>9, <1>10, <1>11, <1>12, <1>13, <1>14, <1>15,
     <1>16, <1>17, <1>18, <1>19, <1>20, <1>21, <1>22, <1>23, <1>24, <1>25, <1>26, <1>27, <1>28, <1>29, <1>30
     DEF Next, ThreadStep, OtherCode

\* A task that was unscheduled is started at most once before it is rescheduled (see
\* LateOnce).
THEOREM TaskLateOnce ==
  ASSUME Quiescent \notin Threads
  PROVE  Spec => []LateOnce
<1>1. Init => TaskInv /\ LateChosen
  <2>1. Init /\ scheduled => LateChosen
    BY DEF Init, LateChosen
  <2>2. Init /\ ~scheduled => LateChosen
    BY DEF Init, LateChosen
  <2> QED
    BY <2>1, <2>2, TaskStart
<1>2. TaskInv /\ LateChosen /\ [Next]_vars => TaskInv' /\ LateChosen'
  BY TaskStep, LateStep
<1>3. LateChosen => LateOnce
  BY DEF LateChosen, LateOnce
<1> QED
  BY <1>1, <1>2, <1>3, PTL DEF Spec
=============================================================================
