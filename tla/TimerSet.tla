------------------------------ MODULE TimerSet ------------------------------
(***************************************************************************)
(* The timers of a router thread (lib/timerset.cc, lib/timer.cc), on which *)
(* TradeProcessor relies for the end of an interval.  The thread's driver  *)
(* runs those that have expired and sleeps until the next one; callbacks,  *)
(* and another thread, schedule and unschedule timers meanwhile.           *)
(*                                                                         *)
(* A call of schedule_at_steady or unschedule is one step, since it is     *)
(* made under _timer_lock, which the driver holds while it runs timers     *)
(* (its own callbacks find _timer_processor and do not ask for it).  Time  *)
(* is in seconds, from 1.  The stride and the adjustment, which only       *)
(* change how often the driver looks, and pausing are left out.            *)
(***************************************************************************)
EXTENDS Heap

CONSTANTS Timers, NoTimer,
          MaxTimers,  \* max_timers: 64 in run_timers
          MaxTime,    \* bound on the time
          MaxCalls    \* bound on calls other than a timer's own rescheduling

VARIABLES now,      \* now_steady()
          heap,     \* _timer_heap with the _schedpos1 of the timers
          expiry,   \* _expiry_s of each timer
          first,    \* _timer_expiry, or 0
          chunk,    \* _timer_runchunk
          check,    \* _timer_check
          pc,       \* where the driver is
          left,     \* max_timers
          next,     \* the iterator of the runchunk
          running,  \* the timer whose callback runs, or NoTimer
          until,    \* the end of the sleep, or 0
          woken,    \* a byte in the wake pipe
          stop,     \* _stop_flag
          calls,
          owed      \* the timers that this call of run_timers is to run (history)

set == <<heap, expiry, first, chunk>>
driver == <<check, pc, left, next, running, until>>
vars == <<now, set, driver, woken, stop, calls, owed>>

Init ==
  /\ now = 1
  /\ heap = [a |-> <<>>, pos |-> [t \in Timers |-> 0]]
  /\ expiry = [t \in Timers |-> 0]
  /\ first = 0
  /\ chunk = <<>>
  /\ check = 1
  /\ pc = "top"
  /\ left = 0
  /\ next = 0
  /\ running = NoTimer
  /\ until = 0
  /\ woken = FALSE
  /\ stop = FALSE
  /\ calls = 0
  /\ owed = {}

Tick ==
  /\ now < MaxTime
  /\ now' = now + 1
  /\ UNCHANGED <<set, driver, woken, stop, calls>>

-----------------------------------------------------------------------------
(* The timers *)

scheduled(t) == heap.pos[t] # 0

\* set_timer_expiry.
ExpiryOf(h) == IF h.a = <<>> THEN 0 ELSE h.a[1].expiry

\* check_timer_expiry: not "too far in the past".
Checked(when) == IF when + 1 < check THEN check ELSE when

\* Mutant: a timer that a callback moves or unschedules stays in the runchunk.
Unchunked_Left(t) == chunk

\* Takes t out of the runchunk if it is there.
Unchunked(t) == IF heap.pos[t] < 0 THEN [chunk EXCEPT ![-heap.pos[t]] = NoTimer] ELSE chunk

\* Mutant: the thread is not woken.
schedule_at_steady_NoWake(t, when, byDriver) ==
  LET h == Put(heap, t, Checked(when)) IN
  /\ heap' = h
  /\ expiry' = [expiry EXCEPT ![t] = Checked(when)]
  /\ chunk' = Unchunked(t)
  /\ first' = IF heap.pos[t] = 1 \/ h.pos[t] = 1 THEN ExpiryOf(h) ELSE first
  /\ UNCHANGED woken

\* Only a call from another thread has to wake the driver.
schedule_at_steady(t, when, byDriver) ==
  LET h == Put(heap, t, Checked(when)) IN
  /\ heap' = h
  /\ expiry' = [expiry EXCEPT ![t] = Checked(when)]
  /\ chunk' = Unchunked(t)
  /\ first' = IF heap.pos[t] = 1 \/ h.pos[t] = 1 THEN ExpiryOf(h) ELSE first
  /\ woken' = (woken \/ (~byDriver /\ h.pos[t] = 1))

unschedule(t) ==
  LET h == IF heap.pos[t] > 0 THEN TakeOut(heap, t) ELSE [heap EXCEPT !.pos[t] = 0] IN
  /\ scheduled(t)
  /\ heap' = h
  /\ chunk' = Unchunked(t)
  /\ first' = IF heap.pos[t] = 1 THEN ExpiryOf(h) ELSE first
  /\ UNCHANGED <<expiry, woken>>

\* Some code calls one of them, for any time.
Call(byDriver) ==
  /\ calls < MaxCalls
  /\ calls' = calls + 1
  /\ \E t \in Timers :
       \/ \E when \in 1 .. MaxTime : schedule_at_steady(t, when, byDriver)
       \/ unschedule(t)
  /\ UNCHANGED <<now, driver, stop>>

\* Another thread, which has to wait for the lock.
OtherThread == pc \in {"top", "driver", "select", "asleep"} /\ Call(FALSE)

-----------------------------------------------------------------------------
(* run_timers *)

Goto(from, to) == pc = from /\ pc' = to

Due(h) == h.a # <<>> /\ h.a[1].expiry <= check'

\* The lock is free, or taken for the time of a call.
RunTimers ==
  /\ IF heap.a # <<>> /\ ~stop
     THEN check' = now /\ Goto("driver", IF Due(heap) THEN "pop" ELSE "select")
     ELSE Goto("driver", "select") /\ UNCHANGED check
  /\ left' = MaxTimers
  /\ UNCHANGED <<now, set, next, running, until, woken, stop, calls>>

\* The first timer is taken out and its callback called.
Pop ==
  /\ Goto("pop", "callback")
  /\ running' = heap.a[1].t
  /\ heap' = TakeOut(heap, heap.a[1].t)
  /\ first' = ExpiryOf(heap')
  /\ UNCHANGED <<now, expiry, chunk, check, left, next, until, woken, stop, calls>>

\* What a callback does besides rescheduling its own timer.
Callback == pc = "callback" /\ Call(TRUE)

\* The callback ends; before, it may reschedule its timer by reschedule_after, which
\* counts from the old expiry.
Return ==
  /\ Goto("callback", IF chunk = <<>> THEN "again" ELSE "chunk")
  /\ running' = NoTimer
  /\ \/ \E when \in expiry[running] .. MaxTime : schedule_at_steady(running, when, TRUE)
     \/ UNCHANGED <<set, woken>>
  /\ UNCHANGED <<now, check, left, next, until, stop, calls>>

\* Mutant: the clock is not looked at again.
Again_Undue ==
  /\ IF heap.a # <<>> /\ ~stop
     THEN left' = left - 1 /\ Goto("again", IF left > 0 THEN "pop" ELSE "fill")
     ELSE Goto("again", "select") /\ UNCHANGED left
  /\ UNCHANGED <<now, set, check, next, running, until, woken, stop, calls>>

\* Mutant: the other expired timers wait for the next call.
Again_NoFill ==
  /\ UNCHANGED check
  /\ IF Due(heap) /\ ~stop
     THEN left' = left - 1 /\ Goto("again", IF left > 0 THEN "pop" ELSE "select")
     ELSE Goto("again", "select") /\ UNCHANGED left
  /\ UNCHANGED <<now, set, next, running, until, woken, stop, calls>>

\* The condition of the loop.
Again ==
  /\ UNCHANGED check
  /\ IF Due(heap) /\ ~stop
     THEN left' = left - 1 /\ Goto("again", IF left > 0 THEN "pop" ELSE "fill")
     ELSE Goto("again", "select") /\ UNCHANGED left
  /\ UNCHANGED <<now, set, next, running, until, woken, stop, calls>>

\* All timers that have expired are taken out of the heap, in their order.
RECURSIVE Filled(_, _)
Filled(h, ts) ==
  IF Due(h)
  THEN LET t == h.a[1].t
       IN  Filled([TakeOut(h, t) EXCEPT !.pos[t] = -Len(ts) - 1], Append(ts, t))
  ELSE [heap |-> h, chunk |-> ts]

\* "perhaps there's an infinite timer loop or one timer is very far behind".
Fill ==
  /\ UNCHANGED check
  /\ IF stop
     THEN Goto("fill", "select") /\ UNCHANGED <<heap, chunk, first, next>>
     ELSE LET f == Filled(heap, <<>>) IN
          /\ Goto("fill", "chunk")
          /\ heap' = f.heap
          /\ chunk' = f.chunk
          /\ first' = ExpiryOf(f.heap)
          /\ next' = 1
  /\ UNCHANGED <<now, expiry, left, running, until, woken, stop, calls>>

\* The next timer of the runchunk; those taken out of it meanwhile are skipped.
RunChunk ==
  /\ ~stop
  /\ next <= Len(chunk)
  /\ next' = next + 1
  /\ Goto("chunk", IF chunk[next] = NoTimer THEN "chunk" ELSE "callback")
  /\ running' = chunk[next]
  /\ heap' = IF chunk[next] = NoTimer THEN heap
             ELSE [heap EXCEPT !.pos[chunk[next]] = 0]
  /\ UNCHANGED <<now, expiry, first, chunk, check, left, until, woken, stop, calls>>

StopChunk ==
  /\ stop
  /\ next <= Len(chunk)
  /\ Goto("chunk", "unrun")
  /\ UNCHANGED <<now, set, check, left, next, running, until, woken, stop, calls>>

\* "reschedule unrun timers if stopped early".
Unrun ==
  /\ pc = "unrun"
  /\ next <= Len(chunk)
  /\ next' = next + 1
  /\ IF chunk[next] = NoTimer THEN UNCHANGED <<set, woken>>
     ELSE schedule_at_steady(chunk[next], expiry[chunk[next]], TRUE)
  /\ UNCHANGED <<now, check, pc, left, running, until, stop, calls>>

EndChunk ==
  /\ pc \in {"chunk", "unrun"}
  /\ next > Len(chunk)
  /\ pc' = "select"
  /\ chunk' = <<>>
  /\ UNCHANGED <<now, heap, expiry, first, check, left, next, running, until, woken, stop, calls>>

-----------------------------------------------------------------------------
(* The rest of the driver *)

\* next_timer_delay and poll: it blocks until the first timer is due, forever without
\* one, and not at all when there are tasks to run or descriptors ready.
Select ==
  /\ \/ Goto("select", "top") /\ UNCHANGED until
     \/ /\ first = 0 \/ first > now
        /\ Goto("select", "asleep")
        /\ until' = first
  /\ UNCHANGED <<now, set, check, left, next, running, woken, stop, calls>>

Awake ==
  /\ Goto("asleep", "top")
  /\ woken \/ (until # 0 /\ until <= now)
  /\ woken' = FALSE
  /\ UNCHANGED <<now, set, check, left, next, running, until, stop, calls>>

\* The top of the driver's loop; check_driver takes the request back if the router
\* is to go on (when it is not, the timers are gone with it).
Top ==
  /\ Goto("top", "driver")
  /\ stop' = FALSE
  /\ UNCHANGED <<now, set, check, left, next, running, until, woken, calls>>

\* A thread asks all threads to stop, and wakes the first one, which may be this one;
\* a thread that comes to check_driver before this one takes the request back for all.
RequestStop ==
  /\ calls < MaxCalls
  /\ calls' = calls + 1
  /\ stop' = TRUE
  /\ woken' \in {woken, TRUE}
  /\ UNCHANGED <<now, set, driver>>

RequestGo ==
  /\ stop
  /\ stop' = FALSE
  /\ UNCHANGED <<now, set, driver, woken, calls>>

DriverStep ==
  \/ Top \/ RunTimers \/ Pop \/ Return \/ Again \/ Fill \/ RunChunk \/ StopChunk \/ Unrun
  \/ EndChunk \/ Select \/ Awake

\* What run_timers still owes: at its start, the timers that have expired; later those
\* of them that have not run and were not unscheduled, or rescheduled to run later or
\* while in the runchunk; nothing any more when it was asked to stop.
Observe ==
  owed' = IF pc = "driver" THEN {t \in Timers : scheduled(t) /\ expiry[t] <= check' /\ pc' = "pop"}
          ELSE IF stop /\ pc \in {"again", "fill", "chunk"} THEN {}
          ELSE {t \in owed : /\ heap'.pos[t] # 0 /\ expiry'[t] <= check
                             /\ heap.pos[t] < 0 => heap'.pos[t] < 0}

Next == (Tick \/ OtherThread \/ Callback \/ RequestStop \/ RequestGo \/ DriverStep) /\ Observe

Spec == Init /\ [][Next]_vars

-----------------------------------------------------------------------------
(* Properties *)

\* Every scheduled timer is in the heap or in the runchunk, once, where its
\* _schedpos1 says, with the expiry it was given, and the heap is one: the assertion
\* of run_timers (t->expiry_steady() == th->expiry_s), and what makes every index
\* computed from a _schedpos1 a valid one.
WellPlaced ==
  /\ InOrder(heap)
  /\ \A k \in 1 .. Len(heap.a) : heap.a[k].expiry = expiry[heap.a[k].t]
  /\ \A t \in Timers : heap.pos[t] < 0 => chunk[-heap.pos[t]] = t
  /\ next > 0 => \A k \in next .. Len(chunk) : chunk[k] # NoTimer => heap.pos[chunk[k]] = -k

\* The driver never sleeps past the time of the first timer, which it reads without
\* the lock: another thread that makes a timer the first one wakes it, also between
\* its reading and its going to sleep.
NeverOversleeps ==
  pc = "asleep" /\ ~woken /\ heap.a # <<>> => until # 0 /\ until <= heap.a[1].expiry

\* A call of run_timers that is not asked to stop runs every timer that had expired
\* when it started, whatever the others do meanwhile; one that reschedules itself at
\* once, time and again, keeps none waiting ("other timers could starve").
NoneStarves == pc = "select" => owed = {}

\* The timers implement alarms: in particular none runs before its time, also not
\* one that a callback moves into the future while it waits in the runchunk.
A == INSTANCE Alarms
       WITH time <- now, ringing <- running,
            due <- [t \in Timers |-> IF scheduled(t) THEN expiry[t] ELSE 0]
RefinesAlarms == A!Spec
=============================================================================
