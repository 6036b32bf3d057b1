----------------------------- MODULE MCElements -----------------------------
(***************************************************************************)
(* Elements by themselves, and the timers they use, one at a time: an      *)
(* indicator element with the indicator that the configuration file names, *)
(* the elements of the first generation (Movement, Join, Aroon), the       *)
(* timers of a router thread and their heap.  A behaviour is about one of  *)
(* them and leaves the others as they are initially.                       *)
(*                                                                         *)
(* There are enough timers in the heap for three levels.                   *)
(***************************************************************************)
EXTENDS SingleIndicator, Indicators

CONSTANTS Arity, Timers, NoTimer, MaxTimers, TimerMaxTime, MaxCalls,
          HeapTimers, Expiries,
          Prices, MovementTrades, Lead, LastStamp, IntervalLen,
          MaxMessages, NoPort,
          AroonPrices, Sizes, Span, MaxIntervals, AroonTrades

VARIABLES subject,
          now, heap, expiry, first, chunk, check, pc, left, next, running, until,
          woken, stop, calls, owed,                     \* TimerSet
          array,                                        \* Heap
          dm, tr, ewma, answer, trades,                 \* Movement
          next_trade, saved, joined, last,       \* Join
          stats, sent, buffer, since, bars              \* Aroon

TwoPorts == {0, 1}
BothModes == {"NAIVE", "STARTUP"}

Clk == INSTANCE TimerSet WITH MaxTime <- TimerMaxTime
H == INSTANCE Heap
Mv == INSTANCE Movement WITH MaxTrades <- MovementTrades
Jn == INSTANCE Join WITH next <- next_trade, out <- joined
Ar == INSTANCE Aroon WITH Prices <- AroonPrices, MaxTrades <- AroonTrades

timerVars == <<now, heap, expiry, first, chunk, check, pc, left, next, running, until,
               woken, stop, calls, owed>>
movementVars == <<dm, tr, ewma, answer, trades>>
joinVars == <<next_trade, saved, joined, last>>
aroonVars == <<stats, sent, buffer, since, bars>>
allVars == <<vars, timerVars, array, movementVars, joinVars, aroonVars, subject>>

NewHeap == [a |-> <<>>, pos |-> [t \in HeapTimers |-> 0]]

MCInit ==
  /\ subject \in {"Indicator", "Timers", "Heap", "Movement", "Join", "Aroon"}
  /\ Init /\ (subject # "Indicator" => elem.op_mode = "NAIVE")
  /\ Clk!Init
  /\ array = NewHeap
  /\ Mv!Init
  /\ Jn!Init
  /\ Ar!Init

HeapNext ==
  \E t \in HeapTimers :
    \/ \E e \in Expiries : array' = H!Put(array, t, e)
    \/ array.pos[t] > 0 /\ array' = H!TakeOut(array, t)

MCNext ==
  /\ UNCHANGED subject
  /\ \/ /\ subject = "Indicator" /\ Next
        /\ UNCHANGED <<timerVars, array, movementVars, joinVars, aroonVars>>
     \/ /\ subject = "Timers" /\ Clk!Next
        /\ UNCHANGED <<vars, array, movementVars, joinVars, aroonVars>>
     \/ /\ subject = "Heap" /\ HeapNext
        /\ UNCHANGED <<vars, timerVars, movementVars, joinVars, aroonVars>>
     \/ /\ subject = "Movement" /\ Mv!Next
        /\ UNCHANGED <<vars, timerVars, array, joinVars, aroonVars>>
     \/ /\ subject = "Join" /\ Jn!Next
        /\ UNCHANGED <<vars, timerVars, array, movementVars, aroonVars>>
     \/ /\ subject = "Aroon" /\ Ar!Next
        /\ UNCHANGED <<vars, timerVars, array, movementVars, joinVars>>

MCSpec == MCInit /\ [][MCNext]_allVars

-----------------------------------------------------------------------------
(* The properties of the instances *)

\* Every scheduled timer is where its _schedpos1 says (TimerSet).
WellPlaced == subject = "Timers" => Clk!WellPlaced

\* The driver does not sleep past the first timer (TimerSet).
NeverOversleeps == subject = "Timers" => Clk!NeverOversleeps

\* run_timers runs all timers that had expired (TimerSet).
NoneStarves == subject = "Timers" => Clk!NoneStarves

\* No timer runs before its time (TimerSet, Alarms).
RefinesAlarms == Clk!RefinesAlarms

\* The operations of heap.hh keep the order of the heap, and every timer informed of
\* its place in it, when timers are added, removed from anywhere, and made to expire
\* earlier or later.
HeapOrdered == subject = "Heap" => H!InOrder(array)

\* The directional elements answer with the smoothed value of the interval (Movement).
SmoothedExact == subject = "Movement" => Mv!SmoothedExact

\* A join answers the latest trade of both branches (Join).
LatestJoined == subject = "Join" => Jn!LatestJoined

\* The Aroon indicators tell the age of the highest and the lowest price (Aroon).
AroonExact == subject = "Aroon" => Ar!AroonExact
=============================================================================
