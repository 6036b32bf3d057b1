------------------------------- MODULE Alarms -------------------------------
(***************************************************************************)
(* What Click's timers promise their users: "The only strict guarantee is  *)
(* that a Timer will run after its nominal expiration time."  A timer that *)
(* is set rings at most once, one rings at a time, and none before its     *)
(* time.                                                                   *)
(***************************************************************************)
EXTENDS Integers

CONSTANTS Timers, NoTimer

VARIABLES time,    \* the steady clock
          due,     \* due[t]: when t is to ring, or 0
          ringing  \* the timer whose callback runs, or NoTimer

vars == <<time, due, ringing>>

Init ==
  /\ time \in Nat
  /\ due \in [Timers -> Nat]
  /\ ringing = NoTimer

Tick == time' = time + 1 /\ UNCHANGED <<due, ringing>>

Set(t) ==
  /\ due'[t] \in Nat
  /\ due' = [due EXCEPT ![t] = due'[t]]

Ring(t) ==
  /\ ringing = NoTimer
  /\ 0 < due[t] /\ due[t] <= time
  /\ ringing' = t
  /\ due' = [due EXCEPT ![t] = 0]
  /\ UNCHANGED time

\* The callback ends; as its last act it may set its own timer.
Stop ==
  /\ ringing # NoTimer
  /\ ringing' = NoTimer
  /\ Set(ringing)
  /\ UNCHANGED time

Next ==
  \/ Tick
  \/ \E t \in Timers : Ring(t) \/ (Set(t) /\ UNCHANGED <<time, ringing>>)
  \/ Stop

Spec == Init /\ [][Next]_vars
=============================================================================
