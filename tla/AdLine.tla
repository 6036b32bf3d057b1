------------------------------- MODULE AdLine -------------------------------
(***************************************************************************)
(* The advance/decline line of the hand-coded programs (ad_line.cpp): an   *)
(* ADLineTick per symbol compares a close with that of the last ADD, and   *)
(* the one ADLine object keeps the last tick of every symbol and the       *)
(* numbers of symbols whose last tick was UP and DOWN, which it corrects   *)
(* from tick to tick.                                                      *)
(***************************************************************************)
EXTENDS Integers, FiniteSets

CONSTANTS Symbols, Prices

VARIABLES prev_close,  \* _prev_close of the symbols that have an ADLineTick
          tick_map,    \* _tick_map
          total_up, total_down,
          rv           \* the value returned last

vars == <<prev_close, tick_map, total_up, total_down, rv>>

\* The function f with s mapped to v, whether s was in its domain or not.
With(f, s, v) == [x \in DOMAIN f \cup {s} |-> IF x = s THEN v ELSE f[x]]

Init ==
  /\ prev_close = [s \in {} |-> 0]
  /\ tick_map = [s \in {} |-> "FLAT"]
  /\ total_up = 0
  /\ total_down = 0
  /\ rv = 0

\* ADLineTick::initialize, at the first trade of a symbol.
initialize(s, close) ==
  /\ s \notin DOMAIN prev_close
  /\ prev_close' = With(prev_close, s, close)
  /\ UNCHANGED <<tick_map, total_up, total_down, rv>>

TickOf(s, close) ==
  IF close > prev_close[s] THEN "UP" ELSE IF close < prev_close[s] THEN "DOWN" ELSE "FLAT"

\* Mutant: a tick that was counted before is not taken back.
Correction_Forgets(s, tick, which) ==
  IF tick = which /\ ~(s \in DOMAIN tick_map /\ tick_map[s] = which) THEN 1 ELSE 0

\* What the switch adds to the total of the symbols whose last tick is which.  A
\* symbol seen for the first time is counted like one that was FLAT.
Correction(s, tick, which) ==
  (IF tick = which THEN 1 ELSE 0)
    - (IF s \in DOMAIN tick_map /\ tick_map[s] = which THEN 1 ELSE 0)

\* ADLineTick::calculate_value and ADLine::calculate_value.
calculate_value(s, close, update_type) ==
  LET tick == TickOf(s, close)
  IN  /\ s \in DOMAIN prev_close
      /\ prev_close' = IF update_type = "ADD" THEN With(prev_close, s, close) ELSE prev_close
      /\ total_up' = total_up + Correction(s, tick, "UP")
      /\ total_down' = total_down + Correction(s, tick, "DOWN")
      /\ tick_map' = With(tick_map, s, tick)
      /\ rv' = total_up' - total_down'

Next ==
  \E s \in Symbols, close \in Prices :
    initialize(s, close) \/ \E type \in {"ADD", "UPDATE"} : calculate_value(s, close, type)

Spec == Init /\ [][Next]_vars

-----------------------------------------------------------------------------
(* Properties *)

\* The symbols whose last tick was which.
Ticked(which) == {s \in DOMAIN tick_map : tick_map[s] = which}

\* The totals, which are only ever corrected by one, are the numbers of symbols
\* that went up and down last, and the line is their difference, however ADDs and
\* UPDATEs of several symbols alternate; being unsigned, they never go below 0.
LineExact ==
  /\ total_up = Cardinality(Ticked("UP"))
  /\ total_down = Cardinality(Ticked("DOWN"))
  /\ rv = total_up - total_down
=============================================================================
