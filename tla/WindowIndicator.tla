-------------------------- MODULE WindowIndicator --------------------------
(***************************************************************************)
(* What an indicator element promises to the elements around it.  It       *)
(* remembers the last Cap values of each port that were added for good     *)
(* and answers every message with the indicator of that window.  An UPDATE *)
(* is answered as if its values had been added, but leaves the window as   *)
(* it was.  The first message, of whatever kind, fills the window and is   *)
(* answered with the initial value, if the indicator has one.              *)
(***************************************************************************)
EXTENDS Integers, Sequences

CONSTANTS Ports, Cap, Values, MaxTime,
          initialize_element(_), process_naive(_)

VARIABLES window,   \* window[p]: the values of port p, newest first
          started,  \* whether there was a message
          clock,    \* the timestamp of the last message
          pending,  \* <<m>> while message m is being processed, else <<>>
          out       \* the answer to the last message

vars == <<window, started, clock, pending, out>>

Prepend(w, vals) ==
  [p \in Ports |-> <<vals[p]>> \o (IF Len(w[p]) = Cap THEN SubSeq(w[p], 1, Cap - 1) ELSE w[p])]

Init ==
  /\ window = [p \in Ports |-> <<>>]
  /\ started = FALSE
  /\ clock = 0
  /\ pending = <<>>
  /\ out = <<>>

Accept(m) ==
  /\ pending = <<>>
  /\ m.tstamp > clock
  /\ m.kind = "INIT" => ~started
  /\ clock' = m.tstamp
  /\ pending' = <<m>>
  /\ out' = <<>>
  /\ UNCHANGED <<window, started>>

Say(m, v) == out' = <<[kind |-> m.kind, tstamp |-> m.tstamp, value |-> v]>>

AnswerFirst(m) ==
  /\ ~started
  /\ started' = TRUE
  /\ window' = Prepend(window, m.vals)
  /\ IF initialize_element(window') = <<>> THEN UNCHANGED out
     ELSE Say(m, initialize_element(window')[1])

AnswerAdd(m) ==
  /\ started
  /\ m.kind = "ADD"
  /\ window' = Prepend(window, m.vals)
  /\ Say(m, process_naive(window'))
  /\ UNCHANGED started

AnswerUpdate(m) ==
  /\ started
  /\ m.kind = "UPDATE"
  /\ Say(m, process_naive(Prepend(window, m.vals)))
  /\ UNCHANGED <<window, started>>

Answer ==
  /\ pending # <<>>
  /\ AnswerFirst(pending[1]) \/ AnswerAdd(pending[1]) \/ AnswerUpdate(pending[1])
  /\ pending' = <<>>
  /\ UNCHANGED clock

Messages ==
  [kind : {"INIT", "ADD", "UPDATE"}, tstamp : 1 .. MaxTime, vals : [Ports -> Values]]

Next == Answer \/ \E m \in Messages : Accept(m)

Spec == Init /\ [][Next]_vars
=============================================================================
