------------------------------ MODULE Buffers ------------------------------
(***************************************************************************)
(* The class Buffers (lib/buffers.cc, include/click/buffers.hh): one ring  *)
(* of recent values per input port, newest first, and the bookkeeping that *)
(* tells when every port has got its value of the current timestamp.  A    *)
(* value added "temporarily" is taken out again, and the value it pushed   *)
(* out of a full ring put back, when the next timestamp arrives.           *)
(*                                                                         *)
(* A ring is the sequence of its elements: CircArray implements Deque.     *)
(***************************************************************************)
EXTENDS Integers, Sequences

CONSTANTS Ports,   \* the input ports
          Cap,     \* the capacity of each ring (BUF_SIZE)
          Zero     \* the value of a default-constructed FixedPt

ASSUME CapAssumption == Cap \in Nat /\ Cap >= 2

BufferStates ==
  {"INITIAL", "ACCUMULATING", "ACCUMULATING_POP",
   "ACCUMULATED", "ACCUMULATED_TEMP", "ACCUMULATED_TEMP_POP"}

\* updated is the set of the ports whose flag is 'Y'.
NewBuffers ==
  [tstamp |-> 0, updated |-> {}, state |-> "INITIAL",
   ring |-> [p \in Ports |-> <<>>], temp_updates |-> [p \in Ports |-> Zero]]

DropLast(s) == SubSeq(s, 1, Len(s) - 1)

LastOf(s) == s[Len(s)]

\* The two ring operations that overwrite when the ring is full.
push_front(s, v) == <<v>> \o (IF Len(s) = Cap THEN DropLast(s) ELSE s)

push_back(s, v) == Append(IF Len(s) = Cap THEN Tail(s) ELSE s, v)

is_update_complete(b) ==
  b.state \in {"ACCUMULATED", "ACCUMULATED_TEMP", "ACCUMULATED_TEMP_POP"}

\* Mutant: the temporary values are taken out of full rings only.
Restored_FullOnly(b) ==
  IF b.state = "ACCUMULATED_TEMP_POP"
  THEN [p \in Ports |-> push_back(Tail(b.ring[p]), b.temp_updates[p])]
  ELSE b.ring

\* The rings after the temporary values are taken out again.
Restored(b) ==
  CASE b.state = "ACCUMULATED_TEMP"     -> [p \in Ports |-> Tail(b.ring[p])]
    [] b.state = "ACCUMULATED_TEMP_POP" ->
         [p \in Ports |-> push_back(Tail(b.ring[p]), b.temp_updates[p])]
    [] OTHER -> b.ring

\* A new timestamp starts a new round.  (The debug message about a round that
\* was still incomplete changes nothing.)
new_value_check(b, tstamp) ==
  IF tstamp > b.tstamp
  THEN [b EXCEPT !.tstamp = tstamp, !.updated = {}, !.ring = Restored(b),
                 !.state = "ACCUMULATING"]
  ELSE b

add_new_value(b, v, tstamp, port) ==
  LET c == new_value_check(b, tstamp)
      updated == c.updated \cup {port}
  IN  [c EXCEPT !.ring[port] = push_front(@, v),
                !.updated = updated,
                !.state = IF updated = Ports THEN "ACCUMULATED" ELSE @]

add_new_value_temp(b, v, tstamp, port) ==
  LET c == new_value_check(b, tstamp)
      updated == c.updated \cup {port}
      full == Len(c.ring[port]) = Cap
      state == IF full THEN "ACCUMULATING_POP" ELSE c.state
  IN  [c EXCEPT !.temp_updates[port] = IF full THEN LastOf(c.ring[port]) ELSE @,
                !.ring[port] = push_front(@, v),
                !.updated = updated,
                !.state = IF updated # Ports THEN state
                          ELSE IF state = "ACCUMULATING" THEN "ACCUMULATED_TEMP"
                          ELSE "ACCUMULATED_TEMP_POP"]
=============================================================================
