-------------------------------- MODULE Join --------------------------------
(***************************************************************************)
(* How DirectionalIndex and DxIndicator bring together what two branches   *)
(* of a graph computed from the same trade (their push methods are alike). *)
(* A message that comes first is saved until its partner comes, which is   *)
(* known by its time stamp; one packet is saved at a time.                 *)
(*                                                                         *)
(* One router thread pushes through both branches, so that push is one     *)
(* step; it would not be with a thread for each branch, as _saved_packet   *)
(* has no lock.  A branch delivers in order, but may be behind the other   *)
(* (a queue in it whose task that thread runs later) or answer nothing for *)
(* a trade.  Messages are known by the number of their trade, which stands *)
(* for its time stamp.                                                     *)
(***************************************************************************)
EXTENDS Integers

CONSTANTS MaxMessages, NoPort

Inputs == {0, 1}

VARIABLES next,    \* the next trade on each port
          saved,   \* _saved_packet: its port and its trade
          out,     \* the trades with a result
          last     \* the last message of each port, or 0 (history)

vars == <<next, saved, out, last>>

Nothing == [port |-> NoPort, n |-> 0]

Init ==
  /\ next = [p \in Inputs |-> 1]
  /\ saved = Nothing
  /\ out = {}
  /\ last = [p \in Inputs |-> 0]

\* Mutant: the saved message stays when a newer one comes on the other port.
Pair_Older(p, n) ==
  IF saved.port \in {p, NoPort} THEN saved' = [port |-> p, n |-> n] /\ UNCHANGED out
  ELSE IF saved.n # n THEN UNCHANGED <<saved, out>>
  ELSE saved' = Nothing /\ out' = out \cup {n}

\* Steps 2, 3 and 7 of push: of two messages the newer one is kept.
Pair(p, n) ==
  IF saved.port \in {p, NoPort} \/ saved.n < n
  THEN saved' = [port |-> p, n |-> n] /\ UNCHANGED out
  ELSE IF saved.n > n THEN UNCHANGED <<saved, out>>
  ELSE saved' = Nothing /\ out' = out \cup {n}

push(p) ==
  /\ next[p] <= MaxMessages
  /\ Pair(p, next[p])
  /\ next' = [next EXCEPT ![p] = @ + 1]
  /\ last' = [last EXCEPT ![p] = next[p]]

\* The branch of port p has no answer for a trade.
Missing(p) ==
  /\ next[p] <= MaxMessages
  /\ next' = [next EXCEPT ![p] = @ + 1]
  /\ UNCHANGED <<saved, out, last>>

Next == \E p \in Inputs : push(p) \/ Missing(p)

Spec == Init /\ [][Next]_vars

-----------------------------------------------------------------------------
(* Properties *)

\* However far apart the branches were: when both have delivered their message for
\* the same trade as their latest, that trade has its result.  In particular branches
\* that stay together, as a Tee without queues behind it keeps them, miss none.
LatestJoined == last[0] = last[1] /\ last[0] > 0 => last[0] \in out
=============================================================================
