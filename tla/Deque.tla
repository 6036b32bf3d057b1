------------------------------- MODULE Deque -------------------------------
(***************************************************************************)
(* What the ring buffer CircArray<T> promises to its users: a family of    *)
(* bounded double-ended queues.  A queue is a sequence, its front first.   *)
(* The capacity changes only when a queue is resized or overwritten by a   *)
(* copy of another one.  A push to a full queue is refused, or drops the   *)
(* element at the other end when the caller asks for overwriting.          *)
(***************************************************************************)
EXTENDS Integers, Sequences

CONSTANTS Rings,        \* the queues
          Values,       \* the values they hold
          InitCapacity, \* InitCapacity[r]: the capacity queue r is created with
          MaxCapacity   \* bound on resizing

VARIABLES items,  \* items[r]: the elements of queue r, front first
          limit,  \* limit[r]: its capacity
          result  \* return code of the last operation, and the element it returned

vars == <<items, limit, result>>

Done == [rc |-> "SUCCESS", got |-> <<>>]
Got(v) == [rc |-> "SUCCESS", got |-> <<v>>]
NoSpace == [rc |-> "NO_SPACE_ERROR", got |-> <<>>]
BufferEmpty == [rc |-> "BUFFER_EMPTY_ERROR", got |-> <<>>]

Init ==
  /\ items = [r \in Rings |-> <<>>]
  /\ limit = InitCapacity
  /\ result = Done

DropLast(s) == SubSeq(s, 1, Len(s) - 1)

IsFull(r) == Len(items[r]) = limit[r]

Refuse(code) ==
  /\ result' = code
  /\ UNCHANGED <<items, limit>>

\* Replace the contents of queue r and return res.
Become(r, s, res) ==
  /\ result' = res
  /\ UNCHANGED limit
  /\ items' = [items EXCEPT ![r] = s]

push_back(r, v, overwrite) ==
  \/ ~IsFull(r) /\ Become(r, Append(items[r], v), Done)
  \/ IsFull(r) /\ overwrite /\ Become(r, Append(Tail(items[r]), v), Done)
  \/ IsFull(r) /\ ~overwrite /\ Refuse(NoSpace)

push_front(r, v, overwrite) ==
  \/ ~IsFull(r) /\ Become(r, <<v>> \o items[r], Done)
  \/ IsFull(r) /\ overwrite /\ Become(r, <<v>> \o DropLast(items[r]), Done)
  \/ IsFull(r) /\ ~overwrite /\ Refuse(NoSpace)

pop_front(r) ==
  \/ items[r] # <<>> /\ Become(r, Tail(items[r]), Got(Head(items[r])))
  \/ items[r] = <<>> /\ Refuse(BufferEmpty)

pop_back(r) ==
  \/ items[r] # <<>> /\ Become(r, DropLast(items[r]), Got(items[r][Len(items[r])]))
  \/ items[r] = <<>> /\ Refuse(BufferEmpty)

\* Remove the element at position index, counted from 0 at the front.
pop_at(r, index) ==
  /\ index < Len(items[r])
  /\ Become(r, [i \in 1 .. Len(items[r]) - 1 |->
                  IF i <= index THEN items[r][i] ELSE items[r][i + 1]],
            Got(items[r][index + 1]))

resize_by_two(r) ==
  /\ 2 * limit[r] <= MaxCapacity
  /\ result' = Done
  /\ limit' = [limit EXCEPT ![r] = 2 * @]
  /\ UNCHANGED items

assign(lhs, rhs) ==
  /\ result' = Done
  /\ limit' = [limit EXCEPT ![lhs] = limit[rhs]]
  /\ items' = [items EXCEPT ![lhs] = items[rhs]]

Next ==
  \E r \in Rings :
    \/ \E v \in Values, overwrite \in BOOLEAN :
         push_back(r, v, overwrite) \/ push_front(r, v, overwrite)
    \/ pop_front(r)
    \/ pop_back(r)
    \/ \E index \in 0 .. MaxCapacity - 1 : pop_at(r, index)
    \/ resize_by_two(r)
    \/ \E rhs \in Rings : assign(r, rhs)

Spec == Init /\ [][Next]_vars
=============================================================================
