----------------------------- MODULE CircArray -----------------------------
(***************************************************************************)
(* The ring buffer CircArray<T> (include/click/circ_array.hpp): an array,  *)
(* the index of its first used slot and the number of used slots.  Each    *)
(* operation of the class is an operator on that record, so that the       *)
(* classes built on the ring can use it too, and an action on one of       *)
(* several rings.  The capacity is positive: push_back's FIXME excludes a  *)
(* ring of capacity 0, and no user of the class creates one.               *)
(***************************************************************************)
EXTENDS Integers, Sequences

CONSTANTS Rings,        \* the ring objects
          Values,       \* the values of type T that are pushed
          Fresh,        \* what a slot of a newly allocated array holds
          InitCapacity, \* InitCapacity[r]: the capacity r is constructed with
          MaxCapacity   \* bound on resize_by_two

ASSUME CapacityAssumption ==
  /\ MaxCapacity \in Nat \ {0}
  /\ InitCapacity \in [Rings -> 1 .. MaxCapacity]

\* Fresh only marks the slots that were never written.
ASSUME FreshAssumption == Fresh \notin Values

VARIABLES ring,    \* ring[r]: the members of object r
          result   \* return code and returned element of the last call

vars == <<ring, result>>

-----------------------------------------------------------------------------
(* The members and the operations of one object *)

NewArray(capacity) == [k \in 0 .. capacity - 1 |-> Fresh]

set_initial_values(capacity) ==
  [array |-> NewArray(capacity), start |-> 0, size |-> 0, capacity |-> capacity]

\* The slot of the element at position i (operator[] without its assertion).
Slot(c, i) == (c.start + i) % c.capacity

At(c, i) == c.array[Slot(c, i)]

is_full(c) == c.size = c.capacity

RemoveFront(c) == [c EXCEPT !.size = @ - 1, !.start = (@ + 1) % c.capacity]

RemoveBack(c) == [c EXCEPT !.size = @ - 1]

AddBack(c, v) ==
  [c EXCEPT !.array = [@ EXCEPT ![Slot(c, c.size)] = v], !.size = @ + 1]

\* Mutant: push_front at slot 0 stays at slot 0.
Before_NoWrap(c) == IF c.start = 0 THEN 0 ELSE c.start - 1

Before(c) == IF c.start = 0 THEN c.capacity - 1 ELSE c.start - 1

AddFront(c, v) ==
  [c EXCEPT !.start = Before(c), !.array = [@ EXCEPT ![Before(c)] = v], !.size = @ + 1]

\* The loop moves every later element one position to the front, and the
\* element that is then last is popped.
RemoveAt(c, index) ==
  LET shifted == [k \in 0 .. c.capacity - 1 |->
        IF \E i \in index .. c.size - 2 : k = Slot(c, i)
        THEN c.array[(k + 1) % c.capacity]
        ELSE c.array[k]]
  IN  RemoveBack([c EXCEPT !.array = shifted])

Resized(c) ==
  [array |-> [k \in 0 .. 2 * c.capacity - 1 |-> IF k < c.size THEN At(c, k) ELSE Fresh],
   start |-> 0, size |-> c.size, capacity |-> 2 * c.capacity]

\* The array that receives a copy: the old one if the capacities agree, else a
\* new one.  Only the slots in use are copied.
deep_copy(lhs, rhs) ==
  LET target == IF lhs.capacity = rhs.capacity THEN lhs.array ELSE NewArray(rhs.capacity)
  IN  [rhs EXCEPT !.array = [k \in 0 .. rhs.capacity - 1 |->
         IF \E i \in 0 .. rhs.size - 1 : k = Slot(rhs, i) THEN rhs.array[k] ELSE target[k]]]

-----------------------------------------------------------------------------
(* The calls on the objects *)

Done == [rc |-> "SUCCESS", got |-> <<>>]
Got(v) == [rc |-> "SUCCESS", got |-> <<v>>]
NoSpace == [rc |-> "NO_SPACE_ERROR", got |-> <<>>]
BufferEmpty == [rc |-> "BUFFER_EMPTY_ERROR", got |-> <<>>]

Init ==
  /\ ring = [r \in Rings |-> set_initial_values(InitCapacity[r])]
  /\ result = Done

Refuse(code) ==
  /\ result' = code
  /\ UNCHANGED ring

Update(r, c, res) ==
  /\ ring' = [ring EXCEPT ![r] = c]
  /\ result' = res

push_back(r, v, overwrite) ==
  \/ ~is_full(ring[r]) /\ Update(r, AddBack(ring[r], v), Done)
  \/ is_full(ring[r]) /\ overwrite /\ Update(r, AddBack(RemoveFront(ring[r]), v), Done)
  \/ is_full(ring[r]) /\ ~overwrite /\ Refuse(NoSpace)

push_front(r, v, overwrite) ==
  \/ ~is_full(ring[r]) /\ Update(r, AddFront(ring[r], v), Done)
  \/ is_full(ring[r]) /\ overwrite /\ Update(r, AddFront(RemoveBack(ring[r]), v), Done)
  \/ is_full(ring[r]) /\ ~overwrite /\ Refuse(NoSpace)

pop_front(r) ==
  \/ ring[r].size # 0 /\ Update(r, RemoveFront(ring[r]), Got(At(ring[r], 0)))
  \/ ring[r].size = 0 /\ Refuse(BufferEmpty)

pop_back(r) ==
  \/ ring[r].size # 0 /\ Update(r, RemoveBack(ring[r]), Got(At(ring[r], ring[r].size - 1)))
  \/ ring[r].size = 0 /\ Refuse(BufferEmpty)

pop_at(r, index) ==
  /\ index < ring[r].size
  /\ Update(r, RemoveAt(ring[r], index), Got(At(ring[r], index)))

resize_by_two(r) ==
  /\ 2 * ring[r].capacity <= MaxCapacity
  /\ Update(r, Resized(ring[r]), Done)

\* operator=
assign(lhs, rhs) == Update(lhs, deep_copy(ring[lhs], ring[rhs]), Done)

Next ==
  \E r \in Rings :
    \/ \E v \in Values, overwrite \in BOOLEAN :
         push_back(r, v, overwrite) \/ push_front(r, v, overwrite)
    \/ pop_front(r)
    \/ pop_back(r)
    \/ \E index \in 0 .. MaxCapacity - 1 : pop_at(r, index)
    \/ resize_by_two(r)
    \/ \E rhs \in Rings : assign(r, rhs)

Spec == Init /\ [][Next]_vars

-----------------------------------------------------------------------------
(* What the class promises *)

\* The elements of a ring, front first, as operator[] shows them.
Contents(c) == [i \in 1 .. c.size |-> At(c, i - 1)]

RingOf(n) ==
  [array : [0 .. n - 1 -> Values \cup {Fresh}],
   start : 0 .. n - 1, size : 0 .. n, capacity : {n}]

\* Every ring keeps its start inside its array and no more elements than
\* slots; a result is a return code with at most one element.
TypeOK ==
  /\ \A r \in Rings : \E n \in 1 .. MaxCapacity : ring[r] \in RingOf(n)
  /\ DOMAIN ring = Rings
  /\ result \in [rc : {"SUCCESS", "NO_SPACE_ERROR", "BUFFER_EMPTY_ERROR"},
                 got : {<<>>} \cup {<<v>> : v \in Values \cup {Fresh}}]

\* No sequence of calls makes an element that was never pushed visible: the
\* slots operator[] can reach hold pushed values, never what a new array held
\* (new T[] does not initialise the slots when T is a pointer).
NothingUninitialised ==
  /\ \A r \in Rings : \A i \in 0 .. ring[r].size - 1 : At(ring[r], i) # Fresh
  /\ result.got # <<Fresh>>

\* The refinement mapping.
items == [r \in Rings |-> Contents(ring[r])]
limit == [r \in Rings |-> ring[r].capacity]

D == INSTANCE Deque

\* A ring behaves as a bounded double-ended queue, whatever wrapping of its
\* indices, shifting and copying the calls do.
RefinesDeque == D!Spec

=============================================================================
