-------------------------------- MODULE Heap --------------------------------
(***************************************************************************)
(* The d-ary heap of include/click/heap.hh as Click's timers use it: its   *)
(* elements are timers with their expiry, and each timer keeps its place   *)
(* in the heap (_schedpos1), which the heap operations maintain by calls   *)
(* of heap_place.                                                          *)
(*                                                                         *)
(* A heap is a record: a, the array, and pos, the places of all timers.    *)
(* Places are counted from 1, as _schedpos1 does; the code counts the      *)
(* elements from 0, and the root has one child less than the others.       *)
(***************************************************************************)
EXTENDS Integers, Sequences

CONSTANT Arity  \* 4 in the calls of timer.cc and timerset.cc

Parent(k) == (k - 1) \div Arity + 1

Children(k) == IF k = 1 THEN 2 .. Arity ELSE (k - 1) * Arity + 1 .. k * Arity

\* heap_less, of the elements at two places.
Less(h, j, k) == h.a[j].expiry < h.a[k].expiry

\* heap_place.
Place(h, k) == [h EXCEPT !.pos[h.a[k].t] = k]

\* The elements at two places change them, and the one that comes to k is told.
Swap(h, j, k) == Place([h EXCEPT !.a[j] = h.a[k], !.a[k] = h.a[j]], k)

RECURSIVE SiftUp(_, _)
SiftUp(h, k) ==
  IF k > 1 /\ Less(h, k, Parent(k)) THEN SiftUp(Swap(h, Parent(k), k), Parent(k))
  ELSE [heap |-> h, at |-> k]

\* The place of the smallest of the element at k and its children, the first one
\* if there are several.
Smallest(h, k, size) ==
  LET C == {k} \cup {c \in Children(k) : c <= size}
  IN  CHOOSE c \in C : \A d \in C : ~Less(h, d, c) /\ (Less(h, c, d) \/ c <= d)

RECURSIVE SiftDown(_, _, _)
SiftDown(h, k, size) ==
  LET s == Smallest(h, k, size)
  IN  IF s = k THEN [heap |-> h, at |-> k] ELSE SiftDown(Swap(h, s, k), s, size)

\* Mutant: the element only moves towards the root.
change_heap_Up(h, k, size) ==
  LET up == SiftUp(h, k) IN IF up.at = k THEN up.heap ELSE Place(up.heap, up.at)

\* Only the element at k may be out of place.
change_heap(h, k, size) ==
  LET up == SiftUp(h, k)
      down == SiftDown(up.heap, up.at, size)
  IN  IF down.at = k THEN down.heap ELSE Place(down.heap, down.at)

\* remove_heap and the pop_back that follows it in all callers.
remove_heap(h, k) ==
  LET last == Len(h.a)
      rest == IF k = last THEN h ELSE change_heap(Swap(h, last, k), k, last - 1)
  IN  [rest EXCEPT !.a = SubSeq(@, 1, last - 1)]

\* The part of Timer::schedule_at_steady that is "essentially a decrease-key
\* operation": a timer that is not in the heap is appended to it.
Put(h, t, expiry) ==
  LET h1 == IF h.pos[t] > 0 THEN [h EXCEPT !.a[h.pos[t]].expiry = expiry]
            ELSE [a |-> Append(h.a, [expiry |-> expiry, t |-> t]),
                  pos |-> [h.pos EXCEPT ![t] = Len(h.a) + 1]]
  IN  change_heap(h1, h1.pos[t], Len(h1.a))

\* The part of Timer::unschedule for a timer in the heap, and of run_timers.
TakeOut(h, t) == [remove_heap(h, h.pos[t]) EXCEPT !.pos[t] = 0]

-----------------------------------------------------------------------------

\* What the comments of heap.hh promise ("[begin, end) is a d-ary heap") together
\* with what the timers need of it: no element comes before its parent, and every
\* timer knows where it is.
InOrder(h) ==
  /\ \A k \in 2 .. Len(h.a) : ~Less(h, k, Parent(k))
  /\ \A k \in 1 .. Len(h.a) : h.pos[h.a[k].t] = k
  /\ \A t \in DOMAIN h.pos : h.pos[t] > 0 => h.pos[t] <= Len(h.a) /\ h.a[h.pos[t]].t = t
=============================================================================
