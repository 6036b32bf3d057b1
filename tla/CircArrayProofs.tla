-------------------------- MODULE CircArrayProofs --------------------------
(***************************************************************************)
(* Proofs about the ring buffer, for every set of rings and values and     *)
(* every capacity.  Each operator on a ring keeps the ring well formed and *)
(* does to the sequence of its elements what the double-ended queue does;  *)
(* type correctness, the absence of uninitialised elements and the         *)
(* refinement of Deque follow action by action.                            *)
(***************************************************************************)
EXTENDS CircArray, SequenceTheorems, TLAPS

\* A ring of capacity n whose visible elements were all pushed.
Good(n, c) == c \in RingOf(n) /\ \A i \in 0 .. c.size - 1 : At(c, i) \in Values

-----------------------------------------------------------------------------
(* Arithmetic modulo the capacity *)

\* A position at most a capacity away from the start: its slot is found by
\* subtracting the capacity at most once.
LEMMA ModOnce ==
  ASSUME NEW n \in Nat \ {0}, NEW s \in 0 .. n - 1, NEW i \in 0 .. n
  PROVE  (s + i) % n = IF s + i < n THEN s + i ELSE s + i - n
OBVIOUS

\* Wrapping at the end of the array keeps different positions apart.
LEMMA WrapOnce ==
  ASSUME NEW n \in Nat \ {0}, NEW s \in 0 .. n - 1,
         NEW i \in 0 .. n - 1, NEW j \in 0 .. n - 1,
         (IF s + i < n THEN s + i ELSE s + i - n) = (IF s + j < n THEN s + j ELSE s + j - n)
  PROVE  i = j
OBVIOUS

\* Moving the start forward by one slot renumbers the positions (pop_front).
LEMMA NextSlot ==
  ASSUME NEW n \in Nat \ {0}, NEW s \in 0 .. n - 1, NEW i \in 0 .. n - 1
  PROVE  /\ (s + 1) % n \in 0 .. n - 1
         /\ (((s + 1) % n) + i) % n = (s + (i + 1)) % n
<1>1. (s + 1) % n = IF s + 1 < n THEN s + 1 ELSE 0
  OBVIOUS
<1>2. CASE s + 1 < n
  BY <1>1, <1>2
<1>3. CASE ~(s + 1 < n)
  <2>1. s = n - 1
    BY <1>3
  <2>2. (s + (i + 1)) % n = i
    BY <2>1
  <2>3. (0 + i) % n = i
    OBVIOUS
  <2>4. QED
    BY <1>1, <1>3, <2>2, <2>3
<1>4. QED
  BY <1>2, <1>3

\* The slot after a position's slot is the next position's (pop_at's loop).
LEMMA SlotAfter ==
  ASSUME NEW n \in Nat \ {0}, NEW s \in 0 .. n - 1, NEW i \in 0 .. n - 1
  PROVE  (((s + i) % n) + 1) % n = (s + (i + 1)) % n
<1>1. (s + i) % n = IF s + i < n THEN s + i ELSE s + i - n
  OBVIOUS
<1>2. CASE s + i < n
  BY <1>1, <1>2
<1>3. CASE ~(s + i < n)
  <2>1. s + i - n + 1 \in 0 .. n - 1
    BY <1>3
  <2>2. (s + i - n + 1) % n = s + i - n + 1
    BY <2>1
  <2>3. (s + (i + 1)) % n = s + i - n + 1
    BY <1>3
  <2>4. QED
    BY <1>1, <1>3, <2>2, <2>3
<1>4. QED
  BY <1>2, <1>3

\* So does moving it backward (push_front).
LEMMA PreviousSlot ==
  ASSUME NEW n \in Nat \ {0}, NEW s \in 0 .. n - 1, NEW i \in 1 .. n
  PROVE  ((IF s = 0 THEN n - 1 ELSE s - 1) + i) % n = (s + (i - 1)) % n
<1>1. CASE s = 0
  <2>1. (n - 1 + i) % n = i - 1
    OBVIOUS
  <2>2. (0 + (i - 1)) % n = i - 1
    OBVIOUS
  <2>3. QED
    BY <1>1, <2>1, <2>2
<1>2. CASE s # 0
  BY <1>2
<1>3. QED
  BY <1>1, <1>2

\* The slot before the start is the last position of a full ring.
LEMMA BeforeSlot ==
  ASSUME NEW n \in Nat \ {0}, NEW s \in 0 .. n - 1
  PROVE  (s + (n - 1)) % n = IF s = 0 THEN n - 1 ELSE s - 1
OBVIOUS

\* The slot of a position, without the remainder.
LEMMA SlotValue ==
  ASSUME NEW n \in Nat \ {0}, NEW c \in RingOf(n), NEW i \in 0 .. n
  PROVE  /\ Slot(c, i) = IF c.start + i < n THEN c.start + i ELSE c.start + i - n
         /\ Slot(c, i) \in 0 .. n - 1
<1>1. c.start \in 0 .. n - 1 /\ c.capacity = n
  BY DEF RingOf
<1>2. Slot(c, i) = IF c.start + i < n THEN c.start + i ELSE c.start + i - n
  BY <1>1, ModOnce DEF Slot
<1>3. QED
  BY <1>1, <1>2

\* The elements of a ring form a sequence of pushed values.
LEMMA ContentsSeq ==
  ASSUME NEW n \in Nat \ {0}, NEW c, Good(n, c)
  PROVE  /\ Contents(c) \in Seq(Values)
         /\ Len(Contents(c)) = c.size
         /\ \A i \in 1 .. c.size : Contents(c)[i] = At(c, i - 1)
<1>1. c.size \in 0 .. n
  BY DEF Good, RingOf
<1>2. \A i \in 1 .. c.size : At(c, i - 1) \in Values
  BY <1>1 DEF Good
<1>3. QED
  BY <1>1, <1>2 DEF Contents

\* A function on 1 .. n is a sequence of length n.
LEMMA FunctionSeq ==
  ASSUME NEW S, NEW n \in Nat, NEW f \in [1 .. n -> S]
  PROVE  f \in Seq(S) /\ Len(f) = n
OBVIOUS

\* A ring that shows the elements of s holds s.
LEMMA ContentsAre ==
  ASSUME NEW n \in Nat \ {0}, NEW c, Good(n, c),
         NEW s \in Seq(Values), Len(s) = c.size,
         \A i \in 0 .. c.size - 1 : At(c, i) = s[i + 1]
  PROVE  Contents(c) = s
<1>1. c.size \in Nat
  BY DEF Good, RingOf
<1>2. \A i \in 1 .. c.size : Contents(c)[i] = s[i]
  <2>1. SUFFICES ASSUME NEW i \in 1 .. c.size PROVE Contents(c)[i] = s[i]
    OBVIOUS
  <2>2. i - 1 \in 0 .. c.size - 1 /\ (i - 1) + 1 = i
    BY <1>1
  <2>3. At(c, i - 1) = s[i]
    BY <2>2
  <2>4. QED
    BY <2>3, ContentsSeq
<1>3. QED
  BY <1>1, <1>2, ContentsSeq, SeqEqual

\* The fields of a well-formed ring, and its slots: different positions have
\* different slots.
LEMMA RingFacts ==
  ASSUME NEW n \in Nat \ {0}, NEW c, c \in RingOf(n)
  PROVE  /\ c.array \in [0 .. n - 1 -> Values \cup {Fresh}]
         /\ c.start \in 0 .. n - 1
         /\ c.size \in 0 .. n
         /\ c.capacity = n
         /\ c = [array |-> c.array, start |-> c.start, size |-> c.size, capacity |-> n]
         /\ \A i \in 0 .. n :
              /\ Slot(c, i) \in 0 .. n - 1
              /\ Slot(c, i) = IF c.start + i < n THEN c.start + i ELSE c.start + i - n
         /\ \A i, j \in 0 .. n - 1 : Slot(c, i) = Slot(c, j) => i = j
<1>1. /\ c.array \in [0 .. n - 1 -> Values \cup {Fresh}]
      /\ c.start \in 0 .. n - 1
      /\ c.size \in 0 .. n
      /\ c.capacity = n
      /\ c = [array |-> c.array, start |-> c.start, size |-> c.size, capacity |-> n]
  BY DEF RingOf
<1>2. \A i \in 0 .. n :
        /\ Slot(c, i) \in 0 .. n - 1
        /\ Slot(c, i) = IF c.start + i < n THEN c.start + i ELSE c.start + i - n
  BY SlotValue
<1>3. ASSUME NEW i \in 0 .. n - 1, NEW j \in 0 .. n - 1, Slot(c, i) = Slot(c, j)
      PROVE  i = j
  <2>1. i \in 0 .. n /\ j \in 0 .. n
    OBVIOUS
  <2>2. /\ Slot(c, i) = IF c.start + i < n THEN c.start + i ELSE c.start + i - n
        /\ Slot(c, j) = IF c.start + j < n THEN c.start + j ELSE c.start + j - n
    BY <1>2, <2>1
  <2>3. (IF c.start + i < n THEN c.start + i ELSE c.start + i - n)
          = (IF c.start + j < n THEN c.start + j ELSE c.start + j - n)
    BY <1>3, <2>2, Zenon
  <2>4. QED
    BY <1>1, <2>3, WrapOnce
<1>4. QED
  BY <1>1, <1>2, <1>3

-----------------------------------------------------------------------------
(* The operators *)

\* A new ring is empty.
LEMMA NewRing ==
  ASSUME NEW n \in Nat \ {0}
  PROVE  /\ Good(n, set_initial_values(n))
         /\ Contents(set_initial_values(n)) = <<>>
<1>1. set_initial_values(n) \in RingOf(n)
  BY DEF set_initial_values, NewArray, RingOf
<1>2. QED
  BY <1>1 DEF set_initial_values, Good, Contents

\* Writing behind the last element appends it.
LEMMA AddBackRing ==
  ASSUME NEW n \in Nat \ {0}, NEW c, Good(n, c), c.size < n, NEW v \in Values
  PROVE  /\ Good(n, AddBack(c, v))
         /\ Contents(AddBack(c, v)) = Append(Contents(c), v)
<1> DEFINE d == AddBack(c, v)
           k == Slot(c, c.size)
<1>1. c \in RingOf(n) /\ c.size \in 0 .. n - 1 /\ c.size \in 0 .. n
  BY DEF Good, RingOf
<1>2. k \in 0 .. n - 1
  BY <1>1, RingFacts
<1>3. d \in RingOf(n)
  <2>1. [c.array EXCEPT ![k] = v] \in [0 .. n - 1 -> Values \cup {Fresh}]
    BY <1>1, <1>2, RingFacts
  <2>2. c.size + 1 \in 0 .. n
    BY <1>1
  <2>3. QED
    BY <1>1, <2>1, <2>2 DEF AddBack, RingOf
<1>4. /\ d.start = c.start /\ d.size = c.size + 1 /\ d.capacity = c.capacity
      /\ d.array = [c.array EXCEPT ![k] = v]
  BY <1>1 DEF AddBack, RingOf
<1>5. ASSUME NEW i \in 0 .. c.size
      PROVE  At(d, i) = IF i = c.size THEN v ELSE At(c, i)
  <2>1. Slot(d, i) = Slot(c, i)
    BY <1>4 DEF Slot
  <2>2. i \in 0 .. n - 1
    BY <1>1
  <2>3. Slot(c, i) \in 0 .. n - 1 /\ (i # c.size => Slot(c, i) # k)
    BY <1>1, <2>2, RingFacts
  <2>4. c.array \in [0 .. n - 1 -> Values \cup {Fresh}]
    BY <1>1, RingFacts
  <2>5. QED
    BY <1>2, <1>4, <2>1, <2>3, <2>4 DEF At
<1>6. Good(n, d)
  BY <1>1, <1>3, <1>4, <1>5 DEF Good
<1>7. /\ Append(Contents(c), v) \in Seq(Values)
      /\ Len(Append(Contents(c), v)) = d.size
  BY <1>4, ContentsSeq
<1>8. ASSUME NEW i \in 0 .. d.size - 1
      PROVE  At(d, i) = Append(Contents(c), v)[i + 1]
  <2>1. Append(Contents(c), v)[i + 1] = IF i = c.size THEN v ELSE Contents(c)[i + 1]
    BY <1>1, <1>4, ContentsSeq
  <2>2. i # c.size => Contents(c)[i + 1] = At(c, i)
    <3>1. i # c.size => i + 1 \in 1 .. c.size /\ (i + 1) - 1 = i
      BY <1>1, <1>4
    <3>2. QED
      BY <3>1, ContentsSeq
  <2>3. i \in 0 .. c.size
    BY <1>1, <1>4
  <2>4. QED
    BY <1>5, <2>1, <2>2, <2>3
<1>9. QED
  BY <1>6, <1>7, <1>8, ContentsAre

\* Writing before the first element, wrapping at slot 0, prepends it.
LEMMA AddFrontRing ==
  ASSUME NEW n \in Nat \ {0}, NEW c, Good(n, c), c.size < n, NEW v \in Values
  PROVE  /\ Good(n, AddFront(c, v))
         /\ Contents(AddFront(c, v)) = <<v>> \o Contents(c)
<1> DEFINE d == AddFront(c, v)
           k == Before(c)
<1>1. c \in RingOf(n) /\ c.size \in 0 .. n - 1 /\ c.start \in 0 .. n - 1 /\ c.capacity = n
  BY DEF Good, RingOf
<1>2. k \in 0 .. n - 1 /\ k = Slot(c, n - 1)
  BY <1>1, BeforeSlot DEF Before, Slot
<1>3. d \in RingOf(n)
  <2>1. [c.array EXCEPT ![k] = v] \in [0 .. n - 1 -> Values \cup {Fresh}]
    BY <1>1, <1>2, RingFacts
  <2>2. c.size + 1 \in 0 .. n
    BY <1>1
  <2>3. QED
    BY <1>1, <1>2, <2>1, <2>2 DEF AddFront, RingOf
<1>4. /\ d.start = k /\ d.size = c.size + 1 /\ d.capacity = n
      /\ d.array = [c.array EXCEPT ![k] = v]
  BY <1>1 DEF AddFront, RingOf
<1>5. At(d, 0) = v
  <2>1. Slot(d, 0) = k
    BY <1>2, <1>3, <1>4, RingFacts
  <2>2. QED
    BY <1>1, <1>2, <1>4, <2>1, RingFacts DEF At
<1>6. ASSUME NEW i \in 1 .. c.size
      PROVE  At(d, i) = At(c, i - 1)
  <2>1. i \in 1 .. n /\ i - 1 \in 0 .. n - 1 /\ n - 1 \in 0 .. n - 1 /\ i - 1 # n - 1
    BY <1>1
  <2>2. Slot(d, i) = Slot(c, i - 1)
    BY <1>1, <1>4, <2>1, PreviousSlot DEF Slot, Before
  <2>3. Slot(c, i - 1) \in 0 .. n - 1 /\ Slot(c, i - 1) # k
    <3>1. i - 1 \in 0 .. n
      BY <2>1
    <3>2. QED
      BY <1>1, <1>2, <2>1, <3>1, RingFacts
  <2>4. QED
    BY <1>1, <1>2, <1>4, <2>2, <2>3, RingFacts DEF At
<1>7. Good(n, d)
  <2>1. ASSUME NEW i \in 0 .. d.size - 1 PROVE At(d, i) \in Values
    <3>1. CASE i = 0
      BY <1>5, <3>1
    <3>2. CASE i # 0
      <4>1. i \in 1 .. c.size /\ i - 1 \in 0 .. c.size - 1
        BY <1>1, <1>4, <3>2
      <4>2. QED
        BY <1>6, <4>1 DEF Good
    <3>3. QED
      BY <3>1, <3>2
  <2>2. QED
    BY <1>3, <2>1 DEF Good
<1>8. /\ <<v>> \o Contents(c) \in Seq(Values)
      /\ Len(<<v>> \o Contents(c)) = d.size
  <2>1. <<v>> \in Seq(Values) /\ Len(<<v>>) = 1
    OBVIOUS
  <2>2. Contents(c) \in Seq(Values) /\ Len(Contents(c)) = c.size
    BY ContentsSeq
  <2>3. QED
    BY <1>1, <1>4, <2>1, <2>2, ConcatProperties
<1>9. ASSUME NEW i \in 0 .. d.size - 1
      PROVE  At(d, i) = (<<v>> \o Contents(c))[i + 1]
  <2>1. CASE i = 0
    BY <1>5, <2>1, ContentsSeq
  <2>2. CASE i # 0
    <3>1. i \in 1 .. c.size
      BY <1>1, <1>4, <2>2
    <3>2. (<<v>> \o Contents(c))[i + 1] = Contents(c)[i]
      BY <1>1, <3>1, ContentsSeq
    <3>3. Contents(c)[i] = At(c, i - 1)
      BY <3>1, ContentsSeq
    <3>4. QED
      BY <1>6, <3>1, <3>2, <3>3
  <2>3. QED
    BY <2>1, <2>2
<1>10. QED
  BY <1>7, <1>8, <1>9, ContentsAre

\* Advancing the start removes the first element.
LEMMA RemoveFrontRing ==
  ASSUME NEW n \in Nat \ {0}, NEW c, Good(n, c), c.size # 0
  PROVE  /\ Good(n, RemoveFront(c))
         /\ RemoveFront(c).size = c.size - 1
         /\ Contents(RemoveFront(c)) = Tail(Contents(c))
         /\ At(c, 0) = Head(Contents(c))
<1> DEFINE d == RemoveFront(c)
<1>1. c \in RingOf(n) /\ c.size \in 1 .. n /\ c.start \in 0 .. n - 1 /\ c.capacity = n
  BY DEF Good, RingOf
<1>2. (c.start + 1) % n \in 0 .. n - 1
  <2>1. 0 \in 0 .. n - 1
    OBVIOUS
  <2>2. QED
    BY <1>1, <2>1, NextSlot
<1>3. d \in RingOf(n)
  <2>1. c.size - 1 \in 0 .. n
    BY <1>1
  <2>2. QED
    BY <1>1, <1>2, <2>1 DEF RemoveFront, RingOf
<1>4. /\ d.start = (c.start + 1) % n /\ d.size = c.size - 1 /\ d.capacity = n
      /\ d.array = c.array
  BY <1>1 DEF RemoveFront, RingOf
<1>5. ASSUME NEW i \in 0 .. d.size - 1
      PROVE  At(d, i) = At(c, i + 1) /\ i + 1 \in 0 .. c.size - 1
  <2>1. i \in 0 .. n - 1 /\ i + 1 \in 0 .. c.size - 1
    BY <1>1, <1>4
  <2>2. Slot(d, i) = Slot(c, i + 1)
    BY <1>1, <1>4, <2>1, NextSlot DEF Slot
  <2>3. QED
    BY <1>4, <2>1, <2>2 DEF At
<1>6. Good(n, d)
  BY <1>3, <1>5 DEF Good
<1>7. /\ Contents(c) \in Seq(Values) /\ Contents(c) # <<>> /\ Len(Contents(c)) = c.size
      /\ Tail(Contents(c)) \in Seq(Values)
      /\ Len(Tail(Contents(c))) = d.size
  BY <1>1, <1>4, ContentsSeq
<1>8. ASSUME NEW i \in 0 .. d.size - 1
      PROVE  At(d, i) = Tail(Contents(c))[i + 1]
  <2>1. i + 1 \in 1 .. Len(Tail(Contents(c))) /\ (i + 1) + 1 \in 1 .. c.size
        /\ ((i + 1) + 1) - 1 = i + 1
    <3>1. c.size \in Nat /\ d.size = c.size - 1 /\ i \in 0 .. c.size - 2
      BY <1>1, <1>4
    <3> HIDE DEF d
    <3>2. i + 1 \in 1 .. c.size - 1 /\ (i + 1) + 1 \in 1 .. c.size /\ ((i + 1) + 1) - 1 = i + 1
      BY <3>1
    <3>3. Len(Tail(Contents(c))) = c.size - 1
      BY <1>7, <3>1
    <3>4. QED
      BY <3>2, <3>3
  <2>2. Tail(Contents(c))[i + 1] = Contents(c)[(i + 1) + 1]
    BY <1>7, <2>1
  <2>3. QED
    BY <1>5, <2>1, <2>2, ContentsSeq
<1>9. At(c, 0) = Head(Contents(c))
  <2>1. 1 \in 1 .. c.size /\ 1 - 1 = 0
    BY <1>1
  <2>2. QED
    BY <1>7, <2>1, ContentsSeq
<1>10. QED
  BY <1>4, <1>6, <1>7, <1>8, <1>9, ContentsAre

\* Decreasing the size removes the last element.
LEMMA RemoveBackRing ==
  ASSUME NEW n \in Nat \ {0}, NEW c, Good(n, c), c.size # 0
  PROVE  /\ Good(n, RemoveBack(c))
         /\ RemoveBack(c).size = c.size - 1
         /\ Contents(RemoveBack(c)) = SubSeq(Contents(c), 1, Len(Contents(c)) - 1)
         /\ At(c, c.size - 1) = Contents(c)[Len(Contents(c))]
<1> DEFINE d == RemoveBack(c)
           s == SubSeq(Contents(c), 1, Len(Contents(c)) - 1)
<1>1. c \in RingOf(n) /\ c.size \in 1 .. n
  BY DEF Good, RingOf
<1>2. /\ d.start = c.start /\ d.size = c.size - 1 /\ d.capacity = c.capacity
      /\ d.array = c.array
  BY <1>1 DEF RemoveBack, RingOf
<1>3. d \in RingOf(n)
  <2>1. c.size - 1 \in 0 .. n
    BY <1>1
  <2>2. QED
    BY <1>1, <2>1 DEF RemoveBack, RingOf
<1>4. ASSUME NEW i \in 0 .. d.size - 1
      PROVE  At(d, i) = At(c, i) /\ i \in 0 .. c.size - 1
  BY <1>1, <1>2 DEF At, Slot
<1>5. Good(n, d)
  BY <1>3, <1>4 DEF Good
<1>6. /\ Contents(c) \in Seq(Values) /\ Len(Contents(c)) = c.size
  BY ContentsSeq
<1>7. /\ s \in Seq(Values) /\ Len(s) = d.size
      /\ \A i \in 1 .. d.size : s[i] = Contents(c)[i]
  BY <1>1, <1>2, <1>6
<1>8. ASSUME NEW i \in 0 .. d.size - 1
      PROVE  At(d, i) = s[i + 1]
  <2>1. i + 1 \in 1 .. d.size /\ i + 1 \in 1 .. c.size /\ (i + 1) - 1 = i
    BY <1>1, <1>2
  <2>2. s[i + 1] = At(c, i)
    BY <1>7, <2>1, ContentsSeq
  <2>3. QED
    BY <1>4, <2>2
<1>9. At(c, c.size - 1) = Contents(c)[Len(Contents(c))]
  <2>1. c.size \in 1 .. c.size
    BY <1>1
  <2>2. QED
    BY <1>6, <2>1, ContentsSeq
<1>10. QED
  BY <1>2, <1>5, <1>7, <1>8, <1>9, ContentsAre

\* Shifting the later elements removes the element at a position.
LEMMA RemoveAtRing ==
  ASSUME NEW n \in Nat \ {0}, NEW c, Good(n, c), NEW index \in Nat, index < c.size
  PROVE  /\ Good(n, RemoveAt(c, index))
         /\ Contents(RemoveAt(c, index)) =
              [i \in 1 .. Len(Contents(c)) - 1 |->
                 IF i <= index THEN Contents(c)[i] ELSE Contents(c)[i + 1]]
         /\ At(c, index) = Contents(c)[index + 1]
<1> DEFINE d == RemoveAt(c, index)
           moved(k) == \E i \in index .. c.size - 2 : k = Slot(c, i)
           shifted == [k \in 0 .. n - 1 |->
                         IF moved(k) THEN c.array[(k + 1) % n] ELSE c.array[k]]
           s == [i \in 1 .. Len(Contents(c)) - 1 |->
                   IF i <= index THEN Contents(c)[i] ELSE Contents(c)[i + 1]]
<1>1. /\ c \in RingOf(n) /\ c.size \in 1 .. n /\ c.start \in 0 .. n - 1 /\ c.capacity = n
      /\ c.array \in [0 .. n - 1 -> Values \cup {Fresh}]
  BY DEF Good, RingOf
<1>2. shifted \in [0 .. n - 1 -> Values \cup {Fresh}]
  <2>1. \A k \in 0 .. n - 1 : (k + 1) % n \in 0 .. n - 1
    OBVIOUS
  <2>2. QED
    BY <1>1, <2>1
<1>3. d = RemoveBack([c EXCEPT !.array = shifted])
  BY <1>1 DEF RemoveAt
<1> HIDE DEF shifted
<1>4. /\ d.start = c.start /\ d.size = c.size - 1 /\ d.capacity = n /\ d.array = shifted
  BY <1>1, <1>3 DEF RemoveBack, RingOf
<1>5. d \in RingOf(n)
  <2>1. c.size - 1 \in 0 .. n
    BY <1>1
  <2>2. QED
    BY <1>1, <1>2, <1>3, <2>1 DEF RemoveBack, RingOf
<1>6. ASSUME NEW i \in 0 .. d.size - 1
      PROVE  /\ At(d, i) = At(c, IF i < index THEN i ELSE i + 1)
             /\ i \in 0 .. c.size - 1 /\ i + 1 \in 0 .. c.size - 1
  <2>1. i \in 0 .. n - 1 /\ i \in 0 .. n /\ i \in 0 .. c.size - 1 /\ i + 1 \in 0 .. c.size - 1
    BY <1>1, <1>4
  <2>2. Slot(d, i) = Slot(c, i) /\ Slot(c, i) \in 0 .. n - 1
    BY <1>1, <1>4, <2>1, RingFacts DEF Slot
  <2>3. CASE i < index
    <3>1. ASSUME NEW j \in index .. c.size - 2 PROVE Slot(c, i) # Slot(c, j)
      <4>1. j \in 0 .. n - 1 /\ i # j
        BY <1>1, <2>3
      <4>2. QED
        BY <1>1, <2>1, <4>1, RingFacts
    <3>2. ~moved(Slot(c, i))
      BY <3>1
    <3>3. QED
      BY <1>4, <2>1, <2>2, <2>3, <3>2 DEF At, shifted
  <2>4. CASE ~(i < index)
    <3>1. i \in index .. c.size - 2
      BY <1>1, <1>4, <2>4
    <3>2. moved(Slot(c, i))
      BY <3>1
    <3>3. (Slot(c, i) + 1) % n = Slot(c, i + 1)
      BY <1>1, <2>1, SlotAfter DEF Slot
    <3>4. QED
      BY <1>4, <2>1, <2>2, <2>4, <3>2, <3>3 DEF At, shifted
  <2>5. QED
    BY <2>1, <2>3, <2>4
<1>7. Good(n, d)
  BY <1>5, <1>6 DEF Good
<1>8. Contents(c) \in Seq(Values) /\ Len(Contents(c)) = c.size
  BY ContentsSeq
<1>9. s \in Seq(Values) /\ Len(s) = d.size
  <2>1. ASSUME NEW i \in 1 .. c.size - 1
        PROVE  Contents(c)[i] \in Values /\ Contents(c)[i + 1] \in Values
    BY <1>1, <1>8
  <2>2. s \in [1 .. c.size - 1 -> Values]
    BY <1>8, <2>1
  <2>3. c.size - 1 \in Nat
    BY <1>1
  <2> HIDE DEF s
  <2>4. s \in Seq(Values) /\ Len(s) = c.size - 1
    BY <2>2, <2>3, FunctionSeq
  <2>5. QED
    BY <1>4, <2>4
<1>10. ASSUME NEW i \in 0 .. d.size - 1
       PROVE  At(d, i) = s[i + 1]
  <2>1. /\ i + 1 \in 1 .. c.size - 1 /\ i + 1 \in 1 .. c.size /\ (i + 1) - 1 = i
        /\ (i + 1) + 1 \in 1 .. c.size /\ ((i + 1) + 1) - 1 = i + 1
        /\ i \in Nat /\ (i + 1 <= index <=> i < index)
    <3>1. d.size = c.size - 1 /\ c.size \in Nat
      BY <1>1, <1>4
    <3> HIDE DEF d
    <3>2. i \in 0 .. c.size - 2
      BY <3>1
    <3>3. QED
      BY <3>1, <3>2
  <2>2. /\ Contents(c)[i + 1] = At(c, i)
        /\ Contents(c)[(i + 1) + 1] = At(c, i + 1)
    BY <2>1, ContentsSeq
  <2>3. s[i + 1] = IF i + 1 <= index THEN Contents(c)[i + 1] ELSE Contents(c)[(i + 1) + 1]
    BY <1>8, <2>1
  <2>4. QED
    BY <1>6, <2>1, <2>2, <2>3
<1>11. At(c, index) = Contents(c)[index + 1]
  <2>1. index + 1 \in 1 .. c.size /\ (index + 1) - 1 = index
    BY <1>1
  <2>2. QED
    BY <2>1, ContentsSeq
<1>12. QED
  BY <1>7, <1>9, <1>10, <1>11, ContentsAre

\* Moving the elements to an array of twice the size keeps them.
LEMMA ResizedRing ==
  ASSUME NEW n \in Nat \ {0}, NEW c, Good(n, c)
  PROVE  /\ Good(2 * n, Resized(c))
         /\ Contents(Resized(c)) = Contents(c)
<1> DEFINE d == Resized(c)
<1>1. c \in RingOf(n) /\ c.size \in 0 .. n /\ c.capacity = n
  BY DEF Good, RingOf
<1>2. 2 * n \in Nat \ {0} /\ \A k \in 0 .. 2 * n - 1 : k < c.size => k \in 0 .. c.size - 1
  BY <1>1
<1>3. /\ d.start = 0 /\ d.size = c.size /\ d.capacity = 2 * n
      /\ d.array = [k \in 0 .. 2 * n - 1 |-> IF k < c.size THEN At(c, k) ELSE Fresh]
  BY <1>1 DEF Resized
<1>4. d \in RingOf(2 * n)
  <2>1. [k \in 0 .. 2 * n - 1 |-> IF k < c.size THEN At(c, k) ELSE Fresh]
          \in [0 .. 2 * n - 1 -> Values \cup {Fresh}]
    BY <1>2 DEF Good
  <2>2. c.size \in 0 .. 2 * n /\ 0 \in 0 .. 2 * n - 1
    BY <1>1
  <2>3. QED
    BY <1>1, <2>1, <2>2 DEF Resized, RingOf
<1>5. ASSUME NEW i \in 0 .. c.size - 1
      PROVE  At(d, i) = At(c, i)
  <2>1. i \in 0 .. 2 * n - 1 /\ i \in 0 .. 2 * n /\ i < c.size /\ 0 + i = i
    BY <1>1
  <2>2. Slot(d, i) = i
    BY <1>2, <1>3, <1>4, <2>1, RingFacts
  <2>3. QED
    BY <1>3, <2>1, <2>2 DEF At
<1>6. Good(2 * n, d)
  BY <1>3, <1>4, <1>5 DEF Good
<1>7. QED
  BY <1>1, <1>3, <1>5, <1>6 DEF Contents

\* A copy has the elements of its source, whether or not the target's array is
\* reused.
LEMMA CopyRing ==
  ASSUME NEW n \in Nat \ {0}, NEW c, Good(n, c), NEW m \in Nat \ {0}, NEW l, Good(m, l)
  PROVE  /\ Good(n, deep_copy(l, c))
         /\ Contents(deep_copy(l, c)) = Contents(c)
<1> DEFINE d == deep_copy(l, c)
           target == IF l.capacity = c.capacity THEN l.array ELSE NewArray(c.capacity)
           used(k) == \E i \in 0 .. c.size - 1 : k = Slot(c, i)
           copied == [k \in 0 .. n - 1 |-> IF used(k) THEN c.array[k] ELSE target[k]]
<1>1. /\ c \in RingOf(n) /\ c.size \in 0 .. n /\ c.capacity = n
      /\ c.array \in [0 .. n - 1 -> Values \cup {Fresh}]
      /\ l.capacity = m /\ l.array \in [0 .. m - 1 -> Values \cup {Fresh}]
  BY DEF Good, RingOf
<1>2. target \in [0 .. n - 1 -> Values \cup {Fresh}]
  BY <1>1 DEF NewArray
<1>3. copied \in [0 .. n - 1 -> Values \cup {Fresh}]
  BY <1>1, <1>2
<1>4. d = [c EXCEPT !.array = copied]
  BY <1>1 DEF deep_copy
<1> HIDE DEF copied
<1>5. /\ d.start = c.start /\ d.size = c.size /\ d.capacity = c.capacity /\ d.array = copied
  BY <1>1, <1>4 DEF RingOf
<1>6. d \in RingOf(n)
  BY <1>1, <1>3, <1>4 DEF RingOf
<1>7. ASSUME NEW i \in 0 .. c.size - 1
      PROVE  At(d, i) = At(c, i)
  <2>1. i \in 0 .. n
    BY <1>1
  <2>2. Slot(d, i) = Slot(c, i) /\ Slot(c, i) \in 0 .. n - 1
    BY <1>1, <1>5, <2>1, RingFacts DEF Slot
  <2>3. used(Slot(c, i))
    OBVIOUS
  <2>4. QED
    BY <1>5, <2>2, <2>3 DEF At, copied
<1>8. Good(n, d)
  BY <1>5, <1>6, <1>7 DEF Good
<1>9. QED
  <2>1. \A i \in 1 .. c.size : i - 1 \in 0 .. c.size - 1
    BY <1>1
  <2>2. QED
    BY <1>5, <1>7, <1>8, <2>1 DEF Contents

-----------------------------------------------------------------------------
(* The invariant and the refinement *)

Results ==
  [rc : {"SUCCESS", "NO_SPACE_ERROR", "BUFFER_EMPTY_ERROR"},
   got : {<<>>} \cup {<<v>> : v \in Values}]

\* The inductive invariant: every ring is well formed and shows pushed values
\* only, and so does the result.
IInv ==
  /\ DOMAIN ring = Rings
  /\ \A r \in Rings : \E n \in 1 .. MaxCapacity : Good(n, ring[r])
  /\ result \in Results

\* The effect of replacing one ring by another well-formed one.
LEMMA UpdateStep ==
  ASSUME IInv, NEW r \in Rings, NEW n \in 1 .. MaxCapacity, NEW c, Good(n, c),
         NEW res \in Results, ring' = [ring EXCEPT ![r] = c], result' = res
  PROVE  /\ IInv'
         /\ items' = [items EXCEPT ![r] = Contents(c)]
         /\ limit' = [limit EXCEPT ![r] = n]
<1>1. DOMAIN ring = Rings /\ DOMAIN ring' = Rings
  BY DEF IInv
<1>2. \A q \in Rings : ring'[q] = IF q = r THEN c ELSE ring[q]
  BY <1>1
<1>3. c.capacity = n
  BY DEF Good, RingOf
<1>4. IInv'
  BY <1>1, <1>2 DEF IInv, Good
<1>5. items' = [items EXCEPT ![r] = Contents(c)]
  <2>1. items' = [q \in Rings |-> Contents(ring'[q])]
    BY DEF items
  <2>2. [items EXCEPT ![r] = Contents(c)]
          = [q \in Rings |-> IF q = r THEN Contents(c) ELSE Contents(ring[q])]
    BY DEF items
  <2>3. QED
    BY <1>2, <2>1, <2>2
<1>6. limit' = [limit EXCEPT ![r] = n]
  <2>1. limit' = [q \in Rings |-> ring'[q].capacity]
    BY DEF limit
  <2>2. [limit EXCEPT ![r] = n] = [q \in Rings |-> IF q = r THEN n ELSE ring[q].capacity]
    BY DEF limit
  <2>3. QED
    BY <1>2, <1>3, <2>1, <2>2
<1>7. QED
  BY <1>4, <1>5, <1>6

\* What the queue sees of a well-formed ring.
LEMMA QueueView ==
  ASSUME IInv, NEW r \in Rings, NEW n \in 1 .. MaxCapacity, Good(n, ring[r])
  PROVE  /\ n \in Nat \ {0}
         /\ ring[r].size \in 0 .. n
         /\ items[r] = Contents(ring[r])
         /\ items[r] \in Seq(Values)
         /\ Len(items[r]) = ring[r].size
         /\ limit[r] = n
         /\ is_full(ring[r]) <=> ring[r].size = n
         /\ D!IsFull(r) <=> is_full(ring[r])
         /\ items[r] = <<>> <=> ring[r].size = 0
<1>1. n \in Nat \ {0}
  BY CapacityAssumption
<1>2. ring[r].size \in 0 .. n /\ ring[r].capacity = n
  BY DEF Good, RingOf
<1>3. items[r] = Contents(ring[r])
  BY DEF items
<1>4. items[r] \in Seq(Values) /\ Len(items[r]) = ring[r].size
  BY <1>1, <1>3, ContentsSeq
<1>5. limit[r] = n
  BY <1>2 DEF limit
<1>6. items[r] = <<>> <=> ring[r].size = 0
  BY <1>4, EmptySeq
<1>7. QED
  BY <1>1, <1>2, <1>3, <1>4, <1>5, <1>6 DEF is_full, D!IsFull

\* The results of the calls.
LEMMA ResultTypes ==
  /\ Done \in Results /\ NoSpace \in Results /\ BufferEmpty \in Results
  /\ \A v \in Values : Got(v) \in Results
  /\ Done = D!Done /\ NoSpace = D!NoSpace /\ BufferEmpty = D!BufferEmpty
  /\ \A v : Got(v) = D!Got(v)
BY DEF Done, NoSpace, BufferEmpty, Got, D!Done, D!NoSpace, D!BufferEmpty, D!Got, Results

\* A refused call changes nothing but the result.
LEMMA RefuseStep ==
  ASSUME IInv, NEW code \in Results, Refuse(code)
  PROVE  IInv' /\ D!Refuse(code)
BY DEF IInv, Refuse, D!Refuse, items, limit, Good, Contents, At, Slot

\* A call that replaces ring r by a ring of the same capacity is the call of
\* the queue that replaces its elements.
LEMMA BecomeStep ==
  ASSUME IInv, NEW r \in Rings, NEW n \in 1 .. MaxCapacity, Good(n, ring[r]),
         NEW c, Good(n, c), NEW s, Contents(c) = s, NEW res \in Results, Update(r, c, res)
  PROVE  IInv' /\ D!Become(r, s, res)
<1>1. /\ IInv' /\ items' = [items EXCEPT ![r] = s] /\ limit' = [limit EXCEPT ![r] = n]
  BY UpdateStep DEF Update
<1>2. limit \in [Rings -> {q.capacity : q \in {ring[p] : p \in Rings}}] /\ limit[r] = n
  BY QueueView DEF limit
<1>3. limit' = limit
  BY <1>1, <1>2
<1>4. QED
  BY <1>1, <1>3 DEF D!Become, Update

\* push_back is the queue's push_back.
LEMMA PushBackStep ==
  ASSUME IInv, NEW r \in Rings, NEW v \in Values, NEW overwrite \in BOOLEAN,
         push_back(r, v, overwrite)
  PROVE  IInv' /\ D!push_back(r, v, overwrite)
<1>1. PICK n \in 1 .. MaxCapacity : Good(n, ring[r])
  BY DEF IInv
<1> DEFINE c == ring[r]
<1>2. n \in Nat \ {0} /\ c.size \in 0 .. n /\ items[r] = Contents(c) /\ (is_full(c) <=> c.size = n)
      /\ (D!IsFull(r) <=> is_full(c))
  BY <1>1, QueueView
<1>3. CASE ~is_full(c) /\ Update(r, AddBack(c, v), Done)
  <2>1. c.size < n
    BY <1>2, <1>3
  <2>2. Good(n, AddBack(c, v)) /\ Contents(AddBack(c, v)) = Append(items[r], v)
    BY <1>1, <1>2, <2>1, AddBackRing
  <2>3. IInv' /\ D!Become(r, Append(items[r], v), Done)
    BY <1>1, <1>3, <2>2, BecomeStep, ResultTypes
  <2>4. QED
    BY <1>2, <1>3, <2>3, ResultTypes DEF D!push_back
<1>4. CASE is_full(c) /\ overwrite /\ Update(r, AddBack(RemoveFront(c), v), Done)
  <2> DEFINE d == RemoveFront(c)
  <2>1. c.size # 0 /\ c.size = n
    BY <1>2, <1>4
  <2>2. Good(n, d) /\ d.size = c.size - 1 /\ Contents(d) = Tail(items[r])
    BY <1>1, <1>2, <2>1, RemoveFrontRing
  <2>3. d.size < n
    BY <1>2, <2>1, <2>2
  <2>4. Good(n, AddBack(d, v)) /\ Contents(AddBack(d, v)) = Append(Tail(items[r]), v)
    BY <1>2, <2>2, <2>3, AddBackRing
  <2>5. IInv' /\ D!Become(r, Append(Tail(items[r]), v), Done)
    BY <1>1, <1>4, <2>4, BecomeStep, ResultTypes
  <2>6. QED
    BY <1>2, <1>4, <2>5, ResultTypes DEF D!push_back
<1>5. CASE is_full(c) /\ ~overwrite /\ Refuse(NoSpace)
  BY <1>2, <1>5, RefuseStep, ResultTypes DEF D!push_back
<1>6. QED
  BY <1>3, <1>4, <1>5 DEF push_back

\* push_front is the queue's push_front.
LEMMA PushFrontStep ==
  ASSUME IInv, NEW r \in Rings, NEW v \in Values, NEW overwrite \in BOOLEAN,
         push_front(r, v, overwrite)
  PROVE  IInv' /\ D!push_front(r, v, overwrite)
<1>1. PICK n \in 1 .. MaxCapacity : Good(n, ring[r])
  BY DEF IInv
<1> DEFINE c == ring[r]
<1>2. n \in Nat \ {0} /\ c.size \in 0 .. n /\ items[r] = Contents(c) /\ (is_full(c) <=> c.size = n)
      /\ (D!IsFull(r) <=> is_full(c))
  BY <1>1, QueueView
<1>3. CASE ~is_full(c) /\ Update(r, AddFront(c, v), Done)
  <2>1. c.size < n
    BY <1>2, <1>3
  <2>2. Good(n, AddFront(c, v)) /\ Contents(AddFront(c, v)) = <<v>> \o items[r]
    BY <1>1, <1>2, <2>1, AddFrontRing
  <2>3. IInv' /\ D!Become(r, <<v>> \o items[r], Done)
    BY <1>1, <1>3, <2>2, BecomeStep, ResultTypes
  <2>4. QED
    BY <1>2, <1>3, <2>3, ResultTypes DEF D!push_front
<1>4. CASE is_full(c) /\ overwrite /\ Update(r, AddFront(RemoveBack(c), v), Done)
  <2> DEFINE d == RemoveBack(c)
  <2>1. c.size # 0 /\ c.size = n
    BY <1>2, <1>4
  <2>2. Good(n, d) /\ d.size = c.size - 1 /\ Contents(d) = D!DropLast(items[r])
    BY <1>1, <1>2, <2>1, RemoveBackRing DEF D!DropLast
  <2>3. d.size < n
    BY <1>2, <2>1, <2>2
  <2>4. Good(n, AddFront(d, v)) /\ Contents(AddFront(d, v)) = <<v>> \o D!DropLast(items[r])
    BY <1>2, <2>2, <2>3, AddFrontRing
  <2>5. IInv' /\ D!Become(r, <<v>> \o D!DropLast(items[r]), Done)
    BY <1>1, <1>4, <2>4, BecomeStep, ResultTypes
  <2>6. QED
    BY <1>2, <1>4, <2>5, ResultTypes DEF D!push_front
<1>5. CASE is_full(c) /\ ~overwrite /\ Refuse(NoSpace)
  BY <1>2, <1>5, RefuseStep, ResultTypes DEF D!push_front
<1>6. QED
  BY <1>3, <1>4, <1>5 DEF push_front

\* pop_front is the queue's pop_front.
LEMMA PopFrontStep ==
  ASSUME IInv, NEW r \in Rings, pop_front(r)
  PROVE  IInv' /\ D!pop_front(r)
<1>1. PICK n \in 1 .. MaxCapacity : Good(n, ring[r])
  BY DEF IInv
<1> DEFINE c == ring[r]
<1>2. n \in Nat \ {0} /\ c.size \in 0 .. n /\ items[r] = Contents(c)
      /\ (items[r] = <<>> <=> c.size = 0)
  BY <1>1, QueueView
<1>3. CASE c.size # 0 /\ Update(r, RemoveFront(c), Got(At(c, 0)))
  <2>1. Good(n, RemoveFront(c)) /\ Contents(RemoveFront(c)) = Tail(items[r])
        /\ At(c, 0) = Head(items[r])
    BY <1>1, <1>2, <1>3, RemoveFrontRing
  <2>2. At(c, 0) \in Values
    BY <1>1, <1>2, <1>3 DEF Good
  <2>3. IInv' /\ D!Become(r, Tail(items[r]), Got(At(c, 0)))
    BY <1>1, <1>3, <2>1, <2>2, BecomeStep, ResultTypes
  <2>4. QED
    BY <1>2, <1>3, <2>1, <2>3, ResultTypes DEF D!pop_front
<1>4. CASE c.size = 0 /\ Refuse(BufferEmpty)
  BY <1>2, <1>4, RefuseStep, ResultTypes DEF D!pop_front
<1>5. QED
  BY <1>3, <1>4 DEF pop_front

\* pop_back is the queue's pop_back.
LEMMA PopBackStep ==
  ASSUME IInv, NEW r \in Rings, pop_back(r)
  PROVE  IInv' /\ D!pop_back(r)
<1>1. PICK n \in 1 .. MaxCapacity : Good(n, ring[r])
  BY DEF IInv
<1> DEFINE c == ring[r]
<1>2. n \in Nat \ {0} /\ c.size \in 0 .. n /\ items[r] = Contents(c)
      /\ (items[r] = <<>> <=> c.size = 0)
  BY <1>1, QueueView
<1>3. CASE c.size # 0 /\ Update(r, RemoveBack(c), Got(At(c, c.size - 1)))
  <2>1. /\ Good(n, RemoveBack(c)) /\ Contents(RemoveBack(c)) = D!DropLast(items[r])
        /\ At(c, c.size - 1) = items[r][Len(items[r])]
    BY <1>1, <1>2, <1>3, RemoveBackRing DEF D!DropLast
  <2>2. At(c, c.size - 1) \in Values
    <3>1. c.size - 1 \in 0 .. c.size - 1
      BY <1>2, <1>3
    <3>2. QED
      BY <1>1, <3>1 DEF Good
  <2>3. IInv' /\ D!Become(r, D!DropLast(items[r]), Got(At(c, c.size - 1)))
    BY <1>1, <1>3, <2>1, <2>2, BecomeStep, ResultTypes
  <2>4. QED
    BY <1>2, <1>3, <2>1, <2>3, ResultTypes DEF D!pop_back
<1>4. CASE c.size = 0 /\ Refuse(BufferEmpty)
  BY <1>2, <1>4, RefuseStep, ResultTypes DEF D!pop_back
<1>5. QED
  BY <1>3, <1>4 DEF pop_back

\* pop_at is the queue's pop_at.
LEMMA PopAtStep ==
  ASSUME IInv, NEW r \in Rings, NEW index \in Nat, pop_at(r, index)
  PROVE  IInv' /\ D!pop_at(r, index)
<1>1. PICK n \in 1 .. MaxCapacity : Good(n, ring[r])
  BY DEF IInv
<1> DEFINE c == ring[r]
           s == [i \in 1 .. Len(items[r]) - 1 |->
                   IF i <= index THEN items[r][i] ELSE items[r][i + 1]]
<1>2. n \in Nat \ {0} /\ c.size \in 0 .. n /\ items[r] = Contents(c) /\ Len(items[r]) = c.size
  BY <1>1, QueueView
<1>3. index < c.size /\ Update(r, RemoveAt(c, index), Got(At(c, index)))
  BY DEF pop_at
<1>4. Good(n, RemoveAt(c, index)) /\ Contents(RemoveAt(c, index)) = s
      /\ At(c, index) = items[r][index + 1]
  <2>1. /\ Good(n, RemoveAt(c, index))
        /\ Contents(RemoveAt(c, index)) =
             [i \in 1 .. Len(Contents(c)) - 1 |->
                IF i <= index THEN Contents(c)[i] ELSE Contents(c)[i + 1]]
        /\ At(c, index) = Contents(c)[index + 1]
    BY <1>1, <1>2, <1>3, RemoveAtRing
  <2>2. QED
    BY <1>2, <2>1, Zenon
<1>5. At(c, index) \in Values
  <2>1. index \in 0 .. c.size - 1
    BY <1>2, <1>3
  <2>2. QED
    BY <1>1, <2>1 DEF Good
<1> HIDE DEF s
<1>6. IInv' /\ D!Become(r, s, Got(At(c, index)))
  BY <1>1, <1>3, <1>4, <1>5, BecomeStep, ResultTypes
<1>7. QED
  BY <1>2, <1>3, <1>4, <1>6, ResultTypes DEF D!pop_at, s

\* Resizing is invisible to the queue but for its limit.
LEMMA ResizeStep ==
  ASSUME IInv, NEW r \in Rings, resize_by_two(r)
  PROVE  IInv' /\ D!resize_by_two(r)
<1>1. PICK n \in 1 .. MaxCapacity : Good(n, ring[r])
  BY DEF IInv
<1>2. n \in Nat \ {0} /\ items[r] = Contents(ring[r]) /\ limit[r] = n /\ ring[r].capacity = n
  BY <1>1, QueueView DEF Good, RingOf
<1>3. 2 * n \in 1 .. MaxCapacity
  BY <1>2, CapacityAssumption DEF resize_by_two
<1>4. Good(2 * n, Resized(ring[r])) /\ Contents(Resized(ring[r])) = items[r]
  BY <1>1, <1>2, ResizedRing
<1>5. /\ IInv' /\ items' = [items EXCEPT ![r] = items[r]]
      /\ limit' = [limit EXCEPT ![r] = 2 * n]
  <2>1. ring' = [ring EXCEPT ![r] = Resized(ring[r])] /\ result' = Done
    BY DEF resize_by_two, Update
  <2>2. /\ IInv' /\ items' = [items EXCEPT ![r] = Contents(Resized(ring[r]))]
        /\ limit' = [limit EXCEPT ![r] = 2 * n]
    BY <1>3, <1>4, <2>1, UpdateStep, ResultTypes
  <2>3. QED
    BY <1>4, <2>2
<1>6. items' = items
  BY <1>5 DEF items
<1>7. QED
  BY <1>2, <1>5, <1>6, ResultTypes DEF D!resize_by_two, resize_by_two, Update

\* Assignment copies the elements and the limit.
LEMMA AssignStep ==
  ASSUME IInv, NEW l \in Rings, NEW r \in Rings, assign(l, r)
  PROVE  IInv' /\ D!assign(l, r)
<1>1. PICK n \in 1 .. MaxCapacity : Good(n, ring[r])
  BY DEF IInv
<1>2. PICK m \in 1 .. MaxCapacity : Good(m, ring[l])
  BY DEF IInv
<1>3. n \in Nat \ {0} /\ m \in Nat \ {0} /\ items[r] = Contents(ring[r]) /\ limit[r] = n
  BY <1>1, <1>2, QueueView
<1>4. /\ Good(n, deep_copy(ring[l], ring[r]))
      /\ Contents(deep_copy(ring[l], ring[r])) = items[r]
  BY <1>1, <1>2, <1>3, CopyRing
<1>5. /\ IInv' /\ items' = [items EXCEPT ![l] = items[r]]
      /\ limit' = [limit EXCEPT ![l] = n]
  <2> DEFINE d == deep_copy(ring[l], ring[r])
  <2>1. ring' = [ring EXCEPT ![l] = d] /\ result' = Done
    BY DEF assign, Update
  <2> HIDE DEF d
  <2>2. Good(n, d) /\ Contents(d) = items[r]
    BY <1>4 DEF d
  <2>3. /\ IInv' /\ items' = [items EXCEPT ![l] = Contents(d)]
        /\ limit' = [limit EXCEPT ![l] = n]
    BY <2>1, <2>2, UpdateStep, ResultTypes
  <2>4. QED
    BY <2>2, <2>3
<1>6. QED
  BY <1>3, <1>5, ResultTypes DEF D!assign, assign, Update

\* The calls that leave everything as it is.
LEMMA StutterStep ==
  ASSUME IInv, UNCHANGED vars
  PROVE  IInv' /\ UNCHANGED D!vars
BY DEF IInv, vars, D!vars, items, limit, Good, Contents, At, Slot

\* Every call preserves the invariant and is a call of the queue.
LEMMA NextStep ==
  ASSUME IInv, [Next]_vars
  PROVE  IInv' /\ [D!Next]_(D!vars)
<1>1. CASE UNCHANGED vars
  BY <1>1, StutterStep
<1>2. ASSUME NEW r \in Rings, NEW v \in Values, NEW overwrite \in BOOLEAN,
             push_back(r, v, overwrite) \/ push_front(r, v, overwrite)
      PROVE  IInv' /\ D!Next
  BY <1>2, PushBackStep, PushFrontStep DEF D!Next
<1>3. ASSUME NEW r \in Rings, pop_front(r) \/ pop_back(r)
      PROVE  IInv' /\ D!Next
  BY <1>3, PopFrontStep, PopBackStep DEF D!Next
<1>4. ASSUME NEW r \in Rings, NEW index \in 0 .. MaxCapacity - 1, pop_at(r, index)
      PROVE  IInv' /\ D!Next
  <2>1. index \in Nat
    OBVIOUS
  <2>2. QED
    BY <1>4, <2>1, PopAtStep DEF D!Next
<1>5. ASSUME NEW r \in Rings, resize_by_two(r)
      PROVE  IInv' /\ D!Next
  BY <1>5, ResizeStep DEF D!Next
<1>6. ASSUME NEW l \in Rings, NEW r \in Rings, assign(l, r)
      PROVE  IInv' /\ D!Next
  BY <1>6, AssignStep DEF D!Next
<1>7. QED
  BY <1>1, <1>2, <1>3, <1>4, <1>5, <1>6 DEF Next

\* The constructors establish the invariant and give empty queues.
LEMMA InitStep ==
  ASSUME Init
  PROVE  IInv /\ D!Init
<1>1. \A r \in Rings : ring[r] = set_initial_values(InitCapacity[r])
  BY DEF Init
<1>2. \A r \in Rings : /\ InitCapacity[r] \in 1 .. MaxCapacity
                       /\ InitCapacity[r] \in Nat \ {0}
  BY CapacityAssumption
<1>3. \A r \in Rings : Good(InitCapacity[r], ring[r]) /\ Contents(ring[r]) = <<>>
  BY <1>1, <1>2, NewRing
<1>4. \A r \in Rings : ring[r].capacity = InitCapacity[r]
  BY <1>3 DEF Good, RingOf
<1>5. IInv
  BY <1>2, <1>3, ResultTypes DEF IInv, Init
<1>6. D!Init
  BY <1>3, <1>4, CapacityAssumption, ResultTypes DEF D!Init, Init, items, limit
<1>7. QED
  BY <1>5, <1>6

\* The invariant gives the two safety properties that the model checker tests.
LEMMA IInvImplies ==
  ASSUME IInv
  PROVE  TypeOK /\ NothingUninitialised
<1>1. TypeOK
  BY DEF IInv, TypeOK, Good, Results
<1>2. NothingUninitialised
  BY FreshAssumption DEF IInv, NothingUninitialised, Good, Results
<1>3. QED
  BY <1>1, <1>2

\* Indices stay inside the array, whatever calls are made.
THEOREM TypeCorrect == Spec => []TypeOK
<1>1. IInv /\ [Next]_vars => IInv'
  BY NextStep
<1>2. Init => IInv
  BY InitStep
<1>3. IInv => TypeOK
  BY IInvImplies
<1>4. QED
  BY <1>1, <1>2, <1>3, PTL DEF Spec

\* No call shows an element that was never pushed.
THEOREM NoUninitialisedElement == Spec => []NothingUninitialised
<1>1. IInv /\ [Next]_vars => IInv'
  BY NextStep
<1>2. Init => IInv
  BY InitStep
<1>3. IInv => NothingUninitialised
  BY IInvImplies
<1>4. QED
  BY <1>1, <1>2, <1>3, PTL DEF Spec

\* The ring buffer implements the bounded double-ended queue.
THEOREM ImplementsDeque == Spec => RefinesDeque
<1>1. IInv /\ [Next]_vars => IInv' /\ [D!Next]_(D!vars)
  BY NextStep
<1>2. Init => IInv /\ D!Init
  BY InitStep
<1>3. QED
  BY <1>1, <1>2, PTL DEF Spec, RefinesDeque, D!Spec

=============================================================================
