-------------------------- MODULE IndicatorProofs --------------------------
(***************************************************************************)
(* Proofs about one indicator element, for every number of ports, every    *)
(* ring capacity and every indicator that is incremental in the sense of   *)
(* IncrementalAssumption: the rings and the cache agree with the values    *)
(* added for good, and the element implements WindowIndicator.             *)
(***************************************************************************)
EXTENDS SingleIndicator, SequenceTheorems, TLAPS

BuffersSet ==
  [tstamp : 0 .. MaxTime, updated : SUBSET Ports, state : BufferStates,
   ring : [Ports -> Runs(Cap)], temp_updates : [Ports -> Values]]

\* The inductive invariant.
IInv == TypeOK /\ RingsExact /\ CacheExact /\ InStep

-----------------------------------------------------------------------------
(* Rings as sequences *)

\* Overwriting push_front: the value is in front, and the oldest value goes if
\* there is no room.
LEMMA PushFrontFacts ==
  ASSUME NEW s \in Runs(Cap), NEW v \in Values
  PROVE  /\ push_front(s, v) \in Runs(Cap)
         /\ push_front(s, v) # <<>>
         /\ Head(push_front(s, v)) = v
         /\ Len(push_front(s, v)) = IF Len(s) = Cap THEN Cap ELSE Len(s) + 1
         /\ Tail(push_front(s, v)) = IF Len(s) = Cap THEN DropLast(s) ELSE s
<1> DEFINE t == IF Len(s) = Cap THEN DropLast(s) ELSE s
<1>1. s \in Seq(Values) /\ Len(s) \in 0 .. Cap
  BY CapAssumption DEF Runs
<1>2. t \in Seq(Values) /\ Len(t) = IF Len(s) = Cap THEN Cap - 1 ELSE Len(s)
  BY <1>1, CapAssumption DEF DropLast
<1>3. push_front(s, v) = <<v>> \o t
  BY DEF push_front
<1> HIDE DEF t
<1>4. <<v>> \in Seq(Values) /\ Len(<<v>>) = 1 /\ <<v>>[1] = v
  OBVIOUS
<1>5. <<v>> \o t \in Seq(Values) /\ Len(<<v>> \o t) = 1 + Len(t)
  BY <1>2, <1>4, ConcatProperties
<1>6. Head(<<v>> \o t) = v /\ <<v>> \o t # <<>>
  BY <1>2, <1>4, <1>5
<1>7. Tail(<<v>> \o t) = t
  BY <1>2, <1>4, <1>5
<1>8. QED
  BY <1>1, <1>2, <1>3, <1>5, <1>6, <1>7, CapAssumption DEF Runs, t

\* Putting the displaced value back restores a full ring.
LEMMA PushBackRestores ==
  ASSUME NEW s \in Runs(Cap), Len(s) = Cap
  PROVE  push_back(DropLast(s), LastOf(s)) = s
<1>1. s \in Seq(Values) /\ s # <<>>
  BY CapAssumption DEF Runs
<1>2. DropLast(s) \in Seq(Values) /\ Len(DropLast(s)) = Cap - 1
  BY <1>1, CapAssumption DEF DropLast
<1>3. push_back(DropLast(s), LastOf(s)) = Append(DropLast(s), LastOf(s))
  BY <1>2, CapAssumption DEF push_back
<1>4. LastOf(s) \in Values
  BY <1>1, CapAssumption DEF LastOf
<1>5. Append(DropLast(s), LastOf(s)) = s
  <2>1. \A i \in 1 .. Cap - 1 : DropLast(s)[i] = s[i]
    BY <1>1, CapAssumption DEF DropLast
  <2>2. /\ Append(DropLast(s), LastOf(s)) \in Seq(Values)
        /\ Len(Append(DropLast(s), LastOf(s))) = Cap
    BY <1>2, <1>4, CapAssumption
  <2>3. \A i \in 1 .. Cap : Append(DropLast(s), LastOf(s))[i] = s[i]
    BY <1>2, <1>4, <2>1, CapAssumption DEF LastOf
  <2>4. QED
    BY <1>1, <2>2, <2>3, SeqEqual
<1>6. QED
  BY <1>3, <1>5

\* Taking out the temporary value, and putting one back, keeps a ring in bounds.
LEMMA RestoredType ==
  ASSUME NEW t \in Runs(Cap), t # <<>>, NEW v \in Values
  PROVE  Tail(t) \in Runs(Cap) /\ push_back(Tail(t), v) \in Runs(Cap)
<1>1. t \in Seq(Values) /\ Len(t) \in 1 .. Cap
  BY CapAssumption, EmptySeq DEF Runs
<1>2. Tail(t) \in Seq(Values) /\ Len(Tail(t)) \in 0 .. Cap - 1
  BY <1>1, CapAssumption
<1>3. push_back(Tail(t), v) = Append(Tail(t), v)
  <2>1. Len(Tail(t)) # Cap
    BY <1>1, <1>2, CapAssumption
  <2>2. QED
    BY <2>1 DEF push_back
<1>4. QED
  BY <1>1, <1>2, <1>3, CapAssumption DEF Runs

-----------------------------------------------------------------------------
(* A message on its way *)

\* The types in terms of the element's buffers.
LEMMA Types ==
  ASSUME IInv
  PROVE  /\ elem.buffers \in BuffersSet
         /\ elem.op_mode \in OpModes
         /\ elem.initialized \in BOOLEAN
         /\ elem = [op_mode |-> elem.op_mode, buffers |-> elem.buffers,
                    cache |-> elem.cache, initialized |-> elem.initialized]
         /\ window \in [Ports -> Runs(Cap)]
         /\ clock \in 0 .. MaxTime
         /\ todo \subseteq Ports
         /\ msg.vals \in [Ports -> Values] /\ msg.kind \in Kinds
<1>1. elem \in Elements /\ msg \in Messages \cup {NoMessage} /\ todo \subseteq Ports
      /\ clock \in 0 .. MaxTime /\ window \in [Ports -> Runs(Cap)]
  BY DEF IInv, TypeOK
<1>2. /\ elem.buffers \in BuffersSet /\ elem.op_mode \in OpModes /\ elem.initialized \in BOOLEAN
      /\ elem = [op_mode |-> elem.op_mode, buffers |-> elem.buffers,
                 cache |-> elem.cache, initialized |-> elem.initialized]
  BY <1>1 DEF Elements, BuffersSet
<1>3. msg.vals \in [Ports -> Values] /\ msg.kind \in Kinds
  BY <1>1, FeedAssumption DEF Messages, NoMessage, Kinds
<1>4. QED
  BY <1>1, <1>2, <1>3

\* The rings after restoring stay in bounds.
LEMMA RestoredInBounds ==
  ASSUME NEW b \in BuffersSet,
         b.state \in {"ACCUMULATED_TEMP", "ACCUMULATED_TEMP_POP"} =>
           \A p \in Ports : b.ring[p] # <<>>
  PROVE  Restored(b) \in [Ports -> Runs(Cap)]
<1>1. b.ring \in [Ports -> Runs(Cap)] /\ b.temp_updates \in [Ports -> Values]
  BY DEF BuffersSet
<1>2. CASE b.state = "ACCUMULATED_TEMP"
  <2>1. \A p \in Ports : Tail(b.ring[p]) \in Runs(Cap)
    BY <1>1, <1>2, RestoredType
  <2>2. QED
    BY <1>2, <2>1 DEF Restored
<1>3. CASE b.state = "ACCUMULATED_TEMP_POP"
  <2>1. \A p \in Ports : push_back(Tail(b.ring[p]), b.temp_updates[p]) \in Runs(Cap)
    BY <1>1, <1>3, RestoredType
  <2>2. QED
    BY <1>3, <2>1 DEF Restored
<1>4. CASE b.state \notin {"ACCUMULATED_TEMP", "ACCUMULATED_TEMP_POP"}
  BY <1>1, <1>4 DEF Restored
<1>5. QED
  BY <1>2, <1>3, <1>4

\* After new_value_check, whether or not it started a new round, the buffers
\* hold exactly what the ports reached so far have brought.
LEMMA CheckFacts ==
  ASSUME IInv, todo # {}
  PROVE  /\ new_value_check(elem.buffers, msg.tstamp) \in BuffersSet
         /\ Partial(new_value_check(elem.buffers, msg.tstamp))
<1> DEFINE b == elem.buffers
           c == new_value_check(b, msg.tstamp)
<1>1. b \in BuffersSet /\ clock \in 0 .. MaxTime /\ msg.tstamp = clock
      /\ window \in [Ports -> Runs(Cap)] /\ todo \subseteq Ports /\ MaxTime \in Nat
  BY Types, FeedAssumption DEF IInv, InStep
<1>2. CASE todo = Ports
  <2>1. b.tstamp < clock
    BY <1>2 DEF IInv, InStep
  <2>2. c = [b EXCEPT !.tstamp = clock, !.updated = {}, !.ring = Restored(b),
                      !.state = "ACCUMULATING"]
    BY <1>1, <2>1 DEF new_value_check
  <2>3. Restored(b) \in [Ports -> Runs(Cap)]
    BY <1>1, <1>2, RestoredInBounds DEF IInv, InStep
  <2>4. c \in BuffersSet
    BY <1>1, <2>2, <2>3 DEF BuffersSet, BufferStates
  <2>5. c.tstamp = clock /\ c.updated = {} /\ c.state = "ACCUMULATING" /\ c.ring = Restored(b)
    BY <1>1, <2>2 DEF BuffersSet
  <2>6. elem.op_mode # "NORMAL" =>
          c.ring = [p \in Ports |-> IF p \in Ports \ todo
                                   THEN push_front(window[p], msg.vals[p]) ELSE window[p]]
    <3>1. elem.op_mode # "NORMAL" => Restored(b) = window
      BY <1>2 DEF IInv, RingsExact
    <3>2. window = [p \in Ports |-> IF p \in Ports \ todo
                                    THEN push_front(window[p], msg.vals[p]) ELSE window[p]]
      BY <1>1, <1>2
    <3>3. QED
      BY <2>5, <3>1, <3>2
  <2>7. Ports \ todo = {}
    BY <1>2
  <2> HIDE DEF c
  <2>8. Partial(c)
    BY <2>5, <2>6, <2>7 DEF Partial
  <2>9. QED
    BY <2>4, <2>8 DEF c
<1>3. CASE todo # Ports
  <2>1. b.tstamp = clock /\ Partial(b)
    BY <1>3 DEF IInv, InStep
  <2>2. c = b
    BY <1>1, <2>1 DEF new_value_check
  <2>3. QED
    BY <1>1, <2>1, <2>2
<1>4. QED
  BY <1>2, <1>3

\* The rings after a port got its value, for either kind of adding.
Reached(port) ==
  [p \in Ports |-> IF p \in Ports \ (todo \ {port}) THEN push_front(window[p], msg.vals[p])
                  ELSE window[p]]

\* Adding the value of one more port.
LEMMA ReachedStep ==
  ASSUME NEW port \in todo, todo \subseteq Ports,
         NEW r, r = [p \in Ports |-> IF p \in Ports \ todo
                                    THEN push_front(window[p], msg.vals[p]) ELSE window[p]]
  PROVE  [r EXCEPT ![port] = push_front(window[port], msg.vals[port])] = Reached(port)
<1> DEFINE f == [r EXCEPT ![port] = push_front(window[port], msg.vals[port])]
<1>1. DOMAIN f = Ports /\ DOMAIN Reached(port) = Ports
  BY DEF Reached
<1>2. ASSUME NEW p \in Ports PROVE f[p] = Reached(port)[p]
  <2>1. CASE p = port
    BY <2>1 DEF Reached
  <2>2. CASE p # port
    BY <2>2 DEF Reached
  <2>3. QED
    BY <2>1, <2>2
<1>3. f = [p \in Ports |-> f[p]] /\ Reached(port) = [p \in Ports |-> Reached(port)[p]]
  BY DEF Reached
<1> HIDE DEF f
<1>4. f = Reached(port)
  BY <1>2, <1>3
<1>5. QED
  BY <1>4 DEF f

\* add_new_value brings one more port up to date.
LEMMA AddFacts ==
  ASSUME IInv, NEW port \in todo, ~Temporary,
         NEW d, d = add_new_value(elem.buffers, msg.vals[port], msg.tstamp, port)
  PROVE  /\ d \in BuffersSet
         /\ d.tstamp = clock
         /\ d.updated = Ports \ (todo \ {port})
         /\ d.state = IF todo = {port} THEN "ACCUMULATED" ELSE "ACCUMULATING"
         /\ elem.op_mode # "NORMAL" => d.ring = Reached(port)
         /\ elem.op_mode = "NORMAL" =>
              \A p \in Ports \ (todo \ {port}) :
                d.ring[p] # <<>> /\ Head(d.ring[p]) = msg.vals[p]
<1> DEFINE c == new_value_check(elem.buffers, msg.tstamp)
           v == msg.vals[port]
           up == c.updated \cup {port}
           st == IF up = Ports THEN "ACCUMULATED" ELSE c.state
<1>1. /\ todo \subseteq Ports /\ port \in Ports /\ msg.vals \in [Ports -> Values] /\ v \in Values
      /\ window \in [Ports -> Runs(Cap)]
  BY Types
<1>2. c \in BuffersSet /\ Partial(c)
  BY CheckFacts
<1>3. d = [c EXCEPT !.ring[port] = push_front(c.ring[port], v), !.updated = up, !.state = st]
  BY DEF add_new_value
<1> HIDE DEF c
<1>4. c.ring \in [Ports -> Runs(Cap)] /\ c.updated = Ports \ todo /\ c.state = "ACCUMULATING"
      /\ c.tstamp = clock
  BY <1>2 DEF BuffersSet, Partial
<1>5. push_front(c.ring[port], v) \in Runs(Cap) /\ push_front(c.ring[port], v) # <<>>
      /\ Head(push_front(c.ring[port], v)) = v
  BY <1>1, <1>4, PushFrontFacts
<1>6. up = Ports \ (todo \ {port}) /\ (up = Ports <=> todo = {port})
  BY <1>1, <1>4
<1>7. d.tstamp = clock /\ d.updated = up /\ d.state = st
      /\ d.ring = [c.ring EXCEPT ![port] = push_front(c.ring[port], v)]
  BY <1>2, <1>3, <1>4 DEF BuffersSet
<1>8. d \in BuffersSet
  <2>1. [c.ring EXCEPT ![port] = push_front(c.ring[port], v)] \in [Ports -> Runs(Cap)]
    BY <1>1, <1>4, <1>5
  <2>2. st \in BufferStates /\ up \in SUBSET Ports
    BY <1>1, <1>4 DEF BufferStates
  <2>3. d = [c EXCEPT !.ring = [c.ring EXCEPT ![port] = push_front(c.ring[port], v)],
                      !.updated = up, !.state = st]
    BY <1>2, <1>3 DEF BuffersSet
  <2> HIDE DEF st, up
  <2>4. QED
    BY <1>2, <2>1, <2>2, <2>3 DEF BuffersSet
<1>9. elem.op_mode # "NORMAL" => d.ring = Reached(port)
  <2>1. SUFFICES ASSUME elem.op_mode # "NORMAL" PROVE d.ring = Reached(port)
    OBVIOUS
  <2>2. c.ring = [p \in Ports |-> IF p \in Ports \ todo THEN push_front(window[p], msg.vals[p])
                                 ELSE window[p]]
    BY <1>2, <2>1 DEF Partial
  <2>3. c.ring[port] = window[port]
    BY <1>1, <2>2
  <2>4. QED
    BY <1>1, <1>7, <2>2, <2>3, ReachedStep
<1>10. elem.op_mode = "NORMAL" =>
         \A p \in Ports \ (todo \ {port}) :
           d.ring[p] # <<>> /\ Head(d.ring[p]) = msg.vals[p]
  <2>1. SUFFICES ASSUME elem.op_mode = "NORMAL", NEW p \in Ports \ (todo \ {port})
                 PROVE  d.ring[p] # <<>> /\ Head(d.ring[p]) = msg.vals[p]
    OBVIOUS
  <2>2. CASE p = port
    BY <1>1, <1>4, <1>5, <1>7, <2>2
  <2>3. CASE p # port
    <3>1. p \in Ports \ todo /\ d.ring[p] = c.ring[p]
      BY <1>4, <1>7, <2>3
    <3>2. QED
      BY <1>2, <2>1, <3>1 DEF Partial
  <2>4. QED
    BY <2>2, <2>3
<1>11. QED
  BY <1>4, <1>6, <1>7, <1>8, <1>9, <1>10

\* add_new_value_temp brings one more port up to date and saves what the value
\* displaces; once the last port is reached, restoring gives the window back.
LEMMA AddTempFacts ==
  ASSUME IInv, NEW port \in todo, Temporary,
         NEW d, d = add_new_value_temp(elem.buffers, msg.vals[port], msg.tstamp, port)
  PROVE  /\ d \in BuffersSet
         /\ d.tstamp = clock
         /\ d.updated = Ports \ (todo \ {port})
         /\ d.state = IF todo = {port}
                      THEN IF Full THEN "ACCUMULATED_TEMP_POP" ELSE "ACCUMULATED_TEMP"
                      ELSE IF Full THEN "ACCUMULATING_POP" ELSE "ACCUMULATING"
         /\ d.ring = Reached(port)
         /\ Full => \A p \in Ports \ (todo \ {port}) : d.temp_updates[p] = LastOf(window[p])
<1> DEFINE c == new_value_check(elem.buffers, msg.tstamp)
           v == msg.vals[port]
           up == c.updated \cup {port}
           full == Len(c.ring[port]) = Cap
           st0 == IF full THEN "ACCUMULATING_POP" ELSE c.state
           st == IF up # Ports THEN st0
                 ELSE IF st0 = "ACCUMULATING" THEN "ACCUMULATED_TEMP"
                 ELSE "ACCUMULATED_TEMP_POP"
           tu == IF full THEN LastOf(c.ring[port]) ELSE c.temp_updates[port]
<1>1. /\ todo \subseteq Ports /\ port \in Ports /\ msg.vals \in [Ports -> Values] /\ v \in Values
      /\ window \in [Ports -> Runs(Cap)] /\ elem.op_mode # "NORMAL"
  BY Types DEF Temporary
<1>2. c \in BuffersSet /\ Partial(c)
  BY CheckFacts
<1>3. d = [c EXCEPT !.temp_updates[port] = tu, !.ring[port] = push_front(c.ring[port], v),
                    !.updated = up, !.state = st]
  BY DEF add_new_value_temp
<1> HIDE DEF c
<1>4. c.ring \in [Ports -> Runs(Cap)] /\ c.updated = Ports \ todo /\ c.tstamp = clock
      /\ c.temp_updates \in [Ports -> Values]
      /\ c.state = IF Full /\ Ports \ todo # {} THEN "ACCUMULATING_POP" ELSE "ACCUMULATING"
  BY <1>2 DEF BuffersSet, Partial
<1>5. c.ring = [p \in Ports |-> IF p \in Ports \ todo THEN push_front(window[p], msg.vals[p])
                               ELSE window[p]]
  BY <1>1, <1>2 DEF Partial
<1>6. c.ring[port] = window[port]
  BY <1>1, <1>5
<1>7. full <=> Full
  <2>1. \A p, q \in Ports : Len(window[p]) = Len(window[q])
    BY DEF IInv, InStep
  <2>2. QED
    BY <1>1, <1>6, <2>1 DEF Full
<1>8. push_front(c.ring[port], v) \in Runs(Cap)
  BY <1>1, <1>4, PushFrontFacts
<1>9. tu \in Values /\ (Full => tu = LastOf(window[port]))
  <2>1. full => LastOf(c.ring[port]) \in Values
    BY <1>1, <1>4, CapAssumption DEF LastOf, Runs
  <2>2. QED
    BY <1>1, <1>4, <1>6, <1>7, <2>1
<1>10. up = Ports \ (todo \ {port}) /\ (up = Ports <=> todo = {port})
  BY <1>1, <1>4
<1>11. st = IF todo = {port}
            THEN IF Full THEN "ACCUMULATED_TEMP_POP" ELSE "ACCUMULATED_TEMP"
            ELSE IF Full THEN "ACCUMULATING_POP" ELSE "ACCUMULATING"
  BY <1>4, <1>7, <1>10
<1> HIDE DEF tu, up, st
<1>12. /\ d.tstamp = clock /\ d.updated = up /\ d.state = st
       /\ d.ring = [c.ring EXCEPT ![port] = push_front(c.ring[port], v)]
       /\ d.temp_updates = [c.temp_updates EXCEPT ![port] = tu]
  BY <1>2, <1>3, <1>4 DEF BuffersSet
<1>13. d \in BuffersSet
  <2>1. /\ [c.ring EXCEPT ![port] = push_front(c.ring[port], v)] \in [Ports -> Runs(Cap)]
        /\ [c.temp_updates EXCEPT ![port] = tu] \in [Ports -> Values]
    BY <1>1, <1>4, <1>8, <1>9
  <2>2. st \in BufferStates /\ up \in SUBSET Ports
    BY <1>1, <1>10, <1>11 DEF BufferStates
  <2>3. d = [c EXCEPT !.ring = [c.ring EXCEPT ![port] = push_front(c.ring[port], v)],
                      !.temp_updates = [c.temp_updates EXCEPT ![port] = tu],
                      !.updated = up, !.state = st]
    BY <1>2, <1>3 DEF BuffersSet
  <2>4. QED
    BY <1>2, <2>1, <2>2, <2>3 DEF BuffersSet
<1>14. d.ring = Reached(port)
  <2>1. [c.ring EXCEPT ![port] = push_front(window[port], msg.vals[port])] = Reached(port)
    BY <1>1, <1>5, ReachedStep
  <2>2. QED
    BY <1>6, <1>12, <2>1
<1>15. ASSUME Full, NEW p \in Ports \ (todo \ {port})
       PROVE  d.temp_updates[p] = LastOf(window[p])
  <2>1. CASE p = port
    BY <1>1, <1>4, <1>9, <1>12, <1>15, <2>1
  <2>2. CASE p # port
    <3>1. p \in Ports \ todo /\ d.temp_updates[p] = c.temp_updates[p]
      BY <1>4, <1>12, <2>2
    <3>2. QED
      BY <1>2, <1>15, <3>1 DEF Partial
  <2>3. QED
    BY <2>1, <2>2
<1>16. QED
  BY <1>10, <1>11, <1>12, <1>13, <1>14, <1>15

\* The window with the message's values on top.
LEMMA PrependFacts ==
  ASSUME IInv
  PROVE  /\ Prepend(window, msg.vals) \in [Ports -> Runs(Cap)]
         /\ \A p, q \in Ports :
              Len(Prepend(window, msg.vals)[p]) = Len(Prepend(window, msg.vals)[q])
         /\ \A p \in Ports : Prepend(window, msg.vals)[p] # <<>>
         /\ elem.initialized => \A p \in Ports : Len(Prepend(window, msg.vals)[p]) >= 2
         /\ Prepend(window, msg.vals) = W!Prepend(window, msg.vals)
         /\ \A port : todo = {port} => Reached(port) = Prepend(window, msg.vals)
<1> DEFINE w == Prepend(window, msg.vals)
<1>1. window \in [Ports -> Runs(Cap)] /\ msg.vals \in [Ports -> Values]
  BY Types
<1>2. ASSUME NEW p \in Ports
      PROVE  /\ w[p] = push_front(window[p], msg.vals[p])
             /\ w[p] \in Runs(Cap) /\ w[p] # <<>>
             /\ Len(w[p]) = IF Len(window[p]) = Cap THEN Cap ELSE Len(window[p]) + 1
  BY <1>1, PushFrontFacts DEF Prepend
<1>3. \A p, q \in Ports : Len(window[p]) = Len(window[q])
  BY DEF IInv, InStep
<1>4. w \in [Ports -> Runs(Cap)]
  BY <1>2 DEF Prepend
<1>5. ASSUME NEW p \in Ports, elem.initialized PROVE Len(w[p]) >= 2
  <2>1. window[p] # <<>>
    BY <1>5 DEF IInv, InStep
  <2>2. Len(window[p]) \in Nat /\ Len(window[p]) >= 1
    BY <1>1, <2>1, EmptySeq DEF Runs
  <2>3. CASE Len(window[p]) = Cap
    BY <1>2, <2>3, CapAssumption
  <2>4. CASE Len(window[p]) # Cap
    <3>1. Len(w[p]) = Len(window[p]) + 1
      BY <1>2, <2>4
    <3>2. QED
      BY <2>2, <3>1
  <2>5. QED
    BY <2>3, <2>4
<1>6. w = W!Prepend(window, msg.vals)
  BY DEF Prepend, W!Prepend, push_front, DropLast
<1>7. ASSUME NEW port, todo = {port} PROVE Reached(port) = w
  <2>1. Ports \ (todo \ {port}) = Ports
    BY <1>7
  <2>2. QED
    BY <2>1 DEF Reached, Prepend
<1> HIDE DEF w
<1>8. \A p, q \in Ports : Len(w[p]) = Len(w[q])
  BY <1>2, <1>3
<1>9. QED
  BY <1>2, <1>4, <1>5, <1>6, <1>7, <1>8 DEF w

\* A window of at least two values per port is one the assumption speaks of.
LEMMA WindowSet ==
  ASSUME NEW w \in [Ports -> Runs(Cap)], \A p, q \in Ports : Len(w[p]) = Len(w[q]),
         \A p \in Ports : Len(w[p]) >= 2
  PROVE  w \in Windows
<1>1. PICK q \in Ports : TRUE
  BY FeedAssumption
<1>2. Len(w[q]) \in 2 .. Cap
  BY CapAssumption DEF Runs
<1>3. ASSUME NEW p \in Ports PROVE w[p] \in [1 .. Len(w[q]) -> Values]
  BY CapAssumption DEF Runs
<1>4. w \in [Ports -> [1 .. Len(w[q]) -> Values]]
  BY <1>3
<1>5. QED
  BY <1>2, <1>4 DEF Windows

\* Once an UPDATE has reached every port, restoring the rings gives the window
\* without it.
LEMMA RestoredAfterUpdate ==
  ASSUME IInv, NEW d \in BuffersSet, d.ring = Prepend(window, msg.vals),
         d.state = IF Full THEN "ACCUMULATED_TEMP_POP" ELSE "ACCUMULATED_TEMP",
         Full => \A p \in Ports : d.temp_updates[p] = LastOf(window[p])
  PROVE  Restored(d) = window
<1>1. window \in [Ports -> Runs(Cap)] /\ msg.vals \in [Ports -> Values]
  BY Types
<1>2. ASSUME NEW p \in Ports
      PROVE  Tail(d.ring[p]) = IF Len(window[p]) = Cap THEN DropLast(window[p]) ELSE window[p]
  BY <1>1, PushFrontFacts DEF Prepend
<1>3. \A p, q \in Ports : Len(window[p]) = Len(window[q])
  BY DEF IInv, InStep
<1>4. CASE Full
  <2>1. ASSUME NEW p \in Ports
        PROVE  push_back(Tail(d.ring[p]), d.temp_updates[p]) = window[p]
    BY <1>1, <1>2, <1>4, PushBackRestores DEF Full
  <2>2. Restored(d) = [p \in Ports |-> push_back(Tail(d.ring[p]), d.temp_updates[p])]
    BY <1>4 DEF Restored
  <2>3. QED
    BY <1>1, <2>1, <2>2
<1>5. CASE ~Full
  <2>1. ASSUME NEW p \in Ports PROVE Tail(d.ring[p]) = window[p]
    BY <1>2, <1>3, <1>5 DEF Full
  <2>2. Restored(d) = [p \in Ports |-> Tail(d.ring[p])]
    BY <1>5 DEF Restored
  <2>3. QED
    BY <1>1, <2>1, <2>2
<1>6. QED
  BY <1>4, <1>5

-----------------------------------------------------------------------------
(* The steps *)

\* The packet the element gets on a port.
Packet(port) == [kind |-> msg.kind, tstamp |-> msg.tstamp, value |-> msg.vals[port]]

\* The buffers after any packet.
LEMMA ReceiveFacts ==
  ASSUME IInv, NEW port \in todo, NEW d, d = Receive(elem, Packet(port), port)
  PROVE  /\ d \in BuffersSet
         /\ d.tstamp = clock
         /\ d.updated = Ports \ (todo \ {port})
         /\ d.state = IF todo = {port}
                      THEN IF ~Temporary THEN "ACCUMULATED"
                           ELSE IF Full THEN "ACCUMULATED_TEMP_POP" ELSE "ACCUMULATED_TEMP"
                      ELSE IF Temporary /\ Full THEN "ACCUMULATING_POP" ELSE "ACCUMULATING"
         /\ elem.op_mode # "NORMAL" => d.ring = Reached(port)
         /\ elem.op_mode = "NORMAL" =>
              \A p \in Ports \ (todo \ {port}) :
                d.ring[p] # <<>> /\ Head(d.ring[p]) = msg.vals[p]
         /\ Temporary /\ Full =>
              \A p \in Ports \ (todo \ {port}) : d.temp_updates[p] = LastOf(window[p])
<1>1. /\ msg.kind \in {"INIT", "ADD", "UPDATE"}
      /\ elem.initialized \in BOOLEAN
      /\ msg.kind = "INIT" => ~elem.initialized
  BY Types DEF Kinds, IInv, InStep
<1>2. CASE Temporary
  <2>1. d = add_new_value_temp(elem.buffers, msg.vals[port], msg.tstamp, port)
    BY <1>1, <1>2 DEF Receive, Packet, Initialising, Temporary
  <2>2. elem.op_mode # "NORMAL"
    BY <1>2 DEF Temporary
  <2>3. QED
    BY <1>2, <2>1, <2>2, AddTempFacts
<1>3. CASE ~Temporary
  <2>1. d = add_new_value(elem.buffers, msg.vals[port], msg.tstamp, port)
    BY <1>1, <1>3 DEF Receive, Packet, Initialising, Temporary
  <2>2. QED
    BY <1>3, <2>1, AddFacts
<1>4. QED
  BY <1>2, <1>3

\* A packet that is not the last of its message: the element waits.
LEMMA WaitStep ==
  ASSUME IInv, NEW port \in Ports, Push(port), todo # {port}
  PROVE  IInv' /\ UNCHANGED W!vars
<1> DEFINE d == Receive(elem, Packet(port), port)
<1>1. port \in todo /\ todo' = todo \ {port} /\ msg' = msg /\ clock' = clock /\ window' = window
  BY DEF Push
<1>2. /\ todo \subseteq Ports /\ elem.initialized \in BOOLEAN
      /\ elem = [op_mode |-> elem.op_mode, buffers |-> elem.buffers,
                 cache |-> elem.cache, initialized |-> elem.initialized]
  BY Types
<1>3. todo' # {} /\ todo' # Ports /\ todo' \subseteq Ports /\ todo # {}
      /\ Ports \ todo' = Ports \ (todo \ {port}) /\ Ports \ todo' # {}
  BY <1>1, <1>2
<1>4. /\ d \in BuffersSet
      /\ d.tstamp = clock
      /\ d.updated = Ports \ (todo \ {port})
      /\ d.state = IF Temporary /\ Full THEN "ACCUMULATING_POP" ELSE "ACCUMULATING"
      /\ elem.op_mode # "NORMAL" => d.ring = Reached(port)
      /\ elem.op_mode = "NORMAL" =>
           \A p \in Ports \ (todo \ {port}) :
             d.ring[p] # <<>> /\ Head(d.ring[p]) = msg.vals[p]
      /\ Temporary /\ Full =>
           \A p \in Ports \ (todo \ {port}) : d.temp_updates[p] = LastOf(window[p])
  BY <1>1, ReceiveFacts
<1>5. elem' = [elem EXCEPT !.buffers = d] /\ out' = out \o <<>>
  BY <1>2, <1>4 DEF Push, push, is_update_complete, Result, Packet
<1> HIDE DEF d
<1>6. /\ elem' = [op_mode |-> elem.op_mode, buffers |-> d,
                  cache |-> elem.cache, initialized |-> elem.initialized]
  BY <1>2, <1>5
<1>7. /\ elem'.op_mode = elem.op_mode /\ elem'.buffers = d
      /\ elem'.cache = elem.cache /\ elem'.initialized = elem.initialized
  BY <1>6
<1>8. out = <<>> /\ out' = <<>>
  BY <1>3, <1>5 DEF IInv, InStep
<1>9. (Temporary' <=> Temporary) /\ (Full' <=> Full)
  BY <1>1, <1>7 DEF Temporary, Full
<1>10. Partial(elem.buffers)'
  <2>1. elem.op_mode # "NORMAL" =>
          d.ring = [p \in Ports |-> IF p \in Ports \ todo' THEN push_front(window[p], msg.vals[p])
                                   ELSE window[p]]
    BY <1>3, <1>4 DEF Reached
  <2>2. QED
    BY <1>1, <1>3, <1>4, <1>7, <1>9, <2>1 DEF Partial
<1>11. TypeOK'
  <2>1. elem' \in Elements
    <3>1. elem.op_mode \in OpModes /\ elem.initialized \in BOOLEAN
          /\ elem.cache \in {NoCache} \cup {process_ext(w) : w \in Windows}
      BY DEF IInv, TypeOK, Elements
    <3>2. QED
      BY <1>4, <1>6, <3>1 DEF Elements, BuffersSet
  <2>2. QED
    BY <1>1, <1>3, <2>1 DEF IInv, TypeOK
<1>12. RingsExact' /\ CacheExact'
  BY <1>1, <1>3, <1>7 DEF IInv, RingsExact, CacheExact
<1>13. InStep'
  BY <1>1, <1>3, <1>4, <1>7, <1>8, <1>10 DEF IInv, InStep
<1>14. UNCHANGED W!vars
  BY <1>1, <1>3, <1>7, <1>8 DEF W!vars
<1>15. QED
  BY <1>11, <1>12, <1>13, <1>14 DEF IInv

\* What the last packet of a message must leave behind.
LEMMA DoneStep ==
  ASSUME IInv, NEW port, todo = {port}, todo' = {}, UNCHANGED <<msg, clock>>,
         NEW b \in BuffersSet, NEW o \in OpModes,
         NEW c \in {NoCache} \cup {process_ext(w) : w \in Windows},
         elem' = [op_mode |-> o, buffers |-> b, cache |-> c, initialized |-> TRUE],
         b.tstamp = clock,
         b.state \in {"ACCUMULATED", "ACCUMULATED_TEMP", "ACCUMULATED_TEMP_POP"},
         b.state # "ACCUMULATED" => o # "NORMAL" /\ \A p \in Ports : b.ring[p] # <<>>,
         o # "NORMAL" => Restored(b) = window',
         o = "NORMAL" => c = process_ext(window') /\ \A p \in Ports : Len(window'[p]) >= 2,
         o \in {"NORMAL", "STARTUP"} => "STARTUP" \in StartModes,
         window' = Prepend(window, msg.vals) \/ (window' = window /\ elem.initialized)
  PROVE  IInv'
<1>1. /\ elem'.op_mode = o /\ elem'.buffers = b /\ elem'.cache = c /\ elem'.initialized
  OBVIOUS
<1>2. Ports # {} /\ todo' # Ports
  BY FeedAssumption
<1>3. /\ window' \in [Ports -> Runs(Cap)]
      /\ \A p, q \in Ports : Len(window'[p]) = Len(window'[q])
      /\ \A p \in Ports : window'[p] # <<>>
  <2>1. CASE window' = Prepend(window, msg.vals)
    BY <2>1, PrependFacts
  <2>2. CASE window' = window /\ elem.initialized
    BY <2>2, Types DEF IInv, InStep
  <2>3. QED
    BY <2>1, <2>2
<1>4. TypeOK'
  <2>1. elem' \in Elements
    BY DEF Elements, BuffersSet
  <2>2. QED
    BY <1>3, <2>1 DEF IInv, TypeOK
<1>5. RingsExact' /\ CacheExact'
  BY <1>1 DEF RingsExact, CacheExact
<1>6. InStep'
  BY <1>1, <1>2, <1>3 DEF InStep
<1>7. QED
  BY <1>4, <1>5, <1>6 DEF IInv

\* The last packet of a message: the element answers.
LEMMA AnswerStep ==
  ASSUME IInv, NEW port \in Ports, Push(port), todo = {port}
  PROVE  IInv' /\ W!Answer
<1> DEFINE d == Receive(elem, Packet(port), port)
           f == [elem EXCEPT !.buffers = d]
           new == Prepend(window, msg.vals)
<1>1. port \in todo /\ todo' = {} /\ msg' = msg /\ clock' = clock
      /\ window' = IF ~elem.initialized \/ msg.kind # "UPDATE" THEN new ELSE window
  BY DEF Push
<1>2. /\ todo \subseteq Ports /\ elem.initialized \in BOOLEAN /\ elem.op_mode \in OpModes
      /\ elem = [op_mode |-> elem.op_mode, buffers |-> elem.buffers,
                 cache |-> elem.cache, initialized |-> elem.initialized]
      /\ msg.kind \in {"INIT", "ADD", "UPDATE"}
      /\ elem.cache \in {NoCache} \cup {process_ext(w) : w \in Windows}
  BY Types DEF Kinds, IInv, TypeOK, Elements
<1>3. /\ out = <<>> /\ (msg.kind = "INIT" => ~elem.initialized)
      /\ elem.op_mode \in {"NORMAL", "STARTUP"} => "STARTUP" \in StartModes
      /\ ~elem.initialized => elem.op_mode # "NORMAL"
  BY <1>1, FeedAssumption DEF IInv, InStep
<1>4. /\ d \in BuffersSet
      /\ d.tstamp = clock
      /\ d.state = IF ~Temporary THEN "ACCUMULATED"
                   ELSE IF Full THEN "ACCUMULATED_TEMP_POP" ELSE "ACCUMULATED_TEMP"
      /\ elem.op_mode # "NORMAL" => d.ring = Reached(port)
      /\ elem.op_mode = "NORMAL" =>
           \A p \in Ports : d.ring[p] # <<>> /\ Head(d.ring[p]) = msg.vals[p]
      /\ Temporary /\ Full => \A p \in Ports : d.temp_updates[p] = LastOf(window[p])
  <2>1. Ports \ (todo \ {port}) = Ports
    OBVIOUS
  <2>2. QED
    BY <1>1, <2>1, ReceiveFacts
<1>5. f = [op_mode |-> elem.op_mode, buffers |-> d, cache |-> elem.cache,
           initialized |-> elem.initialized]
  BY <1>2
<1>6. is_update_complete(d)
  BY <1>4 DEF is_update_complete
<1>7. LET r == IF Initialising(elem, Packet(port))  THEN OnInit(f, Packet(port))
               ELSE IF elem.op_mode = "NAIVE" THEN OnNaive(f, Packet(port))
               ELSE IF elem.op_mode = "STARTUP" THEN OnStartup(f, Packet(port))
               ELSE OnNormal(f, Packet(port))
      IN  elem' = r.elem /\ out' = out \o r.sent
  <2>1. f.buffers = d
    BY <1>5
  <2>2. QED
    BY <1>6, <2>1 DEF Push, push, Packet
<1> HIDE DEF d, f
<1>8. /\ new \in [Ports -> Runs(Cap)]
      /\ \A p, q \in Ports : Len(new[p]) = Len(new[q])
      /\ \A p \in Ports : new[p] # <<>>
      /\ elem.initialized => \A p \in Ports : Len(new[p]) >= 2
      /\ new = W!Prepend(window, msg.vals)
      /\ Reached(port) = new
  BY PrependFacts
<1>9. elem.initialized => new \in Windows
  BY <1>8, WindowSet
<1>10. /\ elem.op_mode # "NORMAL" => d.ring = new
       /\ Temporary => Restored(d) = window
       /\ ~Temporary => Restored(d) = d.ring
  <2>1. elem.op_mode # "NORMAL" => d.ring = new
    BY <1>4, <1>8
  <2>2. Temporary => Restored(d) = window
    BY <1>4, <2>1, RestoredAfterUpdate DEF Temporary
  <2>3. ~Temporary => Restored(d) = d.ring
    BY <1>4 DEF Restored
  <2>4. QED
    BY <2>1, <2>2, <2>3
<1> HIDE DEF new
<1> DEFINE say(v) == [kind |-> msg.kind, tstamp |-> msg.tstamp, value |-> v]
<1>11. \A v : Message(Packet(port), v) = say(v) /\ out \o <<say(v)>> = <<say(v)>>
  BY <1>3 DEF Message, Packet
<1>12. Packet(port).kind = msg.kind
  BY DEF Packet
<1>13. ASSUME W!AnswerFirst(msg) \/ W!AnswerAdd(msg) \/ W!AnswerUpdate(msg) PROVE W!Answer
  <2>1. todo # {} /\ <<msg>> # <<>> /\ <<msg>>[1] = msg
    BY <1>1
  <2>2. QED
    BY <1>1, <1>13, <2>1 DEF W!Answer
<1>14. CASE ~elem.initialized
  <2>1. ~Temporary /\ elem.op_mode # "NORMAL" /\ window' = new /\ d.ring = new
    BY <1>1, <1>3, <1>10, <1>14 DEF Temporary
  <2>2. f.buffers.ring = new
    BY <1>5, <2>1
  <2>3. /\ elem' = [f EXCEPT !.initialized = TRUE]
        /\ out' = out \o (IF initialize_element(new) = <<>> THEN <<>>
                          ELSE <<Message(Packet(port), initialize_element(new)[1])>>)
    BY <1>7, <1>14, <2>2 DEF Initialising, OnInit, Result
  <2>4. elem' = [op_mode |-> elem.op_mode, buffers |-> d, cache |-> elem.cache,
                 initialized |-> TRUE]
    BY <1>5, <2>3
  <2>5. IInv'
    BY <1>1, <1>2, <1>3, <1>4, <1>10, <2>1, <2>4, DoneStep DEF new
  <2>6. out' = IF initialize_element(new) = <<>> THEN out
               ELSE <<say(initialize_element(new)[1])>>
    BY <1>3, <1>11, <2>3
  <2>7. W!AnswerFirst(msg)
    BY <1>8, <1>14, <2>1, <2>4, <2>6 DEF W!AnswerFirst, W!Say
  <2>8. QED
    BY <1>13, <2>5, <2>7
<1>15. ASSUME elem.initialized, elem'.initialized, out' = <<say(process_naive(new))>>
       PROVE  W!Answer
  <2>1. CASE msg.kind = "ADD"
    <3>1. window' = W!Prepend(window, msg.vals)
      BY <1>1, <1>8, <2>1
    <3>2. window' = new
      BY <1>8, <3>1
    <3>3. W!AnswerAdd(msg)
      BY <1>2, <1>15, <2>1, <3>1, <3>2 DEF W!AnswerAdd, W!Say
    <3>4. QED
      BY <1>13, <3>3
  <2>2. CASE msg.kind = "UPDATE"
    <3>1. W!AnswerUpdate(msg)
      BY <1>1, <1>2, <1>8, <1>15, <2>2 DEF W!AnswerUpdate, W!Say
    <3>2. QED
      BY <1>13, <3>1
  <2>3. QED
    BY <1>2, <1>3, <1>15, <2>1, <2>2
<1>16. ASSUME elem.initialized PROVE ~Initialising(elem, Packet(port))
  BY <1>3, <1>12, <1>16 DEF Initialising
<1>17. CASE elem.initialized /\ elem.op_mode = "NAIVE"
  <2>1. f.buffers.ring = new
    BY <1>5, <1>10, <1>17
  <2>2. elem' = f /\ out' = out \o <<Message(Packet(port), process_naive(new))>>
    BY <1>7, <1>16, <1>17, <2>1 DEF OnNaive, Result
  <2>3. elem' = [op_mode |-> "NAIVE", buffers |-> d, cache |-> elem.cache, initialized |-> TRUE]
    BY <1>2, <1>5, <1>17, <2>2
  <2>4. Restored(d) = window' /\ \A p \in Ports : d.ring[p] # <<>>
    BY <1>1, <1>8, <1>10, <1>17 DEF Temporary
  <2>5. IInv'
    BY <1>1, <1>2, <1>4, <1>17, <2>3, <2>4, DoneStep DEF new, OpModes
  <2>6. QED
    BY <1>11, <1>15, <1>17, <2>2, <2>3, <2>5
<1>18. CASE elem.initialized /\ elem.op_mode = "STARTUP"
  <2>1. f.buffers.ring = new
    BY <1>5, <1>10, <1>18
  <2>2. /\ elem' = IF msg.kind = "ADD" THEN [f EXCEPT !.cache = process_ext(new), !.op_mode = "NORMAL"]
                 ELSE f
        /\ out' = out \o <<Message(Packet(port), process_ext(new).value)>>
    BY <1>7, <1>12, <1>16, <1>18, <2>1 DEF OnStartup, Result
  <2>3. process_ext(new).value = process_naive(new)
    BY <1>3, <1>9, <1>18, IncrementalAssumption
  <2>4. elem'.initialized /\ IInv'
    <3>1. CASE msg.kind = "ADD"
      <4>1. elem' = [op_mode |-> "NORMAL", buffers |-> d, cache |-> process_ext(new),
                     initialized |-> TRUE]
        BY <1>2, <1>5, <1>18, <2>2, <3>1
      <4>2. d.state = "ACCUMULATED" /\ window' = new
        BY <1>1, <1>4, <3>1 DEF Temporary
      <4>3. process_ext(new) \in {NoCache} \cup {process_ext(w) : w \in Windows}
        BY <1>9, <1>18
      <4>4. \A p \in Ports : Len(window'[p]) >= 2
        BY <1>8, <1>18, <4>2
      <4>5. IInv'
        BY <1>1, <1>3, <1>4, <1>18, <4>1, <4>2, <4>3, <4>4, DoneStep DEF new, OpModes
      <4>6. QED
        BY <4>1, <4>5
    <3>2. CASE msg.kind # "ADD"
      <4>1. elem' = [op_mode |-> "STARTUP", buffers |-> d, cache |-> elem.cache,
                     initialized |-> TRUE]
        BY <1>2, <1>5, <1>18, <2>2, <3>2
      <4>2. Restored(d) = window' /\ \A p \in Ports : d.ring[p] # <<>>
        BY <1>1, <1>8, <1>10, <1>18 DEF Temporary
      <4>3. IInv'
        BY <1>1, <1>2, <1>3, <1>4, <1>18, <4>1, <4>2, DoneStep DEF new, OpModes
      <4>4. QED
        BY <4>1, <4>3
    <3>3. QED
      BY <3>1, <3>2
  <2>5. QED
    BY <1>11, <1>15, <1>18, <2>2, <2>3, <2>4
<1>19. CASE elem.initialized /\ elem.op_mode = "NORMAL"
  <2> DEFINE rest == [p \in Ports |-> Tail(d.ring[p])]
             popped == [d EXCEPT !.ring = rest]
             cache == process_opt_ext(msg.vals, elem.cache)
  <2>1. /\ d.ring \in [Ports -> Runs(Cap)]
        /\ msg.vals \in [Ports -> Values]
        /\ \A p \in Ports : d.ring[p] # <<>> /\ Head(d.ring[p]) = msg.vals[p]
    BY <1>4, <1>19, Types DEF BuffersSet
  <2>2. [p \in Ports |-> Head(d.ring[p])] = msg.vals
    BY <2>1
  <2>3. f.buffers = d /\ f.cache = elem.cache
    BY <1>5
  <2>4. /\ elem' = [f EXCEPT !.buffers.ring = rest,
                             !.cache = IF msg.kind = "ADD" THEN cache ELSE @]
        /\ out' = out \o <<Message(Packet(port), cache.value)>>
    BY <1>7, <1>12, <1>16, <1>19, <2>2, <2>3 DEF OnNormal, Result
  <2>5. popped \in BuffersSet /\ popped.tstamp = clock /\ popped.state = "ACCUMULATED"
    <3>1. ASSUME NEW p \in Ports PROVE Tail(d.ring[p]) \in Runs(Cap)
      <4>1. Zero \in Values /\ d.ring[p] \in Runs(Cap) /\ d.ring[p] # <<>>
        BY <2>1, FeedAssumption
      <4>2. QED
        BY <4>1, RestoredType
    <3>2. rest \in [Ports -> Runs(Cap)]
      BY <3>1
    <3>3. d.state = "ACCUMULATED"
      BY <1>4, <1>19 DEF Temporary
    <3> HIDE DEF rest
    <3>4. QED
      BY <1>4, <3>2, <3>3 DEF BuffersSet
  <2>6. elem' = [op_mode |-> "NORMAL", buffers |-> popped,
                 cache |-> IF msg.kind = "ADD" THEN cache ELSE elem.cache, initialized |-> TRUE]
    <3> HIDE DEF rest, cache
    <3>1. QED
      BY <1>2, <1>5, <1>19, <2>4 DEF popped
  <2>7. cache = process_ext(new)
    <3>1. window \in Windows
      BY <1>19, Types, WindowSet DEF IInv, InStep
    <3>2. elem.cache = process_ext(window)
      BY <1>19 DEF IInv, CacheExact
    <3>3. process_opt_ext(msg.vals, process_ext(window)) = process_ext(Prepend(window, msg.vals))
      BY <1>3, <1>19, <2>1, <3>1, IncrementalAssumption
    <3>4. QED
      BY <3>2, <3>3 DEF new
  <2>8. process_ext(new).value = process_naive(new)
    BY <1>3, <1>9, <1>19, IncrementalAssumption
  <2> HIDE DEF cache, popped
  <2>9. IInv'
    <3> DEFINE c == IF msg.kind = "ADD" THEN cache ELSE elem.cache
    <3>1. c = process_ext(window')
      BY <1>1, <1>2, <1>3, <1>19, <2>7 DEF IInv, CacheExact
    <3>2. c \in {NoCache} \cup {process_ext(w) : w \in Windows}
      BY <1>2, <1>9, <1>19, <2>7
    <3>3. \A p \in Ports : Len(window'[p]) >= 2
      BY <1>1, <1>8, <1>19 DEF IInv, InStep
    <3> HIDE DEF c
    <3>4. elem' = [op_mode |-> "NORMAL", buffers |-> popped, cache |-> c, initialized |-> TRUE]
      BY <2>6 DEF c
    <3>5. window' = Prepend(window, msg.vals) \/ (window' = window /\ elem.initialized)
      BY <1>1, <1>19 DEF new
    <3>6. "NORMAL" \in OpModes
      BY DEF OpModes
    <3>7. QED
      BY <1>1, <1>3, <1>19, <2>5, <3>1, <3>2, <3>3, <3>4, <3>5, <3>6, DoneStep
  <2>10. elem'.initialized
    BY <2>6
  <2>11. QED
    BY <1>11, <1>15, <1>19, <2>4, <2>7, <2>8, <2>9, <2>10
<1>20. QED
  BY <1>2, <1>14, <1>17, <1>18, <1>19 DEF OpModes

\* A message is started.
LEMMA EmitStep ==
  ASSUME IInv, NEW m \in Messages, Emit(m)
  PROVE  IInv' /\ W!Accept(m)
<1>1. /\ todo = {} /\ m.tstamp > clock /\ (m.kind = "INIT" => ~elem.initialized)
      /\ msg' = m /\ clock' = m.tstamp /\ todo' = Ports /\ out' = <<>>
      /\ elem' = elem /\ window' = window
  BY DEF Emit
<1>2. Ports # {} /\ todo' # {} /\ todo # Ports
  BY <1>1, FeedAssumption
<1>3. m.tstamp \in 1 .. MaxTime /\ MaxTime \in Nat /\ clock \in 0 .. MaxTime
  BY FeedAssumption DEF Messages, IInv, TypeOK
<1>4. TypeOK'
  BY <1>1, <1>3 DEF IInv, TypeOK
<1>5. RingsExact' /\ CacheExact'
  BY <1>1 DEF IInv, RingsExact, CacheExact
<1>6. InStep'
  <2>1. elem.buffers.tstamp = clock /\ elem.buffers.tstamp < clock'
    BY <1>1, <1>2, <1>3 DEF IInv, InStep
  <2>2. QED
    BY <1>1, <1>2, <2>1 DEF IInv, InStep
<1>7. W!Accept(m)
  BY <1>1, <1>2 DEF W!Accept
<1>8. QED
  BY <1>4, <1>5, <1>6, <1>7 DEF IInv

\* A new element has seen nothing.
LEMMA InitStep ==
  ASSUME Init
  PROVE  IInv /\ W!Init
<1>1. PICK mode \in StartModes : elem = NewElement(mode)
  BY DEF Init
<1>2. /\ msg = NoMessage /\ todo = {} /\ clock = 0 /\ out = <<>>
      /\ window = [p \in Ports |-> <<>>] /\ Ports # {} /\ mode \in {"NAIVE", "STARTUP"}
      /\ MaxTime \in Nat /\ Zero \in Values
  BY FeedAssumption DEF Init
<1>3. <<>> \in Runs(Cap)
  BY CapAssumption DEF Runs
<1>4. NewBuffers \in BuffersSet
  BY <1>2, <1>3 DEF NewBuffers, BuffersSet, BufferStates
<1>5. elem.op_mode = mode /\ elem.buffers = NewBuffers /\ elem.cache = NoCache
      /\ elem.initialized = FALSE
  BY <1>1 DEF NewElement
<1>6. TypeOK
  <2>1. elem \in Elements
    BY <1>1, <1>2, <1>4 DEF NewElement, Elements, BuffersSet, OpModes
  <2>2. QED
    BY <1>2, <1>3, <2>1 DEF TypeOK
<1>7. Restored(NewBuffers) = window /\ NewBuffers.tstamp = 0 /\ NewBuffers.state = "INITIAL"
  BY <1>2 DEF Restored, NewBuffers
<1>8. RingsExact /\ CacheExact
  BY <1>2, <1>5, <1>7 DEF RingsExact, CacheExact
<1>9. InStep
  BY <1>1, <1>2, <1>5, <1>7 DEF InStep
<1>10. W!Init
  BY <1>2, <1>5 DEF W!Init
<1>11. QED
  BY <1>6, <1>8, <1>9, <1>10 DEF IInv

\* Every step keeps the invariant and is a step of WindowIndicator or none.
LEMMA NextStep ==
  ASSUME IInv, [Next]_vars
  PROVE  IInv' /\ [W!Next]_(W!vars)
<1>1. CASE UNCHANGED vars
  <2>1. IInv'
    <3>1. TypeOK'
      BY <1>1 DEF vars, IInv, TypeOK
    <3>2. RingsExact'
      BY <1>1 DEF vars, IInv, RingsExact, Partial, Temporary, Full
    <3>3. CacheExact'
      BY <1>1 DEF vars, IInv, CacheExact, Partial, Temporary, Full
    <3>4. InStep'
      BY <1>1 DEF vars, IInv, InStep, Partial, Temporary, Full
    <3>5. QED
      BY <3>1, <3>2, <3>3, <3>4 DEF IInv
  <2>2. UNCHANGED W!vars
    BY <1>1 DEF vars, W!vars
  <2>3. QED
    BY <2>1, <2>2
<1>2. ASSUME NEW m \in Messages, Emit(m) PROVE IInv' /\ [W!Next]_(W!vars)
  <2>1. IInv' /\ W!Accept(m)
    BY <1>2, EmitStep
  <2>2. m \in W!Messages
    BY DEF Messages, W!Messages, Kinds
  <2>3. QED
    BY <2>1, <2>2 DEF W!Next
<1>3. ASSUME NEW port \in Ports, Push(port) PROVE IInv' /\ [W!Next]_(W!vars)
  <2>1. CASE todo = {port}
    BY <1>3, <2>1, AnswerStep DEF W!Next
  <2>2. CASE todo # {port}
    BY <1>3, <2>2, WaitStep
  <2>3. QED
    BY <2>1, <2>2
<1>4. QED
  BY <1>1, <1>2, <1>3 DEF Next

-----------------------------------------------------------------------------
(* Theorems *)

\* The inductive invariant holds of every behaviour of the element.
THEOREM Inductive == Spec => []IInv
<1>1. Init => IInv
  BY InitStep
<1>2. IInv /\ [Next]_vars => IInv'
  BY NextStep
<1>3. QED
  BY <1>1, <1>2, PTL DEF Spec

\* The rings never outgrow BUF_SIZE, the flags and states stay legal, and a
\* cache is always one that process_ext computes.
THEOREM TypeCorrect == Spec => []TypeOK
<1>1. IInv => TypeOK
  BY DEF IInv
<1>2. QED
  BY <1>1, Inductive, PTL

\* Between messages, taking out the temporary values of add_new_value_temp
\* gives exactly the values added for good.
THEOREM RingsAreExact == Spec => []RingsExact
<1>1. IInv => RingsExact
  BY DEF IInv
<1>2. QED
  BY <1>1, Inductive, PTL

\* In NORMAL mode the cache is the one process_ext would compute from the
\* values added for good: no UPDATE leaves a trace in it.
THEOREM CacheIsExact == Spec => []CacheExact
<1>1. IInv => CacheExact
  BY DEF IInv
<1>2. QED
  BY <1>1, Inductive, PTL

\* No port is ahead of another by more than the message being delivered, and
\* push sends nothing before the last port.
THEOREM PortsInStep == Spec => []InStep
<1>1. IInv => InStep
  BY DEF IInv
<1>2. QED
  BY <1>1, Inductive, PTL

\* An element in any of its modes implements WindowIndicator: every message is
\* answered once, with the indicator of the values added for good.
THEOREM ImplementsWindow == Spec => RefinesWindow
<1>1. Init => W!Init
  BY InitStep
<1>2. IInv /\ [Next]_vars => [W!Next]_(W!vars)
  BY NextStep
<1>3. QED
  BY <1>1, <1>2, Inductive, PTL DEF Spec, RefinesWindow, W!Spec
=============================================================================
