------------------------- MODULE MtNewThreadProofs -------------------------
(***************************************************************************)
(* MtNewThread hands on every packet that found room, once and in order,   *)
(* and never pops an empty ring, for every number of threads upstream,     *)
(* every capacity and every number of packets.                             *)
(***************************************************************************)
EXTENDS MtNewThread, SequenceTheorems, TLAPS

\* The spinlock of the element, with what is proved about it.
L == INSTANCE SpinlockProofs WITH MaxDepth <- 1

-----------------------------------------------------------------------------
(* The inductive invariant *)

Counts ==
  /\ active \in BOOLEAN
  /\ pc \in [Threads -> {"idle", "locking", "locked", "stored", "popped", "unlocking", "pushing"}]
  /\ pushed \in [Producers -> 0 .. MaxPackets]
  /\ live \subseteq {"original", "copy"} \X Packets

Rings ==
  /\ buffer \in Seq(Packets) /\ Len(buffer) <= Capacity
  /\ hand \in {<<>>} \cup {<<p>> : p \in Packets}
  /\ sent \in Seq(Packets)
  /\ accepted \in Seq(Packets)

\* Where a thread is in push or run_task tells where it is in the lock's code.
InLock ==
  /\ depth <= 1
  /\ \A t \in Threads :
       /\ pc[t] \in {"idle", "pushing"} => at[t] = "outside" /\ owner # t
       /\ pc[t] = "locking" => at[t] \in {"spinning", "swapped"}
       /\ pc[t] \in {"locked", "stored", "popped"} => owner = t
       /\ pc[t] = "unlocking" => at[t] = "clearing"

\* push and run_task are run by different threads; a push has a packet, and
\* run_task has one in hand from pop_front to its output.
Roles ==
  /\ \A t \in Producers : /\ pc[t] \notin {"popped", "pushing"}
                          /\ pc[t] # "idle" => pushed[t] >= 1
  /\ pc[Consumer] # "stored"
  /\ hand # <<>> <=> pc[Consumer] \in {"popped", "unlocking", "pushing"}

MtInv ==
  /\ L!LockInv /\ Counts /\ Rings /\ InLock /\ Roles
  /\ NeverPopsEmpty /\ NothingLost

-----------------------------------------------------------------------------

\* The thread that owns no lock is none of the element's threads.
LEMMA NoThreadApart == NoThread \notin Threads
BY MtAssumption DEF Threads

\* To the lock, every step of the element is one of its own steps or none.
LEMMA LockMoves ==
  ASSUME [Next]_vars
  PROVE  [L!Next]_(L!vars)
<1>1. ASSUME NEW t \in Threads,
             S!Swap(t) \/ S!Own(t) \/ S!Release(t) \/ S!Clear(t) \/ S!Acquire(t)
      PROVE  L!Next
  BY <1>1 DEF L!Next, L!Swap, L!Own, L!Release, L!Clear, L!Acquire, L!Goto,
              S!Swap, S!Own, S!Release, S!Clear, S!Acquire, S!Goto
<1>2. ASSUME UNCHANGED lockVars
      PROVE  UNCHANGED L!vars
  BY <1>2 DEF L!vars, lockVars
<1> QED
  BY <1>1, <1>2 DEF Next, ProducerStep, ConsumerStep, Push, Spin, Locked, Unlock, PushBack,
     Pushed, RunTask, PopFront, Popped, Output, vars, lockVars, Threads

\* So the lock of the element excludes.
LEMMA LockKept ==
  ASSUME L!LockInv, [Next]_vars
  PROVE  L!LockInv'
BY L!LockStep, LockMoves, NoThreadApart

\* configure and initialize leave an empty ring and a free lock.
LEMMA MtStart == Init => MtInv
<1> SUFFICES ASSUME Init PROVE MtInv
  OBVIOUS
<1>1. L!LockInv
  BY L!LockInit, NoThreadApart DEF Init, S!Init, L!Init
<1>2. Counts /\ Rings /\ InLock /\ Roles
  BY MtAssumption, NoThreadApart DEF Init, S!Init, Counts, Rings, InLock, Roles, Threads
<1>3. NeverPopsEmpty
  BY DEF Init, NeverPopsEmpty, Threads
<1>4. NothingLost
  BY DEF Init, NothingLost
<1> QED
  BY <1>1, <1>2, <1>3, <1>4 DEF MtInv

\* A packet and its copy are packet objects.
LEMMA TwoMore ==
  \A l \in SUBSET ({"original", "copy"} \X Packets) : \A p \in Packets :
    l \cup {<<"original", p>>, <<"copy", p>>} \subseteq {"original", "copy"} \X Packets
OBVIOUS

\* A packet that enters the ring comes last of all.
LEMMA EntersLast ==
  \A a, b \in Seq(Packets) : \A p \in Packets : Append(a \o b, p) = a \o Append(b, p)
<1> TAKE a, b \in Seq(Packets)
<1> TAKE p \in Packets
<1>1. a \o b \in Seq(Packets) /\ <<p>> \in Seq(Packets)
  BY ConcatProperties
<1>2. Append(a \o b, p) = (a \o b) \o <<p>> /\ Append(b, p) = b \o <<p>>
  BY <1>1, AppendIsConcat
<1> QED
  BY <1>1, <1>2, ConcatAssociative

\* Every step of push and of run_task keeps the invariant.
LEMMA MtStep ==
  ASSUME MtInv, [Next]_vars
  PROVE  MtInv'
<1> USE MtAssumption
    DEF MtInv, Counts, Rings, InLock, Roles, NeverPopsEmpty, NothingLost, Threads, lockVars,
        ownVars, L!LockInv, L!TypeOK, L!Exclusive, L!Inside, L!DepthOwned
<1>a. L!LockInv'
  BY LockKept
<1>1. ASSUME NEW t \in Producers, Push(t)
      PROVE  MtInv'
  <2>1. Counts'
    <3>1. pushed[t] + 1 \in 1 .. MaxPackets
      BY <1>1 DEF Push
    <3>2. <<t, pushed[t] + 1>> \in Packets
      BY ONLY <1>1, <3>1 DEF Packets
    <3>3. live \cup {<<"original", <<t, pushed[t] + 1>>>>, <<"copy", <<t, pushed[t] + 1>>>>}
            \subseteq {"original", "copy"} \X Packets
      <4>1. live \in SUBSET ({"original", "copy"} \X Packets)
        OBVIOUS
      <4> QED
        BY ONLY <3>2, <4>1, TwoMore, Zenon
    <3>4. pushed' \in [Producers -> 0 .. MaxPackets]
      BY <1>1, <3>1 DEF Push
    <3> QED
      BY <1>1, <3>3, <3>4 DEF Push, Step
  <2>2. Rings'
    BY <1>1 DEF Push, Step, S!Acquire, S!Goto, Packets
  <2>3. InLock'
    BY <1>1 DEF Push, Step, S!Acquire, S!Goto, Packets
  <2>4. Roles'
    BY <1>1 DEF Push, Step, S!Acquire, S!Goto, Packets
  <2>5. NeverPopsEmpty'
    BY <1>1 DEF Push, Step, S!Acquire, S!Goto, Packets
  <2>6. NothingLost'
    BY <1>1 DEF Push, Step, S!Acquire, S!Goto, Packets
  <2> QED
    BY <1>a, <2>1, <2>2, <2>3, <2>4, <2>5, <2>6 DEF MtInv
<1>2. ASSUME NEW t \in Threads, pc[t] = "locking" /\ Spin(t)
      PROVE  MtInv'
  BY <1>a, <1>2 DEF Spin, S!Swap, S!Goto
<1>3. ASSUME NEW t \in Threads, Locked(t)
      PROVE  MtInv'
  BY <1>a, <1>3 DEF Locked, Step, S!Own, S!Goto
<1>4. ASSUME NEW t \in Producers, PushBack(t)
      PROVE  MtInv'
  <2>1. Counts'
    BY <1>4 DEF PushBack, Step, Packet, Packets
  <2>2. Rings'
    <3>1. Packet(t) \in Packets
      BY <1>4 DEF PushBack, Step, Packet, Packets
    <3>2. Len(buffer) # Capacity =>
            Append(buffer, Packet(t)) \in Seq(Packets) /\ Len(Append(buffer, Packet(t))) <= Capacity
      BY <3>1, AppendProperties
    <3>3. Append(accepted, Packet(t)) \in Seq(Packets)
      BY <3>1, AppendProperties
    <3> QED
      BY <1>4, <3>2, <3>3 DEF PushBack
  <2>3. InLock'
    BY <1>4 DEF PushBack, Step, Packet, Packets
  <2>4. Roles'
    BY <1>4 DEF PushBack, Step, Packet, Packets
  <2>5. NeverPopsEmpty'
    BY <1>4 DEF PushBack, Step, Packet, Packets
  <2>6. NothingLost'
    <3>1. Packet(t) \in Packets
      BY <1>4 DEF PushBack, Step, Packet, Packets
    <3>2. sent \o hand \in Seq(Packets) /\ buffer \in Seq(Packets)
      BY ConcatProperties
    <3>3. Append((sent \o hand) \o buffer, Packet(t)) = (sent \o hand) \o Append(buffer, Packet(t))
      BY ONLY <3>1, <3>2, EntersLast, Zenon
    <3> QED
      BY <1>4, <3>3 DEF PushBack
  <2> QED
    BY <1>a, <2>1, <2>2, <2>3, <2>4, <2>5, <2>6 DEF MtInv
<1>5. ASSUME NEW t \in Producers, Unlock(t, "stored")
      PROVE  MtInv'
  BY <1>a, <1>5 DEF Unlock, Step, S!Release
<1>6. ASSUME NEW t \in Producers, Pushed(t)
      PROVE  MtInv'
  BY <1>a, <1>6 DEF Pushed, Step, S!Clear, S!Goto
<1>7. ASSUME RunTask
      PROVE  MtInv'
  BY <1>a, <1>7 DEF RunTask, Step, S!Acquire, S!Goto
<1>8. ASSUME PopFront
      PROVE  MtInv'
  <2>1. Counts'
    BY <1>8 DEF PopFront, Step
  <2>2. Rings'
    BY <1>8 DEF PopFront, Step
  <2>3. InLock'
    BY <1>8 DEF PopFront, Step
  <2>4. Roles'
    BY <1>8 DEF PopFront, Step
  <2>5. NeverPopsEmpty'
    BY <1>8 DEF PopFront, Step
  <2>6. NothingLost'
    BY <1>8 DEF PopFront, Step
  <2> QED
    BY <1>a, <2>1, <2>2, <2>3, <2>4, <2>5, <2>6 DEF MtInv
<1>9. ASSUME Unlock(Consumer, "popped")
      PROVE  MtInv'
  BY <1>a, <1>9 DEF Unlock, Step, S!Release
<1>10. ASSUME Popped
      PROVE  MtInv'
  BY <1>a, <1>10 DEF Popped, Step, S!Clear, S!Goto
<1>11. ASSUME Output
      PROVE  MtInv'
  <2>1. Counts'
    BY <1>11 DEF Output, Step
  <2>2. Rings'
    BY <1>11 DEF Output, Step
  <2>3. InLock'
    BY <1>11 DEF Output, Step
  <2>4. Roles'
    BY <1>11 DEF Output, Step
  <2>5. NeverPopsEmpty'
    BY <1>11 DEF Output, Step
  <2>6. NothingLost'
    BY <1>11 DEF Output, Step
  <2> QED
    BY <1>a, <2>1, <2>2, <2>3, <2>4, <2>5, <2>6 DEF MtInv
<1>12. ASSUME UNCHANGED vars
      PROVE  MtInv'
  BY <1>a, <1>12 DEF vars
<1> QED
  BY <1>1, <1>2, <1>3, <1>4, <1>5, <1>6, <1>7, <1>8, <1>9, <1>10, <1>11, <1>12 DEF Next, ProducerStep, ConsumerStep, Threads

\* The state has its types; in particular the ring never outgrows its capacity.
THEOREM MtTypeOK == Spec => []TypeOK
<1>1. Init => MtInv
  BY MtStart
<1>2. MtInv /\ [Next]_vars => MtInv'
  BY MtStep
<1>3. MtInv => TypeOK
  BY DEF MtInv, TypeOK, Counts, Rings, L!LockInv, L!TypeOK, S!TypeOK
<1> QED
  BY <1>1, <1>2, <1>3, PTL DEF Spec

\* One thread at a time works on the ring (see OneInRing), because each of them has the
\* lock.
THEOREM MtOneInRing == Spec => []OneInRing
<1>1. Init => MtInv
  BY MtStart
<1>2. MtInv /\ [Next]_vars => MtInv'
  BY MtStep
<1>3. MtInv => OneInRing
  BY DEF MtInv, OneInRing, InLock
<1> QED
  BY <1>1, <1>2, <1>3, PTL DEF Spec

\* The unlocked look at the ring's size in run_task is safe (see NeverPopsEmpty).
THEOREM MtNeverPopsEmpty == Spec => []NeverPopsEmpty
<1>1. Init => MtInv
  BY MtStart
<1>2. MtInv /\ [Next]_vars => MtInv'
  BY MtStep
<1>3. MtInv => NeverPopsEmpty
  BY DEF MtInv
<1> QED
  BY <1>1, <1>2, <1>3, PTL DEF Spec

\* Every packet that found room is handed on once and in order (see NothingLost).
THEOREM MtNothingLost == Spec => []NothingLost
<1>1. Init => MtInv
  BY MtStart
<1>2. MtInv /\ [Next]_vars => MtInv'
  BY MtStep
<1>3. MtInv => NothingLost
  BY DEF MtInv
<1> QED
  BY <1>1, <1>2, <1>3, PTL DEF Spec
=============================================================================
