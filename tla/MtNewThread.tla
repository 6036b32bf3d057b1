---------------------------- MODULE MtNewThread ----------------------------
(***************************************************************************)
(* The element MtNewThread (elements/standard/mt_new_thread.cc), which     *)
(* moves packets to another thread: push, called by the threads upstream,  *)
(* puts a copy of its packet into a ring under a spinlock, and run_task,   *)
(* called again and again by the thread the element's task runs on, takes  *)
(* one out and pushes it on.  run_task looks at the ring's size without    *)
(* the lock.                                                               *)
(*                                                                         *)
(* The ring is the sequence of its elements (CircArray implements Deque)   *)
(* and its default for a push onto a full ring is to refuse.  A packet is  *)
(* <<t, n>>, the n-th one thread t pushes.  Allocations succeed.           *)
(***************************************************************************)
EXTENDS Integers, Sequences

CONSTANTS Producers,  \* the threads upstream
          Consumer,   \* the thread of the task
          NoThread,
          Capacity,   \* of the ring: 100 in the code
          MaxPackets  \* bound on the packets of each producer

ASSUME MtAssumption ==
  /\ Consumer \notin Producers
  /\ NoThread \notin Producers \cup {Consumer}
  /\ Capacity \in Nat \ {0}
  /\ MaxPackets \in Nat

VARIABLES lock, owner, depth, at,  \* the spinlock
          active,    \* _active
          buffer,    \* _buffer
          pc,        \* where each thread is in push or run_task
          pushed,    \* the number of packets each producer has pushed
          hand,      \* the packet run_task has popped, if any
          sent,      \* the packets pushed to output 0
          accepted,  \* the packets that entered the ring (history)
          live       \* the packet objects that exist: originals and copies

Threads == Producers \cup {Consumer}

lockVars == <<lock, owner, depth, at>>
ownVars == <<active, buffer, pc, pushed, hand, sent, accepted, live>>
vars == <<lockVars, ownVars>>

S == INSTANCE Spinlock WITH MaxDepth <- 1

Init ==
  /\ S!Init
  /\ active \in BOOLEAN
  /\ buffer = <<>>
  /\ pc = [t \in Threads |-> "idle"]
  /\ pushed = [t \in Producers |-> 0]
  /\ hand = <<>>
  /\ sent = <<>>
  /\ accepted = <<>>
  /\ live = {}

Step(t, from, to) ==
  /\ pc[t] = from
  /\ pc' = [pc EXCEPT ![t] = to]

\* The two calls on the lock; Swap and Own follow the first, Clear the second.
Spin(t) ==
  /\ S!Swap(t)
  /\ UNCHANGED ownVars

Locked(t) ==
  /\ Step(t, "locking", "locked")
  /\ S!Own(t)
  /\ UNCHANGED <<active, buffer, pushed, hand, sent, accepted, live>>

Unlock(t, from) ==
  /\ Step(t, from, "unlocking")
  /\ S!Release(t)
  /\ UNCHANGED <<active, buffer, pushed, hand, sent, accepted, live>>

-----------------------------------------------------------------------------
(* push *)

Packet(t) == <<t, pushed[t]>>

\* Upstream makes a packet and calls push, which copies it and asks for the lock.
\* The original is not used again.
Push(t) ==
  /\ pushed[t] < MaxPackets
  /\ Step(t, "idle", "locking")
  /\ S!Acquire(t)
  /\ pushed' = [pushed EXCEPT ![t] = @ + 1]
  /\ live' = live \cup {<<"original", <<t, pushed[t] + 1>>>>, <<"copy", <<t, pushed[t] + 1>>>>}
  /\ UNCHANGED <<active, buffer, hand, sent, accepted>>

\* Mutant: the oldest packet makes room for the new one.
PushBack_Overwrite(t) ==
  /\ Step(t, "locked", "stored")
  /\ buffer' = Append(IF Len(buffer) = Capacity THEN Tail(buffer) ELSE buffer, Packet(t))
  /\ accepted' = Append(accepted, Packet(t))
  /\ UNCHANGED <<lockVars, active, pushed, hand, sent, live>>

\* Mutant: push returns at a full ring without releasing the lock.
PushBack_Returns(t) ==
  /\ Step(t, "locked", IF Len(buffer) = Capacity THEN "idle" ELSE "stored")
  /\ IF Len(buffer) = Capacity
     THEN UNCHANGED <<buffer, accepted>>
     ELSE /\ buffer' = Append(buffer, Packet(t))
          /\ accepted' = Append(accepted, Packet(t))
  /\ UNCHANGED <<lockVars, active, pushed, hand, sent, live>>

\* push_back: a packet for which there is no room is neither stored nor killed.
PushBack(t) ==
  /\ Step(t, "locked", "stored")
  /\ IF Len(buffer) = Capacity
     THEN UNCHANGED <<buffer, accepted>>
     ELSE /\ buffer' = Append(buffer, Packet(t))
          /\ accepted' = Append(accepted, Packet(t))
  /\ UNCHANGED <<lockVars, active, pushed, hand, sent, live>>

Pushed(t) ==
  /\ Step(t, "unlocking", "idle")
  /\ S!Clear(t)
  /\ UNCHANGED <<active, buffer, pushed, hand, sent, accepted, live>>

-----------------------------------------------------------------------------
(* run_task *)

\* Mutant: the ring is not looked at first.
RunTask_Unchecked ==
  /\ active
  /\ Step(Consumer, "idle", "locking")
  /\ S!Acquire(Consumer)
  /\ UNCHANGED <<active, buffer, pushed, hand, sent, accepted, live>>

\* An inactive element's task is never scheduled; an empty ring reschedules it.
RunTask ==
  /\ active
  /\ buffer # <<>>
  /\ Step(Consumer, "idle", "locking")
  /\ S!Acquire(Consumer)
  /\ UNCHANGED <<active, buffer, pushed, hand, sent, accepted, live>>

\* The popping form of pop_front asserts that the ring is not empty.
PopFront ==
  /\ Step(Consumer, "locked", "popped")
  /\ buffer # <<>>
  /\ hand' = <<Head(buffer)>>
  /\ buffer' = Tail(buffer)
  /\ UNCHANGED <<lockVars, active, pushed, sent, accepted, live>>

Popped ==
  /\ Step(Consumer, "unlocking", "pushing")
  /\ S!Clear(Consumer)
  /\ UNCHANGED <<active, buffer, pushed, hand, sent, accepted, live>>

\* The packet goes to the elements downstream, which account for it.
Output ==
  /\ Step(Consumer, "pushing", "idle")
  /\ sent' = sent \o hand
  /\ hand' = <<>>
  /\ live' = live \ {<<"copy", hand[1]>>}
  /\ UNCHANGED <<lockVars, active, buffer, pushed, accepted>>

ProducerStep(t) ==
  \/ pc[t] = "locking" /\ Spin(t)
  \/ Locked(t)
  \/ PushBack(t)
  \/ Unlock(t, "stored")
  \/ Pushed(t)

ConsumerStep ==
  \/ RunTask
  \/ pc[Consumer] = "locking" /\ Spin(Consumer)
  \/ Locked(Consumer)
  \/ PopFront
  \/ Unlock(Consumer, "popped")
  \/ Popped
  \/ Output

Next == (\E t \in Producers : Push(t) \/ ProducerStep(t)) \/ ConsumerStep

\* The threads run: a push that has begun goes on, and so does the task.
Spec ==
  /\ Init
  /\ [][Next]_vars
  /\ \A t \in Producers : WF_vars(ProducerStep(t))
  /\ WF_vars(ConsumerStep)

-----------------------------------------------------------------------------
(* Properties *)

Packets == Producers \X (1 .. MaxPackets)

TypeOK ==
  /\ S!TypeOK
  /\ active \in BOOLEAN
  /\ buffer \in Seq(Packets) /\ Len(buffer) <= Capacity
  /\ pc \in [Threads -> {"idle", "locking", "locked", "stored", "popped", "unlocking", "pushing"}]
  /\ pushed \in [Producers -> 0 .. MaxPackets]
  /\ hand \in {<<>>} \cup {<<p>> : p \in Packets}
  /\ sent \in Seq(Packets)
  /\ accepted \in Seq(Packets)
  /\ live \subseteq {"original", "copy"} \X Packets

\* Only one thread at a time is between the two calls on the lock, in push or in
\* run_task.
OneInRing ==
  \A t, u \in Threads : pc[t] \in {"locked", "stored", "popped"}
                          /\ pc[u] \in {"locked", "stored", "popped"} => t = u

\* The size that run_task read without the lock still means what it meant when it
\* has the lock: there is something to pop, so that pop_front's assertion holds.
NeverPopsEmpty == pc[Consumer] \in {"locking", "locked"} => buffer # <<>>

\* Every packet that found room leaves exactly once and in the order in which
\* the packets entered the ring: what was sent, what run_task holds and what is
\* in the ring are together what was accepted.
NothingLost == accepted = sent \o hand \o buffer

\* Of an active element: the ring is drained, once the pushes pause (their
\* number is bounded), whatever the threads did in the meantime.
Drains == []<>(active => buffer = <<>> /\ hand = <<>>)

\* What Element::push asks of every element: the packet is pushed on, freed or
\* stored.  When push has returned, a packet object that still exists is in the
\* ring or in the hands of run_task.
Accounted ==
  (\A t \in Producers : pc[t] = "idle") =>
    \A p \in Packets : /\ <<"original", p>> \notin live
                       /\ <<"copy", p>> \in live => \E i \in DOMAIN (hand \o buffer) : (hand \o buffer)[i] = p
=============================================================================
