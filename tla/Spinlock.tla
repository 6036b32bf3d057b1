------------------------------ MODULE Spinlock ------------------------------
(***************************************************************************)
(* The recursive spinlock of Click (include/click/sync.hh), as it is       *)
(* compiled for several user-level threads.  A thread spins until its swap *)
(* finds _lock at 0, and only then writes _owner and _depth; _owner is     *)
(* read by others without the lock.  Stores become visible in the order of *)
(* the program, as on the x86 machines atomic_uint32_t is implemented for. *)
(*                                                                         *)
(* A thread releases only what it has acquired: "you must release it as    *)
(* many times as you have acquired it".                                    *)
(***************************************************************************)
EXTENDS Integers

CONSTANTS Threads,
          NoThread,  \* click_invalid_processor()
          MaxDepth   \* bound on nested calls of acquire

VARIABLES lock,   \* _lock
          owner,  \* _owner
          depth,  \* _depth
          at      \* at[t]: where thread t is in the code of the lock

vars == <<lock, owner, depth, at>>

Init ==
  /\ lock = 0
  /\ owner = NoThread
  /\ depth = 0
  /\ at = [t \in Threads |-> "outside"]

Goto(t, from, to) ==
  /\ at[t] = from
  /\ at' = [at EXCEPT ![t] = to]

\* acquire or attempt by the thread that has the lock already.
AcquireAgain(t) ==
  /\ at[t] = "outside"
  /\ owner = t
  /\ depth < MaxDepth
  /\ depth' = depth + 1
  /\ UNCHANGED <<lock, owner, at>>

\* acquire by another thread: it starts to spin.
Acquire(t) ==
  /\ owner # t
  /\ Goto(t, "outside", "spinning")
  /\ UNCHANGED <<lock, owner, depth>>

\* Mutant: the old value that the swap returns is ignored.
Swap_Blind(t) ==
  /\ Goto(t, "spinning", "swapped")
  /\ lock' = 1
  /\ UNCHANGED <<owner, depth>>

\* The swap that finds the lock free.  One that does not changes nothing.
Swap(t) ==
  /\ lock = 0
  /\ Goto(t, "spinning", "swapped")
  /\ lock' = 1
  /\ UNCHANGED <<owner, depth>>

\* attempt by another thread, when its one swap finds the lock free.
Attempt(t) ==
  /\ owner # t
  /\ lock = 0
  /\ Goto(t, "outside", "swapped")
  /\ lock' = 1
  /\ UNCHANGED <<owner, depth>>

\* The thread makes itself the owner and acquire or attempt returns.
Own(t) ==
  /\ Goto(t, "swapped", "outside")
  /\ owner' = t
  /\ depth' = depth + 1
  /\ UNCHANGED lock

\* release: the last one disowns the lock before it clears it.
Release(t) ==
  /\ at[t] = "outside"
  /\ owner = t
  /\ depth' = depth - 1
  /\ owner' = IF depth = 1 THEN NoThread ELSE t
  /\ at' = IF depth = 1 THEN [at EXCEPT ![t] = "clearing"] ELSE at
  /\ UNCHANGED lock

Clear(t) ==
  /\ Goto(t, "clearing", "outside")
  /\ lock' = 0
  /\ UNCHANGED <<owner, depth>>

Next ==
  \E t \in Threads :
    \/ AcquireAgain(t) \/ Acquire(t) \/ Attempt(t) \/ Swap(t)
    \/ Own(t) \/ Release(t) \/ Clear(t)

Spec == Init /\ [][Next]_vars

-----------------------------------------------------------------------------
(* Properties *)

TypeOK ==
  /\ lock \in {0, 1}
  /\ owner \in Threads \cup {NoThread}
  /\ depth \in Nat
  /\ at \in [Threads -> {"outside", "spinning", "swapped", "clearing"}]

\* The threads that are between a successful swap and the store that clears the
\* lock again.
Inside == {t \in Threads : owner = t \/ at[t] \in {"swapped", "clearing"}}

\* The lock excludes: at most one thread is between the swap of its acquire and
\* the clearing store of its last release, and nobody is while _lock is 0.
Exclusive ==
  /\ \A t, u \in Inside : t = u
  /\ lock = 0 <=> Inside = {}

\* The depth belongs to the owner: it counts the calls of acquire that are still
\* to be released, so that a thread that has released as often as it acquired
\* leaves a lock without owner and with depth 0 behind.
DepthOwned == depth > 0 <=> owner # NoThread
=============================================================================
