--------------------------- MODULE SpinlockProofs ---------------------------
(***************************************************************************)
(* The spinlock of sync.hh excludes and counts its depth, for every number *)
(* of threads and every depth of nesting.                                  *)
(***************************************************************************)
EXTENDS Spinlock, TLAPS

\* The strengthening: the owner is in no routine of the lock, so that the owner
\* and a thread between its swap and its clearing store are never the same.
LockInv ==
  /\ TypeOK
  /\ Exclusive
  /\ DepthOwned
  /\ \A t \in Threads : owner = t => at[t] = "outside"

\* The constructor of Spinlock leaves a lock that is free, without owner and with
\* depth 0.
LEMMA LockInit ==
  ASSUME NoThread \notin Threads
  PROVE  Init => LockInv
<1> SUFFICES ASSUME Init PROVE LockInv
  OBVIOUS
<1>1. TypeOK
  BY DEF Init, TypeOK
<1>2. Inside = {}
  BY DEF Init, Inside
<1>3. Exclusive /\ DepthOwned
  BY <1>2 DEF Init, Exclusive, DepthOwned
<1> QED
  BY <1>1, <1>3 DEF Init, LockInv

\* Every step of acquire, attempt and release keeps the invariant.
LEMMA LockStep ==
  ASSUME NoThread \notin Threads, LockInv, [Next]_vars
  PROVE  LockInv'
<1> USE DEF LockInv, TypeOK, Exclusive, DepthOwned
<1>1. ASSUME NEW t \in Threads, AcquireAgain(t)
      PROVE  LockInv'
  <2>1. Inside' = Inside
    BY <1>1 DEF AcquireAgain, Inside
  <2>2. depth > 0 /\ depth' > 0 /\ depth' \in Nat
    BY <1>1 DEF AcquireAgain
  <2> QED
    BY <1>1, <2>1, <2>2 DEF AcquireAgain
<1>2. ASSUME NEW t \in Threads, Acquire(t)
      PROVE  LockInv'
  <2>1. at' \in [Threads -> {"outside", "spinning", "swapped", "clearing"}]
    BY <1>2 DEF Acquire, Goto
  <2>2. Inside' = Inside
    BY <1>2 DEF Acquire, Goto, Inside
  <2> QED
    BY <1>2, <2>1, <2>2 DEF Acquire, Goto
<1>3. ASSUME NEW t \in Threads, lock = 0, lock' = 1, at[t] \in {"outside", "spinning"},
             at' = [at EXCEPT ![t] = "swapped"], UNCHANGED <<owner, depth>>
      PROVE  LockInv'
  <2>1. Inside = {}
    BY <1>3
  <2>2. Inside' = {t} /\ \A u \in Threads : owner # u
    BY <1>3, <2>1 DEF Inside
  <2> QED
    BY <1>3, <2>2
<1>4. ASSUME NEW t \in Threads, Own(t)
      PROVE  LockInv'
  <2>1. Inside = {t} /\ lock = 1
    BY <1>4 DEF Own, Goto, Inside
  <2>2. owner = NoThread /\ depth = 0
    BY <1>4, <2>1 DEF Own, Goto, Inside
  <2>3. at' \in [Threads -> {"outside", "spinning", "swapped", "clearing"}]
    BY <1>4 DEF Own, Goto
  <2>4. Inside' = {t}
    BY <1>4, <2>1 DEF Own, Goto, Inside
  <2> QED
    BY <1>4, <2>1, <2>2, <2>3, <2>4 DEF Own, Goto
<1>5. ASSUME NEW t \in Threads, Release(t)
      PROVE  LockInv'
  <2>1. Inside = {t} /\ depth > 0
    BY <1>5 DEF Release, Inside
  <2>2. at' \in [Threads -> {"outside", "spinning", "swapped", "clearing"}]
    BY <1>5 DEF Release
  <2>3. Inside' = {t}
    BY <1>5, <2>1 DEF Release, Inside
  <2>4. CASE depth = 1
    BY <1>5, <2>1, <2>2, <2>3, <2>4 DEF Release
  <2>5. CASE depth # 1
    BY <1>5, <2>1, <2>2, <2>3, <2>5 DEF Release
  <2> QED
    BY <2>4, <2>5
<1>6. ASSUME NEW t \in Threads, Clear(t)
      PROVE  LockInv'
  <2>1. Inside = {t} /\ owner # t
    BY <1>6 DEF Clear, Goto, Inside
  <2>2. Inside' = {}
    BY <1>6, <2>1 DEF Clear, Goto, Inside
  <2> QED
    BY <1>6, <2>2 DEF Clear, Goto
<1>7. CASE UNCHANGED vars
  <2>1. Inside' = Inside
    BY <1>7 DEF vars, Inside
  <2> QED
    BY <1>7, <2>1 DEF vars
<1> QED
  BY <1>1, <1>2, <1>3, <1>4, <1>5, <1>6, <1>7 DEF Next, Swap, Attempt, Goto

\* The lock excludes (see Exclusive): no two threads are between the swap of their
\* acquire or attempt and the clearing store of their last release.
THEOREM LockExcludes ==
  ASSUME NoThread \notin Threads
  PROVE  Spec => []Exclusive
<1>1. Init => LockInv
  BY LockInit
<1>2. LockInv /\ [Next]_vars => LockInv'
  BY LockStep
<1>3. LockInv => Exclusive
  BY DEF LockInv
<1> QED
  BY <1>1, <1>2, <1>3, PTL DEF Spec

\* The depth is that of the owner (see DepthOwned): it is positive exactly while
\* the lock has one.
THEOREM LockDepthOwned ==
  ASSUME NoThread \notin Threads
  PROVE  Spec => []DepthOwned
<1>1. Init => LockInv
  BY LockInit
<1>2. LockInv /\ [Next]_vars => LockInv'
  BY LockStep
<1>3. LockInv => DepthOwned
  BY DEF LockInv
<1> QED
  BY <1>1, <1>2, <1>3, PTL DEF Spec
=============================================================================
