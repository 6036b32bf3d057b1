---------------------------- MODULE StatPrinter ----------------------------
(***************************************************************************)
(* The elements StatPrinter (elements/standard/stat_printer.cc) of a       *)
(* router, one behind each indicator, and their RunningStat.  A printer    *)
(* measures how long an UPDATE took; in combined mode the printers put     *)
(* their measurements into arrays that all of them share, and the          *)
(* destructor of the first one joins them by position.                     *)
(*                                                                         *)
(* The UPDATEs of all branches stem from the same trades, and branch by    *)
(* branch they arrive in order; a branch behind an MtNewThread can lose    *)
(* some.  Update n starts at time n.  Stamps are words of the machine.     *)
(* The elements are destroyed after the threads have stopped.              *)
(***************************************************************************)
EXTENDS Integers, Sequences, FiniteSetsExt

CONSTANTS MaxPrinters,  \* bound on the number of printers
          MaxLatency,   \* bound on the time an UPDATE takes
          MaxUpdates,   \* bound on the UPDATEs
          MaxAllValues, \* MAX_ALL_VALUES: 5000 in the code
          Word,         \* 2^64 in the code
          Unknown       \* statistics that depend on values never written

VARIABLES printers, combined, longest,  \* the configuration
          next,      \* the next UPDATE of each branch
          values,    \* the used part of each printer's array
          stats,     \* the RunningStat of each printer
          trouble,   \* whether "the msgs are not aligned" was reported
          destroyed, \* the printers that are gone
          latency    \* latency[j][n]: how long UPDATE n took, or 0 (history)

config == <<printers, combined, longest>>
vars == <<config, next, values, stats, trouble, destroyed, latency>>

All == 0 .. printers - 1

NewStats == [N |-> 0, highest |-> 0, lowest |-> 0, s1 |-> 0, s2 |-> 0]

Init ==
  /\ printers \in 1 .. MaxPrinters
  /\ combined \in BOOLEAN
  /\ longest \in BOOLEAN
  /\ next = [j \in All |-> 1]
  /\ values = [j \in All |-> <<>>]
  /\ stats = [j \in All |-> NewStats]
  /\ trouble = FALSE
  /\ destroyed = {}
  /\ latency = [j \in All |-> [n \in 1 .. MaxUpdates |-> 0]]

\* RunningStat::update_counter.
update_counter(st, v) ==
  [N |-> st.N + 1,
   highest |-> IF v > st.highest THEN v ELSE st.highest,
   lowest |-> IF st.lowest = 0 \/ v < st.lowest THEN v ELSE st.lowest,
   s1 |-> (st.s1 + v) % Word, s2 |-> (st.s2 + v * v) % Word]

Room(j) == Len(values[j]) < MaxAllValues - 1

\* update_running_stat_new.  Only measurements that are to be joined are stored
\* with their stamps.
Update(j, time) ==
  LET n == next[j] IN
  /\ destroyed = {}
  /\ n <= MaxUpdates
  /\ next' = [next EXCEPT ![j] = n + 1]
  /\ latency' = [latency EXCEPT ![j][n] = time]
  /\ IF combined /\ printers > 1
     THEN /\ values' = IF Room(j) THEN [values EXCEPT ![j] = Append(@, <<n, n + time>>)]
                       ELSE values
          /\ UNCHANGED stats
     ELSE /\ stats' = [stats EXCEPT ![j] = update_counter(@, time)]
          /\ values' = IF Room(j) THEN [values EXCEPT ![j] = Append(@, <<>>)] ELSE values
  /\ UNCHANGED <<config, trouble, destroyed>>

\* The branch of printer j loses an UPDATE (MtNewThread::push at a full ring).
Lose(j) ==
  /\ printers > 1
  /\ destroyed = {}
  /\ next[j] <= MaxUpdates
  /\ next' = [next EXCEPT ![j] = @ + 1]
  /\ UNCHANGED <<config, values, stats, trouble, destroyed, latency>>

-----------------------------------------------------------------------------
(* The destructor *)

Positions == 1 .. Len(values[0])

\* The stamps at position i of the array of printer j were written; what the
\* others hold is arbitrary.
Written(j, i) == i <= Len(values[j]) /\ values[j][i] # <<>>

AllWritten == \A j \in All, i \in Positions : Written(j, i)

\* The measurements at position i as one: the longest, or the average.
Joined(i) ==
  LET start == values[0][i][1]
  IN  IF longest
      THEN (Max({values[j][i][2] : j \in All}) - start) % Word
      ELSE (SumFunction([j \in All |-> values[j][i][2] - start]) % Word) \div printers

\* Mutant: only the first position is compared.
Misaligned_First ==
  Positions # {} /\ \E j \in All : Written(j, 1) /\ values[j][1][1] # values[0][1][1]

Misaligned ==
  \E j \in All, i \in Positions : Written(j, i) /\ values[j][i][1] # values[0][i][1]

JoinedStats ==
  LET st[i \in 0 .. Len(values[0])] ==
        IF i = 0 THEN stats[0] ELSE update_counter(st[i - 1], Joined(i))
  IN  st[Len(values[0])]

Destroy(j) ==
  /\ j \notin destroyed
  /\ destroyed' = destroyed \cup {j}
  /\ IF combined /\ j = 0
     THEN /\ stats' = [stats EXCEPT ![0] = IF AllWritten THEN JoinedStats ELSE Unknown]
          /\ trouble' \in IF printers > 1 /\ Misaligned THEN {TRUE}
                         ELSE IF printers > 1 /\ ~AllWritten THEN BOOLEAN ELSE {FALSE}
     ELSE UNCHANGED <<stats, trouble>>
  /\ UNCHANGED <<config, next, values, latency>>

Next ==
  \E j \in All :
    (\E time \in 1 .. MaxLatency : Update(j, time)) \/ Lose(j) \/ Destroy(j)

Spec == Init /\ [][Next]_vars

-----------------------------------------------------------------------------
(* Properties *)

Measured(j) == {n \in 1 .. MaxUpdates : latency[j][n] > 0}

\* The first MaxAllValues - 1 UPDATEs that reached printer j.
Kept(j) ==
  {n \in Measured(j) : Cardinality({m \in Measured(j) : m < n}) < MaxAllValues - 1}

\* The statistics st are those of the times f[n], n \in S.
Summarises(st, f, S) ==
  /\ st.N = Cardinality(S)
  /\ st.s1 = SumFunction([n \in S |-> f[n]]) % Word
  /\ st.s2 = SumFunction([n \in S |-> f[n] * f[n]]) % Word
  /\ S # {} => /\ st.highest = Max({f[n] : n \in S})
              /\ st.lowest = Min({f[n] : n \in S})

JoinedTime(n) ==
  IF longest THEN Max({latency[j][n] : j \in All})
  ELSE SumFunction([j \in All |-> latency[j][n]]) \div printers

\* A printer by itself summarises every UPDATE that reached it, those beyond the end
\* of its array too.  The printers together, when none has fewer measurements than
\* the first one: either the branches delivered the same UPDATEs and the statistics
\* are those of their joined times, or the destructor reports that "the msgs are not
\* aligned"; measurements of different UPDATEs are never joined in silence.
StatsExact ==
  /\ ~combined => \A j \in All : Summarises(stats[j], latency[j], Measured(j))
  /\ combined /\ printers > 1 /\ 0 \in destroyed /\ AllWritten =>
       IF \A j \in All : \A n \in Kept(0) : latency[j][n] > 0 /\
              \A m \in Measured(j) : m < n => m \in Kept(0)
       THEN ~trouble /\ Summarises(stats[0], [n \in Kept(0) |-> JoinedTime(n)], Kept(0))
       ELSE trouble
=============================================================================
