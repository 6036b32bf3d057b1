---------------------------- MODULE AdLineProofs ----------------------------
(***************************************************************************)
(* The advance/decline line counts the symbols exactly, for every set of   *)
(* symbols and of prices and every sequence of ADDs and UPDATEs.           *)
(***************************************************************************)
EXTENDS AdLine, FiniteSetTheorems, TLAPS

\* The map is finite, so that the symbols in it can be counted.
LineInv == IsFiniteSet(DOMAIN tick_map) /\ LineExact

\* One symbol that enters or leaves a finite set changes its size as Correction says.
LEMMA OneSymbol ==
  ASSUME NEW T, IsFiniteSet(T), NEW s
  PROVE  /\ Cardinality(T) \in Nat
         /\ Cardinality(T \cup {s}) = Cardinality(T) + 1 - (IF s \in T THEN 1 ELSE 0)
         /\ Cardinality(T \ {s}) = Cardinality(T) - (IF s \in T THEN 1 ELSE 0)
BY FS_CardinalityType, FS_AddElement, FS_RemoveElement

\* The switch of ADLine::calculate_value moves one symbol between the sets that are
\* counted, and Correction is the difference.
LEMMA Recount ==
  ASSUME IsFiniteSet(DOMAIN tick_map), NEW s, NEW tick, NEW which,
         tick_map' = With(tick_map, s, tick)
  PROVE  /\ Cardinality(Ticked(which)) \in Nat
         /\ Cardinality(Ticked(which)') = Cardinality(Ticked(which)) + Correction(s, tick, which)
<1>1. IsFiniteSet(Ticked(which))
  BY FS_Subset DEF Ticked
<1>2. s \in Ticked(which) <=> s \in DOMAIN tick_map /\ tick_map[s] = which
  BY DEF Ticked
<1> DEFINE T == Ticked(which)
<1>3. /\ Cardinality(T) \in Nat
      /\ Cardinality(T \cup {s}) = Cardinality(T) + 1 - (IF s \in T THEN 1 ELSE 0)
      /\ Cardinality(T \ {s}) = Cardinality(T) - (IF s \in T THEN 1 ELSE 0)
  <2> HIDE DEF T
  <2>1. IsFiniteSet(T)
    BY <1>1 DEF T
  <2> QED
    BY <2>1, OneSymbol
<1>4. CASE tick = which
  <2>1. Ticked(which)' = Ticked(which) \cup {s}
    BY <1>4 DEF Ticked, With
  <2> QED
    BY <1>2, <1>3, <1>4, <2>1 DEF Correction
<1>5. CASE tick # which
  <2>1. Ticked(which)' = Ticked(which) \ {s}
    BY <1>5 DEF Ticked, With
  <2> QED
    BY <1>2, <1>3, <1>5, <2>1 DEF Correction
<1> QED
  BY <1>4, <1>5

\* Every tick keeps the totals exact.
LEMMA LineStep ==
  ASSUME LineInv, [Next]_vars
  PROVE  LineInv'
<1>1. ASSUME NEW s \in Symbols, NEW close \in Prices, initialize(s, close)
      PROVE  LineInv'
  BY <1>1 DEF initialize, LineInv, LineExact, Ticked
<1>2. ASSUME NEW s \in Symbols, NEW close \in Prices, NEW type,
             calculate_value(s, close, type)
      PROVE  LineInv'
  <2> DEFINE tick == TickOf(s, close)
  <2>1. tick_map' = With(tick_map, s, tick)
    BY <1>2 DEF calculate_value
  <2>2. DOMAIN tick_map' = DOMAIN tick_map \cup {s}
    BY <2>1 DEF With
  <2>3. IsFiniteSet(DOMAIN tick_map')
    BY <2>2, FS_AddElement DEF LineInv
  <2>4. \A which \in {"UP", "DOWN"} :
          Cardinality(Ticked(which)') = Cardinality(Ticked(which)) + Correction(s, tick, which)
    BY <2>1, Recount DEF LineInv
  <2> QED
    BY <1>2, <2>3, <2>4 DEF calculate_value, LineInv, LineExact
<1>3. CASE UNCHANGED vars
  BY <1>3 DEF vars, LineInv, LineExact, Ticked
<1> QED
  BY <1>1, <1>2, <1>3 DEF Next

\* The totals are the numbers of symbols that went up and down last (see LineExact).
THEOREM LineCounts == Spec => []LineExact
<1>1. Init => LineInv
  <2> SUFFICES ASSUME Init PROVE LineInv
    OBVIOUS
  <2>1. DOMAIN tick_map = {}
    BY DEF Init
  <2>2. Ticked("UP") = {} /\ Ticked("DOWN") = {}
    BY <2>1 DEF Ticked
  <2> QED
    BY <2>1, <2>2, FS_EmptySet DEF Init, LineInv, LineExact
<1>2. LineInv /\ [Next]_vars => LineInv'
  BY LineStep
<1>3. LineInv => LineExact
  BY DEF LineInv
<1> QED
  BY <1>1, <1>2, <1>3, PTL DEF Spec
=============================================================================
