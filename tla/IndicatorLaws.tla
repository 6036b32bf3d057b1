--------------------------- MODULE IndicatorLaws ---------------------------
(***************************************************************************)
(* Each indicator by itself: what its incremental step computes from the   *)
(* cache, beside what its naive function computes from the window of the   *)
(* last BufSize values.  An element leaves STARTUP mode at its second      *)
(* value, so the first cache is built from two.                            *)
(***************************************************************************)
EXTENDS Indicators

CONSTANT Values

VARIABLES kind, window, cache

vars == <<kind, window, cache>>

Exact == {"Sum", "Pdm", "Ndm", "Tr", "Vmu", "Vmd", "Ratio", "Dx"}
Kinds == Exact \cup {"Ewma", "Trix"}

PortsOf(k) ==
  CASE k \in {"Sum", "Ewma", "Trix"} -> {0}
    [] k = "Tr" -> {0, 1, 2}
    [] OTHER -> {0, 1}

\* Trix divides by the previous value.
Inputs(k) == [PortsOf(k) -> IF k = "Trix" THEN Values \ {0} ELSE Values]

Naive(k, w) ==
  CASE k = "Sum" -> SumNaive(w) [] k = "Ewma" -> EwmaNaive(w) [] k = "Trix" -> TrixNaive(w)
    [] k = "Pdm" -> PdmNaive(w) [] k = "Ndm" -> NdmNaive(w)   [] k = "Tr" -> TrNaive(w)
    [] k = "Vmu" -> VmuNaive(w) [] k = "Vmd" -> VmdNaive(w)
    [] k = "Ratio" -> RatioNaive(w) [] k = "Dx" -> DxNaive(w)

Ext(k, w) ==
  CASE k = "Sum" -> SumExt(w) [] k = "Ewma" -> EwmaExt(w) [] k = "Trix" -> TrixExt(w)
    [] k = "Pdm" -> PdmExt(w) [] k = "Ndm" -> NdmExt(w)   [] k = "Tr" -> TrExt(w)
    [] k = "Vmu" -> VmuExt(w) [] k = "Vmd" -> VmdExt(w)
    [] k = "Ratio" -> RatioExt(w) [] k = "Dx" -> DxExt(w)

OptExt(k, i, c) ==
  CASE k = "Sum" -> SumOptExt(i, c) [] k = "Ewma" -> EwmaOptExt(i, c)
    [] k = "Trix" -> TrixOptExt(i, c)
    [] k = "Pdm" -> PdmOptExt(i, c) [] k = "Ndm" -> NdmOptExt(i, c) [] k = "Tr" -> TrOptExt(i, c)
    [] k = "Vmu" -> VmuOptExt(i, c) [] k = "Vmd" -> VmdOptExt(i, c)
    [] k = "Ratio" -> RatioOptExt(i, c) [] k = "Dx" -> DxOptExt(i, c)

Init ==
  /\ kind \in Kinds
  /\ \E new, old \in Inputs(kind) : window = [p \in PortsOf(kind) |-> <<new[p], old[p]>>]
  /\ cache = Ext(kind, window)

\* An ADD in NORMAL mode; the window is what a NAIVE element would hold.
Add(i) ==
  /\ cache' = OptExt(kind, i, cache)
  /\ window' = [p \in PortsOf(kind) |->
                  <<i[p]>> \o IF Len(window[p]) = BufSize THEN Front(window[p]) ELSE window[p]]
  /\ UNCHANGED kind

Next == \E i \in Inputs(kind) : Add(i)

Spec == Init /\ [][Next]_vars

-----------------------------------------------------------------------------
(* Properties *)

Distance(x, y) == FpAbs(x - y)

AlphaPower[n \in Nat] == IF n = 0 THEN One ELSE FpMul(Alpha, AlphaPower[n - 1]) + 1

Spread == LET far == {Distance(x, y) : x, y \in Values} IN CHOOSE d \in far : \A e \in far : e <= d

\* EwmaIncremental remembers values that have left the window, which its naive
\* function does not.  The two differ by no more than the weight of the oldest
\* value of the window allows, and by the rounding of each step; not at all
\* while nothing has left the window.
EwmaBound(n) == IF n < BufSize THEN 0 ELSE FpMul(AlphaPower[n - 1], Spread + 2 * n) + n

\* Every indicator but EwmaIncremental and Trix computes, step by step from its
\* cache, exactly what it computes from the whole window; EwmaIncremental stays
\* within its bound; and Trix, which multiplies by 100 before the division in one
\* mode and after it in the other, within 100 units in the last place.
IncrementalClose ==
  Distance(cache.value, Naive(kind, window)) <=
    CASE kind \in Exact -> 0
      [] kind = "Ewma" -> EwmaBound(Len(window[0]))
      [] kind = "Trix" -> 99
=============================================================================
