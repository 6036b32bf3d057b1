----------------------------- MODULE Indicators -----------------------------
(***************************************************************************)
(* The virtual functions of the indicator elements: for each element what  *)
(* it computes from its rings (w[p] is the ring of port p, newest value    *)
(* first), the cache it builds from them, and the step from that cache.  A *)
(* cache is a record of the result (_cache[0]._value) and of what the      *)
(* element keeps in the other entries.                                     *)
(***************************************************************************)
EXTENDS FixedPt, Sequences, Folds, SequencesExt

CONSTANTS Alpha,  \* EwmaIncremental's _alpha
          BufSize \* BUF_SIZE, the capacity of the ring in Sum's cache

Hundred == 100 * One

Invalid(w) == <<>>

-----------------------------------------------------------------------------
(* Sum: one port; the cache holds the sum and the window it is the sum of *)

SumInit(w) == <<w[0][1]>>

SumNaive(w) == FoldRight(LAMBDA x, y : x + y, w[0], 0)

SumExt(w) == [value |-> SumNaive(w), aux |-> w[0]]

\* Mutant: the value that leaves the window stays in the sum.
SumOptExt_KeepLast(increments, cache) ==
  [value |-> cache.value + increments[0],
   aux |-> <<increments[0]>> \o
           (IF Len(cache.aux) = BufSize THEN Front(cache.aux) ELSE cache.aux)]

SumOptExt(increments, cache) ==
  IF Len(cache.aux) = BufSize
  THEN [value |-> cache.value - Last(cache.aux) + increments[0],
        aux |-> <<increments[0]>> \o Front(cache.aux)]
  ELSE [value |-> cache.value + increments[0],
        aux |-> <<increments[0]>> \o cache.aux]

-----------------------------------------------------------------------------
(* EwmaIncremental: one port *)

EwmaStep(x, prev) == FpMul(One - Alpha, x) + FpMul(Alpha, prev)

EwmaInit(w) == <<w[0][1]>>

EwmaNaive(w) == FoldRight(EwmaStep, Front(w[0]), Last(w[0]))

EwmaExt(w) == [value |-> EwmaNaive(w), aux |-> EwmaNaive(w)]

EwmaOptExt(increments, cache) ==
  LET r == EwmaStep(increments[0], cache.aux) IN [value |-> r, aux |-> r]

-----------------------------------------------------------------------------
(* Pdm and Ndm: ports high (0) and low (1) *)

calculate_pdm(new_low, prev_low, new_high, prev_high) ==
  IF new_high - prev_high < prev_low - new_low THEN 0
  ELSE IF new_high - prev_high < 0 THEN 0
  ELSE new_high - prev_high

calculate_ndm(new_low, prev_low, new_high, prev_high) ==
  IF prev_low - new_low < new_high - prev_high THEN 0
  ELSE IF prev_low - new_low < 0 THEN 0
  ELSE prev_low - new_low

PdmNaive(w) == calculate_pdm(w[1][1], w[1][2], w[0][1], w[0][2])
NdmNaive(w) == calculate_ndm(w[1][1], w[1][2], w[0][1], w[0][2])

PdmExt(w) == [value |-> PdmNaive(w), aux |-> <<w[0][1], w[1][1]>>]
NdmExt(w) == [value |-> NdmNaive(w), aux |-> <<w[0][1], w[1][1]>>]

PdmOptExt(increments, cache) ==
  [value |-> calculate_pdm(increments[1], cache.aux[2], increments[0], cache.aux[1]),
   aux |-> <<increments[0], increments[1]>>]

NdmOptExt(increments, cache) ==
  [value |-> calculate_ndm(increments[1], cache.aux[2], increments[0], cache.aux[1]),
   aux |-> <<increments[0], increments[1]>>]

-----------------------------------------------------------------------------
(* NewTrueRange: ports high, low and close (2) *)

calculate_tr(new_low, new_high, prev_close) ==
  FpMax(prev_close - new_low, FpMax(new_high - new_low, new_high - prev_close))

TrNaive(w) == calculate_tr(w[1][1], w[0][1], w[2][2])

TrExt(w) == [value |-> TrNaive(w), aux |-> w[2][1]]

TrOptExt(increments, cache) ==
  [value |-> calculate_tr(increments[1], increments[0], cache.aux),
   aux |-> increments[2]]

-----------------------------------------------------------------------------
(* Vmu and Vmd: ports high and low *)

VmuNaive(w) == FpAbs(w[0][1] - w[1][2])
VmdNaive(w) == FpAbs(w[1][1] - w[0][2])

VmuExt(w) == [value |-> VmuNaive(w), aux |-> w[1][1]]
VmdExt(w) == [value |-> VmdNaive(w), aux |-> w[0][1]]

VmuOptExt(increments, cache) ==
  [value |-> FpAbs(increments[0] - cache.aux), aux |-> increments[1]]
VmdOptExt(increments, cache) ==
  [value |-> FpAbs(increments[1] - cache.aux), aux |-> increments[0]]

-----------------------------------------------------------------------------
(* Pdi, Ndi, Viu and Vid: port 0 divided by port 1.  Dx: the directional    *)
(* index of ports 0 and 1.  None of them looks at older values.             *)

Ratio(x, y) == IF y = 0 THEN 0 ELSE FpDiv(x, y)

RatioNaive(w) == Ratio(w[0][1], w[1][1])
RatioInit(w) == <<RatioNaive(w)>>
RatioExt(w) == [value |-> RatioNaive(w), aux |-> <<>>]
RatioOptExt(increments, cache) ==
  [value |-> Ratio(increments[0], increments[1]), aux |-> <<>>]

DxOf(pdi, ndi) ==
  IF pdi + ndi = 0 THEN 0 ELSE FpDiv(FpMul(Hundred, FpAbs(pdi - ndi)), pdi + ndi)

DxNaive(w) == DxOf(w[0][1], w[1][1])
DxInit(w) == <<DxNaive(w)>>
DxExt(w) == [value |-> DxNaive(w), aux |-> <<>>]
DxOptExt(increments, cache) ==
  [value |-> DxOf(increments[0], increments[1]), aux |-> <<>>]

-----------------------------------------------------------------------------
(* Trix: one port.  The two ways of computing it round differently. *)

TrixInit(w) == <<0>>

TrixNaive(w) == FpDiv(FpMul(Hundred, w[0][1] - w[0][2]), w[0][2])

TrixExt(w) == [value |-> TrixNaive(w), aux |-> w[0][1]]

TrixOptExt(increments, cache) ==
  [value |-> FpMul(Hundred, FpDiv(increments[0] - cache.aux, cache.aux)),
   aux |-> increments[0]]
=============================================================================
