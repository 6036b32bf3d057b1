-------------------------- MODULE IndicatorGraphs --------------------------
(***************************************************************************)
(* The graphs of indicator_configs: vortex_*.click, dmi_*.click and        *)
(* trix_*.click, which differ among each other in OP_MODE and, the *_tee   *)
(* ones, in having no Timestamper.                                         *)
(***************************************************************************)
EXTENDS Indicators

Graphs == {"vortex", "dmi", "trix"}

\* The class of every element.  Viu, Vid, Pdi and Ndi compute the same function.
VortexClass ==
  [vmu |-> "Vmu", vmd |-> "Vmd", tr |-> "Tr", sum_vmu |-> "Sum", sum_vmd |-> "Sum",
   sum_tr |-> "Sum", viu |-> "Ratio", vid |-> "Ratio"]

DmiClass ==
  [pdm |-> "Pdm", ndm |-> "Ndm", tr |-> "Tr", ewma_pdm |-> "Ewma", ewma_ndm |-> "Ewma",
   ewma_tr |-> "Ewma", pdi |-> "Ratio", ndi |-> "Ratio", dx |-> "Dx", ewma_dx |-> "Ewma"]

TrixClass ==
  [ewma_1 |-> "Ewma", ewma_2 |-> "Ewma", ewma_3 |-> "Ewma", trix |-> "Trix"]

Class(g) ==
  CASE g = "vortex" -> VortexClass [] g = "dmi" -> DmiClass [] g = "trix" -> TrixClass

\* Where the outputs go, in the order of the output ports.  A StatPrinter and a
\* Discard at the end, and outputs that are not connected, are left out.
VortexWires ==
  [tee_high |-> <<<<"vmu", 0>>, <<"vmd", 0>>, <<"tr", 0>>>>,
   tee_low |-> <<<<"vmu", 1>>, <<"vmd", 1>>, <<"tr", 1>>>>,
   vmu |-> <<<<"sum_vmu", 0>>>>, vmd |-> <<<<"sum_vmd", 0>>>>, tr |-> <<<<"sum_tr", 0>>>>,
   sum_vmu |-> <<<<"viu", 0>>>>, sum_vmd |-> <<<<"vid", 0>>>>,
   sum_tr |-> <<<<"tee_sum_tr", 0>>>>, tee_sum_tr |-> <<<<"viu", 1>>, <<"vid", 1>>>>]

DmiWires ==
  [tee_high |-> <<<<"pdm", 0>>, <<"ndm", 0>>, <<"tr", 0>>>>,
   tee_low |-> <<<<"pdm", 1>>, <<"ndm", 1>>, <<"tr", 1>>>>,
   pdm |-> <<<<"ewma_pdm", 0>>>>, ndm |-> <<<<"ewma_ndm", 0>>>>,
   tr |-> <<<<"ewma_tr", 0>>>>, ewma_pdm |-> <<<<"pdi", 0>>>>,
   ewma_ndm |-> <<<<"ndi", 0>>>>, ewma_tr |-> <<<<"tee_ewma_tr", 0>>>>,
   tee_ewma_tr |-> <<<<"pdi", 1>>, <<"ndi", 1>>>>,
   pdi |-> <<<<"dx", 0>>>>, ndi |-> <<<<"dx", 1>>>>, dx |-> <<<<"ewma_dx", 0>>>>]

TrixWires ==
  [ewma_1 |-> <<<<"ewma_2", 0>>>>, ewma_2 |-> <<<<"ewma_3", 0>>>>,
   ewma_3 |-> <<<<"trix", 0>>>>]

Wires(g) ==
  CASE g = "vortex" -> VortexWires [] g = "dmi" -> DmiWires [] g = "trix" -> TrixWires

SplitTo(g) ==
  IF g = "trix" THEN [close |-> <<"ewma_1", 0>>]
  ELSE [high |-> <<"tee_high", 0>>, low |-> <<"tee_low", 0>>, close |-> <<"tr", 2>>]

Elements(g) == DOMAIN Class(g)
Tees(g) == DOMAIN Wires(g) \ Elements(g)
Outputs(g, n) == IF n \in DOMAIN Wires(g) THEN Wires(g)[n] ELSE <<>>

\* The elements that neither are nor depend on one that rounds or remembers
\* differently in its incremental mode (EwmaIncremental and Trix).
Exact(g) == {n \in Elements(g) : g = "vortex" \/ Class(g)[n] \in {"Pdm", "Ndm", "Tr"}}

\* The elements that compute the results.
HandOutputs(g) ==
  CASE g = "vortex" -> <<"viu", "vid">> [] g = "dmi" -> <<"ewma_dx">> [] g = "trix" -> <<"trix">>

\* The rest depends on the class k of an element only.
PortsOf(k) ==
  CASE k = "Tr" -> {0, 1, 2}
    [] k \in {"Sum", "Ewma", "Trix"} -> {0}
    [] OTHER -> {0, 1}
CapOf(k) == BufSize

InitOf(k, w) ==
  CASE k = "Sum" -> SumInit(w)     [] k = "Ewma" -> EwmaInit(w)
    [] k = "Ratio" -> RatioInit(w) [] k = "Dx" -> DxInit(w)
    [] k = "Trix" -> TrixInit(w)   [] OTHER -> Invalid(w)
NaiveOf(k, w) ==
  CASE k = "Sum" -> SumNaive(w)     [] k = "Ewma" -> EwmaNaive(w)
    [] k = "Ratio" -> RatioNaive(w) [] k = "Dx" -> DxNaive(w)
    [] k = "Trix" -> TrixNaive(w)   [] k = "Vmu" -> VmuNaive(w)
    [] k = "Vmd" -> VmdNaive(w)     [] k = "Pdm" -> PdmNaive(w)
    [] k = "Ndm" -> NdmNaive(w)     [] k = "Tr" -> TrNaive(w)
ExtOf(k, w) ==
  CASE k = "Sum" -> SumExt(w)     [] k = "Ewma" -> EwmaExt(w)
    [] k = "Ratio" -> RatioExt(w) [] k = "Dx" -> DxExt(w)
    [] k = "Trix" -> TrixExt(w)   [] k = "Vmu" -> VmuExt(w)
    [] k = "Vmd" -> VmdExt(w)     [] k = "Pdm" -> PdmExt(w)
    [] k = "Ndm" -> NdmExt(w)     [] k = "Tr" -> TrExt(w)
OptExtOf(k, v, c) ==
  CASE k = "Sum" -> SumOptExt(v, c)     [] k = "Ewma" -> EwmaOptExt(v, c)
    [] k = "Ratio" -> RatioOptExt(v, c) [] k = "Dx" -> DxOptExt(v, c)
    [] k = "Trix" -> TrixOptExt(v, c)   [] k = "Vmu" -> VmuOptExt(v, c)
    [] k = "Vmd" -> VmdOptExt(v, c)     [] k = "Pdm" -> PdmOptExt(v, c)
    [] k = "Ndm" -> NdmOptExt(v, c)     [] k = "Tr" -> TrOptExt(v, c)
=============================================================================
