----------------------------- MODULE MCLibrary -----------------------------
(***************************************************************************)
(* What the indicator elements are built from, one part at a time: the     *)
(* ring buffer, the indicators' arithmetic, and an element with one port   *)
(* around one of them (Sum).  A behaviour is about one of them and leaves  *)
(* the others as they are initially.                                       *)
(*                                                                         *)
(* There are two rings of different initial capacity and two values.  A    *)
(* ring reaches capacity 3, so that copies between rings of equal and of   *)
(* unequal capacity, resizing, and wrapping with up to three elements all  *)
(* happen.                                                                 *)
(***************************************************************************)
EXTENDS CircArray, TLC

CONSTANTS r1, r2, a, b,
          One, Alpha, BufSize, Samples,   \* for the indicators
          NoCache, SumValues, SumMaxTime  \* for Sum

VARIABLES subject,
          kind, window, cache,
          elem, msg, todo, clock, out, added

I == INSTANCE IndicatorLaws WITH Values <- Samples

Sum == INSTANCE SingleIndicator WITH
         Ports <- {0}, Cap <- BufSize, Zero <- 0, Values <- SumValues,
         StartModes <- {"NAIVE", "STARTUP"}, MaxTime <- SumMaxTime,
         initialize_element <- I!SumInit, process_naive <- I!SumNaive,
         process_ext <- I!SumExt, process_opt_ext <- I!SumOptExt,
         window <- added

MCRings == {r1, r2}
MCValues == {a, b}
MCSymmetry == Permutations(MCValues)
MCInitCapacity == (r1 :> 1) @@ (r2 :> 3)

lawVars == <<kind, window, cache>>
sumVars == <<elem, msg, todo, clock, out, added>>
allVars == <<vars, lawVars, sumVars, subject>>

MCInit ==
  /\ subject \in {"CircArray", "Indicators", "Sum"}
  /\ Init
  /\ Sum!Init /\ (subject # "Sum" => elem.op_mode = "NAIVE")
  /\ \/ subject = "Indicators" /\ I!Init
     \/ subject # "Indicators" /\ kind = "none" /\ window = <<>> /\ cache = <<>>

MCNext ==
  \/ subject = "CircArray" /\ Next /\ UNCHANGED <<lawVars, sumVars, subject>>
  \/ subject = "Indicators" /\ I!Next /\ UNCHANGED <<vars, sumVars, subject>>
  \/ subject = "Sum" /\ Sum!Next /\ UNCHANGED <<vars, lawVars, subject>>

MCSpec == MCInit /\ [][MCNext]_allVars

-----------------------------------------------------------------------------
(* The properties of the instances *)

\* An incremental step is exact, or as close as it can be (IndicatorLaws).
IncrementalClose == subject = "Indicators" => I!IncrementalClose

\* Sum answers each message once, with the sum of the window (SingleIndicator).
SumRefinesWindow == Sum!W!Init /\ [][subject = "Sum" => Sum!W!Next]_(Sum!W!vars)
=============================================================================
