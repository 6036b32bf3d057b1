----------------------------- MODULE MCPipeline -----------------------------
(***************************************************************************)
(* Pipeline with the three graphs and the hand-coded programs.             *)
(***************************************************************************)
EXTENDS IndicatorGraphs, HandCoded

CONSTANTS Modes, NoCache, Prices, MaxQueue, MaxTime

VARIABLES graph, clock, queue, bar, last, agenda, elem, answer, hand

INSTANCE Pipeline
=============================================================================
