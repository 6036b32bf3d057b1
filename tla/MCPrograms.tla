---------------------------- MODULE MCPrograms ----------------------------
(***************************************************************************)
(* The pipeline, and the sequential programs at its two ends and beside    *)
(* it, one at a time: the price parser, the Chi-X handler, the statistics  *)
(* printers and the advance/decline line.  A behaviour is about one of     *)
(* them and leaves the others as they are initially.                       *)
(***************************************************************************)
EXTENDS MCPipeline

CONSTANTS ParserOne, Digits, MaxWhole, MaxFrac,                  \* PriceParser
          Refs, Terms, MaxShort, MaxLong, MaxInt, MaxTaken,      \* Chix
          Symbols, Closes,                                       \* AdLine
          MaxPrinters, MaxLatency, MaxUpdates, MaxAllValues,     \* StatPrinter
          Word, Unknown

VARIABLES subject,
          whole, dot, frac,
          active, orderMap, out, ledger,
          prev_close, tick_map, total_up, total_down, rv,
          printers, combined, longest, next, values, stats, trouble, destroyed, latency

P == INSTANCE PriceParser WITH One <- ParserOne

X == INSTANCE Chix

A == INSTANCE AdLine WITH Prices <- Closes

S == INSTANCE StatPrinter

pipeVars == <<graph, clock, queue, bar, last, agenda, elem, answer, hand>>
parserVars == <<whole, dot, frac>>
chixVars == <<active, orderMap, out, ledger>>
lineVars == <<prev_close, tick_map, total_up, total_down, rv>>
printVars == <<printers, combined, longest, next, values, stats, trouble, destroyed, latency>>
allVars == <<pipeVars, parserVars, chixVars, lineVars, printVars, subject>>

MCInit ==
  /\ subject \in {"Pipeline", "PriceParser", "Chix", "AdLine", "StatPrinter"}
  /\ Init /\ (subject # "Pipeline" => graph = "trix")
  /\ P!Init /\ X!Init /\ A!Init
  /\ S!Init /\ (subject # "StatPrinter" => printers = 1 /\ ~combined /\ ~longest)

MCNext ==
  /\ \/ /\ subject = "Pipeline" /\ Next
        /\ UNCHANGED <<parserVars, chixVars, lineVars, printVars>>
     \/ /\ subject = "PriceParser" /\ P!Next
        /\ UNCHANGED <<pipeVars, chixVars, lineVars, printVars>>
     \/ /\ subject = "Chix" /\ X!Next
        /\ UNCHANGED <<pipeVars, parserVars, lineVars, printVars>>
     \/ /\ subject = "AdLine" /\ A!Next
        /\ UNCHANGED <<pipeVars, parserVars, chixVars, printVars>>
     \/ /\ subject = "StatPrinter" /\ S!Next
        /\ UNCHANGED <<pipeVars, parserVars, chixVars, lineVars>>
  /\ UNCHANGED subject

MCSpec == MCInit /\ [][MCNext]_allVars

-----------------------------------------------------------------------------
(* The properties of the instances *)

\* A price is parsed to the nearest number below it (PriceParser).
ParsedNearest == subject = "PriceParser" => P!ParsedNearest

\* The map of orders follows the feed (Chix).
BookExact == subject = "Chix" => X!BookExact

\* The line counts the symbols that went up and down (AdLine).
LineExact == subject = "AdLine" => A!LineExact

\* A printer summarises what it measured, and printers join only measurements of the
\* same UPDATE, or say so (StatPrinter).
StatsExact == subject = "StatPrinter" => S!StatsExact

=============================================================================
