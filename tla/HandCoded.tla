----------------------------- MODULE HandCoded -----------------------------
(***************************************************************************)
(* The hand-coded programs (hand_coded/), the baseline of the indicator    *)
(* graphs: one object per symbol computes Vortex, Dmi or Trix from the     *)
(* bars (update_hloc, rollover and the timer work as in TradeProcessor).   *)
(* The programs store their results "to compare that Click-based           *)
(* calculations are the same".                                             *)
(*                                                                         *)
(* The state of an object is a record: the previous bar, the rings of the  *)
(* sums (oldest value first), the last values of the averages (<<>> before *)
(* the first), the last result, whether the program is alive (a division   *)
(* by 0 ends it) and whether Dmi has ever given up a calculation.          *)
(***************************************************************************)
EXTENDS Indicators

NoBar == [high |-> 0, low |-> 0, close |-> 0]

NewHand ==
  [prev |-> NoBar,
   ring |-> [n \in {"vmu", "vmd", "tr"} |-> <<>>],
   last |-> [n \in {"pdm", "ndm", "tr", "dx", "1", "2", "3"} |-> <<>>],
   result |-> <<>>, alive |-> TRUE, aborted |-> FALSE]

\* initialize of the three classes.
initialize(g, h, bar) ==
  IF g = "trix" THEN [h EXCEPT !.last["1"] = <<bar.close>>, !.last["2"] = <<bar.close>>,
                               !.last["3"] = <<bar.close>>]
  ELSE [h EXCEPT !.prev = bar]

\* SynapseHC::max of the three distances.
HandTr(h, bar) == calculate_tr(bar.low, bar.high, h.prev.close)

Dies(h) == [h EXCEPT !.alive = FALSE, !.result = <<>>]

-----------------------------------------------------------------------------
(* Vortex *)

\* SumRingBuffer: its capacity is one less than the window of a Sum element.
push_back_new_value(ring, x) ==
  Append(IF Len(ring) = BufSize - 1 THEN Tail(ring) ELSE ring, x)

PushAll(h, new) == [h EXCEPT !.ring = [n \in DOMAIN new |-> push_back_new_value(@[n], new[n])]]

Total(ring) == FoldRight(LAMBDA x, y : x + y, ring, 0)

\* Mutant: the first UPDATE is not catered for.
First_Ignored(h, kind, new) == h

\* "catering for the first update situation": it enters the rings for good.
First(h, kind, new) ==
  IF kind = "UPDATE" /\ h.ring["vmu"] = <<>> THEN PushAll(h, new) ELSE h

VortexValue(h, bar, kind) ==
  LET new == [vmu |-> FpAbs(bar.high - h.prev.low), vmd |-> FpAbs(bar.low - h.prev.high),
              tr |-> HandTr(h, bar)]
      h1 == First(h, kind, new)
      sum == [n \in DOMAIN new |-> Total(h1.ring[n]) + new[n]]
      h2 == [h1 EXCEPT !.result = <<FpDiv(sum.vmu, sum.tr), FpDiv(sum.vmd, sum.tr)>>]
  IN  IF sum.tr = 0 THEN Dies(h)
      ELSE IF kind = "ADD" THEN [PushAll(h2, new) EXCEPT !.prev = bar] ELSE h2

-----------------------------------------------------------------------------
(* EwmaHc *)

\* calculate_new_value; without a last value the new one becomes it.
NewValue(last, x) == IF last = <<>> THEN x ELSE EwmaStep(x, last[1])

Touch(last, x) == IF last = <<>> THEN <<x>> ELSE last

-----------------------------------------------------------------------------
(* Dmi *)

DmiValue(h, bar, kind) ==
  LET new == [pdm |-> calculate_pdm(bar.low, h.prev.low, bar.high, h.prev.high),
              ndm |-> calculate_ndm(bar.low, h.prev.low, bar.high, h.prev.high),
              tr |-> HandTr(h, bar)]
      sm == [n \in DOMAIN new |-> NewValue(h.last[n], new[n])]
      h1 == [h EXCEPT !.last = [n \in DOMAIN @ |->
                                  IF n \in DOMAIN new THEN Touch(@[n], new[n]) ELSE @[n]]]
      pdi == FpDiv(sm.pdm, sm.tr)
      ndi == FpDiv(sm.ndm, sm.tr)
      dx == DxOf(pdi, ndi)
      value == NewValue(h1.last["dx"], dx)
      h2 == [h1 EXCEPT !.last["dx"] = Touch(@, dx), !.result = <<value>>]
  IN  IF sm.tr = 0 THEN Dies(h)
      ELSE IF pdi + ndi = 0 THEN [h1 EXCEPT !.result = <<0>>, !.aborted = TRUE]
      ELSE IF kind = "ADD"
      THEN [h2 EXCEPT !.prev = bar, !.last["pdm"] = <<sm.pdm>>, !.last["ndm"] = <<sm.ndm>>,
                      !.last["tr"] = <<sm.tr>>, !.last["dx"] = <<value>>]
      ELSE h2

-----------------------------------------------------------------------------
(* Trix *)

TrixValue(h, bar, kind) ==
  LET e1 == NewValue(h.last["1"], bar.close)
      e2 == NewValue(h.last["2"], e1)
      e3 == NewValue(h.last["3"], e2)
      old == h.last["3"][1]
      h1 == [h EXCEPT !.result = <<FpMul(Hundred, FpDiv(e3 - old, old))>>]
  IN  IF old = 0 THEN Dies(h)
      ELSE IF kind = "ADD" THEN [h1 EXCEPT !.last["1"] = <<e1>>, !.last["2"] = <<e2>>, !.last["3"] = <<e3>>]
      ELSE h1

-----------------------------------------------------------------------------

\* IndicatorManager: what udp_read_cb and on_timer_cb make of a message that
\* TradeProcessor would send.
HandStep(g, h, m) ==
  LET bar == [high |-> m.high, low |-> m.low, close |-> m.close]
  IN  IF ~h.alive THEN h
      ELSE IF m.kind = "INIT" THEN initialize(g, h, bar)
      ELSE CASE g = "vortex" -> VortexValue(h, bar, m.kind)
             [] g = "dmi" -> DmiValue(h, bar, m.kind)
             [] g = "trix" -> TrixValue(h, bar, m.kind)
=============================================================================
