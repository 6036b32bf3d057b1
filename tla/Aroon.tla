-------------------------------- MODULE Aroon -------------------------------
(***************************************************************************)
(* TradeAggregator, which sums up the trades of an interval, with the      *)
(* AroonIndicatorElement behind it, which tells how long ago the highest   *)
(* and the lowest of the last 30 closing prices were.                      *)
(*                                                                         *)
(* One symbol is modelled: both elements keep one record for each, and the *)
(* aggregator's timer sends the statistics of every symbol it knows.       *)
(***************************************************************************)
EXTENDS Integers, Sequences, FiniteSetsExt

CONSTANTS Prices, Sizes,
          Span,         \* _aroon_time_span: 30 in the code
          MaxIntervals, \* bound on the intervals
          MaxTrades     \* bound on the trades of an interval

VARIABLES stats,   \* the TimeStats of the symbol, or None
          sent,    \* the last MsgTimePeriodStats, or None
          buffer,  \* _price_buffer, oldest first
          since,   \* ticksSinceMaxPrice and ticksSinceMinPrice behind the indicators
          bars     \* the trades of each interval so far, the current one last (history)

vars == <<stats, sent, buffer, since, bars>>

None == <<>>

Init ==
  /\ stats = None
  /\ sent = None
  /\ buffer = <<>>
  /\ since = None
  /\ bars = <<<<>>>>

\* TradeAggregator::update_stats.
update_stats(price, size) ==
  IF stats = None \/ ~stats.updated
  THEN [open |-> price, high |-> price, low |-> price, close |-> price, size |-> size,
        updated |-> TRUE]
  ELSE [stats EXCEPT !.high = Max({@, price}), !.low = Min({@, price}),
                     !.size = @ + size, !.close = price]

push(price, size) ==
  /\ Len(bars) <= MaxIntervals
  /\ Len(bars[Len(bars)]) < MaxTrades
  /\ stats' = update_stats(price, size)
  /\ bars' = [bars EXCEPT ![Len(bars)] = Append(@, [price |-> price, size |-> size])]
  /\ UNCHANGED <<sent, buffer, since>>

\* Mutant: of several highest prices the first one counts.
Tick_First(seen, i, price) ==
  IF price > seen.max THEN [seen EXCEPT !.max = price, !.up = Span - i]
  ELSE IF price <= seen.min THEN [seen EXCEPT !.min = price, !.down = Span - i]
  ELSE seen

\* A step of the loop in update_indicator, for the price at place i.
Tick(seen, i, price) ==
  IF price >= seen.max THEN [seen EXCEPT !.max = price, !.up = Span - i]
  ELSE IF price <= seen.min THEN [seen EXCEPT !.min = price, !.down = Span - i]
  ELSE seen

\* The loop over a full buffer, from its oldest price.
Scan(b) ==
  LET seen[i \in 0 .. Span] ==
        IF i = 0 THEN [max |-> b[1], min |-> b[1], up |-> Span - 1, down |-> Span - 1]
        ELSE Tick(seen[i - 1], i, b[i])
  IN  seen[Span]

\* AroonIndicator::update_indicator.
update_indicator(price) ==
  LET b == Append(IF Len(buffer) = Span THEN Tail(buffer) ELSE buffer, price)
  IN  /\ buffer' = b
      /\ since' = IF Len(b) < Span THEN since ELSE [up |-> Scan(b).up, down |-> Scan(b).down]

\* TradeAggregator::run_timer.  The statistics are sent again when there was no
\* trade since; the first trade to come starts new ones.
run_timer ==
  /\ Len(bars) <= MaxIntervals
  /\ bars' = Append(bars, <<>>)
  /\ IF stats = None THEN UNCHANGED <<stats, sent, buffer, since>>
     ELSE /\ sent' = stats
          /\ update_indicator(stats.close)
          /\ stats' = [stats EXCEPT !.updated = FALSE]

Next == run_timer \/ \E price \in Prices, size \in Sizes : push(price, size)

Spec == Init /\ [][Next]_vars

-----------------------------------------------------------------------------
(* Properties *)

\* The last interval up to k that had trades, or 0.
Traded(k) == Max({0} \cup {j \in 1 .. k : bars[j] # <<>>})

\* The closing price in effect at the end of interval k.
CloseAt(k) == LET b == bars[Traded(k)] IN b[Len(b)].price

\* The statistics sent last are those of all the trades of the interval k.
Aggregates(k) ==
  LET prices == {bars[k][i].price : i \in DOMAIN bars[k]}
  IN  /\ sent.open = bars[k][1].price
      /\ sent.close = bars[k][Len(bars[k])].price
      /\ sent.high = Max(prices)
      /\ sent.low = Min(prices)
      /\ sent.size = SumFunction([i \in DOMAIN bars[k] |-> bars[k][i].size])

\* The aggregator sends the bar of the last interval that had trades, again and again
\* if need be, and the highest and the lowest closing price of the last Span intervals
\* are as many intervals back as the indicators say, an interval without trades
\* counting with the price before it.  Of several highest prices it is the last one;
\* the lowest one is the last too, except that a price all through the window so far,
\* being the highest as well, is not counted again.
AroonExact ==
  LET n == Len(bars) - 1
      window == n - Span + 1 .. n
      high == Max({CloseAt(k) : k \in window})
      low == Min({CloseAt(k) : k \in window})
      lows == {k \in window : CloseAt(k) = low}
      flat == {k \in lows : \A j \in window : j < k => CloseAt(j) = low}
      later == lows \ flat
  IN  /\ IF Traded(n) = 0 THEN sent = None ELSE Aggregates(Traded(n))
      /\ IF \E k \in 1 .. n : Traded(k) # 0 /\ n - k + 1 >= Span
         THEN /\ since.up = n - Max({k \in window : CloseAt(k) = high})
              /\ since.down = n - IF later # {} THEN Max(later) ELSE n - Span + 1
         ELSE since = None
=============================================================================
