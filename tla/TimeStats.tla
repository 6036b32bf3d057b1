----------------------------- MODULE TimeStats -----------------------------
(***************************************************************************)
(* The price bar that TradeProcessor keeps per symbol (struct TimeStats of *)
(* trade_processor.hh) and the operations on it.                           *)
(***************************************************************************)
EXTENDS Integers

NewStats ==
  [high |-> 0, low |-> 0, open |-> 0, close |-> 0, size |-> 0, updated |-> FALSE]

\* Mutant: the first trade of an interval is compared with the old high and low.
update_stats_KeepRange(ts, price, size) ==
  [ts EXCEPT !.high = IF price > @ THEN price ELSE @,
             !.low = IF price < @ THEN price ELSE @,
             !.close = price, !.size = @ + size, !.updated = TRUE]

\* The bar after a trade.  The first trade of an interval sets it anew.
update_stats(ts, price, size) ==
  IF ~ts.updated
  THEN [ts EXCEPT !.high = price, !.low = price, !.close = price,
                  !.size = @ + size, !.updated = TRUE]
  ELSE [ts EXCEPT !.high = IF price > @ THEN price ELSE @,
                  !.low = IF price < @ THEN price ELSE @,
                  !.close = price, !.size = @ + size]

\* Mutant: only a new high or low counts as a change.
is_changed_NoClose(ts, price) == ~ts.updated \/ price > ts.high \/ price < ts.low

\* Whether update_stats returns true: without a change no message is sent.
is_changed(ts, price) ==
  ~ts.updated \/ price > ts.high \/ price < ts.low \/ price # ts.close

\* Mutant: the volume is carried over into the next interval.
rollover_KeepSize(ts) == [ts EXCEPT !.open = ts.close, !.updated = FALSE]

\* A new interval: high and low remain until its first trade.
rollover(ts) == [ts EXCEPT !.open = ts.close, !.size = 0, !.updated = FALSE]

\* The message about a bar; only an ADD has the volume.
Source(kind, ts) ==
  [kind |-> kind, high |-> ts.high, low |-> ts.low, open |-> ts.open, close |-> ts.close,
   volume |-> IF kind = "ADD" THEN ts.size ELSE 0]
=============================================================================
