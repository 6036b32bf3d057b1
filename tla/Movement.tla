------------------------------ MODULE Movement ------------------------------
(***************************************************************************)
(* The first generation of the directional elements: DirectionalMovement   *)
(* and TrueRange take trades, of which they keep the bars of the current   *)
(* and the previous interval, and an EwmaElement behind each of their      *)
(* three outputs smooths it.  They work without a timer: the interval of a *)
(* message follows from its time stamp, and each message answers with a    *)
(* value that the next one of the same interval replaces.                  *)
(*                                                                         *)
(* One symbol is modelled: the elements keep one record for each.  Prices  *)
(* are positive.  The time stamps of the trades do not decrease; trades    *)
(* stamped before the start of the program come too.                       *)
(***************************************************************************)
EXTENDS Indicators, FiniteSetsExt

CONSTANTS Prices, MaxTrades,
          Lead, LastStamp,  \* the time stamps are -Lead .. LastStamp, the start at 0
          IntervalLen       \* INTERVAL_LEN

VARIABLES dm,      \* the HighLow of the symbol
          tr,      \* its HighLowClose
          ewma,    \* its EwmaCalculator in each of the three EwmaElements
          answer,  \* what each EwmaElement published for the last trade, or None
          trades   \* the trades so far, with their interval (history)

vars == <<dm, tr, ewma, answer, trades>>

Streams == {"mdm", "pdm", "tr"}

None == <<>>

Init ==
  /\ dm = [low |-> 0, high |-> 0, prev_low |-> 0, prev_high |-> 0, num |-> -1]
  /\ tr = [low |-> 0, high |-> 0, close |-> 0, prev_close |-> 0, num |-> -1]
  /\ ewma = [s \in Streams |-> [prev |-> 0, current |-> 0, num |-> 0]]
  /\ answer = [s \in Streams |-> None]
  /\ trades = <<>>

\* The division of C truncates towards 0.
interval_num(stamp) ==
  IF stamp >= 0 THEN stamp \div IntervalLen ELSE -((-stamp) \div IntervalLen)

\* Step 4 of DirectionalMovement::push.
HighLow(price, num) ==
  IF dm.num = num THEN [dm EXCEPT !.high = Max({@, price}), !.low = Min({@, price})]
  ELSE [low |-> price, high |-> price, prev_low |-> dm.low, prev_high |-> dm.high,
        num |-> num]

\* Step 4 of TrueRange::push.
HighLowClose(price, num) ==
  IF tr.num = num
  THEN [tr EXCEPT !.high = Max({@, price}), !.low = Min({@, price}), !.close = price]
  ELSE [low |-> price, high |-> price, close |-> price, prev_close |-> tr.close,
        num |-> num]

Positive(x, y) == IF x > y /\ x > 0 THEN x ELSE 0

\* calculate_dm and calculate_true_range.
PlusDm(d) == Positive(d.high - d.prev_high, d.prev_low - d.low)
MinusDm(d) == Positive(d.prev_low - d.low, d.high - d.prev_high)
true_range(r) == Max({r.high - r.low, r.high - r.prev_close, r.prev_close - r.low})

Smooth(x, prev) == IF prev = 0 THEN x ELSE EwmaStep(x, prev)

\* Mutant: a message smooths the value of the message before it.
Ewma_Twice(e, x, num) ==
  [prev |-> e.current, current |-> Smooth(x, e.current), num |-> num]

\* EwmaElement::push.  Within an interval the value is calculated again from that of
\* the interval before; 0 stands for "absent".
Ewma(e, x, num) ==
  LET prev == IF num = e.num THEN e.prev ELSE e.current
  IN  [prev |-> prev, current |-> Smooth(x, prev), num |-> num]

\* A trade passes the Tee in front of the two elements.  DirectionalMovement
\* discards one whose interval is negative, TrueRange does not; both discard it
\* when there is no previous interval.
Trade(price, stamp) ==
  LET num == interval_num(stamp)
      d == IF num < 0 THEN dm ELSE HighLow(price, num)
      r == HighLowClose(price, num)
      sent == [s \in Streams |->
                 IF s = "tr" THEN IF r.prev_close = 0 THEN None ELSE <<true_range(r)>>
                 ELSE IF num < 0 \/ (d.prev_low = 0 /\ d.prev_high = 0) THEN None
                 ELSE <<IF s = "mdm" THEN MinusDm(d) ELSE PlusDm(d)>>]
      e == [s \in Streams |-> IF sent[s] = None THEN ewma[s] ELSE Ewma(ewma[s], sent[s][1], num)]
  IN  /\ dm' = d
      /\ tr' = r
      /\ ewma' = e
      /\ answer' = [s \in Streams |-> IF sent[s] = None THEN None ELSE <<e[s].current>>]
      /\ trades' = Append(trades, [price |-> price, stamp |-> stamp, num |-> num])

Next ==
  /\ Len(trades) < MaxTrades
  /\ \E price \in Prices, stamp \in -Lead .. LastStamp :
       /\ trades # <<>> => stamp >= trades[Len(trades)].stamp
       /\ Trade(price, stamp)

Spec == Init /\ [][Next]_vars

-----------------------------------------------------------------------------
(* Properties *)

\* The trades that a stream is about, and its intervals.  The directional movements
\* are about those whose interval is not negative.  That is not the same as being
\* stamped after the start: the division takes a trade that came less than one
\* interval before the start into interval 0.  The true range is about all trades.
Counted(s) == {i \in DOMAIN trades : s = "tr" \/ trades[i].num >= 0}
Nums(s) == {trades[i].num : i \in Counted(s)}

In(s, n) == {i \in Counted(s) : trades[i].num = n}
PricesIn(s, n) == {trades[i].price : i \in In(s, n)}
CloseOf(s, n) == trades[Max(In(s, n))].price
Before(s, n) == {m \in Nums(s) : m < n}

\* The value of a stream for interval n by its definition, from all trades of n and
\* those of the last interval before it that had some.
ValueOf(s, n) ==
  LET m == Max(Before(s, n))
      high == Max(PricesIn(s, n))
      low == Min(PricesIn(s, n))
      up == high - Max(PricesIn(s, m))
      down == Min(PricesIn(s, m)) - low
  IN  CASE s = "pdm" -> IF up > 0 /\ up > down THEN up ELSE 0
        [] s = "mdm" -> IF down > 0 /\ down > up THEN down ELSE 0
        [] s = "tr" -> Max({high, CloseOf(s, m)}) - Min({low, CloseOf(s, m)})

\* The smoothed value of interval n by its definition: of the values of the
\* intervals up to n, each by all its trades.
RECURSIVE SmoothedAt(_, _)
SmoothedAt(s, n) ==
  LET m == Max(Before(s, n))
  IN  IF Before(s, m) = {} THEN ValueOf(s, n)
      ELSE Smooth(ValueOf(s, n), SmoothedAt(s, m))

\* Each answer is that of its interval as it stands: the values that were published
\* for earlier trades of the interval, or of the one before, leave no trace, and gaps
\* between the intervals are skipped.  A trade of a negative interval moves the
\* averages of the directional movements in no way, and that of the true range like
\* any other trade.  An interval has no answer only if it is negative, for the
\* directional movements, or the first one with a trade that counts.
SmoothedExact ==
  trades # <<>> =>
    LET n == trades[Len(trades)].num IN
    \A s \in Streams :
      answer[s] = IF n \notin Nums(s) \/ Before(s, n) = {} THEN None
                  ELSE <<SmoothedAt(s, n)>>
=============================================================================
