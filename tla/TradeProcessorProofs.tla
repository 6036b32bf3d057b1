------------------------ MODULE TradeProcessorProofs ------------------------
(***************************************************************************)
(* Proofs about TradeProcessor, for any set of elements, symbols, prices   *)
(* and sizes: the bars are those of exactly the trades of the interval,    *)
(* and no change of a bar goes unannounced.                                *)
(***************************************************************************)
EXTENDS TradeProcessor, TLAPS

Trades == [symbol : Symbols, price : Nat, size : Nat]

Closed == [high : Nat, low : Nat, close : Nat]

Messages ==
  [kind : {"INIT", "UPDATE", "ADD"}, high : Nat, low : Nat, open : Nat, close : Nat, volume : Nat]

\* The shapes of the variables, the history included.
Shapes ==
  /\ stats = [p \in Processors |-> stats[p]]
  /\ announced = [p \in Processors |-> announced[p]]
  /\ trades \in [Processors -> [Symbols -> Seq(Trades)]]
  /\ previous \in [Processors -> [Symbols -> Closed]]
  /\ \A p \in Processors : \A s \in Known(p) : announced[p][s] \in Messages

\* A symbol without a bar has no history either.
Unseen ==
  \A p \in Processors : \A s \in Symbols \ Known(p) :
    trades[p][s] = <<>> /\ previous[p][s] = NoBar

IInv == TypeOK /\ Shapes /\ Unseen /\ BarExact /\ Announced

-----------------------------------------------------------------------------

\* The prices of an interval with one more trade (update_stats is called once
\* per trade).
LEMMA AppendPrices ==
  ASSUME NEW q \in Seq(Trades), NEW t \in Trades
  PROVE  /\ PricesOf(Append(q, t)) = PricesOf(q) \cup {t.price}
         /\ Append(q, t) # <<>>
         /\ Append(q, t)[Len(Append(q, t))] = t
         /\ Append(q, t) \in Seq(Trades)
         /\ PricesOf(q) \subseteq Nat
         /\ q = <<>> => PricesOf(q) = {}
<1>1. /\ Append(q, t) \in Seq(Trades)
      /\ Len(Append(q, t)) = Len(q) + 1
      /\ \A i \in 1 .. Len(q) : Append(q, t)[i] = q[i]
      /\ Append(q, t)[Len(q) + 1] = t
  OBVIOUS
<1>2. DOMAIN Append(q, t) = 1 .. (Len(q) + 1) /\ DOMAIN q = 1 .. Len(q) /\ Len(q) \in Nat
  BY <1>1
<1>3. \A i \in 1 .. Len(q) : q[i] \in Trades
  OBVIOUS
<1>4. \A x : x \in PricesOf(Append(q, t)) <=> x \in PricesOf(q) \/ x = t.price
  <2> SUFFICES ASSUME NEW x
               PROVE  x \in PricesOf(Append(q, t)) <=> x \in PricesOf(q) \/ x = t.price
    OBVIOUS
  <2>1. ASSUME x \in PricesOf(Append(q, t))
        PROVE  x \in PricesOf(q) \/ x = t.price
    <3>1. PICK i \in 1 .. (Len(q) + 1) : x = Append(q, t)[i].price
      BY <1>2, <2>1 DEF PricesOf
    <3>2. CASE i = Len(q) + 1
      BY <3>1, <3>2, <1>1
    <3>3. CASE i \in 1 .. Len(q)
      BY <3>1, <3>3, <1>1, <1>2 DEF PricesOf
    <3> QED BY <3>1, <3>2, <3>3, <1>2
  <2>2. ASSUME x \in PricesOf(q)
        PROVE  x \in PricesOf(Append(q, t))
    <3>1. PICK i \in 1 .. Len(q) : x = q[i].price
      BY <1>2, <2>2 DEF PricesOf
    <3>2. i \in DOMAIN Append(q, t) /\ x = Append(q, t)[i].price
      BY <3>1, <1>1, <1>2
    <3> QED BY <3>2 DEF PricesOf
  <2>3. t.price \in PricesOf(Append(q, t))
    <3>1. Len(q) + 1 \in DOMAIN Append(q, t)
      BY <1>2
    <3> QED BY <3>1, <1>1 DEF PricesOf
  <2> QED BY <2>1, <2>2, <2>3
<1>5. PricesOf(Append(q, t)) = PricesOf(q) \cup {t.price}
  BY <1>4
<1>6. PricesOf(q) \subseteq Nat
  BY <1>2, <1>3 DEF PricesOf, Trades
<1>7. q = <<>> => PricesOf(q) = {}
  BY <1>2 DEF PricesOf
<1> QED BY <1>1, <1>2, <1>5, <1>6, <1>7

\* What push makes of a packet it does not drop is a trade of a subscribed
\* symbol (populate_msg_trade).
LEMMA PacketTrade ==
  ASSUME NEW pkt \in Packets, populate_msg_trade(pkt), Trade(pkt).symbol \in Subscribed
  PROVE  Trade(pkt) \in Trades
<1>1. Subscribed \subseteq Symbols /\ Prices \subseteq Nat /\ Sizes \subseteq Nat
  BY SymbolsAssumption DEF SymbolsAssumption
<1>2. Trade(pkt).price \in Nat /\ Trade(pkt).size \in Nat
  <2>1. CASE pkt \in [bars : {0, 1, 2, 5}]
    BY <2>1 DEF Trade
  <2>2. CASE pkt \in [bars : {3}, symbol : Symbols \cup {LongSymbol}]
    BY <2>2 DEF Trade
  <2>3. CASE pkt \in [bars : {4}, symbol : Symbols \cup {LongSymbol}, price : Prices,
                      size : Sizes \cup {NoSize}]
    <3>1. pkt.bars = 4 /\ pkt.price \in Prices /\ pkt.size \in Sizes \cup {NoSize}
      BY <2>3
    <3>2. pkt.size \in Sizes
      BY <3>1 DEF populate_msg_trade
    <3> QED BY <3>1, <3>2, <1>1 DEF Trade
  <2> QED BY <2>1, <2>2, <2>3 DEF Packets
<1> QED BY <1>1, <1>2 DEF Trade, Trades

\* The bar after one more trade of the interval is the bar of the trades with
\* that one (update_stats).
LEMMA OneMoreTrade ==
  ASSUME NEW ts \in Bars, NEW q \in Seq(Trades), NEW t \in Trades,
         ts.updated <=> q # <<>>,
         q # <<>> => /\ {ts.high, ts.low} \subseteq PricesOf(q)
                     /\ \A x \in PricesOf(q) : ts.low <= x /\ x <= ts.high
  PROVE  LET new == update_stats(ts, t.price, t.size)
             r == Append(q, t)
         IN  /\ new \in Bars
             /\ new.open = ts.open /\ new.updated /\ new.close = t.price
             /\ {new.high, new.low} \subseteq PricesOf(r)
             /\ \A x \in PricesOf(r) : new.low <= x /\ x <= new.high
             /\ ~is_changed(ts, t.price) =>
                  new.high = ts.high /\ new.low = ts.low /\ new.close = ts.close
<1> DEFINE new == update_stats(ts, t.price, t.size)
<1>1. t.price \in Nat /\ t.size \in Nat
  BY DEF Trades
<1>2. /\ ts.high \in Nat /\ ts.low \in Nat /\ ts.close \in Nat /\ ts.size \in Nat
      /\ ts.open \in Nat /\ ts.updated \in BOOLEAN
  BY DEF Bars
<1>3. /\ new \in Bars /\ new.open = ts.open /\ new.updated /\ new.close = t.price
      /\ new.high = IF ~ts.updated \/ t.price > ts.high THEN t.price ELSE ts.high
      /\ new.low = IF ~ts.updated \/ t.price < ts.low THEN t.price ELSE ts.low
  <2>1. CASE ~ts.updated
    <3>1. new = [ts EXCEPT !.high = t.price, !.low = t.price, !.close = t.price,
                           !.size = ts.size + t.size, !.updated = TRUE]
      BY <2>1 DEF update_stats
    <3>2. new \in Bars
      <4>1. ts.size + t.size \in Nat
        BY <1>1, <1>2
      <4>2. new = [high |-> t.price, low |-> t.price, open |-> ts.open, close |-> t.price,
                   size |-> ts.size + t.size, updated |-> TRUE]
        BY <3>1 DEF Bars
      <4> HIDE DEF new
      <4> QED BY <4>1, <4>2, <1>1, <1>2 DEF Bars
    <3>3. /\ new.open = ts.open /\ new.updated = TRUE /\ new.close = t.price
          /\ new.high = t.price /\ new.low = t.price
      BY <3>1 DEF Bars
    <3> HIDE DEF new
    <3> QED BY <2>1, <3>2, <3>3
  <2>2. CASE ts.updated
    <3> DEFINE hi == IF t.price > ts.high THEN t.price ELSE ts.high
               lo == IF t.price < ts.low THEN t.price ELSE ts.low
    <3>1. new = [ts EXCEPT !.high = hi, !.low = lo, !.close = t.price,
                           !.size = ts.size + t.size]
      BY <2>2 DEF update_stats
    <3>2. hi \in Nat /\ lo \in Nat
      BY <1>1, <1>2
    <3>3. new \in Bars
      <4> HIDE DEF hi, lo
      <4>1. ts.size + t.size \in Nat
        BY <1>1, <1>2
      <4>2. new = [high |-> hi, low |-> lo, open |-> ts.open, close |-> t.price,
                   size |-> ts.size + t.size, updated |-> ts.updated]
        BY <3>1 DEF Bars
      <4> HIDE DEF new
      <4> QED BY <4>1, <4>2, <3>2, <1>1, <1>2 DEF Bars
    <3>4. /\ new.open = ts.open /\ new.updated = ts.updated /\ new.close = t.price
          /\ new.high = hi /\ new.low = lo
      <4> HIDE DEF hi, lo
      <4> QED BY <3>1 DEF Bars
    <3> HIDE DEF new
    <3> QED BY <2>2, <3>3, <3>4
  <2> QED BY <2>1, <2>2
<1>4. PricesOf(Append(q, t)) = PricesOf(q) \cup {t.price} /\ PricesOf(q) \subseteq Nat
      /\ (q = <<>> => PricesOf(q) = {})
  BY AppendPrices
<1>5. {new.high, new.low} \subseteq PricesOf(Append(q, t))
  BY <1>3, <1>4
<1>6. \A x \in PricesOf(Append(q, t)) : new.low <= x /\ x <= new.high
  <2> HIDE DEF new
  <2> SUFFICES ASSUME NEW x \in PricesOf(Append(q, t))
               PROVE  new.low <= x /\ x <= new.high
    OBVIOUS
  <2>1. CASE ~ts.updated
    BY <2>1, <1>1, <1>3, <1>4
  <2>2. CASE ts.updated
    <3>1. q # <<>>
      BY <2>2
    <3>2. \A y \in PricesOf(q) : ts.low <= y /\ y <= ts.high
      BY <3>1
    <3>3. x \in Nat
      BY <1>1, <1>4
    <3> QED BY <2>2, <3>1, <3>2, <3>3, <1>1, <1>2, <1>3, <1>4
  <2> QED BY <2>1, <2>2, <1>2
<1>7. ~is_changed(ts, t.price) =>
         new.high = ts.high /\ new.low = ts.low /\ new.close = ts.close
  BY <1>1, <1>2, <1>3 DEF is_changed
<1> QED BY <1>3, <1>5, <1>6, <1>7

-----------------------------------------------------------------------------

\* What a step may do to the messages: InitFirst as a step formula.
FirstIsInit ==
  \A p \in Processors : \A s \in DOMAIN announced'[p] :
    LET m == announced'[p][s]
    IN  IF s \notin Known(p) THEN m.kind = "INIT"
        ELSE m.kind # "INIT" \/ m = announced[p][s]

\* A router starts without bars (the constructor and configure).
LEMMA InitHolds == Init => IInv
<1> SUFFICES ASSUME Init PROVE IInv
  OBVIOUS
<1>1. \A p \in Processors : Known(p) = {} /\ DOMAIN announced[p] = {}
  BY DEF Init, Known
<1>2. TypeOK
  BY <1>1 DEF Init, TypeOK
<1>3. NoBar \in Closed
  BY DEF NoBar, Closed
<1>4. Shapes
  BY <1>1, <1>3 DEF Init, Shapes
<1>5. Unseen
  BY DEF Init, Unseen
<1> QED BY <1>1, <1>2, <1>4, <1>5 DEF IInv, BarExact, Announced

\* The message about a bar is well formed and carries the bar (Source).
LEMMA SourceFacts ==
  ASSUME NEW ts \in Bars, NEW kind \in {"INIT", "UPDATE", "ADD"}
  PROVE  /\ Source(kind, ts) \in Messages
         /\ Source(kind, ts).kind = kind
         /\ Source(kind, ts).high = ts.high
         /\ Source(kind, ts).low = ts.low
         /\ Source(kind, ts).close = ts.close
BY DEF Source, Messages, Bars

\* What Apply does, symbol by symbol.
LEMMA ApplyEffect ==
  ASSUME IInv, NEW p \in Processors, NEW t \in Trades, t.symbol \in Subscribed, Apply(p, t)
  PROVE  LET s == t.symbol
             ts == IF s \in Known(p) THEN stats[p][s] ELSE NewStats
             new == update_stats(ts, t.price, t.size)
             m == Source(IF s \in Known(p) THEN "UPDATE" ELSE "INIT", new)
         IN  /\ stats' = [q \in Processors |-> stats'[q]]
             /\ announced' = [q \in Processors |-> announced'[q]]
             /\ \A q \in Processors \ {p} :
                  stats'[q] = stats[q] /\ announced'[q] = announced[q] /\ trades'[q] = trades[q]
             /\ Known(p)' = Known(p) \cup {s}
             /\ DOMAIN announced'[p] = Known(p) \cup {s}
             /\ stats'[p][s] = new
             /\ \A r \in Known(p) \ {s} :
                  stats'[p][r] = stats[p][r] /\ announced'[p][r] = announced[p][r]
             /\ IF is_changed(ts, t.price) THEN announced'[p][s] = m
                ELSE s \in Known(p) /\ announced'[p][s] = announced[p][s]
             /\ trades'[p][s] = Append(trades[p][s], t)
             /\ \A r \in Symbols \ {s} : trades'[p][r] = trades[p][r]
             /\ trades' \in [Processors -> [Symbols -> Seq(Trades)]]
<1> DEFINE s == t.symbol
           ts == IF s \in Known(p) THEN stats[p][s] ELSE NewStats
           new == update_stats(ts, t.price, t.size)
           m == Source(IF s \in Known(p) THEN "UPDATE" ELSE "INIT", new)
<1>1. /\ stats' = [stats EXCEPT ![p] = Put(@, s, new)]
      /\ announced' = IF is_changed(ts, t.price)
                      THEN [announced EXCEPT ![p] = Put(@, s, m)] ELSE announced
      /\ trades' = [trades EXCEPT ![p][s] = Append(@, t)]
  BY DEF Apply
<1>2. /\ stats = [q \in Processors |-> stats[q]]
      /\ announced = [q \in Processors |-> announced[q]]
      /\ trades \in [Processors -> [Symbols -> Seq(Trades)]]
      /\ DOMAIN announced[p] = Known(p)
  BY DEF IInv, Shapes, TypeOK
<1>3. s \in Symbols
  BY SymbolsAssumption DEF SymbolsAssumption
<1>4. ~is_changed(ts, t.price) => s \in Known(p)
  BY DEF is_changed, NewStats
<1> HIDE DEF s, ts, new, m
<1>5. /\ stats' = [q \in Processors |-> stats'[q]]
      /\ stats'[p] = Put(stats[p], s, new)
      /\ \A q \in Processors \ {p} : stats'[q] = stats[q]
  BY <1>1, <1>2
<1>6. /\ DOMAIN stats'[p] = Known(p) \cup {s}
      /\ stats'[p][s] = new
      /\ \A r \in Known(p) \ {s} : stats'[p][r] = stats[p][r]
  BY <1>5 DEF Put, Known
<1>7. /\ announced' = [q \in Processors |-> announced'[q]]
      /\ \A q \in Processors \ {p} : announced'[q] = announced[q]
      /\ DOMAIN announced'[p] = Known(p) \cup {s}
      /\ \A r \in Known(p) \ {s} : announced'[p][r] = announced[p][r]
      /\ IF is_changed(ts, t.price) THEN announced'[p][s] = m
         ELSE s \in Known(p) /\ announced'[p][s] = announced[p][s]
  <2>1. CASE is_changed(ts, t.price)
    <3>1. announced' = [announced EXCEPT ![p] = Put(announced[p], s, m)]
      BY <1>1, <2>1
    <3>2. /\ announced' = [q \in Processors |-> announced'[q]]
          /\ \A q \in Processors \ {p} : announced'[q] = announced[q]
          /\ announced'[p] = Put(announced[p], s, m)
      BY <3>1, <1>2
    <3>3. /\ DOMAIN announced'[p] = Known(p) \cup {s}
          /\ announced'[p][s] = m
          /\ \A r \in Known(p) \ {s} : announced'[p][r] = announced[p][r]
      BY <3>2, <1>2 DEF Put
    <3> QED BY <2>1, <3>2, <3>3
  <2>2. CASE ~is_changed(ts, t.price)
    <3>1. announced' = announced /\ s \in Known(p)
      BY <1>1, <1>4, <2>2
    <3> QED BY <2>2, <3>1, <1>2
  <2> QED BY <2>1, <2>2
<1>8. /\ trades'[p][s] = Append(trades[p][s], t)
      /\ \A r \in Symbols \ {s} : trades'[p][r] = trades[p][r]
      /\ \A q \in Processors \ {p} : trades'[q] = trades[q]
      /\ trades' \in [Processors -> [Symbols -> Seq(Trades)]]
  <2>1. trades[p][s] \in Seq(Trades) /\ Append(trades[p][s], t) \in Seq(Trades)
    BY <1>2, <1>3
  <2> QED BY <1>1, <1>2, <1>3, <2>1
<1>9. Known(p)' = Known(p) \cup {s}
  BY <1>6 DEF Known
<1> QED BY <1>5, <1>6, <1>7, <1>8, <1>9 DEF s, ts, new, m

\* The bar of one symbol: the conjunct of BarExact about it.
SymbolExact(ts, q, prev) ==
  /\ ts.open = prev.close
  /\ ts.updated <=> q # <<>>
  /\ IF q = <<>>
     THEN [high |-> ts.high, low |-> ts.low, close |-> ts.close] = prev
     ELSE /\ {ts.high, ts.low} \subseteq PricesOf(q)
          /\ \A x \in PricesOf(q) : ts.low <= x /\ x <= ts.high
          /\ ts.close = q[Len(q)].price

\* A trade (push of a packet that is not dropped) keeps the invariant, and the
\* message it sends is an INIT exactly for a new symbol.
LEMMA ApplyHolds ==
  ASSUME IInv, NEW p \in Processors, NEW t \in Trades, t.symbol \in Subscribed, Apply(p, t)
  PROVE  IInv' /\ FirstIsInit
<1> DEFINE s == t.symbol
           ts == IF s \in Known(p) THEN stats[p][s] ELSE NewStats
           new == update_stats(ts, t.price, t.size)
           kind == IF s \in Known(p) THEN "UPDATE" ELSE "INIT"
<1>1. /\ stats' = [q \in Processors |-> stats'[q]]
      /\ announced' = [q \in Processors |-> announced'[q]]
      /\ \A q \in Processors \ {p} :
           stats'[q] = stats[q] /\ announced'[q] = announced[q] /\ trades'[q] = trades[q]
      /\ Known(p)' = Known(p) \cup {s}
      /\ DOMAIN announced'[p] = Known(p) \cup {s}
      /\ stats'[p][s] = new
      /\ \A r \in Known(p) \ {s} :
           stats'[p][r] = stats[p][r] /\ announced'[p][r] = announced[p][r]
      /\ IF is_changed(ts, t.price) THEN announced'[p][s] = Source(kind, new)
         ELSE s \in Known(p) /\ announced'[p][s] = announced[p][s]
      /\ trades'[p][s] = Append(trades[p][s], t)
      /\ \A r \in Symbols \ {s} : trades'[p][r] = trades[p][r]
      /\ trades' \in [Processors -> [Symbols -> Seq(Trades)]]
  BY ApplyEffect
<1>2. /\ active' = active /\ previous' = previous /\ first_symbol' = FALSE
      /\ armed' = [armed EXCEPT ![p] = @ \/ first_symbol]
  BY DEF Apply
<1>3. s \in Symbols /\ Subscribed \subseteq Symbols
  BY SymbolsAssumption DEF SymbolsAssumption
<1>4. /\ trades[p][s] \in Seq(Trades)
      /\ previous \in [Processors -> [Symbols -> Closed]]
  BY <1>3 DEF IInv, Shapes
<1>5. ts \in Bars /\ SymbolExact(ts, trades[p][s], previous[p][s])
  <2>1. CASE s \in Known(p)
    <3>1. stats[p][s] \in Bars
      BY <2>1 DEF IInv, TypeOK
    <3>2. SymbolExact(stats[p][s], trades[p][s], previous[p][s])
      BY <2>1 DEF IInv, BarExact, SymbolExact
    <3> QED BY <2>1, <3>1, <3>2
  <2>2. CASE s \notin Known(p)
    <3>1. trades[p][s] = <<>> /\ previous[p][s] = NoBar
      BY <2>2, <1>3 DEF IInv, Unseen
    <3>2. NewStats \in Bars /\ SymbolExact(NewStats, <<>>, NoBar)
      BY DEF NewStats, Bars, SymbolExact, NoBar
    <3> QED BY <2>2, <3>1, <3>2
  <2> QED BY <2>1, <2>2
<1> HIDE DEF s, ts, kind
<1>6. /\ new \in Bars
      /\ new.open = ts.open /\ new.updated /\ new.close = t.price
      /\ {new.high, new.low} \subseteq PricesOf(Append(trades[p][s], t))
      /\ \A x \in PricesOf(Append(trades[p][s], t)) : new.low <= x /\ x <= new.high
      /\ ~is_changed(ts, t.price) =>
           new.high = ts.high /\ new.low = ts.low /\ new.close = ts.close
  <2>1. /\ ts.updated <=> trades[p][s] # <<>>
        /\ trades[p][s] # <<>> =>
             /\ {ts.high, ts.low} \subseteq PricesOf(trades[p][s])
             /\ \A x \in PricesOf(trades[p][s]) : ts.low <= x /\ x <= ts.high
    BY <1>5 DEF SymbolExact
  <2> QED BY <1>4, <1>5, <2>1, OneMoreTrade
<1> HIDE DEF new
<1>7. SymbolExact(new, Append(trades[p][s], t), previous[p][s])
  <2>1. /\ Append(trades[p][s], t) # <<>>
        /\ Append(trades[p][s], t)[Len(Append(trades[p][s], t))] = t
    BY <1>4, AppendPrices
  <2>2. new.open = previous[p][s].close
    BY <1>5, <1>6 DEF SymbolExact
  <2> QED BY <1>6, <2>1, <2>2 DEF SymbolExact
<1>8. /\ kind \in {"INIT", "UPDATE", "ADD"}
      /\ s \notin Known(p) => kind = "INIT"
      /\ s \in Known(p) => kind = "UPDATE"
  BY DEF kind
<1>9. /\ announced'[p][s] \in Messages
      /\ announced'[p][s].high = new.high /\ announced'[p][s].low = new.low
      /\ announced'[p][s].close = new.close
  <2>1. CASE is_changed(ts, t.price)
    BY <2>1, <1>1, <1>6, <1>8, SourceFacts
  <2>2. CASE ~is_changed(ts, t.price)
    <3>1. s \in Known(p) /\ announced'[p][s] = announced[p][s]
      BY <2>2, <1>1
    <3>2. /\ announced[p][s] \in Messages
          /\ announced[p][s].high = ts.high /\ announced[p][s].low = ts.low
          /\ announced[p][s].close = ts.close
      BY <3>1 DEF IInv, Shapes, Announced, ts
    <3> QED BY <2>2, <3>1, <3>2, <1>6
  <2> QED BY <2>1, <2>2
<1>10. \A q \in Processors : \A r \in Known(q)' :
         \/ q = p /\ r = s
         \/ /\ r \in Known(q) /\ stats'[q][r] = stats[q][r] /\ announced'[q][r] = announced[q][r]
            /\ r \in Symbols => trades'[q][r] = trades[q][r]
  <2> SUFFICES ASSUME NEW q \in Processors, NEW r \in Known(q)', ~(q = p /\ r = s)
               PROVE  /\ r \in Known(q) /\ stats'[q][r] = stats[q][r]
                      /\ announced'[q][r] = announced[q][r]
                      /\ r \in Symbols => trades'[q][r] = trades[q][r]
    OBVIOUS
  <2>1. CASE q = p
    BY <2>1, <1>1
  <2>2. CASE q # p
    BY <2>2, <1>1 DEF Known
  <2> QED BY <2>1, <2>2
<1>11. TypeOK'
  <2>1. \A q \in Processors : Known(q)' \subseteq Subscribed
    <3> SUFFICES ASSUME NEW q \in Processors, NEW r \in Known(q)' PROVE r \in Subscribed
      OBVIOUS
    <3>1. \A x \in Known(q) : x \in Subscribed
      BY DEF IInv, TypeOK
    <3> QED BY <3>1, <1>10 DEF s
  <2>2. \A q \in Processors : \A r \in Known(q)' : stats'[q][r] \in Bars
    <3>1. \A q \in Processors : \A r \in Known(q) : stats[q][r] \in Bars
      BY DEF IInv, TypeOK
    <3> QED BY <3>1, <1>1, <1>6, <1>10
  <2>3. \A q \in Processors : DOMAIN announced'[q] = Known(q)'
    <3> SUFFICES ASSUME NEW q \in Processors PROVE DOMAIN announced'[q] = Known(q)'
      OBVIOUS
    <3>1. DOMAIN announced[q] = Known(q)
      BY DEF IInv, TypeOK
    <3>2. CASE q = p
      BY <3>2, <1>1
    <3>3. CASE q # p
      BY <3>1, <3>3, <1>1 DEF Known
    <3> QED BY <3>2, <3>3
  <2>4. active' \in [Processors -> BOOLEAN] /\ first_symbol' \in BOOLEAN
    BY <1>2 DEF IInv, TypeOK
  <2>5. armed' \in [Processors -> BOOLEAN]
    BY <1>2, Zenon DEF IInv, TypeOK
  <2> QED BY <2>1, <2>2, <2>3, <2>4, <2>5 DEF TypeOK
<1>12. Shapes'
  <2>1. \A q \in Processors : \A r \in Known(q)' : announced'[q][r] \in Messages
    <3>1. \A q \in Processors : \A r \in Known(q) : announced[q][r] \in Messages
      BY DEF IInv, Shapes
    <3> QED BY <3>1, <1>9, <1>10
  <2> QED BY <2>1, <1>1, <1>2, <1>4 DEF Shapes
<1>13. Unseen'
  <2> SUFFICES ASSUME NEW q \in Processors, NEW r \in Symbols, r \notin Known(q)'
               PROVE  trades'[q][r] = <<>> /\ previous'[q][r] = NoBar
    BY DEF Unseen
  <2>1. r \notin Known(q) /\ trades'[q][r] = trades[q][r]
    <3>1. CASE q = p
      BY <3>1, <1>1
    <3>2. CASE q # p
      BY <3>2, <1>1 DEF Known
    <3> QED BY <3>1, <3>2
  <2> QED BY <2>1, <1>2 DEF IInv, Unseen
<1>14. BarExact'
  <2>1. \A q \in Processors : \A r \in Known(q)' :
          SymbolExact(stats'[q][r], trades'[q][r], previous'[q][r])
    <3> SUFFICES ASSUME NEW q \in Processors, NEW r \in Known(q)'
                 PROVE  SymbolExact(stats'[q][r], trades'[q][r], previous'[q][r])
      OBVIOUS
    <3>1. CASE q = p /\ r = s
      BY <3>1, <1>1, <1>2, <1>7
    <3>2. CASE ~(q = p /\ r = s)
      <4>1. r \in Known(q)
        BY <3>2, <1>10
      <4>2. r \in Symbols
        BY <4>1, <1>3 DEF IInv, TypeOK
      <4>3. SymbolExact(stats[q][r], trades[q][r], previous[q][r])
        BY <4>1 DEF IInv, BarExact, SymbolExact
      <4> QED BY <3>2, <4>2, <4>3, <1>2, <1>10
    <3> QED BY <3>1, <3>2
  <2> QED BY <2>1 DEF BarExact, SymbolExact
<1>15. Announced'
  <2> SUFFICES ASSUME NEW q \in Processors, NEW r \in Known(q)'
               PROVE  /\ announced'[q][r].high = stats'[q][r].high
                      /\ announced'[q][r].low = stats'[q][r].low
                      /\ announced'[q][r].close = stats'[q][r].close
    BY DEF Announced
  <2>1. CASE q = p /\ r = s
    BY <2>1, <1>1, <1>9
  <2>2. CASE ~(q = p /\ r = s)
    BY <2>2, <1>10 DEF IInv, Announced
  <2> QED BY <2>1, <2>2
<1>16. FirstIsInit
  <2> SUFFICES ASSUME NEW q \in Processors, NEW r \in DOMAIN announced'[q]
               PROVE  IF r \notin Known(q) THEN announced'[q][r].kind = "INIT"
                      ELSE \/ announced'[q][r].kind # "INIT"
                           \/ announced'[q][r] = announced[q][r]
    BY DEF FirstIsInit
  <2>1. r \in Known(q)'
    BY <1>11 DEF TypeOK
  <2>2. CASE q = p /\ r = s
    <3>1. CASE is_changed(ts, t.price)
      <4>1. announced'[p][s].kind = kind
        BY <3>1, <1>1, <1>6, <1>8, SourceFacts
      <4> QED BY <2>2, <4>1, <1>8
    <3>2. CASE ~is_changed(ts, t.price)
      BY <2>2, <3>2, <1>1
    <3> QED BY <3>1, <3>2
  <2>3. CASE ~(q = p /\ r = s)
    BY <2>1, <2>3, <1>10
  <2> QED BY <2>2, <2>3
<1> QED BY <1>11, <1>12, <1>13, <1>14, <1>15, <1>16 DEF IInv

\* A rolled-over bar keeps its range and opens at its close.
LEMMA RolloverFacts ==
  ASSUME NEW ts \in Bars
  PROVE  /\ rollover(ts) \in Bars
         /\ rollover(ts).high = ts.high /\ rollover(ts).low = ts.low
         /\ rollover(ts).close = ts.close /\ rollover(ts).open = ts.close
         /\ rollover(ts).updated = FALSE
<1> DEFINE r == rollover(ts)
<1>1. r = [high |-> ts.high, low |-> ts.low, open |-> ts.close, close |-> ts.close,
           size |-> 0, updated |-> FALSE]
  <2>1. r = [ts EXCEPT !.open = ts.close, !.size = 0, !.updated = FALSE]
    BY DEF rollover
  <2> HIDE DEF r
  <2> QED BY <2>1 DEF Bars
<1>2. ts.high \in Nat /\ ts.low \in Nat /\ ts.close \in Nat
  BY DEF Bars
<1> HIDE DEF r
<1>3. r \in Bars
  BY <1>1, <1>2 DEF Bars
<1> QED BY <1>1, <1>3 DEF r

\* The timer (run_timer with rollover) keeps the invariant and sends no INIT.
LEMMA TimerHolds ==
  ASSUME IInv, NEW p \in Processors, RunTimer(p)
  PROVE  IInv' /\ FirstIsInit
<1>1. /\ announced' = [announced EXCEPT ![p] = [s \in Known(p) |-> Source("ADD", stats[p][s])]]
      /\ stats' = [stats EXCEPT ![p] = [s \in Known(p) |-> rollover(stats[p][s])]]
      /\ trades' = [trades EXCEPT ![p] = [s \in Symbols |-> <<>>]]
      /\ active' = active /\ first_symbol' = first_symbol
      /\ armed' = [armed EXCEPT ![p] = TRUE]
  BY DEF RunTimer, Rescheduled
<1>2. /\ stats = [q \in Processors |-> stats[q]]
      /\ announced = [q \in Processors |-> announced[q]]
      /\ trades \in [Processors -> [Symbols -> Seq(Trades)]]
      /\ previous \in [Processors -> [Symbols -> Closed]]
      /\ \A q \in Processors : DOMAIN announced[q] = Known(q)
      /\ \A q \in Processors : Known(q) \subseteq Subscribed
      /\ \A q \in Processors : \A s \in Known(q) : stats[q][s] \in Bars
      /\ Subscribed \subseteq Symbols
  BY SymbolsAssumption DEF IInv, Shapes, TypeOK, SymbolsAssumption
<1>3. /\ stats' = [q \in Processors |-> stats'[q]]
      /\ stats'[p] = [s \in Known(p) |-> rollover(stats[p][s])]
      /\ \A q \in Processors \ {p} : stats'[q] = stats[q]
  BY <1>1, <1>2
<1>4. /\ announced' = [q \in Processors |-> announced'[q]]
      /\ announced'[p] = [s \in Known(p) |-> Source("ADD", stats[p][s])]
      /\ \A q \in Processors \ {p} : announced'[q] = announced[q]
  BY <1>1, <1>2
<1>5. \A q \in Processors : Known(q)' = Known(q)
  BY <1>3 DEF Known
<1>6. /\ trades' \in [Processors -> [Symbols -> Seq(Trades)]]
      /\ \A s \in Symbols : trades'[p][s] = <<>>
      /\ \A q \in Processors \ {p} : trades'[q] = trades[q]
  <2>1. [s \in Symbols |-> <<>>] \in [Symbols -> Seq(Trades)]
    OBVIOUS
  <2> QED BY <1>1, <1>2, <2>1
<1> DEFINE closed(s) == [high |-> stats[p][s].high, low |-> stats[p][s].low,
                         close |-> stats[p][s].close]
           prev == [s \in Symbols |-> IF s \in Known(p) THEN closed(s) ELSE previous[p][s]]
<1>7. previous' = [previous EXCEPT ![p] = prev]
  BY DEF RunTimer
<1>8. \A s \in Known(p) : closed(s) \in Closed
  BY <1>2 DEF Closed, Bars
<1> HIDE DEF closed
<1>9. prev \in [Symbols -> Closed]
  BY <1>2, <1>8
<1> HIDE DEF prev
<1>10. /\ previous' \in [Processors -> [Symbols -> Closed]]
       /\ previous'[p] = prev
       /\ \A q \in Processors \ {p} : previous'[q] = previous[q]
  BY <1>2, <1>7, <1>9
<1>11. \A s \in Known(p) : previous'[p][s] = closed(s)
  BY <1>2, <1>10 DEF prev
<1>12. \A s \in Known(p) :
         LET ts == stats[p][s]
             r == stats'[p][s]
         IN  /\ r \in Bars
             /\ r.high = ts.high /\ r.low = ts.low /\ r.close = ts.close
             /\ r.open = ts.close /\ r.updated = FALSE
  <2> SUFFICES ASSUME NEW s \in Known(p)
               PROVE  LET ts == stats[p][s]
                          r == stats'[p][s]
                      IN  /\ r \in Bars
                          /\ r.high = ts.high /\ r.low = ts.low /\ r.close = ts.close
                          /\ r.open = ts.close /\ r.updated = FALSE
    OBVIOUS
  <2>1. stats[p][s] \in Bars /\ stats'[p][s] = rollover(stats[p][s])
    BY <1>2, <1>3
  <2> QED BY <2>1, RolloverFacts
<1>13. \A s \in Known(p) :
         /\ announced'[p][s] \in Messages
         /\ announced'[p][s].kind = "ADD"
         /\ announced'[p][s].high = stats[p][s].high
         /\ announced'[p][s].low = stats[p][s].low
         /\ announced'[p][s].close = stats[p][s].close
  BY <1>2, <1>4, SourceFacts
<1>14. TypeOK'
  <2>1. \A q \in Processors : \A s \in Known(q)' : stats'[q][s] \in Bars
    BY <1>2, <1>3, <1>5, <1>12
  <2>2. \A q \in Processors : DOMAIN announced'[q] = Known(q)'
    BY <1>2, <1>4, <1>5
  <2>3. armed' \in [Processors -> BOOLEAN]
    BY <1>1 DEF IInv, TypeOK
  <2>4. active' \in [Processors -> BOOLEAN] /\ first_symbol' \in BOOLEAN
    BY <1>1 DEF IInv, TypeOK
  <2> QED BY <2>1, <2>2, <2>3, <2>4, <1>2, <1>5 DEF TypeOK
<1>15. Shapes'
  <2>1. \A q \in Processors : \A s \in Known(q)' : announced'[q][s] \in Messages
    <3>1. \A q \in Processors : \A s \in Known(q) : announced[q][s] \in Messages
      BY DEF IInv, Shapes
    <3> QED BY <3>1, <1>4, <1>5, <1>13
  <2> QED BY <2>1, <1>3, <1>4, <1>6, <1>10 DEF Shapes
<1>16. Unseen'
  <2> SUFFICES ASSUME NEW q \in Processors, NEW s \in Symbols, s \notin Known(q)'
               PROVE  trades'[q][s] = <<>> /\ previous'[q][s] = NoBar
    BY DEF Unseen
  <2>1. s \notin Known(q) /\ trades[q][s] = <<>> /\ previous[q][s] = NoBar
    BY <1>5 DEF IInv, Unseen
  <2>2. CASE q = p
    BY <2>1, <2>2, <1>6, <1>10 DEF prev
  <2>3. CASE q # p
    BY <2>1, <2>3, <1>6, <1>10
  <2> QED BY <2>2, <2>3
<1>17. BarExact'
  <2>1. \A q \in Processors : \A s \in Known(q)' :
          SymbolExact(stats'[q][s], trades'[q][s], previous'[q][s])
    <3> SUFFICES ASSUME NEW q \in Processors, NEW s \in Known(q)'
                 PROVE  SymbolExact(stats'[q][s], trades'[q][s], previous'[q][s])
      OBVIOUS
    <3>1. s \in Known(q) /\ s \in Symbols
      BY <1>2, <1>5
    <3>2. CASE q = p
      <4>1. s \in Known(p)
        BY <3>1, <3>2
      <4>2. trades'[p][s] = <<>> /\ previous'[p][s] = closed(s)
        BY <4>1, <3>1, <1>6, <1>11
      <4>3. SymbolExact(stats'[p][s], <<>>, closed(s))
        BY <4>1, <1>12 DEF SymbolExact, closed
      <4> QED BY <3>2, <4>2, <4>3
    <3>3. CASE q # p
      <4>1. SymbolExact(stats[q][s], trades[q][s], previous[q][s])
        BY <3>1 DEF IInv, BarExact, SymbolExact
      <4> QED BY <3>3, <4>1, <1>3, <1>6, <1>10
    <3> QED BY <3>2, <3>3
  <2> QED BY <2>1 DEF BarExact, SymbolExact
<1>18. Announced'
  <2> SUFFICES ASSUME NEW q \in Processors, NEW s \in Known(q)'
               PROVE  /\ announced'[q][s].high = stats'[q][s].high
                      /\ announced'[q][s].low = stats'[q][s].low
                      /\ announced'[q][s].close = stats'[q][s].close
    BY DEF Announced
  <2>1. s \in Known(q)
    BY <1>5
  <2>2. CASE q = p
    BY <2>1, <2>2, <1>12, <1>13
  <2>3. CASE q # p
    BY <2>1, <2>3, <1>3, <1>4 DEF IInv, Announced
  <2> QED BY <2>2, <2>3
<1>19. FirstIsInit
  <2> SUFFICES ASSUME NEW q \in Processors, NEW s \in DOMAIN announced'[q]
               PROVE  /\ s \in Known(q)
                      /\ \/ announced'[q][s].kind # "INIT"
                         \/ announced'[q][s] = announced[q][s]
    BY DEF FirstIsInit
  <2>1. s \in Known(q)
    BY <1>5, <1>14 DEF TypeOK
  <2>2. CASE q = p
    <3>1. s \in Known(p)
      BY <2>1, <2>2
    <3>2. announced'[p][s].kind = "ADD"
      BY <3>1, <1>13
    <3> QED BY <2>1, <2>2, <3>2
  <2>3. CASE q # p
    BY <2>1, <2>3, <1>4
  <2> QED BY <2>1, <2>2, <2>3
<1> QED BY <1>14, <1>15, <1>16, <1>17, <1>18, <1>19 DEF IInv

\* Steps that touch neither bars nor messages: a dropped packet and the handler
\* "active".
LEMMA QuietHolds ==
  ASSUME IInv, active' \in [Processors -> BOOLEAN],
         UNCHANGED <<stats, armed, first_symbol, announced, trades, previous>>
  PROVE  IInv' /\ FirstIsInit
<1>1. \A q \in Processors : Known(q)' = Known(q)
  BY DEF Known
<1>2. TypeOK' /\ Shapes' /\ Unseen'
  BY <1>1 DEF IInv, TypeOK, Shapes, Unseen
<1>3. BarExact' /\ Announced'
  BY <1>1 DEF IInv, BarExact, Announced
<1>4. FirstIsInit
  BY DEF IInv, TypeOK, FirstIsInit
<1> QED BY <1>2, <1>3, <1>4 DEF IInv

\* Every step of a router's TradeProcessors keeps the invariant.
THEOREM Inductive == IInv /\ [Next]_vars => IInv' /\ FirstIsInit
<1> SUFFICES ASSUME IInv, [Next]_vars PROVE IInv' /\ FirstIsInit
  OBVIOUS
<1>1. ASSUME UNCHANGED vars PROVE IInv' /\ FirstIsInit
  <2>1. active' \in [Processors -> BOOLEAN]
    BY <1>1 DEF IInv, TypeOK, vars
  <2> QED BY <1>1, <2>1, QuietHolds DEF vars
<1>2. ASSUME NEW p \in Processors, NEW pkt \in Packets, Push(p, pkt) PROVE IInv' /\ FirstIsInit
  <2>1. CASE Ignore(p, pkt)
    BY <2>1, <1>1 DEF Ignore
  <2>2. CASE /\ populate_msg_trade(pkt) /\ Trade(pkt).symbol \in Subscribed
             /\ Apply(p, Trade(pkt))
    <3>1. Trade(pkt) \in Trades
      BY <2>2, PacketTrade
    <3> QED BY <2>2, <3>1, ApplyHolds
  <2> QED BY <1>2, <2>1, <2>2 DEF Push
<1>3. ASSUME NEW p \in Processors, RunTimer(p) PROVE IInv' /\ FirstIsInit
  BY <1>3, TimerHolds
<1>4. ASSUME NEW p \in Processors, SetActive(p) PROVE IInv' /\ FirstIsInit
  <2>1. active' \in [Processors -> BOOLEAN]
    BY <1>4 DEF IInv, TypeOK, SetActive
  <2> QED BY <1>4, <2>1, QuietHolds DEF SetActive
<1> QED BY <1>1, <1>2, <1>3, <1>4 DEF Next

\* Only subscribed symbols ever have a bar.
THEOREM TypeCorrect == Spec => []TypeOK
<1>1. IInv => TypeOK
  BY DEF IInv
<1> QED BY <1>1, InitHolds, Inductive, PTL DEF Spec

\* In every interval of every symbol the bar is the one of the interval's
\* trades (update_stats, rollover).
THEOREM BarsAreExact == Spec => []BarExact
<1>1. IInv => BarExact
  BY DEF IInv
<1> QED BY <1>1, InitHolds, Inductive, PTL DEF Spec

\* The messages that push does not send ("no update - no msg") are not missed.
THEOREM NothingUnannounced == Spec => []Announced
<1>1. IInv => Announced
  BY DEF IInv
<1> QED BY <1>1, InitHolds, Inductive, PTL DEF Spec

\* A symbol's first message is its INIT, and no later one is.
THEOREM InitComesFirst == Spec => InitFirst
<1>1. IInv /\ [Next]_vars => [FirstIsInit]_vars
  BY Inductive
<1>2. InitFirst <=> [][FirstIsInit]_vars
  BY DEF InitFirst, FirstIsInit
<1> QED BY <1>1, <1>2, InitHolds, Inductive, PTL DEF Spec
=============================================================================
