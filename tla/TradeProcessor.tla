--------------------------- MODULE TradeProcessor ---------------------------
(***************************************************************************)
(* The TradeProcessor elements of a router (trade_processor.cc).  Each     *)
(* parses trade packets, keeps a bar per subscribed symbol, tells the      *)
(* symbol's output port about every change of the bar, and when its timer  *)
(* fires sends every bar as an ADD and starts the next interval.           *)
(*                                                                         *)
(* A packet is what the parser can tell apart: the number of '|' in it and *)
(* the fields they delimit, the size being what follows the fourth.  A     *)
(* packet that parses is long enough to hold the message that replaces it, *)
(* so the "packet too small" branch of send_update_msg is not taken.       *)
(***************************************************************************)
EXTENDS TimeStats, Sequences

CONSTANTS Processors,  \* the TradeProcessor elements
          Symbols,     \* the symbols a packet may carry, at most 9 characters
          LongSymbol,  \* stands for a longer one
          NoSymbol,    \* the empty symbol of a message with fewer fields
          NoSize,      \* nothing after the last '|'
          Subscribed,  \* the symbols of SYMBOLS_ROUTING
          Prices, Sizes,
          MaxTrades    \* bound on the trades of a symbol in one interval

ASSUME SymbolsAssumption ==
  /\ Subscribed \subseteq Symbols
  /\ LongSymbol \notin Symbols /\ NoSymbol \notin Symbols
  /\ Prices \subseteq Nat /\ Sizes \subseteq Nat

VARIABLES stats,         \* _time_stats_map: the bars of the symbols seen so far
          active,        \* _active
          armed,         \* whether _timer is scheduled
          first_symbol,  \* the static local of push, shared by all elements
          announced,     \* the last message sent per symbol (history)
          trades,        \* the trades of the current interval (history)
          previous       \* the last bar sent as an ADD (history)

vars == <<stats, active, armed, first_symbol, announced, trades, previous>>

Packets ==
  [bars : {0, 1, 2, 5}]
    \cup [bars : {3}, symbol : Symbols \cup {LongSymbol}]
    \cup [bars : {4}, symbol : Symbols \cup {LongSymbol}, price : Prices, size : Sizes \cup {NoSize}]

\* Whether a packet parses, and the trade it is parsed to: fields that are
\* missing keep the values of a new MsgTrade.
populate_msg_trade(pkt) ==
  /\ pkt.bars \in 1 .. 4
  /\ pkt.bars \in {3, 4} => pkt.symbol # LongSymbol
  /\ pkt.bars = 4 => pkt.size # NoSize

Trade(pkt) ==
  [symbol |-> IF pkt.bars \in {3, 4} THEN pkt.symbol ELSE NoSymbol,
   price |-> IF pkt.bars = 4 THEN pkt.price ELSE 0,
   size |-> IF pkt.bars = 4 THEN pkt.size ELSE 0]

Known(p) == DOMAIN stats[p]

NoBar == [high |-> 0, low |-> 0, close |-> 0]

Init ==
  /\ stats = [p \in Processors |-> <<>>]
  /\ active = [p \in Processors |-> TRUE]
  /\ armed = [p \in Processors |-> FALSE]
  /\ first_symbol = TRUE
  /\ announced = [p \in Processors |-> <<>>]
  /\ trades = [p \in Processors |-> [s \in Symbols |-> <<>>]]
  /\ previous = [p \in Processors |-> [s \in Symbols |-> NoBar]]

Put(f, s, x) == [t \in DOMAIN f \cup {s} |-> IF t = s THEN x ELSE f[t]]

\* A packet is dropped: it does not parse or its symbol is not subscribed to.
\* An element that is not active forwards it.
Ignore(p, pkt) ==
  /\ ~(active[p] /\ populate_msg_trade(pkt) /\ Trade(pkt).symbol \in Subscribed)
  /\ UNCHANGED vars

\* Mutant: the symbol's first message is an UPDATE like any other.
Apply_NoInit(p, t) ==
  LET s == t.symbol
      ts == IF s \in Known(p) THEN stats[p][s] ELSE NewStats
      new == update_stats(ts, t.price, t.size)
  IN  /\ armed' = [armed EXCEPT ![p] = @ \/ first_symbol]
      /\ first_symbol' = FALSE
      /\ stats' = [stats EXCEPT ![p] = Put(@, s, new)]
      /\ announced' = IF is_changed(ts, t.price)
                      THEN [announced EXCEPT ![p] = Put(@, s, Source("UPDATE", new))]
                      ELSE announced
      /\ trades' = [trades EXCEPT ![p][s] = Append(@, t)]
      /\ UNCHANGED <<active, previous>>

\* A trade of a subscribed symbol.  The first one of all starts the timer, and
\* the first one of a symbol is sent as its INIT.
Apply(p, t) ==
  LET s == t.symbol
      ts == IF s \in Known(p) THEN stats[p][s] ELSE NewStats
      new == update_stats(ts, t.price, t.size)
  IN  /\ armed' = [armed EXCEPT ![p] = @ \/ first_symbol]
      /\ first_symbol' = FALSE
      /\ stats' = [stats EXCEPT ![p] = Put(@, s, new)]
      /\ announced' = IF is_changed(ts, t.price)
                      THEN [announced EXCEPT ![p] = Put(@, s,
                             Source(IF s \in Known(p) THEN "UPDATE" ELSE "INIT", new))]
                      ELSE announced
      /\ trades' = [trades EXCEPT ![p][s] = Append(@, t)]
      /\ UNCHANGED <<active, previous>>

Push(p, pkt) ==
  \/ Ignore(p, pkt)
  \/ /\ active[p] /\ populate_msg_trade(pkt) /\ Trade(pkt).symbol \in Subscribed
     /\ Len(trades[p][Trade(pkt).symbol]) < MaxTrades
     /\ Apply(p, Trade(pkt))

\* Mutant: the timer is not rescheduled.
Rescheduled_Once(p) == [armed EXCEPT ![p] = FALSE]

Rescheduled(p) == [armed EXCEPT ![p] = TRUE]

\* The timer: every bar is sent, whether or not there was a trade.
RunTimer(p) ==
  /\ armed[p]
  /\ armed' = Rescheduled(p)
  /\ announced' = [announced EXCEPT ![p] =
                     [s \in Known(p) |-> Source("ADD", stats[p][s])]]
  /\ stats' = [stats EXCEPT ![p] = [s \in Known(p) |-> rollover(stats[p][s])]]
  /\ trades' = [trades EXCEPT ![p] = [s \in Symbols |-> <<>>]]
  /\ previous' = [previous EXCEPT ![p] =
                    [s \in Symbols |->
                       IF s \in Known(p)
                       THEN [high |-> stats[p][s].high, low |-> stats[p][s].low,
                             close |-> stats[p][s].close]
                       ELSE @[s]]]
  /\ UNCHANGED <<active, first_symbol>>

\* The handler "active".
SetActive(p) ==
  /\ active' = [active EXCEPT ![p] = ~@]
  /\ UNCHANGED <<stats, armed, first_symbol, announced, trades, previous>>

Next ==
  \E p \in Processors :
    \/ \E pkt \in Packets : Push(p, pkt)
    \/ RunTimer(p)
    \/ SetActive(p)

\* Click serves its timers in every round of the driver loop.
Spec == Init /\ [][Next]_vars /\ \A p \in Processors : WF_vars(RunTimer(p))

-----------------------------------------------------------------------------
(* Properties *)

Bars ==
  [high : Nat, low : Nat, open : Nat, close : Nat, size : Nat, updated : BOOLEAN]

\* Only subscribed symbols have a bar, each with legal fields.
TypeOK ==
  /\ \A p \in Processors :
       /\ Known(p) \subseteq Subscribed
       /\ \A s \in Known(p) : stats[p][s] \in Bars
       /\ DOMAIN announced[p] = Known(p)
  /\ active \in [Processors -> BOOLEAN] /\ armed \in [Processors -> BOOLEAN]
  /\ first_symbol \in BOOLEAN

PricesOf(q) == {q[i].price : i \in DOMAIN q}

\* A bar is the one of exactly the interval's trades: high and low are the
\* extremes of their prices and close is the last; before the first of them all
\* three are those of the interval before.  Open is the close of the interval
\* before (0 in the first).
BarExact ==
  \A p \in Processors : \A s \in Known(p) :
    LET ts == stats[p][s]
        q == trades[p][s]
    IN  /\ ts.open = previous[p][s].close
        /\ ts.updated <=> q # <<>>
        /\ IF q = <<>>
           THEN [high |-> ts.high, low |-> ts.low, close |-> ts.close] = previous[p][s]
           ELSE /\ {ts.high, ts.low} \subseteq PricesOf(q)
                /\ \A x \in PricesOf(q) : ts.low <= x /\ x <= ts.high
                /\ ts.close = q[Len(q)].price

Volume(q) ==
  LET upTo[i \in 0 .. Len(q)] == IF i = 0 THEN 0 ELSE upTo[i - 1] + q[i].size
  IN  upTo[Len(q)]

\* The size of a bar is the volume of exactly the interval's trades, those that
\* changed nothing else and sent no message included.
VolumeExact ==
  \A p \in Processors : \A s \in Known(p) : stats[p][s].size = Volume(trades[p][s])

\* "No update - no msg" loses nothing: the last message sent for a symbol has
\* the high, low and close its bar has now.
Announced ==
  \A p \in Processors : \A s \in Known(p) :
    LET m == announced[p][s]
        ts == stats[p][s]
    IN  m.high = ts.high /\ m.low = ts.low /\ m.close = ts.close

\* The first message of a symbol is its INIT and no later one is.
InitFirst ==
  [][\A p \in Processors : \A s \in DOMAIN announced'[p] :
       LET m == announced'[p][s]
       IN  IF s \notin Known(p) THEN m.kind = "INIT"
           ELSE m.kind # "INIT" \/ m = announced[p][s]]_vars

\* An interval that has begun, with the symbol's first trade in it, comes to its end.
IntervalsEnd ==
  \A p \in Processors : \A s \in Subscribed :
    []<>(s \in Known(p) => ~stats[p][s].updated)

\* The timer of an element runs once it has received its first update.
TimerStarted == \A p \in Processors : Known(p) # {} => armed[p]
=============================================================================
