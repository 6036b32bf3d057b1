-------------------------------- MODULE Chix --------------------------------
(***************************************************************************)
(* The element ChixTradeHandler (elements/standard/chix_trade_handler.cc   *)
(* and .hh), which follows the orders of a market-data feed and turns each *)
(* execution into a trade.  A message has a short or a long form; the long *)
(* form has room for share counts that do not fit in an int, and an int is *)
(* what the counts of an added and of an executed order are passed in.     *)
(*                                                                         *)
(* A price or a symbol is what the field parses to.  A packet is killed or *)
(* handed on as a trade; the packets of executions are long enough for one *)
(* (send_msg_trade), and an output is connected.                           *)
(***************************************************************************)
EXTENDS Integers

CONSTANTS Refs,      \* reference numbers
          Terms,     \* symbol and price of an order
          MaxShort,  \* the largest count in a short message: 10^6 - 1
          MaxLong,   \* the largest count in a long message: 10^10 - 1
          MaxInt,    \* 2^31 - 1
          MaxTaken   \* bound on the shares taken from one order

VARIABLES active,    \* _active
          orderMap,  \* _orderMap
          out,       \* the trade sent for the last packet, if any
          ledger     \* the last order added under each number, and what the
                     \* messages since have taken from it (history)

vars == <<active, orderMap, out, ledger>>

\* The conversion of a long to an int.
ToInt(n) == ((n + MaxInt + 1) % (2 * MaxInt + 2)) - (MaxInt + 1)

\* The function f with x mapped to v, or without x.
With(f, x, v) == [y \in DOMAIN f \cup {x} |-> IF y = x THEN v ELSE f[y]]
Without(f, x) == [y \in DOMAIN f \ {x} |-> f[y]]

Init ==
  /\ active = TRUE
  /\ orderMap = [r \in {} |-> {}]
  /\ ledger = [r \in {} |-> {}]
  /\ out = <<>>

\* The write handler "active".
WriteHandler ==
  /\ active' \in BOOLEAN
  /\ UNCHANGED <<orderMap, out, ledger>>

\* push, of a packet that is too short, of an unknown type or of the wrong length
\* for its type, and of any packet while the element is inactive.
Discard ==
  /\ out' = <<>>
  /\ UNCHANGED <<active, orderMap, ledger>>

NewOrder(terms, shares) ==
  [terms |-> terms, added |-> shares, taken |-> 0, touched |-> FALSE,
   wide |-> shares > MaxInt]

\* Mutant: an order that is there is kept.
Insert_Keep(ref, order) == IF ref \in DOMAIN orderMap THEN orderMap ELSE With(orderMap, ref, order)

\* HashMap::insert.
Insert(ref, order) == With(orderMap, ref, order)

\* do_parse_add_order: an order with the same number is replaced.
AddOrder(ref, terms, shares) ==
  /\ active
  /\ orderMap' = Insert(ref, [terms |-> terms, shares |-> ToInt(shares)])
  /\ ledger' = With(ledger, ref, NewOrder(terms, shares))
  /\ out' = <<>>
  /\ UNCHANGED active

\* The order loses shares, and its place in the map when fewer than one is left.
Reduce(ref, shares) ==
  orderMap' = IF orderMap[ref].shares - shares < 1 THEN Without(orderMap, ref)
              ELSE [orderMap EXCEPT ![ref].shares = @ - shares]

Taken(ref, shares) ==
  IF ref \notin DOMAIN ledger THEN UNCHANGED ledger
  ELSE /\ ledger[ref].taken + shares <= MaxTaken
       /\ ledger' = [ledger EXCEPT ![ref].taken = @ + shares, ![ref].touched = TRUE,
                                   ![ref].wide = @ \/ shares > MaxInt]

\* do_parse_cancel_order, where the count is a 64-bit number.
CancelOrder(ref, shares) ==
  /\ active
  /\ IF ref \in DOMAIN orderMap THEN Reduce(ref, shares) ELSE UNCHANGED orderMap
  /\ Taken(ref, shares)
  /\ out' = <<>>
  /\ UNCHANGED active

\* do_parse_execute_order, where it is an int; the trade is sent before the map is
\* changed.
ExecuteOrder(ref, shares) ==
  /\ active
  /\ IF ref \in DOMAIN orderMap
     THEN /\ out' = <<[ref |-> ref, terms |-> orderMap[ref].terms, size |-> ToInt(shares)]>>
          /\ Reduce(ref, ToInt(shares))
     ELSE out' = <<>> /\ UNCHANGED orderMap
  /\ Taken(ref, shares)
  /\ UNCHANGED active

Counts == (0 .. MaxShort) \cup {MaxLong}

Next ==
  \/ WriteHandler
  \/ Discard
  \/ \E ref \in Refs, shares \in Counts :
       \/ \E terms \in Terms : AddOrder(ref, terms, shares)
       \/ CancelOrder(ref, shares)
       \/ ExecuteOrder(ref, shares)

Spec == Init /\ [][Next]_vars

-----------------------------------------------------------------------------
(* Properties *)

\* As long as the counts fit in an int, the map holds an order until the messages
\* since it was added have taken all its shares, and then no longer, whatever
\* messages about the number come before or after and even if the number is used
\* again; a trade tells of the order that was added last.
BookExact ==
  /\ \A ref \in DOMAIN ledger :
       LET l == ledger[ref] IN
       ~l.wide => /\ ref \in DOMAIN orderMap <=> l.taken < l.added \/ ~l.touched
                  /\ ref \in DOMAIN orderMap =>
                       orderMap[ref] = [terms |-> l.terms, shares |-> l.added - l.taken]
  /\ DOMAIN orderMap \subseteq DOMAIN ledger
  /\ out # <<>> => out[1].terms = ledger[out[1].ref].terms
=============================================================================
