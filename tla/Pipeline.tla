------------------------------ MODULE Pipeline ------------------------------
(***************************************************************************)
(* The indicator graphs of indicator_configs: one symbol's trades go       *)
(* through TradeProcessor, Timestamper and SourceSplit and then, value by  *)
(* value, through ReuseTees and indicator elements.                        *)
(*                                                                         *)
(* A push in Click is a function call that returns when everything         *)
(* downstream has been done, so the calls still to be made are a stack:    *)
(* agenda.  Packets wait, with the timestamp of their arrival, until the   *)
(* router's one thread takes them; its timer runs between packets.  That   *)
(* packets only arrive between pushes loses nothing: an arrival concerns   *)
(* no variable that a push reads.  Several configurations of one graph     *)
(* (naive and incremental) and the hand-coded program are run side by side *)
(* on the same input.                                                      *)
(***************************************************************************)
EXTENDS TimeStats, Sequences

CONSTANTS Modes,          \* the configurations: "NAIVE" and/or "STARTUP"
          Graphs,         \* the graphs; those below are operators of a graph
          Elements(_),    \* the indicator elements
          Class(_),       \* their classes
          Exact(_),       \* those whose incremental mode computes the naive value
          Tees(_),        \* the ReuseTees
          Outputs(_, _),  \* of an element or a tee: the inputs its outputs go to
          SplitTo(_),     \* the input each field's port of SourceSplit goes to
          PortsOf(_), CapOf(_), InitOf(_, _), NaiveOf(_, _), ExtOf(_, _), OptExtOf(_, _, _),
          HandStep(_, _, _), NewHand, HandOutputs(_),  \* the hand-coded program
          NoCache, One,
          Prices,
          MaxQueue,       \* bound on the packets that wait
          MaxTime         \* bound on the time stamp counter

\* An element of class k.
K(k) == INSTANCE IndicatorBase WITH
          Ports <- PortsOf(k), Cap <- CapOf(k), Zero <- 0, NoCache <- NoCache,
          initialize_element <- LAMBDA w : InitOf(k, w),
          process_naive <- LAMBDA w : NaiveOf(k, w),
          process_ext <- LAMBDA w : ExtOf(k, w),
          process_opt_ext <- LAMBDA v, c : OptExtOf(k, v, c)

VARIABLES graph,   \* the graph of the router
          clock,   \* the time stamp counter of the processor
          queue,   \* the packets that have arrived
          bar,     \* the symbol's entry in _time_stats_map, <<>> at first
          last,    \* the last message sent by TradeProcessor
          agenda,  \* the calls of push to be made, the next one first
          elem,    \* the elements of each configuration
          answer,  \* the last message each element has sent (history)
          hand     \* the symbol's object in the hand-coded program

vars == <<graph, clock, queue, bar, last, agenda, elem, answer, hand>>

NoMessage == [kind |-> "INIT", tstamp |-> 0]

Init ==
  /\ graph \in Graphs
  /\ clock = 0
  /\ queue = <<>>
  /\ bar = <<>>
  /\ last = NoMessage
  /\ agenda = <<>>
  /\ elem = [c \in Modes |-> [n \in Elements(graph) |-> K(Class(graph)[n])!NewElement(c)]]
  /\ answer = [c \in Modes |-> [n \in Elements(graph) |-> <<>>]]
  /\ hand = NewHand

\* Mutant: the message keeps the time of the packet's arrival.
simple_action_Keep(kind, tstamp, now) == tstamp

\* Timestamper: an UPDATE gets the time at which it is processed.
simple_action(kind, tstamp, now) == IF kind = "UPDATE" THEN now ELSE tstamp

Calls(c, inputs, m) ==
  [i \in DOMAIN inputs |-> [config |-> c, node |-> inputs[i][1], port |-> inputs[i][2], msg |-> m]]

SplitOrder == <<"open", "high", "close", "low", "volume">>

\* SourceSplit: one value message per connected field, in this order.
Split(c, m, tstamp) ==
  LET to == SplitTo(graph)
      fields == SelectSeq(SplitOrder, LAMBDA f : f \in DOMAIN to)
      ValueOf(f) == IF f = "volume" THEN m[f] * One ELSE m[f]
  IN  [i \in DOMAIN fields |->
         [config |-> c, node |-> to[fields[i]][1], port |-> to[fields[i]][2],
          msg |-> [kind |-> m.kind, tstamp |-> tstamp, value |-> ValueOf(fields[i])]]]

\* A message leaves TradeProcessor, which was stamped at stamp.
Send(m, stamp) ==
  LET t == simple_action(m.kind, stamp, clock + 1)
      calls == [c \in Modes |-> Split(c, m, t)]
  IN  /\ clock' = IF t > clock THEN t ELSE clock
      /\ last' = [kind |-> m.kind, tstamp |-> t]
      /\ agenda' = (IF "NAIVE" \in Modes THEN calls["NAIVE"] ELSE <<>>)
                     \o (IF "STARTUP" \in Modes THEN calls["STARTUP"] ELSE <<>>)
      /\ hand' = HandStep(graph, hand, m)

\* A packet arrives; the timestamper module of the kernel stamps it.
Arrive(price) ==
  /\ agenda = <<>>
  /\ Len(queue) < MaxQueue
  /\ clock < MaxTime
  /\ clock' = clock + 1
  /\ queue' = Append(queue, [price |-> price, tstamp |-> clock + 1])
  /\ UNCHANGED <<graph, bar, last, agenda, elem, answer, hand>>

\* TradeProcessor::push for a trade of the symbol.
Trade ==
  LET pkt == Head(queue)
      ts == IF bar = <<>> THEN NewStats ELSE bar[1]
      new == update_stats(ts, pkt.price, 1)
  IN  /\ agenda = <<>>
      /\ queue # <<>>
      /\ clock < MaxTime
      /\ queue' = Tail(queue)
      /\ bar' = <<new>>
      /\ IF is_changed(ts, pkt.price)
         THEN Send(Source(IF bar = <<>> THEN "INIT" ELSE "UPDATE", new), pkt.tstamp)
         ELSE UNCHANGED <<clock, last, agenda, hand>>
      /\ UNCHANGED <<graph, elem, answer>>

\* TradeProcessor::run_timer.
RunTimer ==
  /\ agenda = <<>>
  /\ bar # <<>>
  /\ clock < MaxTime
  /\ bar' = <<rollover(bar[1])>>
  /\ Send(Source("ADD", bar[1]), clock + 1)
  /\ UNCHANGED <<graph, queue, elem, answer>>

\* Mutant: the last output of a tee gets nothing.
TeePush_Short(call) ==
  LET outs == Outputs(graph, call.node)
  IN  Calls(call.config, SubSeq(outs, 1, Len(outs) - 1), call.msg)

\* ReuseTee::push: a copy of the message to every output.
TeePush(call) == Calls(call.config, Outputs(graph, call.node), call.msg)

PushTee ==
  /\ agenda # <<>>
  /\ agenda[1].node \in Tees(graph)
  /\ agenda' = TeePush(agenda[1]) \o Tail(agenda)
  /\ UNCHANGED <<graph, clock, queue, bar, last, elem, answer, hand>>

\* IndicatorBase::push.
PushElement ==
  /\ agenda # <<>>
  /\ agenda[1].node \in Elements(graph)
  /\ LET call == agenda[1]
         n == call.node
         r == K(Class(graph)[n])!push(elem[call.config][n], call.msg, call.port)
     IN  /\ elem' = [elem EXCEPT ![call.config][n] = r.elem]
         /\ answer' = IF r.sent = <<>> THEN answer
                      ELSE [answer EXCEPT ![call.config][n] = r.sent]
         /\ agenda' = (IF r.sent = <<>> THEN <<>>
                       ELSE Calls(call.config, Outputs(graph, n), r.sent[1])) \o Tail(agenda)
  /\ UNCHANGED <<graph, clock, queue, bar, last, hand>>

Next == (\E price \in Prices : Arrive(price)) \/ Trade \/ RunTimer \/ PushTee \/ PushElement

Spec == Init /\ [][Next]_vars

-----------------------------------------------------------------------------
(* Properties *)

\* The feed every element is written for: a message on a port either opens a
\* new round, with a later timestamp, when the round before is complete (so the
\* "Theresa Rubel" branch of new_value_check, whose TODO is to abort, is never
\* reached), or belongs to the open round and a port that had no message yet.
Disciplined ==
  agenda # <<>> /\ agenda[1].node \in Elements(graph) =>
    LET call == agenda[1]
        b == elem[call.config][call.node].buffers
    IN  \/ /\ call.msg.tstamp > b.tstamp
           /\ b.state \notin {"ACCUMULATING", "ACCUMULATING_POP"}
        \/ call.msg.tstamp = b.tstamp /\ call.port \notin b.updated

\* When a push of TradeProcessor has returned, every element has got the message
\* on every port, whatever the path to it; only the INIT may end at the elements
\* that need two bars.
NoneLeftBehind ==
  agenda = <<>> =>
    \A c \in Modes : \A n \in Elements(graph) :
      LET b == elem[c][n].buffers
      IN  \/ b.tstamp = last.tstamp /\ b.updated = PortsOf(Class(graph)[n])
          \/ last.kind = "INIT" /\ b.tstamp = 0

\* The incremental configuration gives the answers of the naive one: the last
\* message of every element that can be exact is the same in both.
SameAnswers ==
  agenda = <<>> => \A c, d \in Modes : \A n \in Exact(graph) : answer[c][n] = answer[d][n]

\* The results of the graph, beside those of the hand-coded program.
Differences ==
  {(LET x == answer["STARTUP"][HandOutputs(graph)[i]][1].value - hand.result[i]
    IN  IF x < 0 THEN -x ELSE x) : i \in DOMAIN hand.result}

\* The hand-coded programs store their results "to compare that Click-based
\* calculations are the same", and they are, whatever trades and timer events come in
\* whatever order: exactly in the graphs vortex and dmi, and up to the order in which
\* Trix multiplies and divides.  Dmi is compared until it first gives up a calculation.
SameAsHand ==
  agenda = <<>> /\ ~hand.aborted =>
    \A d \in Differences : IF graph = "trix" THEN d < 100 ELSE d = 0

\* The same of Dmi without that exception.
SameAsHandDmi ==
  agenda = <<>> /\ graph = "dmi" => \A d \in Differences : d = 0

\* The rings of an element without the values that will be taken out again.
Kept(n, e) == K(Class(graph)[n])!Restored(e.buffers)

\* What the design comment of IndicatorBase::push says of NAIVE mode: the value
\* of an UPDATE is prepended temporarily and removed.
UpdatesAreTemporary ==
  [][PushElement /\ agenda[1].config = "NAIVE" /\ agenda[1].msg.kind = "UPDATE"
       => LET n == agenda[1].node
          IN  PortsOf(Class(graph)[n]) = {0} =>
                Kept(n, elem'["NAIVE"][n]) = Kept(n, elem["NAIVE"][n])]_vars
=============================================================================
