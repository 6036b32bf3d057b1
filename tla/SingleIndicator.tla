-------------------------- MODULE SingleIndicator --------------------------
(***************************************************************************)
(* One indicator element and the elements that feed it.  A message reaches *)
(* the element as one packet per port, all with the message's kind and     *)
(* timestamp, and all of them before the packets of the next message: a    *)
(* push runs to completion in the one thread of the router.  The order of  *)
(* the ports within a message is left open, as it depends on the graph.    *)
(* Timestamps increase from message to message.  INIT is sent once, as the *)
(* first message; an element below one that swallows the INIT sees an ADD  *)
(* or an UPDATE first.                                                     *)
(***************************************************************************)
EXTENDS IndicatorBase

CONSTANTS Values,      \* the values of a port
          StartModes,  \* the modes configure may choose (OP_MODE)
          MaxTime      \* bound on timestamps

ASSUME FeedAssumption ==
  /\ Ports # {}
  /\ Zero \in Values
  /\ StartModes \subseteq {"NAIVE", "STARTUP"}
  /\ MaxTime \in Nat

Prepend(w, vals) == [p \in Ports |-> push_front(w[p], vals[p])]

Windows == UNION {[Ports -> [1 .. n -> Values]] : n \in 2 .. Cap}

\* What the concrete indicators must satisfy: the cache built from a window
\* holds its naive value, and one incremental step from it gives the cache of
\* the window with the increment added.  Elements that are only run in NAIVE
\* mode need not be incremental.
ASSUME IncrementalAssumption ==
  "STARTUP" \in StartModes =>
    \A w \in Windows :
      /\ process_ext(w).value = process_naive(w)
      /\ \A vals \in [Ports -> Values] :
           process_opt_ext(vals, process_ext(w)) = process_ext(Prepend(w, vals))

VARIABLES elem,    \* the element
          msg,     \* the message being delivered, or the last one
          todo,    \* the ports it has not reached yet
          clock,   \* the timestamp of that message
          out,     \* what the element sent since the message was started
          window   \* the values added for good, per port (a history variable)

vars == <<elem, msg, todo, clock, out, window>>

Messages == [kind : Kinds, tstamp : 1 .. MaxTime, vals : [Ports -> Values]]

NoMessage == [kind |-> "INIT", tstamp |-> 0, vals |-> [p \in Ports |-> Zero]]

Init ==
  /\ \E mode \in StartModes : elem = NewElement(mode)
  /\ msg = NoMessage
  /\ todo = {}
  /\ clock = 0
  /\ out = <<>>
  /\ window = [p \in Ports |-> <<>>]

\* The source of the graph starts a message.
Emit(m) ==
  /\ todo = {}
  /\ m.tstamp > clock
  /\ m.kind = "INIT" => ~elem.initialized
  /\ msg' = m
  /\ clock' = m.tstamp
  /\ todo' = Ports
  /\ out' = <<>>
  /\ UNCHANGED <<elem, window>>

\* The packet of one port arrives: the element's push handler.
Push(port) ==
  LET r == push(elem, [kind |-> msg.kind, tstamp |-> msg.tstamp,
                       value |-> msg.vals[port]], port)
  IN  /\ port \in todo
      /\ elem' = r.elem
      /\ out' = out \o r.sent
      /\ todo' = todo \ {port}
      /\ window' = IF todo = {port} /\ (~elem.initialized \/ msg.kind # "UPDATE")
                   THEN Prepend(window, msg.vals) ELSE window
      /\ UNCHANGED <<msg, clock>>

Next == (\E m \in Messages : Emit(m)) \/ (\E port \in Ports : Push(port))

Spec == Init /\ [][Next]_vars

-----------------------------------------------------------------------------
(* Properties *)

Runs(n) == {s \in Seq(Values) : Len(s) <= n}

Elements ==
  [op_mode : OpModes,
   buffers : [tstamp : 0 .. MaxTime, updated : SUBSET Ports, state : BufferStates,
              ring : [Ports -> Runs(Cap)], temp_updates : [Ports -> Values]],
   cache : {NoCache} \cup {process_ext(w) : w \in Windows},
   initialized : BOOLEAN]

\* The rings never outgrow their capacity, and a cache is one that process_ext
\* computes from some window.
TypeOK ==
  /\ elem \in Elements
  /\ msg \in Messages \cup {NoMessage}
  /\ todo \in SUBSET Ports
  /\ clock \in 0 .. MaxTime
  /\ window \in [Ports -> Runs(Cap)]

\* Between messages the rings hold exactly the values added for good, once the
\* temporary values of an UPDATE are taken out and the ones they displaced are
\* put back (new_value_check); in NORMAL mode the rings are no longer used.
RingsExact ==
  todo \in {{}, Ports} /\ elem.op_mode # "NORMAL" => Restored(elem.buffers) = window

\* In NORMAL mode the cache is the one process_ext would compute from the
\* values added for good, although the element never sees them together again:
\* no UPDATE leaves a trace in it.
CacheExact ==
  elem.op_mode = "NORMAL" => elem.cache = process_ext(window)

\* The message being delivered will be taken back later.
Temporary == elem.initialized /\ elem.op_mode # "NORMAL" /\ msg.kind = "UPDATE"

Full == \A p \in Ports : Len(window[p]) = Cap

\* The buffers b in the middle of a message: the ports it has reached, and
\* only they, have its value in front.
Partial(b) ==
  LET got == Ports \ todo
  IN  /\ b.tstamp = clock
      /\ b.updated = got
      /\ b.state = IF Temporary /\ Full /\ got # {} THEN "ACCUMULATING_POP" ELSE "ACCUMULATING"
      /\ elem.op_mode # "NORMAL" =>
           b.ring = [p \in Ports |-> IF p \in got THEN push_front(window[p], msg.vals[p])
                                    ELSE window[p]]
      /\ elem.op_mode = "NORMAL" =>
           \A p \in got : b.ring[p] # <<>> /\ Head(b.ring[p]) = msg.vals[p]
      /\ Temporary /\ Full => \A p \in got : b.temp_updates[p] = LastOf(window[p])

\* How far the element can be in a message, and what it has reached there: no
\* port is ahead of another by more than the message being delivered, and
\* nothing is sent before the last port (push returns early until
\* is_update_complete).
InStep ==
  /\ \A p, q \in Ports : Len(window[p]) = Len(window[q])
  /\ ~elem.initialized => window = [p \in Ports |-> <<>>] /\ elem.op_mode \in StartModes
  /\ elem.initialized => \A p \in Ports : window[p] # <<>>
  /\ elem.op_mode \in {"NORMAL", "STARTUP"} => "STARTUP" \in StartModes
  /\ elem.op_mode = "NORMAL" => elem.initialized /\ \A p \in Ports : Len(window[p]) >= 2
  /\ todo # {} => msg.tstamp = clock /\ out = <<>> /\ (msg.kind = "INIT" => ~elem.initialized)
  /\ IF todo = Ports THEN elem.buffers.tstamp < clock ELSE elem.buffers.tstamp = clock
  /\ todo \in {{}, Ports} =>
       /\ elem.buffers.state \notin {"ACCUMULATING", "ACCUMULATING_POP"}
       /\ elem.op_mode = "NORMAL" => elem.buffers.state = "ACCUMULATED"
       /\ elem.buffers.state \in {"ACCUMULATED_TEMP", "ACCUMULATED_TEMP_POP"} =>
            \A p \in Ports : elem.buffers.ring[p] # <<>>
  /\ todo \notin {{}, Ports} => Partial(elem.buffers)

\* The element answers each message exactly once, after its last port, with
\* the indicator of the values added for good (an UPDATE's values on top),
\* whatever mode it is in and however ADDs and UPDATEs alternate.
W == INSTANCE WindowIndicator WITH
       started <- elem.initialized,
       pending <- IF todo = {} THEN <<>> ELSE <<msg>>

RefinesWindow == W!Spec
=============================================================================
