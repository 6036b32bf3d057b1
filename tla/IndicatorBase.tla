--------------------------- MODULE IndicatorBase ---------------------------
(***************************************************************************)
(* The class IndicatorBase (elements/standard/indicator_base.cc): what an  *)
(* indicator element does with a message on one of its ports.  The virtual *)
(* functions of the concrete indicators are the constant operators; see    *)
(* module Indicators for their definitions.                                *)
(*                                                                         *)
(* A message is a record with fields kind, tstamp and value.  An element   *)
(* that is switched off, and a message of another kind, are left out: both *)
(* are forwarded untouched.                                                *)
(***************************************************************************)
EXTENDS Buffers

CONSTANTS initialize_element(_),  \* of the rings: <<>> (invalid) or <<v>>
          process_naive(_),       \* of the rings: a value
          process_ext(_),         \* of the rings: a cache
          process_opt_ext(_, _),  \* of an increment per port and a cache: a cache
          NoCache                 \* the empty vector a new element has as its cache

Kinds == {"INIT", "ADD", "UPDATE"}
OpModes == {"STARTUP", "NORMAL", "NAIVE"}

\* An element as configure leaves it.
NewElement(mode) ==
  [op_mode |-> mode, buffers |-> NewBuffers, cache |-> NoCache, initialized |-> FALSE]

Initialising(e, m) == m.kind = "INIT" \/ ~e.initialized

\* Only an UPDATE in the modes that compute from the rings is temporary.
Receive(e, m, port) ==
  IF Initialising(e, m) \/ e.op_mode = "NORMAL" \/ m.kind = "ADD"
  THEN add_new_value(e.buffers, m.value, m.tstamp, port)
  ELSE add_new_value_temp(e.buffers, m.value, m.tstamp, port)

Message(m, v) == [kind |-> m.kind, tstamp |-> m.tstamp, value |-> v]

Result(e, sent) == [elem |-> e, sent |-> sent]

\* The four branches, taken once every port has its value.
OnInit(e, m) ==
  LET v == initialize_element(e.buffers.ring)
  IN  Result([e EXCEPT !.initialized = TRUE],
             IF v = <<>> THEN <<>> ELSE <<Message(m, v[1])>>)

OnNaive(e, m) == Result(e, <<Message(m, process_naive(e.buffers.ring))>>)

OnStartup(e, m) ==
  LET c == process_ext(e.buffers.ring)
  IN  Result(IF m.kind = "ADD" THEN [e EXCEPT !.cache = c, !.op_mode = "NORMAL"] ELSE e,
             <<Message(m, c.value)>>)

\* Mutant: an UPDATE refreshes the cache.
OnNormal_AnyKind(e, m) ==
  LET increments == [p \in Ports |-> Head(e.buffers.ring[p])]
      c == process_opt_ext(increments, e.cache)
  IN  Result([e EXCEPT !.buffers.ring = [p \in Ports |-> Tail(e.buffers.ring[p])],
                       !.cache = c],
             <<Message(m, c.value)>>)

\* Mutant: the answer is the cached value, not the new one.
OnNormal_StaleAnswer(e, m) ==
  LET increments == [p \in Ports |-> Head(e.buffers.ring[p])]
      c == process_opt_ext(increments, e.cache)
  IN  Result([e EXCEPT !.buffers.ring = [p \in Ports |-> Tail(e.buffers.ring[p])],
                       !.cache = IF m.kind = "ADD" THEN c ELSE @],
             <<Message(m, e.cache.value)>>)

OnNormal(e, m) ==
  LET increments == [p \in Ports |-> Head(e.buffers.ring[p])]
      c == process_opt_ext(increments, e.cache)
  IN  Result([e EXCEPT !.buffers.ring = [p \in Ports |-> Tail(e.buffers.ring[p])],
                       !.cache = IF m.kind = "ADD" THEN c ELSE @],
             <<Message(m, c.value)>>)

\* The element after the call push(port, m), and the message it sends, if any.
push(e, m, port) ==
  LET f == [e EXCEPT !.buffers = Receive(e, m, port)]
  IN  IF ~is_update_complete(f.buffers) THEN Result(f, <<>>)
      ELSE IF Initialising(e, m)  THEN OnInit(f, m)
      ELSE IF e.op_mode = "NAIVE" THEN OnNaive(f, m)
      ELSE IF e.op_mode = "STARTUP" THEN OnStartup(f, m)
      ELSE OnNormal(f, m)
=============================================================================
