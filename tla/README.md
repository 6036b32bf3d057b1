# Synapse in TLA+

A verification development for Synapse, the trading-indicator system built on the Click router
(`src/click-2.0.1`, with its own elements under `elements/standard`). It consists of TLA+ models
of the path from a trade packet to an indicator value, of the threads, timers and kernel modules
that path relies on, TLC runs on small instances, and TLAPS proofs of the main invariants for
all instances. `PROJECT.json` holds the machine-readable index: components, runs, mutants, the
map from definitions to source lines, findings, hazards and theorems.

## 1. The system

Trades arrive as text packets. A kernel module writes the arrival time into each; another one
can take the packets of an interface out of the stack and hand them to a client through a
queue. A Click router runs a graph of elements:

    FromDevice -> TradeProcessor -> Timestamper -> SourceSplit -> {ReuseTee | indicator}* -> StatPrinter

`TradeProcessor` keeps a bar (high, low, open, close, volume) per symbol. It sends a message
INIT at the first trade of a symbol, UPDATE when a trade changes the bar, and ADD for every
symbol when its timer ends an interval. `SourceSplit` turns a bar into one packet per field.
Indicators are subclasses of `IndicatorBase`; each has one or more input ports and answers a
message once it has arrived on all of them. An element runs NAIVE (recompute from ring buffers
every time) or incrementally: STARTUP until the first ADD, then NORMAL, from a cache.
`MtNewThread` lets the rest of a graph run on another thread. Hand-coded programs without Click
compute the same indicators as a baseline.

### Inventory

| Part | State | Operations | What is hard |
|---|---|---|---|
| `CircArray` | array, start, size, capacity | push/pop at both ends, `pop_at`, resize, copy | wrap-around, overwriting when full, copying a wrapped array |
| `Buffers` | a ring and a displaced value per port, flags, state, timestamp | `add_new_value`, `add_new_value_temp`, `is_update_complete` | temporary values are undone only at the next timestamp |
| `IndicatorBase` | mode, cache, `_initialized`, buffers | `push` | four branches; ports arrive one at a time; UPDATE must leave no trace |
| Indicators (13) | - | the four virtual functions | incremental result against naive result |
| `TradeProcessor` | bars, timer, `_active`, a static flag | `push`, `run_timer`, handler | a trade that changes nothing sends nothing; interval boundaries; the static flag |
| price parsing | - | `parse_price_as_fixedpt` | cases of the dot's position |
| `Timestamper`, `SourceSplit`, `ReuseTee` | - | `simple_action`, `push` | two sources of timestamps; one packet reused for several outputs |
| graphs (`indicator_configs`) | all of the above | nested pushes, timer | paths of different length that meet; packets that wait while the timer runs |
| `hand_coded` | the same indicators without a graph, the advance/decline line | per-message functions | agreement with the elements |
| `StatPrinter`, `RunningStat` | samples per printer, shared | `simple_action`, destructor | pairing samples by position |
| `MtNewThread`, `Spinlock` | ring shared by two threads | `push`, `run_task`, `acquire`, `release` | a test outside the lock; a full ring |
| Click tasks | a status word, lists per thread, wake pipe | reschedule, unschedule, move, `run_tasks` | flags read without a lock, lost wake-ups |
| Click timers | a heap, the runchunk, the first expiry | schedule, unschedule, `run_timers` | rescheduling from callbacks and other threads; starvation; oversleeping |
| kernel hook, `timestamper`, `packet_capture` | a function pointer | set, clear, call | test and call against a concurrent clear and removal |
| `shmq` | byte fifo, worker, flags | send, worker, unload | partial writes; two senders at once; unloading while the worker is blocked |
| Chi-X handler | map of open orders | add, execute, cancel; short and long messages | counts wider than an int |
| first-generation elements | bars, averages, one saved packet | `push` | values that replace each other within an interval; pairing two branches |

## 2. Modules

| Module | Models |
|---|---|
| `Deque` | what `CircArray` promises: a bounded double-ended queue per object |
| `CircArray` | `circ_array.hpp`, every operation, modular indices and all |
| `Buffers` | `buffers.cc`: one operator per method, on a record of the members |
| `IndicatorBase` | `indicator_base.cc`: `push` as an operator from element and packet to new element and packets sent |
| `Indicators` | the virtual functions of the 13 indicator elements |
| `FixedPt` | the fixed-point operations they use |
| `WindowIndicator` | what an indicator element promises: each message answered from a window of values |
| `SingleIndicator` | one element and its feed: messages, then their packets in any port order |
| `IndicatorLaws` | each indicator's incremental step beside its naive function |
| `TimeStats` | the struct `TimeStats`, `update_stats`, `rollover` and the message made of them |
| `TradeProcessor` | the elements with packets, timer and handler |
| `PriceParser` | `parse_price_as_fixedpt` and `denominator_for_len` |
| `IndicatorGraphs` | the vortex, DMI and Trix graphs of `indicator_configs` |
| `HandCoded` | the hand-coded Vortex, Dmi and Trix, one operator per class |
| `Pipeline` | a graph at work: TradeProcessor, Timestamper, SourceSplit, tees and elements, beside the hand-coded program |
| `AdLine` | the advance/decline line of the hand-coded programs |
| `StatPrinter` | the printers of a router, their shared arrays and `RunningStat` |
| `Chix` | `ChixTradeHandler`: messages, conversions, the map of open orders |
| `Movement` | `DirectionalMovement`, `TrueRange` and the `EwmaElement`s behind them |
| `Join` | how `DirectionalIndex` and `DxIndicator` pair the packets of two branches |
| `Aroon` | `TradeAggregator` with `AroonIndicatorElement` |
| `Spinlock` | the recursive lock of `sync.hh`, one step per access to memory |
| `MtNewThread` | the element, its lock and its ring, with several producers |
| `TaskScheduling` | one Click task on several threads: status word, lists, wake-ups |
| `Alarms` | what timers promise: none rings before its time, one rings at a time |
| `TimerSet`, `Heap` | the timers of a router thread, its driver's sleep, and the heap |
| `Shmq` | senders on several processors, kfifo, worker, system queue, client |
| `Capture` | the hook in the kernel, the two modules that use it, on top of `Shmq` |
| `*Proofs` | theorems |
| `MC*` | instances for TLC |

Composition. `Buffers` uses a ring as the sequence of its elements, which `ImplementsDeque`
justifies; so does `MtNewThread`. `IndicatorBase` extends `Buffers`; `SingleIndicator` adds a
feed and `Pipeline` instantiates `IndicatorBase` once per class of element. `TimeStats` is
shared by `TradeProcessor` and `Pipeline`. `MtNewThread` instantiates `Spinlock`, `Capture`
extends `Shmq`, `TimerSet` extends `Heap`. What `SingleIndicator` assumes of its feed (rounds
are complete before the next one starts, timestamps grow, no port twice) is the property
`Disciplined` that `Pipeline` is checked for. That `INIT` comes first and once is `InitFirst`.
That a scheduled timer of `TradeProcessor` is served rests on `TimerSet`, and that `run_task`
is called again on `TaskScheduling`.

### State and actions against the code

* `CircArray`: the fields of `ring[r]` are the four members of the class; `Fresh` marks slots
  no one has written. `result` is what the last call returned.
* `Buffers`: `updated` is the set of ports whose flag is `'Y'`; `Restored` is the part of
  `new_value_check` that takes temporary values out.
* `SingleIndicator`: `Emit` starts a message, `Push(port)` is one call of `push`. `window` is a
  history variable, the last `Cap` values added for good.
* `TradeProcessor`: `Push` is `push` with a packet that parses or not, `RunTimer` is
  `run_timer`, `SetActive` the handler. A packet is the number of `|` in it and the fields
  between them. `announced`, `trades` and `previous` are history variables.
* `Pipeline`: a push in Click is a call that returns when everything downstream is done, so
  the calls still to be made form a stack, `agenda`. `Arrive` is the kernel's stamping of a
  packet; `Trade` and `RunTimer` run only when the stack is empty, as there is one thread.
  Arrivals are also restricted to that moment; they commute with pushes, which read neither
  `queue` nor, once the message is stamped, `clock`. The hand-coded object gets the same
  messages.
* `PriceParser`: texts are typed digit by digit; the parser is evaluated on each.
* `Spinlock`: the swap that takes the lock, the writes of `_owner` and `_depth` and the reads
  of `_owner` by others are separate steps, in program order.
* `MtNewThread`: each thread has a program counter in `push` or `run_task`; `live` is the set of
  packet objects, `accepted` a history variable.
* `TaskScheduling`: `home`, `scheduled` and `strong` are the status word, which is read and
  written without a lock; what happens under `_pending_lock` is one step, except the two stores
  that wake a thread. `MoveThread` writes the new home and `MoveFirstHalf` compares it, as in
  the code; any threads may be between the two. `late` and `overlapped` (a call of `move_thread`
  began while another had not looked at the task's thread) are history variables.
* `TimerSet`: `heap.pos[t]` is `_schedpos1`, negative in the runchunk. A call of
  `schedule_at_steady` or `unschedule` is one step, as it is made under `_timer_lock`; reading
  the first expiry and going to sleep are not under it. `owed` is a history variable.
* `Capture`, `Shmq`: a processor tests the hook, reads it and calls it in separate steps; a
  compiler may read the pointer once or twice (`once`), and calling NULL stops everything. Any
  processor may have a packet of any interface, since a driver that uses `netif_rx` puts packets
  into the backlog of several processors. A write into the kfifo is two steps, the bytes and the
  index, with nothing to keep processors from doing them at the same time; from then on (`raced`)
  the stored bytes are garbled, the index may have moved less far than the bytes, and the two
  histories `accepted` and `got` end.
* `Movement`, `Join`, `Aroon`: one action per message or timer; one symbol. In `Movement` the
  directional movements leave out trades whose interval number is negative, and the true range
  does not, as in the code. `Join` is about one thread that pushes through both branches; a
  branch falls behind when it has a queue whose task that thread runs later.
* `HandCoded`, `AdLine`, `Chix`, `StatPrinter`: one operator or action per method; `ledger` and
  `latency` are history variables.

## 3. Runs

A run that has several subjects chooses one of them in its initial state; a behaviour is about
one subject and leaves the variables of the others alone.

| Run | Instance | Shows |
|---|---|---|
| `library` | `CircArray`: 2 arrays, initial capacity 1 and 3, 2 values (symmetric). All indicators: window of 3, values that do not divide evenly. `Sum` as an element: window of 3, 3 values, 6 timestamps, both modes | `RefinesDeque`, `IncrementalClose`, `SumRefinesWindow` |
| `element` | Pdm as an element: 2 ports, ring of 3, 3 values, 5 timestamps, both modes. Timers: 2 timers, a budget of 1, 3 calls, time to 3. Heap: 5 timers, 3 expiries. Movement: 3 prices, 5 trades from before the start to interval 2. Join: 5 messages. Aroon: 3 prices, window of 3, 4 intervals | `RefinesWindow`, `WellPlaced`, `NeverOversleeps`, `NoneStarves`, `RefinesAlarms`, `HeapOrdered`, `SmoothedExact`, `LatestJoined`, `AroonExact` |
| `trade_processor` | 2 subscribed symbols and 1 other, 2 prices, 3 trades per interval | `BarExact`, `VolumeExact`, `Announced`, `InitFirst`, `IntervalsEnd` |
| `pipeline` | any of the three graphs, naive, incremental and hand-coded side by side, ring of 2, 3 prices, 2 waiting packets, 8 ticks. Price parser: up to 3 digits before and 4 after the dot. Chi-X: 2 order numbers. Advance/decline line: 3 symbols. Printers: 2, arrays for 2 values, 3 UPDATEs | `Disciplined`, `NoneLeftBehind`, `SameAnswers`, `SameAsHand`, `ParsedNearest`, `BookExact`, `LineExact`, `StatsExact` |
| `threads` | MtNewThread: 2 producers with 2 packets each, ring of 2. A task on 2 threads, 3 calls from outside. The lock: 3 threads, nested twice. The kernel modules: 2 processors, records of 2, a fifo of 4, a system queue of 1, 3 messages | `NeverPopsEmpty`, `NothingLost`, `Drains`; `RunsOnOne`, `NotForgotten`, `LateOnce`, `EventuallyRuns`, `EventuallyMoved`; `Exclusive`; `CodeThere`, `Delivered`, `Unloads`, `Arrives` |
| `first_update`, `two_processors`, `one_digit_price`, `mt_leak`, `shmq_framing`, `hand_dmi`, `overlapping_moves` | smallest that show it | findings, section 5 |

Every property of a passing run has a mutant in `PROJECT.json`: a definition with a plausible
bug, for which TLC finds the property violated. Invariants that only serve an induction
(the type invariants, `RingsExact`, `CacheExact`, `InStep`, `OneInRing`, `DepthOwned`,
`OwnLists`, `MoveSeen`, `HookLoaded`, `NothingUninitialised`) are proved for all instances (section 4) and
are not repeated in the runs.

Bounds. A ring of 2 or 3 fills, overwrites and wraps, and a temporary value displaces another
one. Five or six messages let an element start, fill its ring, become NORMAL and see UPDATEs before,
between and after ADDs. Eight ticks let a graph pass two intervals with a packet waiting over
the timer. Two prices make a bar rise, fall and repeat; three trades give a bar whose first,
last and extreme trade differ. With a budget of 1 (64 in the code) the second timer that a
self-rescheduling one would starve reaches the runchunk, and a callback can move it from there;
five timers at arity 3 give a heap of three levels. A task needs three calls (reschedule,
unschedule, move) to be on its way from one thread to another while it is being unscheduled.
The same model with three threads and two calls (17,432,020 states) has been checked once for
`RunsOnOne`, `NotForgotten`, `LateOnce` and `MoveSeen`; it is too large for a regular run. A task
starts on one of the two threads or on the quiescent one, as the threads are alike. A fifo of two records is full, partly read and empty while a
third record comes. `MaxTrades`, `MaxTime`, `MaxQueue`, `MaxCapacity`, `MaxWhole`, `MaxFrac`,
`MaxCalls`, `MaxPackets`, `MaxDepth`, `MaxSent`, `MaxTaken`, `MaxUpdates`, `MaxLatency`,
`MaxPrinters`, `MaxMessages`, `MaxIntervals`, `LastStamp` and `Lead` are the only bounds that are
not in the code. `CHECK_DEADLOCK FALSE` is set where reaching them stops the instance or where
the environment may stop sending.

Fairness.

* `IntervalsEnd`: `RunTimer` is weakly fair. Click's driver serves timers in each round of its
  loop, and a scheduled timer stays scheduled until it fires.
* `Drains`: each producer and the consumer keep running (weak fairness of `ProducerStep` and
  `ConsumerStep`), which is what operating-system threads do; nothing is assumed about who gets
  the lock.
* `EventuallyRuns`, `EventuallyMoved`: each thread keeps running (weak fairness of
  `ThreadStep(r)`); a thread asleep in `poll` has no step until its pipe has a byte, as an event
  of another element may come or not.
* `Unloads`, `Arrives`: the processors leave their packets, the worker is scheduled, the client
  reads, and `rmmod` goes on once its condition holds. Both properties are about behaviours with
  a client and code that reads the hook once: without a client the worker blocks in `msgsnd` and
  `rmmod` waits for it forever (`shmq.c:135`).

The liveness properties have the form `[]<>P`. Each says of something that was begun (a scheduled
task, a move, an interval, a removal, a message taken) that it does not stay unfinished: what it
waits for is the only way out of the unfinished state, so `[]<>P` is the same as "it leads to its
end".

Nothing is assumed of the arrival of trades. The timers are checked for safety only:
`NoneStarves` and `NeverOversleeps` say without fairness what could keep a timer from running.

What some properties do not say. `SameAnswers` is about the elements in `Exact`: the whole
vortex graph, and of DMI those above the averages; `IncrementalClose` bounds the difference of
one Ewma or Trix element. `SmoothedExact` is about the intervals as the code numbers them (see
section 5). `NotForgotten` and `EventuallyRuns` end where calls of `move_thread` overlap (finding
7), `RunsOnOne`, `LateOnce` and `EventuallyMoved` do not. `Delivered` and `Arrives` end where two
processors meet in `kfifo_in`, `Unloads` and `CodeThere` do not. `SameAsHand` compares a program as long as it has a result (a
division by 0 ends it), and Dmi until it first gives up a calculation (finding 6).

## 4. Theorems

All theorems hold for arbitrary constants that satisfy the named assumptions, which TLC
evaluates on each instance.

**CircArrayProofs** (`CapacityAssumption`, `FreshAssumption`). The inductive invariant says of
each array that it is a well-formed record of some capacity whose live slots hold values, not
`Fresh` (type correctness alone does not say which slots are live, and no copy could be shown
to move only written ones). Lemmas give for each operation the sequence the array stands for
afterwards; the modular arithmetic is confined to six small lemmas. `TypeCorrect`,
`NoUninitialisedElement` and `ImplementsDeque` follow.

**IndicatorProofs** (`CapAssumption`, `FeedAssumption`, `IncrementalAssumption`).
`IInv == TypeOK /\ RingsExact /\ CacheExact /\ InStep`. The properties are not inductive one by
one: in the middle of a message the rings are partly updated, and what they hold then
(`Partial`, in `InStep`) is needed to show that they are exact at its end. The proof follows
`push`: what `new_value_check`, `add_new_value` and `add_new_value_temp` do, then a packet that
is not the last of its message (`WaitStep`) and one that is (`AnswerStep`, one case per branch).
`IncrementalAssumption`, the law that one incremental step equals recomputation, is what an
indicator has to satisfy; `element` evaluates it for Pdm, and `IncrementalClose` checks the
naive and incremental functions of all of them along runs. Ewma and Trix do not satisfy it, so
`CacheIsExact` and `ImplementsWindow` say nothing about their incremental mode.

**TradeProcessorProofs** (`SymbolsAssumption`).
`IInv == TypeOK /\ Shapes /\ Unseen /\ BarExact /\ Announced`: `Shapes` types the history
variables and `Unseen` says that a symbol without a bar has no trades, which is what the first
trade needs. `InitComesFirst` is an action property from the same induction.

**SpinlockProofs** (`NoThread` is no thread). `LockInv` adds to `Exclusive` and `DepthOwned` that
the owner is in no routine of the lock, so that the owner and a thread between its swap and its
clearing store are never the same: the unlocked comparison of `_owner` is right although
`_owner` changes meanwhile, because it equals the reader's own name only if the reader wrote it. `LockExcludes`, `LockDepthOwned` for any threads
and any nesting.

**MtNewThreadProofs** (`MtAssumption`). `MtInv` puts the invariant of the lock, obtained from
`SpinlockProofs` by instantiation, together with what a thread at each point of `push` and
`run_task` knows of the ring; the key is that only the consumer shortens the ring, so a ring
that was not empty at the unlocked test is not empty under the lock. `MtOneInRing`,
`MtNeverPopsEmpty`, `MtNothingLost`.

**TaskProofs** (`Quiescent \notin Threads`). `TaskInv` holds whatever the calls do. It consists of
types, `OwnLists` and four facts on the states in between: a thread that has claimed a task or
looks at it on its list stays the task's thread (`AtHome`), a claimed task is on no pending list but
still marked (`Claimed`), the driver moves only tasks of its own thread (`Moving`), and a task that
is away from its home has a thread that will see to it (`MoveSeen`). `TaskRunsOnOne`, `TaskOwnLists`
and `TaskMoveSeen` follow. `SeenTo` holds until calls of `move_thread` overlap: a task about to be
unlinked although it is to run again has another thread that sees to it (`UnlinkSeen`), and
therefore a scheduled task is listed or seen to. `TaskNotForgotten` states just that, with the
overlap as a condition on what has happened and none on the calls. `TaskLateOnce` needs a case
distinction on what is left of a run after `unschedule`. `threads` checks three of the formulas
too.

**CaptureProofs** (no assumptions). `CaptureInv` relates the point at which a processor is to the
hook it has read and the module that is not freed before it leaves (`Held`, `Sending`), and that
module to shmq's being there (`Needed`). `CaptureHookLoaded`, `CaptureCodeThere` for any number of
processors and any order of loading and removal.

**AdLineProofs**. `LineInv` adds to `LineExact` that only finitely many symbols have had a tick,
without which a cardinality says nothing; `Recount` gives the change of a count when one symbol
changes its tick. `LineCounts`.

Only model-checked: liveness (fairness and `ENABLED` are out of the prover's reach);
`VolumeExact`, `Delivered`, `StatsExact`, `BookExact` and what the heap, the averages and the
Aroon loop compute (sums and recursion over sequences need induction over data, and recursive
operators); `Pipeline`, `IndicatorLaws`, `PriceParser`, `HandCoded`, `TimerSet`, `Movement`,
`Join`, `Aroon`.

## 5. Findings

1. `first_update`: an element whose first message is an UPDATE keeps its value for good
   (`indicator_base.cc:181-183`), against the comment at line 172. In the vortex graph this is
   the normal course of events, since the elements above the Sums swallow the INIT.
2. `two_processors`: `static bool first_symbol` (`trade_processor.cc:406`) starts the timer of
   one TradeProcessor per process only.
3. `one_digit_price`: a price with one digit before the dot is parsed to 0
   (`trade_processor.cc:99-111`).
4. `mt_leak`: `MtNewThread::push` frees neither the packet it was given nor a copy that finds
   the ring full (`mt_new_thread.cc:63-67`), against the contract of `Element::push`.
5. `shmq_framing`: a record of 136 bytes, as on x86_64, does not divide the fifo of 2048; a
   record that only partly fits is stored truncated, and from then on the worker sends mixtures
   of records (`shmq.c:174`). With sizes that divide (`threads`) everything arrives whole.
6. `hand_dmi`: the hand-coded Dmi leaves an ADD early when both indices are 0 (`dmi.cpp:139`),
   keeps the old bar and averages, and differs from the graph from then on.
7. `overlapping_moves`: two overlapping calls of `move_thread` can leave a scheduled task on no
   list (`task.cc:312`), against the invariant at `task.cc:93-94`. The task is on the list of t1.
   t2 writes t2 as its home; t1 sees that the home has changed and is about to unlink the task;
   t3 writes t1 as its home again. t1 unlinks the task and, its home being t1, does not move it;
   t2 and t3 find home and thread equal and return. It takes three threads. No shipped
   configuration moves tasks; `BalancedThreadSched` and the handler `home_thread` do.

Observed beside these, without a run of their own:

* In STARTUP mode an UPDATE is answered (`indicator_base.cc:259`); the comment at line 168 says
  it is ignored.
* `vortex_tee.click` and `dmi_tee.click` have no Timestamper, so an UPDATE may carry an older
  timestamp than the ADD before it; `Disciplined` fails for such a graph (it is the mutant
  `simple_action_Keep`).
* `Task::unschedule` promises more than it keeps: a thread that has read the status word may
  start the task once more (`LateOnce`, proved, is what holds; `task.hh:184-187`).
* A single printer in combined mode reads stamps nobody wrote (`stat_printer.cc:78-92`); a
  measured 0 is forgotten by `RunningStat`, for which 0 means "none yet".
* A Chi-X long message can hold counts above 2^31, which are passed on as an int; `BookExact`
  is about the converted counts.
* The hand-coded programs send a bar for symbols that have not traded, which ends Vortex by a
  division by 0, as does a first interval with a single price; `ad_line.cpp:59` prints an int
  with `%s`, and its comment at line 86 describes another rule than lines 102-111.
* `DirectionalMovement` means to discard trades from before the start
  (`directional_movement.cc:101`), but its division truncates towards 0, so those less than an
  interval before it count into interval 0. `SmoothedExact` is about the intervals as numbered.
* `DirectionalIndex` and `DxIndicator` save one packet for all symbols and pair by timestamp
  alone; the packet whose clone they save is not freed. The saved packet has no lock, so the two
  branches in front of them must not run on different threads (`directional_index.cc:122-213`).
* Two processors can be in `shm_queue_send_msg` at once, and its kfifo is safe for one writer
  only (`packet_capture.c:54`, `shmq.c:174`).
* `netif_receive_skb` may call NULL when its code reads the hook twice, as the comment at
  `dev.c:2583` says.
* Of a price that has been constant since the start of the window, Aroon's loop takes the first
  one as the lowest and the last one as the highest (`aroon_indicator.hh:45-62`).
* A thread holds its `_timer_lock` while callbacks run, so callbacks on two threads that
  schedule each other's timers would wait for each other; no element of the project does so.

## 6. Assumptions and what is left out

* The time stamp counters of the processors are synchronised, so that a later reading is larger.
* Stores become visible in program order (x86), as `sync.hh` and `task.cc` assume.
* In `Pipeline` one Click thread; the order of nested pushes is that of the calls in the code.
* Fixed-point values do not overflow. Rounding is modelled with a smaller unit (`One`).
* Prices passed to Trix are positive: it divides by the previous value. `BUF_SIZE` is at least
  2, although `configure` does not look.
* Memory management of packets (except in `MtNewThread`), debug output, and the text of messages
  are left out. Allocations succeed.
* The `active` handler and messages of other kinds in `IndicatorBase::push` only forward. The
  handler `active` of Timestamper is left out too: `Pipeline.simple_action` is an active one. An
  inactive Timestamper lets UPDATEs keep the time of their arrival, which is what the graphs
  without one do (section 5).
* Prices with more than 6 digits after the dot, or none, have no defined result in
  `denominator_for_len` and are excluded from `ParsedNearest`.
* `TimerSet`: the timer stride and the adjustment of expiries, which change how often the driver
  looks; pausing; `kill_router`. `TaskScheduling`: strides, tickets and the heap of tasks;
  stopping the driver.
* Not modelled, see `components` in `PROJECT.json`: the rest of Click (several hundred elements,
  configuration language, device drivers), the rest of the Linux file `dev.c`, file and socket
  tools, printing. These third-party files are most of the repository's lines, which is why the
  map, dense on the project's own code, covers a small share of all lines.

## 7. Plan

Built so far: rings, buffers, indicator elements, trade processing, graphs, price parsing; then
the hand-coded programs, the kernel path, threads, tasks and timers, statistics, the Chi-X
orders, and the first-generation elements. To come:

1. Proofs: `Disciplined` for a class of graphs, the incremental law per indicator, `WellPlaced`
   for any number of timers.
2. `MtNewThread` inside a graph: `Pipeline` with two threads and lost messages.
3. The stopping and hot-swapping of a router with its timers and tasks (`Master`, `kill_router`).
