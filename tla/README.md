# Verification of the FPGA-accelerated trading system

TLA+ models of the system's concurrent and stateful parts, TLC configurations
that check them on small instances, and TLAPS proofs of the properties that
hold for every instance. Every definition is translated from the source; the
file and the lines it stands for are in `PROJECT.json` under `map`.

## 1. The system

A Linux host (`host/`) reads market data, stamps each event with a per-slot
sequence number and sends it as a 32-byte SPI frame to an FPGA (`fpga/rtl/`).
The FPGA keeps per-symbol state in two engines and derives candidate signals;
nothing is traded. Python tools (`tools/`) replay and back-test the strategy.

```
files -> sequences -> market model -> strategy model -> candidates -> statistics, forward returns
                           |                                |
                           +--- quotes ---> execution simulator <-> portfolio simulator
      -> timestamp analysis (checkpoints) -> rates, interarrival times, queue occupancy
```

Two loops drive the upper line: the engine keeps every candidate and analyses
the lists at the end, the streaming replay keeps running statistics. A third,
the command-line replay, stops at the candidates.

```
host: source -> registry -> sequence manager -> trading engine -> client -> SPI
                                                                            |
fpga: spi_slave -> RX FIFO -> dispatcher -+-> market engine -> signal engine
         ^                                +-> strategy config (CLEAR resets both)
         +-------- TX FIFO <- loopback <--+
```

| Component | State it keeps | Operations | What is hard about it | What makes it correct |
| --- | --- | --- | --- | --- |
| Dual-clock packet FIFO | Gray-coded pointers, synchronizers, flags | write, read, reset | two unrelated clocks, metastable samples, stale flags, wrap | it is a bounded queue; flags err on the safe side; quiet sides still see each other |
| Dispatcher | one packet, one of six states, status override | fetch, CRC, classify, route | waits for three consumers | nothing lost, status of the right packet |
| Strategy configuration | enables, thresholds, cooldown, pending slot reset | control writes, CLEAR | CLEAR is acknowledged before it is done | both engines clear, once, together |
| Market engine | per-slot sequence, book, windows; the event worked on | event, slot reset | 224 to 536 cycles per event, feature held under backpressure | duplicate and stale events change nothing; feature taken exactly once |
| Signal engine | prior condition, last action, cooldown per slot; record on offer | feature, slot reset, reconfiguration | edges and cooldown under reconfiguration | cooldown exact; edges and repeats neither lost nor doubled |
| Loopback engine | one request, answer on offer | take, answer | full TX FIFO | one answer per request, in order |
| SPI slave | phase, held packet, frame registers | frame, aborted frame | clocked only inside frames; one-way events mixed with exchanges | packets once and in order; own answer to every exchange |
| Exchange (host) | none between calls | three transfers | any transfer may fail | a success report is true |
| Symbol registry | ticker, enabled, phase per slot | assign, clear, enable, disable, remap in three calls | call order, lost acknowledgements | no ticker active twice; a remapped slot is clean in the FPGA |
| Sequence manager, trading engine | next number per slot, loop running | stamp and send, reset, overflow | failed transfers, restarts | the FPGA takes the next event |
| Alpaca source | connection state, queue, attempt counter | connect, authenticate, subscribe, receive, back off, stop | timeouts, retries, a second thread | it ends in Stopped or Failed, or goes on; order kept |
| Market model (Python) | per-symbol sequence, book, ring histories, running sums | event, reset | windows and saturation | sums and momentum are those of the last accepted events |
| Strategy model (Python) | prior condition, last action, cooldown, counters | feature, reset | a second implementation | it decides as the RTL does |
| Execution and portfolio simulators | queue of orders, marks of pending symbols, positions, cash | candidate, quote, risk exit, flatten, flush | two records of what is pending; latency; session ends | marks and queue agree; cash reconciles; no order is lost |
| Replay loops | session, features of the session, given-up orders | event, session boundary, end | three ways to know a session; rejected events | a session is closed completely; the loops agree |
| Replay sequences | a counter per session and symbol | assign | given and missing numbers mixed | an assigned number is never refused |
| Forward returns, feature statistics | open horizons, counters, samples | quote, candidate, feature, finish | two computations of the same figures | streaming and batch agree |
| Timestamp analysis | counts, rate windows, queues; checkpoint and manifest files | event, checkpoint, resume, finish | interrupts, failing writes, kills, two files | a resumed run equals an uninterrupted one |

The hazards, each at its line and with the properties that would catch it
going wrong, are in `PROJECT.json` under `hazards`.

## 2. Modules

| Module | Models | Kind |
| --- | --- | --- |
| `BoundedPacketQueue` | what a packet FIFO promises | abstract specification |
| `AsyncPacketFifo` | `fifo/async_packet_fifo.sv`, both clock domains | detailed, refines the queue |
| `MCAsyncPacketFifo` | the binary-reflected Gray code as a table | for TLC |
| `AsyncPacketFifo_proofs` | | proofs |
| `RequestService` | what the fabric promises the host about answers | abstract specification |
| `TradingFabric`, `TradingFabric_proofs` | dispatcher, configuration, both engines' handshakes, loopback, FIFOs on one clock | composition, refines the service; proofs |
| `SignalEngine`, `SignalEngine_proofs` | `strategy/signal_engine.sv` and the registers that steer it | detailed; proofs |
| `HostRuntime`, `HostRuntime_proofs` | registry, sequence manager, engine loop, and what the FPGA keeps of a slot | composition of host and FPGA; proofs |
| `ArrivalDiagnostics` | the timestamp analysis of `backtest/arrival.py`, in its combined, streaming and batch forms | pure algorithms |
| `ArrivalCheckpoint`, `ArrivalCheckpoint_proofs`, `MCArrivalCheckpoint` | its resumable pass over an input, with both files | detailed, on top of the former; proofs |
| `PaperExecution`, `PaperPortfolio` | `execution_simulator.py`, `portfolio_simulator.py` as operators on one account record | component operators |
| `BacktestReplay`, `BacktestReplay_proofs`, `MCBacktestReplay` | the loops of `pipeline.py` and `streaming.py` around them | composition; proofs |
| `MarketModel`, `StrategyModel` | `reference_model/market_model.py`, `strategy_model.py` | component operators |
| `ForwardReturns`, `FeatureStatistics` | `forward_returns.py`, `feature_analysis.py` and their streaming counterparts | pure algorithms, both forms |
| `CandidatePath`, `MCCandidatePath` | the three loops from an event to a reported candidate; compares with `SignalEngine` | composition |
| `CandidatePath_proofs` | | proofs |
| `SpiLink`, `SpiLink_proofs`, `MCSpiLink` | `spi/spi_slave.sv` and the host's three-transfer exchange over the two FIFOs | composition; proofs; sequence numberings for TLC |

How state and actions correspond to the code:

- **AsyncPacketFifo.** The variables are the registers of the module. `WrEdge`
  and `RdEdge` are the two `always @(posedge ...)` blocks, `BothEdges` both at
  once. The synchronizers' first stage may catch, for every bit that changes at
  that moment, the old or the new value (`Blend`). `Reset` is the shared `reset_n`. The memory
  is a function from slots to packets; a packet is a model value. `Gray` is a
  constant with the two properties the design needs of the code, so the proofs
  hold for any such code; TLC uses the one of the RTL.
- **TradingFabric.** `Clk` is one rising edge of `clk`: all blocks move
  together, as in the RTL; the wires between them are operators named like the
  signals. A packet is its kind, its slot and a tag. `market_slot` and
  `signal_slot` are the tags of the events an engine's state of a slot reflects;
  that replaces the numbers in the state and lets properties say *which events*
  an engine remembers. The CRC and the divider are counters. Each FIFO is a
  queue that drops nothing; that a dual-clock FIFO is such a queue is what
  `AsyncPacketFifo` shows.
- **SignalEngine.** One action per kind of clock edge and per control write. A
  feature is abstracted to whether all long, and all short, conditions hold. `since`,
  `loaded` and `disarmed` are history variables that no action reads for a guard.
- **HostRuntime.** One action per public call of the registry, one pass of the
  engine's loop, restart, and the FPGA's clear of a slot. A refused call changes
  nothing, so the refusals are the guards. An event transfer has two Booleans:
  whether it arrived, and whether it was reported as successful.
- **SpiLink.** A frame is its first edge, the edges between, and its last edge,
  because `spi_clk` runs only inside frames and each of them does something
  different: the first takes the answer and hands over the held packet, the last
  latches the new one and moves the phase. A transfer may fail before a frame,
  in the middle of one, or after a complete one.
- **ArrivalDiagnostics, ArrivalCheckpoint.** One operator per method of the
  state classes. `observe` is the six parts it works through in order, so that
  an interrupt can fall between any two of them (`FailInsideEvent`). Saving is
  two actions, one per file, since the run can end between the two `os.replace`
  calls. It can end there in two ways: the process is killed (`Kill`), or the
  handler's own checkpoint raises (`FailInHandler`, `arrival.py:439`; on a full
  disk a checkpoint may replace the first file, fail on the second, and fail
  again in the handler). An exception after the event loop reaches no handler
  at all (`FailAfterPass`). These three leave the files as they are, and
  `lost` counts them. `pair` records whether any run ended halfway; `owner` and
  `spoiled` are facts about a state. The program knows none of the three, and no
  guard of a code step reads them, only the bound on interrupts inside an event. Ticks replace nanoseconds; a rate is kept as the
  number of events of its window.
- **PaperExecution, PaperPortfolio.** A call that changes the two simulators is
  an operator from one account record to the next; it calls the operators of
  the methods that the code calls, in the same order. Prices are small integers
  and the basis-point limits compare integers, as the arithmetic of the code is
  exact in the range used. A loop over the open positions (risk exits, marking,
  flattening) visits them in the order in which the dictionary holds them, and
  each visit works on the account the visit before it left; a sum over them is a
  fold in that order.
- **BacktestReplay.** One action is one pass of the loop: session boundary,
  event, waiting orders, risk exits, candidate. `driver` says which loop runs. The
  strategy is any candidate on a valid book: whatever a strategy, also one passed
  in as `strategy_factory`, may decide.
- **MarketModel, StrategyModel, CandidatePath.** The record of a feature has
  its quotients by name; a set of conditions stands for the tuple of truth values
  and for the reason bits. `CandidatePath` has again one action per pass, with
  sequences assigned as the loop does it. The log is what the engine keeps; the
  streaming loop's statistics are compared with an analysis of it. The RTL's
  signal engine is instantiated over the strategy model's state, and each
  decision compared.

## 3. Runs

The last column is the number of distinct states, or the length of the counterexample.

| Run | Question | Outcome | States |
| --- | --- | --- | ---: |
| `async_fifo` | Is the FIFO a bounded queue under any interleaving of the clocks and resets, and does each side learn of the other's last action? | holds | 136,640 |
| `fabric` | Is every packet answered once, in order, with its own status; do the engines agree; does a CLEAR separate? Is a patient host always served? | holds | 70,976 |
| `fabric_reset` | Is every accepted CLEAR carried out? | **violated**: the engines wait on each other | 22 steps |
| `signal` | Cooldown, edges, repeats, disarming | holds | 25,728 |
| `host_registry` | One active slot per ticker, clean remaps, fresh numbers | holds | 78,284 |
| `host_reassign` | Is every slot clear-acknowledged before assignment? | **violated** | 7 steps |
| `spi_link` | Does a success report mean success? Packets once and in order? | holds | 761,803 |
| `spi_default_sequence` | The same with the default argument of `control_packet` | **violated** | 16 steps |
| `arrival` | Is a resumed analysis the uninterrupted one? Do the three computations agree, and is the queue a real queue? Does it finish? | holds | 283,767 |
| `arrival_interrupt` | The same if the interrupt falls inside an event | **violated** | 12 steps |
| `backtest` | Do orders, marks, positions and cash agree, through session ends, in all three loops? | holds | 366,348 |
| `candidates` | Windows, RTL equivalence, sequences, streaming statistics | holds | 102,224 |

### What the violated properties show

1. **A CLEAR can stop the fabric.** While a slot reset is pending the signal
   engine withdraws `feature_ready` (`signal_engine.sv:249`). A market engine in
   the middle of an event then keeps offering its feature and never becomes
   ready to reset (`market_state_engine.sv:382`). The command was already
   acknowledged. It takes a CLEAR classified before the event ahead of it has
   left the market engine. `PatientHostIsServed` shows that this is the only
   way: a host that never sends a CLEAR behind an unfinished event is served.
2. **A slot can change its ticker with no CLEAR.** `disable_slot` and
   `clear_slot` leave a slot that `assign_symbol` accepts, although its refusal
   text demands an acknowledged clear. `begin_remap` is safe
   (`RemapSlotIsClean`, proved).
3. **A stale answer may acknowledge another request.** Only the sequence number
   tells an answer left behind by a failed exchange from the right one, and the
   default argument gives every control packet the number 0.
4. **An interrupt can lose part of an event.** `observe` counts an event as
   processed before anything else (`arrival.py:271`), and the handler of the
   interrupt saves whatever state it finds (439). The comment there promises a
   resumable checkpoint; the resumed run skips the rest of that event.

Three things the passing runs state with an exception, because the code behaves
that way and promises nothing else: a run that ends
between the two file replacements, by a kill or by an exception in the handler's
own checkpoint, leaves the state of its input beside the manifest of the run
before it, and a later run on that other input takes the state up
(`AdoptsOwnState` says that this is the only way to it);
the batch forward returns take the entry price from a quote that came *after*
the candidate if it has the same timestamp, as the ask does that comes with a
bid (`StreamingAgrees` compares the exit alone there, and `Shared` says when);
and the engine's summary counts the unfilled orders of the last session only
(`OrdersAccounted`). A session end with a position whose symbol had no event in
the session ends the run with an `AttributeError` (`Crash`).

### Bounds, and why they are enough

- `AsyncPacketFifo`: the deployed depth (4) and pointer width (3), two packets
  that differ, counters modulo 2 (they are written and never read by the logic).
- `TradingFabric`: two slots (properties relate one slot to the events of
  another at most), FIFOs of one cell (so that both fill and stall),
  three packets (event, CLEAR, event is the longest pattern a property speaks
  of), and a calculation that ends before or after the next packet is
  classified: only that order matters, not the number of cycles.
- `SignalEngine`: one slot, as slots share only configuration and the output
  record; cooldowns 0 to 3, which include off, the repeat at once, and a
  countdown. The proofs cover every cooldown width and number of slots.
- `HostRuntime`: two slots, two tickers, numbers 0 to 2. The proofs cover all.
- `ArrivalCheckpoint`: four events per input, two inputs that share the files,
  checkpoints every two events, one lost run, any number of interrupts; gaps of
  zero, one and three ticks against a window of two and a service of one and a
  half, so that events share a window, skip one, queue up, overflow and drain.
  The samples hold two and three values, so that both overflow.
- `BacktestReplay`: two symbols, two days, six events, two entries by
  candidates. A long round trip with latency and a session end needs four
  events, and a second symbol two more. Two accounts between them have every
  policy on and off.
- `CandidatePath`: seven events on two symbols over two days, windows of two
  and one, cooldowns of zero to two, a width at which the quotients of the
  offered prices saturate (21 bits; 32 in the code, beyond TLC's integers). The
  first three events are chosen so that a feature is complete; the rest are
  free. Long and short candidates, repeats, rejected events of every kind, a
  shared timestamp, a quote without a price and an overflowing sample all occur.
- `SpiLink`: FIFOs of two cells, which both fill, and five packets: a failed
  exchange, events that fill the RX FIFO, and an exchange after them.

### Deadlock and fairness

Deadlock is checked in every run but those of `SpiLink`, whose host stops after
`MaxPackets`, and those of `BacktestReplay` and `CandidatePath`, which end when
the replay does. In `TradingFabric` a clock edge is always possible; that the
*design* does not stop is what `PatientHostIsServed` states.

`AsyncPacketFifo` assumes that both clocks tick (weak fairness of each edge),
which is what free-running clocks do; for the SPI clock it stands for a host
that keeps transferring. Nothing is assumed of the callers' `wr_en` and `rd_en`
or of resets. `TradingFabric` assumes that the clock ticks and that the host
keeps fetching answers, not that it sends. `ArrivalCheckpoint` assumes that the
user starts a stopped analysis again (weak fairness), that file writes proceed
(weak), and that a run which exceptions keep interrupting between its events
does get to an event or to its end now and then (strong: an interrupt and the
next event compete for ever, and nothing in the code can win against a user who
interrupts every time). Handled exceptions are not bounded; the runs that end
without their checkpoint are (`MaxLost`), since each of them may lose what it
did and nothing in the code promises an end to a user whose disk stays full. The other modules have safety
properties and action properties only and assume no fairness.

## 4. Proofs

TLAPS checks all of these for every value of the constants, from the named
assumptions on them.

- **FIFO** (`AsyncPacketFifo_proofs`). The inductive invariant adds to the types
  `PointerOrder`: the *order of the six pointers* on the ring of `2 * Depth`. Each
  synchronizer stage is at or behind the one that feeds it, and the writer is at
  most `Depth` ahead of the oldest image of the reader. The flags alone are not
  inductive, because they are computed from those images. Distances on the ring
  make it linear arithmetic: one lemma per edge, and one for edges that fall
  together. A metastable sample is harmless because two successive codes differ
  in one bit (`CodeAssumption`), so a blend is one of the two. From the invariant
  follow the flags (`FlagsSafe`) and the refinement of `BoundedPacketQueue`
  (`FifoIsQueue`): the cells between the pointers are the queue, and each edge
  maps to a step of the queue or to a stutter.
- **Signal engine** (`SignalEngine_proofs`). The invariant ties
  `cooldown_remaining` to the history: it is what is left of the cooldown loaded
  at the last candidate. `CooldownExact` is that fact; the action properties
  `DistanceKept`, `LastingRepeats` and `DisarmedFires` follow from it, the last
  with the clause that a disarmed slot has no prior condition.
- **Host runtime** (`HostRuntime_proofs`). The invariant joins the phase of a
  slot with what the FPGA holds of it: a slot that waits for assignment without
  a ticker is clean, an enabled slot is the only one with its ticker, and a slot
  whose numbers were not set back is ahead of the FPGA. It needs the meaning of
  the phases to be inductive. `RemapIsClean`, `NoDoubleTicker` and
  `NextEventAccepted` are its parts.

- **Fabric** (`TradingFabric_proofs`). `AgreeUpToOffer`: the engines' memories
  of a slot differ at most by the event whose feature is on offer, or by a reset
  that both have still to perform; `EnginesAgree` is the case of a market engine
  at rest. `ClearSeparates` needs two more facts. `Ordered`: tags grow from what
  an engine reflects, over the dispatcher, to the back of the RX FIFO.
  `ClearsTracked`: every CLEAR is queued, in the dispatcher, or older than all
  that is. Then whatever an engine reflects from before a CLEAR has that CLEAR
  still outstanding (`ClearsSeparate`), and nothing from after it can be accepted
  until the reset is done.
- **Link** (`SpiLink_proofs`). The types say in addition which packets are
  *known*: those in the slave and the FIFOs were sent, and the present call's
  packet is among them only once its request frame is through. From that, every
  answer in flight is truthful about a packet the fabric took, and with sequence
  numbers that differ (the assumption of `SuccessIsTrue`, which the default
  argument breaks) the accepted answer is the call's own. `OnceInOrder` is
  inductive with the types, because every hand-over keeps or shortens the list
  of packets under way. `UndisturbedCallsSucceed` follows an exchange through
  its frames: the request is held, then queued, then its answer waits alone in
  the TX FIFO, and it is in the frame of the response; meanwhile the slave's phase is the one
  the host believes in. Calls, frames and answers are assumed different from
  `None`, and packets from `Filler` (`LinkAssumption`).
- **Candidates** (`CandidatePath_proofs`). `AssignedAreAccepted`: no slot of the
  market model is ahead of the counter its next number comes from, which holds
  only together with the way given numbers raise the counter (`PathAssumption`
  states that given numbers are naturals). `StrategyIsRtl`: the RTL's
  registers are read off the strategy model's state, so each decision is compared
  case by case; it needs that a direction requires a valid feature and that there
  is no momentum right after a reset (a session starts without a remembered
  condition), and that the log is a sequence whose last entry is the decision.
- **Windows** (also in `CandidatePath_proofs`). `WindowsAreHistory`: a slot of the
  market model *reflects* the list of its symbol's accepted events since the
  reset. A ring holds the last numbers of that list, the newest right behind the
  write pointer, so the cell about to be overwritten is the first number of the
  window; the running sum then drops exactly what falls out (`SlidingTotal`,
  `RingPush`, `RingSum`, for every window size). A side of the book is its last
  quote, and the ring of midpoints is that of the events on valid quotes,
  which lags one event behind while the feature is computed: momentum therefore
  measures from a full window ago. Totals and selections are recursive functions,
  and the lemmas follow them entry by entry. `TypeCorrect` adds that every
  quotient is divided by a number that is not 0 and fits its field.
- **Statistics** (also in `CandidatePath_proofs`). `StatisticsAreOfTheLog`: the
  running statistics are those of the list of all accepted events. The log grows
  by one row at a time, so the proof follows every figure of the list through one
  more row: a distribution *follows* the list of its valid values (count,
  total, extremes, and a sample that is the whole list until it is full and draws
  from it afterwards), a bag gains one key, the first and last time stay those of
  a list in the order of time, and the strategy's own counters count the same
  decisions. The symbols' groups and the group of all differ in which rows
  they select and in nothing else.
- **Forward returns** (also in `CandidatePath_proofs`). `StreamingIsAnalysis`: at
  its end a streaming replay has reported what the analysis of the complete lists
  reports. While it runs, the horizons of all candidates are split in two, for
  any number of them: the rows are in bijection with the horizons that some
  quote of the log closes, each holding the result at the *first* such quote, and
  the heap is in bijection with the others (`Tracks`). A quote moves the horizons
  it closes from one to the other; those put back because it has no price keep
  their candidate under a new number, which must stay below the next so that the
  heap order remains a total one (`Numbered`, `HeapOrder`). Equal bags then
  follow from the bijection, not from counting. For the entry price, a candidate's
  book has to be the one its symbol's last quote left (`Booked`, `Quoted`), across
  rejected events and the resets of a session: the running loop reads it from
  that quote, the list analysis finds the same quote unless a later one shares the
  candidate's time (`Shared`) or the side has no price (`Unpriced`).
- **Backtest** (`BacktestReplay_proofs`). The inductive invariant is a *ledger*:
  it joins the execution simulator's queue, the portfolio's marks of pending
  symbols, the positions and the cash. `PendingAgree`, `CashReconciles` and
  `OrdersAccounted` are not inductive one by one. A mark is set by a
  candidate or a risk exit and removed by a fill, an expiry or a flattening, so
  that marks and queue agree only if a symbol has at most one order waiting and
  an exit order belongs to an open position; the cash is what was paid and
  received for the positions still open and the trades already closed; an order
  filled by the simulator is not yet applied to the portfolio while the fills of
  one event are worked through. The ledger therefore has the list of fills still
  to be applied as a parameter, and each call is shown to carry one ledger to
  the next. The loops (waiting orders, open positions, flattening) are unfolded
  into chains of visits, and each chain is followed by induction over its
  length. The end of a session is proved complete (`CloseIsComplete`): no order
  and no mark survives it, and a position only if its exit could not fill: its
  symbol had an order pending, or the last feature had nobody on its side.
  `EligibleOrdersFill` follows the
  waiting orders through one quote: whatever is due on its symbol leaves the queue.
- **Checkpoints** (`ArrivalCheckpoint_proofs`). A state is *sound* if it is the
  fold of `observe` over the first events of the input it belongs to. The
  invariant says that of the state in memory and of the checkpoint file, and
  that the two files belong together but halfway between their two writes, when
  only the run that is writing goes on; a handled exception brings it back to
  the first write, a run that ends there gives the promise up for good. An event is
  six steps, and an interrupt between them spoils the state: the invariant
  carries the flag that says so through saving and resuming. From it follow
  `StateIsAPrefix`, `AdoptsOwnState` and that a report made after any number of
  interrupts, lost and resumed runs is that of one pass over the whole input
  (`ResumedReportIsOnePass`).
- **Queue** (also in `ArrivalCheckpoint_proofs`). `QueuesAreReal`: the figures of
  `_observe_queue` are those of a single server with a buffer. For every event
  of the pass and every later time, the number of events still waiting or in
  service is the remaining work divided by the service time, rounded up, and the
  remaining work is what the accumulator carries; the invariant holds of all
  later times because the next event may come at any of them. A departure list
  built event by event then explains the overflow count, the sum and the maximum
  of the occupancies. It is stated for events in the order of time
  (`InTimeOrder`), which the passes expect of their input and do not check.
- **Requests** (also in `TradingFabric_proofs`). `FabricServesRequests`: the
  fabric implements `RequestService`. What is owed is a fold over the packets
  inside the fabric, oldest first: the loopback engine's, the dispatcher's, those in the RX
  FIFO. The invariant `Routed` says that whatever is on its way to the loopback
  engine carries the override from which that engine computes the right status,
  although the override was chosen blocks earlier. Every clock edge then moves a
  packet within that list, drops one that deserves no answer, or takes the
  oldest answer off it and puts it into the TX FIFO.

The lemmas about induction over numbers and over the length of a sequence are
stated in each module that needs them, and proved there from the
well-foundedness of the naturals.

The assumptions on constants are what the code guarantees: for the backtest a
finite set of symbols (`PortfolioAssumption`), quotes whose price and quantity
are naturals, and configurations in the ranges the constructors of the two
simulators accept (`ReplayAssumption`); for the candidates that prices,
quantities, times and given numbers are naturals, that windows and field widths
are positive, and a bound on the cooldowns (`PathAssumption`,
`MarketAssumption`); for the checkpoints that an input is a
finite sequence of events with a time, a symbol and a kind
(`CheckpointAssumption`); for the statistics that a sample has room
for a value and that the mark of a missing value is no number
(`StatisticsAssumption`); for the forward returns that horizons are positive
and that the marks for a missing price, quote or result are none of those
(`ForwardAssumption`); for the fabric that the mark for "no answer" is not a
status (`FabricAssumption`).

Only model-checked: the liveness properties (out of the prover's reach); and of
`ArrivalCheckpoint` that the three computations agree (`ThreeWaysAgree`: folds,
selections and sorted lists compared with each other, over data).

## 5. Not modelled, and why

Device opening, the software loopback transport, command-line parsing, logging
and report files hold no protocol state. The single-clock FIFO is not
instantiated. In the RTL models thresholds, scores and prices are data that
their properties do not tell apart; `MarketModel` and `StrategyModel` have them.
Of the Python tools are left out: packets and the differential test's drivers,
the event generator, CSV, JSON and binary files with their incremental parser,
the calendar arithmetic of sessions, the data-quality report, splits,
experiments and metrics (single passes over finished lists), and the grouping of
forward returns. The historical downloader of `providers.py` retries over the
network and resumes partial files; it is in the plan, as is the Alpaca source of
the host.

## 6. Plan

Done: the packet FIFO, the fabric, the signal engine, the host runtime, the
link between them, and the software side from events to orders, statistics and
checkpoints. Next, in this order:

1. Proofs: the three computations of `ArrivalDiagnostics`.
2. `AlpacaSource`: connection life cycle, backoff, stop from another thread, the
   bounded queue. Properties: a stop request ends it, order is kept, every
   failure leads to a retry or to Failed as the documentation says.
3. `MarketEngine`: the state machine of `market_state_engine.sv` from
   `READ_STATE` to `OUTPUT`, with window pointers and history words that survive
   a slot reset, shown to compute what `MarketModel` computes.
4. `HistoricalDownload`: pages, retries and partial files of `providers.py`.
5. Pure algorithms against reference definitions over bounded inputs: the
   restoring divider, decimal parsing, CRC-8.
