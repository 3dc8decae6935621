---------------------------- MODULE CandidatePath ----------------------------
(***************************************************************************)
(* From normalized events to candidates and what is reported of them: the  *)
(* loop bodies of BacktestEngine.run (pipeline.py), run_streaming_replay   *)
(* (streaming.py) and replay (replay/replay_strategy.py) without orders    *)
(* and portfolio, which BacktestReplay has.  Sequences are given or        *)
(* assigned, the market model makes a feature, the strategy judges it, and *)
(* the streaming loop keeps its running statistics.                        *)
(*                                                                         *)
(* The log is the list of candidates and quote points the engine keeps and *)
(* the streaming loop does not: what it reports is compared with it.       *)
(***************************************************************************)
EXTENDS MarketModel, StrategyModel, ForwardReturns, FeatureStatistics

CONSTANTS
  Configs,       (* strategy settings, and how a session starts *)
  Offered(_),    (* bound: the input events offered at each place of the replay, with the *)
                 (* time and the days since the event before                             *)
  Unlisted,      (* a symbol number outside the model's range *)
  NoSequence, NoInput, NoSignal,
  MaxCooldown,   (* bound: largest cooldown of a setting *)
  MaxEvents, MaxDay   (* bounds *)

ASSUME PathAssumption ==
  /\ {MaxCooldown, MaxEvents, MaxDay} \subseteq Nat /\ Unlisted \in Nat \ Symbols
  /\ \A c \in Configs : c.signal_cooldown_events \in 0 .. MaxCooldown
  /\ \A i \in 1 .. MaxEvents : \A e \in Offered(i) :
       /\ e.given = NoSequence \/ e.given \in Nat
       /\ e.price \in Nat /\ e.quantity \in Nat /\ e.wait \in Nat /\ e.days \in Nat

VARIABLES
  driver,          (* "engine", "streaming" or "replay" *)
  cfg,
  input_events, now, day,
  counters,        (* per symbol, of the present session key *)
  market, strategy,
  forward, feature_stats, candidate_stats,  (* kept by the streaming loop *)
  log,             (* one entry per accepted feature *)
  epoch,           (* history: length of the log at the last reset of the models *)
  last,            (* history: the last event and what became of it *)
  status

time == <<now, day, input_events>>
statistics == <<forward, feature_stats, candidate_stats>>
vars == <<driver, cfg, time, counters, market, strategy, statistics, log, epoch, last, status>>

Groups == Symbols \cup {Combined}

Init ==
  /\ driver \in {"engine", "streaming", "replay"} /\ cfg \in Configs
  /\ input_events = 0 /\ now = 0 /\ day = 0
  /\ counters = [s \in Symbols \cup {Unlisted} |-> 0]
  /\ market = reset_market /\ strategy = NewStrategy(Symbols)
  /\ forward = NewForward(Symbols) /\ feature_stats = NewFeatureStats(Groups)
  /\ candidate_stats = NewCandidateStats
  /\ log = <<>> /\ epoch = 0 /\ last = [input |-> NoInput, outcome |-> "none"]
  /\ status = "running"

----------------------------------------------------------------------------
(* Sequences *)

PerSession ==
  driver = "streaming" \/ (cfg.reset_replay_sequences /\ cfg.reset_each_session)
CounterAt(s, d) == IF d # day /\ PerSession THEN 0 ELSE counters[s]

(* The streaming loop numbers every event, the engine those without a number, *)
(* after the largest it has met; the command-line replay takes what it reads. *)
Assigns(e) == driver = "streaming" \/ (driver = "engine" /\ e.given = NoSequence)
SequenceOf(e, d) == IF Assigns(e) THEN CounterAt(e.sym, d) + 1 ELSE e.given

(* A number that was given is forgotten. *)
BugForgetsGiven(e, d) == IF Assigns(e) THEN SequenceOf(e, d) ELSE CounterAt(e.sym, d)
NextCounter(e, d) == Max({CounterAt(e.sym, d), SequenceOf(e, d)})

Counted1(e, d) ==
  [s \in DOMAIN counters |-> IF s = e.sym THEN NextCounter(e, d) ELSE CounterAt(s, d)]

----------------------------------------------------------------------------
(* The loop body *)

(* Events come in session and sorted by time, then symbol; a session ends when *)
(* the next event has another date.                                            *)
InOrder(e, t) == input_events > 0 /\ t = now => last.input.sym <= e.sym
Resets(d) ==
  d # day /\ (driver = "streaming" \/ (driver = "engine" /\ cfg.reset_each_session))

MarketAt(d) == IF Resets(d) THEN reset_market ELSE market
StrategyAt(d) == IF Resets(d) THEN reset_strategy(strategy) ELSE strategy

Result(e, d) ==
  process_event(MarketAt(d), [sym |-> e.sym, kind |-> e.kind, side |-> e.side, price |-> e.price,
                              quantity |-> e.quantity, sequence |-> SequenceOf(e, d)])

Arrives(e, t, d) ==
  /\ status = "running" /\ input_events < MaxEvents
  /\ InOrder(e, t)
  /\ d <= MaxDay /\ (d # day => t > now /\ input_events > 0 /\ driver # "replay")
  /\ driver = "replay" => e.given # NoSequence
  /\ input_events' = input_events + 1 /\ now' = t /\ day' = d
  /\ counters' = IF driver = "replay" THEN counters ELSE Counted1(e, d)
  /\ market' = Result(e, d).market
  /\ epoch' = IF Resets(d) THEN Len(log) ELSE epoch
  /\ last' = [input |-> e, outcome |-> Result(e, d).outcome]
  /\ UNCHANGED <<driver, cfg, status>>

Entry(e, t, d, signal, f) ==
  [time |-> t, day |-> d, sym |-> e.sym, kind |-> e.kind, side |-> e.side, price |-> e.price,
   quantity |-> e.quantity, bid |-> f.bid, ask |-> f.ask, feature |-> f,
   action |-> signal.action, score |-> signal.score, reason |-> signal.reason]

QuoteOf(c) == [time |-> c.time, sym |-> c.sym, bid |-> c.bid, ask |-> c.ask]
CandidateOf(c) ==
  [time |-> c.time, sym |-> c.sym, action |-> c.action, score |-> c.score, reason |-> c.reason]

(* The streaming loop shows a quote to the open horizons before the strategy *)
(* sees it, and opens the candidate's own afterwards.                        *)
WithQuote(c) == IF c.kind = "quote" THEN observe_quote(forward, QuoteOf(c)) ELSE forward
ForwardAfter(c) ==
  IF c.action # NONE THEN observe_candidate(WithQuote(c), CandidateOf(c)) ELSE WithQuote(c)

Report(c) ==
  IF driver = "streaming"
  THEN /\ forward' = ForwardAfter(c)
       /\ feature_stats' = observe_feature(feature_stats, c)
       /\ candidate_stats' = observe_action(candidate_stats, c)
  ELSE UNCHANGED statistics

AcceptedEvent(e, t, d) ==
  /\ Arrives(e, t, d)
  /\ Result(e, d).outcome = "feature"
  /\ LET f == Result(e, d).feature
         decision == evaluate(cfg, StrategyAt(d), f)
         c == Entry(e, t, d, decision.signal, f) IN
     /\ strategy' = decision.strategy
     /\ log' = Append(log, c)
     /\ Report(c)

RejectedEvent(e, t, d) ==
  /\ Arrives(e, t, d)
  /\ Result(e, d).outcome # "feature"
  /\ strategy' = StrategyAt(d)
  /\ UNCHANGED <<log, statistics>>

EndOfReplay ==
  /\ status = "running"
  /\ status' = "finished"
  /\ forward' = IF driver = "streaming" THEN finish(forward) ELSE forward
  /\ UNCHANGED <<driver, cfg, time, counters, market, strategy, feature_stats, candidate_stats,
                 log, epoch, last>>

Next ==
  \/ \E e \in Offered(input_events + 1) :
       LET t == now + e.wait
           d == day + e.days IN
       AcceptedEvent(e, t, d) \/ RejectedEvent(e, t, d)
  \/ EndOfReplay

Spec == Init /\ [][Next]_vars
----------------------------------------------------------------------------
(* Every variable keeps its shape, and every quotient fits its field. *)
Fits(v, width) == v \in -PowerOfTwo(width - 1) .. PowerOfTwo(width - 1) - 1
FeatureOK(f) ==
  /\ f.sym \in Symbols /\ f.bid \in Nat /\ f.ask \in Nat
  /\ \A n \in {"spread", "momentum", "vwap_delta"} : Fits(f.value[n], BpsWidth)
  /\ Fits(f.value.imbalance, ImbalanceWidth) /\ f.value.volume \in Nat /\ f.value.vwap \in Nat
TypeOK ==
  /\ driver \in {"engine", "streaming", "replay"} /\ cfg \in Configs
  /\ input_events \in 0 .. MaxEvents /\ now \in Nat /\ day \in 0 .. MaxDay
  /\ \A s \in Symbols : strategy.cooldown_remaining[s] \in 0 .. MaxCooldown
  /\ \A i \in DOMAIN log : FeatureOK(log[i].feature) /\ log[i].action \in {NONE, LONG, SHORT}
  /\ epoch <= Len(log) /\ status \in {"running", "finished"}

----------------------------------------------------------------------------
Trades(entries) == Selected(entries, {i \in DOMAIN entries : entries[i].kind = "trade"})
Moves(entries) == Selected(entries, {i \in DOMAIN entries : entries[i].feature.midpoint_valid})

Quantities(entries) == [i \in DOMAIN entries |-> entries[i].quantity]
Values(entries) == [i \in DOMAIN entries |-> entries[i].price * entries[i].quantity]

LastOf(seq, n) == SubSeq(seq, Max({1, Len(seq) - n + 1}), Len(seq))
LastQuote(entries, side) ==
  Max({0} \cup {i \in DOMAIN entries : entries[i].kind = "quote" /\ entries[i].side = side})

(* The accepted events of a symbol since the last reset. *)
Since(s) == OfSymbol(SubSeq(log, epoch + 1, Len(log)), s)

VolumeIsOfWindow(s) ==
  LET trades == Trades(Since(s)) IN
  /\ market[s].rolling_volume = Total(LastOf(Quantities(trades), TradeWindow))
  /\ market[s].sum_quantity = Total(LastOf(Quantities(trades), VwapWindow))
  /\ market[s].sum_value = Total(LastOf(Values(trades), VwapWindow))

MomentumIsOverWindow(s) ==
  LET entries == Since(s)
      f == Last(entries).feature
      b == LastQuote(entries, "bid")
      a == LastQuote(entries, "ask")
      book == a # 0 /\ b # 0 /\ entries[a].price >= entries[b].price
      moves == Moves(entries)
      n == Len(moves) IN
  entries # <<>> =>
    /\ f.midpoint_valid = book
    /\ book => f.midpoint = (entries[a].price + entries[b].price) \div 2
    /\ f.momentum_valid = (book /\ n > MomentumWindow)
    /\ f.momentum_valid => f.momentum = f.midpoint - moves[n - MomentumWindow].feature.midpoint

(* The running sums are those of the last accepted trades since the reset, and *)
(* momentum is measured from the midpoint exactly a window of valid midpoints  *)
(* ago, whatever was rejected, crossed, or happened in another session.        *)
WindowsMatchHistory == \A s \in Symbols : VolumeIsOfWindow(s) /\ MomentumIsOverWindow(s)

(* A number the replay itself assigns is never refused by the market model, *)
(* however assigned and given numbers alternate.                            *)
AssignedNeverRefused ==
  last.outcome \in {"duplicate_seq", "stale_seq"} => ~Assigns(last.input)

----------------------------------------------------------------------------
Rtl == INSTANCE SignalEngine WITH
  Horizon <- MaxCooldown,
  strategy_enable <- cfg.strategy_enable, long_enable <- cfg.long_enable,
  short_enable <- cfg.short_enable, symbol_enable <- [s \in Symbols |-> s \in cfg.symbol_enable],
  signal_cooldown_events <- cfg.signal_cooldown_events,
  previous_condition <- strategy.previous_condition,
  last_emitted_action <- strategy.last_emitted_action,
  cooldown_remaining <- strategy.cooldown_remaining,
  signal <- NoSignal, signal_ready <- TRUE, since <- [s \in Symbols |-> 0],
  loaded <- [s \in Symbols |-> 0], disarmed <- [s \in Symbols |-> FALSE]

(* The signal engine's view of an entry of the log. *)
RtlFeature(c) ==
  [sym |-> c.sym, long |-> long_pass(cfg, c.feature) = Conditions,
   short |-> short_pass(cfg, c.feature) = Conditions]

SlotCleared(s) ==
  /\ strategy.previous_condition[s] = NONE /\ strategy.last_emitted_action[s] = NONE
  /\ strategy.cooldown_remaining[s] = 0

(* Within a session the model decides on every feature as the signal engine's   *)
(* RTL does and leaves its slot as that does; a new session finds every slot    *)
(* as after the RTL's slot reset.                                               *)
StrategyFollowsRtl ==
  [][IF Resets(day')
     THEN \A s \in Symbols : SlotCleared(s)'
     ELSE log' # log =>
       LET c == Last(log')
           f == RtlFeature(c)
           fires == Rtl!CandidateFires(f) IN
       /\ c.action = (IF fires THEN Rtl!RawDirection(f) ELSE NONE)
       /\ strategy'.previous_condition =
            [strategy.previous_condition EXCEPT ![c.sym] = Rtl!Condition(f)]
       /\ strategy'.last_emitted_action =
            [strategy.last_emitted_action EXCEPT ![c.sym] = IF fires THEN Rtl!RawDirection(f) ELSE @]
       /\ Rtl!Cooldown(f)]_vars

----------------------------------------------------------------------------
(* The candidate's time is shared by a quote of its symbol that came after it. *)
Shared(row) ==
  \E i, j \in DOMAIN log :
    /\ i < j /\ log[i].time = row.time /\ log[j].time = row.time
    /\ log[i].sym = row.sym /\ log[j].sym = row.sym
    /\ log[i].action # NONE /\ log[j].kind = "quote"
Unpriced(row) ==
  \E i \in DOMAIN log :
    /\ log[i].time = row.time /\ log[i].sym = row.sym /\ log[i].action = row.action
    /\ EntryPrice(log[i], row.action) = NoPrice
ExitOf(row) ==
  IF row.result = NoReturn THEN NoReturn
  ELSE IF row.action = LONG THEN row.result.entry + row.result.gain ELSE row.result.entry - row.result.gain

(* What both must agree on: the exit alone if the entry is ambiguous. *)
Compared(row) == IF Shared(row) THEN [row EXCEPT !.result = ExitOf(row)] ELSE row
Comparable(rows) ==
  ToBag([i \in {k \in DOMAIN rows : ~Unpriced(rows[k])} |-> Compared(rows[i])])
WithoutResults(rows) == ToBag([i \in DOMAIN rows |-> [rows[i] EXCEPT !.result = NoReturn]])

ForwardAgrees ==
  /\ WithoutResults(forward.rows) = WithoutResults(analyze(log))
  /\ Comparable(forward.rows) = Comparable(analyze(log))
  /\ \A i \in DOMAIN forward.rows :
       Unpriced(forward.rows[i]) /\ ~Shared(forward.rows[i]) => forward.rows[i].result = NoReturn

DistributionAgrees(d, e) ==
  /\ d.count = e.count /\ d.invalid = e.invalid /\ d.total = e.total
  /\ d.min = e.min /\ d.max = e.max
  /\ IF d.count <= SampleSize THEN d.sample = e.values
     ELSE Len(d.sample) = SampleSize /\ Range(d.sample) \subseteq Range(e.values)

(* The running statistics are those of the complete lists, and the strategy's  *)
(* own counters agree with them.                                               *)
StatisticsAgree ==
  driver = "streaming" =>
    /\ \A g \in Groups, n \in Columns :
         DistributionAgrees(feature_stats[g][n], feature_distributions(log, Groups)[g][n])
    /\ candidate_stats = candidate_summary(log)
    /\ candidate_stats.actions[LONG] = strategy.metrics.long
    /\ candidate_stats.actions[SHORT] = strategy.metrics.short
    /\ candidate_stats.invalid = strategy.metrics.invalid

(* A streaming replay reports what the analysis of the complete lists does:     *)
(* after every event the same counts and distributions, and at its end the same *)
(* forward returns, but for the entry price of a candidate that a later quote   *)
(* shares its time with (there the list analysis looks ahead) and of one on a   *)
(* side without a price.                                                        *)
StreamingAgrees ==
  /\ StatisticsAgree
  /\ status = "finished" /\ driver = "streaming" => ForwardAgrees
=============================================================================
