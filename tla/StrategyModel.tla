---------------------------- MODULE StrategyModel ----------------------------
(***************************************************************************)
(* tools/reference_model/strategy_model.py: the software copy of the       *)
(* signal engine's decision, with its score, reasons and counters.  A cfg  *)
(* holds the thresholds by feature name; the set of conditions that pass   *)
(* stands for the tuple of truth values in the code.                       *)
(***************************************************************************)
EXTENDS Integers, FiniteSets

CONSTANTS NONE, LONG, SHORT

Directional == {"momentum", "vwap_delta", "imbalance"}
Conditions == Directional \cup {"spread", "volume"}

Common(cfg, f) ==
  {n \in {"spread"} : f.valid.spread /\ f.value.spread <= cfg.max_spread}
  \cup {n \in {"volume"} : f.value.volume >= cfg.min_rolling_volume}

long_pass(cfg, f) ==
  {n \in Directional : f.valid[n] /\ f.value[n] >= cfg.long_min[n]} \cup Common(cfg, f)
short_pass(cfg, f) ==
  {n \in Directional : f.valid[n] /\ f.value[n] <= cfg.short_max[n]} \cup Common(cfg, f)

raw_direction(cfg, f) ==
  IF long_pass(cfg, f) = Conditions THEN LONG
  ELSE IF short_pass(cfg, f) = Conditions THEN SHORT ELSE NONE

feature_set_valid(f) ==
  f.valid.spread /\ f.valid.momentum /\ f.valid.imbalance /\ f.valid.vwap /\ f.valid.vwap_delta

SideOff(cfg, raw) == (raw = LONG /\ ~cfg.long_enable) \/ (raw = SHORT /\ ~cfg.short_enable)
SwitchedOff(cfg, f) ==
  ~cfg.strategy_enable \/ f.sym \notin cfg.symbol_enable \/ SideOff(cfg, raw_direction(cfg, f))

eligible_direction(cfg, f) ==
  IF feature_set_valid(f) /\ ~SwitchedOff(cfg, f) THEN raw_direction(cfg, f) ELSE NONE

candidate_fire(cfg, strategy, f) ==
  LET raw == raw_direction(cfg, f)
      eligible == eligible_direction(cfg, f)
      cooldown == strategy.cooldown_remaining[f.sym]
      last_emitted == strategy.last_emitted_action[f.sym]
      direction_edge == raw # NONE /\ raw # strategy.previous_condition[f.sym]
      cooldown_expiry_repeat ==
        cfg.signal_cooldown_events # 0 /\ cooldown = 1 /\ raw = last_emitted IN
  /\ eligible # NONE
  /\ (direction_edge /\ cooldown = 0) \/ (eligible = last_emitted /\ cooldown_expiry_repeat)

(* The conditions that pass for the direction found, or for either. *)
Passes(cfg, f) ==
  LET raw == raw_direction(cfg, f) IN
  (IF raw # SHORT THEN long_pass(cfg, f) ELSE {}) \cup (IF raw # LONG THEN short_pass(cfg, f) ELSE {})

reason_bits(cfg, strategy, f) ==
  LET raw == raw_direction(cfg, f)
      suppressed == raw # NONE /\ ~candidate_fire(cfg, strategy, f)
      If(cond, bit) == IF cond THEN {bit} ELSE {} IN
  Passes(cfg, f)
  \cup If(raw = LONG, "long") \cup If(raw = SHORT, "short")
  \cup If(~feature_set_valid(f), "invalid_feature")
  \cup If(f.sym \notin cfg.symbol_enable, "symbol_disabled")
  \cup If(~cfg.strategy_enable, "strategy_disabled")
  \cup If(raw = LONG /\ ~cfg.long_enable, "long_disabled")
  \cup If(raw = SHORT /\ ~cfg.short_enable, "short_disabled")
  \cup If(suppressed /\ strategy.cooldown_remaining[f.sym] # 0, "cooldown_active")
  \cup If(suppressed, "suppressed")

NewMetrics == [evaluated |-> 0, no_action |-> 0, long |-> 0, short |-> 0, invalid |-> 0, suppressed |-> 0]

NewStrategy(symbols) ==
  [previous_condition |-> [s \in symbols |-> NONE], last_emitted_action |-> [s \in symbols |-> NONE],
   cooldown_remaining |-> [s \in symbols |-> 0], metrics |-> NewMetrics]

(* A new session starts without edges and cooldowns; the counters run on. *)
reset_strategy(strategy) ==
  [NewStrategy(DOMAIN strategy.cooldown_remaining) EXCEPT !.metrics = strategy.metrics]

(* The cooldown only counts features that are held back by it. *)
BugCountsHeldBackOnly(cfg, strategy, f) ==
  LET cooldown == strategy.cooldown_remaining[f.sym] IN
  IF candidate_fire(cfg, strategy, f) THEN cfg.signal_cooldown_events
  ELSE IF cooldown # 0 /\ raw_direction(cfg, f) # NONE THEN cooldown - 1 ELSE cooldown
NextCooldown(cfg, strategy, f) ==
  LET cooldown == strategy.cooldown_remaining[f.sym] IN
  IF candidate_fire(cfg, strategy, f) THEN cfg.signal_cooldown_events
  ELSE IF cooldown # 0 THEN cooldown - 1 ELSE 0

Counted(metrics, action, valid, suppressed) ==
  [metrics EXCEPT !.evaluated = @ + 1,
     !.long = IF action = LONG THEN @ + 1 ELSE @,
     !.short = IF action = SHORT THEN @ + 1 ELSE @,
     !.no_action = IF action = NONE THEN @ + 1 ELSE @,
     !.invalid = IF valid THEN @ ELSE @ + 1,
     !.suppressed = IF suppressed THEN @ + 1 ELSE @]

evaluate(cfg, strategy, f) ==
  LET fire == candidate_fire(cfg, strategy, f)
      raw == raw_direction(cfg, f)
      action == IF fire THEN raw ELSE NONE IN
  [signal |-> [action |-> action, score |-> Cardinality(Passes(cfg, f)),
               reason |-> reason_bits(cfg, strategy, f)],
   strategy |->
     [previous_condition |-> [strategy.previous_condition EXCEPT ![f.sym] =
        IF SwitchedOff(cfg, f) THEN NONE ELSE raw],
      last_emitted_action |-> [strategy.last_emitted_action EXCEPT ![f.sym] = IF fire THEN raw ELSE @],
      cooldown_remaining |-> [strategy.cooldown_remaining EXCEPT ![f.sym] = NextCooldown(cfg, strategy, f)],
      metrics |-> Counted(strategy.metrics, action, feature_set_valid(f), raw # NONE /\ ~fire)]]
=============================================================================
