--------------------------- MODULE FeatureStatistics ---------------------------
(***************************************************************************)
(* tools/backtest/feature_analysis.py: what a study reports of features    *)
(* and candidates, once from the complete list (feature_distributions,     *)
(* candidate_summary) and once from counters that keep a bounded sample    *)
(* (StreamingFeatureAccumulator, StreamingCandidateAccumulator).           *)
(*                                                                         *)
(* Rates and quantiles are left out: they are functions of the counts, the *)
(* time span and the values or the sample.                                 *)
(***************************************************************************)
EXTENDS StrategyModel, Sequences, SequencesExt, FiniteSetsExt, Bags

CONSTANTS
  SampleSize,  (* values kept for the quantiles of a distribution *)
  NoValue,
  Combined     (* the group of all symbols *)

ASSUME StatisticsAssumption == SampleSize \in Nat \ {0} /\ NoValue \notin Int

(* The entries of a list at the chosen places, in their order. *)
Selected(entries, chosen) ==
  LET selected[n \in 0 .. Len(entries)] ==
        IF n = 0 THEN <<>>
        ELSE IF n \in chosen THEN Append(selected[n - 1], entries[n]) ELSE selected[n - 1]
  IN  selected[Len(entries)]
OfSymbol(entries, s) == Selected(entries, {i \in DOMAIN entries : entries[i].sym = s})

Total(numbers) ==
  LET sum[n \in 0 .. Len(numbers)] == IF n = 0 THEN 0 ELSE sum[n - 1] + numbers[n]
  IN  sum[Len(numbers)]

Columns == {"spread", "momentum", "imbalance", "vwap_delta", "volume", "vwap", "score"}
ValueOf(c, n) == IF n = "score" THEN c.score ELSE c.feature.value[n]
ValidOf(c, n) == n \in {"score", "volume"} \/ c.feature.valid[n]

----------------------------------------------------------------------------
(* One distribution *)

NewDistribution ==
  [count |-> 0, invalid |-> 0, min |-> NoValue, max |-> NoValue, total |-> 0, sample |-> <<>>]

SampleStride == Max({1, SampleSize \div 1000})

Sampled(d, value) ==
  LET count == d.count + 1 IN
  IF Len(d.sample) < SampleSize THEN Append(d.sample, value)
  ELSE IF count % SampleStride = 0
       THEN [d.sample EXCEPT ![((count \div SampleStride) % SampleSize) + 1] = value]
  ELSE d.sample

observe_value(d, value, valid) ==
  IF ~valid THEN [d EXCEPT !.invalid = @ + 1]
  ELSE [count |-> d.count + 1, invalid |-> d.invalid, total |-> d.total + value,
        min |-> IF d.min = NoValue THEN value ELSE Min({d.min, value}),
        max |-> IF d.max = NoValue THEN value ELSE Max({d.max, value}),
        sample |-> Sampled(d, value)]

(* The same figures from the list of rows. *)
distribution_of(rows, n) ==
  LET valid == Selected(rows, {i \in DOMAIN rows : ValidOf(rows[i], n)})
      values == [i \in DOMAIN valid |-> ValueOf(valid[i], n)] IN
  [count |-> Len(values), invalid |-> Len(rows) - Len(values),
   min |-> IF values = <<>> THEN NoValue ELSE Min(Range(values)),
   max |-> IF values = <<>> THEN NoValue ELSE Max(Range(values)),
   total |-> Total(values), values |-> values]

----------------------------------------------------------------------------
(* All features: a group of distributions for all symbols and one per symbol *)

NewGroup == [n \in Columns |-> NewDistribution]
NewFeatureStats(groups) == [g \in groups |-> NewGroup]

observe_feature(stats, c) ==
  [g \in DOMAIN stats |->
     IF g \in {Combined, c.sym}
     THEN [n \in Columns |-> observe_value(stats[g][n], ValueOf(c, n), ValidOf(c, n))]
     ELSE stats[g]]

RowsOf(rows, g) == IF g = Combined THEN rows ELSE OfSymbol(rows, g)
feature_distributions(rows, groups) ==
  [g \in groups |-> [n \in Columns |-> distribution_of(RowsOf(rows, g), n)]]

----------------------------------------------------------------------------
(* Candidates *)

DisabledReasons == {"symbol_disabled", "strategy_disabled", "long_disabled", "short_disabled"}
NoActions == [a \in {NONE, LONG, SHORT} |-> 0]
NewCandidateStats ==
  [total |-> 0, actions |-> NoActions, by_symbol |-> EmptyBag, by_score |-> EmptyBag,
   by_reason |-> EmptyBag, by_day |-> EmptyBag, invalid |-> 0, disabled |-> 0, cooldown |-> 0,
   first |-> NoValue, last |-> NoValue]

Add1(bag, x) == bag (+) SetToBag({x})
Bit(p) == IF p THEN 1 ELSE 0

observe_action(stats, c) ==
  LET fired == c.action # NONE IN
  [total |-> stats.total + 1, actions |-> [stats.actions EXCEPT ![c.action] = @ + 1],
   by_symbol |-> IF fired THEN Add1(stats.by_symbol, c.sym) ELSE stats.by_symbol,
   by_score |-> IF fired THEN Add1(stats.by_score, c.score) ELSE stats.by_score,
   by_reason |-> IF fired THEN Add1(stats.by_reason, c.reason) ELSE stats.by_reason,
   by_day |-> IF fired THEN Add1(stats.by_day, c.day) ELSE stats.by_day,
   invalid |-> stats.invalid + Bit("invalid_feature" \in c.reason),
   disabled |-> stats.disabled + Bit(c.reason \cap DisabledReasons # {}),
   cooldown |-> stats.cooldown + Bit("cooldown_active" \in c.reason),
   first |-> IF stats.first = NoValue THEN c.time ELSE stats.first, last |-> c.time]

CountOf(rows, Test(_)) == Cardinality({i \in DOMAIN rows : Test(rows[i])})
BagBy(rows, Key(_)) == ToBag([i \in DOMAIN rows |-> Key(rows[i])])

candidate_summary(rows) ==
  LET fired == Selected(rows, {i \in DOMAIN rows : rows[i].action # NONE})
      times == {rows[i].time : i \in DOMAIN rows} IN
  [total |-> Len(rows), actions |-> [a \in DOMAIN NoActions |-> CountOf(rows, LAMBDA c : c.action = a)],
   by_symbol |-> BagBy(fired, LAMBDA c : c.sym), by_score |-> BagBy(fired, LAMBDA c : c.score),
   by_reason |-> BagBy(fired, LAMBDA c : c.reason), by_day |-> BagBy(fired, LAMBDA c : c.day),
   invalid |-> CountOf(rows, LAMBDA c : "invalid_feature" \in c.reason),
   disabled |-> CountOf(rows, LAMBDA c : c.reason \cap DisabledReasons # {}),
   cooldown |-> CountOf(rows, LAMBDA c : "cooldown_active" \in c.reason),
   first |-> IF rows = <<>> THEN NoValue ELSE Min(times),
   last |-> IF rows = <<>> THEN NoValue ELSE Max(times)]
=============================================================================
