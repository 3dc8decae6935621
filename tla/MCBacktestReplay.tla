--------------------------- MODULE MCBacktestReplay ---------------------------
(* A long-only account with latency, stop and target, and one that may go short, *)
(* reverses and has a holding limit.                                             *)
EXTENDS BacktestReplay, TLC

Base ==
  [latency |-> 1, fixed_slippage |-> 0, slippage_bps |-> 0,
   commission_per_trade |-> 1, commission_per_share |-> 0, minimum_commission |-> 0,
   starting_cash |-> 6, sizing_mode |-> "fixed_notional", fixed_shares |-> 1, fixed_notional |-> 5,
   fixed_cash_pct |-> 50, max_concurrent_positions |-> Never, no_pyramiding |-> TRUE,
   enable_short |-> FALSE, reverse_same_event |-> FALSE, opposite_candidate_exit |-> TRUE,
   stop_loss_bps |-> 3000, take_profit_bps |-> 3000, max_holding |-> Never,
   end_of_day_flatten |-> TRUE, max_gross_exposure |-> Never, reset_each_session |-> TRUE]

MCConfigs ==
  {Base,
   [Base EXCEPT !.latency = 0, !.starting_cash = 12, !.sizing_mode = "fixed_shares", !.enable_short = TRUE,
      !.reverse_same_event = TRUE, !.stop_loss_bps = Never, !.max_holding = 2,
      !.fixed_slippage = 1, !.reset_each_session = FALSE]}

MCQuotes ==
  {[side |-> "bid", price |-> 2, quantity |-> 0], [side |-> "bid", price |-> 4, quantity |-> 1],
   [side |-> "ask", price |-> 3, quantity |-> 1],
   [side |-> "ask", price |-> 5, quantity |-> 1]}

Symmetry == Permutations(Symbols)
=============================================================================
