---------------------------- MODULE PaperExecution ----------------------------
(***************************************************************************)
(* tools/backtest/execution_simulator.py: orders wait for the first quote  *)
(* of their symbol at or after their eligible time, and fill at its touch. *)
(*                                                                         *)
(* The operators work on an account record, of which this module reads     *)
(* cfg and owns next_order_id, pending and unfilled_orders.  Money is in   *)
(* units of the smallest price step.                                       *)
(***************************************************************************)
EXTENDS Integers, Sequences, FiniteSets, SequencesExt

NoFill == [order |-> 0]

(* What a cfg must fulfil. *)
ExecutionConfigOK(cfg) ==
  /\ cfg.latency \in Nat /\ cfg.fixed_slippage \in Nat /\ cfg.slippage_bps \in Nat
  /\ cfg.commission_per_trade \in Nat /\ cfg.commission_per_share \in Nat /\ cfg.minimum_commission \in Nat

apply_slippage(cfg, price, side) ==
  LET adverse == cfg.fixed_slippage + (price * cfg.slippage_bps) \div 10000 IN
  IF side = "buy" THEN price + adverse ELSE Max({1, price - adverse})

commission(cfg, quantity) ==
  LET raw == cfg.commission_per_trade + cfg.commission_per_share * quantity IN
  IF raw = 0 THEN 0 ELSE Max({cfg.minimum_commission, raw})

(* Whoever buys pays the ask, whoever sells gets the bid; a side without size fills nobody. *)
Fillable(side, f) ==
  /\ f.spread_valid
  /\ IF side = "buy" THEN f.ask > 0 /\ f.askq > 0 ELSE f.bid > 0 /\ f.bidq > 0

make_fill(cfg, order, now, f) ==
  LET reference == IF order.side = "buy" THEN f.ask ELSE f.bid IN
  IF f.sym # order.sym \/ ~Fillable(order.side, f) THEN NoFill
  ELSE [order |-> order.id, sym |-> order.sym, side |-> order.side, purpose |-> order.purpose,
        direction |-> order.direction, quantity |-> order.quantity, time |-> now,
        price |-> apply_slippage(cfg, reference, order.side),
        commission |-> commission(cfg, order.quantity)]

(* Operations that may fill return the account and the fills. *)
With(a, fills) == [a |-> a, fills |-> fills]

submit(a, order, now, f, is_quote, force_immediate) ==
  LET eligible == IF force_immediate THEN now ELSE order.order_time + a.cfg.latency
      queued == IF force_immediate THEN order ELSE [order EXCEPT !.eligible = eligible]
      fill == make_fill(a.cfg, queued, now, f) IN
  IF is_quote /\ eligible <= now /\ fill # NoFill THEN With(a, <<fill>>)
  ELSE With([a EXCEPT !.pending = Append(@, queued)], <<>>)

(* A quote at the eligible time itself is too early. *)
BugStrictlyLater(order, now, f) == order.sym = f.sym /\ order.eligible < now
Due(order, now, f) == order.sym = f.sym /\ order.eligible <= now

(* A waiting order that fills leaves the queue; what is not due or has no fill stays. *)
Attempt(r, order, now, f) ==
  LET fill == IF Due(order, now, f) THEN make_fill(r.a.cfg, order, now, f) ELSE NoFill IN
  IF fill = NoFill THEN With([r.a EXCEPT !.pending = Append(@, order)], r.fills)
  ELSE With(r.a, Append(r.fills, fill))

execution_on_quote(a, now, f) ==
  FoldLeft(LAMBDA r, order : Attempt(r, order, now, f), With([a EXCEPT !.pending = <<>>], <<>>), a.pending)

flush(a) ==
  [a EXCEPT !.unfilled_orders = @ \o a.pending, !.pending = <<>>]
=============================================================================
