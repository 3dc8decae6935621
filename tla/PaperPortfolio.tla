---------------------------- MODULE PaperPortfolio ----------------------------
(***************************************************************************)
(* tools/backtest/portfolio_simulator.py: at most one position and one     *)
(* order per symbol, cash, and the policies that open and close positions. *)
(* Candidate logs, the slippage and notional columns of a completed trade  *)
(* and the equity curve only report and are left out, as is the drawdown.  *)
(***************************************************************************)
EXTENDS PaperExecution

CONSTANTS
  Symbols, Flat,      (* Flat: no position *)
  NONE, LONG, SHORT   (* candidate actions *)

Never == -1  (* a limit that is not set *)

Directions == {"long", "short"}
Order ==
  [id : Nat \ {0}, sym : Symbols, purpose : {"entry", "exit"}, side : {"buy", "sell"},
   direction : Directions, quantity : Nat \ {0}, order_time : Nat, eligible : Nat]
Position ==
  [direction : Directions, quantity : Nat \ {0}, entry_price : Nat \ {0}, entry_time : Nat, entry_costs : Nat]

ASSUME PortfolioAssumption == IsFiniteSet(Symbols) /\ Flat \notin Position

PortfolioConfigOK(cfg) ==
  /\ cfg.starting_cash \in Nat /\ cfg.sizing_mode \in {"fixed_shares", "fixed_notional", "cash_pct"}
  /\ cfg.fixed_shares \in Nat \ {0} /\ cfg.fixed_notional \in Nat /\ cfg.fixed_cash_pct \in 0 .. 100
  /\ cfg.max_concurrent_positions = Never \/ cfg.max_concurrent_positions >= 1

NewAccount(cfg) ==
  [cfg |-> cfg, cash |-> cfg.starting_cash,
   positions |-> [s \in Symbols |-> Flat],
   pending_symbols |-> [s \in Symbols |-> 0],   (* with _pending_order_ids; 0: not pending *)
   completed_trades |-> 0, realized_pnl |-> 0,
   next_order_id |-> 1, pending |-> <<>>, unfilled_orders |-> <<>>]

Account(Configs) ==
  [cfg : Configs, cash : Int, positions : [Symbols -> Position \cup {Flat}],
   pending_symbols : [Symbols -> Nat], completed_trades : Nat, realized_pnl : Int,
   next_order_id : Nat \ {0}, pending : Seq(Order), unfilled_orders : Seq(Order)]

Open(a) == {s \in Symbols : a.positions[s] # Flat}
IsPending(a, s) == a.pending_symbols[s] # 0
SumOver(S, Amount(_)) == SumFunction([s \in S |-> Amount(s)])

(* Positions are visited in the order they were opened: the last opened one last. *)
LastOpened(a, S) == CHOOSE s \in S : \A t \in S : a.positions[t].entry_time <= a.positions[s].entry_time
VisitOpen(a, Visit(_, _), base) ==
  MapThenFoldSet(Visit, base, LAMBDA s : s, LAMBDA S : LastOpened(a, S), Open(a))

----------------------------------------------------------------------------
(* Fills *)

OpenPosition(a, fill) ==
  [a EXCEPT
     !.cash = @ - fill.commission - (IF fill.direction = "long" THEN fill.price * fill.quantity ELSE 0),
     !.positions[fill.sym] = [direction |-> fill.direction, quantity |-> fill.quantity,
                              entry_price |-> fill.price, entry_time |-> fill.time,
                              entry_costs |-> fill.commission]]

(* The exit of a short pays its price as the exit of a long earns it. *)
BugShortPaysFullPrice(a, fill) ==
  LET p == a.positions[fill.sym]
      gross == (IF p.direction = "long" THEN fill.price - p.entry_price
                ELSE p.entry_price - fill.price) * p.quantity IN
  [a EXCEPT
     !.cash = @ - fill.commission
       + (IF p.direction = "long" THEN fill.price * fill.quantity ELSE 0 - fill.price * fill.quantity),
     !.positions[fill.sym] = Flat, !.completed_trades = @ + 1,
     !.realized_pnl = @ + gross - p.entry_costs - fill.commission]

ClosePosition(a, fill) ==
  LET p == a.positions[fill.sym]
      gross == (IF p.direction = "long" THEN fill.price - p.entry_price
                ELSE p.entry_price - fill.price) * p.quantity IN
  [a EXCEPT
     !.cash = @ - fill.commission + (IF p.direction = "long" THEN fill.price * fill.quantity ELSE gross),
     !.positions[fill.sym] = Flat, !.completed_trades = @ + 1,
     !.realized_pnl = @ + gross - p.entry_costs - fill.commission]

(* A fill that finds no order's worth of position to open or close is ignored. *)
apply_fill(a, fill) ==
  LET b == [a EXCEPT !.pending_symbols[fill.sym] = 0] IN
  IF (fill.purpose = "entry") = (a.positions[fill.sym] # Flat) THEN b
  ELSE IF fill.purpose = "entry" THEN OpenPosition(b, fill) ELSE ClosePosition(b, fill)

apply_fills(a, fills) == FoldLeft(apply_fill, a, fills)

portfolio_on_quote(a, now, f) ==
  LET tried == execution_on_quote(a, now, f) IN apply_fills(tried.a, tried.fills)

(* An order is submitted under the mark that its symbol has one pending. *)
BugForgetsMark(a, order, now, f, is_quote, force) ==
  submit([a EXCEPT !.next_order_id = @ + 1], order, now, f, is_quote, force)
submit_marked(a, order, now, f, is_quote, force) ==
  submit([a EXCEPT !.pending_symbols[order.sym] = order.id, !.next_order_id = @ + 1],
         order, now, f, is_quote, force)

submit_and_apply(a, order, now, f, is_quote) ==
  LET done == submit_marked(a, order, now, f, is_quote, FALSE) IN
  With(apply_fills(done.a, done.fills), done.fills)

----------------------------------------------------------------------------
(* Orders *)

exit_order(a, s, now) ==
  [id |-> a.next_order_id, sym |-> s, purpose |-> "exit",
   side |-> IF a.positions[s].direction = "long" THEN "sell" ELSE "buy",
   direction |-> a.positions[s].direction, quantity |-> a.positions[s].quantity,
   order_time |-> now, eligible |-> now + a.cfg.latency]

size(a, price) ==
  CASE a.cfg.sizing_mode = "fixed_shares" -> a.cfg.fixed_shares
    [] a.cfg.sizing_mode = "cash_pct" -> Max({1, (a.cash * a.cfg.fixed_cash_pct) \div (100 * price)})
    [] a.cfg.sizing_mode = "fixed_notional" -> Max({1, a.cfg.fixed_notional \div price})

gross_exposure(a) == SumOver(Open(a), LAMBDA s : a.positions[s].entry_price * a.positions[s].quantity)

EntryPrice(f, direction) == IF direction = "long" THEN f.ask ELSE f.bid

(* Cash, position count and exposure are those of the filled positions. *)
MayEnter(a, f, direction) ==
  LET price == EntryPrice(f, direction)
      notional == price * size(a, price)
      cost == commission(a.cfg, size(a, price)) IN
  /\ price > 0
  /\ a.cash >= cost + (IF direction = "long" THEN notional ELSE 0)
  /\ a.cfg.max_concurrent_positions = Never \/ Cardinality(Open(a)) < a.cfg.max_concurrent_positions
  /\ a.cfg.no_pyramiding => a.positions[f.sym] = Flat
  /\ gross_exposure(a) + notional <=
       (IF a.cfg.max_gross_exposure # Never THEN a.cfg.max_gross_exposure ELSE a.cfg.starting_cash)

entry_order(a, f, direction, now) ==
  [id |-> a.next_order_id, sym |-> f.sym, purpose |-> "entry",
   side |-> IF direction = "long" THEN "buy" ELSE "sell",
   direction |-> direction, quantity |-> size(a, EntryPrice(f, direction)),
   order_time |-> now, eligible |-> now + a.cfg.latency]

submit_entry(a, f, direction, now, is_quote) ==
  IF MayEnter(a, f, direction)
  THEN submit_and_apply(a, entry_order(a, f, direction, now), now, f, is_quote).a
  ELSE a

----------------------------------------------------------------------------
(* Policies *)

(* A position the candidate opposes is closed, and reversed if it closed at once. *)
consider_candidate(a, action, f, now, is_quote) ==
  LET desired == IF action = LONG THEN "long" ELSE "short"
      p == a.positions[f.sym]
      closing == submit_and_apply(a, exit_order(a, f.sym, now), now, f, is_quote) IN
  IF action = NONE \/ IsPending(a, f.sym) \/ (desired = "short" /\ ~a.cfg.enable_short) THEN a
  ELSE IF p = Flat THEN submit_entry(a, f, desired, now, is_quote)
  ELSE IF p.direction = desired \/ ~a.cfg.opposite_candidate_exit THEN a
  ELSE IF a.cfg.reverse_same_event /\ closing.fills # <<>> /\ closing.a.positions[f.sym] = Flat
       THEN submit_entry(closing.a, f, desired, now, is_quote)
  ELSE closing.a

(* Gain of a position at a price, in ten thousandths of its entry price. *)
GainBps(p, mark) ==
  (IF p.direction = "long" THEN mark - p.entry_price ELSE p.entry_price - mark) * 10000
HeldTooLong(cfg, p, now) == cfg.max_holding # Never /\ now - p.entry_time >= cfg.max_holding

ExitWanted(cfg, s, p, now, f, is_quote) ==
  LET mark == IF p.direction = "long" THEN f.bid ELSE f.ask IN
  IF ~is_quote \/ f.sym # s THEN HeldTooLong(cfg, p, now)
  ELSE /\ mark > 0
       /\ \/ cfg.stop_loss_bps # Never /\ GainBps(p, mark) <= 0 - cfg.stop_loss_bps * p.entry_price
          \/ cfg.take_profit_bps # Never /\ GainBps(p, mark) >= cfg.take_profit_bps * p.entry_price
          \/ HeldTooLong(cfg, p, now)

RiskExit(s, a, now, f, is_quote) ==
  IF IsPending(a, s) \/ ~ExitWanted(a.cfg, s, a.positions[s], now, f, is_quote) THEN a
  ELSE submit_and_apply(a, exit_order(a, s, now), now, f, is_quote /\ f.sym = s).a

evaluate_risk(a, now, f, is_quote) ==
  VisitOpen(a, LAMBDA s, b : RiskExit(s, b, now, f, is_quote), a)

(* The positions flatten asks to close; it looks for the last feature of each. *)
ToFlatten(a) == {s \in Open(a) : ~IsPending(a, s)}

(* The exits at the end of a day wait for their latency like any other. *)
BugFlattenWaits(s, r, now, features) ==
  LET done == submit_marked(r.a, exit_order(r.a, s, now), now, features[s], TRUE, FALSE) IN
  IF IsPending(r.a, s) THEN r ELSE With(done.a, r.fills \o done.fills)
FlattenExit(s, r, now, features) ==
  LET done == submit_marked(r.a, exit_order(r.a, s, now), now, features[s], TRUE, TRUE) IN
  IF IsPending(r.a, s) THEN r ELSE With(done.a, r.fills \o done.fills)

EndOfDayExits(a, now, features) ==
  VisitOpen(a, LAMBDA s, r : FlattenExit(s, r, now, features), With(a, <<>>))

(* The fills of all exits are applied at the end. *)
flatten(a, now, features) ==
  LET all == EndOfDayExits(a, now, features) IN apply_fills(all.a, all.fills)

ClearPending(a) == [a EXCEPT !.pending_symbols = [s \in Symbols |-> 0]]

(* Only the symbol of the feature is marked at its price; the others at their entry. *)
Unrealized(a, f) ==
  SumOver(Open(a), LAMBDA s :
    LET p == a.positions[s]
        touch == IF p.direction = "long" THEN f.bid ELSE f.ask
        mark == IF f.sym = s /\ touch > 0 THEN touch ELSE p.entry_price IN
    (IF p.direction = "long" THEN mark - p.entry_price ELSE p.entry_price - mark) * p.quantity)

mark_to_market(a, f) ==
  a.cash + Unrealized(a, f)
  + SumOver({s \in Open(a) : a.positions[s].direction = "long"},
            LAMBDA s : a.positions[s].entry_price * a.positions[s].quantity)
=============================================================================
