---------------------------- MODULE BacktestReplay ----------------------------
(***************************************************************************)
(* The replay loops of tools/backtest: BacktestEngine.run (pipeline.py)    *)
(* and run_streaming_replay (streaming.py), with and without sequences     *)
(* assigned beforehand.  Each event goes through session boundary, market  *)
(* model, pending orders, risk, strategy and portfolio in one pass of the  *)
(* loop.  The market model is reduced to the book it keeps, the strategy   *)
(* to any candidate on a valid book (CandidatePath has both in full); the  *)
(* events are in session and sorted, one per time unit.                    *)
(***************************************************************************)
EXTENDS PaperPortfolio

CONSTANTS
  Configs,     (* settings of execution, portfolio and session *)
  Quotes,      (* what a quote may say: side, price, quantity *)
  NoFeature, NoSymbol,
  MaxEvents, MaxDay, MaxOrders   (* bounds: events, session dates, orders issued *)

Drivers == {"engine", "streaming", "presequenced"}

ASSUME ReplayAssumption ==
  /\ MaxEvents \in Nat /\ MaxDay \in Nat /\ MaxOrders \in Nat
  /\ \A cfg \in Configs : ExecutionConfigOK(cfg) /\ PortfolioConfigOK(cfg)
  /\ Quotes \subseteq [side : {"bid", "ask"}, price : Nat, quantity : Nat]
  /\ NoSymbol \notin Symbols

VARIABLES
  driver,        (* which loop runs *)
  account,       (* execution and portfolio simulators *)
  book,          (* the quotes the market model keeps of each symbol *)
  last_features, (* of the symbols accepted in this session *)
  now,           (* time of the last event *)
  day,           (* session date of the last event *)
  session,       (* session the loop believes to be in *)
  seen_symbols,  (* presequenced: symbols met in this session *)
  today,         (* symbols that had an event on this day, so their next sequence is not 1 *)
  last_quote,    (* symbol whose quote was the last event, if it was one *)
  unfilled_count,(* what the summary reports *)
  status         (* "running", "finished", "crashed" *)

loop == <<day, session, seen_symbols, today>>
vars == <<driver, account, book, last_features, now, loop, last_quote, unfilled_count, status>>

Book == [bid : Nat, bidq : Nat, ask : Nat, askq : Nat, bid_valid : BOOLEAN, ask_valid : BOOLEAN]
Feature == [sym : Symbols, bid : Nat, bidq : Nat, ask : Nat, askq : Nat, spread_valid : BOOLEAN]

EmptyBook == [bid |-> 0, bidq |-> 0, ask |-> 0, askq |-> 0, bid_valid |-> FALSE, ask_valid |-> FALSE]
NoFeatures == [s \in Symbols |-> NoFeature]

Init ==
  /\ driver \in Drivers /\ \E cfg \in Configs : account = NewAccount(cfg)
  /\ book = [s \in Symbols |-> EmptyBook] /\ last_features = NoFeatures
  /\ now = 0 /\ day = 0 /\ session = 0 /\ seen_symbols = {} /\ today = {}
  /\ last_quote = NoSymbol /\ unfilled_count = 0 /\ status = "running"

FeatureOf(s, b) ==
  [sym |-> s, bid |-> b.bid, bidq |-> b.bidq, ask |-> b.ask, askq |-> b.askq,
   spread_valid |-> b.bid_valid /\ b.ask_valid /\ b.ask >= b.bid]

Quoted(b, q) ==
  IF q.side = "bid" THEN [b EXCEPT !.bid = q.price, !.bidq = q.quantity, !.bid_valid = TRUE]
  ELSE [b EXCEPT !.ask = q.price, !.askq = q.quantity, !.ask_valid = TRUE]

----------------------------------------------------------------------------
(* Session boundary and end of replay *)

HasFeature(s) == last_features[s] # NoFeature
AnyFeature == \E s \in Symbols : HasFeature(s)

(* flatten looks a position up in the features of the session; for a position  *)
(* without one it passes the whole dictionary on, which no order can be filled  *)
(* from: the run dies of an AttributeError.                                     *)
Crashes ==
  /\ AnyFeature /\ account.cfg.end_of_day_flatten
  /\ \E s \in ToFlatten(account) : ~HasFeature(s)

Flattened ==
  IF AnyFeature /\ account.cfg.end_of_day_flatten THEN flatten(account, now, last_features) ELSE account

(* Orders still waiting are left in the queue. *)
BugKeepsQueue == ClearPending(Flattened)
Closed == ClearPending(flush(Flattened))

(* The engine overwrites what it knew of unfilled orders at each boundary. *)
Unfilled ==
  IF driver = "engine" THEN Len(Flattened.pending) ELSE unfilled_count + Len(Flattened.pending)

(* The engine and the streaming loop compare dates; with sequences assigned   *)
(* beforehand a session begins when a symbol met in this one starts again.    *)
BugAnyFirstSequence(s, d) ==
  IF driver # "presequenced" THEN d
  ELSE IF d # day \/ s \notin today THEN session + 1 ELSE session
SessionOf(s, d) ==
  IF driver # "presequenced" THEN d
  ELSE IF s \in seen_symbols /\ (d # day \/ s \notin today) THEN session + 1 ELSE session

Resets == driver # "engine" \/ account.cfg.reset_each_session

----------------------------------------------------------------------------
(* The loop body *)

(* An accepted event: on a quote the waiting orders come first, then risk, *)
(* then the candidate. *)
Trade(a, f, is_quote, action) ==
  LET quoted == IF is_quote THEN portfolio_on_quote(a, now + 1, f) ELSE a
      guarded == evaluate_risk(quoted, now + 1, f, is_quote) IN
  consider_candidate(guarded, action, f, now + 1, is_quote)

(* The boundary is what precedes the event proper: the account and the book it finds. *)
Boundary(s, d) == SessionOf(s, d) # session
AccountAt(s, d) == IF Boundary(s, d) THEN Closed ELSE account
BookAt(s, d) == IF Boundary(s, d) /\ Resets THEN [t \in Symbols |-> EmptyBook] ELSE book
FeaturesAt(s, d) == IF Boundary(s, d) THEN NoFeatures ELSE last_features

CrossBoundary(s, d) ==
  /\ status = "running" /\ now < MaxEvents
  /\ Boundary(s, d) => ~Crashes
  /\ now' = now + 1 /\ day' = d /\ session' = SessionOf(s, d)
  /\ today' = (IF d # day THEN {} ELSE today) \cup {s}
  /\ seen_symbols' = (IF Boundary(s, d) THEN {} ELSE seen_symbols) \cup {s}
  /\ unfilled_count' = IF Boundary(s, d) THEN Unfilled ELSE unfilled_count
  /\ UNCHANGED <<driver, status>>

MayAct(action, f, a) == action = NONE \/ (f.spread_valid /\ a.next_order_id <= MaxOrders)

(* An event the market model accepts: a quote, or a trade, which leaves the book alone. *)
Accepted(s, d, b, is_quote, action) ==
  LET f == FeatureOf(s, b) IN
  /\ MayAct(action, f, AccountAt(s, d))
  /\ account' = Trade(AccountAt(s, d), f, is_quote, action)
  /\ book' = [BookAt(s, d) EXCEPT ![s] = b]
  /\ last_features' = [FeaturesAt(s, d) EXCEPT ![s] = f]
  /\ last_quote' = IF is_quote THEN s ELSE NoSymbol

QuoteEvent(s, d) ==
  /\ CrossBoundary(s, d)
  /\ \E q \in Quotes, action \in {NONE, LONG, SHORT} :
       Accepted(s, d, Quoted(BookAt(s, d)[s], q), TRUE, action)

TradeEvent(s, d) ==
  /\ CrossBoundary(s, d)
  /\ \E action \in {NONE, LONG, SHORT} : Accepted(s, d, BookAt(s, d)[s], FALSE, action)

(* An event the market model rejects still closes the session it is too late for. *)
RejectedEvent(s, d) ==
  /\ CrossBoundary(s, d)
  /\ account' = AccountAt(s, d) /\ book' = BookAt(s, d) /\ last_features' = FeaturesAt(s, d)
  /\ last_quote' = NoSymbol

EndOfReplay ==
  /\ status = "running" /\ ~Crashes
  /\ account' = Closed /\ unfilled_count' = Unfilled /\ status' = "finished"
  /\ UNCHANGED <<driver, book, last_features, now, loop, last_quote>>

Crash ==
  /\ status = "running" /\ Crashes
  /\ status' = "crashed"
  /\ UNCHANGED <<driver, account, book, last_features, now, loop, last_quote, unfilled_count>>

Next ==
  \/ \E s \in Symbols, d \in day .. MaxDay :
       QuoteEvent(s, d) \/ TradeEvent(s, d) \/ RejectedEvent(s, d)
  \/ EndOfReplay \/ Crash

Spec == Init /\ [][Next]_vars
----------------------------------------------------------------------------
(* Every variable keeps its shape, no position was opened later than now, no   *)
(* order waits under a number yet to be issued, and no loop is ahead of a day.  *)
TypeOK ==
  /\ driver \in Drivers /\ account \in Account(Configs) /\ book \in [Symbols -> Book]
  /\ last_features \in [Symbols -> Feature \cup {NoFeature}]
  /\ now \in Nat /\ day \in Nat /\ session \in Nat /\ unfilled_count \in Nat
  /\ seen_symbols \subseteq Symbols /\ today \subseteq Symbols /\ last_quote \in Symbols \cup {NoSymbol}
  /\ \A s \in Open(account) : account.positions[s].entry_time <= now
  /\ \A i \in DOMAIN account.pending : account.pending[i].id < account.next_order_id
  /\ session <= day /\ (driver # "presequenced" => session = day)
  /\ status \in {"running", "finished", "crashed"}

(* What the portfolio believes to be pending is what the execution simulator    *)
(* holds: one order per symbol at most, an entry only without a position, and   *)
(* an exit only for the whole of a position of its direction.  So a fill is     *)
(* never ignored, whatever policies and session ends interleave.                *)
PendingAgree ==
  /\ \A i, j \in DOMAIN account.pending :
       account.pending[i].sym = account.pending[j].sym => i = j
  /\ \A s \in Symbols :
       IF IsPending(account, s)
       THEN \E i \in DOMAIN account.pending :
              /\ account.pending[i].sym = s /\ account.pending[i].id = account.pending_symbols[s]
       ELSE \A i \in DOMAIN account.pending : account.pending[i].sym # s
  /\ \A i \in DOMAIN account.pending :
       LET o == account.pending[i]
           p == account.positions[o.sym] IN
       IF o.purpose = "entry" THEN p = Flat
       ELSE p # Flat /\ p.direction = o.direction /\ p.quantity = o.quantity

(* The cash is what the completed trades and the open positions leave of the   *)
(* starting cash, and the equity at any mark differs from it by unrealized     *)
(* gains only, for longs and shorts alike.                                     *)
Costs(a) == SumOver(Open(a), LAMBDA s : a.positions[s].entry_costs)
Longs(a) == {s \in Open(a) : a.positions[s].direction = "long"}
Invested(a) == SumOver(Longs(a), LAMBDA s : a.positions[s].entry_price * a.positions[s].quantity)
CashReconciles ==
  LET settled == account.cfg.starting_cash + account.realized_pnl - Costs(account) IN
  /\ account.cash = settled - Invested(account)
  /\ \A s \in Symbols :
       mark_to_market(account, FeatureOf(s, book[s])) = settled + Unrealized(account, FeatureOf(s, book[s]))

(* Every order issued is waiting, was given up, or filled once: two fills per   *)
(* completed trade, one per open position.  The streaming summary counts all    *)
(* orders given up; the engine's only those of its last session.                *)
OrdersAccounted ==
  /\ account.next_order_id - 1 =
       Len(account.pending) + Len(account.unfilled_orders)
       + 2 * account.completed_trades + Cardinality(Open(account))
  /\ driver # "engine" => unfilled_count = Len(account.unfilled_orders)
  /\ driver = "engine" => unfilled_count <= Len(account.unfilled_orders)

(* After a quote no order of its symbol that has served its latency waits any   *)
(* longer, unless nobody stands on the side it needs.                           *)
EligibleOrdersFill ==
  \A i \in DOMAIN account.pending :
    LET o == account.pending[i] IN
    last_quote = o.sym /\ o.eligible <= now => ~Fillable(o.side, FeatureOf(o.sym, book[o.sym]))

(* A session that is closed leaves no order waiting, and a position only if its *)
(* exit could not fill: an order of its symbol was pending, or the last feature *)
(* had nobody on its side.                                                      *)
Flattens(a, s) == IF a.positions[s].direction = "long" THEN "sell" ELSE "buy"
CloseIsComplete ==
  [][/\ session' # session =>
          \A i \in DOMAIN account'.pending : account'.pending[i].order_time = now'
     /\ \A s \in Open(account) :
          /\ (session' # session \/ status' = "finished") /\ AnyFeature /\ account.cfg.end_of_day_flatten
          /\ account'.positions[s] = account.positions[s]
          => IsPending(account, s) \/ ~Fillable(Flattens(account, s), last_features[s])]_vars
=============================================================================
