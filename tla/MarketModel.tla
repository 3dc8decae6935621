----------------------------- MODULE MarketModel -----------------------------
(***************************************************************************)
(* tools/reference_model/market_model.py: the integer reference model of   *)
(* the market-state engine.  Per symbol it keeps the two quotes, the last  *)
(* sequence and the windows of trades, traded value and midpoints, from    *)
(* which every accepted event derives one feature record.                  *)
(*                                                                         *)
(* A window is a ring: cells, the next cell to write and how many are      *)
(* full.  Packets and their CRC are left out; an event is a record.        *)
(***************************************************************************)
EXTENDS Integers, Sequences, SequencesExt

CONSTANTS
  Symbols,            (* 0 .. num_symbols - 1 *)
  TradeWindow, MomentumWindow, VwapWindow,
  BpsScale,           (* BPS_SCALE * BPS_OUTPUT_SCALE *)
  BpsWidth,           (* SIGNED_BPS_WIDTH, 32 in the code *)
  ImbalanceFracBits, ImbalanceWidth,
  NoFeature

ASSUME MarketAssumption ==
  /\ Symbols \subseteq Nat
  /\ {TradeWindow, MomentumWindow, VwapWindow, BpsScale, BpsWidth, ImbalanceWidth} \subseteq Nat \ {0}
  /\ ImbalanceFracBits \in Nat

Magnitude(n) == IF n < 0 THEN -n ELSE n

(* Toward zero, where \div rounds down. *)
trunc_div(n, d) ==
  LET q == Magnitude(n) \div Magnitude(d) IN IF (n < 0) # (d < 0) THEN -q ELSE q

PowerOfTwo(n) ==
  LET power[k \in 0 .. n] == IF k = 0 THEN 1 ELSE 2 * power[k - 1] IN power[n]

(* A quotient too wide for its field is passed on as it is. *)
BugNoSaturation(v, width) == v
saturate_signed(v, width) ==
  Max({-PowerOfTwo(width - 1), Min({v, PowerOfTwo(width - 1) - 1})})

----------------------------------------------------------------------------
(* Rings *)

Ring(size) == [cell |-> [i \in 0 .. size - 1 |-> 0], ptr |-> 0, count |-> 0]
Size(ring) == Cardinality(DOMAIN ring.cell)
IsFull(ring) == ring.count >= Size(ring)
Oldest(ring) == ring.cell[ring.ptr]
Push(ring, v) ==
  [cell |-> [ring.cell EXCEPT ![ring.ptr] = v],
   ptr |-> (ring.ptr + 1) % Size(ring),
   count |-> Min({ring.count + 1, Size(ring)})]

(* The cell after the one that is overwritten is subtracted. *)
BugSubtractsNext(sum, ring, v) == sum + v - (IF IsFull(ring) THEN Oldest(Push(ring, v)) ELSE 0)

(* The sum over a ring once v is pushed: what falls out is subtracted. *)
SumAfter(sum, ring, v) == sum + v - (IF IsFull(ring) THEN Oldest(ring) ELSE 0)

EmptyState ==
  [bid |-> 0, bidq |-> 0, ask |-> 0, askq |-> 0, bid_valid |-> FALSE, ask_valid |-> FALSE,
   sequence |-> 0, sequence_valid |-> FALSE,
   trades |-> Ring(TradeWindow), rolling_volume |-> 0,
   midpoints |-> Ring(MomentumWindow),
   vwap_values |-> Ring(VwapWindow), vwap_quantities |-> Ring(VwapWindow),
   sum_value |-> 0, sum_quantity |-> 0]

reset_market == [s \in Symbols |-> EmptyState]

----------------------------------------------------------------------------
(* One event *)

push_trade(st, quantity) ==
  [st EXCEPT !.rolling_volume = SumAfter(@, st.trades, quantity), !.trades = Push(@, quantity)]

push_vwap(st, value, quantity) ==
  [st EXCEPT !.sum_value = SumAfter(@, st.vwap_values, value),
             !.sum_quantity = SumAfter(@, st.vwap_quantities, quantity),
             !.vwap_values = Push(@, value), !.vwap_quantities = Push(@, quantity)]

Rejection(market, e) ==
  IF e.sym \notin Symbols THEN "bad_symbol"
  ELSE IF e.kind \notin {"quote", "trade"} THEN "bad_type"
  ELSE IF e.side \notin {"bid", "ask"} THEN "bad_side"
  ELSE IF market[e.sym].sequence_valid /\ e.sequence <= market[e.sym].sequence
       THEN IF e.sequence = market[e.sym].sequence THEN "duplicate_seq" ELSE "stale_seq"
  ELSE "none"

Applied(st, e) ==
  LET seen == [st EXCEPT !.sequence = e.sequence, !.sequence_valid = TRUE] IN
  IF e.kind = "trade" THEN push_vwap(push_trade(seen, e.quantity), e.price * e.quantity, e.quantity)
  ELSE IF e.side = "bid" THEN [seen EXCEPT !.bid = e.price, !.bidq = e.quantity, !.bid_valid = TRUE]
  ELSE [seen EXCEPT !.ask = e.price, !.askq = e.quantity, !.ask_valid = TRUE]

QuotesValid(st) == st.bid_valid /\ st.ask_valid /\ st.ask >= st.bid
Midpoint(st) == (st.bid + st.ask) \div 2

(* The record of quotients: a value that is not valid is 0. *)
Feature(st, sym) ==
  LET quoted == QuotesValid(st)
      midpoint == Midpoint(st)
      moves == quoted /\ IsFull(st.midpoints)
      reference == Oldest(st.midpoints)
      depth == st.bidq + st.askq
      traded == st.sum_quantity # 0
      vwap == IF traded THEN st.sum_value \div st.sum_quantity ELSE 0
      Bps(n, d) == saturate_signed(trunc_div(n * BpsScale, d), BpsWidth)
      valid == [spread |-> quoted /\ midpoint # 0, momentum |-> moves /\ reference # 0,
                imbalance |-> quoted /\ depth # 0, vwap |-> traded,
                vwap_delta |-> quoted /\ traded /\ vwap # 0, volume |-> TRUE]
      OrZero(ok, v) == IF ok THEN v ELSE 0
      value ==
        [spread |-> OrZero(valid.spread, Bps(st.ask - st.bid, midpoint)),
         momentum |-> OrZero(valid.momentum, Bps(midpoint - reference, reference)),
         imbalance |-> OrZero(valid.imbalance, saturate_signed(
            trunc_div((st.bidq - st.askq) * PowerOfTwo(ImbalanceFracBits), depth), ImbalanceWidth)),
         vwap |-> vwap, vwap_delta |-> OrZero(valid.vwap_delta, Bps(midpoint - vwap, vwap)),
         volume |-> st.rolling_volume] IN
  [sym |-> sym, bid |-> st.bid, ask |-> st.ask,
   midpoint_valid |-> quoted, midpoint |-> OrZero(quoted, midpoint),
   momentum_valid |-> moves, momentum |-> OrZero(moves, midpoint - reference),
   valid |-> valid, value |-> value]

(* Every feature on valid quotes, a trade's too, puts its midpoint into the window. *)
WithMidpoint(st) == IF QuotesValid(st) THEN [st EXCEPT !.midpoints = Push(@, Midpoint(st))] ELSE st

process_event(market, e) ==
  LET why == Rejection(market, e)
      st == Applied(market[e.sym], e) IN
  IF why # "none" THEN [market |-> market, outcome |-> why, feature |-> NoFeature]
  ELSE [market |-> [market EXCEPT ![e.sym] = WithMidpoint(st)],
        outcome |-> "feature", feature |-> Feature(st, e.sym)]
=============================================================================
