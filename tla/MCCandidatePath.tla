--------------------------- MODULE MCCandidatePath ---------------------------
(* A trade and both quotes come first, so that the windows fill; then a few   *)
(* events each of which may be given a number, share a time or begin a day.   *)
EXTENDS CandidatePath

MCHorizons == <<1, 2>>

Bounds(n) == [momentum |-> n, vwap_delta |-> n, imbalance |-> n]
Eager ==
  [strategy_enable |-> TRUE, long_enable |-> TRUE, short_enable |-> TRUE, symbol_enable |-> Symbols,
   long_min |-> [Bounds(1) EXCEPT !.vwap_delta = -300000, !.imbalance = -32768],
   short_max |-> [Bounds(0) EXCEPT !.vwap_delta = 2000000, !.imbalance = 32767],
   max_spread |-> 2000000, min_rolling_volume |-> 1, signal_cooldown_events |-> 2,
   reset_each_session |-> TRUE, reset_replay_sequences |-> TRUE]
MCConfigs ==
  {Eager,
   [Eager EXCEPT !.signal_cooldown_events = 1, !.reset_each_session = FALSE],
   [Eager EXCEPT !.short_enable = FALSE, !.signal_cooldown_events = 0, !.long_min = Bounds(-32768)],
   [Eager EXCEPT !.symbol_enable = {1}, !.reset_replay_sequences = FALSE]}

In(sym, kind, side, price, quantity, given, wait, days) ==
  [sym |-> sym, kind |-> kind, side |-> side, price |-> price, quantity |-> quantity,
   given |-> given, wait |-> wait, days |-> days]

MCOffered(i) ==
  CASE i = 1 -> {In(0, "trade", "bid", 4, 2, 1, 0, 0)}
    [] i = 2 -> {In(0, "quote", "bid", 3, 1, 3, 0, 0), In(0, "quote", "bid", 3, 1, NoSequence, 1, 0)}
    [] i = 3 -> {In(0, "quote", "ask", 5, 0, NoSequence, 0, 0), In(0, "quote", "ask", 5, 1, 4, 1, 0),
                 In(0, "quote", "ask", 2, 1, NoSequence, 1, 0)}
    [] i = 4 -> {In(0, "quote", "bid", 5, 1, 6, 1, 0), In(0, "trade", "bid", 6, 1, 3, 0, 0),
                 In(Unlisted, "trade", "bid", 4, 1, 1, 0, 0), In(1, "status", "bid", 1, 1, 1, 0, 0),
                 In(0, "quote", "bid", 3, 1, NoSequence, 1, 1)}
    [] OTHER -> {In(0, "quote", "bid", 5, 1, NoSequence, 1, 0), In(0, "quote", "bid", 0, 0, 7, 0, 0),
                 In(0, "quote", "ask", 14, 1, NoSequence, 0, 0), In(0, "trade", "ask", 9, 3, 8, 1, 0),
                 In(1, "trade", "bid", 6, 1, NoSequence, 0, 0), In(0, "trade", "none", 4, 1, 9, 0, 0),
                 In(0, "quote", "bid", 3, 1, NoSequence, 1, 1)}
=============================================================================
