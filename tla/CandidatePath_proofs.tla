------------------------- MODULE CandidatePath_proofs --------------------------
(***************************************************************************)
(* What the replay promises for every set of symbols, every window, every  *)
(* configuration and every stream of events: a number it assigns itself is *)
(* never refused, the strategy model decides as the signal engine, the     *)
(* windows hold what was accepted last, every quotient fits its field, and *)
(* a streaming replay reports what the complete lists do.                  *)
(***************************************************************************)
EXTENDS CandidatePath, FiniteSetTheorems, FunctionTheorems, SequenceTheorems, WellFoundedInduction,
        TLAPS

(* The larger of two numbers. *)
LEMMA MaxOfTwo ==
  ASSUME NEW a \in Int, NEW b \in Int
  PROVE  (Max({a, b}) = a \/ Max({a, b}) = b) /\ Max({a, b}) >= a /\ Max({a, b}) >= b
<1> DEFINE m == IF a >= b THEN a ELSE b
<1>1. m \in {a, b} /\ \A y \in {a, b} : m >= y
  OBVIOUS
<1>2. \E x \in {a, b} : \A y \in {a, b} : x >= y
  BY <1>1
<1> QED BY <1>2 DEF Max

LEMMA MinOfTwo ==
  ASSUME NEW a \in Int, NEW b \in Int
  PROVE  (Min({a, b}) = a \/ Min({a, b}) = b) /\ Min({a, b}) <= a /\ Min({a, b}) <= b
<1> DEFINE m == IF a <= b THEN a ELSE b
<1>1. m \in {a, b} /\ \A y \in {a, b} : m <= y
  OBVIOUS
<1>2. \E x \in {a, b} : \A y \in {a, b} : x <= y
  BY <1>1
<1> QED BY <1>2 DEF Min

(* A market of slots, each with a sequence. *)
SlotShape == /\ DOMAIN market = Symbols
             /\ \A s \in Symbols : {"sequence", "sequence_valid"} \subseteq DOMAIN market[s]
                                   /\ market[s].sequence \in Int

(* Where the replay numbers events, no slot is ahead of its counter. *)
CountersLead ==
  driver # "replay" =>
    \A s \in Symbols : market[s].sequence_valid => market[s].sequence <= counters[s]

SequenceInv ==
  /\ driver \in {"engine", "streaming", "replay"} /\ input_events \in Nat
  /\ counters \in [Symbols \cup {Unlisted} -> Nat]
  /\ SlotShape /\ CountersLead /\ AssignedNeverRefused

(* An accepted event leaves its sequence in the slot and nothing else there missing. *)
LEMMA AppliedSequence ==
  ASSUME NEW st, NEW e, {"sequence", "sequence_valid"} \subseteq DOMAIN st
  PROVE  LET new == WithMidpoint(Applied(st, e)) IN
         /\ DOMAIN new = DOMAIN st
         /\ new.sequence = e.sequence /\ new.sequence_valid = TRUE
<1> DEFINE seen == [st EXCEPT !.sequence = e.sequence, !.sequence_valid = TRUE]
<1> DEFINE Kept(x) == DOMAIN x = DOMAIN st /\ x.sequence = e.sequence /\ x.sequence_valid = TRUE
<1>1. Kept(seen)
  OBVIOUS
<1>2. ASSUME NEW x, Kept(x), NEW q PROVE Kept(push_trade(x, q))
  BY <1>2 DEF push_trade
<1>3. ASSUME NEW x, Kept(x), NEW q, NEW v PROVE Kept(push_vwap(x, v, q))
  BY <1>3 DEF push_vwap
<1>4. Kept([seen EXCEPT !.bid = e.price, !.bidq = e.quantity, !.bid_valid = TRUE])
  BY <1>1
<1>5. Kept([seen EXCEPT !.ask = e.price, !.askq = e.quantity, !.ask_valid = TRUE])
  BY <1>1
<1>6. Kept(push_vwap(push_trade(seen, e.quantity), e.price * e.quantity, e.quantity))
  <2>1. Kept(push_trade(seen, e.quantity))
    BY <1>1, <1>2
  <2> QED BY <2>1, <1>3
<1>7. Kept(Applied(st, e))
  BY <1>4, <1>5, <1>6 DEF Applied
<1>8. ASSUME NEW x, Kept(x) PROVE Kept(WithMidpoint(x))
  BY <1>8 DEF WithMidpoint
<1> QED BY <1>7, <1>8

(* The start satisfies the invariant. *)
LEMMA InitSequence == ASSUME Init PROVE SequenceInv
<1>1. SlotShape /\ \A s \in Symbols : ~market[s].sequence_valid
  <2>1. /\ {"sequence", "sequence_valid"} \subseteq DOMAIN EmptyState
        /\ EmptyState.sequence = 0 /\ EmptyState.sequence_valid = FALSE
    BY DEF EmptyState
  <2> QED BY <2>1 DEF Init, reset_market, SlotShape
<1>2. AssignedNeverRefused
  BY DEF Init, AssignedNeverRefused
<1> QED BY <1>1, <1>2 DEF Init, SequenceInv, CountersLead

(* What an event meets: the slots of its session, none ahead of its counter. *)
LEMMA SessionStart ==
  ASSUME SequenceInv, NEW e, NEW t, NEW d, Arrives(e, t, d)
  PROVE  /\ DOMAIN MarketAt(d) = Symbols
         /\ \A s \in Symbols :
              /\ {"sequence", "sequence_valid"} \subseteq DOMAIN MarketAt(d)[s]
              /\ MarketAt(d)[s].sequence \in Int
              /\ CounterAt(s, d) \in Nat
              /\ driver # "replay" /\ MarketAt(d)[s].sequence_valid
                   => MarketAt(d)[s].sequence <= CounterAt(s, d)
<1>1. /\ {"sequence", "sequence_valid"} \subseteq DOMAIN EmptyState
      /\ EmptyState.sequence = 0 /\ EmptyState.sequence_valid = FALSE
  BY DEF EmptyState
<1>2. DOMAIN MarketAt(d) = Symbols
  BY DEF SequenceInv, SlotShape, MarketAt, reset_market
<1>3. ASSUME NEW s \in Symbols
      PROVE  /\ {"sequence", "sequence_valid"} \subseteq DOMAIN MarketAt(d)[s]
             /\ MarketAt(d)[s].sequence \in Int
             /\ CounterAt(s, d) \in Nat
  BY <1>1 DEF SequenceInv, SlotShape, MarketAt, reset_market, CounterAt
<1>4. ASSUME NEW s \in Symbols, driver # "replay", MarketAt(d)[s].sequence_valid
      PROVE  MarketAt(d)[s].sequence <= CounterAt(s, d)
  <2>1. ~Resets(d)
    BY <1>1, <1>4 DEF MarketAt, reset_market
  <2>2. ~(d # day /\ PerSession)
    BY <2>1, <1>4 DEF Resets, PerSession, SequenceInv
  <2> QED BY <2>1, <2>2, <1>4 DEF MarketAt, CounterAt, SequenceInv, CountersLead
<1> QED BY <1>2, <1>3, <1>4

(* The number of an event is a number, and its counter is moved past it. *)
LEMMA NumberOfEvent ==
  ASSUME SequenceInv, NEW e \in Offered(input_events + 1), NEW t, NEW d, Arrives(e, t, d),
         e.sym \in DOMAIN counters
  PROVE  /\ SequenceOf(e, d) \in Nat
         /\ NextCounter(e, d) \in Nat
         /\ NextCounter(e, d) >= CounterAt(e.sym, d) /\ NextCounter(e, d) >= SequenceOf(e, d)
<1>1. CounterAt(e.sym, d) \in Nat
  BY DEF CounterAt, SequenceInv
<1>2. input_events + 1 \in 1 .. MaxEvents
  BY PathAssumption DEF Arrives, SequenceInv
<1>3. e.given = NoSequence \/ e.given \in Nat
  BY <1>2, PathAssumption
<1>4. SequenceOf(e, d) \in Nat
  BY <1>1, <1>3 DEF SequenceOf, Assigns, Arrives, SequenceInv
<1> DEFINE a == CounterAt(e.sym, d)
<1> DEFINE b == SequenceOf(e, d)
<1>5. (Max({a, b}) = a \/ Max({a, b}) = b) /\ Max({a, b}) >= a /\ Max({a, b}) >= b
  <2> a \in Int /\ b \in Int
    BY <1>1, <1>4
  <2> HIDE DEF a, b
  <2> QED BY MaxOfTwo
<1> QED BY <1>1, <1>4, <1>5 DEF NextCounter

(* Every counter stays a number, and no counter of the session runs back. *)
LEMMA CountersStay ==
  ASSUME SequenceInv, NEW e \in Offered(input_events + 1), NEW t, NEW d, Arrives(e, t, d)
  PROVE  /\ counters' \in [Symbols \cup {Unlisted} -> Nat]
         /\ driver # "replay" =>
              \A s \in Symbols : counters'[s] >= CounterAt(s, d)
                                 /\ (s = e.sym => counters'[s] >= SequenceOf(e, d))
<1>1. CASE driver = "replay"
  BY <1>1 DEF Arrives, SequenceInv
<1>2. CASE driver # "replay"
  <2>1. \A s \in DOMAIN counters : CounterAt(s, d) \in Nat
    BY DEF CounterAt, SequenceInv
  <2>2. counters' = Counted1(e, d) /\ DOMAIN counters = Symbols \cup {Unlisted}
    BY <1>2 DEF Arrives, SequenceInv
  <2>3. CASE e.sym \in DOMAIN counters
    BY <2>1, <2>2, <2>3, NumberOfEvent DEF Counted1
  <2>4. CASE e.sym \notin DOMAIN counters
    BY <2>1, <2>2, <2>4 DEF Counted1
  <2> QED BY <2>3, <2>4
<1> QED BY <1>1, <1>2

(* An event whose assigned number were refused would be behind its counter. *)
LEMMA AssignedIsNewer ==
  ASSUME SequenceInv, NEW e \in Offered(input_events + 1), NEW t, NEW d, Arrives(e, t, d)
  PROVE  AssignedNeverRefused'
<1> SUFFICES ASSUME Result(e, d).outcome \in {"duplicate_seq", "stale_seq"}, Assigns(e)
             PROVE  FALSE
  BY DEF AssignedNeverRefused, Arrives, Assigns
<1> DEFINE event == [sym |-> e.sym, kind |-> e.kind, side |-> e.side, price |-> e.price,
                     quantity |-> e.quantity, sequence |-> SequenceOf(e, d)]
<1>1. Rejection(MarketAt(d), event) \in {"duplicate_seq", "stale_seq"}
  BY DEF Result, process_event
<1>2. /\ e.sym \in Symbols /\ MarketAt(d)[e.sym].sequence_valid
      /\ SequenceOf(e, d) <= MarketAt(d)[e.sym].sequence
  BY <1>1 DEF Rejection
<1>3. SequenceOf(e, d) = CounterAt(e.sym, d) + 1 /\ driver # "replay"
  BY DEF Assigns, SequenceOf
<1> QED BY <1>2, <1>3, SessionStart

(* An accepted event leaves its own number in its slot, and other slots alone. *)
LEMMA AcceptedSlot ==
  ASSUME SequenceInv, NEW e \in Offered(input_events + 1), NEW t, NEW d, AcceptedEvent(e, t, d)
  PROVE  SlotShape' /\ CountersLead'
<1>0. Arrives(e, t, d)
  BY DEF AcceptedEvent
<1> DEFINE event == [sym |-> e.sym, kind |-> e.kind, side |-> e.side, price |-> e.price,
                     quantity |-> e.quantity, sequence |-> SequenceOf(e, d)]
<1>1. Rejection(MarketAt(d), event) = "none"
  BY DEF AcceptedEvent, Result, process_event, Rejection
<1>2. e.sym \in Symbols
  BY <1>1 DEF Rejection
<1> DEFINE st == MarketAt(d)[e.sym]
<1>3. market' = [MarketAt(d) EXCEPT ![e.sym] = WithMidpoint(Applied(st, event))]
  BY <1>0, <1>1 DEF Arrives, Result, process_event
<1>4. /\ DOMAIN MarketAt(d) = Symbols
      /\ \A s \in Symbols :
           /\ {"sequence", "sequence_valid"} \subseteq DOMAIN MarketAt(d)[s]
           /\ MarketAt(d)[s].sequence \in Int /\ CounterAt(s, d) \in Nat
           /\ driver # "replay" /\ MarketAt(d)[s].sequence_valid
                => MarketAt(d)[s].sequence <= CounterAt(s, d)
  BY <1>0, SessionStart
<1>5. /\ DOMAIN WithMidpoint(Applied(st, event)) = DOMAIN st
      /\ WithMidpoint(Applied(st, event)).sequence = SequenceOf(e, d)
  BY <1>2, <1>4, AppliedSequence
<1>6. /\ market'[e.sym].sequence = SequenceOf(e, d) /\ DOMAIN market'[e.sym] = DOMAIN st
      /\ DOMAIN market' = Symbols
      /\ \A s \in Symbols \ {e.sym} : market'[s] = MarketAt(d)[s]
  BY <1>2, <1>3, <1>4, <1>5
<1>7. SequenceOf(e, d) \in Nat
  BY <1>0, <1>2, NumberOfEvent DEF SequenceInv
<1>8. SlotShape'
  BY <1>2, <1>4, <1>6, <1>7 DEF SlotShape
<1>9. CountersLead'
  <2> SUFFICES ASSUME driver # "replay", NEW s \in Symbols, market'[s].sequence_valid
               PROVE  market'[s].sequence <= counters'[s]
    BY <1>0 DEF CountersLead, Arrives
  <2>1. counters'[s] \in Nat /\ counters'[s] >= CounterAt(s, d)
        /\ (s = e.sym => counters'[s] >= SequenceOf(e, d))
    BY <1>0, CountersStay
  <2> QED BY <2>1, <1>4, <1>6, <1>7
<1> QED BY <1>8, <1>9

(* A rejected event leaves the slots of its session. *)
LEMMA RejectedSlot ==
  ASSUME SequenceInv, NEW e \in Offered(input_events + 1), NEW t, NEW d, RejectedEvent(e, t, d)
  PROVE  SlotShape' /\ CountersLead'
<1>0. Arrives(e, t, d)
  BY DEF RejectedEvent
<1>1. market' = MarketAt(d)
  BY <1>0 DEF RejectedEvent, Arrives, Result, process_event
<1>2. /\ DOMAIN MarketAt(d) = Symbols
      /\ \A s \in Symbols :
           /\ {"sequence", "sequence_valid"} \subseteq DOMAIN MarketAt(d)[s]
           /\ MarketAt(d)[s].sequence \in Int /\ CounterAt(s, d) \in Nat
           /\ driver # "replay" /\ MarketAt(d)[s].sequence_valid
                => MarketAt(d)[s].sequence <= CounterAt(s, d)
  BY <1>0, SessionStart
<1>3. driver' = driver
  BY <1>0 DEF Arrives
<1>4. \A s \in Symbols : counters'[s] \in Nat
                         /\ (driver # "replay" => counters'[s] >= CounterAt(s, d))
  BY <1>0, CountersStay
<1> QED BY <1>1, <1>2, <1>3, <1>4 DEF SlotShape, CountersLead

(* Every step keeps the invariant. *)
LEMMA NextSequence == ASSUME SequenceInv, [Next]_vars PROVE SequenceInv'
<1>1. ASSUME NEW e \in Offered(input_events + 1), NEW t, NEW d,
             AcceptedEvent(e, t, d) \/ RejectedEvent(e, t, d)
      PROVE  SequenceInv'
  <2>1. Arrives(e, t, d)
    BY <1>1 DEF AcceptedEvent, RejectedEvent
  <2>2. SlotShape' /\ CountersLead'
    BY <1>1, AcceptedSlot, RejectedSlot
  <2>3. AssignedNeverRefused'
    BY <2>1, AssignedIsNewer
  <2>4. counters' \in [Symbols \cup {Unlisted} -> Nat]
    BY <2>1, CountersStay
  <2>5. driver' \in {"engine", "streaming", "replay"} /\ input_events' \in Nat
    BY <2>1 DEF Arrives, SequenceInv
  <2> QED BY <2>2, <2>3, <2>4, <2>5 DEF SequenceInv
<1>2. CASE EndOfReplay \/ UNCHANGED vars
  BY <1>2 DEF EndOfReplay, vars, time, SequenceInv, SlotShape, CountersLead,
              AssignedNeverRefused, Assigns
<1> QED BY <1>1, <1>2 DEF Next

(* A number the replay assigns itself is never refused by the market model,   *)
(* for every stream of given and missing numbers, every session and every     *)
(* setting of the resets (ReplaySequencer in pipeline.py, market_model.py).   *)
THEOREM AssignedAreAccepted == Spec => []AssignedNeverRefused
<1>1. Init => SequenceInv
  BY InitSequence
<1>2. SequenceInv /\ [Next]_vars => SequenceInv'
  BY NextSequence
<1>3. SequenceInv => AssignedNeverRefused
  BY DEF SequenceInv
<1> QED BY <1>1, <1>2, <1>3, PTL DEF Spec

----------------------------------------------------------------------------
(* The log is a sequence, and the strategy has a slot for every symbol. *)
StrategyInv ==
  /\ \E S : log \in Seq(S)
  /\ DOMAIN strategy = {"previous_condition", "last_emitted_action", "cooldown_remaining", "metrics"}
  /\ DOMAIN strategy.previous_condition = Symbols /\ DOMAIN strategy.last_emitted_action = Symbols
  /\ DOMAIN strategy.cooldown_remaining = Symbols

(* What is appended to a sequence is its last element. *)
LEMMA LastOfAppend ==
  ASSUME NEW S, NEW seq \in Seq(S), NEW c
  PROVE  /\ Append(seq, c) \in Seq(S \cup {c}) /\ Append(seq, c) # seq
         /\ Last(Append(seq, c)) = c
<1>1. seq \in Seq(S \cup {c})
  OBVIOUS
<1>2. /\ Append(seq, c) \in Seq(S \cup {c}) /\ Len(Append(seq, c)) = Len(seq) + 1
      /\ Append(seq, c)[Len(seq) + 1] = c
  BY <1>1
<1>3. Append(seq, c) # seq
  BY <1>2
<1> QED BY <1>2, <1>3 DEF Last

(* A reset strategy has all slots cleared. *)
LEMMA ResetSlots ==
  ASSUME StrategyInv, NEW d
  PROVE  /\ DOMAIN StrategyAt(d).previous_condition = Symbols
         /\ DOMAIN StrategyAt(d).last_emitted_action = Symbols
         /\ DOMAIN StrategyAt(d).cooldown_remaining = Symbols
         /\ DOMAIN StrategyAt(d) =
              {"previous_condition", "last_emitted_action", "cooldown_remaining", "metrics"}
         /\ Resets(d) => \A s \in Symbols :
              /\ StrategyAt(d).previous_condition[s] = NONE
              /\ StrategyAt(d).last_emitted_action[s] = NONE
              /\ StrategyAt(d).cooldown_remaining[s] = 0
BY DEF StrategyInv, StrategyAt, reset_strategy, NewStrategy

(* What the evaluation leaves has the same slots. *)
LEMMA EvaluatedSlots ==
  ASSUME StrategyInv, NEW d, NEW f
  PROVE  LET new == evaluate(cfg, StrategyAt(d), f).strategy IN
         /\ DOMAIN new = {"previous_condition", "last_emitted_action", "cooldown_remaining", "metrics"}
         /\ DOMAIN new.previous_condition = Symbols /\ DOMAIN new.last_emitted_action = Symbols
         /\ DOMAIN new.cooldown_remaining = Symbols
BY ResetSlots DEF evaluate

(* The start satisfies the invariant. *)
LEMMA InitStrategy == ASSUME Init PROVE StrategyInv
<1>1. log \in Seq({})
  BY DEF Init
<1> QED BY <1>1 DEF Init, NewStrategy, StrategyInv

(* Every step keeps it. *)
LEMMA NextStrategy == ASSUME StrategyInv, [Next]_vars PROVE StrategyInv'
<1>1. ASSUME NEW e, NEW t, NEW d, AcceptedEvent(e, t, d) PROVE StrategyInv'
  <2> DEFINE f == Result(e, d).feature
  <2> DEFINE decision == evaluate(cfg, StrategyAt(d), f)
  <2> DEFINE c == Entry(e, t, d, decision.signal, f)
  <2>1. strategy' = decision.strategy /\ log' = Append(log, c)
    BY <1>1 DEF AcceptedEvent
  <2>2. PICK S : log \in Seq(S)
    BY DEF StrategyInv
  <2>3. log' \in Seq(S \cup {c})
    <3> HIDE DEF c
    <3> QED BY <2>1, <2>2, LastOfAppend
  <2> QED BY <2>1, <2>3, EvaluatedSlots DEF StrategyInv
<1>2. ASSUME NEW e, NEW t, NEW d, RejectedEvent(e, t, d) PROVE StrategyInv'
  BY <1>2, ResetSlots DEF RejectedEvent, StrategyInv
<1>3. CASE EndOfReplay \/ UNCHANGED vars
  BY <1>3 DEF EndOfReplay, vars, StrategyInv
<1> QED BY <1>1, <1>2, <1>3 DEF Next

----------------------------------------------------------------------------
(* A feature of the market model with a raw direction is completely valid. *)
LEMMA DirectionNeedsValidity ==
  ASSUME NEW st, NEW sym, NEW c, raw_direction(c, Feature(st, sym)) # NONE
  PROVE  feature_set_valid(Feature(st, sym)) /\ Feature(st, sym).valid.momentum
<1> DEFINE f == Feature(st, sym)
<1>1. f.valid.vwap_delta => f.valid.vwap
  BY DEF Feature
<1>2. {"momentum", "vwap_delta", "imbalance", "spread"} \subseteq Conditions
  BY DEF Conditions, Directional
<1>3. long_pass(c, f) = Conditions \/ short_pass(c, f) = Conditions
  BY DEF raw_direction
<1>4. ASSUME NEW n \in {"momentum", "vwap_delta", "imbalance"},
             n \in long_pass(c, f) \/ n \in short_pass(c, f)
      PROVE  f.valid[n]
  <2> HIDE DEF f
  <2> QED BY <1>4 DEF long_pass, short_pass, Common, Directional
<1>5. "spread" \in long_pass(c, f) \/ "spread" \in short_pass(c, f) => f.valid.spread
  <2> HIDE DEF f
  <2> QED BY DEF long_pass, short_pass, Common, Directional
<1>6. f.valid["momentum"] /\ f.valid["vwap_delta"] /\ f.valid["imbalance"] /\ f.valid["spread"]
  <2> HIDE DEF f
  <2> QED BY <1>2, <1>3, <1>4, <1>5
<1> HIDE DEF f
<1>7. feature_set_valid(f) /\ f.valid.momentum
  BY <1>1, <1>6 DEF feature_set_valid
<1> QED BY <1>7 DEF f

(* After a reset the first feature of a symbol has no momentum. *)
LEMMA NoMomentumAfterReset ==
  ASSUME NEW e, NEW s \in Symbols
  PROVE  Feature(Applied(reset_market[s], e), s).valid.momentum = FALSE
<1>1. MomentumWindow \in Nat \ {0}
  BY MarketAssumption
<1>2. ~IsFull(Ring(MomentumWindow))
  <2>1. DOMAIN Ring(MomentumWindow).cell = 0 .. MomentumWindow - 1
        /\ Ring(MomentumWindow).count = 0
    BY DEF Ring
  <2>2. Cardinality(0 .. MomentumWindow - 1) = MomentumWindow
    BY <1>1, FS_Interval
  <2> QED BY <1>1, <2>1, <2>2 DEF IsFull, Size
<1>3. Applied(EmptyState, e).midpoints = Ring(MomentumWindow)
  BY DEF Applied, EmptyState, push_vwap, push_trade
<1>4. reset_market[s] = EmptyState
  BY DEF reset_market
<1> QED BY <1>2, <1>3, <1>4 DEF Feature

(* Of an accepted event: its symbol, its feature, its entry, its decision. *)
LEMMA AcceptedDecision ==
  ASSUME StrategyInv, NEW e, NEW t, NEW d, AcceptedEvent(e, t, d)
  PROVE  \E f, c :
           /\ e.sym \in Symbols /\ f.sym = e.sym /\ day' = d
           /\ c.sym = e.sym /\ c.feature = f /\ Last(log') = c
           /\ c.action = evaluate(cfg, StrategyAt(d), f).signal.action
           /\ strategy' = evaluate(cfg, StrategyAt(d), f).strategy
           /\ raw_direction(cfg, f) # NONE => feature_set_valid(f) /\ ~Resets(d)
<1> DEFINE event == [sym |-> e.sym, kind |-> e.kind, side |-> e.side, price |-> e.price,
                     quantity |-> e.quantity, sequence |-> SequenceOf(e, d)]
<1> DEFINE st == Applied(MarketAt(d)[e.sym], event)
<1> DEFINE f == Feature(st, e.sym)
<1> DEFINE decision == evaluate(cfg, StrategyAt(d), f)
<1> DEFINE c == Entry(e, t, d, decision.signal, f)
<1>1. Rejection(MarketAt(d), event) = "none"
  BY DEF AcceptedEvent, Result, process_event, Rejection
<1>2. e.sym \in Symbols
  BY <1>1 DEF Rejection
<1>3. Result(e, d).feature = f
  BY <1>1 DEF Result, process_event
<1>4. strategy' = decision.strategy /\ log' = Append(log, c) /\ day' = d
  <2> HIDE DEF f
  <2> QED BY <1>3 DEF AcceptedEvent, Arrives
<1>5. f.sym = e.sym
  BY DEF Feature
<1>6. c.sym = e.sym /\ c.feature = f /\ c.action = decision.signal.action
  <2> HIDE DEF f, decision
  <2> QED BY DEF Entry
<1>7. Last(log') = c
  <2>1. PICK S : log \in Seq(S)
    BY DEF StrategyInv
  <2> HIDE DEF c
  <2> QED BY <1>4, <2>1, LastOfAppend
<1>8. ASSUME raw_direction(cfg, f) # NONE PROVE feature_set_valid(f) /\ ~Resets(d)
  <2>1. feature_set_valid(f) /\ f.valid.momentum
    BY <1>8, DirectionNeedsValidity
  <2>2. ASSUME Resets(d) PROVE f.valid.momentum = FALSE
    BY <1>2, <2>2, NoMomentumAfterReset DEF MarketAt
  <2> HIDE DEF f
  <2> QED BY <2>1, <2>2
<1> HIDE DEF f, c
<1> QED BY <1>2, <1>4, <1>5, <1>6, <1>7, <1>8 DEF decision

(* The model's rule for a candidate is the RTL's, wherever a direction needs valid features. *)
LEMMA SameDecision ==
  ASSUME NEW f, NEW c, f.sym \in Symbols, c.sym = f.sym, c.feature = f,
         raw_direction(cfg, f) # NONE => feature_set_valid(f)
  PROVE  /\ Rtl!RawDirection(RtlFeature(c)) = raw_direction(cfg, f)
         /\ Rtl!Condition(RtlFeature(c)) = IF SwitchedOff(cfg, f) THEN NONE ELSE raw_direction(cfg, f)
         /\ Rtl!CandidateFires(RtlFeature(c)) <=> candidate_fire(cfg, strategy, f)
<1> DEFINE g == RtlFeature(c)
<1>1. g.sym = f.sym /\ Rtl!RawDirection(g) = raw_direction(cfg, f)
  BY DEF RtlFeature, Rtl!RawDirection, raw_direction
<1>2. Rtl!Enabled(g) <=> ~SwitchedOff(cfg, f)
  <2> HIDE DEF g
  <2> QED BY <1>1 DEF Rtl!Enabled, Rtl!SideEnabled, SwitchedOff, SideOff
<1>3. Rtl!Condition(g) = IF SwitchedOff(cfg, f) THEN NONE ELSE raw_direction(cfg, f)
  <2> HIDE DEF g
  <2> QED BY <1>1, <1>2 DEF Rtl!Condition
<1>4. Rtl!Eligible(g) <=> eligible_direction(cfg, f) # NONE
  <2> HIDE DEF g
  <2> QED BY <1>1, <1>2 DEF Rtl!Eligible, eligible_direction
<1>5. eligible_direction(cfg, f) # NONE => eligible_direction(cfg, f) = raw_direction(cfg, f)
  BY DEF eligible_direction
<1>6. Rtl!CandidateFires(g) <=> candidate_fire(cfg, strategy, f)
  <2> HIDE DEF g
  <2> QED BY <1>1, <1>4, <1>5 DEF Rtl!CandidateFires, Rtl!DirectionEdge,
             Rtl!CooldownExpiryRepeat, candidate_fire
<1> QED BY <1>1, <1>3, <1>6

(* What the property says of a step. *)
FollowsStep ==
  IF Resets(day')
  THEN \A s \in Symbols : SlotCleared(s)'
  ELSE log' # log =>
    LET c == Last(log')
        f == RtlFeature(c)
        fires == Rtl!CandidateFires(f) IN
    /\ c.action = (IF fires THEN Rtl!RawDirection(f) ELSE NONE)
    /\ strategy'.previous_condition =
         [strategy.previous_condition EXCEPT ![c.sym] = Rtl!Condition(f)]
    /\ strategy'.last_emitted_action =
         [strategy.last_emitted_action EXCEPT ![c.sym] = IF fires THEN Rtl!RawDirection(f) ELSE @]
    /\ Rtl!Cooldown(f)

(* The first accepted event of a session finds no direction and leaves every slot cleared. *)
LEMMA AcceptedAfterReset ==
  ASSUME StrategyInv, NEW e, NEW t, NEW d, AcceptedEvent(e, t, d), Resets(d), NEW s \in Symbols
  PROVE  SlotCleared(s)'
<1>1. PICK f, c :
        /\ f.sym \in Symbols
        /\ strategy' = evaluate(cfg, StrategyAt(d), f).strategy
        /\ raw_direction(cfg, f) = NONE
  BY AcceptedDecision
<1>2. ~candidate_fire(cfg, StrategyAt(d), f)
  BY <1>1 DEF candidate_fire, eligible_direction
<1>3. /\ strategy'.previous_condition = [StrategyAt(d).previous_condition EXCEPT ![f.sym] = NONE]
      /\ strategy'.last_emitted_action = [StrategyAt(d).last_emitted_action EXCEPT ![f.sym] = @]
      /\ strategy'.cooldown_remaining =
           [StrategyAt(d).cooldown_remaining EXCEPT ![f.sym] = NextCooldown(cfg, StrategyAt(d), f)]
  BY <1>1, <1>2 DEF evaluate
<1>4. NextCooldown(cfg, StrategyAt(d), f) = 0
  BY <1>1, <1>2, ResetSlots DEF NextCooldown
<1> QED BY <1>1, <1>3, <1>4, ResetSlots DEF SlotCleared

(* Within a session an accepted event is decided as by the RTL. *)
LEMMA AcceptedFollows ==
  ASSUME StrategyInv, NEW e, NEW t, NEW d, AcceptedEvent(e, t, d), ~Resets(d)
  PROVE  FollowsStep
<1>1. PICK f, c :
        /\ f.sym \in Symbols /\ c.sym = f.sym /\ c.feature = f /\ Last(log') = c /\ day' = d
        /\ c.action = evaluate(cfg, strategy, f).signal.action
        /\ strategy' = evaluate(cfg, strategy, f).strategy
        /\ raw_direction(cfg, f) # NONE => feature_set_valid(f)
  <2>1. StrategyAt(d) = strategy
    BY DEF StrategyAt
  <2> QED BY <2>1, AcceptedDecision
<1> DEFINE g == RtlFeature(c)
<1>2. /\ Rtl!RawDirection(g) = raw_direction(cfg, f)
      /\ Rtl!Condition(g) = IF SwitchedOff(cfg, f) THEN NONE ELSE raw_direction(cfg, f)
      /\ Rtl!CandidateFires(g) <=> candidate_fire(cfg, strategy, f)
  BY <1>1, SameDecision
<1>3. g.sym = c.sym
  BY DEF RtlFeature
<1> HIDE DEF g
<1>4. c.action = (IF Rtl!CandidateFires(g) THEN Rtl!RawDirection(g) ELSE NONE)
  BY <1>1, <1>2 DEF evaluate
<1>5. strategy'.previous_condition =
        [strategy.previous_condition EXCEPT ![c.sym] = Rtl!Condition(g)]
  BY <1>1, <1>2 DEF evaluate
<1>6. strategy'.last_emitted_action =
        [strategy.last_emitted_action EXCEPT ![c.sym] =
           IF Rtl!CandidateFires(g) THEN Rtl!RawDirection(g) ELSE @]
  BY <1>1, <1>2 DEF evaluate
<1>7. Rtl!Cooldown(g)
  <2>1. strategy'.cooldown_remaining =
          [strategy.cooldown_remaining EXCEPT ![c.sym] = NextCooldown(cfg, strategy, f)]
    BY <1>1 DEF evaluate
  <2> QED BY <1>1, <1>2, <1>3, <2>1 DEF Rtl!Cooldown, NextCooldown, StrategyInv
<1>8. ~Resets(day')
  BY <1>1
<1> QED BY <1>1, <1>4, <1>5, <1>6, <1>7, <1>8 DEF FollowsStep, g

(* Every step is decided as by the RTL. *)
LEMMA StepFollows == ASSUME StrategyInv, [Next]_vars PROVE [FollowsStep]_vars
<1>1. ASSUME NEW e, NEW t, NEW d, AcceptedEvent(e, t, d) PROVE FollowsStep
  <2>1. day' = d
    BY <1>1 DEF AcceptedEvent, Arrives
  <2>2. CASE Resets(d)
    BY <1>1, <2>1, <2>2, AcceptedAfterReset DEF FollowsStep
  <2> QED BY <1>1, <2>2, AcceptedFollows
<1>2. ASSUME NEW e, NEW t, NEW d, RejectedEvent(e, t, d) PROVE FollowsStep
  <2>1. day' = d /\ strategy' = StrategyAt(d) /\ log' = log
    BY <1>2 DEF RejectedEvent, Arrives
  <2>2. CASE Resets(d)
    BY <2>1, <2>2, ResetSlots DEF FollowsStep, SlotCleared
  <2> QED BY <2>1, <2>2 DEF FollowsStep
<1>3. CASE EndOfReplay
  <2>1. day' = day /\ log' = log
    BY <1>3 DEF EndOfReplay, time
  <2> QED BY <2>1 DEF FollowsStep, Resets
<1> QED BY <1>1, <1>2, <1>3 DEF Next

(* For every configuration and every stream of events the reference strategy  *)
(* decides as the RTL within a session, and starts each session with cleared  *)
(* slots (strategy_model.py evaluate and reset, signal_engine.sv).            *)
THEOREM StrategyIsRtl == Spec => StrategyFollowsRtl
<1>1. Init => StrategyInv
  BY InitStrategy
<1>2. StrategyInv /\ [Next]_vars => StrategyInv'
  BY NextStrategy
<1>3. StrategyInv /\ [Next]_vars => [FollowsStep]_vars
  BY StepFollows
<1>4. Spec => [][FollowsStep]_vars
  BY <1>1, <1>2, <1>3, PTL DEF Spec
<1> QED BY <1>4 DEF StrategyFollowsRtl, FollowsStep
----------------------------------------------------------------------------
(* Sums and powers, one number at a time *)

(* A non-empty set of natural numbers has a smallest one. *)
LEMMA SmallestNumber ==
  ASSUME NEW T \in SUBSET Nat, T # {}
  PROVE  \E m \in T : \A y \in T : m <= y
<1>1. PICK m \in T : \A y \in T : ~(<<y, m>> \in OpToRel(<, Nat))
  BY WFMin, NatLessThanWellFounded, Zenon
<1>2. \A y \in T : ~(y < m)
  BY <1>1, Zenon DEF OpToRel
<1> QED BY <1>2

(* Induction over a set of numbers. *)
LEMMA NatSetInduction ==
  ASSUME NEW S, 0 \in S, \A n \in Nat : n \in S => n + 1 \in S
  PROVE  Nat \subseteq S
<1> DEFINE T == Nat \ S
<1> SUFFICES ASSUME T # {} PROVE FALSE
  OBVIOUS
<1>1. PICK m \in T : \A y \in T : m <= y
  BY SmallestNumber
<1>2. m \in Nat /\ m # 0 /\ m - 1 \in Nat /\ m = (m - 1) + 1
  OBVIOUS
<1>3. m - 1 \in T
  BY <1>2
<1> QED BY <1>1, <1>2, <1>3


(* A power of two is a positive number. *)
LEMMA PowerIsPositive == ASSUME NEW n \in Nat PROVE PowerOfTwo(n) \in Nat \ {0}
<1> DEFINE Step(h, k) == IF k = 0 THEN 1 ELSE 2 * h[k - 1]
           Known == {m \in Nat : \E h \in [0 .. m -> Nat \ {0}] : h = [k \in 0 .. m |-> Step(h, k)]}
<1>1. 0 \in Known
  <2>1. 0 .. 0 = {0}
    OBVIOUS
  <2> DEFINE one == [k \in 0 .. 0 |-> 1]
  <2>2. one \in [0 .. 0 -> Nat \ {0}] /\ one = [k \in 0 .. 0 |-> Step(one, k)]
    BY <2>1
  <2> HIDE DEF Step, one
  <2> QED BY <2>2
<1>2. ASSUME NEW m \in Nat, m \in Known PROVE m + 1 \in Known
  <2>1. PICK h \in [0 .. m -> Nat \ {0}] : h = [k \in 0 .. m |-> Step(h, k)]
    BY <1>2
  <2> DEFINE g == [k \in 0 .. m + 1 |-> Step(h, k)]
  <2>2. ASSUME NEW k \in 0 .. m + 1 PROVE Step(h, k) = Step(g, k) /\ Step(h, k) \in Nat \ {0}
    <3>1. CASE k = 0
      BY <3>1
    <3>2. CASE k # 0
      <4>1. k - 1 \in 0 .. m /\ k - 1 \in 0 .. m + 1
        BY <3>2
      <4>2. g[k - 1] = h[k - 1]
        <5> HIDE DEF Step
        <5> QED BY <4>1, <2>1
      <4>3. h[k - 1] \in Nat \ {0}
        BY <4>1
      <4>4. Step(h, k) = 2 * h[k - 1] /\ Step(g, k) = 2 * g[k - 1]
        BY <3>2
      <4> HIDE DEF Step, g
      <4> QED BY <4>2, <4>3, <4>4
    <3> QED BY <3>1, <3>2
  <2>3. g = [k \in 0 .. m + 1 |-> Step(g, k)] /\ g \in [0 .. m + 1 -> Nat \ {0}]
    BY <2>2
  <2> HIDE DEF g, Step
  <2> QED BY <2>3
<1>3. n \in Known
  <2> HIDE DEF Known
  <2> QED BY <1>1, <1>2, NatSetInduction
<1>4. PICK f \in [0 .. n -> Nat \ {0}] : f = [k \in 0 .. n |-> Step(f, k)]
  BY <1>3
<1> DEFINE power == CHOOSE h : h = [k \in 0 .. n |-> Step(h, k)]
<1>5. power = [k \in 0 .. n |-> Step(power, k)]
  BY <1>4
<1>6. PowerOfTwo(n) = power[n]
  BY DEF PowerOfTwo
<1> HIDE DEF power
<1> DEFINE Same == {k \in Nat : k <= n => power[k] = f[k]}
<1>7. 0 \in Same
  BY <1>4, <1>5
<1>8. ASSUME NEW k \in Nat, k \in Same PROVE k + 1 \in Same
  <2> SUFFICES ASSUME k + 1 <= n PROVE power[k + 1] = f[k + 1]
    OBVIOUS
  <2>1. k + 1 \in 0 .. n /\ (k + 1) - 1 = k /\ k + 1 # 0 /\ power[k] = f[k]
    BY <1>8
  <2>2. power[k + 1] = 2 * power[k]
    BY <1>5, <2>1
  <2>3. f[k + 1] = 2 * f[k]
    BY <1>4, <2>1
  <2> QED BY <2>1, <2>2, <2>3
<1>9. n \in Same
  <2> HIDE DEF Same
  <2> QED BY <1>7, <1>8, NatSetInduction
<1>10. n \in 0 .. n
  OBVIOUS
<1>11. f[n] \in Nat \ {0}
  BY <1>10
<1> QED BY <1>6, <1>9, <1>11

Adds(h, numbers) ==
  /\ h[0] = 0 /\ h[Len(numbers)] = Total(numbers)
  /\ \A n \in 1 .. Len(numbers) : h[n] = h[n - 1] + numbers[n]

Additive(S) == S \subseteq Int /\ 0 \in S /\ \A a, b \in S : a + b \in S

LEMMA NumbersAdd == Additive(Nat) /\ Additive(Int)
BY DEF Additive

(* A total is added up number by number, and is a number. *)
LEMMA SumAdds ==
  ASSUME NEW S, Additive(S), NEW numbers \in Seq(S)
  PROVE  \E h : Adds(h, numbers) /\ h \in [0 .. Len(numbers) -> S]
<1>0. 0 \in S /\ \A a, b \in S : a + b \in S
  BY DEF Additive
<1> DEFINE Step(h, n) == IF n = 0 THEN 0 ELSE h[n - 1] + numbers[n]
           Built(m) == \E h \in [0 .. m -> S] : h = [n \in 0 .. m |-> Step(h, n)]
           Known == {m \in Nat : m <= Len(numbers) => Built(m)}
<1>1. 0 \in Known
  <2>1. 0 .. 0 = {0}
    OBVIOUS
  <2> DEFINE zero == [n \in 0 .. 0 |-> 0]
  <2>2. zero \in [0 .. 0 -> S] /\ zero = [n \in 0 .. 0 |-> Step(zero, n)]
    BY <1>0, <2>1
  <2> HIDE DEF Step, zero
  <2> QED BY <2>2
<1>2. ASSUME NEW m \in Nat, m \in Known PROVE m + 1 \in Known
  <2> SUFFICES ASSUME m + 1 <= Len(numbers) PROVE Built(m + 1)
    <3> HIDE DEF Built
    <3> QED OBVIOUS
  <2>1. PICK h \in [0 .. m -> S] : h = [n \in 0 .. m |-> Step(h, n)]
    BY <1>2
  <2> DEFINE g == [n \in 0 .. m + 1 |-> Step(h, n)]
  <2>2. ASSUME NEW n \in 0 .. m + 1 PROVE Step(h, n) = Step(g, n) /\ Step(h, n) \in S
    <3>1. CASE n = 0
      BY <1>0, <3>1
    <3>2. CASE n # 0
      <4>1. n - 1 \in 0 .. m /\ n - 1 \in 0 .. m + 1 /\ n \in 1 .. Len(numbers)
        BY <3>2
      <4>2. g[n - 1] = h[n - 1]
        <5> HIDE DEF Step
        <5> QED BY <4>1, <2>1
      <4>3. h[n - 1] \in S /\ numbers[n] \in S
        BY <4>1
      <4>4. Step(h, n) = h[n - 1] + numbers[n] /\ Step(g, n) = g[n - 1] + numbers[n]
        BY <3>2
      <4> HIDE DEF Step, g
      <4>5. h[n - 1] + numbers[n] \in S
        BY <1>0, <4>3
      <4> QED BY <4>2, <4>4, <4>5
    <3> QED BY <3>1, <3>2
  <2>3. g = [n \in 0 .. m + 1 |-> Step(g, n)] /\ g \in [0 .. m + 1 -> S]
    BY <2>2
  <2> HIDE DEF g, Step
  <2> QED BY <2>3
<1>3. Len(numbers) \in Known /\ Len(numbers) \in Nat
  <2> HIDE DEF Known
  <2> QED BY <1>1, <1>2, NatSetInduction
<1>4. PICK f \in [0 .. Len(numbers) -> S] : f = [n \in 0 .. Len(numbers) |-> Step(f, n)]
  BY <1>3
<1> DEFINE sum == CHOOSE h : h = [n \in 0 .. Len(numbers) |-> Step(h, n)]
<1>5. sum = [n \in 0 .. Len(numbers) |-> Step(sum, n)]
  BY <1>4
<1>6. Total(numbers) = sum[Len(numbers)]
  BY DEF Total
<1> HIDE DEF sum
<1> DEFINE Same == {k \in Nat : k <= Len(numbers) => sum[k] = f[k]}
<1>7. 0 \in Same
  BY <1>3, <1>4, <1>5
<1>8. ASSUME NEW k \in Nat, k \in Same PROVE k + 1 \in Same
  <2> SUFFICES ASSUME k + 1 <= Len(numbers) PROVE sum[k + 1] = f[k + 1]
    OBVIOUS
  <2>1. k + 1 \in 0 .. Len(numbers) /\ (k + 1) - 1 = k /\ k + 1 # 0 /\ sum[k] = f[k]
    BY <1>8
  <2>2. sum[k + 1] = sum[k] + numbers[k + 1]
    BY <1>5, <2>1
  <2>3. f[k + 1] = f[k] + numbers[k + 1]
    BY <1>4, <2>1
  <2> QED BY <2>1, <2>2, <2>3
<1>9. Len(numbers) \in Same
  <2> HIDE DEF Same
  <2> QED BY <1>3, <1>7, <1>8, NatSetInduction
<1>10. f[0] = 0 /\ \A n \in 1 .. Len(numbers) : f[n] = f[n - 1] + numbers[n]
  BY <1>3, <1>4
<1>11. f[Len(numbers)] = Total(numbers)
  BY <1>3, <1>6, <1>9
<1> HIDE DEF Step
<1>12. Adds(f, numbers)
  BY <1>10, <1>11 DEF Adds
<1> QED BY <1>12

LEMMA TotalAdds ==
  ASSUME NEW numbers \in Seq(Nat)
  PROVE  \E h : Adds(h, numbers) /\ h \in [0 .. Len(numbers) -> Nat]
BY NumbersAdd, SumAdds

(* A total of naturals is a natural; of no numbers it is 0. *)
LEMMA TotalType == ASSUME NEW numbers \in Seq(Nat) PROVE Total(numbers) \in Nat
<1>1. PICK h \in [0 .. Len(numbers) -> Nat] : Adds(h, numbers)
  BY TotalAdds
<1>2. Len(numbers) \in 0 .. Len(numbers) /\ h[Len(numbers)] = Total(numbers)
  BY <1>1 DEF Adds
<1> QED BY <1>2

LEMMA TotalOfNone == ASSUME NEW numbers \in Seq(Nat), Len(numbers) = 0 PROVE Total(numbers) = 0
<1>1. PICK h \in [0 .. Len(numbers) -> Nat] : Adds(h, numbers)
  BY TotalAdds
<1> QED BY <1>1 DEF Adds

(* A number more at the end. *)
LEMMA SumWithLast ==
  ASSUME NEW S, Additive(S), NEW numbers \in Seq(S), NEW v \in S
  PROVE  /\ Total(numbers) \in S
         /\ Total(Append(numbers, v)) = Total(numbers) + v
<1> DEFINE more == Append(numbers, v)
           n == Len(numbers)
<1>1. /\ more \in Seq(S) /\ n \in Nat /\ Len(more) = n + 1 /\ more[n + 1] = v
      /\ \A k \in 1 .. n : more[k] = numbers[k]
  OBVIOUS
<1> HIDE DEF more
<1>2. PICK h \in [0 .. Len(numbers) -> S] : Adds(h, numbers)
  BY SumAdds
<1>3. PICK g \in [0 .. Len(more) -> S] : Adds(g, more)
  BY <1>1, SumAdds
<1> DEFINE Same == {k \in Nat : k <= n => g[k] = h[k]}
<1>4. 0 \in Same
  BY <1>2, <1>3 DEF Adds
<1>5. ASSUME NEW k \in Nat, k \in Same PROVE k + 1 \in Same
  <2> SUFFICES ASSUME k + 1 <= n PROVE g[k + 1] = h[k + 1]
    OBVIOUS
  <2>1. k + 1 \in 1 .. n /\ k + 1 \in 1 .. n + 1 /\ (k + 1) - 1 = k /\ k <= n
    BY <1>1
  <2>2. h[k + 1] = h[k] + numbers[k + 1]
    BY <1>2, <2>1 DEF Adds
  <2>3. g[k + 1] = g[k] + more[k + 1]
    BY <1>1, <1>3, <2>1 DEF Adds
  <2>4. g[k] = h[k] /\ more[k + 1] = numbers[k + 1]
    BY <1>1, <1>5, <2>1
  <2> QED BY <2>2, <2>3, <2>4
<1>6. n \in Same
  <2> HIDE DEF Same
  <2> QED BY <1>1, <1>4, <1>5, NatSetInduction
<1>7. g[n] = h[n]
  BY <1>1, <1>6
<1>8. h[Len(numbers)] = Total(numbers) /\ g[Len(more)] = Total(more)
  BY <1>2, <1>3 DEF Adds
<1>9. g[n + 1] = g[n] + more[n + 1]
  <2>1. n + 1 \in 1 .. Len(more) /\ (n + 1) - 1 = n
    BY <1>1
  <2> QED BY <1>3, <2>1 DEF Adds
<1>10. Total(more) = Total(numbers) + v
  BY <1>1, <1>7, <1>8, <1>9
<1>11. Total(numbers) \in S
  <2>1. n \in 0 .. Len(numbers)
    BY <1>1
  <2> QED BY <1>2, <1>8, <2>1
<1> QED BY <1>10, <1>11 DEF more

LEMMA TotalWithLast ==
  ASSUME NEW numbers \in Seq(Nat), NEW v \in Nat
  PROVE  Total(Append(numbers, v)) = Total(numbers) + v
BY NumbersAdd, SumWithLast

(* The first number is added first. *)
LEMMA TotalWithFirst ==
  ASSUME NEW numbers \in Seq(Nat), numbers # <<>>
  PROVE  Total(numbers) = Head(numbers) + Total(Tail(numbers))
<1> DEFINE rest == Tail(numbers)
           n == Len(rest)
           first == Head(numbers)
<1>1. /\ rest \in Seq(Nat) /\ n \in Nat /\ Len(numbers) = n + 1 /\ first = numbers[1]
      /\ first \in Nat /\ \A k \in 1 .. n : rest[k] = numbers[k + 1]
  OBVIOUS
<1> HIDE DEF rest, first
<1>2. PICK h \in [0 .. Len(numbers) -> Nat] : Adds(h, numbers)
  BY TotalAdds
<1>3. PICK g \in [0 .. Len(rest) -> Nat] : Adds(g, rest)
  BY <1>1, TotalAdds
<1> DEFINE Behind == {k \in Nat : k <= n => h[k + 1] = first + g[k]}
<1>4. 0 \in Behind
  <2>1. 1 \in 1 .. Len(numbers) /\ 1 - 1 = 0
    BY <1>1
  <2>2. h[1] = h[0] + numbers[1] /\ h[0] = 0
    BY <1>2, <2>1 DEF Adds
  <2>3. g[0] = 0
    BY <1>3 DEF Adds
  <2>4. 0 + 1 = 1
    OBVIOUS
  <2> QED BY <1>1, <2>2, <2>3, <2>4
<1>5. ASSUME NEW k \in Nat, k \in Behind PROVE k + 1 \in Behind
  <2> SUFFICES ASSUME k + 1 <= n PROVE h[(k + 1) + 1] = first + g[k + 1]
    OBVIOUS
  <2>1. /\ k + 1 \in 1 .. n /\ (k + 1) + 1 \in 1 .. Len(numbers) /\ (k + 1) - 1 = k
        /\ ((k + 1) + 1) - 1 = k + 1 /\ k <= n /\ k \in 0 .. n
    BY <1>1
  <2>2. h[(k + 1) + 1] = h[k + 1] + numbers[(k + 1) + 1]
    BY <1>2, <2>1 DEF Adds
  <2>3. g[k + 1] = g[k] + rest[k + 1]
    BY <1>3, <2>1 DEF Adds
  <2>4. h[k + 1] = first + g[k] /\ rest[k + 1] = numbers[(k + 1) + 1]
    BY <1>1, <1>5, <2>1
  <2>5. g[k] \in Nat
    BY <2>1
  <2>6. rest[k + 1] \in Nat
    BY <1>1, <2>1
  <2> DEFINE x == g[k]
             y == rest[k + 1]
  <2>7. h[(k + 1) + 1] = (first + x) + y
    BY <2>2, <2>4
  <2>8. g[k + 1] = x + y
    BY <2>3
  <2>9. x \in Nat /\ y \in Nat /\ first \in Nat
    BY <1>1, <2>5, <2>6
  <2> HIDE DEF x, y
  <2>10. (first + x) + y = first + (x + y)
    BY <2>9
  <2> QED BY <2>7, <2>8, <2>10
<1>6. n \in Behind
  <2> HIDE DEF Behind
  <2> QED BY <1>1, <1>4, <1>5, NatSetInduction
<1>7. h[n + 1] = first + g[n]
  BY <1>1, <1>6
<1>8. h[Len(numbers)] = Total(numbers) /\ g[Len(rest)] = Total(rest)
  BY <1>2, <1>3 DEF Adds
<1>9. Total(numbers) = first + Total(rest)
  BY <1>1, <1>7, <1>8
<1> QED BY <1>9 DEF rest, first

----------------------------------------------------------------------------
(* Windows: the last numbers of a list, and the rings that hold them *)

(* The last n of a list: all of it, or what is left without the first ones. *)
LEMMA LastOfValue ==
  ASSUME NEW S, NEW seq \in Seq(S), NEW n \in Nat \ {0}
  PROVE  LET w == LastOf(seq, n) IN
         /\ w \in Seq(S)
         /\ Len(w) = IF Len(seq) >= n THEN n ELSE Len(seq)
         /\ \A i \in 1 .. Len(w) : w[i] = seq[Len(seq) - Len(w) + i]
<1> DEFINE m == Len(seq)
           k == Max({1, m - n + 1})
<1>1. m \in Nat /\ 1 \in Int /\ m - n + 1 \in Int
  OBVIOUS
<1> HIDE DEF m
<1>2. (k = 1 \/ k = m - n + 1) /\ k >= 1 /\ k >= m - n + 1
  <2> DEFINE a == m - n + 1
  <2>1. a \in Int
    BY <1>1
  <2> HIDE DEF a
  <2> DEFINE one == 1
  <2>2. one \in Int
    OBVIOUS
  <2> HIDE DEF one
  <2>3. (Max({one, a}) = one \/ Max({one, a}) = a) /\ Max({one, a}) >= one /\ Max({one, a}) >= a
    BY <2>1, <2>2, MaxOfTwo
  <2> QED BY <2>3 DEF a, one
<1>3. k = IF m >= n THEN m - n + 1 ELSE 1
  BY <1>1, <1>2
<1> HIDE DEF k
<1>4. LastOf(seq, n) = SubSeq(seq, k, m)
  BY DEF LastOf, k, m
<1>5. k \in Nat \ {0} /\ k <= m + 1
  BY <1>1, <1>3
<1> DEFINE w == SubSeq(seq, k, m)
<1>6. w \in Seq(S) /\ Len(w) = m - k + 1 /\ \A i \in 1 .. m - k + 1 : w[i] = seq[k + i - 1]
  BY <1>1, <1>5 DEF m
<1> HIDE DEF w
<1>7. Len(w) = IF m >= n THEN n ELSE m
  BY <1>1, <1>3, <1>6
<1>8. ASSUME NEW i \in 1 .. Len(w) PROVE w[i] = seq[m - Len(w) + i]
  <2>1. i \in 1 .. m - k + 1 /\ k + i - 1 = m - Len(w) + i
    BY <1>1, <1>5, <1>6
  <2> QED BY <1>6, <2>1
<1>9. /\ w \in Seq(S) /\ Len(w) = IF m >= n THEN n ELSE m
      /\ \A i \in 1 .. Len(w) : w[i] = seq[m - Len(w) + i]
  BY <1>6, <1>7, <1>8
<1> QED BY <1>4, <1>9 DEF w, m

(* Two lists of one length with the same elements are one. *)
LEMMA SameList ==
  ASSUME NEW S, NEW x \in Seq(S), NEW y \in Seq(S), Len(x) = Len(y),
         \A i \in 1 .. Len(x) : x[i] = y[i]
  PROVE  x = y
BY SeqEqual

(* A number more: the window takes it in and drops what falls out. *)
LEMMA SlidingTotal ==
  ASSUME NEW seq \in Seq(Nat), NEW n \in Nat \ {0}, NEW v \in Nat
  PROVE  /\ Total(LastOf(seq, n)) \in Nat
         /\ Total(LastOf(Append(seq, v), n)) =
              IF Len(seq) >= n THEN Total(LastOf(seq, n)) + v - seq[Len(seq) - n + 1]
              ELSE Total(LastOf(seq, n)) + v
<1> DEFINE more == Append(seq, v)
           m == Len(seq)
           w == LastOf(seq, n)
           w2 == LastOf(more, n)
<1>1. /\ more \in Seq(Nat) /\ m \in Nat /\ Len(more) = m + 1 /\ more[m + 1] = v
      /\ \A k \in 1 .. m : more[k] = seq[k]
  OBVIOUS
<1> HIDE DEF more
<1>2. /\ w \in Seq(Nat) /\ Len(w) = (IF m >= n THEN n ELSE m)
      /\ \A i \in 1 .. Len(w) : w[i] = seq[m - Len(w) + i]
  BY LastOfValue
<1>3. /\ w2 \in Seq(Nat) /\ Len(w2) = (IF m + 1 >= n THEN n ELSE m + 1)
      /\ \A i \in 1 .. Len(w2) : w2[i] = more[(m + 1) - Len(w2) + i]
  <2>1. /\ w2 \in Seq(Nat) /\ Len(w2) = (IF Len(more) >= n THEN n ELSE Len(more))
        /\ \A i \in 1 .. Len(w2) : w2[i] = more[Len(more) - Len(w2) + i]
    BY <1>1, LastOfValue
  <2> HIDE DEF w2, m
  <2> QED BY <1>1, <2>1
<1> HIDE DEF w, w2
<1>4. Total(w) \in Nat
  BY <1>2, TotalType
<1>5. CASE m < n
  <2> DEFINE u == Append(w, v)
  <2>1. /\ u \in Seq(Nat) /\ Len(u) = Len(w) + 1 /\ u[Len(w) + 1] = v
        /\ \A i \in 1 .. Len(w) : u[i] = w[i]
    BY <1>2
  <2>2. Total(u) = Total(w) + v
    BY <1>2, TotalWithLast
  <2> HIDE DEF u
  <2>3. Len(w) = m /\ Len(w2) = m + 1
    BY <1>1, <1>2, <1>3, <1>5
  <2>4. ASSUME NEW i \in 1 .. Len(w2) PROVE w2[i] = u[i]
    <3>1. w2[i] = more[i]
      <4>1. m + 1 - Len(w2) + i = i
        BY <1>1, <2>3
      <4> QED BY <1>3, <4>1
    <3>2. CASE i = m + 1
      BY <1>1, <2>1, <2>3, <3>1, <3>2
    <3>3. CASE i # m + 1
      <4>1. i \in 1 .. m /\ i \in 1 .. Len(w)
        BY <1>1, <2>3, <3>3
      <4>2. w[i] = seq[i]
        <5>1. m - Len(w) + i = i
          BY <1>1, <2>3, <4>1
        <5> QED BY <1>2, <4>1, <5>1
      <4> QED BY <1>1, <2>1, <3>1, <4>1, <4>2
    <3> QED BY <3>2, <3>3
  <2>5. w2 = u
    <3>1. Len(w2) = Len(u)
      BY <2>1, <2>3
    <3> QED BY <1>3, <2>1, <2>4, <3>1, SameList
  <2> QED BY <1>1, <1>4, <1>5, <2>2, <2>5 DEF w, w2, more
<1>6. CASE m >= n
  <2> DEFINE u == Append(Tail(w), v)
             rest == Tail(w)
  <2>1. Len(w) = n /\ Len(w2) = n /\ w # <<>>
    BY <1>1, <1>2, <1>3, <1>6
  <2>2. /\ rest \in Seq(Nat) /\ Len(rest) = n - 1 /\ Head(w) = w[1]
        /\ \A i \in 1 .. n - 1 : rest[i] = w[i + 1]
    BY <1>2, <2>1
  <2>3. Total(w) = Head(w) + Total(rest)
    BY <1>2, <2>1, TotalWithFirst
  <2>4. Total(u) = Total(rest) + v /\ Total(rest) \in Nat
    BY <2>2, TotalWithLast, TotalType
  <2>5. /\ u \in Seq(Nat) /\ Len(u) = n /\ u[n] = v
        /\ \A i \in 1 .. n - 1 : u[i] = rest[i]
    BY <2>2
  <2> HIDE DEF u, rest
  <2>6. w[1] = seq[m - n + 1] /\ w[1] \in Nat
    <3>1. 1 \in 1 .. Len(w) /\ m - Len(w) + 1 = m - n + 1
      BY <2>1
    <3>2. w[1] = seq[m - Len(w) + 1]
      BY <1>2, <3>1
    <3>3. w[1] \in Nat
      BY <1>2, <3>1
    <3> QED BY <3>1, <3>2, <3>3
  <2>7. ASSUME NEW i \in 1 .. Len(w2) PROVE w2[i] = u[i]
    <3>1. w2[i] = more[((m + 1) - n) + i]
      BY <1>3, <2>1
    <3>2. CASE i = n
      <4>1. ((m + 1) - n) + i = m + 1
        BY <1>1, <3>2
      <4> QED BY <1>1, <2>5, <3>1, <3>2, <4>1
    <3>3. CASE i # n
      <4>1. i \in 1 .. n - 1 /\ i + 1 \in 1 .. Len(w)
        BY <2>1, <3>3
      <4>2. ((m + 1) - n) + i \in 1 .. m /\ ((m + 1) - n) + i = (m - n) + (i + 1)
        <5> HIDE DEF m
        <5>1. m \in Nat /\ n \in Nat /\ i \in Nat /\ i >= 1 /\ i <= n - 1 /\ m >= n
          BY <1>1, <1>6, <4>1
        <5> QED BY <5>1
      <4>3. w[i + 1] = seq[(m - n) + (i + 1)]
        BY <1>2, <2>1, <4>1
      <4>4. more[((m + 1) - n) + i] = seq[((m + 1) - n) + i]
        BY <1>1, <4>2
      <4> QED BY <2>2, <2>5, <3>1, <4>1, <4>2, <4>3, <4>4
    <3> QED BY <3>2, <3>3
  <2>8. w2 = u
    <3>1. Len(w2) = Len(u)
      BY <2>1, <2>5
    <3> QED BY <1>3, <2>5, <2>7, <3>1, SameList
  <2>9. Total(w2) = Total(w) + v - seq[m - n + 1]
    <3> DEFINE first == seq[m - n + 1]
               all == Total(w)
               tail == Total(rest)
    <3>1. all = first + tail /\ first \in Nat /\ tail \in Nat /\ Total(w2) = tail + v
      BY <2>2, <2>3, <2>4, <2>6, <2>8
    <3> HIDE DEF first, all, tail
    <3>2. Total(w2) = all + v - first
      BY <3>1
    <3> QED BY <3>2 DEF first, all
  <2> QED BY <1>4, <1>6, <2>9 DEF w, w2, more
<1> QED BY <1>1, <1>5, <1>6

(* Remainders of what is not above the divisor. *)
LEMMA SmallRemainder == ASSUME NEW n \in Nat \ {0}, NEW x \in 0 .. n - 1 PROVE x % n = x
OBVIOUS

LEMMA WholeRemainder == ASSUME NEW n \in Nat \ {0} PROVE n % n = 0
OBVIOUS

Back(p, k, size) == IF k <= p THEN p - k ELSE (p - k) + size

(* The ring holds the last numbers of the list, the newest behind the pointer. *)
RingHolds(ring, size, seq) ==
  /\ DOMAIN ring = {"cell", "ptr", "count"}
  /\ ring.cell \in [0 .. size - 1 -> Nat] /\ ring.ptr \in 0 .. size - 1
  /\ ring.count = (IF Len(seq) >= size THEN size ELSE Len(seq))
  /\ \A k \in 1 .. ring.count : ring.cell[Back(ring.ptr, k, size)] = seq[(Len(seq) - k) + 1]

LEMMA RingSize ==
  ASSUME NEW size \in Nat \ {0}, NEW ring, NEW seq \in Seq(Nat), RingHolds(ring, size, seq)
  PROVE  Size(ring) = size /\ IsFull(ring) = (Len(seq) >= size)
<1>1. DOMAIN ring.cell = 0 .. size - 1
  BY DEF RingHolds
<1>2. Cardinality(0 .. size - 1) = size
  <2> DEFINE z == 0
             l == size - 1
  <2>1. z \in Int /\ l \in Int /\ z <= l
    OBVIOUS
  <2> HIDE DEF z, l
  <2>2. Cardinality(z .. l) = IF z > l THEN 0 ELSE (l - z) + 1
    BY <2>1, FS_Interval
  <2> QED BY <2>1, <2>2 DEF z, l
<1>3. Size(ring) = size
  BY <1>1, <1>2 DEF Size
<1>4. Len(seq) \in Nat
  OBVIOUS
<1> QED BY <1>3, <1>4 DEF IsFull, RingHolds

(* A full ring's oldest number is the first of the window. *)
LEMMA RingOldest ==
  ASSUME NEW size \in Nat \ {0}, NEW ring, NEW seq \in Seq(Nat), RingHolds(ring, size, seq),
         Len(seq) >= size
  PROVE  Oldest(ring) = seq[(Len(seq) - size) + 1]
<1>1. ring.ptr \in 0 .. size - 1 /\ ring.count = size /\ size \in 1 .. ring.count
  BY DEF RingHolds
<1>2. Back(ring.ptr, size, size) = ring.ptr
  BY <1>1 DEF Back
<1>3. ring.cell[Back(ring.ptr, size, size)] = seq[(Len(seq) - size) + 1]
  BY <1>1 DEF RingHolds
<1> QED BY <1>2, <1>3 DEF Oldest

(* Pushing a number onto the ring appends it to the list. *)
LEMMA RingPush ==
  ASSUME NEW size \in Nat \ {0}, NEW ring, NEW seq \in Seq(Nat), RingHolds(ring, size, seq),
         NEW v \in Nat
  PROVE  RingHolds(Push(ring, v), size, Append(seq, v))
<1> DEFINE more == Append(seq, v)
           new == Push(ring, v)
           m == Len(seq)
           p == ring.ptr
           q == (p + 1) % size
           n == ring.count
<1>1. m \in Nat /\ Len(more) = m + 1 /\ more[m + 1] = v /\ \A i \in 1 .. m : more[i] = seq[i]
  OBVIOUS
<1>2. p \in 0 .. size - 1 /\ ring.cell \in [0 .. size - 1 -> Nat] /\ n = (IF m >= size THEN size ELSE m)
  BY DEF RingHolds
<1>3. Size(ring) = size
  BY RingSize
<1>4. /\ DOMAIN new = {"cell", "ptr", "count"} /\ new.cell = [ring.cell EXCEPT ![p] = v]
      /\ new.ptr = q /\ new.count = Min({n + 1, size})
  BY <1>3 DEF Push
<1>5. q = IF p + 1 = size THEN 0 ELSE p + 1
  <2> HIDE DEF p
  <2> DEFINE x == p + 1
  <2>1. CASE x = size
    BY <2>1, WholeRemainder
  <2>2. CASE x # size
    <3>1. x \in 0 .. size - 1
      BY <1>2, <2>2
    <3> HIDE DEF x
    <3>2. x % size = x
      BY <3>1, SmallRemainder
    <3> QED BY <2>2, <3>2 DEF x
  <2> QED BY <2>1, <2>2
<1> HIDE DEF more, new, m, p, q, n
<1>6. n \in Nat /\ n <= size
  BY <1>1, <1>2
<1>7. new.count = IF m + 1 >= size THEN size ELSE m + 1
  <2> DEFINE a == n + 1
  <2>1. a \in Int /\ size \in Int
    BY <1>6
  <2> HIDE DEF a
  <2>2. (Min({a, size}) = a \/ Min({a, size}) = size) /\ Min({a, size}) <= a /\ Min({a, size}) <= size
    BY <2>1, MinOfTwo
  <2> QED BY <1>1, <1>2, <1>4, <2>2 DEF a
<1>8. ASSUME NEW k \in 1 .. new.count
      PROVE  new.cell[Back(new.ptr, k, size)] = more[(Len(more) - k) + 1]
  <2>1. CASE k = 1
    <3>1. Back(q, 1, size) = p
      BY <1>2, <1>5 DEF Back
    <3>2. new.cell[p] = v
      BY <1>2, <1>4
    <3>3. (Len(more) - 1) + 1 = m + 1
      BY <1>1
    <3> QED BY <1>1, <1>4, <2>1, <3>1, <3>2, <3>3
  <2>2. CASE k # 1
    <3> DEFINE j == k - 1
    <3>1. k \in Int /\ k >= 2 /\ k <= size /\ k <= m + 1
      BY <1>1, <1>7, <2>2
    <3>2. j \in 1 .. n /\ j < size /\ j <= m /\ k = j + 1
      BY <1>1, <1>2, <3>1
    <3> HIDE DEF j
    <3>3. Back(q, k, size) = Back(p, j, size) /\ Back(p, j, size) # p /\ Back(p, j, size) \in 0 .. size - 1
      BY <1>2, <1>5, <3>1, <3>2 DEF Back
    <3>4. new.cell[Back(q, k, size)] = ring.cell[Back(p, j, size)]
      BY <1>2, <1>4, <3>3
    <3>5. ring.cell[Back(p, j, size)] = seq[(m - j) + 1]
      BY <3>2 DEF RingHolds, p, m, n
    <3>6. (m - j) + 1 \in 1 .. m /\ (Len(more) - k) + 1 = (m - j) + 1
      BY <1>1, <3>2
    <3> QED BY <1>1, <1>4, <3>4, <3>5, <3>6
  <2> QED BY <2>1, <2>2
<1>9. q \in 0 .. size - 1 /\ new.cell \in [0 .. size - 1 -> Nat]
  BY <1>2, <1>4, <1>5
<1>10. RingHolds(new, size, more)
  BY <1>1, <1>4, <1>7, <1>8, <1>9 DEF RingHolds
<1> QED BY <1>10 DEF new, more

(* The running sum over a ring follows the window. *)
LEMMA RingSum ==
  ASSUME NEW size \in Nat \ {0}, NEW ring, NEW seq \in Seq(Nat), RingHolds(ring, size, seq),
         NEW v \in Nat
  PROVE  SumAfter(Total(LastOf(seq, size)), ring, v) = Total(LastOf(Append(seq, v), size))
<1> DEFINE sum == Total(LastOf(seq, size))
           after == Total(LastOf(Append(seq, v), size))
           first == seq[(Len(seq) - size) + 1]
<1>1. /\ sum \in Nat
      /\ after = IF Len(seq) >= size THEN sum + v - seq[Len(seq) - size + 1] ELSE sum + v
  BY SlidingTotal
<1>2. IsFull(ring) = (Len(seq) >= size)
  BY RingSize
<1>3. Len(seq) >= size => Oldest(ring) = first
  BY RingOldest
<1>4. after = IF Len(seq) >= size THEN sum + v - first ELSE sum + v
  <2> HIDE DEF sum, after
  <2> QED BY <1>1
<1> HIDE DEF sum, after, first
<1>5. SumAfter(sum, ring, v) = after
  <2>1. CASE Len(seq) >= size
    BY <1>2, <1>3, <1>4, <2>1 DEF SumAfter
  <2>2. CASE ~(Len(seq) >= size)
    <3>1. ~IsFull(ring) /\ after = sum + v /\ sum \in Nat
      BY <1>1, <1>2, <1>4, <2>2 DEF sum
    <3>2. SumAfter(sum, ring, v) = sum + (v - 0)
      BY <3>1 DEF SumAfter
    <3> QED BY <3>1, <3>2
  <2> QED BY <2>1, <2>2
<1> QED BY <1>5 DEF sum, after

(* A fresh ring holds the empty list. *)
LEMMA RingFresh ==
  ASSUME NEW size \in Nat \ {0}, NEW seq \in Seq(Nat), Len(seq) = 0
  PROVE  RingHolds(Ring(size), size, seq) /\ Total(LastOf(seq, size)) = 0
<1>1. RingHolds(Ring(size), size, seq)
  BY DEF Ring, RingHolds
<1> DEFINE w == LastOf(seq, size)
<1>2. w \in Seq(Nat) /\ Len(w) = 0
  <2>1. w \in Seq(Nat) /\ Len(w) = IF Len(seq) >= size THEN size ELSE Len(seq)
    BY LastOfValue
  <2> HIDE DEF w
  <2> QED BY <2>1
<1>3. Total(w) = 0
  <2> HIDE DEF w
  <2> QED BY <1>2, TotalOfNone
<1> QED BY <1>1, <1>3

----------------------------------------------------------------------------
(* Chosen entries, one entry at a time *)

Selects(h, entries, chosen) ==
  /\ h[0] = <<>> /\ h[Len(entries)] = Selected(entries, chosen)
  /\ \A n \in 1 .. Len(entries) :
       h[n] = IF n \in chosen THEN Append(h[n - 1], entries[n]) ELSE h[n - 1]

(* A selection is made entry by entry. *)
LEMMA SelectedAdds ==
  ASSUME NEW S, NEW entries \in Seq(S), NEW chosen
  PROVE  \E h : Selects(h, entries, chosen) /\ h \in [0 .. Len(entries) -> Seq(S)]
<1> DEFINE Step(h, n) ==
             IF n = 0 THEN <<>>
             ELSE IF n \in chosen THEN Append(h[n - 1], entries[n]) ELSE h[n - 1]
           Built(m) == \E h \in [0 .. m -> Seq(S)] : h = [n \in 0 .. m |-> Step(h, n)]
           Known == {m \in Nat : m <= Len(entries) => Built(m)}
<1>1. 0 \in Known
  <2>1. 0 .. 0 = {0} /\ <<>> \in Seq(S)
    OBVIOUS
  <2> DEFINE none == [n \in 0 .. 0 |-> <<>>]
  <2>2. none \in [0 .. 0 -> Seq(S)] /\ none = [n \in 0 .. 0 |-> Step(none, n)]
    BY <2>1
  <2> HIDE DEF Step, none
  <2> QED BY <2>2
<1>2. ASSUME NEW m \in Nat, m \in Known PROVE m + 1 \in Known
  <2> SUFFICES ASSUME m + 1 <= Len(entries) PROVE Built(m + 1)
    <3> HIDE DEF Built
    <3> QED OBVIOUS
  <2>1. PICK h \in [0 .. m -> Seq(S)] : h = [n \in 0 .. m |-> Step(h, n)]
    <3> HIDE DEF Step
    <3>1. Len(entries) \in Nat /\ m <= Len(entries)
      OBVIOUS
    <3> QED BY <1>2, <3>1
  <2> DEFINE g == [n \in 0 .. m + 1 |-> Step(h, n)]
  <2>2. ASSUME NEW n \in 0 .. m + 1 PROVE Step(h, n) = Step(g, n) /\ Step(h, n) \in Seq(S)
    <3>1. CASE n = 0
      BY <3>1
    <3>2. CASE n # 0
      <4>1. n - 1 \in 0 .. m /\ n - 1 \in 0 .. m + 1 /\ n \in 1 .. Len(entries)
        BY <3>2
      <4>2. g[n - 1] = h[n - 1]
        <5> HIDE DEF Step
        <5> QED BY <4>1, <2>1
      <4>3. h[n - 1] \in Seq(S) /\ entries[n] \in S
        BY <4>1
      <4>4. /\ Step(h, n) = IF n \in chosen THEN Append(h[n - 1], entries[n]) ELSE h[n - 1]
            /\ Step(g, n) = IF n \in chosen THEN Append(g[n - 1], entries[n]) ELSE g[n - 1]
        BY <3>2
      <4> HIDE DEF Step, g
      <4> QED BY <4>2, <4>3, <4>4
    <3> QED BY <3>1, <3>2
  <2>3. g = [n \in 0 .. m + 1 |-> Step(g, n)] /\ g \in [0 .. m + 1 -> Seq(S)]
    BY <2>2
  <2> HIDE DEF g, Step
  <2> QED BY <2>3
<1>3. Len(entries) \in Known /\ Len(entries) \in Nat
  <2> HIDE DEF Known
  <2> QED BY <1>1, <1>2, NatSetInduction
<1>4. PICK f \in [0 .. Len(entries) -> Seq(S)] : f = [n \in 0 .. Len(entries) |-> Step(f, n)]
  <2> HIDE DEF Step
  <2> QED BY <1>3
<1> DEFINE selected == CHOOSE h : h = [n \in 0 .. Len(entries) |-> Step(h, n)]
<1>5. selected = [n \in 0 .. Len(entries) |-> Step(selected, n)]
  BY <1>4
<1>6. Selected(entries, chosen) = selected[Len(entries)]
  BY DEF Selected
<1> HIDE DEF selected
<1> DEFINE Same == {k \in Nat : k <= Len(entries) => selected[k] = f[k]}
<1>7. 0 \in Same
  BY <1>3, <1>4, <1>5
<1>8. ASSUME NEW k \in Nat, k \in Same PROVE k + 1 \in Same
  <2> SUFFICES ASSUME k + 1 <= Len(entries) PROVE selected[k + 1] = f[k + 1]
    OBVIOUS
  <2>1. k + 1 \in 0 .. Len(entries) /\ (k + 1) - 1 = k /\ k + 1 # 0 /\ selected[k] = f[k]
    BY <1>8
  <2>2. selected[k + 1] = IF k + 1 \in chosen THEN Append(selected[k], entries[k + 1]) ELSE selected[k]
    BY <1>5, <2>1
  <2>3. f[k + 1] = IF k + 1 \in chosen THEN Append(f[k], entries[k + 1]) ELSE f[k]
    BY <1>4, <2>1
  <2> QED BY <2>1, <2>2, <2>3
<1>9. Len(entries) \in Same
  <2> HIDE DEF Same
  <2> QED BY <1>3, <1>7, <1>8, NatSetInduction
<1>10. f[0] = <<>>
  BY <1>3, <1>4
<1>11. ASSUME NEW n \in 1 .. Len(entries)
       PROVE  f[n] = IF n \in chosen THEN Append(f[n - 1], entries[n]) ELSE f[n - 1]
  <2>1. n \in 0 .. Len(entries) /\ n # 0
    OBVIOUS
  <2> QED BY <1>4, <2>1
<1>12. f[Len(entries)] = Selected(entries, chosen)
  BY <1>3, <1>6, <1>9
<1> HIDE DEF Step
<1>13. Selects(f, entries, chosen)
  BY <1>10, <1>11, <1>12 DEF Selects
<1> QED BY <1>13

LEMMA SelectedType ==
  ASSUME NEW S, NEW entries \in Seq(S), NEW chosen PROVE Selected(entries, chosen) \in Seq(S)
<1>1. PICK h \in [0 .. Len(entries) -> Seq(S)] : Selects(h, entries, chosen)
  BY SelectedAdds
<1>2. Len(entries) \in 0 .. Len(entries) /\ h[Len(entries)] = Selected(entries, chosen)
  BY <1>1 DEF Selects
<1> QED BY <1>2

LEMMA SelectedOfNone ==
  ASSUME NEW S, NEW entries \in Seq(S), NEW chosen, Len(entries) = 0
  PROVE  Selected(entries, chosen) = <<>>
<1>1. PICK h \in [0 .. Len(entries) -> Seq(S)] : Selects(h, entries, chosen)
  BY SelectedAdds
<1> QED BY <1>1 DEF Selects

(* An entry more: it is taken or not, and the others are chosen as before. *)
LEMMA SelectedGrows ==
  ASSUME NEW S, NEW entries \in Seq(S), NEW c \in S, NEW chosen, NEW others,
         \A k \in 1 .. Len(entries) : k \in chosen <=> k \in others
  PROVE  Selected(Append(entries, c), others) =
           IF Len(entries) + 1 \in others THEN Append(Selected(entries, chosen), c)
           ELSE Selected(entries, chosen)
<1> DEFINE more == Append(entries, c)
           n == Len(entries)
<1>1. /\ more \in Seq(S) /\ n \in Nat /\ Len(more) = n + 1 /\ more[n + 1] = c
      /\ \A k \in 1 .. n : more[k] = entries[k]
  OBVIOUS
<1> HIDE DEF more
<1>2. PICK h \in [0 .. Len(entries) -> Seq(S)] : Selects(h, entries, chosen)
  BY SelectedAdds
<1>3. PICK g \in [0 .. Len(more) -> Seq(S)] : Selects(g, more, others)
  BY <1>1, SelectedAdds
<1> DEFINE Same == {k \in Nat : k <= n => g[k] = h[k]}
<1>4. 0 \in Same
  BY <1>2, <1>3 DEF Selects
<1>5. ASSUME NEW k \in Nat, k \in Same PROVE k + 1 \in Same
  <2> SUFFICES ASSUME k + 1 <= n PROVE g[k + 1] = h[k + 1]
    OBVIOUS
  <2>1. k + 1 \in 1 .. n /\ k + 1 \in 1 .. n + 1 /\ (k + 1) - 1 = k /\ k <= n
    BY <1>1
  <2>2. h[k + 1] = IF k + 1 \in chosen THEN Append(h[k], entries[k + 1]) ELSE h[k]
    BY <1>2, <2>1 DEF Selects
  <2>3. g[k + 1] = IF k + 1 \in others THEN Append(g[k], more[k + 1]) ELSE g[k]
    BY <1>1, <1>3, <2>1 DEF Selects
  <2>4. g[k] = h[k] /\ more[k + 1] = entries[k + 1] /\ (k + 1 \in chosen <=> k + 1 \in others)
    BY <1>1, <1>5, <2>1
  <2> QED BY <2>2, <2>3, <2>4
<1>6. n \in Same
  <2> HIDE DEF Same
  <2> QED BY <1>1, <1>4, <1>5, NatSetInduction
<1>7. g[n] = h[n]
  BY <1>1, <1>6
<1>8. h[Len(entries)] = Selected(entries, chosen) /\ g[Len(more)] = Selected(more, others)
  BY <1>2, <1>3 DEF Selects
<1>9. g[n + 1] = IF n + 1 \in others THEN Append(g[n], more[n + 1]) ELSE g[n]
  <2>1. n + 1 \in 1 .. Len(more) /\ (n + 1) - 1 = n
    BY <1>1
  <2> QED BY <1>3, <2>1 DEF Selects
<1>10. Selected(more, others) = IF n + 1 \in others THEN Append(Selected(entries, chosen), c)
                                ELSE Selected(entries, chosen)
  BY <1>1, <1>7, <1>8, <1>9
<1> QED BY <1>10 DEF more

(* What an entry more adds to the entries of a symbol, the trades and the moves. *)
LEMMA OfSymbolGrows ==
  ASSUME NEW S, NEW entries \in Seq(S), NEW c \in S, NEW s
  PROVE  OfSymbol(Append(entries, c), s) =
           IF c.sym = s THEN Append(OfSymbol(entries, s), c) ELSE OfSymbol(entries, s)
<1> DEFINE more == Append(entries, c)
           old == {i \in DOMAIN entries : entries[i].sym = s}
           new == {i \in DOMAIN more : more[i].sym = s}
           n == Len(entries)
<1>1. n + 1 \in new <=> c.sym = s
  OBVIOUS
<1>2. \A k \in 1 .. Len(entries) : k \in old <=> k \in new
  OBVIOUS
<1> HIDE DEF old, new
<1>3. Selected(more, new) = IF n + 1 \in new THEN Append(Selected(entries, old), c)
                            ELSE Selected(entries, old)
  BY <1>2, SelectedGrows
<1> QED BY <1>1, <1>3 DEF OfSymbol, old, new

LEMMA TradesGrow ==
  ASSUME NEW S, NEW entries \in Seq(S), NEW c \in S
  PROVE  Trades(Append(entries, c)) =
           IF c.kind = "trade" THEN Append(Trades(entries), c) ELSE Trades(entries)
<1> DEFINE more == Append(entries, c)
           old == {i \in DOMAIN entries : entries[i].kind = "trade"}
           new == {i \in DOMAIN more : more[i].kind = "trade"}
           n == Len(entries)
<1>1. n + 1 \in new <=> c.kind = "trade"
  OBVIOUS
<1>2. \A k \in 1 .. Len(entries) : k \in old <=> k \in new
  OBVIOUS
<1> HIDE DEF old, new
<1>3. Selected(more, new) = IF n + 1 \in new THEN Append(Selected(entries, old), c)
                            ELSE Selected(entries, old)
  BY <1>2, SelectedGrows
<1> QED BY <1>1, <1>3 DEF Trades, old, new

LEMMA MovesGrow ==
  ASSUME NEW S, NEW entries \in Seq(S), NEW c \in S
  PROVE  Moves(Append(entries, c)) =
           IF c.feature.midpoint_valid THEN Append(Moves(entries), c) ELSE Moves(entries)
<1> DEFINE more == Append(entries, c)
           old == {i \in DOMAIN entries : entries[i].feature.midpoint_valid}
           new == {i \in DOMAIN more : more[i].feature.midpoint_valid}
           n == Len(entries)
<1>1. n + 1 \in new <=> c.feature.midpoint_valid
  OBVIOUS
<1>2. \A k \in 1 .. Len(entries) : k \in old <=> k \in new
  OBVIOUS
<1> HIDE DEF old, new
<1>3. Selected(more, new) = IF n + 1 \in new THEN Append(Selected(entries, old), c)
                            ELSE Selected(entries, old)
  BY <1>2, SelectedGrows
<1> QED BY <1>1, <1>3 DEF Moves, old, new

----------------------------------------------------------------------------
(* What a symbol's slot says of its accepted events *)

EntryOK(c) ==
  /\ c.sym \in Symbols /\ c.price \in Nat /\ c.quantity \in Nat
  /\ c.feature.midpoint \in Nat
AllOK(S) == \A c \in S : EntryOK(c)

Midpoints(entries) == [i \in DOMAIN entries |-> entries[i].feature.midpoint]

(* A function on the first numbers is a list, and one longer than another is its extension. *)
LEMMA IsList ==
  ASSUME NEW n \in Nat, NEW f \in [1 .. n -> Nat]
  PROVE  f \in Seq(Nat) /\ Len(f) = n
OBVIOUS

LEMMA IsAppend ==
  ASSUME NEW x \in Seq(Nat), NEW q \in Seq(Nat), NEW v \in Nat,
         Len(x) = Len(q) + 1, x[Len(q) + 1] = v, \A i \in 1 .. Len(q) : x[i] = q[i]
  PROVE  x = Append(q, v)
<1> DEFINE y == Append(q, v)
<1>1. /\ y \in Seq(Nat) /\ Len(y) = Len(q) + 1 /\ y[Len(q) + 1] = v
      /\ \A i \in 1 .. Len(q) : y[i] = q[i]
  OBVIOUS
<1> HIDE DEF y
<1>2. ASSUME NEW i \in 1 .. Len(x) PROVE x[i] = y[i]
  <2>1. CASE i = Len(q) + 1
    BY <1>1, <2>1
  <2>2. CASE i # Len(q) + 1
    <3>1. i \in 1 .. Len(q)
      BY <2>2
    <3> QED BY <1>1, <3>1
  <2> QED BY <2>1, <2>2
<1>3. Len(x) = Len(y)
  BY <1>1
<1>4. x = y
  BY <1>1, <1>2, <1>3, SameList
<1> QED BY <1>4 DEF y

LEMMA QuantitiesGrow ==
  ASSUME NEW S, AllOK(S), NEW entries \in Seq(S), NEW c \in S
  PROVE  /\ Quantities(entries) \in Seq(Nat) /\ Len(Quantities(entries)) = Len(entries)
         /\ \A i \in 1 .. Len(entries) : Quantities(entries)[i] = entries[i].quantity
         /\ Quantities(Append(entries, c)) = Append(Quantities(entries), c.quantity)
<1> DEFINE more == Append(entries, c)
           v == c.quantity
           x == Quantities(more)
           q == Quantities(entries)
<1>1. ASSUME NEW d \in S PROVE d.quantity \in Nat
  BY DEF AllOK, EntryOK
<1>2. ASSUME NEW other \in Seq(S)
      PROVE  /\ Quantities(other) \in Seq(Nat) /\ Len(Quantities(other)) = Len(other)
             /\ \A i \in 1 .. Len(other) : Quantities(other)[i] = other[i].quantity
  <2> DEFINE f == Quantities(other)
  <2>1. DOMAIN other = 1 .. Len(other) /\ Len(other) \in Nat /\ \A i \in 1 .. Len(other) : other[i] \in S
    OBVIOUS
  <2>2. f = [i \in 1 .. Len(other) |-> other[i].quantity]
    BY <2>1 DEF Quantities
  <2>3. f \in [1 .. Len(other) -> Nat]
    <3> HIDE DEF f
    <3> QED BY <1>1, <2>1, <2>2
  <2>4. \A i \in 1 .. Len(other) : f[i] = other[i].quantity
    <3> HIDE DEF f
    <3> QED BY <2>2
  <2> HIDE DEF f
  <2>5. f \in Seq(Nat) /\ Len(f) = Len(other)
    BY <2>1, <2>3, IsList
  <2> QED BY <2>4, <2>5 DEF f
<1>3. /\ more \in Seq(S) /\ Len(more) = Len(entries) + 1 /\ more[Len(entries) + 1] = c
      /\ \A i \in 1 .. Len(entries) : more[i] = entries[i]
  OBVIOUS
<1> HIDE DEF more
<1>4. x \in Seq(Nat) /\ Len(x) = Len(more) /\ \A i \in 1 .. Len(more) : x[i] = more[i].quantity
  BY <1>2, <1>3
<1>5. q \in Seq(Nat) /\ Len(q) = Len(entries) /\ \A i \in 1 .. Len(entries) : q[i] = entries[i].quantity
  BY <1>2
<1> HIDE DEF x, q
<1>6. v \in Nat
  BY <1>1
<1>7. Len(entries) + 1 \in 1 .. Len(more) /\ \A i \in 1 .. Len(entries) : i \in 1 .. Len(more)
  BY <1>3
<1>8. x[Len(entries) + 1] = v
  BY <1>3, <1>4, <1>7
<1>9. \A i \in 1 .. Len(entries) : x[i] = q[i]
  <2> SUFFICES ASSUME NEW i \in 1 .. Len(entries) PROVE x[i] = q[i]
    OBVIOUS
  <2>1. x[i] = more[i].quantity /\ q[i] = entries[i].quantity /\ more[i] = entries[i]
    BY <1>3, <1>4, <1>5, <1>7
  <2> QED BY <2>1
<1> HIDE DEF v
<1>10. x = Append(q, v)
  BY <1>3, <1>4, <1>5, <1>6, <1>8, <1>9, IsAppend
<1> QED BY <1>5, <1>10 DEF x, q, more, v

LEMMA ValuesGrow ==
  ASSUME NEW S, AllOK(S), NEW entries \in Seq(S), NEW c \in S
  PROVE  /\ Values(entries) \in Seq(Nat) /\ Len(Values(entries)) = Len(entries)
         /\ \A i \in 1 .. Len(entries) : Values(entries)[i] = entries[i].price * entries[i].quantity
         /\ Values(Append(entries, c)) = Append(Values(entries), c.price * c.quantity)
<1> DEFINE more == Append(entries, c)
           v == c.price * c.quantity
           x == Values(more)
           q == Values(entries)
<1>1. ASSUME NEW d \in S PROVE d.price * d.quantity \in Nat
  BY DEF AllOK, EntryOK
<1>2. ASSUME NEW other \in Seq(S)
      PROVE  /\ Values(other) \in Seq(Nat) /\ Len(Values(other)) = Len(other)
             /\ \A i \in 1 .. Len(other) : Values(other)[i] = other[i].price * other[i].quantity
  <2> DEFINE f == Values(other)
  <2>1. DOMAIN other = 1 .. Len(other) /\ Len(other) \in Nat /\ \A i \in 1 .. Len(other) : other[i] \in S
    OBVIOUS
  <2>2. f = [i \in 1 .. Len(other) |-> other[i].price * other[i].quantity]
    BY <2>1 DEF Values
  <2>3. f \in [1 .. Len(other) -> Nat]
    <3> HIDE DEF f
    <3> QED BY <1>1, <2>1, <2>2
  <2>4. \A i \in 1 .. Len(other) : f[i] = other[i].price * other[i].quantity
    <3> HIDE DEF f
    <3> QED BY <2>2
  <2> HIDE DEF f
  <2>5. f \in Seq(Nat) /\ Len(f) = Len(other)
    BY <2>1, <2>3, IsList
  <2> QED BY <2>4, <2>5 DEF f
<1>3. /\ more \in Seq(S) /\ Len(more) = Len(entries) + 1 /\ more[Len(entries) + 1] = c
      /\ \A i \in 1 .. Len(entries) : more[i] = entries[i]
  OBVIOUS
<1> HIDE DEF more
<1>4. x \in Seq(Nat) /\ Len(x) = Len(more) /\ \A i \in 1 .. Len(more) : x[i] = more[i].price * more[i].quantity
  BY <1>2, <1>3
<1>5. q \in Seq(Nat) /\ Len(q) = Len(entries) /\ \A i \in 1 .. Len(entries) : q[i] = entries[i].price * entries[i].quantity
  BY <1>2
<1> HIDE DEF x, q
<1>6. v \in Nat
  BY <1>1
<1>7. Len(entries) + 1 \in 1 .. Len(more) /\ \A i \in 1 .. Len(entries) : i \in 1 .. Len(more)
  BY <1>3
<1>8. x[Len(entries) + 1] = v
  BY <1>3, <1>4, <1>7
<1>9. \A i \in 1 .. Len(entries) : x[i] = q[i]
  <2> SUFFICES ASSUME NEW i \in 1 .. Len(entries) PROVE x[i] = q[i]
    OBVIOUS
  <2>1. x[i] = more[i].price * more[i].quantity /\ q[i] = entries[i].price * entries[i].quantity /\ more[i] = entries[i]
    BY <1>3, <1>4, <1>5, <1>7
  <2> QED BY <2>1
<1> HIDE DEF v
<1>10. x = Append(q, v)
  BY <1>3, <1>4, <1>5, <1>6, <1>8, <1>9, IsAppend
<1> QED BY <1>5, <1>10 DEF x, q, more, v

LEMMA MidpointsGrow ==
  ASSUME NEW S, AllOK(S), NEW entries \in Seq(S), NEW c \in S
  PROVE  /\ Midpoints(entries) \in Seq(Nat) /\ Len(Midpoints(entries)) = Len(entries)
         /\ \A i \in 1 .. Len(entries) : Midpoints(entries)[i] = entries[i].feature.midpoint
         /\ Midpoints(Append(entries, c)) = Append(Midpoints(entries), c.feature.midpoint)
<1> DEFINE more == Append(entries, c)
           v == c.feature.midpoint
           x == Midpoints(more)
           q == Midpoints(entries)
<1>1. ASSUME NEW d \in S PROVE d.feature.midpoint \in Nat
  BY DEF AllOK, EntryOK
<1>2. ASSUME NEW other \in Seq(S)
      PROVE  /\ Midpoints(other) \in Seq(Nat) /\ Len(Midpoints(other)) = Len(other)
             /\ \A i \in 1 .. Len(other) : Midpoints(other)[i] = other[i].feature.midpoint
  <2> DEFINE f == Midpoints(other)
  <2>1. DOMAIN other = 1 .. Len(other) /\ Len(other) \in Nat /\ \A i \in 1 .. Len(other) : other[i] \in S
    OBVIOUS
  <2>2. f = [i \in 1 .. Len(other) |-> other[i].feature.midpoint]
    BY <2>1 DEF Midpoints
  <2>3. f \in [1 .. Len(other) -> Nat]
    <3> HIDE DEF f
    <3> QED BY <1>1, <2>1, <2>2
  <2>4. \A i \in 1 .. Len(other) : f[i] = other[i].feature.midpoint
    <3> HIDE DEF f
    <3> QED BY <2>2
  <2> HIDE DEF f
  <2>5. f \in Seq(Nat) /\ Len(f) = Len(other)
    BY <2>1, <2>3, IsList
  <2> QED BY <2>4, <2>5 DEF f
<1>3. /\ more \in Seq(S) /\ Len(more) = Len(entries) + 1 /\ more[Len(entries) + 1] = c
      /\ \A i \in 1 .. Len(entries) : more[i] = entries[i]
  OBVIOUS
<1> HIDE DEF more
<1>4. x \in Seq(Nat) /\ Len(x) = Len(more) /\ \A i \in 1 .. Len(more) : x[i] = more[i].feature.midpoint
  BY <1>2, <1>3
<1>5. q \in Seq(Nat) /\ Len(q) = Len(entries) /\ \A i \in 1 .. Len(entries) : q[i] = entries[i].feature.midpoint
  BY <1>2
<1> HIDE DEF x, q
<1>6. v \in Nat
  BY <1>1
<1>7. Len(entries) + 1 \in 1 .. Len(more) /\ \A i \in 1 .. Len(entries) : i \in 1 .. Len(more)
  BY <1>3
<1>8. x[Len(entries) + 1] = v
  BY <1>3, <1>4, <1>7
<1>9. \A i \in 1 .. Len(entries) : x[i] = q[i]
  <2> SUFFICES ASSUME NEW i \in 1 .. Len(entries) PROVE x[i] = q[i]
    OBVIOUS
  <2>1. x[i] = more[i].feature.midpoint /\ q[i] = entries[i].feature.midpoint /\ more[i] = entries[i]
    BY <1>3, <1>4, <1>5, <1>7
  <2> QED BY <2>1
<1> HIDE DEF v
<1>10. x = Append(q, v)
  BY <1>3, <1>4, <1>5, <1>6, <1>8, <1>9, IsAppend
<1> QED BY <1>5, <1>10 DEF x, q, more, v

(* The place of the last quote of a side moves to an entry that is one. *)
LEMMA LastQuoteGrows ==
  ASSUME NEW S, NEW entries \in Seq(S), NEW c \in S, NEW side
  PROVE  LastQuote(Append(entries, c), side) =
           IF c.kind = "quote" /\ c.side = side THEN Len(entries) + 1 ELSE LastQuote(entries, side)
<1> DEFINE more == Append(entries, c)
           n == Len(entries)
           old == {i \in DOMAIN entries : entries[i].kind = "quote" /\ entries[i].side = side}
           new == {i \in DOMAIN more : more[i].kind = "quote" /\ more[i].side = side}
<1>1. /\ n \in Nat /\ Len(more) = n + 1 /\ more[n + 1] = c /\ DOMAIN more = 1 .. n + 1
      /\ DOMAIN entries = 1 .. n /\ \A i \in 1 .. n : more[i] = entries[i]
  OBVIOUS
<1> HIDE DEF more, n
<1>2. CASE c.kind = "quote" /\ c.side = side
  <2> DEFINE all == {0} \cup new
  <2>1. n + 1 \in all /\ \A i \in all : i \in Int /\ n + 1 >= i
    BY <1>1, <1>2
  <2> HIDE DEF new, all
  <2>2. Max(all) \in all /\ \A i \in all : Max(all) >= i
    BY <2>1 DEF Max
  <2>3. Max(all) \in Int /\ Max(all) >= n + 1 /\ n + 1 >= Max(all)
    BY <2>1, <2>2
  <2>4. Max(all) = n + 1
    BY <1>1, <2>3
  <2> QED BY <1>2, <2>4 DEF LastQuote, all, new, more, n
<1>3. CASE ~(c.kind = "quote" /\ c.side = side)
  <2>1. ASSUME NEW i PROVE i \in new <=> i \in old
    BY <1>1, <1>3
  <2>2. new = old
    <3> HIDE DEF new, old
    <3> QED BY <2>1
  <2> QED BY <1>3, <2>2 DEF LastQuote, more
<1> QED BY <1>2, <1>3 DEF n

LEMMA LastQuoteOfNone ==
  ASSUME NEW S, NEW entries \in Seq(S), Len(entries) = 0, NEW side
  PROVE  LastQuote(entries, side) = 0
<1> DEFINE all == {0} \cup {i \in DOMAIN entries : entries[i].kind = "quote" /\ entries[i].side = side}
<1>1. all = {0}
  OBVIOUS
<1> HIDE DEF all
<1>2. Max(all) = 0
  BY <1>1 DEF Max
<1> QED BY <1>2 DEF LastQuote, all

----------------------------------------------------------------------------
(* A slot and the events it stands for *)

Fields ==
  {"bid", "bidq", "ask", "askq", "bid_valid", "ask_valid", "sequence", "sequence_valid",
   "trades", "rolling_volume", "midpoints", "vwap_values", "vwap_quantities",
   "sum_value", "sum_quantity"}

(* Rings and sums are those of the trades. *)
VolumePart(st, entries) ==
  LET quantities == Quantities(Trades(entries))
      values == Values(Trades(entries)) IN
  /\ RingHolds(st.trades, TradeWindow, quantities)
  /\ RingHolds(st.vwap_quantities, VwapWindow, quantities)
  /\ RingHolds(st.vwap_values, VwapWindow, values)
  /\ st.rolling_volume = Total(LastOf(quantities, TradeWindow))
  /\ st.sum_quantity = Total(LastOf(quantities, VwapWindow))
  /\ st.sum_value = Total(LastOf(values, VwapWindow))

(* A side of the book is its last quote. *)
SidePart(valid, price, quantity, entries, side) ==
  LET q == LastQuote(entries, side) IN
  /\ q \in 0 .. Len(entries) /\ valid = (q # 0)
  /\ price \in Nat /\ quantity \in Nat
  /\ q # 0 => price = entries[q].price
BookPart(st, entries) ==
  /\ SidePart(st.bid_valid, st.bid, st.bidq, entries, "bid")
  /\ SidePart(st.ask_valid, st.ask, st.askq, entries, "ask")

(* The ring of midpoints is that of the events on valid quotes. *)
MidPart(st, entries) == RingHolds(st.midpoints, MomentumWindow, Midpoints(Moves(entries)))

Reflects(st, entries) ==
  DOMAIN st = Fields /\ VolumePart(st, entries) /\ BookPart(st, entries) /\ MidPart(st, entries)

LEMMA TradesType ==
  ASSUME NEW S, NEW entries \in Seq(S)
  PROVE  Trades(entries) \in Seq(S) /\ Moves(entries) \in Seq(S)
<1> DEFINE a == {i \in DOMAIN entries : entries[i].kind = "trade"}
           b == {i \in DOMAIN entries : entries[i].feature.midpoint_valid}
<1> HIDE DEF a, b
<1>1. Selected(entries, a) \in Seq(S) /\ Selected(entries, b) \in Seq(S)
  BY SelectedType
<1> QED BY <1>1 DEF Trades, Moves, a, b

(* What an event changes in a slot. *)
LEMMA TradeFields ==
  ASSUME NEW st, DOMAIN st = Fields, NEW e, e.kind = "trade"
  PROVE  LET new == Applied(st, e) IN
         /\ DOMAIN new = Fields
         /\ new.bid = st.bid /\ new.bidq = st.bidq /\ new.bid_valid = st.bid_valid
         /\ new.ask = st.ask /\ new.askq = st.askq /\ new.ask_valid = st.ask_valid
         /\ new.midpoints = st.midpoints
         /\ new.trades = Push(st.trades, e.quantity)
         /\ new.rolling_volume = SumAfter(st.rolling_volume, st.trades, e.quantity)
         /\ new.vwap_quantities = Push(st.vwap_quantities, e.quantity)
         /\ new.sum_quantity = SumAfter(st.sum_quantity, st.vwap_quantities, e.quantity)
         /\ new.vwap_values = Push(st.vwap_values, e.price * e.quantity)
         /\ new.sum_value = SumAfter(st.sum_value, st.vwap_values, e.price * e.quantity)
<1> DEFINE seen == [st EXCEPT !.sequence = e.sequence, !.sequence_valid = TRUE]
           traded == push_trade(seen, e.quantity)
           v == e.price * e.quantity
           new == push_vwap(traded, v, e.quantity)
           Same(x) == /\ x.bid = st.bid /\ x.bidq = st.bidq /\ x.bid_valid = st.bid_valid
                      /\ x.ask = st.ask /\ x.askq = st.askq /\ x.ask_valid = st.ask_valid
                      /\ x.midpoints = st.midpoints /\ DOMAIN x = Fields
           Windows(x) == /\ x.vwap_quantities = st.vwap_quantities
                         /\ x.sum_quantity = st.sum_quantity
                         /\ x.vwap_values = st.vwap_values /\ x.sum_value = st.sum_value
<1>1. /\ Same(seen) /\ Windows(seen)
      /\ seen.trades = st.trades /\ seen.rolling_volume = st.rolling_volume
  BY DEF Fields
<1> HIDE DEF seen
<1>2. /\ Same(traded) /\ Windows(traded)
      /\ traded.trades = Push(st.trades, e.quantity)
      /\ traded.rolling_volume = SumAfter(st.rolling_volume, st.trades, e.quantity)
  BY <1>1 DEF push_trade, Fields
<1> HIDE DEF traded, v
<1>3. /\ Same(new)
      /\ new.trades = traded.trades /\ new.rolling_volume = traded.rolling_volume
      /\ new.vwap_quantities = Push(st.vwap_quantities, e.quantity)
      /\ new.sum_quantity = SumAfter(st.sum_quantity, st.vwap_quantities, e.quantity)
      /\ new.vwap_values = Push(st.vwap_values, v)
      /\ new.sum_value = SumAfter(st.sum_value, st.vwap_values, v)
  BY <1>2 DEF push_vwap, Fields
<1>4. Applied(st, e) = new
  BY DEF Applied, new, traded, seen, v
<1> HIDE DEF new
<1> QED BY <1>2, <1>3, <1>4 DEF v

LEMMA QuoteFields ==
  ASSUME NEW st, DOMAIN st = Fields, NEW e, e.kind = "quote"
  PROVE  LET new == Applied(st, e) IN
         /\ DOMAIN new = Fields /\ new.midpoints = st.midpoints
         /\ new.trades = st.trades /\ new.rolling_volume = st.rolling_volume
         /\ new.vwap_quantities = st.vwap_quantities /\ new.sum_quantity = st.sum_quantity
         /\ new.vwap_values = st.vwap_values /\ new.sum_value = st.sum_value
<1> DEFINE seen == [st EXCEPT !.sequence = e.sequence, !.sequence_valid = TRUE]
           bid == [seen EXCEPT !.bid = e.price, !.bidq = e.quantity, !.bid_valid = TRUE]
           ask == [seen EXCEPT !.ask = e.price, !.askq = e.quantity, !.ask_valid = TRUE]
           Same(x) == /\ DOMAIN x = Fields /\ x.midpoints = st.midpoints
                      /\ x.trades = st.trades /\ x.rolling_volume = st.rolling_volume
                      /\ x.vwap_quantities = st.vwap_quantities
                      /\ x.sum_quantity = st.sum_quantity
                      /\ x.vwap_values = st.vwap_values /\ x.sum_value = st.sum_value
<1>1. Same(seen)
  BY DEF Fields
<1> HIDE DEF seen
<1>2. Same(bid) /\ Same(ask)
  BY <1>1 DEF Fields
<1>3. Applied(st, e) = IF e.side = "bid" THEN bid ELSE ask
  BY DEF Applied, bid, ask, seen
<1> HIDE DEF bid, ask
<1> QED BY <1>2, <1>3

LEMMA BidFields ==
  ASSUME NEW st, DOMAIN st = Fields, NEW e, e.kind = "quote", e.side = "bid"
  PROVE  /\ Applied(st, e).bid = e.price /\ Applied(st, e).bidq = e.quantity
         /\ Applied(st, e).bid_valid = TRUE
         /\ Applied(st, e).ask = st.ask /\ Applied(st, e).askq = st.askq
         /\ Applied(st, e).ask_valid = st.ask_valid
<1> DEFINE new == Applied(st, e)
           seen == [st EXCEPT !.sequence = e.sequence, !.sequence_valid = TRUE]
<1>1. /\ DOMAIN seen = Fields
      /\ seen.ask = st.ask /\ seen.askq = st.askq /\ seen.ask_valid = st.ask_valid
  BY DEF Fields
<1>2. new = [seen EXCEPT !.bid = e.price, !.bidq = e.quantity, !.bid_valid = TRUE]
  BY DEF Applied
<1> HIDE DEF new, seen
<1>3. /\ new.bid = e.price /\ new.bidq = e.quantity /\ new.bid_valid = TRUE
      /\ new.ask = st.ask /\ new.askq = st.askq /\ new.ask_valid = st.ask_valid
  BY <1>1, <1>2 DEF Fields
<1> QED BY <1>3 DEF new

LEMMA AskFields ==
  ASSUME NEW st, DOMAIN st = Fields, NEW e, e.kind = "quote", e.side = "ask"
  PROVE  /\ Applied(st, e).ask = e.price /\ Applied(st, e).askq = e.quantity
         /\ Applied(st, e).ask_valid = TRUE
         /\ Applied(st, e).bid = st.bid /\ Applied(st, e).bidq = st.bidq
         /\ Applied(st, e).bid_valid = st.bid_valid
<1> DEFINE new == Applied(st, e)
           seen == [st EXCEPT !.sequence = e.sequence, !.sequence_valid = TRUE]
<1>1. /\ DOMAIN seen = Fields
      /\ seen.bid = st.bid /\ seen.bidq = st.bidq /\ seen.bid_valid = st.bid_valid
  BY DEF Fields
<1>2. new = [seen EXCEPT !.ask = e.price, !.askq = e.quantity, !.ask_valid = TRUE]
  BY DEF Applied
<1> HIDE DEF new, seen
<1>3. /\ new.ask = e.price /\ new.askq = e.quantity /\ new.ask_valid = TRUE
      /\ new.bid = st.bid /\ new.bidq = st.bidq /\ new.bid_valid = st.bid_valid
  BY <1>1, <1>2 DEF Fields
<1> QED BY <1>3 DEF new

(* The volume of an event more. *)
LEMMA VolumeGrows ==
  ASSUME NEW S, AllOK(S), NEW entries \in Seq(S), NEW c \in S, c.kind \in {"quote", "trade"},
         c.side \in {"bid", "ask"}, NEW st, DOMAIN st = Fields, VolumePart(st, entries),
         NEW e, e.kind = c.kind, e.side = c.side, e.price = c.price, e.quantity = c.quantity
  PROVE  VolumePart(Applied(st, e), Append(entries, c))
<1> DEFINE new == Applied(st, e)
           more == Append(entries, c)
           trades == Trades(entries)
           quantities == Quantities(trades)
           values == Values(trades)
           v == c.price * c.quantity
<1>1. trades \in Seq(S)
  BY TradesType
<1>2. Trades(more) = IF c.kind = "trade" THEN Append(trades, c) ELSE trades
  BY TradesGrow
<1>3. CASE c.kind = "trade"
  <2>1. c.quantity \in Nat /\ v \in Nat
    BY DEF AllOK, EntryOK
  <2>2. /\ quantities \in Seq(Nat) /\ Quantities(Trades(more)) = Append(quantities, c.quantity)
    <3> HIDE DEF trades, more
    <3> QED BY <1>1, <1>2, <1>3, QuantitiesGrow
  <2>3. values \in Seq(Nat) /\ Values(Trades(more)) = Append(values, v)
    <3> HIDE DEF trades, more
    <3> QED BY <1>1, <1>2, <1>3, ValuesGrow
  <2>4. /\ new.trades = Push(st.trades, c.quantity)
        /\ new.rolling_volume = SumAfter(st.rolling_volume, st.trades, c.quantity)
        /\ new.vwap_quantities = Push(st.vwap_quantities, c.quantity)
        /\ new.sum_quantity = SumAfter(st.sum_quantity, st.vwap_quantities, c.quantity)
        /\ new.vwap_values = Push(st.vwap_values, v)
        /\ new.sum_value = SumAfter(st.sum_value, st.vwap_values, v)
    BY <1>3, TradeFields
  <2>5. /\ RingHolds(st.trades, TradeWindow, quantities)
        /\ RingHolds(st.vwap_quantities, VwapWindow, quantities)
        /\ RingHolds(st.vwap_values, VwapWindow, values)
        /\ st.rolling_volume = Total(LastOf(quantities, TradeWindow))
        /\ st.sum_quantity = Total(LastOf(quantities, VwapWindow))
        /\ st.sum_value = Total(LastOf(values, VwapWindow))
    BY DEF VolumePart
  <2> HIDE DEF new, quantities, values, more, v, trades
  <2>6. TradeWindow \in Nat \ {0} /\ VwapWindow \in Nat \ {0}
    BY MarketAssumption
  <2>7. RingHolds(new.trades, TradeWindow, Append(quantities, c.quantity))
    BY <2>1, <2>2, <2>4, <2>5, <2>6, RingPush
  <2>8. RingHolds(new.vwap_quantities, VwapWindow, Append(quantities, c.quantity))
    BY <2>1, <2>2, <2>4, <2>5, <2>6, RingPush
  <2>9. RingHolds(new.vwap_values, VwapWindow, Append(values, v))
    BY <2>1, <2>3, <2>4, <2>5, <2>6, RingPush
  <2>10. new.rolling_volume = Total(LastOf(Append(quantities, c.quantity), TradeWindow))
    BY <2>1, <2>2, <2>4, <2>5, <2>6, RingSum
  <2>11. new.sum_quantity = Total(LastOf(Append(quantities, c.quantity), VwapWindow))
    BY <2>1, <2>2, <2>4, <2>5, <2>6, RingSum
  <2>12. new.sum_value = Total(LastOf(Append(values, v), VwapWindow))
    BY <2>1, <2>3, <2>4, <2>5, <2>6, RingSum
  <2>13. VolumePart(new, more)
    BY <2>2, <2>3, <2>7, <2>8, <2>9, <2>10, <2>11, <2>12 DEF VolumePart
  <2> QED BY <2>13 DEF new, more
<1>4. CASE c.kind = "quote"
  <2>1. /\ new.trades = st.trades /\ new.rolling_volume = st.rolling_volume
        /\ new.vwap_quantities = st.vwap_quantities /\ new.sum_quantity = st.sum_quantity
        /\ new.vwap_values = st.vwap_values /\ new.sum_value = st.sum_value
    BY <1>4, QuoteFields
  <2>2. Trades(more) = trades
    BY <1>2, <1>4
  <2> HIDE DEF new, more, trades
  <2>3. VolumePart(new, more)
    BY <2>1, <2>2 DEF VolumePart, trades
  <2> QED BY <2>3 DEF new, more
<1> QED BY <1>3, <1>4

(* The book of an event more. *)
LEMMA SideGrows ==
  ASSUME NEW S, AllOK(S), NEW entries \in Seq(S), NEW c \in S, NEW side,
         NEW valid, NEW price, NEW quantity, SidePart(valid, price, quantity, entries, side)
  PROVE  IF c.kind = "quote" /\ c.side = side
         THEN SidePart(TRUE, c.price, c.quantity, Append(entries, c), side)
         ELSE SidePart(valid, price, quantity, Append(entries, c), side)
<1> DEFINE more == Append(entries, c)
           q == LastQuote(entries, side)
           new == LastQuote(more, side)
<1>1. /\ Len(entries) \in Nat /\ Len(more) = Len(entries) + 1 /\ more[Len(entries) + 1] = c
      /\ \A i \in 1 .. Len(entries) : more[i] = entries[i]
  OBVIOUS
<1>2. new = IF c.kind = "quote" /\ c.side = side THEN Len(entries) + 1 ELSE q
  BY LastQuoteGrows
<1>3. c.price \in Nat /\ c.quantity \in Nat
  BY DEF AllOK, EntryOK
<1>4. /\ q \in 0 .. Len(entries) /\ valid = (q # 0)
      /\ price \in Nat /\ quantity \in Nat
      /\ q # 0 => price = entries[q].price
  BY DEF SidePart
<1> HIDE DEF more, q, new
<1>5. CASE c.kind = "quote" /\ c.side = side
  <2>1. new = Len(entries) + 1 /\ new # 0 /\ new \in 0 .. Len(more) /\ more[new] = c
    BY <1>1, <1>2, <1>5
  <2>2. SidePart(TRUE, c.price, c.quantity, more, side)
    BY <1>3, <2>1 DEF SidePart, new
  <2> QED BY <1>5, <2>2 DEF more
<1>6. CASE ~(c.kind = "quote" /\ c.side = side)
  <2>1. new = q /\ new \in 0 .. Len(more) /\ (q # 0 => more[q] = entries[q])
    BY <1>1, <1>2, <1>4, <1>6
  <2>2. SidePart(valid, price, quantity, more, side)
    BY <1>4, <2>1 DEF SidePart, new
  <2> QED BY <1>6, <2>2 DEF more
<1> QED BY <1>5, <1>6

LEMMA BookGrows ==
  ASSUME NEW S, AllOK(S), NEW entries \in Seq(S), NEW c \in S, c.kind \in {"quote", "trade"},
         c.side \in {"bid", "ask"}, NEW st, DOMAIN st = Fields, BookPart(st, entries),
         NEW e, e.kind = c.kind, e.side = c.side, e.price = c.price, e.quantity = c.quantity
  PROVE  BookPart(Applied(st, e), Append(entries, c))
<1> DEFINE new == Applied(st, e)
           more == Append(entries, c)
<1>1. IF c.kind = "quote" /\ c.side = "bid" THEN SidePart(TRUE, c.price, c.quantity, more, "bid")
      ELSE SidePart(st.bid_valid, st.bid, st.bidq, more, "bid")
  BY SideGrows DEF BookPart
<1>2. IF c.kind = "quote" /\ c.side = "ask" THEN SidePart(TRUE, c.price, c.quantity, more, "ask")
      ELSE SidePart(st.ask_valid, st.ask, st.askq, more, "ask")
  BY SideGrows DEF BookPart
<1> HIDE DEF more
<1>3. CASE c.kind = "trade"
  <2>1. /\ new.bid = st.bid /\ new.bidq = st.bidq /\ new.bid_valid = st.bid_valid
        /\ new.ask = st.ask /\ new.askq = st.askq /\ new.ask_valid = st.ask_valid
    BY <1>3, TradeFields
  <2> HIDE DEF new
  <2>2. BookPart(new, more)
    BY <1>1, <1>2, <1>3, <2>1 DEF BookPart
  <2> QED BY <2>2 DEF new, more
<1>4. CASE c.kind = "quote" /\ c.side = "bid"
  <2>1. /\ new.bid = c.price /\ new.bidq = c.quantity /\ new.bid_valid = TRUE
        /\ new.ask = st.ask /\ new.askq = st.askq /\ new.ask_valid = st.ask_valid
    <3>1. e.kind = "quote" /\ e.side = "bid"
      BY <1>4
    <3> HIDE DEF new
    <3>2. /\ new.bid = e.price /\ new.bidq = e.quantity /\ new.bid_valid = TRUE
          /\ new.ask = st.ask /\ new.askq = st.askq /\ new.ask_valid = st.ask_valid
      BY <3>1, BidFields DEF new
    <3> QED BY <3>2
  <2> HIDE DEF new
  <2>2. BookPart(new, more)
    BY <1>1, <1>2, <1>4, <2>1 DEF BookPart
  <2> QED BY <2>2 DEF new, more
<1>5. CASE c.kind = "quote" /\ c.side = "ask"
  <2>1. /\ new.ask = c.price /\ new.askq = c.quantity /\ new.ask_valid = TRUE
        /\ new.bid = st.bid /\ new.bidq = st.bidq /\ new.bid_valid = st.bid_valid
    <3>1. e.kind = "quote" /\ e.side = "ask"
      BY <1>5
    <3> HIDE DEF new
    <3>2. /\ new.ask = e.price /\ new.askq = e.quantity /\ new.ask_valid = TRUE
          /\ new.bid = st.bid /\ new.bidq = st.bidq /\ new.bid_valid = st.bid_valid
      BY <3>1, AskFields DEF new
    <3> QED BY <3>2
  <2> HIDE DEF new
  <2>2. BookPart(new, more)
    BY <1>1, <1>2, <1>5, <2>1 DEF BookPart
  <2> QED BY <2>2 DEF new, more
<1> QED BY <1>3, <1>4, <1>5

(* Every quotient fits its field. *)
LEMMA SaturatedFits ==
  ASSUME NEW v \in Int, NEW width \in Nat \ {0}
  PROVE  Fits(saturate_signed(v, width), width)
<1> DEFINE p == PowerOfTwo(width - 1)
           high == p - 1
           low == -p
           m == Min({v, high})
           r == Max({low, m})
<1>1. p \in Nat \ {0}
  <2>1. width - 1 \in Nat
    OBVIOUS
  <2> QED BY <2>1, PowerIsPositive
<1> HIDE DEF p
<1>2. high \in Int /\ low \in Int /\ low <= high
  BY <1>1
<1> HIDE DEF high, low
<1>3. (m = v \/ m = high) /\ m <= high
  BY <1>2, MinOfTwo
<1>4. m \in Int
  BY <1>2, <1>3
<1> HIDE DEF m
<1>5. (r = low \/ r = m) /\ r >= low
  BY <1>2, <1>4, MaxOfTwo
<1> HIDE DEF r
<1>6. r \in low .. high
  BY <1>2, <1>3, <1>4, <1>5
<1>7. Fits(r, width)
  BY <1>6 DEF Fits, low, high, p
<1> QED BY <1>7 DEF saturate_signed, r, m, low, high, p

LEMMA ZeroFits == ASSUME NEW width \in Nat \ {0} PROVE Fits(0, width)
<1>1. width - 1 \in Nat
  OBVIOUS
<1>2. PowerOfTwo(width - 1) \in Nat \ {0}
  BY <1>1, PowerIsPositive
<1> QED BY <1>2 DEF Fits

LEMMA QuotientIsInt ==
  ASSUME NEW n \in Int, NEW d \in Int, d # 0 PROVE trunc_div(n, d) \in Int
<1> DEFINE a == Magnitude(n)
           b == Magnitude(d)
<1>1. a \in Nat /\ b \in Nat \ {0}
  BY DEF Magnitude
<1> HIDE DEF a, b
<1>2. a \div b \in Int
  BY <1>1
<1> QED BY <1>2 DEF trunc_div, a, b

(* What a feature says of the slot it is made from. *)
FeatureFacts(f, st, entries) ==
  LET b == LastQuote(entries, "bid")
      a == LastQuote(entries, "ask")
      book == a # 0 /\ b # 0 /\ entries[a].price >= entries[b].price IN
  /\ f.midpoint_valid = book /\ book = QuotesValid(st)
  /\ f.midpoint \in Nat
  /\ book => f.midpoint = (entries[a].price + entries[b].price) \div 2 /\ f.midpoint = Midpoint(st)
  /\ f.momentum_valid = (book /\ IsFull(st.midpoints))
  /\ f.momentum_valid => f.momentum = f.midpoint - Oldest(st.midpoints)

LEMMA FeatureIsOfBook ==
  ASSUME NEW st, NEW entries, BookPart(st, entries), NEW sym
  PROVE  FeatureFacts(Feature(st, sym), st, entries)
<1> DEFINE f == Feature(st, sym)
           b == LastQuote(entries, "bid")
           a == LastQuote(entries, "ask")
           book == a # 0 /\ b # 0 /\ entries[a].price >= entries[b].price
<1>1. /\ st.bid_valid = (b # 0) /\ st.bid \in Nat /\ (b # 0 => st.bid = entries[b].price)
      /\ st.ask_valid = (a # 0) /\ st.ask \in Nat /\ (a # 0 => st.ask = entries[a].price)
  BY DEF BookPart, SidePart
<1>2. book = QuotesValid(st)
  BY <1>1 DEF QuotesValid
<1>3. Midpoint(st) \in Nat
  <2> DEFINE x == st.bid + st.ask
  <2>1. x \in Nat
    BY <1>1
  <2> HIDE DEF x
  <2>2. x \div 2 \in Nat
    BY <2>1
  <2> QED BY <2>2 DEF Midpoint, x
<1>4. /\ f.midpoint_valid = QuotesValid(st)
      /\ f.midpoint = IF QuotesValid(st) THEN Midpoint(st) ELSE 0
      /\ f.momentum_valid = (QuotesValid(st) /\ IsFull(st.midpoints))
      /\ f.momentum_valid => f.momentum = Midpoint(st) - Oldest(st.midpoints)
  BY DEF Feature
<1> HIDE DEF f
<1>5. book => Midpoint(st) = (entries[a].price + entries[b].price) \div 2
  BY <1>1 DEF Midpoint
<1> HIDE DEF a, b
<1>6. /\ f.midpoint \in Nat /\ f.midpoint_valid = book
      /\ book => f.midpoint = Midpoint(st)
      /\ f.momentum_valid = (book /\ IsFull(st.midpoints))
      /\ f.momentum_valid => f.momentum = f.midpoint - Oldest(st.midpoints)
  <2> HIDE DEF book
  <2>1. f.midpoint_valid = book
    BY <1>2, <1>4, Zenon
  <2>2. f.momentum_valid = (book /\ IsFull(st.midpoints))
    BY <1>2, <1>4, Zenon
  <2>3. CASE book
    <3>1. QuotesValid(st)
      BY <1>2, <2>3, Zenon
    <3>2. f.midpoint = Midpoint(st)
      BY <1>4, <3>1
    <3> QED BY <1>3, <1>4, <2>1, <2>2, <3>2, Zenon
  <2>4. CASE ~book
    <3>1. ~QuotesValid(st)
      BY <1>2, <2>4, Zenon
    <3>2. f.midpoint = 0 /\ 0 \in Nat
      BY <1>4, <3>1
    <3>3. ~f.momentum_valid
      BY <2>2, <2>4
    <3> QED BY <2>1, <2>2, <2>4, <3>2, <3>3, Zenon
  <2> QED BY <2>3, <2>4
<1>7. book => f.midpoint = (entries[a].price + entries[b].price) \div 2
  BY <1>5, <1>6
<1> HIDE DEF book
<1>8. FeatureFacts(f, st, entries)
  BY <1>2, <1>6, <1>7 DEF FeatureFacts, book, a, b
<1> QED BY <1>8 DEF f

(* The numbers a feature is computed from. *)
SlotNumbers(st) ==
  /\ st.bid \in Nat /\ st.ask \in Nat /\ st.bidq \in Nat /\ st.askq \in Nat
  /\ st.sum_value \in Nat /\ st.sum_quantity \in Nat /\ Oldest(st.midpoints) \in Nat
  /\ st.rolling_volume \in Nat

LEMMA BpsFits ==
  ASSUME NEW n \in Int, NEW d \in Int, d # 0
  PROVE  Fits(saturate_signed(trunc_div(n * BpsScale, d), BpsWidth), BpsWidth)
<1>1. BpsScale \in Int /\ BpsWidth \in Nat \ {0}
  BY MarketAssumption
<1> DEFINE m == n * BpsScale
           v == trunc_div(m, d)
<1>2. m \in Int
  BY <1>1
<1> HIDE DEF m
<1>3. v \in Int
  BY <1>2, QuotientIsInt
<1> HIDE DEF v
<1>4. Fits(saturate_signed(v, BpsWidth), BpsWidth)
  BY <1>1, <1>3, SaturatedFits
<1> QED BY <1>4 DEF v, m

LEMMA ImbalanceFits ==
  ASSUME NEW n \in Int, NEW d \in Int, d # 0
  PROVE  Fits(saturate_signed(trunc_div(n * PowerOfTwo(ImbalanceFracBits), d), ImbalanceWidth),
              ImbalanceWidth)
<1> DEFINE p == PowerOfTwo(ImbalanceFracBits)
           m == n * p
           v == trunc_div(m, d)
<1>1. p \in Int /\ ImbalanceWidth \in Nat \ {0}
  <2>1. ImbalanceFracBits \in Nat /\ ImbalanceWidth \in Nat \ {0}
    BY MarketAssumption
  <2> QED BY <2>1, PowerIsPositive
<1> HIDE DEF p
<1>2. m \in Int
  BY <1>1
<1> HIDE DEF m
<1>3. v \in Int
  BY <1>2, QuotientIsInt
<1> HIDE DEF v
<1>4. Fits(saturate_signed(v, ImbalanceWidth), ImbalanceWidth)
  BY <1>1, <1>3, SaturatedFits
<1> QED BY <1>4 DEF v, m, p

LEMMA FeatureFits ==
  ASSUME NEW st, SlotNumbers(st), NEW sym \in Symbols PROVE FeatureOK(Feature(st, sym))
<1> DEFINE f == Feature(st, sym)
           quoted == QuotesValid(st)
           midpoint == Midpoint(st)
           reference == Oldest(st.midpoints)
           depth == st.bidq + st.askq
           vwap == IF st.sum_quantity # 0 THEN st.sum_value \div st.sum_quantity ELSE 0
           spread == saturate_signed(trunc_div((st.ask - st.bid) * BpsScale, midpoint), BpsWidth)
           momentum ==
             saturate_signed(trunc_div((midpoint - reference) * BpsScale, reference), BpsWidth)
           delta == saturate_signed(trunc_div((midpoint - vwap) * BpsScale, vwap), BpsWidth)
           imbalance == saturate_signed(
             trunc_div((st.bidq - st.askq) * PowerOfTwo(ImbalanceFracBits), depth), ImbalanceWidth)
<1>1. /\ f.sym = sym /\ f.bid = st.bid /\ f.ask = st.ask
      /\ f.value.spread = IF quoted /\ midpoint # 0 THEN spread ELSE 0
      /\ f.value.momentum =
           IF (quoted /\ IsFull(st.midpoints)) /\ reference # 0 THEN momentum ELSE 0
      /\ f.value.imbalance = IF quoted /\ depth # 0 THEN imbalance ELSE 0
      /\ f.value.vwap_delta =
           IF quoted /\ st.sum_quantity # 0 /\ vwap # 0 THEN delta ELSE 0
      /\ f.value.volume = st.rolling_volume /\ f.value.vwap = vwap
  BY DEF Feature
<1> HIDE DEF f
<1>2. /\ st.bid \in Nat /\ st.ask \in Nat /\ st.bidq \in Nat /\ st.askq \in Nat
      /\ st.sum_value \in Nat /\ st.sum_quantity \in Nat /\ reference \in Nat
      /\ st.rolling_volume \in Nat
  BY DEF SlotNumbers
<1>3. midpoint \in Int
  <2> DEFINE x == st.bid + st.ask
  <2>1. x \in Int
    BY <1>2
  <2> HIDE DEF x
  <2>2. x \div 2 \in Int
    BY <2>1
  <2> QED BY <2>2 DEF Midpoint, x
<1>4. vwap \in Nat
  <2>1. CASE st.sum_quantity # 0
    <3>1. st.sum_quantity \in Nat \ {0}
      BY <1>2, <2>1
    <3>2. st.sum_value \div st.sum_quantity \in Nat
      BY <1>2, <3>1
    <3> QED BY <2>1, <3>2
  <2> QED BY <2>1
<1> HIDE DEF midpoint, reference, vwap
<1>5. /\ st.ask - st.bid \in Int /\ midpoint - reference \in Int /\ midpoint - vwap \in Int
      /\ st.bidq - st.askq \in Int /\ depth \in Int /\ reference \in Int
  BY <1>2, <1>3, <1>4
<1> HIDE DEF depth
<1>6. midpoint # 0 => Fits(spread, BpsWidth)
  BY <1>3, <1>5, BpsFits
<1>7. reference # 0 => Fits(momentum, BpsWidth)
  BY <1>5, BpsFits
<1>8. vwap # 0 => Fits(delta, BpsWidth)
  BY <1>4, <1>5, BpsFits
<1>9. depth # 0 => Fits(imbalance, ImbalanceWidth)
  BY <1>5, ImbalanceFits
<1>10. Fits(0, BpsWidth) /\ Fits(0, ImbalanceWidth)
  <2>1. BpsWidth \in Nat \ {0} /\ ImbalanceWidth \in Nat \ {0}
    BY MarketAssumption
  <2> QED BY <2>1, ZeroFits
<1> HIDE DEF spread, momentum, delta, imbalance, quoted
<1>11. /\ Fits(f.value.spread, BpsWidth) /\ Fits(f.value.momentum, BpsWidth)
       /\ Fits(f.value.vwap_delta, BpsWidth) /\ Fits(f.value.imbalance, ImbalanceWidth)
  BY <1>1, <1>6, <1>7, <1>8, <1>9, <1>10
<1>12. FeatureOK(f)
  BY <1>1, <1>2, <1>4, <1>11 DEF FeatureOK
<1> QED BY <1>12 DEF f

(* What is said of the momentum of a list's last event. *)
MomentumMatches(entries) ==
  LET f == Last(entries).feature
      b == LastQuote(entries, "bid")
      a == LastQuote(entries, "ask")
      book == a # 0 /\ b # 0 /\ entries[a].price >= entries[b].price
      moves == Moves(entries)
      n == Len(moves) IN
  entries # <<>> =>
    /\ f.midpoint_valid = book
    /\ book => f.midpoint = (entries[a].price + entries[b].price) \div 2
    /\ f.momentum_valid = (book /\ n > MomentumWindow)
    /\ f.momentum_valid => f.momentum = f.midpoint - moves[n - MomentumWindow].feature.midpoint

(* An event more, with the feature of its slot: the window measures from the right midpoint, *)
(* and takes the new one.                                                                    *)
LEMMA MomentumGrows ==
  ASSUME NEW S, AllOK(S), NEW entries \in Seq(S), NEW c \in S, NEW st, DOMAIN st = Fields,
         BookPart(st, Append(entries, c)), MidPart(st, entries),
         NEW sym, c.feature = Feature(st, sym)
  PROVE  /\ MomentumMatches(Append(entries, c))
         /\ MidPart(WithMidpoint(st), Append(entries, c))
         /\ Oldest(st.midpoints) \in Nat
<1> DEFINE more == Append(entries, c)
           f == c.feature
           b == LastQuote(more, "bid")
           a == LastQuote(more, "ask")
           book == a # 0 /\ b # 0 /\ more[a].price >= more[b].price
           moves == Moves(entries)
           moves2 == Moves(more)
           mids == Midpoints(moves)
           n == Len(moves)
           size == MomentumWindow
<1>1. FeatureFacts(f, st, more)
  BY FeatureIsOfBook
<1>2. Last(more) = c /\ more # <<>>
  BY LastOfAppend
<1>3. moves2 = IF f.midpoint_valid THEN Append(moves, c) ELSE moves
  BY MovesGrow
<1>4. moves \in Seq(S)
  BY TradesType
<1>5. n \in Nat /\ size \in Nat \ {0}
  BY <1>4, MarketAssumption
<1>6. RingHolds(st.midpoints, size, mids)
  BY DEF MidPart
<1> HIDE DEF more, moves, size
<1>7. /\ mids \in Seq(Nat) /\ Len(mids) = n
      /\ \A i \in 1 .. n : mids[i] = moves[i].feature.midpoint
      /\ Midpoints(Append(moves, c)) = Append(mids, f.midpoint)
  BY <1>4, MidpointsGrow
<1> HIDE DEF mids, moves2
<1>8. IsFull(st.midpoints) = (n >= size)
  BY <1>5, <1>6, <1>7, RingSize
<1>9. n >= size => Oldest(st.midpoints) = mids[(n - size) + 1]
  BY <1>5, <1>6, <1>7, RingOldest
<1>10. Oldest(st.midpoints) \in Nat
  BY <1>5, <1>6 DEF RingHolds, Oldest
<1>11. /\ f.midpoint_valid = book /\ book = QuotesValid(st) /\ f.midpoint \in Nat
       /\ book => f.midpoint = (more[a].price + more[b].price) \div 2 /\ f.midpoint = Midpoint(st)
       /\ f.momentum_valid = (book /\ IsFull(st.midpoints))
       /\ f.momentum_valid => f.momentum = f.midpoint - Oldest(st.midpoints)
  BY <1>1 DEF FeatureFacts
<1> HIDE DEF n, a, b, book
<1>12. CASE book
  <2>1. moves2 = Append(moves, c) /\ QuotesValid(st) /\ f.midpoint = Midpoint(st)
    BY <1>3, <1>11, <1>12
  <2>2. /\ Len(moves2) = n + 1 /\ moves2[n + 1] = c /\ \A i \in 1 .. n : moves2[i] = moves[i]
    BY <1>4, <2>1 DEF n
  <2>3. f.momentum_valid = (n + 1 > size)
    <3>1. (n >= size) = (n + 1 > size)
      BY <1>5
    <3>2. IsFull(st.midpoints) = (n + 1 > size)
      BY <1>8, <3>1, Zenon
    <3>3. (book /\ IsFull(st.midpoints)) <=> (n + 1 > size)
      BY <1>12, <3>2
    <3>4. f.momentum_valid = (book /\ IsFull(st.midpoints))
      BY <1>11
    <3> QED BY <3>3, <3>4
  <2>4. f.momentum_valid => f.momentum = f.midpoint - moves2[(n + 1) - size].feature.midpoint
    <3> SUFFICES ASSUME f.momentum_valid
                 PROVE  f.momentum = f.midpoint - moves2[(n + 1) - size].feature.midpoint
      OBVIOUS
    <3>0. n + 1 > size
      BY <2>3, Zenon
    <3>1. n >= size /\ (n - size) + 1 \in 1 .. n /\ (n + 1) - size = (n - size) + 1
      BY <1>5, <3>0
    <3>2. Oldest(st.midpoints) = moves[(n - size) + 1].feature.midpoint
      BY <1>7, <1>9, <3>1
    <3>3. moves2[(n + 1) - size] = moves[(n - size) + 1]
      BY <2>2, <3>1
    <3>4. f.momentum = f.midpoint - Oldest(st.midpoints)
      BY <1>11
    <3> QED BY <3>2, <3>3, <3>4
  <2>5. MomentumMatches(more)
    <3>1. f.midpoint_valid = book /\ f.midpoint = (more[a].price + more[b].price) \div 2
      BY <1>11, <1>12
    <3>2. f.momentum_valid = (book /\ Len(moves2) > size)
      BY <1>12, <2>2, <2>3
    <3>3. f.momentum_valid => f.momentum = f.midpoint - moves2[Len(moves2) - size].feature.midpoint
      BY <2>2, <2>4
    <3> QED BY <1>2, <3>1, <3>2, <3>3 DEF MomentumMatches, book, a, b, moves2, size
  <2>6. RingHolds(Push(st.midpoints, f.midpoint), size, Append(mids, f.midpoint))
    BY <1>5, <1>6, <1>7, <1>11, RingPush
  <2>7. WithMidpoint(st).midpoints = Push(st.midpoints, f.midpoint)
    BY <2>1 DEF WithMidpoint, Fields
  <2>8. MidPart(WithMidpoint(st), more)
    BY <1>7, <2>1, <2>6, <2>7 DEF MidPart, moves2, size
  <2> QED BY <1>10, <2>5, <2>8 DEF more
<1>13. CASE ~book
  <2>1. moves2 = moves /\ ~QuotesValid(st) /\ f.midpoint_valid = FALSE /\ f.momentum_valid = FALSE
    <3>1. ~f.midpoint_valid /\ ~QuotesValid(st) /\ ~f.momentum_valid
      BY <1>11, <1>13, Zenon
    <3>2. moves2 = moves
      BY <1>3, <3>1
    <3>3. f.midpoint_valid \in BOOLEAN
      <4>1. f.midpoint_valid = book
        BY <1>11
      <4> QED BY <4>1 DEF book
    <3>4. f.momentum_valid \in BOOLEAN
      <4>1. f.momentum_valid = (book /\ IsFull(st.midpoints))
        BY <1>11
      <4> QED BY <4>1
    <3> QED BY <3>1, <3>2, <3>3, <3>4
  <2>2. MomentumMatches(more)
    <3>1. f.midpoint_valid = book /\ f.momentum_valid = (book /\ Len(moves2) > size)
      BY <1>11, <1>13, <2>1, Zenon
    <3> QED BY <1>2, <1>13, <2>1, <3>1 DEF MomentumMatches, book, a, b, moves2, size
  <2>3. MidPart(WithMidpoint(st), more)
    BY <1>6, <2>1 DEF MidPart, WithMidpoint, moves2, moves, mids, size
  <2> QED BY <1>10, <2>2, <2>3 DEF more
<1> QED BY <1>12, <1>13

(* The midpoint of an applied event is a natural number. *)
LEMMA AppliedMidpoint ==
  ASSUME NEW st, DOMAIN st = Fields, NEW entries, BookPart(st, entries),
         NEW e, e.kind \in {"quote", "trade"}, e.side \in {"bid", "ask"}, e.price \in Nat, NEW sym
  PROVE  Feature(Applied(st, e), sym).midpoint \in Nat
<1> DEFINE new == Applied(st, e)
           x == new.bid + new.ask
<1>1. st.bid \in Nat /\ st.ask \in Nat
  BY DEF BookPart, SidePart
<1>2. new.bid \in Nat /\ new.ask \in Nat
  <2>1. CASE e.kind = "trade"
    <3>1. new.bid = st.bid /\ new.ask = st.ask
      BY <2>1, TradeFields
    <3> QED BY <1>1, <3>1
  <2>2. CASE e.kind = "quote"
    <3> HIDE DEF new
    <3>1. CASE e.side = "bid"
      <4>1. e.kind = "quote" /\ e.side = "bid"
        BY <2>2, <3>1
      <4>2. new.bid = e.price /\ new.ask = st.ask
        BY <4>1, BidFields DEF new
      <4> QED BY <1>1, <4>2
    <3>2. CASE e.side = "ask"
      <4>1. e.kind = "quote" /\ e.side = "ask"
        BY <2>2, <3>2
      <4>2. new.ask = e.price /\ new.bid = st.bid
        BY <4>1, AskFields DEF new
      <4> QED BY <1>1, <4>2
    <3> QED BY <3>1, <3>2
  <2> QED BY <2>1, <2>2
<1> HIDE DEF new
<1>3. x \in Nat
  BY <1>2
<1> HIDE DEF x
<1>4. x \div 2 \in Nat
  BY <1>3
<1>5. Feature(new, sym).midpoint = IF QuotesValid(new) THEN Midpoint(new) ELSE 0
  BY DEF Feature
<1>6. Midpoint(new) \in Nat
  BY <1>4 DEF Midpoint, x
<1>7. Feature(new, sym).midpoint \in Nat
  BY <1>5, <1>6
<1> QED BY <1>7 DEF new

(* An event more: its slot reflects it, its feature fits and measures from the window. *)
LEMMA SlotGrows ==
  ASSUME NEW S, AllOK(S), NEW entries \in Seq(S), NEW c \in S, c.kind \in {"quote", "trade"},
         c.side \in {"bid", "ask"}, NEW st, Reflects(st, entries),
         NEW e, e.kind = c.kind, e.side = c.side, e.price = c.price, e.quantity = c.quantity,
         NEW sym \in Symbols, c.feature = Feature(Applied(st, e), sym)
  PROVE  /\ Reflects(WithMidpoint(Applied(st, e)), Append(entries, c))
         /\ MomentumMatches(Append(entries, c))
         /\ FeatureOK(c.feature)
<1> DEFINE new == Applied(st, e)
           more == Append(entries, c)
           after == WithMidpoint(new)
<1>1. DOMAIN st = Fields /\ VolumePart(st, entries) /\ BookPart(st, entries) /\ MidPart(st, entries)
  BY DEF Reflects
<1>2. VolumePart(new, more)
  BY <1>1, VolumeGrows
<1>3. BookPart(new, more)
  BY <1>1, BookGrows
<1>4. DOMAIN new = Fields /\ new.midpoints = st.midpoints
  <2>1. CASE c.kind = "trade"
    BY <1>1, <2>1, TradeFields
  <2>2. CASE c.kind = "quote"
    <3>1. e.kind = "quote"
      BY <2>2
    <3> QED BY <1>1, <3>1, QuoteFields
  <2> QED BY <2>1, <2>2
<1>5. MidPart(new, entries)
  BY <1>1, <1>4 DEF MidPart
<1>6. more \in Seq(S)
  OBVIOUS
<1> HIDE DEF new
<1>7. MomentumMatches(more) /\ MidPart(after, more) /\ Oldest(new.midpoints) \in Nat
  BY <1>3, <1>4, <1>5, MomentumGrows DEF new
<1> HIDE DEF more
<1>8. SlotNumbers(new)
  <2> DEFINE trades == Trades(more)
             a == LastOf(Quantities(trades), VwapWindow)
             b == LastOf(Values(trades), VwapWindow)
             v == LastOf(Quantities(trades), TradeWindow)
  <2>1. trades \in Seq(S)
    BY <1>6, TradesType
  <2> HIDE DEF trades
  <2>2. Quantities(trades) \in Seq(Nat) /\ Values(trades) \in Seq(Nat)
    BY <2>1, QuantitiesGrow, ValuesGrow
  <2>3. VwapWindow \in Nat \ {0} /\ TradeWindow \in Nat \ {0}
    BY MarketAssumption
  <2>4. a \in Seq(Nat) /\ b \in Seq(Nat) /\ v \in Seq(Nat)
    BY <2>2, <2>3, LastOfValue
  <2> HIDE DEF a, b, v
  <2>5. Total(a) \in Nat /\ Total(b) \in Nat /\ Total(v) \in Nat
    BY <2>4, TotalType
  <2>6. new.sum_quantity = Total(a) /\ new.sum_value = Total(b) /\ new.rolling_volume = Total(v)
    BY <1>2 DEF VolumePart, a, b, v, trades
  <2>7. new.bid \in Nat /\ new.ask \in Nat /\ new.bidq \in Nat /\ new.askq \in Nat
    BY <1>3 DEF BookPart, SidePart
  <2> QED BY <1>7, <2>5, <2>6, <2>7 DEF SlotNumbers
<1>9. FeatureOK(c.feature)
  BY <1>8, FeatureFits DEF new
<1>10. Reflects(after, more)
  <2>1. CASE QuotesValid(new)
    <3> DEFINE mids == Push(new.midpoints, Midpoint(new))
    <3>1. after = [new EXCEPT !.midpoints = mids]
      BY <2>1 DEF WithMidpoint
    <3> HIDE DEF mids, after
    <3>2. /\ DOMAIN after = Fields
          /\ after.bid = new.bid /\ after.bidq = new.bidq /\ after.bid_valid = new.bid_valid
          /\ after.ask = new.ask /\ after.askq = new.askq /\ after.ask_valid = new.ask_valid
          /\ after.trades = new.trades /\ after.rolling_volume = new.rolling_volume
          /\ after.vwap_quantities = new.vwap_quantities /\ after.sum_quantity = new.sum_quantity
          /\ after.vwap_values = new.vwap_values /\ after.sum_value = new.sum_value
      BY <1>4, <3>1 DEF Fields
    <3>3. VolumePart(after, more)
      BY <1>2, <3>2 DEF VolumePart
    <3>4. BookPart(after, more)
      BY <1>3, <3>2 DEF BookPart
    <3> QED BY <1>7, <3>2, <3>3, <3>4 DEF Reflects, after
  <2>2. CASE ~QuotesValid(new)
    <3>1. after = new
      BY <2>2 DEF WithMidpoint
    <3> HIDE DEF after
    <3> QED BY <1>2, <1>3, <1>4, <1>7, <3>1 DEF Reflects, after
  <2> QED BY <2>1, <2>2
<1> QED BY <1>7, <1>9, <1>10 DEF new, more

(* A slot after a reset reflects no event. *)
LEMMA EmptyReflects ==
  ASSUME NEW S, AllOK(S), NEW entries \in Seq(S), Len(entries) = 0
  PROVE  Reflects(EmptyState, entries) /\ MomentumMatches(entries)
<1> DEFINE trades == Trades(entries)
           moves == Moves(entries)
<1>1. trades = <<>> /\ moves = <<>>
  <2> DEFINE a == {i \in DOMAIN entries : entries[i].kind = "trade"}
             b == {i \in DOMAIN entries : entries[i].feature.midpoint_valid}
  <2> HIDE DEF a, b
  <2>1. Selected(entries, a) = <<>> /\ Selected(entries, b) = <<>>
    BY SelectedOfNone
  <2> QED BY <2>1 DEF Trades, Moves, a, b
<1>2. <<>> \in Seq(Nat) /\ Len(<<>>) = 0
  OBVIOUS
<1>3. Quantities(trades) = <<>> /\ Values(trades) = <<>> /\ Midpoints(moves) = <<>>
  BY <1>1 DEF Quantities, Values, Midpoints
<1> DEFINE none == <<>>
<1> HIDE DEF none, trades, moves
<1>4. TradeWindow \in Nat \ {0} /\ VwapWindow \in Nat \ {0} /\ MomentumWindow \in Nat \ {0}
  BY MarketAssumption
<1>5. none \in Seq(Nat) /\ Len(none) = 0
  BY <1>2 DEF none
<1>6. /\ RingHolds(Ring(TradeWindow), TradeWindow, none)
      /\ RingHolds(Ring(VwapWindow), VwapWindow, none)
      /\ RingHolds(Ring(MomentumWindow), MomentumWindow, none)
      /\ Total(LastOf(none, TradeWindow)) = 0 /\ Total(LastOf(none, VwapWindow)) = 0
  BY <1>4, <1>5, RingFresh
<1>7. VolumePart(EmptyState, entries)
  BY <1>3, <1>6 DEF VolumePart, EmptyState, none, trades
<1>8. MidPart(EmptyState, entries)
  BY <1>3, <1>6 DEF MidPart, EmptyState, none, moves
<1>9. BookPart(EmptyState, entries)
  <2>1. LastQuote(entries, "bid") = 0 /\ LastQuote(entries, "ask") = 0
    BY LastQuoteOfNone
  <2>2. /\ EmptyState.bid_valid = FALSE /\ EmptyState.bid = 0 /\ EmptyState.bidq = 0
        /\ EmptyState.ask_valid = FALSE /\ EmptyState.ask = 0 /\ EmptyState.askq = 0
    BY DEF EmptyState
  <2>3. SidePart(FALSE, 0, 0, entries, "bid") /\ SidePart(FALSE, 0, 0, entries, "ask")
    BY <2>1 DEF SidePart
  <2> QED BY <2>2, <2>3 DEF BookPart
<1>10. DOMAIN EmptyState = Fields
  BY DEF EmptyState, Fields
<1>11. MomentumMatches(entries)
  BY DEF MomentumMatches
<1> QED BY <1>7, <1>8, <1>9, <1>10, <1>11 DEF Reflects

----------------------------------------------------------------------------
(* The windows of the running replay *)

Recent == SubSeq(log, epoch + 1, Len(log))
RecentAt(d) == IF Resets(d) THEN <<>> ELSE Recent

LogInv == \E S : log \in Seq(S) /\ AllOK(S)

(* Every slot reflects what was accepted of its symbol since the reset. *)
WindowInv ==
  /\ input_events \in Nat
  /\ LogInv /\ epoch \in 0 .. Len(log) /\ DOMAIN market = Symbols
  /\ \A s \in Symbols : Reflects(market[s], Since(s)) /\ MomentumMatches(Since(s))

LEMMA SubSeqGrows ==
  ASSUME NEW S, NEW seq \in Seq(S), NEW c \in S, NEW k \in 1 .. Len(seq) + 1
  PROVE  /\ SubSeq(seq, k, Len(seq)) \in Seq(S)
         /\ SubSeq(Append(seq, c), k, Len(seq) + 1) = Append(SubSeq(seq, k, Len(seq)), c)
<1> DEFINE more == Append(seq, c)
           m == Len(seq)
           old == SubSeq(seq, k, m)
           new == SubSeq(more, k, m + 1)
           y == Append(old, c)
<1>1. /\ m \in Nat /\ more \in Seq(S) /\ Len(more) = m + 1 /\ more[m + 1] = c
      /\ \A i \in 1 .. m : more[i] = seq[i]
  OBVIOUS
<1>2. old \in Seq(S) /\ Len(old) = (m - k) + 1 /\ \A i \in 1 .. (m - k) + 1 : old[i] = seq[(k + i) - 1]
  BY <1>1
<1> HIDE DEF more
<1>3. /\ new \in Seq(S) /\ Len(new) = ((m + 1) - k) + 1
      /\ \A i \in 1 .. ((m + 1) - k) + 1 : new[i] = more[(k + i) - 1]
  BY <1>1
<1> HIDE DEF old, new, m
<1>4. y \in Seq(S) /\ Len(y) = Len(old) + 1 /\ y[Len(old) + 1] = c
      /\ \A i \in 1 .. Len(old) : y[i] = old[i]
  BY <1>2
<1> HIDE DEF y
<1>5. Len(new) = Len(y) /\ k \in Nat
  BY <1>1, <1>2, <1>3, <1>4 DEF m
<1>6. ASSUME NEW i \in 1 .. Len(new) PROVE new[i] = y[i]
  <2>1. new[i] = more[(k + i) - 1]
    BY <1>3
  <2>2. CASE i = Len(old) + 1
    <3>1. (k + i) - 1 = m + 1
      BY <1>1, <1>2, <1>5, <2>2
    <3> QED BY <1>1, <1>4, <2>1, <2>2, <3>1
  <2>3. CASE i # Len(old) + 1
    <3>1. i \in 1 .. Len(old) /\ (k + i) - 1 \in 1 .. m
      BY <1>1, <1>2, <1>4, <1>5, <2>3 DEF m
    <3> QED BY <1>1, <1>2, <1>4, <2>1, <3>1
  <2> QED BY <2>2, <2>3
<1>7. new = y
  BY <1>3, <1>4, <1>5, <1>6, SameList
<1> QED BY <1>2, <1>7 DEF old, new, more, m, y

LEMMA SubSeqOfNone ==
  ASSUME NEW S, NEW seq \in Seq(S) PROVE SubSeq(seq, Len(seq) + 1, Len(seq)) = <<>>
<1> DEFINE x == SubSeq(seq, Len(seq) + 1, Len(seq))
<1>1. x \in Seq(S) /\ Len(x) = 0
  OBVIOUS
<1> HIDE DEF x
<1> QED BY <1>1 DEF x

(* What a step does to the recent events. *)
LEMMA RecentType ==
  ASSUME WindowInv, NEW S, log \in Seq(S), NEW d PROVE RecentAt(d) \in Seq(S)
<1>1. epoch \in 0 .. Len(log)
  BY DEF WindowInv
<1>2. Recent \in Seq(S)
  BY <1>1 DEF Recent
<1>3. <<>> \in Seq(S)
  OBVIOUS
<1> QED BY <1>2, <1>3 DEF RecentAt

LEMMA RecentStays ==
  ASSUME WindowInv, NEW e, NEW t, NEW d, Arrives(e, t, d), log' = log
  PROVE  Recent' = RecentAt(d) /\ epoch' \in 0 .. Len(log')
<1>1. PICK S : log \in Seq(S)
  BY DEF WindowInv, LogInv
<1>2. epoch' = (IF Resets(d) THEN Len(log) ELSE epoch) /\ epoch \in 0 .. Len(log)
  BY DEF Arrives, WindowInv
<1>3. Recent' = SubSeq(log, epoch' + 1, Len(log))
  BY DEF Recent
<1>4. Recent' = RecentAt(d)
  <2>1. CASE Resets(d)
    BY <1>1, <1>2, <1>3, <2>1, SubSeqOfNone DEF RecentAt
  <2>2. CASE ~Resets(d)
    BY <1>2, <1>3, <2>2 DEF RecentAt, Recent
  <2> QED BY <2>1, <2>2
<1>5. Len(log) \in Nat
  BY <1>1
<1> QED BY <1>2, <1>4, <1>5

LEMMA RecentGrows ==
  ASSUME WindowInv, NEW e, NEW t, NEW d, Arrives(e, t, d),
         NEW S, log \in Seq(S), NEW c \in S, log' = Append(log, c)
  PROVE  Recent' = Append(RecentAt(d), c) /\ epoch' \in 0 .. Len(log')
<1> DEFINE n == Len(log)
           more == Append(log, c)
<1>1. epoch' = (IF Resets(d) THEN n ELSE epoch) /\ epoch \in 0 .. n
  BY DEF Arrives, WindowInv
<1>2. n \in Nat /\ Len(more) = n + 1
  OBVIOUS
<1>3. Recent' = SubSeq(more, epoch' + 1, n + 1)
  BY <1>2 DEF Recent
<1>4. Recent' = Append(RecentAt(d), c)
  <2>1. CASE Resets(d)
    <3> DEFINE k == n + 1
    <3>1. k \in 1 .. n + 1
      BY <1>2
    <3> HIDE DEF k
    <3>2. SubSeq(more, k, n + 1) = Append(SubSeq(log, k, n), c)
      BY <3>1, SubSeqGrows
    <3>3. SubSeq(log, k, n) = <<>>
      BY SubSeqOfNone DEF k
    <3> QED BY <1>1, <1>3, <2>1, <3>2, <3>3 DEF RecentAt, k
  <2>2. CASE ~Resets(d)
    <3> DEFINE k == epoch + 1
    <3>1. k \in 1 .. n + 1
      BY <1>1, <1>2
    <3> HIDE DEF k
    <3>2. SubSeq(more, k, n + 1) = Append(SubSeq(log, k, n), c)
      BY <3>1, SubSeqGrows
    <3> QED BY <1>1, <1>3, <2>2, <3>2 DEF RecentAt, Recent, k
  <2> QED BY <2>1, <2>2
<1>5. epoch' \in 0 .. Len(log')
  BY <1>1, <1>2
<1> QED BY <1>4, <1>5

(* The slots as the event finds them, after a reset too. *)
LEMMA SlotsAt ==
  ASSUME WindowInv, NEW d, NEW s \in Symbols
  PROVE  /\ DOMAIN MarketAt(d) = Symbols
         /\ Reflects(MarketAt(d)[s], OfSymbol(RecentAt(d), s))
         /\ MomentumMatches(OfSymbol(RecentAt(d), s))
<1>1. PICK S : log \in Seq(S) /\ AllOK(S)
  BY DEF WindowInv, LogInv
<1>2. CASE Resets(d)
  <2> DEFINE none == <<>>
  <2>1. none \in Seq(S) /\ Len(none) = 0
    OBVIOUS
  <2> HIDE DEF none
  <2>2. OfSymbol(none, s) = <<>>
    <3> DEFINE a == {i \in DOMAIN none : none[i].sym = s}
    <3> HIDE DEF a
    <3>1. Selected(none, a) = <<>>
      BY <2>1, SelectedOfNone
    <3> QED BY <3>1 DEF OfSymbol, a
  <2>3. Reflects(EmptyState, none) /\ MomentumMatches(none)
    BY <1>1, <2>1, EmptyReflects
  <2>4. MarketAt(d) = reset_market /\ RecentAt(d) = none
    BY <1>2 DEF MarketAt, RecentAt, none
  <2>5. DOMAIN reset_market = Symbols /\ reset_market[s] = EmptyState
    BY DEF reset_market
  <2>6. OfSymbol(none, s) = none
    BY <2>2 DEF none
  <2> QED BY <2>3, <2>4, <2>5, <2>6
<1>3. CASE ~Resets(d)
  <2>1. MarketAt(d) = market /\ RecentAt(d) = Recent
    BY <1>3 DEF MarketAt, RecentAt
  <2> QED BY <2>1 DEF WindowInv, Since, Recent
<1> QED BY <1>2, <1>3

LEMMA OfSymbolType ==
  ASSUME NEW S, NEW entries \in Seq(S), NEW s PROVE OfSymbol(entries, s) \in Seq(S)
<1> DEFINE a == {i \in DOMAIN entries : entries[i].sym = s}
<1> HIDE DEF a
<1>1. Selected(entries, a) \in Seq(S)
  BY SelectedType
<1> QED BY <1>1 DEF OfSymbol, a

(* The event that arrives. *)
LEMMA OfferedEvent ==
  ASSUME WindowInv, NEW e \in Offered(input_events + 1), NEW t, NEW d, Arrives(e, t, d)
  PROVE  e.price \in Nat /\ e.quantity \in Nat /\ e.wait \in Nat /\ e.days \in Nat
<1>1. input_events + 1 \in 1 .. MaxEvents
  BY PathAssumption DEF WindowInv, Arrives
<1> QED BY <1>1, PathAssumption

(* What is logged of an accepted event. *)
Logged(c) ==
  log' = Append(log, c) /\ FeatureOK(c.feature) /\ c.action \in {NONE, LONG, SHORT}

(* An accepted event is reflected in its symbol's slot and in no other. *)
LEMMA AcceptedWindow ==
  ASSUME WindowInv, NEW e \in Offered(input_events + 1), NEW t, NEW d, AcceptedEvent(e, t, d)
  PROVE  WindowInv' /\ \E c : Logged(c)
<1> DEFINE event == [sym |-> e.sym, kind |-> e.kind, side |-> e.side, price |-> e.price,
                     quantity |-> e.quantity, sequence |-> SequenceOf(e, d)]
           st == MarketAt(d)[e.sym]
           new == Applied(st, event)
           f == Feature(new, e.sym)
           decision == evaluate(cfg, StrategyAt(d), f)
           c == Entry(e, t, d, decision.signal, f)
           Entries(s) == OfSymbol(RecentAt(d), s)
<1>1. Rejection(MarketAt(d), event) = "none"
  BY DEF AcceptedEvent, Result, process_event, Rejection
<1>2. e.sym \in Symbols /\ e.kind \in {"quote", "trade"} /\ e.side \in {"bid", "ask"}
  BY <1>1 DEF Rejection
<1>3. Result(e, d) = [market |-> [MarketAt(d) EXCEPT ![e.sym] = WithMidpoint(new)],
                      outcome |-> "feature", feature |-> f]
  BY <1>1 DEF Result, process_event
<1>4. Arrives(e, t, d)
  BY DEF AcceptedEvent
<1>5. market' = [MarketAt(d) EXCEPT ![e.sym] = WithMidpoint(new)]
  <2> HIDE DEF new, f
  <2> QED BY <1>3, <1>4 DEF Arrives
<1>6. log' = Append(log, c)
  <2> HIDE DEF f
  <2>1. Result(e, d).feature = f
    BY <1>3
  <2> QED BY <2>1 DEF AcceptedEvent
<1>7. e.price \in Nat /\ e.quantity \in Nat
  BY <1>4, OfferedEvent
<1>8. /\ event.kind = e.kind /\ event.side = e.side
      /\ event.price = e.price /\ event.quantity = e.quantity
  OBVIOUS
<1> HIDE DEF event
<1>9. Reflects(st, Entries(e.sym))
  BY <1>2, SlotsAt
<1>10. f.midpoint \in Nat
  <2>1. DOMAIN st = Fields /\ BookPart(st, Entries(e.sym))
    BY <1>9 DEF Reflects
  <2> HIDE DEF st, Entries
  <2> QED BY <1>2, <1>7, <1>8, <2>1, AppliedMidpoint
<1> HIDE DEF st, f
<1>11. /\ c.sym = e.sym /\ c.kind = e.kind /\ c.side = e.side /\ c.price = e.price
       /\ c.quantity = e.quantity /\ c.feature = f /\ c.action = decision.signal.action
  <2> HIDE DEF decision
  <2> QED BY DEF Entry
<1>12. decision.signal.action \in {NONE, LONG, SHORT}
  BY DEF evaluate, raw_direction
<1> HIDE DEF c, decision
<1>13. PICK S : log \in Seq(S) /\ AllOK(S)
  BY DEF WindowInv, LogInv
<1> DEFINE T == S \cup {c}
<1>14. AllOK(T)
  BY <1>2, <1>7, <1>10, <1>11, <1>13 DEF AllOK, EntryOK
<1>15. c \in T /\ log \in Seq(T)
  BY <1>13
<1> HIDE DEF T
<1>16. log' \in Seq(T)
  BY <1>6, <1>15
<1>17. Recent' = Append(RecentAt(d), c) /\ epoch' \in 0 .. Len(log')
  BY <1>4, <1>6, <1>15, RecentGrows
<1>18. RecentAt(d) \in Seq(T)
  BY <1>15, RecentType
<1>19. ASSUME NEW s \in Symbols
       PROVE  Since(s)' = IF e.sym = s THEN Append(Entries(s), c) ELSE Entries(s)
  <2>1. Since(s)' = OfSymbol(Recent', s)
    BY DEF Since, Recent
  <2>2. OfSymbol(Append(RecentAt(d), c), s) = IF c.sym = s THEN Append(Entries(s), c) ELSE Entries(s)
    BY <1>15, <1>18, OfSymbolGrows
  <2> QED BY <1>11, <1>17, <2>1, <2>2
<1>20. \A s \in Symbols : Entries(s) \in Seq(T)
  BY <1>18, OfSymbolType
<1>21. \A s \in Symbols : Reflects(MarketAt(d)[s], Entries(s)) /\ MomentumMatches(Entries(s))
  BY SlotsAt
<1>22. DOMAIN MarketAt(d) = Symbols
  BY <1>2, SlotsAt
<1> HIDE DEF Entries
<1>23. /\ Reflects(WithMidpoint(new), Append(Entries(e.sym), c))
       /\ MomentumMatches(Append(Entries(e.sym), c)) /\ FeatureOK(c.feature)
  <2> DEFINE entries == Entries(e.sym)
  <2>1. entries \in Seq(T) /\ Reflects(st, entries) /\ c.kind \in {"quote", "trade"}
        /\ c.side \in {"bid", "ask"} /\ c.feature = Feature(new, e.sym)
    BY <1>2, <1>9, <1>11, <1>20 DEF f
  <2>2. /\ event.kind = c.kind /\ event.side = c.side
        /\ event.price = c.price /\ event.quantity = c.quantity
    BY <1>8, <1>11
  <2> HIDE DEF entries
  <2>3. /\ Reflects(WithMidpoint(new), Append(entries, c))
        /\ MomentumMatches(Append(entries, c)) /\ FeatureOK(c.feature)
    BY <1>2, <1>14, <1>15, <2>1, <2>2, SlotGrows
  <2> QED BY <2>3 DEF entries
<1> HIDE DEF new
<1>24. ASSUME NEW s \in Symbols PROVE Reflects(market'[s], Since(s)') /\ MomentumMatches(Since(s)')
  <2>1. CASE s = e.sym
    BY <1>5, <1>19, <1>22, <1>23, <2>1
  <2>2. CASE s # e.sym
    BY <1>5, <1>19, <1>21, <1>22, <2>2
  <2> QED BY <2>1, <2>2
<1>25. LogInv'
  BY <1>14, <1>16 DEF LogInv
<1>26. DOMAIN market' = Symbols /\ input_events' \in Nat
  BY <1>4, <1>5, <1>22 DEF Arrives, WindowInv
<1>27. WindowInv'
  BY <1>17, <1>24, <1>25, <1>26 DEF WindowInv
<1>28. Logged(c)
  BY <1>6, <1>11, <1>12, <1>23 DEF Logged
<1> QED BY <1>27, <1>28

(* A rejected event changes no slot, but a reset is done. *)
LEMMA RejectedWindow ==
  ASSUME WindowInv, NEW e, NEW t, NEW d, RejectedEvent(e, t, d) PROVE WindowInv'
<1>1. Arrives(e, t, d) /\ log' = log
  BY DEF RejectedEvent
<1>2. market' = MarketAt(d)
  <2>1. market' = Result(e, d).market
    BY <1>1 DEF Arrives
  <2>2. Result(e, d).outcome # "feature"
    BY DEF RejectedEvent
  <2> QED BY <2>1, <2>2 DEF Result, process_event
<1>3. Recent' = RecentAt(d) /\ epoch' \in 0 .. Len(log')
  BY <1>1, RecentStays
<1>4. ASSUME NEW s \in Symbols PROVE Reflects(market'[s], Since(s)') /\ MomentumMatches(Since(s)')
  <2>1. Since(s)' = OfSymbol(RecentAt(d), s)
    BY <1>3 DEF Since, Recent
  <2> QED BY <1>2, <2>1, SlotsAt
<1>5. DOMAIN market' = Symbols
  <2>1. CASE Resets(d)
    BY <1>2, <2>1 DEF MarketAt, reset_market
  <2>2. CASE ~Resets(d)
    BY <1>2, <2>2 DEF MarketAt, WindowInv
  <2> QED BY <2>1, <2>2
<1>6. LogInv' /\ input_events' \in Nat
  BY <1>1 DEF WindowInv, LogInv, Arrives
<1> QED BY <1>3, <1>4, <1>5, <1>6 DEF WindowInv

LEMMA InitWindow == ASSUME Init PROVE WindowInv
<1>1. log = <<>> /\ epoch = 0 /\ input_events = 0 /\ market = reset_market
  BY DEF Init
<1> DEFINE none == <<>>
<1>2. none \in Seq({}) /\ Len(none) = 0 /\ SubSeq(none, 0 + 1, Len(none)) = none /\ AllOK({})
  BY DEF AllOK
<1> HIDE DEF none
<1>3. log = none
  BY <1>1 DEF none
<1>4. ASSUME NEW s \in Symbols PROVE Reflects(market[s], Since(s)) /\ MomentumMatches(Since(s))
  <2>1. OfSymbol(none, s) = none
    <3> DEFINE a == {i \in DOMAIN none : none[i].sym = s}
    <3> HIDE DEF a
    <3>1. Selected(none, a) = <<>>
      BY <1>2, SelectedOfNone
    <3> QED BY <3>1 DEF OfSymbol, a, none
  <2>2. Since(s) = none
    BY <1>1, <1>2, <1>3, <2>1 DEF Since
  <2>3. market[s] = EmptyState
    BY <1>1 DEF reset_market
  <2>4. Reflects(EmptyState, none) /\ MomentumMatches(none)
    BY <1>2, EmptyReflects
  <2> QED BY <2>2, <2>3, <2>4
<1>5. LogInv
  BY <1>2, <1>3 DEF LogInv
<1>6. DOMAIN market = Symbols
  BY <1>1 DEF reset_market
<1> QED BY <1>1, <1>2, <1>3, <1>4, <1>5, <1>6 DEF WindowInv

LEMMA NextWindow == ASSUME WindowInv, [Next]_vars PROVE WindowInv'
<1>1. ASSUME NEW e \in Offered(input_events + 1), NEW t, NEW d,
             AcceptedEvent(e, t, d) \/ RejectedEvent(e, t, d)
      PROVE  WindowInv'
  BY <1>1, AcceptedWindow, RejectedWindow
<1>2. CASE EndOfReplay \/ UNCHANGED vars
  <2>1. market' = market /\ log' = log /\ epoch' = epoch /\ input_events' = input_events
    BY <1>2 DEF EndOfReplay, vars, time
  <2> QED BY <2>1 DEF WindowInv, LogInv, Since
<1> QED BY <1>1, <1>2 DEF Next

(* For every list of events, every size of the windows and every setting of    *)
(* the resets: the running sums are those of the last accepted trades since    *)
(* the reset, and momentum is measured from the midpoint exactly a window of   *)
(* valid midpoints ago (market_model.py push_trade, push_vwap, process_event). *)
THEOREM WindowsAreHistory == Spec => []WindowsMatchHistory
<1>1. Init => WindowInv
  BY InitWindow
<1>2. WindowInv /\ [Next]_vars => WindowInv'
  BY NextWindow
<1>3. WindowInv => WindowsMatchHistory
  <2> SUFFICES ASSUME WindowInv, NEW s \in Symbols
               PROVE  VolumeIsOfWindow(s) /\ MomentumIsOverWindow(s)
    BY DEF WindowsMatchHistory
  <2>1. Reflects(market[s], Since(s)) /\ MomentumMatches(Since(s))
    BY DEF WindowInv
  <2>2. VolumeIsOfWindow(s)
    BY <2>1 DEF Reflects, VolumePart, VolumeIsOfWindow
  <2>3. MomentumIsOverWindow(s)
    BY <2>1 DEF MomentumMatches, MomentumIsOverWindow
  <2> QED BY <2>2, <2>3
<1> QED BY <1>1, <1>2, <1>3, PTL DEF Spec

----------------------------------------------------------------------------
(* Types *)

LogTyped == \A i \in DOMAIN log : FeatureOK(log[i].feature) /\ log[i].action \in {NONE, LONG, SHORT}

Cooling(strat) ==
  /\ DOMAIN strat.cooldown_remaining = Symbols
  /\ \A s \in Symbols : strat.cooldown_remaining[s] \in 0 .. MaxCooldown

(* A cooldown counts down from the setting. *)
LEMMA CooldownStays ==
  ASSUME cfg \in Configs, NEW strat, Cooling(strat), NEW f
  PROVE  Cooling(evaluate(cfg, strat, f).strategy)
<1> DEFINE new == evaluate(cfg, strat, f).strategy
           next == NextCooldown(cfg, strat, f)
<1>1. new.cooldown_remaining = [strat.cooldown_remaining EXCEPT ![f.sym] = next]
  BY DEF evaluate
<1> HIDE DEF new
<1>2. cfg.signal_cooldown_events \in 0 .. MaxCooldown
  BY PathAssumption
<1>3. f.sym \in Symbols => next \in 0 .. MaxCooldown
  <2> SUFFICES ASSUME f.sym \in Symbols PROVE next \in 0 .. MaxCooldown
    OBVIOUS
  <2> DEFINE cooldown == strat.cooldown_remaining[f.sym]
  <2>1. cooldown \in 0 .. MaxCooldown
    BY DEF Cooling
  <2>2. next = IF candidate_fire(cfg, strat, f) THEN cfg.signal_cooldown_events
               ELSE IF cooldown # 0 THEN cooldown - 1 ELSE 0
    BY DEF NextCooldown
  <2> HIDE DEF next, cooldown
  <2>3. 0 \in 0 .. MaxCooldown /\ (cooldown # 0 => cooldown - 1 \in 0 .. MaxCooldown)
    BY <2>1, PathAssumption
  <2> QED BY <1>2, <2>2, <2>3
<1> HIDE DEF next
<1>4. Cooling(new)
  BY <1>1, <1>3 DEF Cooling
<1> QED BY <1>4 DEF new

LEMMA CoolingAt == ASSUME Cooling(strategy), NEW d PROVE Cooling(StrategyAt(d))
<1>1. CASE Resets(d)
  <2>1. MaxCooldown \in Nat
    BY PathAssumption
  <2> QED BY <1>1, <2>1 DEF StrategyAt, reset_strategy, NewStrategy, Cooling
<1>2. CASE ~Resets(d)
  BY <1>2 DEF StrategyAt
<1> QED BY <1>1, <1>2

TypeInv == TypeOK /\ Cooling(strategy) /\ WindowInv

LEMMA ArrivalTypes ==
  ASSUME TypeInv, NEW e \in Offered(input_events + 1), Arrives(e, now + e.wait, day + e.days)
  PROVE  /\ driver' \in {"engine", "streaming", "replay"} /\ cfg' \in Configs
         /\ input_events' \in 0 .. MaxEvents /\ now' \in Nat /\ day' \in 0 .. MaxDay
         /\ status' \in {"running", "finished"}
<1>1. e.wait \in Nat /\ e.days \in Nat
  BY OfferedEvent DEF TypeInv
<1>2. MaxEvents \in Nat /\ MaxDay \in Nat
  BY PathAssumption
<1>3. /\ driver' = driver /\ cfg' = cfg /\ status' = status
      /\ input_events < MaxEvents /\ input_events' = input_events + 1
      /\ now' = now + e.wait /\ day' = day + e.days /\ day + e.days <= MaxDay
  BY DEF Arrives
<1>4. /\ driver \in {"engine", "streaming", "replay"} /\ cfg \in Configs
      /\ input_events \in 0 .. MaxEvents /\ now \in Nat /\ day \in 0 .. MaxDay
      /\ status \in {"running", "finished"}
  BY DEF TypeInv, TypeOK
<1> QED BY <1>1, <1>2, <1>3, <1>4

LEMMA AcceptedTypes ==
  ASSUME TypeInv, NEW e \in Offered(input_events + 1),
         AcceptedEvent(e, now + e.wait, day + e.days)
  PROVE  TypeInv'
<1> DEFINE t == now + e.wait
           d == day + e.days
<1>1. Arrives(e, t, d)
  BY DEF AcceptedEvent
<1>2. WindowInv' /\ \E c : Logged(c)
  <2> HIDE DEF t, d
  <2>1. AcceptedEvent(e, t, d) /\ WindowInv
    BY DEF t, d, TypeInv
  <2> QED BY <2>1, AcceptedWindow
<1>3. PICK c : Logged(c)
  BY <1>2
<1>4. PICK S : log \in Seq(S)
  BY DEF TypeInv, WindowInv, LogInv
<1>5. LogTyped'
  <2>1. \A i \in DOMAIN log : FeatureOK(log[i].feature) /\ log[i].action \in {NONE, LONG, SHORT}
    BY DEF TypeInv, TypeOK
  <2>2. log' = Append(log, c) /\ FeatureOK(c.feature) /\ c.action \in {NONE, LONG, SHORT}
    BY <1>3 DEF Logged
  <2> DEFINE more == Append(log, c)
  <2>3. /\ DOMAIN more = 1 .. Len(log) + 1 /\ more[Len(log) + 1] = c /\ DOMAIN log = 1 .. Len(log)
        /\ \A i \in 1 .. Len(log) : more[i] = log[i]
    BY <1>4
  <2> HIDE DEF more
  <2>4. ASSUME NEW i \in DOMAIN more
        PROVE  FeatureOK(more[i].feature) /\ more[i].action \in {NONE, LONG, SHORT}
    <3>1. CASE i = Len(log) + 1
      BY <2>2, <2>3, <3>1
    <3>2. CASE i # Len(log) + 1
      <4>1. i \in DOMAIN log /\ more[i] = log[i]
        BY <1>4, <2>3, <3>2
      <4> QED BY <2>1, <4>1
    <3> QED BY <3>1, <3>2
  <2>5. log' = more
    BY <2>2 DEF more
  <2> QED BY <2>4, <2>5 DEF LogTyped
<1>6. Cooling(strategy')
  <2>1. Cooling(StrategyAt(d)) /\ cfg \in Configs
    BY CoolingAt DEF TypeInv, TypeOK
  <2>2. strategy' = evaluate(cfg, StrategyAt(d), Result(e, d).feature).strategy
    BY DEF AcceptedEvent
  <2> HIDE DEF d
  <2> QED BY <2>1, <2>2, CooldownStays
<1>7. epoch' <= Len(log')
  <2>1. epoch' \in 0 .. Len(log')
    BY <1>2 DEF WindowInv
  <2>2. Len(log') \in Nat
    <3>1. PICK S2 : log' \in Seq(S2)
      BY <1>2 DEF WindowInv, LogInv
    <3> QED BY <3>1
  <2> QED BY <2>1, <2>2
<1>8. /\ driver' \in {"engine", "streaming", "replay"} /\ cfg' \in Configs
      /\ input_events' \in 0 .. MaxEvents /\ now' \in Nat /\ day' \in 0 .. MaxDay
      /\ status' \in {"running", "finished"}
  BY <1>1, ArrivalTypes
<1>9. \A s \in Symbols : strategy'.cooldown_remaining[s] \in 0 .. MaxCooldown
  BY <1>6 DEF Cooling
<1>10. TypeOK'
  BY <1>5, <1>7, <1>8, <1>9 DEF TypeOK, LogTyped
<1> QED BY <1>2, <1>6, <1>10 DEF TypeInv

LEMMA RejectedTypes ==
  ASSUME TypeInv, NEW e \in Offered(input_events + 1),
         RejectedEvent(e, now + e.wait, day + e.days)
  PROVE  TypeInv'
<1> DEFINE t == now + e.wait
           d == day + e.days
<1>1. Arrives(e, t, d) /\ log' = log /\ strategy' = StrategyAt(d)
  BY DEF RejectedEvent
<1>2. WindowInv'
  <2> HIDE DEF t, d
  <2>1. RejectedEvent(e, t, d) /\ WindowInv
    BY DEF t, d, TypeInv
  <2> QED BY <2>1, RejectedWindow
<1>3. Cooling(strategy')
  <2> HIDE DEF d
  <2> QED BY <1>1, CoolingAt DEF TypeInv
<1>4. LogTyped'
  BY <1>1 DEF TypeInv, TypeOK, LogTyped
<1>5. epoch' <= Len(log')
  <2>1. epoch' \in 0 .. Len(log')
    BY <1>2 DEF WindowInv
  <2>2. Len(log') \in Nat
    <3>1. PICK S2 : log' \in Seq(S2)
      BY <1>2 DEF WindowInv, LogInv
    <3> QED BY <3>1
  <2> QED BY <2>1, <2>2
<1>6. /\ driver' \in {"engine", "streaming", "replay"} /\ cfg' \in Configs
      /\ input_events' \in 0 .. MaxEvents /\ now' \in Nat /\ day' \in 0 .. MaxDay
      /\ status' \in {"running", "finished"}
  BY <1>1, ArrivalTypes
<1>7. \A s \in Symbols : strategy'.cooldown_remaining[s] \in 0 .. MaxCooldown
  BY <1>3 DEF Cooling
<1>8. TypeOK'
  BY <1>4, <1>5, <1>6, <1>7 DEF TypeOK, LogTyped
<1> QED BY <1>2, <1>3, <1>8 DEF TypeInv

LEMMA InitTypes == ASSUME Init PROVE TypeInv
<1>1. WindowInv
  BY InitWindow
<1>2. cfg \in Configs /\ log = <<>> /\ epoch = 0 /\ strategy = NewStrategy(Symbols)
  BY DEF Init
<1>3. MaxCooldown \in Nat
  BY PathAssumption
<1>4. Cooling(strategy)
  BY <1>2, <1>3 DEF Cooling, NewStrategy
<1>5. TypeOK
  <2>1. MaxEvents \in Nat /\ MaxDay \in Nat
    BY PathAssumption
  <2>2. \A s \in Symbols : strategy.cooldown_remaining[s] \in 0 .. MaxCooldown
    BY <1>4 DEF Cooling
  <2>3. LogTyped /\ epoch <= Len(log)
    BY <1>2 DEF LogTyped
  <2> QED BY <2>1, <2>2, <2>3 DEF Init, TypeOK, LogTyped
<1> QED BY <1>1, <1>4, <1>5 DEF TypeInv

LEMMA NextTypes == ASSUME TypeInv, [Next]_vars PROVE TypeInv'
<1>1. ASSUME NEW e \in Offered(input_events + 1),
             AcceptedEvent(e, now + e.wait, day + e.days)
               \/ RejectedEvent(e, now + e.wait, day + e.days)
      PROVE  TypeInv'
  BY <1>1, AcceptedTypes, RejectedTypes
<1>2. CASE EndOfReplay \/ UNCHANGED vars
  <2>1. /\ driver' = driver /\ cfg' = cfg /\ input_events' = input_events /\ now' = now
        /\ day' = day /\ strategy' = strategy /\ log' = log /\ epoch' = epoch /\ market' = market
        /\ (status' = status \/ status' = "finished")
    BY <1>2 DEF EndOfReplay, vars, time
  <2>2. WindowInv'
    BY <2>1 DEF TypeInv, WindowInv, LogInv, Since
  <2>3. Cooling(strategy')
    BY <2>1 DEF TypeInv
  <2>4. TypeOK'
    BY <2>1 DEF TypeInv, TypeOK
  <2> QED BY <2>2, <2>3, <2>4 DEF TypeInv
<1> QED BY <1>1, <1>2 DEF Next

(* For every list of events and every configuration the replay keeps its types, *)
(* and every quotient it reports fits its field of the record                   *)
(* (market_model.py saturate_signed, process_event; strategy_model.py).         *)
THEOREM TypeCorrect == Spec => []TypeOK
<1>1. Init => TypeInv
  BY InitTypes
<1>2. TypeInv /\ [Next]_vars => TypeInv'
  BY NextTypes
<1>3. TypeInv => TypeOK
  BY DEF TypeInv
<1> QED BY <1>1, <1>2, <1>3, PTL DEF Spec

----------------------------------------------------------------------------
(* Counting the rows of a list *)

(* A list of keys grows with the list of rows they are of. *)
LEMMA KeysGrow ==
  ASSUME NEW S, NEW T, NEW key \in [S -> T], NEW rows \in Seq(S), NEW c \in S
  PROVE  /\ [i \in DOMAIN rows |-> key[rows[i]]] \in Seq(T)
         /\ Len([i \in DOMAIN rows |-> key[rows[i]]]) = Len(rows)
         /\ [i \in DOMAIN Append(rows, c) |-> key[Append(rows, c)[i]]]
              = Append([i \in DOMAIN rows |-> key[rows[i]]], key[c])
<1> DEFINE more == Append(rows, c)
           n == Len(rows)
           x == [i \in DOMAIN rows |-> key[rows[i]]]
           y == [i \in DOMAIN more |-> key[more[i]]]
<1>1. /\ n \in Nat /\ DOMAIN rows = 1 .. n /\ DOMAIN more = 1 .. n + 1 /\ more[n + 1] = c
      /\ \A i \in 1 .. n : more[i] = rows[i] /\ rows[i] \in S
  OBVIOUS
<1> HIDE DEF more
<1>2. x \in Seq(T) /\ Len(x) = n
  <2>1. x = [i \in 1 .. n |-> key[rows[i]]]
    BY <1>1
  <2>2. \A i \in 1 .. n : key[rows[i]] \in T
    BY <1>1
  <2> HIDE DEF n
  <2> QED BY <1>1, <2>1, <2>2
<1>3. y \in Seq(T) /\ Len(y) = n + 1
  <2>1. \A i \in 1 .. n + 1 : key[more[i]] \in T
    <3> TAKE i \in 1 .. n + 1
    <3>1. CASE i = n + 1
      BY <1>1, <3>1
    <3>2. CASE i # n + 1
      <4>1. i \in 1 .. n
        BY <1>1, <3>2
      <4> QED BY <1>1, <4>1
    <3> QED BY <3>1, <3>2
  <2>2. y = [i \in 1 .. n + 1 |-> key[more[i]]] /\ n + 1 \in Nat
    BY <1>1
  <2> HIDE DEF n
  <2> QED BY <2>1, <2>2
<1> DEFINE z == Append(x, key[c])
<1>4. /\ z \in Seq(T) /\ Len(z) = n + 1 /\ z[n + 1] = key[c]
      /\ \A i \in 1 .. n : z[i] = x[i]
  <2>1. key[c] \in T
    OBVIOUS
  <2> HIDE DEF x, n
  <2> QED BY <1>1, <1>2, <2>1
<1>5. ASSUME NEW i \in 1 .. n + 1 PROVE y[i] = z[i]
  <2>1. CASE i = n + 1
    BY <1>1, <1>4, <2>1
  <2>2. CASE i # n + 1
    <3>1. i \in 1 .. n
      BY <1>1, <2>2
    <3>2. y[i] = key[more[i]] /\ x[i] = key[rows[i]]
      BY <1>1, <3>1
    <3> HIDE DEF x, y, z
    <3> QED BY <1>1, <1>4, <3>1, <3>2
  <2> QED BY <2>1, <2>2
<1> HIDE DEF y, z, x
<1>6. y = z
  BY <1>3, <1>4, <1>5, SameList
<1> QED BY <1>2, <1>6 DEF x, y, z, more, n

(* One more that counts, or none more. *)
LEMMA CountWithLast ==
  ASSUME NEW n \in Nat, NEW old \in SUBSET (1 .. n), NEW new \in SUBSET (1 .. n + 1),
         \A k \in 1 .. n : k \in old <=> k \in new
  PROVE  /\ Cardinality(old) \in Nat
         /\ Cardinality(new) = IF n + 1 \in new THEN Cardinality(old) + 1 ELSE Cardinality(old)
<1>1. IsFiniteSet(old) /\ Cardinality(old) \in Nat
  <2>1. IsFiniteSet(1 .. n)
    BY FS_Interval
  <2>2. IsFiniteSet(old)
    BY <2>1, FS_Subset
  <2> QED BY <2>2, FS_CardinalityType
<1>2. CASE n + 1 \in new
  <2>1. ASSUME NEW k PROVE k \in new <=> k \in old \cup {n + 1}
    <3>1. k \in new => k = n + 1 \/ k \in 1 .. n
      OBVIOUS
    <3> QED BY <1>2, <3>1
  <2>2. n + 1 \notin old
    OBVIOUS
  <2>3. new = old \cup {n + 1}
    BY <2>1
  <2>4. Cardinality(old \cup {n + 1}) = Cardinality(old) + 1
    BY <1>1, <2>2, FS_AddElement
  <2> QED BY <1>1, <1>2, <2>3, <2>4
<1>3. CASE n + 1 \notin new
  <2>1. ASSUME NEW k PROVE k \in new <=> k \in old
    <3>1. k \in new => k \in 1 .. n
      BY <1>3
    <3> QED BY <3>1
  <2>2. new = old
    BY <2>1
  <2> QED BY <1>1, <1>3, <2>2
<1> QED BY <1>2, <1>3

LEMMA RangeGrows ==
  ASSUME NEW T, NEW q \in Seq(T), NEW k \in T
  PROVE  Range(Append(q, k)) = Range(q) \cup {k}
<1> DEFINE more == Append(q, k)
           n == Len(q)
<1>1. /\ n \in Nat /\ DOMAIN q = 1 .. n /\ DOMAIN more = 1 .. n + 1 /\ more[n + 1] = k
      /\ \A i \in 1 .. n : more[i] = q[i]
  OBVIOUS
<1> HIDE DEF more, n
<1>2. Range(more) = Range(q) \cup {k}
  <2>1. ASSUME NEW x \in Range(more) PROVE x \in Range(q) \cup {k}
    <3>1. PICK i \in 1 .. n + 1 : x = more[i]
      BY <1>1 DEF Range
    <3>2. CASE i = n + 1
      BY <1>1, <3>1, <3>2
    <3>3. CASE i # n + 1
      <4>1. i \in 1 .. n
        BY <1>1, <3>3
      <4> QED BY <1>1, <3>1, <4>1 DEF Range
    <3> QED BY <3>2, <3>3
  <2>2. ASSUME NEW x \in Range(q) PROVE x \in Range(more)
    <3>1. PICK i \in 1 .. n : x = q[i]
      BY <1>1 DEF Range
    <3>2. i \in 1 .. n + 1
      BY <1>1
    <3> QED BY <1>1, <3>1, <3>2 DEF Range
  <2>3. k \in Range(more)
    <3>1. n + 1 \in 1 .. n + 1
      BY <1>1
    <3> QED BY <1>1, <3>1 DEF Range
  <2> QED BY <2>1, <2>2, <2>3
<1> QED BY <1>2 DEF more

(* The bag of a list, and of one key more. *)
LEMMA BagGrows ==
  ASSUME NEW T, NEW q \in Seq(T), NEW k \in T
  PROVE  ToBag(Append(q, k)) = Add1(ToBag(q), k)
<1> DEFINE more == Append(q, k)
           n == Len(q)
           Places(s, x) == {i \in DOMAIN s : s[i] = x}
<1>1. /\ n \in Nat /\ DOMAIN q = 1 .. n /\ DOMAIN more = 1 .. n + 1 /\ more[n + 1] = k
      /\ \A i \in 1 .. n : more[i] = q[i]
  OBVIOUS
<1> HIDE DEF more, n
<1>2. Range(more) = Range(q) \cup {k}
  BY RangeGrows DEF more
<1>3. ASSUME NEW x
      PROVE  /\ Cardinality(Places(q, x)) \in Nat
             /\ Cardinality(Places(more, x)) =
                  IF x = k THEN Cardinality(Places(q, x)) + 1 ELSE Cardinality(Places(q, x))
  <2> DEFINE old == Places(q, x)
             new == Places(more, x)
  <2>1. /\ old \in SUBSET (1 .. n) /\ new \in SUBSET (1 .. n + 1)
        /\ n + 1 \in new <=> x = k
    BY <1>1
  <2>2. \A j \in 1 .. n : j \in old <=> j \in new
    BY <1>1
  <2> HIDE DEF old, new
  <2>3. /\ Cardinality(old) \in Nat
        /\ Cardinality(new) = IF n + 1 \in new THEN Cardinality(old) + 1 ELSE Cardinality(old)
    BY <1>1, <2>1, <2>2, CountWithLast
  <2> QED BY <2>1, <2>3 DEF old, new
<1>4. ASSUME NEW x, x \notin Range(q) PROVE Cardinality(Places(q, x)) = 0
  <2>1. Places(q, x) = {}
    BY <1>4 DEF Range
  <2> QED BY <2>1, FS_EmptySet
<1> DEFINE count(s, x) == Cardinality(Places(s, x))
<1> HIDE DEF Places
<1>5. ToBag(more) = [x \in Range(q) \cup {k} |-> count(more, x)]
  BY <1>2 DEF ToBag, Places
<1>6. ToBag(q) = [x \in Range(q) |-> count(q, x)]
  BY DEF ToBag, Places
<1>7. SetToBag({k}) = [x \in {k} |-> 1]
  BY DEF SetToBag
<1> HIDE DEF count
<1>8. Add1(ToBag(q), k) = [x \in Range(q) \cup {k} |->
        (IF x \in Range(q) THEN count(q, x) ELSE 0) + (IF x \in {k} THEN 1 ELSE 0)]
  <2> DEFINE B == ToBag(q)
             C == SetToBag({k})
  <2>1. DOMAIN B = Range(q) /\ DOMAIN C = {k} /\ (\A x \in Range(q) : B[x] = count(q, x)) /\ C[k] = 1
    BY <1>6, <1>7
  <2> HIDE DEF B, C
  <2>2. Add1(B, k) = [x \in DOMAIN B \cup DOMAIN C |->
          (IF x \in DOMAIN B THEN B[x] ELSE 0) + (IF x \in DOMAIN C THEN C[x] ELSE 0)]
    BY DEF Add1, (+), C
  <2> QED BY <2>1, <2>2 DEF B
<1>9. ASSUME NEW x \in Range(q) \cup {k}
      PROVE  count(more, x) =
               (IF x \in Range(q) THEN count(q, x) ELSE 0) + (IF x \in {k} THEN 1 ELSE 0)
  <2>1. /\ count(q, x) \in Nat
        /\ count(more, x) = IF x = k THEN count(q, x) + 1 ELSE count(q, x)
    BY <1>3 DEF count
  <2>2. x \notin Range(q) => count(q, x) = 0
    BY <1>4 DEF count
  <2> QED BY <2>1, <2>2
<1>10. ToBag(more) = Add1(ToBag(q), k)
  BY <1>5, <1>8, <1>9
<1> QED BY <1>10 DEF more
(* A number that is the least, or the largest, of a set. *)
LEMMA LeastIsMin ==
  ASSUME NEW S \in SUBSET Int, NEW m \in S, \A x \in S : m <= x PROVE Min(S) = m
<1>1. \E x \in S : \A y \in S : x <= y
  OBVIOUS
<1>2. Min(S) \in S /\ \A y \in S : Min(S) <= y
  BY <1>1 DEF Min
<1>3. m <= Min(S) /\ Min(S) <= m /\ m \in Int /\ Min(S) \in Int
  BY <1>2
<1> QED BY <1>3

LEMMA LargestIsMax ==
  ASSUME NEW S \in SUBSET Int, NEW m \in S, \A x \in S : m >= x PROVE Max(S) = m
<1>1. \E x \in S : \A y \in S : x >= y
  OBVIOUS
<1>2. Max(S) \in S /\ \A y \in S : Max(S) >= y
  BY <1>1 DEF Max
<1>3. m >= Max(S) /\ Max(S) >= m /\ m \in Int /\ Max(S) \in Int
  BY <1>2
<1> QED BY <1>3

----------------------------------------------------------------------------
(* One distribution *)

IsDistribution(d) ==
  DOMAIN d = {"count", "invalid", "min", "max", "total", "sample"} /\ d.sample \in Seq(Int)

(* The extremes are those of the values. *)
Bounded(d, values) ==
  IF values = <<>> THEN d.min = NoValue /\ d.max = NoValue
  ELSE /\ d.min \in Range(values) /\ d.max \in Range(values)
       /\ \A x \in Range(values) : d.min <= x /\ x <= d.max

SampleOf(d, values) ==
  IF d.count <= SampleSize THEN d.sample = values
  ELSE Len(d.sample) = SampleSize /\ Range(d.sample) \subseteq Range(values)

Follows(d, values) ==
  /\ IsDistribution(d) /\ d.count = Len(values) /\ d.total = Total(values)
  /\ Bounded(d, values) /\ SampleOf(d, values)

LEMMA NaturalQuotient ==
  ASSUME NEW m \in Nat, NEW s \in Nat, s # 0 PROVE m \div s \in Nat
OBVIOUS

LEMMA SampleGrows ==
  ASSUME NEW values \in Seq(Int), NEW v \in Int, NEW d, d.sample \in Seq(Int),
         d.count = Len(values), SampleOf(d, values), NEW new, new.count = d.count + 1,
         new.sample = Sampled(d, v)
  PROVE  new.sample \in Seq(Int) /\ SampleOf(new, Append(values, v))
<1> DEFINE more == Append(values, v)
           sample == d.sample
           next == new.sample
           n == Len(values)
<1>1. n \in Nat /\ SampleSize \in Nat \ {0}
  BY StatisticsAssumption
<1>2. Range(more) = Range(values) \cup {v}
  BY RangeGrows
<1>3. SampleStride \in Nat \ {0}
  <2> DEFINE q == SampleSize \div 1000
  <2>1. q \in Nat /\ 1 \in Nat
    BY <1>1
  <2> DEFINE one == 1
  <2>2. one \in Int /\ q \in Int /\ one = 1
    BY <2>1
  <2> HIDE DEF q, one
  <2>3. (Max({one, q}) = one \/ Max({one, q}) = q) /\ Max({one, q}) >= one
    BY <2>2, MaxOfTwo
  <2>4. Max({one, q}) \in Nat \ {0}
    BY <2>1, <2>2, <2>3
  <2> QED BY <2>4 DEF SampleStride, q, one
<1>4. CASE n < SampleSize
  <2>1. sample = values /\ next = Append(sample, v)
    BY <1>1, <1>4 DEF SampleOf, Sampled
  <2>2. new.count <= SampleSize /\ next = more /\ more \in Seq(Int)
    BY <1>1, <1>4, <2>1
  <2> QED BY <2>2 DEF SampleOf
<1>5. CASE n >= SampleSize
  <2>1. Len(sample) = SampleSize /\ Range(sample) \subseteq Range(values)
    <3>1. CASE n = SampleSize
      BY <1>1, <3>1 DEF SampleOf
    <3>2. CASE n # SampleSize
      <4>1. ~(d.count <= SampleSize)
        BY <1>1, <1>5, <3>2
      <4> QED BY <4>1 DEF SampleOf
    <3> QED BY <3>1, <3>2
  <2> DEFINE k == (((n + 1) \div SampleStride) % SampleSize) + 1
  <2>2. next = sample \/ next = [sample EXCEPT ![k] = v]
    BY <1>1, <2>1 DEF Sampled
  <2>3. k \in 1 .. SampleSize
    <3> DEFINE q == (n + 1) \div SampleStride
    <3>1. q \in Nat
      <4> DEFINE m == n + 1
                 stride == SampleStride
      <4>1. m \in Nat /\ stride \in Nat \ {0}
        BY <1>1, <1>3
      <4> HIDE DEF m, stride
      <4>2. m \div stride \in Nat
        BY <4>1, NaturalQuotient
      <4> QED BY <4>2 DEF m, stride
    <3> HIDE DEF q
    <3>2. q % SampleSize \in 0 .. SampleSize - 1
      BY <1>1, <3>1
    <3> QED BY <1>1, <3>2 DEF q
  <2>4. sample \in Seq(Int) /\ DOMAIN sample = 1 .. SampleSize
    BY <1>1, <2>1
  <2> HIDE DEF k, sample, next
  <2>5. next \in Seq(Int) /\ Len(next) = SampleSize /\ DOMAIN next = 1 .. SampleSize
        /\ \A i \in 1 .. SampleSize : next[i] = sample[i] \/ next[i] = v
    <3>1. CASE next = sample
      BY <1>1, <2>1, <2>4, <3>1
    <3>2. CASE next = [sample EXCEPT ![k] = v]
      <4>1. /\ \A i \in 1 .. SampleSize : next[i] = sample[i] \/ next[i] = v
            /\ next = [i \in 1 .. SampleSize |-> next[i]]
        BY <2>4, <3>2
      <4>2. ASSUME NEW i \in 1 .. SampleSize PROVE next[i] \in Int
        <5>1. sample[i] \in Int
          BY <1>1, <2>1, <2>4
        <5> QED BY <4>1, <5>1
      <4>3. SampleSize \in Nat
        BY <1>1
      <4> QED BY <4>1, <4>2, <4>3
    <3> QED BY <2>2, <3>1, <3>2
  <2>6. Range(next) \subseteq Range(more)
    <3> SUFFICES ASSUME NEW x \in Range(next) PROVE x \in Range(values) \cup {v}
      BY <1>2
    <3>1. PICK i \in 1 .. SampleSize : x = next[i]
      BY <2>5 DEF Range
    <3>2. sample[i] \in Range(sample)
      BY <2>4 DEF Range
    <3> QED BY <2>1, <2>5, <3>1, <3>2
  <2>7. ~(new.count <= SampleSize)
    BY <1>1, <1>5
  <2> QED BY <2>5, <2>6, <2>7 DEF SampleOf, next
<1> QED BY <1>1, <1>4, <1>5

LEMMA BoundsGrow ==
  ASSUME NEW values \in Seq(Int), NEW v \in Int, NEW d, Bounded(d, values), NEW new,
         new.min = IF d.min = NoValue THEN v ELSE Min({d.min, v}),
         new.max = IF d.max = NoValue THEN v ELSE Max({d.max, v})
  PROVE  Bounded(new, Append(values, v))
<1> DEFINE more == Append(values, v)
           low == d.min
           high == d.max
<1>1. Range(more) = Range(values) \cup {v} /\ more # <<>>
  <2>1. Range(more) = Range(values) \cup {v}
    BY RangeGrows
  <2>2. Len(more) = Len(values) + 1 /\ Len(values) \in Nat
    OBVIOUS
  <2> HIDE DEF more
  <2>3. more # <<>>
    BY <2>2
  <2> QED BY <2>1, <2>3
<1>2. Range(values) \subseteq Int
  BY DEF Range
<1> HIDE DEF more
<1>3. CASE values = <<>>
  <2>1. Range(values) = {}
    BY <1>3 DEF Range
  <2>2. new.min = v /\ new.max = v
    BY <1>3 DEF Bounded
  <2>3. Bounded(new, more)
    BY <1>1, <2>1, <2>2 DEF Bounded
  <2> QED BY <2>3 DEF more
<1>4. CASE values # <<>>
  <2>1. /\ low \in Range(values) /\ high \in Range(values)
        /\ \A x \in Range(values) : low <= x /\ x <= high
    BY <1>4 DEF Bounded
  <2>2. low \in Int /\ high \in Int /\ low # NoValue /\ high # NoValue
    BY <1>2, <2>1, StatisticsAssumption
  <2>3. new.min = Min({low, v}) /\ new.max = Max({high, v})
    BY <2>2
  <2> HIDE DEF low, high
  <2>4. /\ Min({low, v}) = low \/ Min({low, v}) = v
        /\ Min({low, v}) <= low /\ Min({low, v}) <= v
    BY <2>2, MinOfTwo
  <2>5. /\ Max({high, v}) = high \/ Max({high, v}) = v
        /\ Max({high, v}) >= high /\ Max({high, v}) >= v
    BY <2>2, MaxOfTwo
  <2>6. new.min \in Int /\ new.max \in Int /\ new.min \in Range(more) /\ new.max \in Range(more)
    BY <1>1, <2>1, <2>2, <2>3, <2>4, <2>5
  <2>7. ASSUME NEW x \in Range(more) PROVE new.min <= x /\ x <= new.max
    <3>1. CASE x = v
      BY <2>3, <2>4, <2>5, <3>1
    <3>2. CASE x \in Range(values)
      <4>1. low <= x /\ x <= high /\ x \in Int
        BY <1>2, <2>1, <3>2
      <4> QED BY <2>2, <2>3, <2>4, <2>5, <2>6, <4>1
    <3> QED BY <1>1, <3>1, <3>2
  <2>8. Bounded(new, more)
    BY <1>1, <2>6, <2>7 DEF Bounded
  <2> QED BY <2>8 DEF more
<1> QED BY <1>3, <1>4

LEMMA ObservedFollows ==
  ASSUME NEW values \in Seq(Int), NEW v \in Int, NEW d, Follows(d, values), NEW valid, valid
  PROVE  Follows(observe_value(d, v, valid), Append(values, v))
<1> DEFINE new == observe_value(d, v, valid)
           more == Append(values, v)
<1>1. IsDistribution(d) /\ d.count = Len(values) /\ d.total = Total(values)
      /\ Bounded(d, values) /\ SampleOf(d, values) /\ d.sample \in Seq(Int)
  BY DEF Follows, IsDistribution
<1>2. /\ DOMAIN new = {"count", "invalid", "min", "max", "total", "sample"}
      /\ new.count = d.count + 1 /\ new.total = d.total + v /\ new.sample = Sampled(d, v)
      /\ new.min = IF d.min = NoValue THEN v ELSE Min({d.min, v})
      /\ new.max = IF d.max = NoValue THEN v ELSE Max({d.max, v})
  BY DEF observe_value
<1> HIDE DEF new
<1>3. new.sample \in Seq(Int) /\ SampleOf(new, more)
  BY <1>1, <1>2, SampleGrows
<1>4. Bounded(new, more)
  BY <1>1, <1>2, BoundsGrow
<1>5. Len(more) = Len(values) + 1
  OBVIOUS
<1>6. Total(more) = Total(values) + v
  BY NumbersAdd, SumWithLast
<1> HIDE DEF more
<1>7. Follows(new, more)
  BY <1>1, <1>2, <1>3, <1>4, <1>5, <1>6 DEF Follows, IsDistribution
<1> QED BY <1>7 DEF new, more

----------------------------------------------------------------------------
(* The distributions of a list of rows *)

Numeric(S) == \A c \in S : \A n \in Columns : ValueOf(c, n) \in Int

ValidRows(rows, n) == Selected(rows, {i \in DOMAIN rows : ValidOf(rows[i], n)})
ValuesOf(rows, n) == LET valid == ValidRows(rows, n) IN [i \in DOMAIN valid |-> ValueOf(valid[i], n)]

LEMMA ValidRowsGrow ==
  ASSUME NEW S, NEW rows \in Seq(S), NEW c \in S, NEW n
  PROVE  /\ ValidRows(rows, n) \in Seq(S)
         /\ ValidRows(Append(rows, c), n) =
              IF ValidOf(c, n) THEN Append(ValidRows(rows, n), c) ELSE ValidRows(rows, n)
<1> DEFINE more == Append(rows, c)
           old == {i \in DOMAIN rows : ValidOf(rows[i], n)}
           new == {i \in DOMAIN more : ValidOf(more[i], n)}
           k == Len(rows)
<1>1. k + 1 \in new <=> ValidOf(c, n)
  OBVIOUS
<1>2. \A j \in 1 .. Len(rows) : j \in old <=> j \in new
  OBVIOUS
<1> HIDE DEF old, new
<1>3. Selected(more, new) = IF k + 1 \in new THEN Append(Selected(rows, old), c)
                            ELSE Selected(rows, old)
  BY <1>2, SelectedGrows
<1>4. Selected(rows, old) \in Seq(S)
  BY SelectedType
<1> QED BY <1>1, <1>3, <1>4 DEF ValidRows, old, new

LEMMA ValuesOfGrow ==
  ASSUME NEW S, Numeric(S), NEW rows \in Seq(S), NEW c \in S, NEW n \in Columns
  PROVE  /\ ValuesOf(rows, n) \in Seq(Int)
         /\ ValuesOf(Append(rows, c), n) =
              IF ValidOf(c, n) THEN Append(ValuesOf(rows, n), ValueOf(c, n)) ELSE ValuesOf(rows, n)
<1> DEFINE key == [x \in S |-> ValueOf(x, n)]
           valid == ValidRows(rows, n)
           more == Append(valid, c)
<1>1. key \in [S -> Int]
  BY DEF Numeric
<1>2. valid \in Seq(S)
  BY ValidRowsGrow
<1>3. /\ \A i \in DOMAIN valid : key[valid[i]] = ValueOf(valid[i], n)
      /\ \A i \in DOMAIN more : key[more[i]] = ValueOf(more[i], n)
      /\ key[c] = ValueOf(c, n)
  <2>1. ASSUME NEW i \in DOMAIN valid PROVE valid[i] \in S
    BY <1>2
  <2>2. more \in Seq(S)
    BY <1>2
  <2>3. ASSUME NEW i \in DOMAIN more PROVE more[i] \in S
    <3> HIDE DEF more
    <3> QED BY <2>2
  <2> QED BY <2>1, <2>3
<1> HIDE DEF key, valid
<1>4. /\ [i \in DOMAIN valid |-> key[valid[i]]] \in Seq(Int)
      /\ [i \in DOMAIN more |-> key[more[i]]] = Append([i \in DOMAIN valid |-> key[valid[i]]], key[c])
  BY <1>1, <1>2, KeysGrow
<1> HIDE DEF more
<1>5. ValuesOf(rows, n) = [i \in DOMAIN valid |-> key[valid[i]]]
  BY <1>3 DEF ValuesOf, valid
<1>6. CASE ValidOf(c, n)
  <2>1. ValidRows(Append(rows, c), n) = more
    BY <1>6, ValidRowsGrow DEF more, valid
  <2>2. ValuesOf(Append(rows, c), n) = [i \in DOMAIN more |-> key[more[i]]]
    BY <1>3, <2>1 DEF ValuesOf
  <2> QED BY <1>3, <1>4, <1>5, <1>6, <2>2
<1>7. CASE ~ValidOf(c, n)
  <2>1. ValidRows(Append(rows, c), n) = valid
    BY <1>7, ValidRowsGrow DEF valid
  <2>2. ValuesOf(Append(rows, c), n) = ValuesOf(rows, n)
    BY <2>1 DEF ValuesOf, valid
  <2> QED BY <1>4, <1>5, <1>7, <2>2
<1> QED BY <1>6, <1>7

LEMMA ValuesType ==
  ASSUME NEW S, Numeric(S), NEW rows \in Seq(S), NEW n \in Columns
  PROVE  ValuesOf(rows, n) \in Seq(Int)
<1> DEFINE valid == ValidRows(rows, n)
           chosen == {i \in DOMAIN rows : ValidOf(rows[i], n)}
<1>1. valid \in Seq(S)
  <2> HIDE DEF chosen
  <2>1. Selected(rows, chosen) \in Seq(S)
    BY SelectedType
  <2> QED BY <2>1 DEF ValidRows, chosen
<1> HIDE DEF valid
<1>2. DOMAIN valid = 1 .. Len(valid) /\ Len(valid) \in Nat /\ \A i \in 1 .. Len(valid) : valid[i] \in S
  BY <1>1
<1>3. \A i \in 1 .. Len(valid) : ValueOf(valid[i], n) \in Int
  BY <1>2 DEF Numeric
<1>4. ValuesOf(rows, n) = [i \in 1 .. Len(valid) |-> ValueOf(valid[i], n)]
  BY <1>2 DEF ValuesOf, valid
<1> QED BY <1>2, <1>3, <1>4

LEMMA RowsType ==
  ASSUME NEW S, NEW rows \in Seq(S), NEW g PROVE RowsOf(rows, g) \in Seq(S)
<1>1. OfSymbol(rows, g) \in Seq(S)
  BY OfSymbolType
<1> QED BY <1>1 DEF RowsOf

LEMMA RowsGrow ==
  ASSUME NEW S, NEW rows \in Seq(S), NEW c \in S, NEW g
  PROVE  /\ RowsOf(rows, g) \in Seq(S)
         /\ RowsOf(Append(rows, c), g) =
              IF g \in {Combined, c.sym} THEN Append(RowsOf(rows, g), c) ELSE RowsOf(rows, g)
<1>1. CASE g = Combined
  BY <1>1 DEF RowsOf
<1>2. CASE g # Combined
  <2>1. OfSymbol(Append(rows, c), g) =
          IF c.sym = g THEN Append(OfSymbol(rows, g), c) ELSE OfSymbol(rows, g)
    BY OfSymbolGrows
  <2>2. OfSymbol(rows, g) \in Seq(S)
    BY OfSymbolType
  <2> QED BY <1>2, <2>1, <2>2 DEF RowsOf
<1> QED BY <1>1, <1>2

(* A distribution tells what the rows do. *)
Tells(d, rows, n) ==
  Follows(d, ValuesOf(rows, n)) /\ d.invalid = Len(rows) - Len(ValuesOf(rows, n))

LEMMA TellsMore ==
  ASSUME NEW S, Numeric(S), NEW rows \in Seq(S), NEW c \in S, NEW n \in Columns, NEW d,
         Tells(d, rows, n)
  PROVE  Tells(observe_value(d, ValueOf(c, n), ValidOf(c, n)), Append(rows, c), n)
<1> DEFINE v == ValueOf(c, n)
           valid == ValidOf(c, n)
           values == ValuesOf(rows, n)
           new == observe_value(d, v, valid)
           more == Append(rows, c)
<1>1. values \in Seq(Int) /\ v \in Int
  BY ValuesOfGrow DEF Numeric
<1>2. ValuesOf(more, n) = IF valid THEN Append(values, v) ELSE values
  BY ValuesOfGrow
<1>3. Len(more) = Len(rows) + 1 /\ Len(rows) \in Nat
  OBVIOUS
<1>4. Follows(d, values) /\ d.invalid = Len(rows) - Len(values)
  BY DEF Tells
<1>5. CASE valid
  <2> HIDE DEF v, values, more
  <2>1. Follows(observe_value(d, v, valid), Append(values, v))
    BY <1>1, <1>4, <1>5, ObservedFollows
  <2>2. new.invalid = d.invalid
    BY <1>5 DEF observe_value
  <2> HIDE DEF new, valid
  <2>3. Len(Append(values, v)) = Len(values) + 1 /\ Len(values) \in Nat
    BY <1>1
  <2>4. Follows(new, ValuesOf(more, n))
    BY <1>2, <1>5, <2>1 DEF new
  <2>5. new.invalid = Len(more) - Len(ValuesOf(more, n))
    BY <1>2, <1>3, <1>4, <1>5, <2>2, <2>3
  <2> QED BY <2>4, <2>5 DEF Tells, new, v, valid, more
<1>6. CASE ~valid
  <2>1. new = [d EXCEPT !.invalid = @ + 1]
    BY <1>6 DEF observe_value
  <2>2. IsDistribution(d)
    BY <1>4 DEF Follows
  <2> HIDE DEF new, v, valid, values, more
  <2>3. /\ DOMAIN new = DOMAIN d /\ new.count = d.count /\ new.total = d.total /\ new.min = d.min
        /\ new.max = d.max /\ new.sample = d.sample /\ new.invalid = d.invalid + 1
    BY <2>1, <2>2 DEF IsDistribution
  <2>4. Follows(new, values)
    BY <1>4, <2>3 DEF Follows, IsDistribution, Bounded, SampleOf
  <2>5. new.invalid = Len(more) - Len(values)
    <3>1. Len(values) \in Nat
      BY <1>1
    <3> QED BY <1>3, <1>4, <2>3, <3>1
  <2>6. Tells(new, more, n)
    BY <1>2, <1>6, <2>4, <2>5 DEF Tells
  <2> QED BY <2>6 DEF new, v, valid, more
<1> QED BY <1>5, <1>6

LEMMA TellsAgrees ==
  ASSUME NEW S, Numeric(S), NEW rows \in Seq(S), NEW n \in Columns, NEW d, Tells(d, rows, n),
         ValuesOf(rows, n) \in Seq(Int)
  PROVE  DistributionAgrees(d, distribution_of(rows, n))
<1> DEFINE values == ValuesOf(rows, n)
           e == distribution_of(rows, n)
<1>1. /\ e.count = Len(values) /\ e.invalid = Len(rows) - Len(values) /\ e.total = Total(values)
      /\ e.values = values
      /\ e.min = IF values = <<>> THEN NoValue ELSE Min(Range(values))
      /\ e.max = IF values = <<>> THEN NoValue ELSE Max(Range(values))
  BY DEF distribution_of, ValuesOf, ValidRows
<1>2. /\ Follows(d, values) /\ d.invalid = Len(rows) - Len(values)
  BY DEF Tells
<1> HIDE DEF e, values
<1>3. d.min = e.min /\ d.max = e.max
  <2>1. CASE values = <<>>
    BY <1>1, <1>2, <2>1 DEF Follows, Bounded
  <2>2. CASE values # <<>>
    <3> DEFINE T == Range(values)
               low == d.min
               high == d.max
    <3>1. T \in SUBSET Int
      BY DEF values, Range
    <3>2. low \in T /\ high \in T /\ \A x \in T : low <= x /\ x <= high
      BY <1>2, <2>2 DEF Follows, Bounded
    <3> HIDE DEF T, low, high
    <3>3. \A x \in T : high >= x
      BY <3>1, <3>2
    <3>4. Min(T) = low
      BY <3>1, <3>2, LeastIsMin
    <3>5. Max(T) = high
      BY <3>1, <3>2, <3>3, LargestIsMax
    <3> QED BY <1>1, <2>2, <3>4, <3>5 DEF T, low, high
  <2> QED BY <2>1, <2>2
<1>4. DistributionAgrees(d, e)
  BY <1>1, <1>2, <1>3 DEF Follows, SampleOf, DistributionAgrees
<1> QED BY <1>4 DEF e

(* Every group of distributions tells what its rows do. *)
GroupsTell(stats, rows) ==
  /\ DOMAIN stats = Groups
  /\ \A g \in Groups, n \in Columns : Tells(stats[g][n], RowsOf(rows, g), n)

LEMMA GroupsTellMore ==
  ASSUME NEW S, Numeric(S), NEW rows \in Seq(S), NEW c \in S, NEW stats, GroupsTell(stats, rows)
  PROVE  GroupsTell(observe_feature(stats, c), Append(rows, c))
<1> DEFINE new == observe_feature(stats, c)
           more == Append(rows, c)
<1>1. DOMAIN new = Groups
  BY DEF observe_feature, GroupsTell
<1>2. ASSUME NEW g \in Groups, NEW n \in Columns PROVE Tells(new[g][n], RowsOf(more, g), n)
  <2> DEFINE mine == RowsOf(rows, g)
             d == stats[g][n]
  <2>1. mine \in Seq(S) /\ RowsOf(more, g) = IF g \in {Combined, c.sym} THEN Append(mine, c) ELSE mine
    BY RowsGrow
  <2>2. Tells(d, mine, n) /\ g \in DOMAIN stats
    BY DEF GroupsTell
  <2>3. CASE g \in {Combined, c.sym}
    <3>1. new[g][n] = observe_value(d, ValueOf(c, n), ValidOf(c, n))
      BY <2>2, <2>3 DEF observe_feature
    <3> HIDE DEF mine, d, new, more
    <3>2. Tells(observe_value(d, ValueOf(c, n), ValidOf(c, n)), Append(mine, c), n)
      BY <2>1, <2>2, TellsMore
    <3> QED BY <2>1, <2>3, <3>1, <3>2
  <2>4. CASE g \notin {Combined, c.sym}
    <3>1. new[g][n] = d
      BY <2>2, <2>4 DEF observe_feature
    <3> HIDE DEF mine, d, new, more
    <3> QED BY <2>1, <2>2, <2>4, <3>1
  <2> QED BY <2>3, <2>4
<1> HIDE DEF new, more
<1>3. GroupsTell(new, more)
  BY <1>1, <1>2 DEF GroupsTell
<1> QED BY <1>3 DEF new, more

LEMMA EmptyGroupsTell ==
  ASSUME NEW rows, rows = <<>> PROVE GroupsTell(NewFeatureStats(Groups), rows)
<1> DEFINE stats == NewFeatureStats(Groups)
           ints == Int
           none == rows
<1>1. none \in Seq(ints) /\ Len(none) = 0 /\ none = <<>> /\ none \in Seq(Int)
  OBVIOUS
<1>2. DOMAIN stats = Groups
  BY DEF NewFeatureStats
<1>3. ASSUME NEW n PROVE ValuesOf(none, n) = none
  <2> DEFINE a == {i \in DOMAIN none : ValidOf(none[i], n)}
  <2> HIDE DEF a, none, ints
  <2>1. Selected(none, a) = <<>>
    BY <1>1, SelectedOfNone
  <2>2. ValidRows(none, n) = <<>>
    BY <2>1 DEF ValidRows, a
  <2> QED BY <1>1, <2>2 DEF ValuesOf
<1>4. ASSUME NEW g PROVE RowsOf(none, g) = none
  <2> DEFINE a == {i \in DOMAIN none : none[i].sym = g}
  <2> HIDE DEF a, none, ints
  <2>1. Selected(none, a) = <<>>
    BY <1>1, SelectedOfNone
  <2> QED BY <1>1, <2>1 DEF RowsOf, OfSymbol, a
<1>5. Total(none) = 0
  <2> HIDE DEF none
  <2>1. none \in Seq(Nat)
    BY <1>1
  <2> QED BY <1>1, <2>1, TotalOfNone
<1>6. ASSUME NEW n PROVE Tells(NewDistribution, none, n)
  <2> DEFINE d == NewDistribution
  <2>1. /\ DOMAIN d = {"count", "invalid", "min", "max", "total", "sample"}
        /\ d.count = 0 /\ d.invalid = 0 /\ d.min = NoValue /\ d.max = NoValue /\ d.total = 0
        /\ d.sample = <<>>
    BY DEF NewDistribution
  <2> HIDE DEF d, none, ints
  <2>2. 0 <= SampleSize
    BY StatisticsAssumption
  <2>3. Follows(d, none)
    BY <1>1, <1>5, <2>1, <2>2 DEF Follows, IsDistribution, Bounded, SampleOf
  <2> QED BY <1>1, <1>3, <2>1, <2>3 DEF Tells, d
<1> HIDE DEF none
<1>7. ASSUME NEW g \in Groups, NEW n \in Columns PROVE Tells(stats[g][n], RowsOf(none, g), n)
  <2>1. stats[g][n] = NewDistribution
    BY DEF NewFeatureStats, NewGroup
  <2> QED BY <1>4, <1>6, <2>1
<1> HIDE DEF stats
<1>8. GroupsTell(stats, none)
  BY <1>2, <1>7 DEF GroupsTell
<1> QED BY <1>8 DEF stats, none

----------------------------------------------------------------------------
(* The candidates of a list of rows *)

Timed(S) == \A c \in S : c.time \in Nat /\ c.action \in {NONE, LONG, SHORT}
Until(rows, t) == \A i \in DOMAIN rows : rows[i].time <= t

FiredOf(rows) == Selected(rows, {i \in DOMAIN rows : rows[i].action # NONE})

LEMMA FiredGrows ==
  ASSUME NEW S, NEW rows \in Seq(S), NEW c \in S
  PROVE  /\ FiredOf(rows) \in Seq(S)
         /\ FiredOf(Append(rows, c)) =
              IF c.action # NONE THEN Append(FiredOf(rows), c) ELSE FiredOf(rows)
<1> DEFINE more == Append(rows, c)
           old == {i \in DOMAIN rows : rows[i].action # NONE}
           new == {i \in DOMAIN more : more[i].action # NONE}
           k == Len(rows)
<1>1. k + 1 \in new <=> c.action # NONE
  OBVIOUS
<1>2. \A j \in 1 .. Len(rows) : j \in old <=> j \in new
  OBVIOUS
<1> HIDE DEF old, new
<1>3. Selected(more, new) = IF k + 1 \in new THEN Append(Selected(rows, old), c)
                            ELSE Selected(rows, old)
  BY <1>2, SelectedGrows
<1>4. Selected(rows, old) \in Seq(S)
  BY SelectedType
<1> QED BY <1>1, <1>3, <1>4 DEF FiredOf, old, new

(* The bag of the fired rows' keys. *)
KeyBag(key, rows) == ToBag([i \in DOMAIN FiredOf(rows) |-> key[FiredOf(rows)[i]]])

LEMMA KeyBagGrows ==
  ASSUME NEW S, NEW T, NEW key \in [S -> T], NEW rows \in Seq(S), NEW c \in S
  PROVE  KeyBag(key, Append(rows, c)) =
           IF c.action # NONE THEN Add1(KeyBag(key, rows), key[c]) ELSE KeyBag(key, rows)
<1> DEFINE fired == FiredOf(rows)
           after == FiredOf(Append(rows, c))
<1>1. fired \in Seq(S) /\ after = IF c.action # NONE THEN Append(fired, c) ELSE fired
  BY FiredGrows
<1> HIDE DEF fired, after
<1>2. CASE c.action # NONE
  <2> DEFINE more == Append(fired, c)
             q == [i \in DOMAIN fired |-> key[fired[i]]]
             k == key[c]
  <2>1. q \in Seq(T) /\ [i \in DOMAIN more |-> key[more[i]]] = Append(q, k) /\ k \in T
    <3>1. k \in T
      OBVIOUS
    <3>2. q \in Seq(T)
      BY <1>1, KeysGrow
    <3>3. [i \in DOMAIN more |-> key[more[i]]] = Append(q, k)
      BY <1>1, KeysGrow
    <3> QED BY <3>1, <3>2, <3>3
  <2> HIDE DEF q, k
  <2>2. ToBag(Append(q, k)) = Add1(ToBag(q), k)
    BY <2>1, BagGrows
  <2>3. after = more
    BY <1>1, <1>2
  <2> HIDE DEF more
  <2> QED BY <1>2, <2>1, <2>2, <2>3 DEF q, k, fired, after, KeyBag
<1>3. CASE ~(c.action # NONE)
  <2>1. after = fired
    BY <1>1, <1>3
  <2> QED BY <1>3, <2>1 DEF after, fired, KeyBag
<1> QED BY <1>2, <1>3

(* The fired rows by symbol. *)
LEMMA SymbolBag ==
  ASSUME NEW S, NEW rows \in Seq(S), NEW c \in S
  PROVE  ToBag([i \in DOMAIN FiredOf(Append(rows, c)) |-> FiredOf(Append(rows, c))[i].sym]) =
           IF c.action # NONE
           THEN Add1(ToBag([i \in DOMAIN FiredOf(rows) |-> FiredOf(rows)[i].sym]), c.sym)
           ELSE ToBag([i \in DOMAIN FiredOf(rows) |-> FiredOf(rows)[i].sym])
<1> DEFINE T == {x.sym : x \in S}
           key == [x \in S |-> x.sym]
           more == Append(rows, c)
<1>1. key \in [S -> T] /\ key[c] = c.sym /\ more \in Seq(S)
  OBVIOUS
<1>2. ASSUME NEW q \in Seq(S), NEW i \in DOMAIN q PROVE key[q[i]] = q[i].sym
  OBVIOUS
<1> HIDE DEF key, T, more
<1>3. FiredOf(rows) \in Seq(S) /\ FiredOf(more) \in Seq(S)
  BY <1>1, FiredGrows
<1>4. ASSUME NEW q \in Seq(S)
      PROVE  [i \in DOMAIN q |-> key[q[i]]] = [i \in DOMAIN q |-> q[i].sym]
  BY <1>2
<1>5. KeyBag(key, more) = IF c.action # NONE THEN Add1(KeyBag(key, rows), key[c]) ELSE KeyBag(key, rows)
  BY <1>1, KeyBagGrows DEF more
<1> QED BY <1>1, <1>3, <1>4, <1>5 DEF more, KeyBag

(* The fired rows by score. *)
LEMMA ScoreBag ==
  ASSUME NEW S, NEW rows \in Seq(S), NEW c \in S
  PROVE  ToBag([i \in DOMAIN FiredOf(Append(rows, c)) |-> FiredOf(Append(rows, c))[i].score]) =
           IF c.action # NONE
           THEN Add1(ToBag([i \in DOMAIN FiredOf(rows) |-> FiredOf(rows)[i].score]), c.score)
           ELSE ToBag([i \in DOMAIN FiredOf(rows) |-> FiredOf(rows)[i].score])
<1> DEFINE T == {x.score : x \in S}
           key == [x \in S |-> x.score]
           more == Append(rows, c)
<1>1. key \in [S -> T] /\ key[c] = c.score /\ more \in Seq(S)
  OBVIOUS
<1>2. ASSUME NEW q \in Seq(S), NEW i \in DOMAIN q PROVE key[q[i]] = q[i].score
  OBVIOUS
<1> HIDE DEF key, T, more
<1>3. FiredOf(rows) \in Seq(S) /\ FiredOf(more) \in Seq(S)
  BY <1>1, FiredGrows
<1>4. ASSUME NEW q \in Seq(S)
      PROVE  [i \in DOMAIN q |-> key[q[i]]] = [i \in DOMAIN q |-> q[i].score]
  BY <1>2
<1>5. KeyBag(key, more) = IF c.action # NONE THEN Add1(KeyBag(key, rows), key[c]) ELSE KeyBag(key, rows)
  BY <1>1, KeyBagGrows DEF more
<1> QED BY <1>1, <1>3, <1>4, <1>5 DEF more, KeyBag

(* The fired rows by reasons. *)
LEMMA ReasonBag ==
  ASSUME NEW S, NEW rows \in Seq(S), NEW c \in S
  PROVE  ToBag([i \in DOMAIN FiredOf(Append(rows, c)) |-> FiredOf(Append(rows, c))[i].reason]) =
           IF c.action # NONE
           THEN Add1(ToBag([i \in DOMAIN FiredOf(rows) |-> FiredOf(rows)[i].reason]), c.reason)
           ELSE ToBag([i \in DOMAIN FiredOf(rows) |-> FiredOf(rows)[i].reason])
<1> DEFINE T == {x.reason : x \in S}
           key == [x \in S |-> x.reason]
           more == Append(rows, c)
<1>1. key \in [S -> T] /\ key[c] = c.reason /\ more \in Seq(S)
  OBVIOUS
<1>2. ASSUME NEW q \in Seq(S), NEW i \in DOMAIN q PROVE key[q[i]] = q[i].reason
  OBVIOUS
<1> HIDE DEF key, T, more
<1>3. FiredOf(rows) \in Seq(S) /\ FiredOf(more) \in Seq(S)
  BY <1>1, FiredGrows
<1>4. ASSUME NEW q \in Seq(S)
      PROVE  [i \in DOMAIN q |-> key[q[i]]] = [i \in DOMAIN q |-> q[i].reason]
  BY <1>2
<1>5. KeyBag(key, more) = IF c.action # NONE THEN Add1(KeyBag(key, rows), key[c]) ELSE KeyBag(key, rows)
  BY <1>1, KeyBagGrows DEF more
<1> QED BY <1>1, <1>3, <1>4, <1>5 DEF more, KeyBag

(* The fired rows by day. *)
LEMMA DayBag ==
  ASSUME NEW S, NEW rows \in Seq(S), NEW c \in S
  PROVE  ToBag([i \in DOMAIN FiredOf(Append(rows, c)) |-> FiredOf(Append(rows, c))[i].day]) =
           IF c.action # NONE
           THEN Add1(ToBag([i \in DOMAIN FiredOf(rows) |-> FiredOf(rows)[i].day]), c.day)
           ELSE ToBag([i \in DOMAIN FiredOf(rows) |-> FiredOf(rows)[i].day])
<1> DEFINE T == {x.day : x \in S}
           key == [x \in S |-> x.day]
           more == Append(rows, c)
<1>1. key \in [S -> T] /\ key[c] = c.day /\ more \in Seq(S)
  OBVIOUS
<1>2. ASSUME NEW q \in Seq(S), NEW i \in DOMAIN q PROVE key[q[i]] = q[i].day
  OBVIOUS
<1> HIDE DEF key, T, more
<1>3. FiredOf(rows) \in Seq(S) /\ FiredOf(more) \in Seq(S)
  BY <1>1, FiredGrows
<1>4. ASSUME NEW q \in Seq(S)
      PROVE  [i \in DOMAIN q |-> key[q[i]]] = [i \in DOMAIN q |-> q[i].day]
  BY <1>2
<1>5. KeyBag(key, more) = IF c.action # NONE THEN Add1(KeyBag(key, rows), key[c]) ELSE KeyBag(key, rows)
  BY <1>1, KeyBagGrows DEF more
<1> QED BY <1>1, <1>3, <1>4, <1>5 DEF more, KeyBag

(* The first and the last time of a list, and of one with a row more. *)
TimesFollow(rows, more, old, new, t) ==
  /\ Max(new) = t /\ more # <<>>
  /\ rows = <<>> => Min(new) = t
  /\ rows # <<>> => Min(new) = Min(old) /\ Min(old) # NoValue

LEMMA FirstAndLast ==
  ASSUME NEW S, Timed(S), NEW rows \in Seq(S), NEW c \in S, Until(rows, c.time), NEW more,
         more = Append(rows, c), NEW old, old = {rows[i].time : i \in DOMAIN rows},
         NEW new, new = {more[i].time : i \in DOMAIN more}
  PROVE  TimesFollow(rows, more, old, new, c.time)
<1> DEFINE n == Len(rows)
           t == c.time
<1>1. /\ n \in Nat /\ DOMAIN rows = 1 .. n /\ DOMAIN more = 1 .. n + 1 /\ more[n + 1] = c
      /\ \A i \in 1 .. n : more[i] = rows[i] /\ rows[i] \in S
  OBVIOUS
<1>2. n = 0 <=> rows = <<>>
  OBVIOUS
<1> HIDE DEF n
<1>3. t \in Nat /\ \A i \in 1 .. n : rows[i].time \in Nat /\ rows[i].time <= t
  BY <1>1 DEF Timed, Until
<1>4. new = old \cup {t}
  <2>1. ASSUME NEW x \in new PROVE x \in old \cup {t}
    <3>1. PICK i \in 1 .. n + 1 : x = more[i].time
      BY <1>1
    <3>2. CASE i = n + 1
      BY <1>1, <3>1, <3>2
    <3>3. CASE i # n + 1
      <4>1. i \in 1 .. n
        BY <1>1, <3>3
      <4> QED BY <1>1, <3>1, <4>1
    <3> QED BY <3>2, <3>3
  <2>2. ASSUME NEW x \in old PROVE x \in new
    <3>1. PICK i \in 1 .. n : x = rows[i].time
      BY <1>1
    <3>2. i \in 1 .. n + 1
      BY <1>1
    <3> QED BY <1>1, <3>1, <3>2
  <2>3. t \in new
    <3>1. n + 1 \in 1 .. n + 1
      BY <1>1
    <3> QED BY <1>1, <3>1
  <2> QED BY <2>1, <2>2, <2>3
<1>5. old \in SUBSET Nat /\ \A x \in old : x <= t
  BY <1>1, <1>3
<1>6. rows # <<>> => old # {}
  <2> SUFFICES ASSUME rows # <<>> PROVE old # {}
    OBVIOUS
  <2>1. 1 \in DOMAIN rows
    BY <1>1, <1>2
  <2> QED BY <2>1
<1>7. rows = <<>> => old = {}
  BY <1>1, <1>2
<1> HIDE DEF t
<1>8. new \in SUBSET Int /\ t \in new /\ \A x \in new : t >= x
  <2>1. t \in Nat
    BY <1>3
  <2>2. ASSUME NEW x \in new PROVE x \in Int /\ t >= x
    <3>1. CASE x = t
      BY <2>1, <3>1
    <3>2. CASE x \in old
      <4>1. x \in Nat /\ x <= t
        BY <1>5, <3>2
      <4> QED BY <2>1, <4>1
    <3> QED BY <1>4, <3>1, <3>2
  <2> QED BY <1>4, <2>2
<1>9. Max(new) = t
  BY <1>8, LargestIsMax
<1>10. more # <<>>
  <2>1. n + 1 \in DOMAIN more
    BY <1>1
  <2> QED BY <2>1
<1>11. ASSUME rows = <<>> PROVE Min(new) = t
  <2>1. \A x \in new : t <= x
    BY <1>3, <1>4, <1>7, <1>11
  <2> QED BY <1>8, <2>1, LeastIsMin
<1>12. ASSUME rows # <<>> PROVE Min(new) = Min(old) /\ Min(old) # NoValue
  <2>1. PICK m \in old : \A y \in old : m <= y
    BY <1>5, <1>6, <1>12, SmallestNumber
  <2>2. old \in SUBSET Int
    BY <1>5
  <2>3. Min(old) = m
    BY <2>1, <2>2, LeastIsMin
  <2>4. m \in new /\ \A y \in new : m <= y
    BY <1>4, <1>5, <2>1
  <2>5. Min(new) = m
    BY <1>8, <2>4, LeastIsMin
  <2>6. m \in Int /\ NoValue \notin Int
    BY <1>5, <2>1, StatisticsAssumption
  <2> QED BY <2>3, <2>5, <2>6
<1> QED BY <1>9, <1>10, <1>11, <1>12 DEF t, TimesFollow

(* The summary of the list with a row more is the observed summary. *)
LEMMA SummaryGrows ==
  ASSUME NEW S, Timed(S), NEW rows \in Seq(S), NEW c \in S, Until(rows, c.time)
  PROVE  candidate_summary(Append(rows, c)) = observe_action(candidate_summary(rows), c)
<1> DEFINE more == Append(rows, c)
           n == Len(rows)
           old == candidate_summary(rows)
           new == candidate_summary(more)
           Acted(r, a) == {i \in DOMAIN r : r[i].action = a}
           Invalid(r) == {i \in DOMAIN r : "invalid_feature" \in r[i].reason}
           Disabled(r) == {i \in DOMAIN r : r[i].reason \cap DisabledReasons # {}}
           Cooling1(r) == {i \in DOMAIN r : "cooldown_active" \in r[i].reason}
           Times(r) == {r[i].time : i \in DOMAIN r}
           Fired1(r) == FiredOf(r)
<1>1. ASSUME NEW r
      PROVE  candidate_summary(r) =
        [total |-> Len(r),
         actions |-> [a \in DOMAIN NoActions |-> Cardinality(Acted(r, a))],
         by_symbol |-> ToBag([i \in DOMAIN FiredOf(r) |-> FiredOf(r)[i].sym]),
         by_score |-> ToBag([i \in DOMAIN FiredOf(r) |-> FiredOf(r)[i].score]),
         by_reason |-> ToBag([i \in DOMAIN FiredOf(r) |-> FiredOf(r)[i].reason]),
         by_day |-> ToBag([i \in DOMAIN FiredOf(r) |-> FiredOf(r)[i].day]),
         invalid |-> Cardinality(Invalid(r)), disabled |-> Cardinality(Disabled(r)),
         cooldown |-> Cardinality(Cooling1(r)),
         first |-> IF r = <<>> THEN NoValue ELSE Min(Times(r)),
         last |-> IF r = <<>> THEN NoValue ELSE Max(Times(r))]
  BY DEF candidate_summary, CountOf, BagBy, FiredOf
<1>2. /\ n \in Nat /\ DOMAIN rows = 1 .. n /\ DOMAIN more = 1 .. n + 1 /\ more[n + 1] = c
      /\ \A i \in 1 .. n : more[i] = rows[i]
      /\ Len(more) = n + 1
  OBVIOUS
<1> HIDE DEF more, n
<1>3. ASSUME NEW P, NEW Q, P \in SUBSET (1 .. n), Q \in SUBSET (1 .. n + 1),
             \A i \in 1 .. n : i \in P <=> i \in Q
      PROVE  Cardinality(P) \in Nat /\ Cardinality(Q) = Cardinality(P) + Bit(n + 1 \in Q)
  <2>1. /\ Cardinality(P) \in Nat
        /\ Cardinality(Q) = IF n + 1 \in Q THEN Cardinality(P) + 1 ELSE Cardinality(P)
    BY <1>2, <1>3, CountWithLast
  <2> QED BY <2>1 DEF Bit
<1>4. ASSUME NEW a
      PROVE  Cardinality(Acted(more, a)) = Cardinality(Acted(rows, a)) + Bit(c.action = a)
             /\ Cardinality(Acted(rows, a)) \in Nat
  <2> DEFINE P == Acted(rows, a)
             Q == Acted(more, a)
  <2>1. P \in SUBSET (1 .. n) /\ Q \in SUBSET (1 .. n + 1) /\ \A i \in 1 .. n : i \in P <=> i \in Q
    BY <1>2
  <2>2. n + 1 \in Q <=> c.action = a
    BY <1>2
  <2> HIDE DEF P, Q
  <2>3. Cardinality(P) \in Nat /\ Cardinality(Q) = Cardinality(P) + Bit(n + 1 \in Q)
    BY <1>3, <2>1
  <2> QED BY <2>2, <2>3 DEF P, Q, Bit
<1>5. Cardinality(Invalid(more)) = Cardinality(Invalid(rows)) + Bit("invalid_feature" \in c.reason)
  <2> DEFINE P == Invalid(rows)
             Q == Invalid(more)
  <2>1. P \in SUBSET (1 .. n) /\ Q \in SUBSET (1 .. n + 1) /\ \A i \in 1 .. n : i \in P <=> i \in Q
    BY <1>2
  <2>2. n + 1 \in Q <=> "invalid_feature" \in c.reason
    BY <1>2
  <2> HIDE DEF P, Q
  <2>3. Cardinality(P) \in Nat /\ Cardinality(Q) = Cardinality(P) + Bit(n + 1 \in Q)
    BY <1>3, <2>1
  <2> QED BY <2>2, <2>3 DEF P, Q, Bit
<1>6. Cardinality(Disabled(more)) =
        Cardinality(Disabled(rows)) + Bit(c.reason \cap DisabledReasons # {})
  <2> DEFINE P == Disabled(rows)
             Q == Disabled(more)
  <2>1. P \in SUBSET (1 .. n) /\ Q \in SUBSET (1 .. n + 1) /\ \A i \in 1 .. n : i \in P <=> i \in Q
    BY <1>2
  <2>2. n + 1 \in Q <=> c.reason \cap DisabledReasons # {}
    BY <1>2
  <2> HIDE DEF P, Q
  <2>3. Cardinality(P) \in Nat /\ Cardinality(Q) = Cardinality(P) + Bit(n + 1 \in Q)
    BY <1>3, <2>1
  <2> QED BY <2>2, <2>3 DEF P, Q, Bit
<1>7. Cardinality(Cooling1(more)) = Cardinality(Cooling1(rows)) + Bit("cooldown_active" \in c.reason)
  <2> DEFINE P == Cooling1(rows)
             Q == Cooling1(more)
  <2>1. P \in SUBSET (1 .. n) /\ Q \in SUBSET (1 .. n + 1) /\ \A i \in 1 .. n : i \in P <=> i \in Q
    BY <1>2
  <2>2. n + 1 \in Q <=> "cooldown_active" \in c.reason
    BY <1>2
  <2> HIDE DEF P, Q
  <2>3. Cardinality(P) \in Nat /\ Cardinality(Q) = Cardinality(P) + Bit(n + 1 \in Q)
    BY <1>3, <2>1
  <2> QED BY <2>2, <2>3 DEF P, Q, Bit
<1>8. /\ Max(Times(more)) = c.time /\ more # <<>>
      /\ rows = <<>> => Min(Times(more)) = c.time
      /\ rows # <<>> => Min(Times(more)) = Min(Times(rows)) /\ Min(Times(rows)) # NoValue
  <2> DEFINE T == Times(rows)
             U == Times(more)
  <2>1. T = {rows[i].time : i \in DOMAIN rows} /\ U = {more[i].time : i \in DOMAIN more}
        /\ more = Append(rows, c)
    BY DEF more
  <2> HIDE DEF T, U
  <2>2. TimesFollow(rows, more, T, U, c.time)
    BY <2>1, FirstAndLast
  <2> QED BY <2>2 DEF T, U, TimesFollow
<1> HIDE DEF Acted, Invalid, Disabled, Cooling1, Times
<1>9. /\ old.total = n /\ new.total = n + 1
      /\ old.invalid = Cardinality(Invalid(rows)) /\ new.invalid = Cardinality(Invalid(more))
      /\ old.disabled = Cardinality(Disabled(rows)) /\ new.disabled = Cardinality(Disabled(more))
      /\ old.cooldown = Cardinality(Cooling1(rows)) /\ new.cooldown = Cardinality(Cooling1(more))
      /\ old.actions = [a \in DOMAIN NoActions |-> Cardinality(Acted(rows, a))]
      /\ new.actions = [a \in DOMAIN NoActions |-> Cardinality(Acted(more, a))]
      /\ old.first = IF rows = <<>> THEN NoValue ELSE Min(Times(rows))
      /\ new.first = IF more = <<>> THEN NoValue ELSE Min(Times(more))
      /\ new.last = IF more = <<>> THEN NoValue ELSE Max(Times(more))
  BY <1>1, <1>2 DEF n
<1>10. /\ old.by_symbol = ToBag([i \in DOMAIN FiredOf(rows) |-> FiredOf(rows)[i].sym])
       /\ new.by_symbol = ToBag([i \in DOMAIN FiredOf(more) |-> FiredOf(more)[i].sym])
       /\ old.by_score = ToBag([i \in DOMAIN FiredOf(rows) |-> FiredOf(rows)[i].score])
       /\ new.by_score = ToBag([i \in DOMAIN FiredOf(more) |-> FiredOf(more)[i].score])
       /\ old.by_reason = ToBag([i \in DOMAIN FiredOf(rows) |-> FiredOf(rows)[i].reason])
       /\ new.by_reason = ToBag([i \in DOMAIN FiredOf(more) |-> FiredOf(more)[i].reason])
       /\ old.by_day = ToBag([i \in DOMAIN FiredOf(rows) |-> FiredOf(rows)[i].day])
       /\ new.by_day = ToBag([i \in DOMAIN FiredOf(more) |-> FiredOf(more)[i].day])
  BY <1>1
<1>11. new = [total |-> new.total, actions |-> new.actions, by_symbol |-> new.by_symbol,
              by_score |-> new.by_score, by_reason |-> new.by_reason, by_day |-> new.by_day,
              invalid |-> new.invalid, disabled |-> new.disabled, cooldown |-> new.cooldown,
              first |-> new.first, last |-> new.last]
  BY <1>1
<1> HIDE DEF old, new
<1>12. /\ new.by_symbol = IF c.action # NONE THEN Add1(old.by_symbol, c.sym) ELSE old.by_symbol
       /\ new.by_score = IF c.action # NONE THEN Add1(old.by_score, c.score) ELSE old.by_score
       /\ new.by_reason = IF c.action # NONE THEN Add1(old.by_reason, c.reason) ELSE old.by_reason
       /\ new.by_day = IF c.action # NONE THEN Add1(old.by_day, c.day) ELSE old.by_day
  BY <1>10, SymbolBag, ScoreBag, ReasonBag, DayBag DEF more
<1>13. new.actions = [old.actions EXCEPT ![c.action] = @ + 1]
  <2>1. DOMAIN NoActions = {NONE, LONG, SHORT} /\ c.action \in {NONE, LONG, SHORT}
    BY DEF NoActions, Timed
  <2>2. ASSUME NEW a
        PROVE  Cardinality(Acted(more, a)) =
                 IF a = c.action THEN Cardinality(Acted(rows, a)) + 1 ELSE Cardinality(Acted(rows, a))
    BY <1>4 DEF Bit
  <2> DEFINE A == old.actions
             B == new.actions
             f(r, a) == Cardinality(Acted(r, a))
             D == DOMAIN NoActions
             k == c.action
  <2>3. /\ A = [a \in D |-> f(rows, a)] /\ B = [a \in D |-> f(more, a)] /\ k \in D
        /\ \A a \in D : f(more, a) = IF a = k THEN f(rows, a) + 1 ELSE f(rows, a)
    BY <1>9, <2>1, <2>2
  <2> HIDE DEF A, B, f, D, k
  <2>4. B = [A EXCEPT ![k] = A[k] + 1]
    BY <2>3
  <2> QED BY <2>4 DEF A, B, k
<1>14. new.first = IF old.first = NoValue THEN c.time ELSE old.first
  BY <1>8, <1>9
<1>15. new.last = c.time
  BY <1>8, <1>9
<1>16. /\ new.total = old.total + 1
       /\ new.invalid = old.invalid + Bit("invalid_feature" \in c.reason)
       /\ new.disabled = old.disabled + Bit(c.reason \cap DisabledReasons # {})
       /\ new.cooldown = old.cooldown + Bit("cooldown_active" \in c.reason)
  BY <1>5, <1>6, <1>7, <1>9
<1>17. new = observe_action(old, c)
  BY <1>11, <1>12, <1>13, <1>14, <1>15, <1>16 DEF observe_action
<1> QED BY <1>17 DEF new, old, more

LEMMA EmptySummary ==
  ASSUME NEW rows, rows = <<>> PROVE candidate_summary(rows) = NewCandidateStats
<1> DEFINE none == rows
           ints == Int
           Chosen(T) == {i \in DOMAIN none : T}
<1>1. none \in Seq(ints) /\ Len(none) = 0 /\ none = <<>> /\ DOMAIN none = {}
  OBVIOUS
<1>2. FiredOf(none) = none
  <2> DEFINE a == {i \in DOMAIN none : none[i].action # NONE}
  <2> HIDE DEF a, none, ints
  <2>1. Selected(none, a) = <<>>
    BY <1>1, SelectedOfNone
  <2> QED BY <1>1, <2>1 DEF FiredOf, a
<1> HIDE DEF none
<1>3. Cardinality({}) = 0
  BY FS_EmptySet
<1>4. ASSUME NEW q, DOMAIN q = {} PROVE ToBag(q) = EmptyBag
  <2>1. Range(q) = {}
    BY <1>4 DEF Range
  <2> QED BY <2>1 DEF ToBag, EmptyBag, SetToBag
<1>5. /\ ToBag([i \in DOMAIN none |-> none[i].sym]) = EmptyBag
      /\ ToBag([i \in DOMAIN none |-> none[i].score]) = EmptyBag
      /\ ToBag([i \in DOMAIN none |-> none[i].reason]) = EmptyBag
      /\ ToBag([i \in DOMAIN none |-> none[i].day]) = EmptyBag
  BY <1>1, <1>4
<1> DEFINE s == candidate_summary(none)
<1>6. s = [total |-> Len(none),
           actions |-> [a \in DOMAIN NoActions |-> Cardinality({i \in DOMAIN none : none[i].action = a})],
           by_symbol |-> ToBag([i \in DOMAIN FiredOf(none) |-> FiredOf(none)[i].sym]),
           by_score |-> ToBag([i \in DOMAIN FiredOf(none) |-> FiredOf(none)[i].score]),
           by_reason |-> ToBag([i \in DOMAIN FiredOf(none) |-> FiredOf(none)[i].reason]),
           by_day |-> ToBag([i \in DOMAIN FiredOf(none) |-> FiredOf(none)[i].day]),
           invalid |-> Cardinality({i \in DOMAIN none : "invalid_feature" \in none[i].reason}),
           disabled |-> Cardinality({i \in DOMAIN none : none[i].reason \cap DisabledReasons # {}}),
           cooldown |-> Cardinality({i \in DOMAIN none : "cooldown_active" \in none[i].reason}),
           first |-> IF none = <<>> THEN NoValue ELSE Min({none[i].time : i \in DOMAIN none}),
           last |-> IF none = <<>> THEN NoValue ELSE Max({none[i].time : i \in DOMAIN none})]
  BY DEF candidate_summary, CountOf, BagBy, FiredOf
<1>7. ASSUME NEW a PROVE Cardinality({i \in DOMAIN none : none[i].action = a}) = 0
  <2>1. {i \in DOMAIN none : none[i].action = a} = {}
    BY <1>1
  <2> QED BY <1>3, <2>1
<1>8. /\ {i \in DOMAIN none : "invalid_feature" \in none[i].reason} = {}
      /\ {i \in DOMAIN none : none[i].reason \cap DisabledReasons # {}} = {}
      /\ {i \in DOMAIN none : "cooldown_active" \in none[i].reason} = {}
  BY <1>1
<1>9. [a \in DOMAIN NoActions |-> Cardinality({i \in DOMAIN none : none[i].action = a})] = NoActions
  <2> DEFINE D == {NONE, LONG, SHORT}
  <2>1. NoActions = [a \in D |-> 0] /\ DOMAIN NoActions = D
    BY DEF NoActions
  <2> HIDE DEF D
  <2> QED BY <1>7, <2>1
<1> HIDE DEF s
<1>10. s = NewCandidateStats
  BY <1>1, <1>2, <1>3, <1>5, <1>6, <1>8, <1>9 DEF NewCandidateStats
<1> QED BY <1>10 DEF s, none

----------------------------------------------------------------------------
(* The statistics of the running replay *)

Logs == \E S : log \in Seq(S) /\ Numeric(S) /\ Timed(S)

MetricsOK ==
  LET m == strategy.metrics IN
  /\ {"long", "short", "invalid"} \subseteq DOMAIN m
  /\ m.long \in Nat /\ m.short \in Nat /\ m.invalid \in Nat

CountersAgree ==
  /\ candidate_stats.actions[LONG] = strategy.metrics.long
  /\ candidate_stats.actions[SHORT] = strategy.metrics.short
  /\ candidate_stats.invalid = strategy.metrics.invalid

StatsInv ==
  /\ TypeInv /\ Logs /\ Until(log, now) /\ MetricsOK
  /\ driver = "streaming" =>
       GroupsTell(feature_stats, log) /\ candidate_stats = candidate_summary(log) /\ CountersAgree

LEMMA ScoreIsNumber ==
  ASSUME NEW config, NEW f PROVE Cardinality(Passes(config, f)) \in Nat
<1> DEFINE passes == Passes(config, f)
<1>1. passes \subseteq Conditions
  BY DEF Passes, long_pass, short_pass, Common, Conditions
<1>2. IsFiniteSet(Conditions)
  <2> DEFINE A == {"momentum"}
             B == A \cup {"vwap_delta"}
             C == B \cup {"imbalance"}
             D == C \cup {"spread"}
             E == D \cup {"volume"}
  <2>1. IsFiniteSet(A)
    BY FS_Singleton
  <2> HIDE DEF A
  <2>2. IsFiniteSet(B)
    BY <2>1, FS_AddElement
  <2> HIDE DEF B
  <2>3. IsFiniteSet(C)
    BY <2>2, FS_AddElement
  <2> HIDE DEF C
  <2>4. IsFiniteSet(D)
    BY <2>3, FS_AddElement
  <2> HIDE DEF D
  <2>5. IsFiniteSet(E)
    BY <2>4, FS_AddElement
  <2>6. E = Conditions
    BY DEF A, B, C, D, E, Conditions, Directional
  <2> QED BY <2>5, <2>6
<1> HIDE DEF passes
<1>3. IsFiniteSet(passes)
  BY <1>1, <1>2, FS_Subset
<1>4. Cardinality(passes) \in Nat
  BY <1>3, FS_CardinalityType
<1> QED BY <1>4 DEF passes

LEMMA LoggedNumbers ==
  ASSUME NEW c, FeatureOK(c.feature), c.score \in Nat, NEW n \in Columns
  PROVE  ValueOf(c, n) \in Int
<1> DEFINE value == c.feature.value
<1>1. /\ Fits(value.spread, BpsWidth) /\ Fits(value.momentum, BpsWidth)
      /\ Fits(value.vwap_delta, BpsWidth) /\ Fits(value.imbalance, ImbalanceWidth)
      /\ value.volume \in Nat /\ value.vwap \in Nat
  BY DEF FeatureOK
<1>2. ASSUME NEW v, NEW w, Fits(v, w) PROVE v \in Int
  BY <1>2 DEF Fits
<1>3. /\ value.spread \in Int /\ value.momentum \in Int /\ value.vwap_delta \in Int
      /\ value.imbalance \in Int /\ value.volume \in Int /\ value.vwap \in Int
  BY <1>1, <1>2
<1> HIDE DEF value
<1>4. CASE n = "score"
  BY <1>4 DEF ValueOf
<1>5. CASE n # "score"
  <2>1. ValueOf(c, n) = value[n]
    BY <1>5 DEF ValueOf, value
  <2> QED BY <1>3, <1>5, <2>1 DEF Columns
<1> QED BY <1>4, <1>5

(* What the strategy counts of one evaluation. *)
LEMMA MetricsOfEvaluation ==
  ASSUME NEW config, NEW strat, NEW f, NEW d, d = evaluate(config, strat, f),
         NEW m, m = strat.metrics, {"long", "short", "invalid"} \subseteq DOMAIN m,
         m.long \in Nat, m.short \in Nat, m.invalid \in Nat, NEW new, new = d.strategy.metrics
  PROVE  /\ {"long", "short", "invalid"} \subseteq DOMAIN new
         /\ new.long = m.long + Bit(d.signal.action = LONG)
         /\ new.short = m.short + Bit(d.signal.action = SHORT)
         /\ new.invalid = m.invalid + Bit("invalid_feature" \in d.signal.reason)
<1> DEFINE action == IF candidate_fire(config, strat, f) THEN raw_direction(config, f) ELSE NONE
           valid == feature_set_valid(f)
           suppressed == raw_direction(config, f) # NONE /\ ~candidate_fire(config, strat, f)
<1>1. /\ d.signal.action = action /\ d.signal.reason = reason_bits(config, strat, f)
      /\ new = Counted(m, action, valid, suppressed)
  BY DEF evaluate
<1>2. "invalid_feature" \in reason_bits(config, strat, f) <=> ~valid
  <2>1. "invalid_feature" \notin Passes(config, f)
    BY DEF Passes, long_pass, short_pass, Common, Directional
  <2> HIDE DEF suppressed, action
  <2> QED BY <2>1 DEF reason_bits
<1> HIDE DEF action, valid, suppressed
<1>3. /\ DOMAIN new = DOMAIN m
      /\ new.long = (IF action = LONG THEN m.long + 1 ELSE m.long)
      /\ new.short = (IF action = SHORT THEN m.short + 1 ELSE m.short)
      /\ new.invalid = (IF valid THEN m.invalid ELSE m.invalid + 1)
  BY <1>1 DEF Counted
<1> QED BY <1>1, <1>2, <1>3 DEF Bit

LEMMA MetricsAt ==
  ASSUME NEW d PROVE StrategyAt(d).metrics = strategy.metrics
BY DEF StrategyAt, reset_strategy, NewStrategy

LEMMA LogsGrow ==
  ASSUME Logs, Until(log, now), NEW c, FeatureOK(c.feature), c.score \in Nat, c.time \in Nat,
         c.action \in {NONE, LONG, SHORT}, now <= c.time, now \in Nat
  PROVE  \E S : /\ log \in Seq(S) /\ c \in S /\ Numeric(S) /\ Timed(S) /\ Until(log, c.time)
               /\ Append(log, c) \in Seq(S) /\ Until(Append(log, c), c.time)
<1>1. PICK R : log \in Seq(R) /\ Numeric(R) /\ Timed(R)
  BY DEF Logs
<1> DEFINE S == R \cup {c}
           more == Append(log, c)
<1>2. Numeric(S)
  <2>1. \A n \in Columns : ValueOf(c, n) \in Int
    BY LoggedNumbers
  <2> QED BY <1>1, <2>1 DEF Numeric
<1>3. Timed(S)
  BY <1>1 DEF Timed
<1>4. log \in Seq(S) /\ c \in S
  BY <1>1
<1> HIDE DEF S
<1>5. more \in Seq(S)
  BY <1>4
<1>6. ASSUME NEW i \in DOMAIN log PROVE log[i].time <= c.time
  <2>1. log[i].time <= now
    BY DEF Until
  <2>2. log[i] \in S
    BY <1>4
  <2>3. log[i].time \in Nat
    BY <1>3, <2>2 DEF Timed
  <2> QED BY <2>1, <2>3
<1>7. ASSUME NEW i \in DOMAIN more PROVE more[i].time <= c.time
  <2>1. DOMAIN log = 1 .. Len(log) /\ Len(log) \in Nat /\ DOMAIN more = 1 .. Len(log) + 1
        /\ more[Len(log) + 1] = c /\ \A j \in 1 .. Len(log) : more[j] = log[j]
    BY <1>4
  <2> HIDE DEF more
  <2>2. CASE i = Len(log) + 1
    BY <2>1, <2>2
  <2>3. CASE i # Len(log) + 1
    <3>1. i \in DOMAIN log
      BY <2>1, <2>3
    <3>2. more[i] = log[i]
      BY <2>1, <3>1
    <3> QED BY <1>6, <3>1, <3>2
  <2> QED BY <2>2, <2>3
<1> HIDE DEF more
<1>8. Until(log, c.time) /\ Until(more, c.time)
  BY <1>6, <1>7 DEF Until
<1> QED BY <1>2, <1>3, <1>4, <1>5, <1>8 DEF more

(* What a streaming replay counts of an accepted event is what the longer log has. *)
LEMMA StreamingStep ==
  ASSUME Logs, Until(log, now), NEW c, FeatureOK(c.feature), c.score \in Nat, c.time \in Nat,
         c.action \in {NONE, LONG, SHORT}, now <= c.time, now \in Nat,
         GroupsTell(feature_stats, log), candidate_stats = candidate_summary(log),
         log' = Append(log, c), feature_stats' = observe_feature(feature_stats, c),
         candidate_stats' = observe_action(candidate_stats, c)
  PROVE  GroupsTell(feature_stats', log') /\ candidate_stats' = candidate_summary(log')
<1>1. PICK S : log \in Seq(S) /\ c \in S /\ Numeric(S) /\ Timed(S) /\ Until(log, c.time)
  BY LogsGrow
<1>2. GroupsTell(observe_feature(feature_stats, c), Append(log, c))
  BY <1>1, GroupsTellMore
<1>3. candidate_summary(Append(log, c)) = observe_action(candidate_summary(log), c)
  BY <1>1, SummaryGrows
<1> QED BY <1>2, <1>3

(* The strategy's counters stay numbers, and the statistics' grow as they do. *)
LEMMA MetricsStay ==
  ASSUME MetricsOK, NEW config, NEW strat, strat.metrics = strategy.metrics, NEW f,
         NEW decision, decision = evaluate(config, strat, f), strategy' = decision.strategy
  PROVE  MetricsOK'
<1> DEFINE m == strategy.metrics
           new == strategy'.metrics
<1>1. /\ {"long", "short", "invalid"} \subseteq DOMAIN m
      /\ m.long \in Nat /\ m.short \in Nat /\ m.invalid \in Nat
  BY DEF MetricsOK
<1>2. m = strat.metrics /\ new = decision.strategy.metrics
  OBVIOUS
<1> HIDE DEF m, new
<1>3. /\ {"long", "short", "invalid"} \subseteq DOMAIN new
      /\ new.long = m.long + Bit(decision.signal.action = LONG)
      /\ new.short = m.short + Bit(decision.signal.action = SHORT)
      /\ new.invalid = m.invalid + Bit("invalid_feature" \in decision.signal.reason)
  BY <1>1, <1>2, MetricsOfEvaluation
<1>4. new.long \in Nat /\ new.short \in Nat /\ new.invalid \in Nat
  BY <1>1, <1>3 DEF Bit
<1> QED BY <1>3, <1>4 DEF MetricsOK, new

LEMMA CountersGrow ==
  ASSUME MetricsOK, NEW config, NEW strat, strat.metrics = strategy.metrics, NEW f,
         NEW decision, decision = evaluate(config, strat, f), strategy' = decision.strategy,
         NEW c, c.action = decision.signal.action, c.reason = decision.signal.reason,
         c.action \in {NONE, LONG, SHORT},
         candidate_stats = candidate_summary(log), CountersAgree,
         candidate_stats' = observe_action(candidate_stats, c)
  PROVE  CountersAgree'
<1> DEFINE m == strategy.metrics
           new == strategy'.metrics
           actions == candidate_stats.actions
<1>1. /\ {"long", "short", "invalid"} \subseteq DOMAIN m
      /\ m.long \in Nat /\ m.short \in Nat /\ m.invalid \in Nat
  BY DEF MetricsOK
<1>2. m = strat.metrics /\ new = decision.strategy.metrics
  OBVIOUS
<1> HIDE DEF m, new
<1>3. /\ new.long = m.long + Bit(decision.signal.action = LONG)
      /\ new.short = m.short + Bit(decision.signal.action = SHORT)
      /\ new.invalid = m.invalid + Bit("invalid_feature" \in decision.signal.reason)
  BY <1>1, <1>2, MetricsOfEvaluation
<1>4. DOMAIN actions = {NONE, LONG, SHORT}
  BY DEF candidate_summary, NoActions
<1>5. /\ candidate_stats'.actions = [actions EXCEPT ![c.action] = @ + 1]
      /\ candidate_stats'.invalid = candidate_stats.invalid + Bit("invalid_feature" \in c.reason)
  BY DEF observe_action
<1>6. actions[LONG] = m.long /\ actions[SHORT] = m.short /\ candidate_stats.invalid = m.invalid
  BY DEF CountersAgree, m
<1> HIDE DEF actions
<1>7. /\ candidate_stats'.actions[LONG] = actions[LONG] + Bit(c.action = LONG)
      /\ candidate_stats'.actions[SHORT] = actions[SHORT] + Bit(c.action = SHORT)
  BY <1>1, <1>4, <1>5, <1>6 DEF Bit
<1>8. /\ candidate_stats'.actions[LONG] = new.long /\ candidate_stats'.actions[SHORT] = new.short
      /\ candidate_stats'.invalid = new.invalid
  BY <1>3, <1>5, <1>6, <1>7
<1> QED BY <1>8 DEF CountersAgree, new

LEMMA AcceptedStats ==
  ASSUME StatsInv, NEW e \in Offered(input_events + 1),
         AcceptedEvent(e, now + e.wait, day + e.days)
  PROVE  StatsInv'
<1> DEFINE t == now + e.wait
           d == day + e.days
           f == Result(e, d).feature
           decision == evaluate(cfg, StrategyAt(d), f)
           c == Entry(e, t, d, decision.signal, f)
<1>1. TypeInv' /\ Arrives(e, t, d)
  BY AcceptedTypes DEF StatsInv, AcceptedEvent
<1>2. e.wait \in Nat /\ now \in Nat
  <2>1. e.wait \in Nat
    BY <1>1, OfferedEvent DEF StatsInv, TypeInv
  <2> QED BY <2>1 DEF StatsInv, TypeInv, TypeOK
<1>3. /\ strategy' = decision.strategy /\ log' = Append(log, c) /\ Report(c)
  BY DEF AcceptedEvent
<1>4. c.time = t /\ c.score = decision.signal.score /\ c.action = decision.signal.action
      /\ c.reason = decision.signal.reason
  <2> HIDE DEF decision
  <2> QED BY DEF Entry
<1>5. now' = t /\ driver' = driver
  BY <1>1 DEF Arrives
<1>6. StrategyAt(d).metrics = strategy.metrics
  BY MetricsAt
<1>7. decision.signal.score \in Nat
  <2>1. decision.signal.score = Cardinality(Passes(cfg, f))
    BY DEF evaluate
  <2> QED BY <2>1, ScoreIsNumber
<1> HIDE DEF f, d
<1>8. decision = evaluate(cfg, StrategyAt(d), f)
  OBVIOUS
<1> HIDE DEF decision, c
<1>9. t \in Nat /\ now <= t
  BY <1>2
<1> HIDE DEF t
<1>10. FeatureOK(c.feature) /\ c.action \in {NONE, LONG, SHORT}
  <2>1. PICK S : log \in Seq(S)
    BY DEF StatsInv, Logs
  <2>2. Len(log) + 1 \in DOMAIN log' /\ log'[Len(log) + 1] = c
    BY <1>3, <2>1
  <2> QED BY <1>1, <2>2 DEF TypeInv, TypeOK
<1>11. Logs /\ Until(log, now) /\ MetricsOK
  BY DEF StatsInv
<1>12. c.score \in Nat /\ c.time \in Nat /\ now <= c.time
  BY <1>4, <1>7, <1>9
<1>13. PICK S : /\ log \in Seq(S) /\ c \in S /\ Numeric(S) /\ Timed(S) /\ Until(log, c.time)
               /\ Append(log, c) \in Seq(S) /\ Until(Append(log, c), c.time)
  BY <1>2, <1>10, <1>11, <1>12, LogsGrow
<1>14. Logs' /\ Until(log, now)'
  BY <1>3, <1>4, <1>5, <1>13 DEF Logs, Until
<1>15. MetricsOK'
  BY <1>3, <1>6, <1>8, <1>11, MetricsStay
<1>16. ASSUME driver' = "streaming"
       PROVE  GroupsTell(feature_stats', log') /\ candidate_stats' = candidate_summary(log')
              /\ CountersAgree'
  <2>1. GroupsTell(feature_stats, log) /\ candidate_stats = candidate_summary(log) /\ CountersAgree
    BY <1>5, <1>16 DEF StatsInv
  <2>2. /\ feature_stats' = observe_feature(feature_stats, c)
        /\ candidate_stats' = observe_action(candidate_stats, c)
    BY <1>3, <1>5, <1>16 DEF Report
  <2>3. GroupsTell(feature_stats', log') /\ candidate_stats' = candidate_summary(log')
    BY <1>2, <1>3, <1>10, <1>11, <1>12, <2>1, <2>2, StreamingStep
  <2>4. CountersAgree'
    BY <1>3, <1>4, <1>6, <1>8, <1>10, <1>11, <2>1, <2>2, CountersGrow
  <2> QED BY <2>3, <2>4
<1> QED BY <1>1, <1>14, <1>15, <1>16 DEF StatsInv, GroupsTell, Groups

LEMMA NextStats == ASSUME StatsInv, [Next]_vars PROVE StatsInv'
<1>1. ASSUME NEW e \in Offered(input_events + 1),
             AcceptedEvent(e, now + e.wait, day + e.days)
      PROVE  StatsInv'
  BY <1>1, AcceptedStats
<1>2. ASSUME NEW e \in Offered(input_events + 1),
             RejectedEvent(e, now + e.wait, day + e.days)
      PROVE  StatsInv'
  <2> DEFINE d == day + e.days
  <2>1. TypeInv'
    BY <1>2, RejectedTypes DEF StatsInv
  <2>2. /\ Arrives(e, now + e.wait, d) /\ strategy' = StrategyAt(d) /\ log' = log
        /\ feature_stats' = feature_stats /\ candidate_stats' = candidate_stats
    BY <1>2 DEF RejectedEvent, statistics
  <2>3. driver' = driver /\ now' = now + e.wait
    BY <2>2 DEF Arrives
  <2>4. strategy'.metrics = strategy.metrics
    BY <2>2, MetricsAt
  <2>5. e.wait \in Nat /\ now \in Nat
    <3>1. e.wait \in Nat
      BY <2>2, OfferedEvent DEF StatsInv, TypeInv
    <3> QED BY <3>1 DEF StatsInv, TypeInv, TypeOK
  <2>6. Until(log, now)'
    <3>1. PICK S : log \in Seq(S) /\ Timed(S)
      BY DEF StatsInv, Logs
    <3>2. ASSUME NEW i \in DOMAIN log PROVE log[i].time <= now'
      <4>1. log[i].time \in Nat
        <5>1. log[i] \in S
          BY <3>1
        <5> QED BY <3>1, <5>1 DEF Timed
      <4>2. log[i].time <= now
        BY DEF StatsInv, Until
      <4> QED BY <2>3, <2>5, <4>1, <4>2
    <3> QED BY <2>2, <3>2 DEF Until
  <2> QED BY <2>1, <2>2, <2>3, <2>4, <2>6
          DEF StatsInv, Logs, MetricsOK, CountersAgree, GroupsTell, Groups
<1>3. CASE EndOfReplay \/ UNCHANGED vars
  <2>1. /\ driver' = driver /\ now' = now /\ strategy' = strategy /\ log' = log
        /\ feature_stats' = feature_stats /\ candidate_stats' = candidate_stats
    BY <1>3 DEF EndOfReplay, vars, time, statistics
  <2>2. TypeInv'
    BY <1>3, NextTypes DEF StatsInv, Next
  <2> QED BY <2>1, <2>2
          DEF StatsInv, Logs, Until, MetricsOK, CountersAgree, GroupsTell, Groups
<1> QED BY <1>1, <1>2, <1>3 DEF Next

LEMMA InitStats == ASSUME Init PROVE StatsInv
<1>1. /\ log = <<>> /\ now = 0 /\ strategy = NewStrategy(Symbols)
      /\ feature_stats = NewFeatureStats(Groups) /\ candidate_stats = NewCandidateStats
  BY DEF Init
<1>2. Logs /\ Until(log, now)
  <2>1. log \in Seq({}) /\ Numeric({}) /\ Timed({})
    BY <1>1 DEF Numeric, Timed
  <2>2. Logs
    BY <2>1 DEF Logs
  <2> QED BY <1>1, <2>2 DEF Until
<1>3. /\ MetricsOK /\ strategy.metrics.long = 0 /\ strategy.metrics.short = 0
      /\ strategy.metrics.invalid = 0
  BY <1>1 DEF MetricsOK, NewStrategy, NewMetrics
<1>4. CountersAgree
  <2>1. candidate_stats.actions = NoActions /\ candidate_stats.invalid = 0
    BY <1>1 DEF NewCandidateStats
  <2>2. NoActions[LONG] = 0 /\ NoActions[SHORT] = 0
    BY DEF NoActions
  <2> QED BY <1>3, <2>1, <2>2 DEF CountersAgree
<1>5. GroupsTell(feature_stats, log) /\ candidate_stats = candidate_summary(log)
  BY <1>1, EmptyGroupsTell, EmptySummary
<1> QED BY <1>2, <1>3, <1>4, <1>5, InitTypes DEF StatsInv

(* For every list of events, every configuration and size of the sample: after *)
(* each event the counters and distributions a streaming replay keeps are what *)
(* the analysis of the complete list of features reports, its sample is the    *)
(* list of values as long as that fits and holds only such values afterwards,  *)
(* and the strategy has counted the same actions (feature_analysis.py          *)
(* StreamingFeatureAccumulator, StreamingCandidateAccumulator).                *)
THEOREM StatisticsAreOfTheLog == Spec => []StatisticsAgree
<1>1. Init => StatsInv
  BY InitStats
<1>2. StatsInv /\ [Next]_vars => StatsInv'
  BY NextStats
<1>3. StatsInv => StatisticsAgree
  <2> SUFFICES ASSUME StatsInv, driver = "streaming"
               PROVE  /\ \A g \in Groups, n \in Columns :
                            DistributionAgrees(feature_stats[g][n],
                                               feature_distributions(log, Groups)[g][n])
                      /\ candidate_stats = candidate_summary(log)
                      /\ CountersAgree
    BY DEF StatisticsAgree, CountersAgree
  <2>1. GroupsTell(feature_stats, log) /\ candidate_stats = candidate_summary(log) /\ CountersAgree
    BY DEF StatsInv
  <2>2. PICK S : log \in Seq(S) /\ Numeric(S)
    BY DEF StatsInv, Logs
  <2>3. ASSUME NEW g \in Groups, NEW n \in Columns
        PROVE  DistributionAgrees(feature_stats[g][n], feature_distributions(log, Groups)[g][n])
    <3> DEFINE rows == RowsOf(log, g)
               d == feature_stats[g][n]
    <3>1. rows \in Seq(S)
      BY <2>2, RowsType
    <3>2. Tells(d, rows, n)
      BY <2>1 DEF GroupsTell
    <3>3. feature_distributions(log, Groups)[g][n] = distribution_of(rows, n)
      BY DEF feature_distributions
    <3> HIDE DEF rows, d
    <3>4. ValuesOf(rows, n) \in Seq(Int)
      BY <2>2, <3>1, ValuesType
    <3>5. DistributionAgrees(d, distribution_of(rows, n))
      BY <2>2, <3>1, <3>2, <3>4, TellsAgrees
    <3> QED BY <3>3, <3>5 DEF d
  <2> QED BY <2>1, <2>3
<1> QED BY <1>1, <1>2, <1>3, PTL DEF Spec

----------------------------------------------------------------------------
(* Bijections and bags, and the heap of open horizons *)

(* Two correspondences side by side are one. *)
LEMMA JoinedBijection ==
  ASSUME NEW A, NEW B, NEW C, NEW D, NEW f \in Bijection(A, B), NEW g \in Bijection(C, D),
         A \cap C = {}, B \cap D = {}
  PROVE  [x \in A \cup C |-> IF x \in A THEN f[x] ELSE g[x]] \in Bijection(A \cup C, B \cup D)
<1> DEFINE h == [x \in A \cup C |-> IF x \in A THEN f[x] ELSE g[x]]
<1>1. /\ f \in [A -> B] /\ \A x, y \in A : f[x] = f[y] => x = y
      /\ \A y \in B : \E x \in A : f[x] = y
  BY Fun_BijectionProperties
<1>2. /\ g \in [C -> D] /\ \A x, y \in C : g[x] = g[y] => x = y
      /\ \A y \in D : \E x \in C : g[x] = y
  BY Fun_BijectionProperties
<1>3. /\ \A x \in A : h[x] = f[x] /\ h[x] \in B
      /\ \A x \in C : h[x] = g[x] /\ h[x] \in D
  BY <1>1, <1>2
<1>4. h \in [A \cup C -> B \cup D]
  BY <1>1, <1>2
<1> HIDE DEF h
<1>5. ASSUME NEW x \in A \cup C, NEW y \in A \cup C, h[x] = h[y] PROVE x = y
  BY <1>1, <1>2, <1>3, <1>5
<1>6. ASSUME NEW y \in B \cup D PROVE \E x \in A \cup C : h[x] = y
  BY <1>1, <1>2, <1>3
<1>7. h \in Bijection(A \cup C, B \cup D)
  BY <1>4, <1>5, <1>6, Fun_IsBij
<1> QED BY <1>7 DEF h

(* Two correspondences in a row are one. *)
Composed(g, f, A) == [x \in A |-> g[f[x]]]

LEMMA ComposedBijection ==
  ASSUME NEW A, NEW B, NEW C, NEW f \in Bijection(A, B), NEW g \in Bijection(B, C)
  PROVE  Composed(g, f, A) \in Bijection(A, C)
<1> DEFINE h == Composed(g, f, A)
<1>1. f \in [A -> B] /\ (\A x, y \in A : f[x] = f[y] => x = y) /\ (\A y \in B : \E x \in A : f[x] = y)
  BY Fun_BijectionProperties
<1>2. g \in [B -> C] /\ (\A x, y \in B : g[x] = g[y] => x = y) /\ (\A y \in C : \E x \in B : g[x] = y)
  BY Fun_BijectionProperties
<1>3. h \in [A -> C] /\ \A x \in A : h[x] = g[f[x]]
  BY <1>1, <1>2 DEF Composed
<1> HIDE DEF h
<1>4. \A x, y \in A : h[x] = h[y] => x = y
  BY <1>1, <1>2, <1>3
<1>5. ASSUME NEW z \in C PROVE \E x \in A : h[x] = z
  <2>1. PICK y \in B : g[y] = z
    BY <1>2
  <2>2. PICK x \in A : f[x] = y
    BY <1>1
  <2> QED BY <1>3, <2>1, <2>2
<1>6. h \in Bijection(A, C)
  BY <1>3, <1>4, <1>5, Fun_IsBij
<1> QED BY <1>6 DEF h

(* Part of a correspondence is one. *)
LEMMA PartOfBijection ==
  ASSUME NEW A, NEW B, NEW f \in Bijection(A, B), NEW S \in SUBSET A, NEW T \in SUBSET B,
         \A x \in A : x \in S <=> f[x] \in T
  PROVE  [x \in S |-> f[x]] \in Bijection(S, T)
<1> DEFINE h == [x \in S |-> f[x]]
<1>1. /\ f \in [A -> B] /\ \A x, y \in A : f[x] = f[y] => x = y
      /\ \A y \in B : \E x \in A : f[x] = y
  BY Fun_BijectionProperties
<1>2. h \in [S -> T] /\ \A x \in S : h[x] = f[x]
  BY <1>1
<1> HIDE DEF h
<1>3. \A x, y \in S : h[x] = h[y] => x = y
  BY <1>1, <1>2
<1>4. ASSUME NEW y \in T PROVE \E x \in S : h[x] = y
  <2>1. PICK x \in A : f[x] = y
    BY <1>1
  <2> QED BY <1>2, <2>1
<1>5. h \in Bijection(S, T)
  BY <1>2, <1>3, <1>4, Fun_IsBij
<1> QED BY <1>5 DEF h

(* Families that correspond have the same bag. *)
LEMMA SameBag ==
  ASSUME NEW f, NEW g, IsFiniteSet(DOMAIN f), NEW b \in Bijection(DOMAIN f, DOMAIN g),
         \A x \in DOMAIN f : f[x] = g[b[x]]
  PROVE  ToBag(f) = ToBag(g)
<1> DEFINE Places(s, v) == {i \in DOMAIN s : s[i] = v}
<1>1. /\ \A x \in DOMAIN f : b[x] \in DOMAIN g
      /\ \A y \in DOMAIN g : \E x \in DOMAIN f : b[x] = y
  BY Fun_BijectionProperties
<1>2. Range(f) = Range(g)
  <2>1. ASSUME NEW v \in Range(f) PROVE v \in Range(g)
    BY <1>1 DEF Range
  <2>2. ASSUME NEW v \in Range(g) PROVE v \in Range(f)
    BY <1>1 DEF Range
  <2> QED BY <2>1, <2>2
<1>3. ASSUME NEW v PROVE Cardinality(Places(f, v)) = Cardinality(Places(g, v))
  <2>1. Places(f, v) \in SUBSET DOMAIN f /\ Places(g, v) \in SUBSET DOMAIN g
    OBVIOUS
  <2>2. \A x \in DOMAIN f : x \in Places(f, v) <=> b[x] \in Places(g, v)
    BY <1>1
  <2> HIDE DEF Places
  <2>3. [x \in Places(f, v) |-> b[x]] \in Bijection(Places(f, v), Places(g, v))
    BY <2>1, <2>2, PartOfBijection
  <2>4. ExistsBijection(Places(f, v), Places(g, v))
    BY <2>3 DEF ExistsBijection
  <2>5. IsFiniteSet(Places(f, v))
    BY <2>1, FS_Subset
  <2> QED BY <2>4, <2>5, FS_Bijection
<1> DEFINE count(s, v) == Cardinality(Places(s, v))
<1> HIDE DEF Places
<1>4. ToBag(f) = [v \in Range(f) |-> count(f, v)] /\ ToBag(g) = [v \in Range(g) |-> count(g, v)]
  BY DEF ToBag, Places
<1>5. \A v : count(f, v) = count(g, v)
  BY <1>3
<1> HIDE DEF count
<1> QED BY <1>2, <1>4, <1>5

(* A finite set of items with different numbers is enumerated in the heap's order. *)
LEMMA HeapOrder ==
  ASSUME NEW items, IsFiniteSet(items), \A p \in items : p.target \in Int /\ p.id \in Int,
         \A p, q \in items : p.id = q.id => p = q
  PROVE  /\ Cardinality(items) \in Nat
         /\ DOMAIN InHeapOrder(items) = 1 .. Cardinality(items)
         /\ InHeapOrder(items) \in Bijection(1 .. Cardinality(items), items)
<1> DEFINE n == Cardinality(items)
           Below(p) == {q \in items : Before(q, p)}
           r == [p \in items |-> Cardinality(Below(p)) + 1]
           h == InHeapOrder(items)
<1>1. n \in Nat
  BY FS_CardinalityType
<1>2. ASSUME NEW p \in items
      PROVE  /\ IsFiniteSet(Below(p)) /\ Cardinality(Below(p)) \in 0 .. n - 1
  <2>1. Below(p) \in SUBSET items /\ p \notin Below(p)
    BY DEF Before
  <2> HIDE DEF Below
  <2>2. IsFiniteSet(Below(p)) /\ Cardinality(Below(p)) <= n /\ (n = Cardinality(Below(p)) => items = Below(p))
    BY <2>1, FS_Subset
  <2>3. Cardinality(Below(p)) \in Nat
    BY <2>2, FS_CardinalityType
  <2> QED BY <1>1, <2>1, <2>2, <2>3
<1>3. ASSUME NEW p \in items, NEW q \in items, Before(p, q)
      PROVE  Cardinality(Below(p)) < Cardinality(Below(q))
  <2>1. \A x \in items : Before(x, p) => Before(x, q)
    BY <1>3 DEF Before
  <2>2. Below(p) \in SUBSET Below(q)
    BY <2>1
  <2>3. p \in Below(q) /\ p \notin Below(p)
    BY <1>3 DEF Before
  <2>4. /\ IsFiniteSet(Below(q)) /\ Cardinality(Below(p)) \in 0 .. n - 1
        /\ Cardinality(Below(q)) \in 0 .. n - 1
    BY <1>2
  <2> HIDE DEF Below
  <2>5. /\ Cardinality(Below(p)) <= Cardinality(Below(q))
        /\ Cardinality(Below(q)) = Cardinality(Below(p)) => Below(q) = Below(p)
    BY <2>2, <2>4, FS_Subset
  <2> QED BY <1>1, <2>3, <2>4, <2>5
<1>4. \A p, q \in items : p = q \/ Before(p, q) \/ Before(q, p)
  BY DEF Before
<1> HIDE DEF Below
<1>5. r \in [items -> 1 .. n]
  BY <1>1, <1>2
<1>6. \A p \in items : r[p] = Cardinality(Below(p)) + 1
  OBVIOUS
<1> HIDE DEF r, n
<1>7. ASSUME NEW p \in items, NEW q \in items, r[p] = r[q] PROVE p = q
  <2>1. Cardinality(Below(p)) = Cardinality(Below(q))
    BY <1>1, <1>2, <1>6, <1>7
  <2>2. ~Before(p, q) /\ ~Before(q, p)
    BY <1>1, <1>2, <1>3, <2>1
  <2> QED BY <1>4, <2>2
<1>8. r \in Injection(items, 1 .. n)
  BY <1>5, <1>7, Fun_IsInj
<1>9. r \in Surjection(items, 1 .. n)
  <2>1. IsFiniteSet(1 .. n) /\ Cardinality(1 .. n) = n
    BY <1>1, FS_Interval
  <2>2. Cardinality(items) = n
    BY DEF n
  <2> QED BY <1>8, <2>1, <2>2, FS_Injection
<1>10. \A i \in 1 .. n : \E p \in items : r[p] = i
  BY <1>9 DEF Surjection
<1>11. h = [i \in 1 .. n |-> CHOOSE p \in items : Cardinality(Below(p)) = i - 1]
  BY DEF InHeapOrder, n, Below
<1> HIDE DEF h
<1>12. ASSUME NEW i \in 1 .. n PROVE h[i] \in items /\ r[h[i]] = i
  <2>1. PICK p \in items : r[p] = i
    BY <1>10
  <2>2. Cardinality(Below(p)) = i - 1
    BY <1>1, <1>2, <1>6, <2>1
  <2>3. h[i] = CHOOSE x \in items : Cardinality(Below(x)) = i - 1
    BY <1>11
  <2>4. h[i] \in items /\ Cardinality(Below(h[i])) = i - 1
    BY <2>2, <2>3
  <2> QED BY <1>1, <1>6, <2>4
<1>13. h \in [1 .. n -> items] /\ DOMAIN h = 1 .. n
  BY <1>11, <1>12
<1>14. \A i, j \in 1 .. n : h[i] = h[j] => i = j
  BY <1>12
<1>15. ASSUME NEW p \in items PROVE \E i \in 1 .. n : h[i] = p
  <2>1. r[p] \in 1 .. n
    BY <1>5
  <2>2. h[r[p]] \in items /\ r[h[r[p]]] = r[p]
    BY <1>12, <2>1
  <2> QED BY <1>7, <2>1, <2>2
<1>16. h \in Bijection(1 .. n, items)
  BY <1>13, <1>14, <1>15, Fun_IsBij
<1> QED BY <1>1, <1>13, <1>16 DEF h, n

----------------------------------------------------------------------------
(* A candidate's horizon: the quotes that close it, its row and its item in the heap *)

(* The open and closed horizons of the candidates at the given places of the log. *)
Pairs(places) == places \X DOMAIN Horizons
PriceAt(entries, p) == EntryPrice(entries[p[1]], entries[p[1]].action)

(* Whether c is a quote at which the horizon is closed. *)
Closes(entries, p, c) ==
  /\ c.kind = "quote" /\ c.sym = entries[p[1]].sym
  /\ entries[p[1]].time + Horizons[p[2]] <= c.time
  /\ PriceAt(entries, p) = NoPrice \/ ExitPrice(c, entries[p[1]].action) > 0
Closing(entries, p) == {j \in DOMAIN entries : Closes(entries, p, entries[j])}

ResultAt(entries, p, c) ==
  IF PriceAt(entries, p) = NoPrice THEN NoReturn
  ELSE Return(entries[p[1]].action, PriceAt(entries, p), ExitPrice(c, entries[p[1]].action))
RowOf(entries, p) ==
  Row(CandidateOf(entries[p[1]]), Horizons[p[2]],
      IF Closing(entries, p) = {} THEN NoReturn
      ELSE ResultAt(entries, p, entries[Min(Closing(entries, p))]))

(* An event more closes a horizon, or changes nothing about it. *)
LEMMA ClosingGrows ==
  ASSUME NEW S, NEW entries \in Seq(S), NEW c, NEW p, p[1] \in DOMAIN entries
  PROVE  /\ Append(entries, c)[p[1]] = entries[p[1]]
         /\ PriceAt(Append(entries, c), p) = PriceAt(entries, p)
         /\ Closes(Append(entries, c), p, c) = Closes(entries, p, c)
         /\ Closing(Append(entries, c), p) =
              IF Closes(entries, p, c) THEN Closing(entries, p) \cup {Len(entries) + 1}
              ELSE Closing(entries, p)
<1> DEFINE more == Append(entries, c)
           n == Len(entries)
<1>1. /\ n \in Nat /\ DOMAIN entries = 1 .. n /\ DOMAIN more = 1 .. n + 1 /\ more[n + 1] = c
      /\ \A i \in 1 .. n : more[i] = entries[i]
  OBVIOUS
<1> HIDE DEF more, n
<1>2. more[p[1]] = entries[p[1]]
  BY <1>1
<1>3. PriceAt(more, p) = PriceAt(entries, p)
  BY <1>2 DEF PriceAt
<1>4. \A x : Closes(more, p, x) = Closes(entries, p, x)
  BY <1>2, <1>3 DEF Closes
<1>5. \A j : j \in Closing(more, p) <=>
             (j \in Closing(entries, p) \/ (j = n + 1 /\ Closes(entries, p, c)))
  BY <1>1, <1>4 DEF Closing
<1>6. Closing(more, p) = IF Closes(entries, p, c) THEN Closing(entries, p) \cup {n + 1}
                         ELSE Closing(entries, p)
  BY <1>5
<1> QED BY <1>2, <1>3, <1>4, <1>6 DEF more, n

(* The row of a closed horizon stays as it is. *)
LEMMA RowStays ==
  ASSUME NEW S, NEW entries \in Seq(S), NEW c, NEW p, p[1] \in DOMAIN entries,
         Closing(entries, p) # {}
  PROVE  Closing(Append(entries, c), p) # {} /\ RowOf(Append(entries, c), p) = RowOf(entries, p)
<1> DEFINE more == Append(entries, c)
           n == Len(entries)
           old == Closing(entries, p)
           new == Closing(more, p)
<1>1. /\ n \in Nat /\ DOMAIN entries = 1 .. n /\ \A i \in 1 .. n : more[i] = entries[i]
  OBVIOUS
<1>2. /\ more[p[1]] = entries[p[1]] /\ PriceAt(more, p) = PriceAt(entries, p)
      /\ new = IF Closes(entries, p, c) THEN old \cup {n + 1} ELSE old
  BY ClosingGrows
<1>3. old \in SUBSET (1 .. n) /\ old # {}
  BY <1>1 DEF Closing
<1> HIDE DEF more, n, old, new
<1>4. PICK m \in old : \A x \in old : m <= x
  <2>1. old \in SUBSET Nat
    BY <1>1, <1>3
  <2> QED BY <1>3, <2>1, SmallestNumber
<1>5. m \in new /\ \A x \in new : m <= x
  BY <1>1, <1>2, <1>3, <1>4
<1>6. Min(old) = m
  <2>1. old \in SUBSET Int
    BY <1>1, <1>3
  <2> QED BY <1>4, <2>1, LeastIsMin
<1>7. Min(new) = m
  <2>1. new \in SUBSET Int
    BY <1>1, <1>2, <1>3
  <2> QED BY <1>5, <2>1, LeastIsMin
<1>8. more[m] = entries[m]
  BY <1>1, <1>3
<1>9. ResultAt(more, p, more[m]) = ResultAt(entries, p, entries[m])
  BY <1>2, <1>8 DEF ResultAt
<1>10. new # {}
  BY <1>5
<1>11. RowOf(more, p) = RowOf(entries, p)
  BY <1>2, <1>3, <1>6, <1>7, <1>9, <1>10 DEF RowOf, old, new
<1> QED BY <1>10, <1>11 DEF more, new

(* The row of a horizon that the event closes. *)
LEMMA RowCloses ==
  ASSUME NEW S, NEW entries \in Seq(S), NEW c, NEW p, p[1] \in DOMAIN entries,
         Closing(entries, p) = {}, Closes(entries, p, c)
  PROVE  /\ Closing(Append(entries, c), p) # {}
         /\ RowOf(Append(entries, c), p) =
              Row(CandidateOf(entries[p[1]]), Horizons[p[2]], ResultAt(entries, p, c))
<1> DEFINE more == Append(entries, c)
           n == Len(entries)
           new == Closing(more, p)
<1>1. n \in Nat /\ more[n + 1] = c
  OBVIOUS
<1>2. /\ more[p[1]] = entries[p[1]] /\ PriceAt(more, p) = PriceAt(entries, p)
      /\ new = {n + 1}
  BY ClosingGrows
<1> HIDE DEF more, n, new
<1>3. Min(new) = n + 1
  BY <1>1, <1>2, LeastIsMin
<1>4. ResultAt(more, p, more[n + 1]) = ResultAt(entries, p, c)
  BY <1>1, <1>2 DEF ResultAt
<1>5. RowOf(more, p) = Row(CandidateOf(entries[p[1]]), Horizons[p[2]], ResultAt(entries, p, c))
  BY <1>2, <1>3, <1>4 DEF RowOf, new
<1> QED BY <1>2, <1>5 DEF more, new

(* The horizon is open as long as no quote has closed it, with the same item. *)
Item(entries, p, id) ==
  [c |-> CandidateOf(entries[p[1]]), horizon |-> Horizons[p[2]],
   target |-> entries[p[1]].time + Horizons[p[2]], id |-> id, entry |-> PriceAt(entries, p)]

(* An entry more leaves the item of a horizon as it is. *)
LEMMA ItemStays ==
  ASSUME NEW S, NEW entries \in Seq(S), NEW c, NEW p, p[1] \in DOMAIN entries, NEW id
  PROVE  Item(Append(entries, c), p, id) = Item(entries, p, id)
BY ClosingGrows DEF Item

(* What the accumulator does with an item at a quote is what closes its horizon. *)
LEMMA ItemAtQuote ==
  ASSUME NEW entries, NEW c, c.kind = "quote", c.bid \in Nat, c.ask \in Nat, NEW p,
         NEW fw, NEW x \in fw.pending, x = Item(entries, p, x.id)
  PROVE  /\ x \in Due(fw, QuoteOf(c)) /\ ~Retried(x, QuoteOf(c)) <=> Closes(entries, p, c)
         /\ Row(x.c, x.horizon, IF x.entry = NoPrice THEN NoReturn
                                ELSE Return(x.c.action, x.entry, ExitPrice(QuoteOf(c), x.c.action)))
              = Row(CandidateOf(entries[p[1]]), Horizons[p[2]], ResultAt(entries, p, c))
<1> DEFINE i == p[1]
           q == QuoteOf(c)
           exit == ExitPrice(c, entries[i].action)
           entry == PriceAt(entries, p)
           t == entries[i].time + Horizons[p[2]]
<1>1. /\ x.c = CandidateOf(entries[i]) /\ x.horizon = Horizons[p[2]]
      /\ x.target = t /\ x.entry = entry
  BY DEF Item
<1>2. x.c.sym = entries[i].sym /\ x.c.action = entries[i].action
  BY <1>1 DEF CandidateOf
<1>3. q.sym = c.sym /\ q.time = c.time /\ \A a : ExitPrice(q, a) = ExitPrice(c, a)
  BY DEF QuoteOf, ExitPrice
<1>4. exit \in Nat
  BY DEF ExitPrice
<1>5. x \in Due(fw, q) <=> x.c.sym = q.sym /\ x.target <= q.time
  BY DEF Due
<1>6. Retried(x, q) <=> x.entry # NoPrice /\ ExitPrice(q, x.c.action) <= 0
  BY DEF Retried
<1>7. Closes(entries, p, c) <=> /\ c.sym = entries[i].sym /\ t <= c.time
                                /\ entry = NoPrice \/ exit > 0
  BY DEF Closes, i
<1>8. ResultAt(entries, p, c) = IF entry = NoPrice THEN NoReturn
                                ELSE Return(entries[i].action, entry, exit)
  BY DEF ResultAt
<1>9. ExitPrice(q, x.c.action) = exit
  BY <1>2, <1>3
<1> HIDE DEF q, i, exit, entry, t
<1>10. ~Retried(x, q) <=> entry = NoPrice \/ exit > 0
  BY <1>1, <1>4, <1>6, <1>9
<1>11. x \in Due(fw, q) <=> c.sym = entries[i].sym /\ t <= c.time
  BY <1>1, <1>2, <1>3, <1>5
<1>12. x \in Due(fw, q) /\ ~Retried(x, q) <=> Closes(entries, p, c)
  BY <1>7, <1>10, <1>11
<1> QED BY <1>1, <1>2, <1>8, <1>9, <1>12 DEF i, q

----------------------------------------------------------------------------
(* Rows and items for a set of horizons *)

Reports(rows, entries, pairs) ==
  \E f \in Bijection(DOMAIN rows, pairs) : \A k \in DOMAIN rows : rows[k] = RowOf(entries, f[k])
Awaits(pending, entries, pairs) ==
  \E f \in Bijection(pending, pairs) : \A x \in pending : x = Item(entries, f[x], x.id)
Numbered(pending, next_id) ==
  /\ \A x \in pending : x.id \in Nat /\ x.id < next_id
  /\ \A x, y \in pending : x.id = y.id => x = y

(* A report and a report of other horizons are one of both. *)
LEMMA ReportsJoin ==
  ASSUME NEW T, NEW rows \in Seq(T), NEW others \in Seq(T), NEW entries, NEW A, NEW B,
         A \cap B = {}, Reports(rows, entries, A), Reports(others, entries, B)
  PROVE  Reports(rows \o others, entries, A \cup B)
<1> DEFINE n == Len(rows)
           m == Len(others)
           all == rows \o others
<1>1. /\ n \in Nat /\ m \in Nat /\ DOMAIN rows = 1 .. n /\ DOMAIN others = 1 .. m
      /\ DOMAIN all = 1 .. n + m /\ \A k \in 1 .. n : all[k] = rows[k]
      /\ \A k \in n + 1 .. n + m : all[k] = others[k - n]
  OBVIOUS
<1> HIDE DEF n, m, all
<1>2. PICK f \in Bijection(1 .. n, A) : \A k \in 1 .. n : rows[k] = RowOf(entries, f[k])
  BY <1>1 DEF Reports
<1>3. PICK g \in Bijection(1 .. m, B) : \A k \in 1 .. m : others[k] = RowOf(entries, g[k])
  BY <1>1 DEF Reports
<1> DEFINE later == n + 1 .. n + m
           shift == [k \in later |-> k - n]
<1>4. shift \in Bijection(later, 1 .. m)
  <2>1. shift \in [later -> 1 .. m] /\ \A k \in later : shift[k] = k - n
    BY <1>1
  <2> HIDE DEF shift
  <2>2. \A k, l \in later : shift[k] = shift[l] => k = l
    BY <1>1, <2>1
  <2>3. ASSUME NEW k \in 1 .. m PROVE \E l \in later : shift[l] = k
    <3>1. n + k \in later
      BY <1>1
    <3>2. shift[n + k] = k
      BY <1>1, <2>1, <3>1
    <3> QED BY <3>1, <3>2
  <2> QED BY <2>1, <2>2, <2>3, Fun_IsBij
<1>5. \A k \in later : shift[k] = k - n
  OBVIOUS
<1> HIDE DEF shift
<1> DEFINE g2 == Composed(g, shift, later)
<1>6. g2 \in Bijection(later, B)
  <2> HIDE DEF later
  <2> QED BY <1>3, <1>4, ComposedBijection
<1>7. \A k \in later : g2[k] = g[k - n]
  BY <1>5 DEF Composed
<1>8. (1 .. n) \cap later = {} /\ (1 .. n) \cup later = 1 .. n + m
  BY <1>1
<1> HIDE DEF g2, later
<1> DEFINE first == 1 .. n
           h == [k \in first \cup later |-> IF k \in first THEN f[k] ELSE g2[k]]
<1>9. h \in Bijection(first \cup later, A \cup B)
  <2>1. f \in Bijection(first, A) /\ first \cap later = {}
    BY <1>2, <1>8
  <2> HIDE DEF first
  <2> QED BY <1>6, <2>1, JoinedBijection
<1>10. h \in Bijection(1 .. n + m, A \cup B)
  BY <1>8, <1>9
<1>11. ASSUME NEW k \in 1 .. n + m PROVE all[k] = RowOf(entries, h[k])
  <2>1. CASE k \in 1 .. n
    <3>1. h[k] = f[k]
      BY <1>8, <2>1
    <3> QED BY <1>1, <1>2, <2>1, <3>1
  <2>2. CASE k \notin 1 .. n
    <3>1. k \in later /\ k \in n + 1 .. n + m /\ k - n \in 1 .. m
      BY <1>1, <1>8, <2>2
    <3>2. h[k] = g[k - n]
      BY <1>7, <1>8, <2>2, <3>1
    <3>3. all[k] = others[k - n]
      BY <1>1, <3>1
    <3> QED BY <1>3, <3>1, <3>2, <3>3
  <2> QED BY <2>1, <2>2
<1> HIDE DEF h
<1>12. Reports(all, entries, A \cup B)
  BY <1>1, <1>10, <1>11 DEF Reports
<1> QED BY <1>12 DEF all

(* The rows written for a set of items. *)
LEMMA ReportsOfItems ==
  ASSUME NEW items, NEW entries, NEW pairs, NEW m \in Nat,
         NEW f \in Bijection(items, pairs), NEW h \in Bijection(1 .. m, items),
         NEW rows, DOMAIN rows = 1 .. m, \A k \in 1 .. m : rows[k] = RowOf(entries, f[h[k]])
  PROVE  Reports(rows, entries, pairs)
<1> DEFINE g == Composed(f, h, 1 .. m)
<1>1. g \in Bijection(1 .. m, pairs)
  BY ComposedBijection
<1>2. \A k \in 1 .. m : rows[k] = RowOf(entries, g[k])
  BY DEF Composed
<1> HIDE DEF g
<1> QED BY <1>1, <1>2 DEF Reports

(* Items under new numbers. *)
Renumber(h, next, m) == {[h[i] EXCEPT !.id = next + i - 1] : i \in 1 .. m}

(* Renumbered items are the items under new numbers, all different. *)
LEMMA Renumbered ==
  ASSUME NEW items, NEW m \in Nat, NEW h \in Bijection(1 .. m, items), NEW next \in Nat,
         \A y \in items : "id" \in DOMAIN y,
         NEW again, again = Renumber(h, next, m)
  PROVE  /\ \E e \in Bijection(again, items) : \A x \in again : x = [e[x] EXCEPT !.id = x.id]
         /\ \A x \in again : x.id \in next .. next + m - 1
         /\ \A x, y \in again : x.id = y.id => x = y
         /\ IsFiniteSet(again)
<1> DEFINE b == [i \in 1 .. m |-> [h[i] EXCEPT !.id = next + i - 1]]
<1>1. h \in [1 .. m -> items]
  BY Fun_BijectionProperties
<1>2. ASSUME NEW i \in 1 .. m
      PROVE  b[i] \in again /\ b[i].id = next + i - 1 /\ b[i] = [h[i] EXCEPT !.id = next + i - 1]
  BY <1>1 DEF Renumber
<1>3. b \in [1 .. m -> again] /\ \A x \in again : \E i \in 1 .. m : b[i] = x
  BY <1>2 DEF Renumber
<1> HIDE DEF b
<1>4. ASSUME NEW i \in 1 .. m, NEW j \in 1 .. m, b[i].id = b[j].id PROVE i = j
  <2>1. b[i].id = next + i - 1 /\ b[j].id = next + j - 1
    BY <1>2
  <2>2. next + i - 1 = next + j - 1
    BY <1>4, <2>1
  <2> QED BY <2>2
<1>5. b \in Bijection(1 .. m, again)
  BY <1>3, <1>4, Fun_IsBij
<1> DEFINE v == Inverse(b, 1 .. m, again)
<1>6. v \in Bijection(again, 1 .. m)
  BY <1>5, Fun_BijInverse
<1>7. ASSUME NEW x \in again PROVE v[x] \in 1 .. m /\ b[v[x]] = x
  <2>1. \E i \in 1 .. m : b[i] = x
    BY <1>3
  <2>2. x \in Range(b)
    BY <1>3, <2>1 DEF Range
  <2>3. v[x] = CHOOSE i \in 1 .. m : x \in Range(b) => b[i] = x
    BY DEF Inverse
  <2> QED BY <2>1, <2>2, <2>3
<1> HIDE DEF v
<1> DEFINE e == Composed(h, v, again)
<1>8. e \in Bijection(again, items)
  BY <1>6, ComposedBijection
<1>9. ASSUME NEW x \in again
      PROVE  x.id = next + v[x] - 1 /\ x = [e[x] EXCEPT !.id = x.id] /\ x.id \in next .. next + m - 1
  <2>1. v[x] \in 1 .. m /\ b[v[x]] = x
    BY <1>7
  <2>2. x.id = next + v[x] - 1 /\ x = [h[v[x]] EXCEPT !.id = next + v[x] - 1]
    BY <1>2, <2>1
  <2>3. e[x] = h[v[x]]
    BY DEF Composed
  <2> HIDE DEF e
  <2>4. x = [e[x] EXCEPT !.id = x.id]
    BY <2>2, <2>3
  <2>5. x.id \in next .. next + m - 1
    BY <2>1, <2>2
  <2> QED BY <2>2, <2>4, <2>5
<1> HIDE DEF e
<1>10. ASSUME NEW x \in again, NEW y \in again, x.id = y.id PROVE x = y
  <2>1. v[x] \in 1 .. m /\ b[v[x]] = x /\ v[y] \in 1 .. m /\ b[v[y]] = y
    BY <1>7
  <2>2. b[v[x]].id = b[v[y]].id
    BY <1>10, <2>1
  <2>3. v[x] = v[y]
    BY <1>4, <2>1, <2>2
  <2> QED BY <2>1, <2>3
<1>11. IsFiniteSet(again)
  <2>1. ExistsBijection(1 .. m, again)
    BY <1>5 DEF ExistsBijection
  <2>2. IsFiniteSet(1 .. m)
    BY FS_Interval
  <2> QED BY <2>1, <2>2, FS_Bijection
<1> QED BY <1>8, <1>9, <1>10, <1>11

----------------------------------------------------------------------------
(* What the accumulator keeps: rows of the closed horizons, items of the open ones *)

ClosedPairs(entries, places) == {p \in Pairs(places) : Closing(entries, p) # {}}
OpenPairs(entries, places) == {p \in Pairs(places) : Closing(entries, p) = {}}

(* The accumulator has reported the closed horizons of the candidates at the  *)
(* given places and waits for the open ones.                                  *)
Tracks(fw, entries, places) ==
  /\ \E T : fw.rows \in Seq(T)
  /\ Reports(fw.rows, entries, ClosedPairs(entries, places))
  /\ Awaits(fw.pending, entries, OpenPairs(entries, places))
  /\ IsFiniteSet(fw.pending) /\ fw.next_id \in Nat /\ Numbered(fw.pending, fw.next_id)

(* A function on 1 .. n is a list. *)
LEMMA ListOf ==
  ASSUME NEW T, NEW n \in Nat, NEW f \in [1 .. n -> T] PROVE f \in Seq(T) /\ Len(f) = n
OBVIOUS

(* The place and the target time of a horizon. *)
LEMMA PairOf ==
  ASSUME NEW entries, NEW places \in SUBSET DOMAIN entries, \A i \in places : entries[i].time \in Nat,
         NEW p \in Pairs(places)
  PROVE  /\ p[1] \in places /\ p[1] \in DOMAIN entries /\ Horizons[p[2]] \in Nat \ {0}
         /\ entries[p[1]].time + Horizons[p[2]] \in Nat
<1>1. p[1] \in places /\ p[2] \in DOMAIN Horizons
  BY DEF Pairs
<1>2. Horizons[p[2]] \in Nat \ {0}
  BY <1>1, ForwardAssumption
<1> QED BY <1>1, <1>2

(* Which horizons an event closes. *)
ClosedBy(entries, places, c) == {p \in OpenPairs(entries, places) : Closes(entries, p, c)}

(* An entry more moves the horizons it closes from the open to the closed. *)
LEMMA PairsAtEvent ==
  ASSUME NEW S, NEW entries \in Seq(S), NEW c, NEW places \in SUBSET DOMAIN entries,
         \A i \in places : entries[i].time \in Nat
  PROVE  /\ ClosedPairs(Append(entries, c), places) =
              ClosedPairs(entries, places) \cup ClosedBy(entries, places, c)
         /\ OpenPairs(Append(entries, c), places) =
              OpenPairs(entries, places) \ ClosedBy(entries, places, c)
         /\ ClosedPairs(entries, places) \cap ClosedBy(entries, places, c) = {}
<1> DEFINE more == Append(entries, c)
           at == ClosedBy(entries, places, c)
           n == Len(entries)
<1>1. ASSUME NEW p \in Pairs(places)
      PROVE  Closing(more, p) = IF Closes(entries, p, c) THEN Closing(entries, p) \cup {n + 1}
                                ELSE Closing(entries, p)
  <2>1. p[1] \in DOMAIN entries
    BY PairOf
  <2> QED BY <2>1, ClosingGrows
<1> HIDE DEF more, n
<1>2. ASSUME NEW p \in Pairs(places)
      PROVE  Closing(more, p) = {} <=> Closing(entries, p) = {} /\ ~Closes(entries, p, c)
  BY <1>1
<1>3. ClosedPairs(more, places) = ClosedPairs(entries, places) \cup at
  BY <1>2 DEF ClosedPairs, OpenPairs, ClosedBy
<1>4. OpenPairs(more, places) = OpenPairs(entries, places) \ at
  BY <1>2 DEF OpenPairs, ClosedBy
<1>5. ClosedPairs(entries, places) \cap at = {}
  BY DEF ClosedPairs, OpenPairs, ClosedBy
<1> QED BY <1>3, <1>4, <1>5 DEF more

(* What is already reported stays true. *)
LEMMA ReportsStay ==
  ASSUME NEW S, NEW entries \in Seq(S), NEW c, NEW places \in SUBSET DOMAIN entries,
         \A i \in places : entries[i].time \in Nat,
         NEW rows, Reports(rows, entries, ClosedPairs(entries, places))
  PROVE  Reports(rows, Append(entries, c), ClosedPairs(entries, places))
<1> DEFINE pairs == ClosedPairs(entries, places)
<1>1. PICK f \in Bijection(DOMAIN rows, pairs) : \A k \in DOMAIN rows : rows[k] = RowOf(entries, f[k])
  BY DEF Reports
<1>2. ASSUME NEW p \in pairs PROVE RowOf(Append(entries, c), p) = RowOf(entries, p)
  <2>1. p \in Pairs(places) /\ Closing(entries, p) # {}
    BY DEF ClosedPairs
  <2>2. p[1] \in DOMAIN entries
    BY <2>1, PairOf
  <2> QED BY <2>1, <2>2, RowStays
<1> HIDE DEF pairs
<1>3. \A k \in DOMAIN rows : f[k] \in pairs
  BY Fun_BijectionProperties
<1>4. \A k \in DOMAIN rows : rows[k] = RowOf(Append(entries, c), f[k])
  BY <1>1, <1>2, <1>3
<1>5. Reports(rows, Append(entries, c), pairs)
  BY <1>4 DEF Reports
<1> QED BY <1>5 DEF pairs

(* An event that closes nothing leaves everything as it is. *)
LEMMA OtherTracks ==
  ASSUME NEW S, NEW entries \in Seq(S), NEW c, c.kind # "quote",
         NEW places \in SUBSET DOMAIN entries, \A i \in places : entries[i].time \in Nat,
         NEW fw, Tracks(fw, entries, places)
  PROVE  Tracks(fw, Append(entries, c), places)
<1> DEFINE more == Append(entries, c)
<1>1. \A p : ~Closes(entries, p, c)
  BY DEF Closes
<1>2. /\ ClosedPairs(more, places) = ClosedPairs(entries, places)
      /\ OpenPairs(more, places) = OpenPairs(entries, places)
  <2>1. ClosedBy(entries, places, c) = {}
    BY <1>1 DEF ClosedBy
  <2>2. /\ ClosedPairs(more, places) = ClosedPairs(entries, places) \cup ClosedBy(entries, places, c)
        /\ OpenPairs(more, places) = OpenPairs(entries, places) \ ClosedBy(entries, places, c)
    BY PairsAtEvent
  <2> HIDE DEF more
  <2> QED BY <2>1, <2>2
<1>3. Reports(fw.rows, more, ClosedPairs(entries, places))
  BY ReportsStay DEF Tracks
<1>4. PICK f \in Bijection(fw.pending, OpenPairs(entries, places)) :
        \A x \in fw.pending : x = Item(entries, f[x], x.id)
  BY DEF Tracks, Awaits
<1>5. ASSUME NEW x \in fw.pending PROVE x = Item(more, f[x], x.id)
  <2>1. f[x] \in Pairs(places)
    BY Fun_BijectionProperties DEF OpenPairs
  <2>2. f[x][1] \in DOMAIN entries
    BY <2>1, PairOf
  <2>3. Item(more, f[x], x.id) = Item(entries, f[x], x.id)
    BY <2>2, ItemStays
  <2> QED BY <1>4, <2>3
<1>6. Awaits(fw.pending, more, OpenPairs(entries, places))
  BY <1>5 DEF Awaits
<1> QED BY <1>2, <1>3, <1>6 DEF Tracks

(* A quote reports what it closes, and keeps the rest waiting, some of it under new numbers. *)
LEMMA QuoteTracks ==
  ASSUME NEW S, NEW entries \in Seq(S), NEW c, c.kind = "quote", c.bid \in Nat, c.ask \in Nat,
         NEW places \in SUBSET DOMAIN entries, \A i \in places : entries[i].time \in Nat,
         NEW fw, Tracks(fw, entries, places)
  PROVE  Tracks(observe_quote(fw, QuoteOf(c)), Append(entries, c), places)
<1> DEFINE more == Append(entries, c)
           q == QuoteOf(c)
           pending == fw.pending
           due == Due(fw, q)
           R == {x \in due : Retried(x, q)}
           K == {x \in due : ~Retried(x, q)}
           hR == InHeapOrder(R)
           hK == InHeapOrder(K)
           RowFor(x) == Row(x.c, x.horizon, IF x.entry = NoPrice THEN NoReturn
                            ELSE Return(x.c.action, x.entry, ExitPrice(q, x.c.action)))
           rows == [i \in DOMAIN hK |-> RowFor(hK[i])]
           again == {[hR[i] EXCEPT !.id = fw.next_id + i - 1] : i \in DOMAIN hR}
           stay == pending \ due
           open == OpenPairs(entries, places)
           closed == ClosedBy(entries, places, c)
           new == observe_quote(fw, q)
<1>1. PICK f \in Bijection(pending, open) : \A x \in pending : x = Item(entries, f[x], x.id)
  BY DEF Tracks, Awaits
<1>2. /\ f \in [pending -> open] /\ \A x, y \in pending : f[x] = f[y] => x = y
      /\ \A p \in open : \E x \in pending : f[x] = p
  BY Fun_BijectionProperties
<1>3. ASSUME NEW x \in pending
      PROVE  /\ x.target \in Int /\ x.id \in Int /\ "id" \in DOMAIN x
             /\ f[x][1] \in DOMAIN entries /\ Closing(entries, f[x]) = {}
             /\ RowFor(x) = Row(CandidateOf(entries[f[x][1]]), Horizons[f[x][2]],
                                ResultAt(entries, f[x], c))
             /\ x = Item(entries, f[x], x.id)
  <2>1. x = Item(entries, f[x], x.id) /\ x.id \in Nat
    BY <1>1 DEF Tracks, Numbered
  <2>2. f[x] \in Pairs(places) /\ Closing(entries, f[x]) = {}
    BY <1>2 DEF OpenPairs
  <2>3. f[x][1] \in DOMAIN entries /\ entries[f[x][1]].time + Horizons[f[x][2]] \in Nat
    BY <2>2, PairOf
  <2>4. x.target \in Nat /\ "id" \in DOMAIN x
    BY <2>1, <2>3 DEF Item
  <2>5. RowFor(x) = Row(CandidateOf(entries[f[x][1]]), Horizons[f[x][2]], ResultAt(entries, f[x], c))
    BY <2>1, ItemAtQuote
  <2> QED BY <2>1, <2>2, <2>3, <2>4, <2>5
<1>4. ASSUME NEW x \in pending PROVE x \in K <=> f[x] \in closed
  <2>1. x = Item(entries, f[x], x.id)
    BY <1>1
  <2>2. x \in due /\ ~Retried(x, q) <=> Closes(entries, f[x], c)
    BY <2>1, ItemAtQuote
  <2>3. f[x] \in open
    BY <1>2
  <2> QED BY <2>2, <2>3 DEF ClosedBy
<1>5. /\ R \in SUBSET pending /\ K \in SUBSET pending /\ stay \in SUBSET pending
      /\ due = R \cup K /\ R \cap K = {} /\ closed \in SUBSET open
      /\ stay \cap due = {} /\ stay \cup due = pending
  BY DEF Due, ClosedBy
<1>6. new.rows = fw.rows \o rows /\ new.pending = stay \cup again /\ new.next_id = fw.next_id + Len(hR)
  BY DEF observe_quote
<1> HIDE DEF RowFor, due, open, closed, new, more
<1>7. IsFiniteSet(pending) /\ fw.next_id \in Nat /\ Numbered(pending, fw.next_id)
  BY DEF Tracks
<1>8. IsFiniteSet(R) /\ IsFiniteSet(K) /\ IsFiniteSet(stay)
  BY <1>5, <1>7, FS_Subset
<1> DEFINE r == Cardinality(R)
           k == Cardinality(K)
<1>9. r \in Nat /\ DOMAIN hR = 1 .. r /\ hR \in Bijection(1 .. r, R)
  <2>1. /\ \A x \in R : x.target \in Int /\ x.id \in Int
        /\ \A x, y \in R : x.id = y.id => x = y
    BY <1>3, <1>5, <1>7 DEF Numbered
  <2> HIDE DEF R
  <2> QED BY <1>8, <2>1, HeapOrder
<1>10. k \in Nat /\ DOMAIN hK = 1 .. k /\ hK \in Bijection(1 .. k, K)
  <2>1. /\ \A x \in K : x.target \in Int /\ x.id \in Int
        /\ \A x, y \in K : x.id = y.id => x = y
    BY <1>3, <1>5, <1>7 DEF Numbered
  <2> HIDE DEF K
  <2> QED BY <1>8, <2>1, HeapOrder
<1>11. Len(hR) = r
  <2>1. hR \in [1 .. r -> R]
    BY <1>9, Fun_BijectionProperties
  <2> HIDE DEF R, hR, r
  <2> QED BY <1>9, <2>1, ListOf
<1> HIDE DEF R, K, hR, hK, r, k, stay
<1>12. /\ ClosedPairs(more, places) = ClosedPairs(entries, places) \cup closed
       /\ OpenPairs(more, places) = open \ closed
       /\ ClosedPairs(entries, places) \cap closed = {}
  BY PairsAtEvent DEF more, open, closed
(* The rows *)
<1>13. Reports(fw.rows, more, ClosedPairs(entries, places))
  BY ReportsStay DEF Tracks, more
<1>14. Reports(rows, more, closed)
  <2> DEFINE g == [x \in K |-> f[x]]
  <2>1. g \in Bijection(K, closed)
    BY <1>1, <1>4, <1>5, PartOfBijection
  <2>2. ASSUME NEW i \in 1 .. k PROVE rows[i] = RowOf(more, g[hK[i]])
    <3> DEFINE x == hK[i]
    <3>1. x \in K
      BY <1>10, Fun_BijectionProperties
    <3>2. rows[i] = RowFor(x) /\ g[x] = f[x]
      BY <1>10, <3>1
    <3> HIDE DEF x, rows, g
    <3>3. x \in pending /\ Closes(entries, f[x], c)
      BY <1>4, <1>5, <3>1 DEF closed, ClosedBy
    <3>4. RowOf(more, f[x]) = Row(CandidateOf(entries[f[x][1]]), Horizons[f[x][2]],
                                  ResultAt(entries, f[x], c))
      BY <1>3, <3>3, RowCloses DEF more
    <3> QED BY <1>3, <3>2, <3>3, <3>4 DEF x
  <2>3. DOMAIN rows = 1 .. k
    BY <1>10
  <2> HIDE DEF g, rows
  <2> QED BY <1>10, <2>1, <2>2, <2>3, ReportsOfItems
<1>15. (\E T : new.rows \in Seq(T)) /\ Reports(new.rows, more, ClosedPairs(more, places))
  <2>1. PICK T : fw.rows \in Seq(T)
    BY DEF Tracks
  <2> DEFINE U == T \cup {rows[i] : i \in 1 .. k}
  <2>2. rows \in [1 .. k -> U]
    BY <1>10
  <2>3. fw.rows \in Seq(U)
    BY <2>1
  <2> HIDE DEF U, rows
  <2>4. rows \in Seq(U)
    BY <1>10, <2>2, ListOf
  <2>5. new.rows \in Seq(U)
    BY <1>6, <2>3, <2>4
  <2>6. Reports(fw.rows \o rows, more, ClosedPairs(entries, places) \cup closed)
    BY <1>12, <1>13, <1>14, <2>3, <2>4, ReportsJoin
  <2> QED BY <1>6, <1>12, <2>5, <2>6
<1> HIDE DEF rows
(* The items *)
<1>16. /\ \E e \in Bijection(again, R) : \A x \in again : x = [e[x] EXCEPT !.id = x.id]
       /\ \A x \in again : x.id \in fw.next_id .. fw.next_id + r - 1
       /\ \A x, y \in again : x.id = y.id => x = y
       /\ IsFiniteSet(again)
  <2>1. \A y \in R : "id" \in DOMAIN y
    BY <1>3, <1>5
  <2>2. again = Renumber(hR, fw.next_id, r)
    BY <1>9 DEF Renumber
  <2> HIDE DEF again
  <2> QED BY <1>7, <1>9, <2>1, <2>2, Renumbered
<1> HIDE DEF again
<1>17. PICK e \in Bijection(again, R) : \A x \in again : x = [e[x] EXCEPT !.id = x.id]
  BY <1>16
<1>18. \A x \in again : e[x] \in R
  BY Fun_BijectionProperties
<1> DEFINE kept == {f[x] : x \in stay}
           waits == {f[x] : x \in R}
           fS == [x \in stay |-> f[x]]
           fR == [x \in R |-> f[x]]
           fA == Composed(fR, e, again)
           g == [x \in stay \cup again |-> IF x \in stay THEN fS[x] ELSE fA[x]]
<1>19. fS \in Bijection(stay, kept) /\ fR \in Bijection(R, waits)
  <2>1. kept \in SUBSET open /\ waits \in SUBSET open
    BY <1>2, <1>5
  <2>2. (\A x \in pending : x \in stay <=> f[x] \in kept) /\ (\A x \in pending : x \in R <=> f[x] \in waits)
    BY <1>2, <1>5
  <2> HIDE DEF kept, waits
  <2> QED BY <1>1, <1>5, <2>1, <2>2, PartOfBijection
<1>20. kept \cap waits = {} /\ kept \cup waits = OpenPairs(more, places)
  <2>1. kept \cap waits = {}
    BY <1>2, <1>5
  <2>2. ASSUME NEW p \in kept \cup waits PROVE p \in open \ closed
    <3>1. PICK x \in pending : f[x] = p /\ x \notin K
      BY <1>5
    <3> QED BY <1>2, <1>4, <3>1
  <2>3. ASSUME NEW p \in open \ closed PROVE p \in kept \cup waits
    <3>1. PICK x \in pending : f[x] = p
      BY <1>2
    <3>2. x \notin K
      BY <1>4, <3>1
    <3> QED BY <1>5, <3>1, <3>2
  <2> QED BY <1>12, <2>1, <2>2, <2>3
<1>21. fA \in Bijection(again, waits)
  <2> HIDE DEF fR, waits
  <2> QED BY <1>17, <1>19, ComposedBijection
<1>22. \A x \in stay : x.id \in Nat /\ x.id < fw.next_id
  BY <1>5, <1>7 DEF Numbered
<1>23. stay \cap again = {}
  BY <1>7, <1>16, <1>22
<1>24. /\ \A x \in stay : fS[x] = f[x]
       /\ \A x \in again : fA[x] = f[e[x]]
  <2>1. \A x \in R : fR[x] = f[x]
    OBVIOUS
  <2>2. \A x \in again : fA[x] = fR[e[x]]
    <3> HIDE DEF fR
    <3> QED BY DEF Composed
  <2>3. \A x \in stay : fS[x] = f[x]
    OBVIOUS
  <2> HIDE DEF fR, fA, fS
  <2> QED BY <1>18, <2>1, <2>2, <2>3
<1> HIDE DEF kept, waits, fS, fR, fA
<1>25. g \in Bijection(stay \cup again, kept \cup waits)
  <2>1. fS \in Bijection(stay, kept) /\ fA \in Bijection(again, waits) /\ kept \cap waits = {}
    BY <1>19, <1>20, <1>21
  <2> QED BY <1>23, <2>1, JoinedBijection
<1>26. /\ \A x \in stay : g[x] = f[x]
       /\ \A x \in again : g[x] = f[e[x]]
  BY <1>23, <1>24
<1> HIDE DEF g
<1>27. ASSUME NEW x \in stay \cup again PROVE x = Item(more, g[x], x.id)
  <2>1. CASE x \in stay
    <3>1. x \in pending /\ g[x] = f[x]
      BY <1>5, <1>26, <2>1
    <3>2. x = Item(entries, f[x], x.id) /\ f[x][1] \in DOMAIN entries
      BY <1>3, <3>1
    <3>3. Item(more, f[x], x.id) = Item(entries, f[x], x.id)
      BY <3>2, ItemStays DEF more
    <3> QED BY <3>1, <3>2, <3>3
  <2>2. CASE x \in again
    <3> DEFINE y == e[x]
    <3>1. y \in pending /\ g[x] = f[y] /\ x = [y EXCEPT !.id = x.id]
      BY <1>5, <1>17, <1>18, <1>26, <2>2
    <3> HIDE DEF y
    <3>2. y = Item(entries, f[y], y.id) /\ f[y][1] \in DOMAIN entries
      BY <1>3, <3>1
    <3>3. [Item(entries, f[y], y.id) EXCEPT !.id = x.id] = Item(entries, f[y], x.id)
      BY DEF Item
    <3>4. Item(more, f[y], x.id) = Item(entries, f[y], x.id)
      BY <3>2, ItemStays DEF more
    <3>5. [y EXCEPT !.id = x.id] = Item(entries, f[y], x.id)
      BY <3>2, <3>3
    <3> QED BY <3>1, <3>4, <3>5
  <2> QED BY <2>1, <2>2
<1>28. Awaits(new.pending, more, OpenPairs(more, places))
  BY <1>6, <1>20, <1>25, <1>27 DEF Awaits
<1>29. IsFiniteSet(new.pending)
  <2>1. IsFiniteSet(stay \cup again)
    BY <1>8, <1>16, FS_Union
  <2> QED BY <1>6, <2>1
<1>30. new.next_id \in Nat /\ Numbered(new.pending, new.next_id)
  <2>1. new.next_id = fw.next_id + r /\ new.next_id \in Nat
    BY <1>6, <1>7, <1>9, <1>11
  <2>2. ASSUME NEW x \in stay \cup again PROVE x.id \in Nat /\ x.id < new.next_id
    BY <1>7, <1>9, <1>16, <1>22, <2>1
  <2>3. ASSUME NEW x \in stay \cup again, NEW y \in stay \cup again, x.id = y.id PROVE x = y
    <3>1. CASE x \in stay /\ y \in stay
      BY <1>5, <1>7, <2>3, <3>1 DEF Numbered
    <3>2. CASE x \in again /\ y \in again
      BY <1>16, <2>3, <3>2
    <3>3. ASSUME NEW u \in stay, NEW v \in again PROVE u.id # v.id
      BY <1>7, <1>9, <1>16, <1>22
    <3> QED BY <2>3, <3>1, <3>2, <3>3
  <2> QED BY <1>6, <2>1, <2>2, <2>3 DEF Numbered
<1> QED BY <1>15, <1>28, <1>29, <1>30 DEF Tracks, new, more

Accumulator(fw) == {"last_quotes", "pending", "next_id", "rows"} \subseteq DOMAIN fw

(* A candidate opens its horizons, all later than its own event. *)
LEMMA CandidateTracks ==
  ASSUME NEW S, NEW entries \in Seq(S), NEW n, n = Len(entries), NEW c, n # 0, c = entries[n],
         \A i \in 1 .. n : entries[i].time \in Nat /\ entries[i].time <= c.time,
         NEW places \in SUBSET (1 .. n - 1), NEW fw, Accumulator(fw), Tracks(fw, entries, places),
         NEW quote, quote = fw.last_quotes[c.sym], quote # NoQuote, quote.time <= c.time,
         quote.bid = c.bid, quote.ask = c.ask
  PROVE  Tracks(observe_candidate(fw, CandidateOf(c)), entries, places \cup {n})
<1> DEFINE H == Len(Horizons)
           next == fw.next_id
           pending == fw.pending
           opened == {Item(entries, <<n, h>>, next + h - 1) : h \in 1 .. H}
           old == OpenPairs(entries, places)
           fresh == Pairs({n})
           new == observe_candidate(fw, CandidateOf(c))
<1>1. /\ n \in Nat /\ n \in 1 .. n /\ DOMAIN entries = 1 .. n
      /\ H \in Nat /\ DOMAIN Horizons = 1 .. H
      /\ \A h \in 1 .. H : Horizons[h] \in Nat \ {0}
  BY ForwardAssumption
<1>2. new.pending = pending \cup opened /\ new.next_id = next + H /\ new.rows = fw.rows
  <2> DEFINE d == CandidateOf(c)
             entry == IF quote = NoQuote THEN NoPrice
                      ELSE IF quote.time <= d.time THEN EntryPrice(quote, d.action) ELSE NoPrice
             items == {[c |-> d, horizon |-> Horizons[h], target |-> d.time + Horizons[h],
                        id |-> next + h - 1, entry |-> entry] : h \in DOMAIN Horizons}
  <2>1. d.sym = c.sym /\ d.time = c.time /\ d.action = c.action
    BY DEF CandidateOf
  <2>2. new = [fw EXCEPT !.pending = @ \cup items, !.next_id = @ + H]
    BY <2>1 DEF observe_candidate
  <2>3. entry = EntryPrice(c, c.action)
    BY <2>1 DEF EntryPrice
  <2>4. ASSUME NEW h \in 1 .. H
        PROVE  [c |-> d, horizon |-> Horizons[h], target |-> d.time + Horizons[h],
                id |-> next + h - 1, entry |-> entry] = Item(entries, <<n, h>>, next + h - 1)
    <3>1. PriceAt(entries, <<n, h>>) = entry
      BY <2>3 DEF PriceAt
    <3> HIDE DEF entry
    <3> QED BY <2>1, <3>1 DEF Item
  <2>5. items = opened
    <3> HIDE DEF entry, d
    <3> QED BY <1>1, <2>4
  <2> HIDE DEF items, opened, new
  <2> QED BY <2>2, <2>5 DEF Accumulator
<1> HIDE DEF H, new
<1>3. next \in Nat /\ IsFiniteSet(pending) /\ Numbered(pending, next)
  BY DEF Tracks
<1> DEFINE g == [x \in opened |-> <<n, (x.id - next) + 1>>]
<1>4. ASSUME NEW h \in 1 .. H
      PROVE  /\ Item(entries, <<n, h>>, next + h - 1) \in opened
             /\ Item(entries, <<n, h>>, next + h - 1).id = next + h - 1
             /\ g[Item(entries, <<n, h>>, next + h - 1)] = <<n, h>>
  <2> DEFINE x == Item(entries, <<n, h>>, next + h - 1)
  <2>1. x \in opened
    OBVIOUS
  <2>2. x.id = next + h - 1
    BY DEF Item
  <2>3. (x.id - next) + 1 = h
    BY <1>1, <1>3, <2>2
  <2>4. g[x] = <<n, (x.id - next) + 1>>
    BY <2>1
  <2> QED BY <2>1, <2>2, <2>3, <2>4
<1>5. \A x \in opened : \E h \in 1 .. H : x = Item(entries, <<n, h>>, next + h - 1)
  OBVIOUS
<1>6. DOMAIN g = opened /\ g = [x \in opened |-> g[x]]
  OBVIOUS
<1> HIDE DEF g, opened
<1>7. g \in Bijection(opened, fresh)
  <2>1. \A p : p \in fresh <=> \E h \in 1 .. H : p = <<n, h>>
    BY <1>1 DEF Pairs
  <2> HIDE DEF fresh
  <2>2. \A x \in opened : g[x] \in fresh
    BY <1>4, <1>5, <2>1
  <2>3. g \in [opened -> fresh]
    BY <1>6, <2>2
  <2>4. ASSUME NEW x \in opened, NEW y \in opened, g[x] = g[y] PROVE x = y
    <3>1. PICK h \in 1 .. H : x = Item(entries, <<n, h>>, next + h - 1)
      BY <1>5
    <3>2. PICK i \in 1 .. H : y = Item(entries, <<n, i>>, next + i - 1)
      BY <1>5
    <3>3. <<n, h>> = <<n, i>>
      BY <1>4, <2>4, <3>1, <3>2
    <3> QED BY <3>1, <3>2, <3>3
  <2>5. ASSUME NEW p \in fresh PROVE \E x \in opened : g[x] = p
    <3>1. PICK h \in 1 .. H : p = <<n, h>>
      BY <2>1
    <3> QED BY <1>4, <3>1
  <2> QED BY <2>3, <2>4, <2>5, Fun_IsBij
<1>8. ASSUME NEW x \in opened
      PROVE  /\ x.id \in next .. next + H - 1 /\ x = Item(entries, g[x], x.id)
             /\ \A y \in opened : x.id = y.id => x = y
  <2>1. PICK h \in 1 .. H : x = Item(entries, <<n, h>>, next + h - 1)
    BY <1>5
  <2>2. x.id = next + h - 1 /\ g[x] = <<n, h>>
    BY <1>4, <2>1
  <2>3. ASSUME NEW y \in opened, x.id = y.id PROVE x = y
    <3>1. PICK i \in 1 .. H : y = Item(entries, <<n, i>>, next + i - 1)
      BY <1>5
    <3>2. y.id = next + i - 1
      BY <1>4, <3>1
    <3>3. h = i
      BY <1>1, <1>3, <2>2, <2>3, <3>2
    <3> QED BY <2>1, <3>1, <3>3
  <2>4. x.id \in next .. next + H - 1
    BY <1>1, <1>3, <2>2
  <2> QED BY <2>1, <2>2, <2>3, <2>4
<1>9. ASSUME NEW p \in fresh PROVE Closing(entries, p) = {}
  <2>1. p[1] = n /\ p[2] \in 1 .. H
    BY <1>1, <1>9 DEF Pairs
  <2>2. Horizons[p[2]] \in Nat \ {0} /\ c.time \in Nat
    BY <1>1, <2>1
  <2>3. ASSUME NEW j \in 1 .. n PROVE ~(entries[n].time + Horizons[p[2]] <= entries[j].time)
    <3>1. entries[j].time \in Nat /\ entries[j].time <= c.time
      OBVIOUS
    <3> QED BY <2>2, <3>1
  <2>4. \A j \in DOMAIN entries : ~Closes(entries, p, entries[j])
    BY <1>1, <2>1, <2>3 DEF Closes
  <2> QED BY <2>4 DEF Closing
<1>10. /\ Pairs(places \cup {n}) = Pairs(places) \cup fresh /\ Pairs(places) \cap fresh = {}
  <2>1. n \notin places
    BY <1>1
  <2> QED BY <2>1 DEF Pairs
<1> HIDE DEF fresh
<1>11. /\ ClosedPairs(entries, places \cup {n}) = ClosedPairs(entries, places)
       /\ OpenPairs(entries, places \cup {n}) = old \cup fresh /\ old \cap fresh = {}
  BY <1>9, <1>10 DEF ClosedPairs, OpenPairs
<1>12. PICK f \in Bijection(pending, old) : \A x \in pending : x = Item(entries, f[x], x.id)
  BY DEF Tracks, Awaits
<1>13. pending \cap opened = {}
  <2>1. ASSUME NEW x \in pending, x \in opened PROVE FALSE
    <3>1. x.id \in Nat /\ x.id < next
      BY <1>3 DEF Numbered
    <3>2. x.id \in next .. next + H - 1
      BY <1>8, <2>1
    <3> QED BY <1>1, <1>3, <3>1, <3>2
  <2> QED BY <2>1
<1> DEFINE all == [x \in pending \cup opened |-> IF x \in pending THEN f[x] ELSE g[x]]
<1> HIDE DEF old
<1>14. all \in Bijection(pending \cup opened, old \cup fresh)
  <2>1. f \in Bijection(pending, old) /\ old \cap fresh = {}
    BY <1>11, <1>12
  <2> HIDE DEF pending
  <2> QED BY <1>7, <1>13, <2>1, JoinedBijection
<1>15. ASSUME NEW x \in pending \cup opened PROVE x = Item(entries, all[x], x.id)
  <2>1. CASE x \in pending
    BY <1>12, <2>1
  <2>2. CASE x \notin pending
    <3>1. x \in opened /\ all[x] = g[x]
      BY <2>2
    <3> QED BY <1>8, <3>1
  <2> QED BY <2>1, <2>2
<1> HIDE DEF all
<1>16. Awaits(new.pending, entries, OpenPairs(entries, places \cup {n}))
  BY <1>2, <1>11, <1>14, <1>15 DEF Awaits
<1>17. IsFiniteSet(new.pending)
  <2>1. fresh = {n} \X (1 .. H)
    BY <1>1 DEF fresh, Pairs
  <2>2. IsFiniteSet(fresh)
    <3>1. IsFiniteSet({n})
      BY FS_Singleton
    <3>2. IsFiniteSet(1 .. H)
      BY <1>1, FS_Interval
    <3> QED BY <2>1, <3>1, <3>2, FS_Product
  <2>3. ExistsBijection(fresh, opened)
    BY <1>7, Fun_BijInverse DEF ExistsBijection
  <2>4. IsFiniteSet(opened)
    BY <2>2, <2>3, FS_Bijection
  <2>5. IsFiniteSet(pending \cup opened)
    BY <1>3, <2>4, FS_Union
  <2> QED BY <1>2, <2>5
<1>18. new.next_id \in Nat /\ Numbered(new.pending, new.next_id)
  <2>1. new.next_id = next + H /\ new.next_id \in Nat
    BY <1>1, <1>2, <1>3
  <2>2. ASSUME NEW x \in pending \cup opened PROVE x.id \in Nat /\ x.id < new.next_id
    <3>1. CASE x \in pending
      BY <1>1, <1>3, <2>1, <3>1 DEF Numbered
    <3>2. CASE x \in opened
      <4>1. x.id \in next .. next + H - 1
        BY <1>8, <3>2
      <4> QED BY <1>1, <1>3, <2>1, <4>1
    <3> QED BY <3>1, <3>2
  <2>3. ASSUME NEW x \in pending \cup opened, NEW y \in pending \cup opened, x.id = y.id PROVE x = y
    <3>1. CASE x \in pending /\ y \in pending
      BY <1>3, <2>3, <3>1 DEF Numbered
    <3>2. CASE x \in opened /\ y \in opened
      BY <1>8, <2>3, <3>2
    <3>3. ASSUME NEW u \in pending, NEW v \in opened PROVE u.id # v.id
      <4>1. u.id \in Nat /\ u.id < next
        BY <1>3 DEF Numbered
      <4>2. v.id \in next .. next + H - 1
        BY <1>8
      <4> QED BY <1>1, <1>3, <4>1, <4>2
    <3> QED BY <2>3, <3>1, <3>2, <3>3
  <2> QED BY <1>2, <2>1, <2>2, <2>3 DEF Numbered
<1>19. (\E T : new.rows \in Seq(T)) /\ Reports(new.rows, entries, ClosedPairs(entries, places \cup {n}))
  BY <1>2, <1>11 DEF Tracks
<1> QED BY <1>16, <1>17, <1>18, <1>19 DEF Tracks, new

(* At the end the horizons still open are reported without a return. *)
LEMMA FinishReports ==
  ASSUME NEW entries, NEW places \in SUBSET DOMAIN entries, \A i \in places : entries[i].time \in Nat,
         NEW fw, Accumulator(fw), Tracks(fw, entries, places)
  PROVE  /\ \E T : finish(fw).rows \in Seq(T)
         /\ Reports(finish(fw).rows, entries, Pairs(places))
<1> DEFINE items == fw.pending
           open == OpenPairs(entries, places)
           h == InHeapOrder(items)
           RowFor(x) == Row(x.c, x.horizon, NoReturn)
           rows == [i \in DOMAIN h |-> RowFor(h[i])]
           m == Cardinality(items)
<1>1. PICK f \in Bijection(items, open) : \A x \in items : x = Item(entries, f[x], x.id)
  BY DEF Tracks, Awaits
<1>2. ASSUME NEW x \in items
      PROVE  x.target \in Int /\ x.id \in Int /\ RowFor(x) = RowOf(entries, f[x])
  <2>1. x = Item(entries, f[x], x.id) /\ x.id \in Nat
    BY <1>1 DEF Tracks, Numbered
  <2>2. f[x] \in Pairs(places) /\ Closing(entries, f[x]) = {}
    BY Fun_BijectionProperties DEF OpenPairs
  <2>3. entries[f[x][1]].time + Horizons[f[x][2]] \in Nat
    BY <2>2, PairOf
  <2>4. x.target = entries[f[x][1]].time + Horizons[f[x][2]]
        /\ x.c = CandidateOf(entries[f[x][1]]) /\ x.horizon = Horizons[f[x][2]]
    BY <2>1 DEF Item
  <2>5. RowOf(entries, f[x]) = Row(CandidateOf(entries[f[x][1]]), Horizons[f[x][2]], NoReturn)
    BY <2>2 DEF RowOf
  <2> QED BY <2>1, <2>3, <2>4, <2>5
<1>3. finish(fw).rows = fw.rows \o rows
  BY DEF finish, Accumulator
<1> HIDE DEF RowFor, open
<1>4. m \in Nat /\ DOMAIN h = 1 .. m /\ h \in Bijection(1 .. m, items)
  <2>1. /\ \A x \in items : x.target \in Int /\ x.id \in Int
        /\ \A x, y \in items : x.id = y.id => x = y
    BY <1>2 DEF Tracks, Numbered
  <2>2. IsFiniteSet(items)
    BY DEF Tracks
  <2> HIDE DEF items
  <2> QED BY <2>1, <2>2, HeapOrder
<1> HIDE DEF h, m
<1>5. ASSUME NEW i \in 1 .. m PROVE rows[i] = RowOf(entries, f[h[i]])
  <2>1. h[i] \in items
    BY <1>4, Fun_BijectionProperties
  <2> QED BY <1>2, <1>4, <2>1
<1>6. DOMAIN rows = 1 .. m /\ rows \in [1 .. m -> {rows[i] : i \in 1 .. m}]
  BY <1>4
<1> HIDE DEF rows, items
<1>7. Reports(rows, entries, open)
  BY <1>1, <1>4, <1>5, <1>6, ReportsOfItems
<1>8. PICK T : fw.rows \in Seq(T)
  BY DEF Tracks
<1> DEFINE U == T \cup {rows[i] : i \in 1 .. m}
<1>9. fw.rows \in Seq(U) /\ rows \in [1 .. m -> U]
  BY <1>6, <1>8
<1> HIDE DEF U
<1>10. rows \in Seq(U)
  BY <1>4, <1>9, ListOf
<1> DEFINE closed == ClosedPairs(entries, places)
<1>11. closed \cap open = {} /\ closed \cup open = Pairs(places)
  BY DEF ClosedPairs, OpenPairs, open
<1>12. Reports(fw.rows, entries, closed)
  BY DEF Tracks
<1> HIDE DEF closed
<1>13. Reports(fw.rows \o rows, entries, closed \cup open)
  BY <1>7, <1>9, <1>10, <1>11, <1>12, ReportsJoin
<1>14. fw.rows \o rows \in Seq(U)
  BY <1>9, <1>10
<1> QED BY <1>3, <1>11, <1>13, <1>14

----------------------------------------------------------------------------
(* The complete lists against the rows of the log *)

IsLastQuote(entries, s, i, j) ==
  /\ j \in 1 .. i /\ entries[j].kind = "quote" /\ entries[j].sym = s
  /\ \A k \in j + 1 .. i : entries[k].kind # "quote" \/ entries[k].sym # s

(* What the log is known to hold: numbers in the order of time, and of every *)
(* candidate the two prices of its symbol's last quote.                      *)
Priced(S) ==
  \A c \in S : c.time \in Nat /\ c.bid \in Nat /\ c.ask \in Nat /\ c.sym \in Symbols
Sorted(entries) == \A j \in DOMAIN entries : \A i \in 1 .. j : entries[i].time <= entries[j].time
Booked(entries) ==
  \A i \in Candidates(entries) : \E j : /\ IsLastQuote(entries, entries[i].sym, i, j)
                                        /\ entries[j].bid = entries[i].bid
                                        /\ entries[j].ask = entries[i].ask

(* The largest of some places. *)
LEMMA SomeLargest ==
  ASSUME NEW n \in Nat, NEW T \in SUBSET (1 .. n), T # {}
  PROVE  Max(T) \in T /\ \A x \in T : Max(T) >= x
<1> DEFINE D == {n - x : x \in T}
<1>1. D \in SUBSET Nat /\ D # {}
  <2>1. ASSUME NEW x \in T PROVE n - x \in Nat
    OBVIOUS
  <2> QED BY <2>1
<1>2. PICK d \in D : \A y \in D : d <= y
  BY <1>1, SmallestNumber
<1>3. PICK m \in T : d = n - m
  OBVIOUS
<1>4. ASSUME NEW x \in T PROVE m >= x
  <2>1. n - x \in D
    OBVIOUS
  <2>2. n - m <= n - x
    BY <1>2, <1>3, <2>1
  <2> QED BY <2>2
<1>5. T \in SUBSET Int
  OBVIOUS
<1>6. Max(T) = m
  BY <1>4, <1>5, LargestIsMax
<1> QED BY <1>4, <1>6

(* The entry price found in the complete list. *)
LEMMA EntryInList ==
  ASSUME NEW S, log \in Seq(S), Priced(S), Sorted(log), Booked(log), NEW i \in Candidates(log),
         EntryPrice(log[i], log[i].action) # NoPrice
  PROVE  /\ current_entry(log[i], log) \in Int
         /\ (\A j \in i + 1 .. Len(log) :
                 log[j].kind # "quote" \/ log[j].sym # log[i].sym \/ log[j].time # log[i].time)
               => current_entry(log[i], log) = EntryPrice(log[i], log[i].action)
<1> DEFINE c == log[i]
           n == Len(log)
           usable == {j \in Quotes(log, c.sym) :
                        log[j].time <= c.time /\ EntryPrice(log[j], c.action) # NoPrice}
<1>1. /\ n \in Nat /\ DOMAIN log = 1 .. n /\ i \in 1 .. n
      /\ \A j \in 1 .. n : log[j].time \in Nat /\ log[j].bid \in Nat /\ log[j].ask \in Nat
  BY DEF Candidates, Priced
<1>2. PICK j : IsLastQuote(log, c.sym, i, j) /\ log[j].bid = c.bid /\ log[j].ask = c.ask
  BY DEF Booked
<1>3. j \in 1 .. i /\ j \in 1 .. n /\ log[j].kind = "quote" /\ log[j].sym = c.sym
  BY <1>1, <1>2 DEF IsLastQuote
<1>4. log[j].time <= c.time
  BY <1>1, <1>3 DEF Sorted
<1>5. EntryPrice(log[j], c.action) = EntryPrice(c, c.action)
  BY <1>2 DEF EntryPrice
<1>6. j \in usable
  BY <1>1, <1>3, <1>4, <1>5 DEF Quotes
<1>7. usable \in SUBSET (1 .. n) /\ \A k \in usable : EntryPrice(log[k], c.action) # NoPrice
  BY <1>1 DEF Quotes
<1>8. current_entry(c, log) = EntryPrice(log[Max(usable)], c.action)
  BY <1>6 DEF current_entry
<1>9. \A k \in usable : /\ log[k].kind = "quote" /\ log[k].sym = c.sym /\ log[k].time <= c.time
  BY DEF Quotes
<1> HIDE DEF usable, n, c
<1>10. Max(usable) \in usable /\ \A x \in usable : Max(usable) >= x
  BY <1>1, <1>6, <1>7, SomeLargest
<1>11. \A k \in 1 .. n : EntryPrice(log[k], c.action) \in Nat \/ EntryPrice(log[k], c.action) = NoPrice
  BY <1>1 DEF EntryPrice
<1>12. current_entry(c, log) \in Int
  <2>1. Max(usable) \in usable /\ Max(usable) \in 1 .. n
    BY <1>7, <1>10
  <2> QED BY <1>7, <1>8, <1>11, <2>1
<1>13. ASSUME \A k \in i + 1 .. n : log[k].kind # "quote" \/ log[k].sym # c.sym \/ log[k].time # c.time
       PROVE  current_entry(c, log) = EntryPrice(c, c.action)
  <2>1. ASSUME NEW k \in usable PROVE j >= k
    <3>1. k \in 1 .. n /\ log[k].kind = "quote" /\ log[k].sym = c.sym /\ log[k].time <= c.time
      BY <1>7, <1>9
    <3>2. ~(k \in j + 1 .. i)
      BY <1>2, <3>1 DEF IsLastQuote
    <3>3. ASSUME k \in i + 1 .. n PROVE FALSE
      <4>1. c.time <= log[k].time
        <5>1. k \in DOMAIN log /\ i \in 1 .. k
          BY <1>1, <3>1, <3>3
        <5> QED BY <5>1 DEF Sorted, c
      <4>2. c.time \in Nat /\ log[k].time \in Nat
        BY <1>1, <3>1 DEF c
      <4> QED BY <1>13, <3>1, <3>3, <4>1, <4>2
    <3> QED BY <1>1, <1>3, <3>1, <3>2, <3>3
  <2>2. usable \in SUBSET Int
    BY <1>1, <1>7
  <2>3. Max(usable) = j
    BY <1>6, <2>1, <2>2, LargestIsMax
  <2> QED BY <1>5, <1>8, <2>3
<1> QED BY <1>12, <1>13 DEF c, n

(* A candidate without a price has the same price as one of its symbol, direction *)
(* and time that no quote separates it from.                                      *)
LEMMA SamePrices ==
  ASSUME NEW S, log \in Seq(S), Booked(log), NEW i \in Candidates(log), NEW k \in Candidates(log),
         i <= k, log[k].sym = log[i].sym,
         \A j \in i + 1 .. k : log[j].kind # "quote" \/ log[j].sym # log[i].sym
  PROVE  log[i].bid = log[k].bid /\ log[i].ask = log[k].ask
<1>1. i \in Nat /\ k \in Nat
  BY DEF Candidates
<1>2. PICK j : IsLastQuote(log, log[i].sym, i, j) /\ log[j].bid = log[i].bid /\ log[j].ask = log[i].ask
  BY DEF Booked
<1>3. PICK l : IsLastQuote(log, log[i].sym, k, l) /\ log[l].bid = log[k].bid /\ log[l].ask = log[k].ask
  BY DEF Booked
<1>4. j \in 1 .. i /\ log[j].kind = "quote" /\ log[j].sym = log[i].sym
  BY <1>2 DEF IsLastQuote
<1>5. l \in 1 .. k /\ log[l].kind = "quote" /\ log[l].sym = log[i].sym
  BY <1>3 DEF IsLastQuote
<1>6. ~(l \in i + 1 .. k)
  BY <1>5
<1>7. ~(l \in j + 1 .. i) /\ ~(j \in l + 1 .. k)
  BY <1>2, <1>3, <1>4, <1>5 DEF IsLastQuote
<1>8. l = j
  BY <1>1, <1>4, <1>5, <1>6, <1>7
<1> QED BY <1>2, <1>3, <1>8

(* What is asked of a row does not depend on its result. *)
LEMMA RowsOfOnePair ==
  ASSUME NEW c, NEW h, NEW a, NEW b, NEW r, r = Row(c, h, a), NEW o, o = Row(CandidateOf(c), h, b)
  PROVE  /\ [r EXCEPT !.result = NoReturn] = [o EXCEPT !.result = NoReturn]
         /\ Shared(r) <=> Shared(o)
         /\ Unpriced(r) <=> Unpriced(o)
         /\ a = b => r = o
         /\ r.time = c.time /\ r.sym = c.sym /\ r.action = c.action /\ r.result = a
<1>1. o = Row(c, h, b)
  BY DEF Row, CandidateOf
<1>2. /\ r.time = o.time /\ r.sym = o.sym /\ r.action = o.action
      /\ r.time = c.time /\ r.sym = c.sym /\ r.action = c.action /\ r.result = a
  BY <1>1 DEF Row
<1>3. [r EXCEPT !.result = NoReturn] = [o EXCEPT !.result = NoReturn]
  BY <1>1 DEF Row
<1>4. (Shared(r) <=> Shared(o)) /\ (Unpriced(r) <=> Unpriced(o))
  BY <1>2 DEF Shared, Unpriced
<1>5. a = b => r = o
  BY <1>1
<1> QED BY <1>2, <1>3, <1>4, <1>5

(* Rows of one horizon with one result are equal. *)
LEMMA SameRow ==
  ASSUME NEW c, NEW h, NEW a, NEW b, a = b, NEW r, r = Row(CandidateOf(c), h, a), NEW o, o = Row(c, h, b)
  PROVE  Compared(r) = Compared(o)
<1>1. r = o
  BY DEF Row, CandidateOf
<1> QED BY <1>1

(* The result of a horizon in the complete list. *)
AnalyzedResult(p) ==
  LET c == log[p[1]]
      entry == current_entry(c, log) IN
  IF entry = NoPrice \/ Closing(log, p) = {} THEN NoReturn
  ELSE Return(c.action, entry, ExitPrice(log[Min(Closing(log, p))], c.action))

(* The complete list's row of a horizon whose candidate has a price. *)
LEMMA AnalyzedRow ==
  ASSUME NEW p \in Pairs(Candidates(log)), PriceAt(log, p) # NoPrice
  PROVE  analyze(log)[p] = Row(log[p[1]], Horizons[p[2]], AnalyzedResult(p))
<1> DEFINE c == log[p[1]]
           h == Horizons[p[2]]
           exits == {j \in Quotes(log, c.sym) : log[j].time >= c.time + h /\ ExitPrice(log[j], c.action) > 0}
<1>1. analyze(log)[p] = analyze_one(c, h, log)
  BY DEF analyze, Pairs
<1>2. exits = Closing(log, p)
  <2>1. ASSUME NEW j PROVE j \in exits <=> j \in Closing(log, p)
    BY DEF Closing, Closes, Quotes
  <2> HIDE DEF exits
  <2> QED BY <2>1
<1>3. analyze_one(c, h, log) =
        Row(c, h, IF current_entry(c, log) = NoPrice \/ exits = {} THEN NoReturn
                  ELSE Return(c.action, current_entry(c, log), ExitPrice(log[Min(exits)], c.action)))
  BY DEF analyze_one
<1> HIDE DEF exits
<1> QED BY <1>1, <1>2, <1>3 DEF AnalyzedResult

(* Both rows of a horizon whose candidate has a price compare equal. *)
LEMMA ComparedEqually ==
  ASSUME NEW S, log \in Seq(S), Priced(S), Sorted(log), Booked(log),
         NEW p \in Pairs(Candidates(log)), ~Unpriced(RowOf(log, p))
  PROVE  Compared(RowOf(log, p)) = Compared(analyze(log)[p])
<1> DEFINE c == log[p[1]]
           h == Horizons[p[2]]
           price == PriceAt(log, p)
           closing == Closing(log, p)
           exit == ExitPrice(log[Min(closing)], c.action)
           entry == current_entry(c, log)
           a == IF closing = {} THEN NoReturn ELSE ResultAt(log, p, log[Min(closing)])
           b == AnalyzedResult(p)
           r == RowOf(log, p)
           o == analyze(log)[p]
<1>1. p[1] \in Candidates(log) /\ p[1] \in DOMAIN log /\ DOMAIN log = 1 .. Len(log) /\ Len(log) \in Nat
  BY DEF Pairs, Candidates
<1>2. r = Row(CandidateOf(c), h, a)
  BY DEF RowOf
<1>3. r.time = c.time /\ r.sym = c.sym /\ r.action = c.action
  BY <1>2 DEF Row, CandidateOf
<1>4. price # NoPrice /\ price = EntryPrice(c, c.action)
  <2>1. ~(EntryPrice(c, c.action) = NoPrice)
    BY <1>1, <1>3 DEF Unpriced
  <2> QED BY <2>1 DEF PriceAt
<1>5. o = Row(c, h, b)
  BY <1>4, AnalyzedRow
<1>6. price \in Int
  <2>1. c.bid \in Nat /\ c.ask \in Nat
    BY <1>1 DEF Priced
  <2> QED BY <1>4, <2>1 DEF EntryPrice
<1>7. /\ entry \in Int
      /\ ~Shared(r) => entry = price
  <2>1. ASSUME ~Shared(r), NEW j \in p[1] + 1 .. Len(log),
               log[j].kind = "quote", log[j].sym = c.sym, log[j].time = c.time
        PROVE  FALSE
    <3>1. j \in DOMAIN log /\ p[1] < j
      BY <1>1
    <3>2. c.action # NONE
      BY <1>1 DEF Candidates
    <3> QED BY <1>1, <1>3, <2>1, <3>1, <3>2 DEF Shared
  <2> HIDE DEF r
  <2> QED BY <1>1, <1>4, <2>1, EntryInList
<1>8. entry # NoPrice
  BY <1>7, ForwardAssumption
<1>9. CASE closing = {}
  <2>1. a = NoReturn /\ b = NoReturn
    BY <1>9 DEF AnalyzedResult
  <2>2. a = b
    BY <2>1
  <2> QED BY <1>2, <1>5, <2>2, SameRow
<1>10. CASE closing # {}
  <2>1. a = Return(c.action, price, exit) /\ b = Return(c.action, entry, exit)
    BY <1>4, <1>8, <1>10 DEF AnalyzedResult, ResultAt
  <2>2. exit \in Int
    <3>1. closing \in SUBSET (1 .. Len(log))
      BY <1>1 DEF Closing
    <3>2. closing \in SUBSET Nat
      BY <3>1
    <3>3. PICK m \in closing : \A y \in closing : m <= y
      BY <1>10, <3>2, SmallestNumber
    <3> HIDE DEF closing
    <3>4. Min(closing) = m
      <4>1. closing \in SUBSET Int
        BY <3>2
      <4> QED BY <3>3, <4>1, LeastIsMin
    <3>5. log[m].bid \in Nat /\ log[m].ask \in Nat
      BY <3>1, <3>3 DEF Priced
    <3> QED BY <3>4, <3>5 DEF ExitPrice
  <2>3. CASE ~Shared(r)
    <3>1. a = b
      BY <1>7, <2>1, <2>3
    <3> QED BY <1>2, <1>5, <3>1, SameRow
  <2>4. CASE Shared(r)
    <3>1. Shared(o) /\ [r EXCEPT !.result = NoReturn] = [o EXCEPT !.result = NoReturn]
      BY <1>2, <1>5, <2>4, RowsOfOnePair
    <3>2. r.result = a /\ r.action = c.action /\ o.result = b /\ o.action = c.action
      BY <1>2, <1>5 DEF Row, CandidateOf
    <3> HIDE DEF a, b, exit, entry, price, c, h
    <3>3. a \in [gain : Int, entry : Int] /\ b \in [gain : Int, entry : Int]
      BY <1>6, <1>7, <2>1, <2>2 DEF Return
    <3>4. ExitOf(r) = exit
      <4>1. a # NoReturn
        BY <3>3, ForwardAssumption
      <4>2. c.action = LONG => a.entry + a.gain = exit
        BY <1>6, <2>1, <2>2 DEF Return
      <4>3. c.action # LONG => a.entry - a.gain = exit
        BY <1>6, <2>1, <2>2 DEF Return
      <4> HIDE DEF r
      <4> QED BY <3>2, <4>1, <4>2, <4>3 DEF ExitOf
    <3>5. ExitOf(o) = exit
      <4>1. b # NoReturn
        BY <3>3, ForwardAssumption
      <4>2. c.action = LONG => b.entry + b.gain = exit
        BY <1>7, <2>1, <2>2 DEF Return
      <4>3. c.action # LONG => b.entry - b.gain = exit
        BY <1>7, <2>1, <2>2 DEF Return
      <4> HIDE DEF o
      <4> QED BY <3>2, <4>1, <4>2, <4>3 DEF ExitOf
    <3>6. [r EXCEPT !.result = exit] = [o EXCEPT !.result = exit]
      <4> HIDE DEF r, o
      <4> QED BY <1>2, <1>5 DEF Row, CandidateOf
    <3> HIDE DEF r, o
    <3>7. Compared(r) = [r EXCEPT !.result = exit] /\ Compared(o) = [o EXCEPT !.result = exit]
      BY <2>4, <3>1, <3>4, <3>5 DEF Compared
    <3> QED BY <3>6, <3>7 DEF r, o
  <2> QED BY <2>3, <2>4
<1> QED BY <1>9, <1>10

(* A candidate without a price has no return unless its time is shared. *)
LEMMA UnpricedHasNone ==
  ASSUME NEW S, log \in Seq(S), Priced(S), Sorted(log), Booked(log), NEW p \in Pairs(Candidates(log)),
         Unpriced(RowOf(log, p)), ~Shared(RowOf(log, p))
  PROVE  RowOf(log, p).result = NoReturn
<1> DEFINE i == p[1]
           c == log[i]
           r == RowOf(log, p)
<1>1. /\ i \in Candidates(log) /\ i \in DOMAIN log /\ c.action # NONE
      /\ DOMAIN log = 1 .. Len(log) /\ Len(log) \in Nat
  BY DEF Pairs, Candidates
<1>2. r.time = c.time /\ r.sym = c.sym /\ r.action = c.action
  BY DEF RowOf, Row, CandidateOf
<1>3. PICK k \in DOMAIN log : /\ log[k].time = c.time /\ log[k].sym = c.sym /\ log[k].action = c.action
                              /\ EntryPrice(log[k], c.action) = NoPrice
  BY <1>2 DEF Unpriced
<1>4. k \in Candidates(log)
  BY <1>1, <1>3 DEF Candidates
<1>5. ASSUME NEW x \in DOMAIN log, NEW j \in DOMAIN log, x < j, x \in {i, k},
             log[j].kind = "quote", log[j].sym = c.sym, log[j].time = c.time
      PROVE  FALSE
  <2>1. log[x].time = c.time /\ log[x].sym = c.sym /\ log[x].action # NONE
    BY <1>1, <1>3, <1>5
  <2> HIDE DEF i
  <2> QED BY <1>2, <1>5, <2>1 DEF Shared
<1>6. ASSUME NEW x \in {i, k}, NEW y \in {i, k}, NEW j \in x + 1 .. y
      PROVE  log[j].kind # "quote" \/ log[j].sym # c.sym
  <2>1. /\ x \in DOMAIN log /\ y \in DOMAIN log /\ j \in DOMAIN log /\ x < j
        /\ x \in 1 .. j /\ j \in 1 .. y
    BY <1>1
  <2>2. log[x].time = c.time /\ log[y].time = c.time
    BY <1>3
  <2>3. log[x].time <= log[j].time /\ log[j].time <= log[y].time
    BY <2>1 DEF Sorted
  <2>4. log[j].time \in Nat /\ c.time \in Nat
    BY <1>1, <2>1 DEF Priced
  <2>5. log[j].time = c.time
    BY <2>2, <2>3, <2>4
  <2> QED BY <1>5, <2>1, <2>5
<1>7. c.bid = log[k].bid /\ c.ask = log[k].ask
  <2> DEFINE Clear(x, y) == \A j \in x + 1 .. y : log[j].kind # "quote" \/ log[j].sym # c.sym
  <2>1. Clear(i, k) /\ Clear(k, i)
    BY <1>6
  <2>2. i \in Nat /\ k \in Nat
    BY <1>1
  <2>3. log[k].sym = c.sym
    BY <1>3
  <2>4. CASE i <= k
    BY <1>1, <1>4, <2>1, <2>3, <2>4, SamePrices
  <2>5. CASE k <= i
    <3>1. \A j \in k + 1 .. i : log[j].kind # "quote" \/ log[j].sym # log[k].sym
      BY <2>1, <2>3
    <3> QED BY <1>1, <1>4, <2>3, <2>5, <3>1, SamePrices
  <2> QED BY <2>2, <2>4, <2>5
<1>8. PriceAt(log, p) = NoPrice
  BY <1>3, <1>7 DEF PriceAt, EntryPrice
<1>9. \A q : ResultAt(log, p, q) = NoReturn
  BY <1>8 DEF ResultAt
<1> QED BY <1>9 DEF RowOf, Row

(* Both rows of a horizon differ in their results at most. *)
LEMMA RowsOfPlace ==
  ASSUME NEW p \in Pairs(Candidates(log))
  PROVE  /\ [RowOf(log, p) EXCEPT !.result = NoReturn] = [analyze(log)[p] EXCEPT !.result = NoReturn]
         /\ Unpriced(RowOf(log, p)) <=> Unpriced(analyze(log)[p])
<1> DEFINE c == log[p[1]]
           h == Horizons[p[2]]
           r == RowOf(log, p)
           o == analyze(log)[p]
<1>1. PICK a : r = Row(CandidateOf(c), h, a)
  BY DEF RowOf
<1>2. PICK b : o = Row(c, h, b)
  <2>1. o = analyze_one(c, h, log)
    BY DEF analyze, Pairs
  <2> QED BY <2>1 DEF analyze_one
<1> HIDE DEF r, o, c, h
<1>3. r = Row(c, h, a)
  BY <1>1 DEF Row, CandidateOf
<1>4. [r EXCEPT !.result = NoReturn] = [o EXCEPT !.result = NoReturn]
  BY <1>2, <1>3 DEF Row
<1>5. r.time = o.time /\ r.sym = o.sym /\ r.action = o.action
  BY <1>2, <1>3 DEF Row
<1>6. Unpriced(r) <=> Unpriced(o)
  BY <1>5 DEF Unpriced
<1> QED BY <1>4, <1>6 DEF r, o

(* Both have a row for every candidate and horizon. *)
LEMMA SameRows ==
  ASSUME NEW T, NEW rows \in Seq(T), Reports(rows, log, Pairs(Candidates(log)))
  PROVE  WithoutResults(rows) = WithoutResults(analyze(log))
<1> DEFINE erased == [k \in DOMAIN rows |-> [rows[k] EXCEPT !.result = NoReturn]]
           others == [p \in DOMAIN analyze(log) |-> [analyze(log)[p] EXCEPT !.result = NoReturn]]
<1>1. PICK f \in Bijection(DOMAIN rows, Pairs(Candidates(log))) :
        \A k \in DOMAIN rows : rows[k] = RowOf(log, f[k])
  BY DEF Reports
<1>2. DOMAIN analyze(log) = Pairs(Candidates(log))
  BY DEF analyze, Pairs
<1>3. DOMAIN erased = DOMAIN rows /\ DOMAIN others = Pairs(Candidates(log))
  BY <1>2
<1>4. IsFiniteSet(DOMAIN erased)
  <2>1. DOMAIN rows = 1 .. Len(rows) /\ Len(rows) \in Nat
    OBVIOUS
  <2>2. IsFiniteSet(1 .. Len(rows))
    <3>1. 1 \in Int /\ Len(rows) \in Int
      BY <2>1
    <3> QED BY <3>1, FS_Interval
  <2> QED BY <1>3, <2>1, <2>2
<1>5. ASSUME NEW k \in DOMAIN erased PROVE erased[k] = others[f[k]]
  <2>1. f[k] \in Pairs(Candidates(log))
    BY <1>1, <1>3, Fun_BijectionProperties
  <2>2. rows[k] = RowOf(log, f[k])
    BY <1>1, <1>3
  <2>3. [rows[k] EXCEPT !.result = NoReturn] = [analyze(log)[f[k]] EXCEPT !.result = NoReturn]
    BY <2>1, <2>2, RowsOfPlace
  <2> QED BY <1>2, <1>3, <2>1, <2>3
<1> HIDE DEF erased, others
<1>6. f \in Bijection(DOMAIN erased, DOMAIN others)
  BY <1>1, <1>3
<1>7. ToBag(erased) = ToBag(others)
  BY <1>4, <1>5, <1>6, SameBag
<1> QED BY <1>7 DEF WithoutResults, erased, others

(* Both have the same results where a candidate has a price. *)
LEMMA SameComparable ==
  ASSUME NEW S, log \in Seq(S), Priced(S), Sorted(log), Booked(log),
         NEW T, NEW rows \in Seq(T), Reports(rows, log, Pairs(Candidates(log)))
  PROVE  Comparable(rows) = Comparable(analyze(log))
<1> DEFINE all == Pairs(Candidates(log))
           kept == {k \in DOMAIN rows : ~Unpriced(rows[k])}
           left == {p \in DOMAIN analyze(log) : ~Unpriced(analyze(log)[p])}
           mine == [i \in kept |-> Compared(rows[i])]
           others == [i \in left |-> Compared(analyze(log)[i])]
<1>1. PICK f \in Bijection(DOMAIN rows, all) : \A k \in DOMAIN rows : rows[k] = RowOf(log, f[k])
  BY DEF Reports
<1>2. DOMAIN analyze(log) = all
  BY DEF analyze, Pairs
<1>3. \A k \in DOMAIN rows : f[k] \in all
  BY <1>1, Fun_BijectionProperties
<1>4. DOMAIN mine = kept /\ DOMAIN others = left
  OBVIOUS
<1>5. IsFiniteSet(kept)
  <2>1. DOMAIN rows = 1 .. Len(rows) /\ Len(rows) \in Nat
    OBVIOUS
  <2>2. IsFiniteSet(1 .. Len(rows))
    <3>1. 1 \in Int /\ Len(rows) \in Int
      BY <2>1
    <3> QED BY <3>1, FS_Interval
  <2>3. kept \in SUBSET (1 .. Len(rows))
    BY <2>1
  <2> HIDE DEF kept
  <2> QED BY <2>2, <2>3, FS_Subset
<1>6. ASSUME NEW k \in DOMAIN rows PROVE k \in kept <=> f[k] \in left
  <2>1. Unpriced(rows[k]) <=> Unpriced(analyze(log)[f[k]])
    BY <1>1, <1>3, RowsOfPlace
  <2> QED BY <1>2, <1>3, <2>1
<1> DEFINE g == [k \in kept |-> f[k]]
<1>7. g \in Bijection(kept, left)
  <2>1. kept \in SUBSET DOMAIN rows /\ left \in SUBSET all
    BY <1>2
  <2> HIDE DEF kept, left, all
  <2> QED BY <1>1, <1>6, <2>1, PartOfBijection
<1>8. ASSUME NEW k \in kept PROVE mine[k] = others[g[k]]
  <2>1. k \in DOMAIN rows /\ ~Unpriced(rows[k])
    OBVIOUS
  <2>2. f[k] \in left /\ f[k] \in all /\ rows[k] = RowOf(log, f[k])
    BY <1>1, <1>3, <1>6, <2>1
  <2>3. Compared(RowOf(log, f[k])) = Compared(analyze(log)[f[k]])
    BY <2>1, <2>2, ComparedEqually
  <2>4. mine[k] = Compared(rows[k]) /\ g[k] = f[k]
    OBVIOUS
  <2>5. others[f[k]] = Compared(analyze(log)[f[k]])
    BY <2>2
  <2> HIDE DEF mine, others, g
  <2> QED BY <2>2, <2>3, <2>4, <2>5
<1> HIDE DEF g, kept, left, mine, others
<1>9. ToBag(mine) = ToBag(others)
  BY <1>4, <1>5, <1>7, <1>8, SameBag
<1> QED BY <1>9 DEF Comparable, kept, left, mine, others

(* Rows that report every candidate's horizons are those of the complete lists. *)
LEMMA ForwardMatches ==
  ASSUME NEW S, log \in Seq(S), Priced(S), Sorted(log), Booked(log),
         NEW T, forward.rows \in Seq(T), Reports(forward.rows, log, Pairs(Candidates(log)))
  PROVE  ForwardAgrees
<1>1. WithoutResults(forward.rows) = WithoutResults(analyze(log))
  BY SameRows
<1>2. Comparable(forward.rows) = Comparable(analyze(log))
  BY SameComparable
<1>3. ASSUME NEW i \in DOMAIN forward.rows, Unpriced(forward.rows[i]), ~Shared(forward.rows[i])
      PROVE  forward.rows[i].result = NoReturn
  <2>1. PICK f \in Bijection(DOMAIN forward.rows, Pairs(Candidates(log))) :
          \A k \in DOMAIN forward.rows : forward.rows[k] = RowOf(log, f[k])
    BY DEF Reports
  <2>2. f[i] \in Pairs(Candidates(log))
    BY <2>1, Fun_BijectionProperties
  <2> QED BY <1>3, <2>1, <2>2, UnpricedHasNone
<1> QED BY <1>1, <1>2, <1>3 DEF ForwardAgrees

----------------------------------------------------------------------------
(* What the accumulator keeps as the log grows *)

(* The accumulator's quote of a symbol is its last. *)
Latest(fw, entries) ==
  /\ DOMAIN fw.last_quotes = Symbols
  /\ \A s \in Symbols : \A j : IsLastQuote(entries, s, Len(entries), j) =>
       fw.last_quotes[s] = QuoteOf(entries[j])

(* A book that was quoted holds what the symbol's last quote left of it. *)
Quoted(st, entries, s) ==
  st.bid_valid \/ st.ask_valid =>
    \E j : IsLastQuote(entries, s, Len(entries), j) /\ entries[j].bid = st.bid /\ entries[j].ask = st.ask

IsOther(c, s) == c.kind # "quote" \/ c.sym # s

(* A symbol's last quote, once an entry is appended: the entry itself, or the quote *)
(* before it; and the last up to an earlier place stays.                             *)
LEMMA QuoteOnTop ==
  ASSUME NEW S, NEW entries \in Seq(S), NEW c, c.kind = "quote", NEW more, more = Append(entries, c), NEW j
  PROVE  IsLastQuote(more, c.sym, Len(more), j) <=> j = Len(more)
<1> DEFINE n == Len(entries)
<1>1. /\ n \in Nat /\ Len(more) = n + 1 /\ more[n + 1] = c
  BY AppendProperties
<1> HIDE DEF n
<1>2. ASSUME IsLastQuote(more, c.sym, n + 1, j) PROVE j = n + 1
  <2>1. j \in 1 .. n + 1 /\ ~(n + 1 \in j + 1 .. n + 1)
    BY <1>1, <1>2 DEF IsLastQuote
  <2> QED BY <1>1, <2>1
<1>3. ASSUME j = n + 1 PROVE IsLastQuote(more, c.sym, n + 1, j)
  <2>1. j \in 1 .. n + 1 /\ more[j] = c /\ \A k \in j + 1 .. n + 1 : FALSE
    BY <1>1, <1>3
  <2> QED BY <2>1 DEF IsLastQuote
<1> QED BY <1>1, <1>2, <1>3

LEMMA QuoteBelow ==
  ASSUME NEW S, NEW entries \in Seq(S), NEW c, NEW s, IsOther(c, s),
         NEW more, more = Append(entries, c), NEW j, IsLastQuote(more, s, Len(more), j)
  PROVE  IsLastQuote(entries, s, Len(entries), j)
<1> DEFINE n == Len(entries)
<1>1. /\ n \in Nat /\ Len(more) = n + 1 /\ more[n + 1] = c /\ \A i \in 1 .. n : more[i] = entries[i]
  BY AppendProperties
<1> HIDE DEF n
<1>2. j \in 1 .. n + 1 /\ j # n + 1
  BY <1>1 DEF IsLastQuote, IsOther
<1>3. j \in 1 .. n /\ more[j] = entries[j]
  BY <1>1, <1>2
<1>4. ASSUME NEW k \in j + 1 .. n PROVE k \in j + 1 .. n + 1 /\ more[k] = entries[k]
  BY <1>1, <1>3
<1> QED BY <1>1, <1>3, <1>4 DEF IsLastQuote, n

LEMMA QuoteStays ==
  ASSUME NEW S, NEW entries \in Seq(S), NEW c, NEW s, IsOther(c, s),
         NEW more, more = Append(entries, c), NEW j, IsLastQuote(entries, s, Len(entries), j)
  PROVE  IsLastQuote(more, s, Len(more), j)
<1> DEFINE n == Len(entries)
<1>1. /\ n \in Nat /\ Len(more) = n + 1 /\ more[n + 1] = c /\ \A i \in 1 .. n : more[i] = entries[i]
  BY AppendProperties
<1>2. j \in 1 .. n /\ j \in 1 .. n + 1 /\ more[j] = entries[j]
  BY <1>1 DEF IsLastQuote
<1> HIDE DEF n
<1>3. ASSUME NEW k \in j + 1 .. n + 1 PROVE more[k].kind # "quote" \/ more[k].sym # s
  <2>1. CASE k = n + 1
    BY <1>1, <2>1 DEF IsOther
  <2>2. CASE k # n + 1
    <3>1. k \in j + 1 .. n /\ k \in 1 .. n
      BY <1>1, <1>2, <2>2
    <3> QED BY <1>1, <3>1 DEF IsLastQuote, n
  <2> QED BY <2>1, <2>2
<1> QED BY <1>1, <1>2, <1>3 DEF IsLastQuote

LEMMA EarlierQuote ==
  ASSUME NEW S, NEW entries \in Seq(S), NEW c, NEW s, NEW more, more = Append(entries, c),
         NEW i \in 1 .. Len(entries), NEW j, IsLastQuote(entries, s, i, j)
  PROVE  IsLastQuote(more, s, i, j)
<1> DEFINE n == Len(entries)
<1>1. n \in Nat /\ \A k \in 1 .. n : more[k] = entries[k]
  BY AppendProperties
<1>2. j \in 1 .. i /\ j \in 1 .. n /\ more[j] = entries[j]
  BY <1>1 DEF IsLastQuote
<1>3. ASSUME NEW k \in j + 1 .. i PROVE more[k] = entries[k]
  <2>1. k \in 1 .. n
    BY <1>1, <1>2
  <2> QED BY <1>1, <2>1
<1> QED BY <1>2, <1>3 DEF IsLastQuote

(* The candidates, once an entry is appended. *)
LEMMA CandidatesGrow ==
  ASSUME NEW S, NEW entries \in Seq(S), NEW c
  PROVE  Candidates(Append(entries, c)) =
           IF c.action # NONE THEN Candidates(entries) \cup {Len(entries) + 1} ELSE Candidates(entries)
<1> DEFINE n == Len(entries)
           more == Append(entries, c)
<1>1. /\ n \in Nat /\ DOMAIN entries = 1 .. n /\ DOMAIN more = 1 .. n + 1 /\ more[n + 1] = c
      /\ \A i \in 1 .. n : more[i] = entries[i]
  OBVIOUS
<1> HIDE DEF n, more
<1>2. ASSUME NEW i
      PROVE  i \in Candidates(more) <=> i \in Candidates(entries) \/ (i = n + 1 /\ c.action # NONE)
  <2>1. CASE i = n + 1
    BY <1>1, <2>1 DEF Candidates
  <2>2. CASE i # n + 1
    <3>1. i \in 1 .. n + 1 <=> i \in 1 .. n
      BY <1>1, <2>2
    <3> QED BY <1>1, <2>2, <3>1 DEF Candidates
  <2> QED BY <2>1, <2>2
<1> QED BY <1>2 DEF n, more

(* What the accumulator does at an entry keeps track of the longer log. *)
Shown(c) == [bid_valid |-> TRUE, ask_valid |-> TRUE, bid |-> c.bid, ask |-> c.ask]

LEMMA ForwardGrows ==
  ASSUME NEW S, log \in Seq(S), Priced(S), NEW c \in S, Until(log, c.time),
         Accumulator(forward), Latest(forward, log), Tracks(forward, log, Candidates(log)),
         NEW more, more = Append(log, c), c.action # NONE => Quoted(Shown(c), more, c.sym)
  PROVE  /\ Accumulator(ForwardAfter(c)) /\ Latest(ForwardAfter(c), more)
         /\ Tracks(ForwardAfter(c), more, Candidates(more))
<1> DEFINE n == Len(log)
           w == WithQuote(c)
           places == Candidates(log)
<1>1. /\ c.time \in Nat /\ c.bid \in Nat /\ c.ask \in Nat /\ c.sym \in Symbols
      /\ \A i \in DOMAIN log : log[i].time \in Nat
  <2>1. \A i \in DOMAIN log : log[i] \in S
    OBVIOUS
  <2> QED BY <2>1 DEF Priced
<1>2. places \in SUBSET DOMAIN log /\ (\A i \in places : log[i].time \in Nat)
  BY <1>1 DEF Candidates
<1>3. /\ n \in Nat /\ DOMAIN log = 1 .. n /\ Len(more) = n + 1 /\ more[n + 1] = c
      /\ \A i \in 1 .. n : more[i] = log[i]
  BY AppendProperties
<1>4. more \in Seq(S)
  OBVIOUS
<1> HIDE DEF n, places
<1>5. Accumulator(w) /\ Latest(w, more) /\ Tracks(w, more, places)
  <2>1. CASE c.kind = "quote"
    <3>1. w = observe_quote(forward, QuoteOf(c))
      BY <2>1 DEF WithQuote
    <3>2. Tracks(w, more, places)
      BY <1>1, <1>2, <2>1, <3>1, QuoteTracks DEF places
    <3>3. Accumulator(w) /\ w.last_quotes = [forward.last_quotes EXCEPT ![c.sym] = QuoteOf(c)]
      <4>1. QuoteOf(c).sym = c.sym
        BY DEF QuoteOf
      <4> QED BY <3>1, <4>1 DEF observe_quote, Accumulator
    <3> HIDE DEF w
    <3>4. ASSUME NEW s \in Symbols, NEW j, IsLastQuote(more, s, Len(more), j)
          PROVE  w.last_quotes[s] = QuoteOf(more[j])
      <4>1. DOMAIN forward.last_quotes = Symbols
        BY DEF Latest
      <4>2. CASE s = c.sym
        <5>1. j = Len(more)
          BY <2>1, <3>4, <4>2, QuoteOnTop
        <5> QED BY <1>3, <3>3, <4>1, <4>2, <5>1
      <4>3. CASE s # c.sym
        <5>1. IsLastQuote(log, s, Len(log), j)
          <6>1. IsOther(c, s)
            BY <4>3 DEF IsOther
          <6> QED BY <3>4, <6>1, QuoteBelow
        <5>2. more[j] = log[j]
          BY <1>3, <5>1 DEF IsLastQuote, n
        <5>3. forward.last_quotes[s] = QuoteOf(log[j])
          BY <5>1 DEF Latest
        <5> QED BY <3>3, <4>1, <4>3, <5>2, <5>3
      <4> QED BY <4>2, <4>3
    <3>5. DOMAIN w.last_quotes = Symbols
      BY <3>3 DEF Latest
    <3> QED BY <3>2, <3>3, <3>4, <3>5 DEF Latest
  <2>2. CASE c.kind # "quote"
    <3>1. w = forward
      BY <2>2 DEF WithQuote
    <3> HIDE DEF w
    <3>2. Tracks(w, more, places)
      BY <1>1, <1>2, <2>2, <3>1, OtherTracks DEF places
    <3>3. ASSUME NEW s \in Symbols, NEW j, IsLastQuote(more, s, Len(more), j)
          PROVE  w.last_quotes[s] = QuoteOf(more[j])
      <4>1. IsLastQuote(log, s, Len(log), j)
        <5>1. IsOther(c, s)
          BY <2>2 DEF IsOther
        <5> QED BY <3>3, <5>1, QuoteBelow
      <4>2. more[j] = log[j]
        BY <1>3, <4>1 DEF IsLastQuote, n
      <4> QED BY <3>1, <4>1, <4>2 DEF Latest
    <3>4. DOMAIN w.last_quotes = Symbols
      BY <3>1 DEF Latest
    <3> QED BY <3>1, <3>2, <3>3, <3>4 DEF Latest
  <2> QED BY <2>1, <2>2
<1>6. CASE c.action = NONE
  <2>1. ForwardAfter(c) = w
    BY <1>6 DEF ForwardAfter
  <2>2. Candidates(more) = places
    BY <1>6, CandidatesGrow DEF places
  <2> QED BY <1>5, <2>1, <2>2
<1>7. CASE c.action # NONE
  <2>1. ForwardAfter(c) = observe_candidate(w, CandidateOf(c))
    BY <1>7 DEF ForwardAfter
  <2>2. Candidates(more) = places \cup {n + 1}
    BY <1>7, CandidatesGrow DEF places, n
  <2>3. PICK j : IsLastQuote(more, c.sym, Len(more), j) /\ more[j].bid = c.bid /\ more[j].ask = c.ask
    BY <1>7 DEF Quoted, Shown
  <2> HIDE DEF w
  <2> DEFINE q == w.last_quotes[c.sym]
             m == n + 1
  <2>4. q = QuoteOf(more[j])
    BY <1>1, <1>5, <2>3 DEF Latest
  <2>5. \A i \in 1 .. m : more[i].time \in Nat /\ more[i].time <= c.time
    <3>1. ASSUME NEW i \in 1 .. n PROVE more[i].time \in Nat /\ more[i].time <= c.time
      <4>1. i \in DOMAIN log /\ more[i] = log[i]
        BY <1>3
      <4> QED BY <1>1, <4>1 DEF Until
    <3>2. c.time <= c.time
      BY <1>1
    <3>3. \A i \in 1 .. m : i \in 1 .. n \/ i = n + 1
      BY <1>3
    <3> QED BY <1>1, <1>3, <3>1, <3>2, <3>3
  <2>6. j \in 1 .. m /\ more[j].sym = c.sym
    BY <1>3, <2>3 DEF IsLastQuote
  <2> HIDE DEF q
  <2>7. q.time = more[j].time /\ q.bid = c.bid /\ q.ask = c.ask
    <3>1. q.time = more[j].time /\ q.bid = more[j].bid /\ q.ask = more[j].ask
      BY <2>4 DEF QuoteOf
    <3> QED BY <2>3, <3>1
  <2>8. q # NoQuote
    <3>1. more[j].time \in Nat /\ c.sym \in Nat
      BY <1>1, <2>5, <2>6, MarketAssumption
    <3>2. QuoteOf(more[j]) \in [time : Nat, sym : Nat, bid : Nat, ask : Nat]
      BY <1>1, <2>3, <2>6, <3>1 DEF QuoteOf
    <3> QED BY <2>4, <3>2, ForwardAssumption
  <2>9. places \in SUBSET (1 .. m - 1)
    BY <1>2, <1>3
  <2>10. m = Len(more) /\ m # 0 /\ c = more[m]
    BY <1>3
  <2>11. q.time <= c.time
    BY <2>5, <2>6, <2>7
  <2> HIDE DEF m
  <2>12. Tracks(observe_candidate(w, CandidateOf(c)), more, places \cup {m})
    BY <1>4, <1>5, <2>5, <2>7, <2>8, <2>9, <2>10, <2>11, CandidateTracks DEF q
  <2> DEFINE v == observe_candidate(w, CandidateOf(c))
  <2>13. v.last_quotes = w.last_quotes /\ Accumulator(v)
    BY <1>5 DEF observe_candidate, Accumulator
  <2> HIDE DEF v
  <2>14. Latest(v, more)
    BY <1>5, <2>13 DEF Latest
  <2> QED BY <2>1, <2>2, <2>12, <2>13, <2>14 DEF v, m
<1> QED BY <1>6, <1>7

(* What an entry may do to a book: leave it, or show itself in it. *)
Shows(c, s, st, new) ==
  \/ /\ IsOther(c, s) /\ new.bid = st.bid /\ new.ask = st.ask
     /\ (new.bid_valid <=> st.bid_valid) /\ (new.ask_valid <=> st.ask_valid)
  \/ c.kind = "quote" /\ c.sym = s /\ new.bid = c.bid /\ new.ask = c.ask

LEMMA QuotedGrows ==
  ASSUME NEW S, NEW entries \in Seq(S), NEW c, NEW more, more = Append(entries, c), NEW s,
         NEW st, Quoted(st, entries, s), NEW new, Shows(c, s, st, new)
  PROVE  Quoted(new, more, s)
<1> DEFINE n == Len(entries)
<1>1. /\ n \in Nat /\ Len(more) = n + 1 /\ more[n + 1] = c /\ \A i \in 1 .. n : more[i] = entries[i]
  BY AppendProperties
<1>2. CASE /\ IsOther(c, s) /\ new.bid = st.bid /\ new.ask = st.ask
           /\ (new.bid_valid <=> st.bid_valid) /\ (new.ask_valid <=> st.ask_valid)
  <2> SUFFICES ASSUME st.bid_valid \/ st.ask_valid
               PROVE  \E j : /\ IsLastQuote(more, s, Len(more), j)
                             /\ more[j].bid = new.bid /\ more[j].ask = new.ask
    BY <1>2 DEF Quoted
  <2>1. PICK j : IsLastQuote(entries, s, n, j) /\ entries[j].bid = st.bid /\ entries[j].ask = st.ask
    BY DEF Quoted
  <2>2. IsLastQuote(more, s, Len(more), j)
    BY <1>2, <2>1, QuoteStays
  <2>3. more[j] = entries[j]
    BY <1>1, <2>1 DEF IsLastQuote
  <2> QED BY <1>2, <2>1, <2>2, <2>3
<1>3. CASE c.kind = "quote" /\ c.sym = s /\ new.bid = c.bid /\ new.ask = c.ask
  <2> DEFINE j == Len(more)
  <2>1. IsLastQuote(more, s, Len(more), j)
    BY <1>3, QuoteOnTop
  <2>2. more[j] = c
    BY <1>1
  <2> QED BY <1>3, <2>1, <2>2 DEF Quoted
<1> QED BY <1>2, <1>3 DEF Shows

(* A candidate's prices are its symbol's last quote's, once an entry is appended. *)
LEMMA BookedGrows ==
  ASSUME NEW S, NEW entries \in Seq(S), Booked(entries), NEW c, NEW more, more = Append(entries, c),
         c.action # NONE => Quoted(Shown(c), more, c.sym)
  PROVE  Booked(more)
<1> DEFINE n == Len(entries)
<1>1. /\ n \in Nat /\ Len(more) = n + 1 /\ more[n + 1] = c /\ \A i \in 1 .. n : more[i] = entries[i]
      /\ DOMAIN entries = 1 .. n
  BY AppendProperties
<1>2. ASSUME NEW i \in Candidates(more)
      PROVE  \E j : /\ IsLastQuote(more, more[i].sym, i, j)
                    /\ more[j].bid = more[i].bid /\ more[j].ask = more[i].ask
  <2>1. i \in Candidates(entries) \/ (i = n + 1 /\ c.action # NONE)
    BY CandidatesGrow
  <2>2. CASE i \in Candidates(entries)
    <3>1. i \in 1 .. n /\ more[i] = entries[i]
      BY <1>1, <2>2 DEF Candidates
    <3>2. PICK j : /\ IsLastQuote(entries, entries[i].sym, i, j)
                   /\ entries[j].bid = entries[i].bid /\ entries[j].ask = entries[i].ask
      BY <2>2 DEF Booked
    <3>3. IsLastQuote(more, entries[i].sym, i, j)
      BY <3>1, <3>2, EarlierQuote
    <3>4. more[j] = entries[j]
      BY <1>1, <3>1, <3>2 DEF IsLastQuote
    <3> QED BY <3>1, <3>2, <3>3, <3>4
  <2>3. CASE i = n + 1 /\ c.action # NONE
    <3>1. PICK j : IsLastQuote(more, c.sym, Len(more), j) /\ more[j].bid = c.bid /\ more[j].ask = c.ask
      BY <2>3 DEF Quoted, Shown
    <3>2. Len(more) = i /\ more[i] = c
      BY <1>1, <2>3
    <3> HIDE DEF n
    <3> QED BY <3>1, <3>2
  <2> QED BY <2>1, <2>2, <2>3
<1> QED BY <1>2 DEF Booked

(* An entry no earlier than those before it keeps the log in order. *)
LEMMA SortedGrows ==
  ASSUME NEW S, NEW entries \in Seq(S), Priced(S), NEW c \in S, Sorted(entries), Until(entries, c.time)
  PROVE  Sorted(Append(entries, c))
<1> DEFINE n == Len(entries)
           more == Append(entries, c)
<1>1. /\ n \in Nat /\ DOMAIN entries = 1 .. n /\ DOMAIN more = 1 .. n + 1 /\ more[n + 1] = c
      /\ \A i \in 1 .. n : more[i] = entries[i]
  OBVIOUS
<1> HIDE DEF n, more
<1>2. c.time \in Nat
  BY DEF Priced
<1>3. ASSUME NEW j \in 1 .. n + 1, NEW i \in 1 .. j PROVE more[i].time <= more[j].time
  <2>1. CASE j = n + 1 /\ i = n + 1
    BY <1>1, <1>2, <2>1
  <2>2. CASE j = n + 1 /\ i # n + 1
    <3>1. i \in 1 .. n
      BY <1>1, <2>2
    <3> QED BY <1>1, <2>2, <3>1 DEF Until
  <2>3. CASE j # n + 1
    <3>1. j \in 1 .. n /\ i \in 1 .. n
      BY <1>1, <2>3
    <3> QED BY <1>1, <3>1 DEF Sorted
  <2> QED BY <2>1, <2>2, <2>3
<1> QED BY <1>1, <1>3 DEF Sorted, more

(* What the streaming replay keeps of its log, while it runs and once it has ended. *)
ForwardInv ==
  /\ \E S : log \in Seq(S) /\ Priced(S)
  /\ Sorted(log) /\ Booked(log)
  /\ \A s \in Symbols : Quoted(market[s], log, s)
  /\ driver = "streaming" /\ status = "running" =>
       Accumulator(forward) /\ Latest(forward, log) /\ Tracks(forward, log, Candidates(log))
  /\ driver = "streaming" /\ status = "finished" =>
       (\E T : forward.rows \in Seq(T)) /\ Reports(forward.rows, log, Pairs(Candidates(log)))

SameBook(w, st) ==
  /\ w.bid = st.bid /\ w.ask = st.ask
  /\ w.bid_valid <=> st.bid_valid
  /\ w.ask_valid <=> st.ask_valid

(* The entry that an accepted event makes, beside the book it leaves. *)
Enters(c, d) ==
  /\ log' = Append(log, c) /\ Report(c)
  /\ c.time = now' /\ now <= c.time /\ c.time \in Nat /\ c.bid \in Nat /\ c.ask \in Nat
  /\ c.sym \in Symbols
  /\ \E w : /\ market' = [MarketAt(d) EXCEPT ![c.sym] = w] /\ w.bid = c.bid /\ w.ask = c.ask
            /\ c.action # NONE => w.bid_valid
            /\ c.kind # "quote" => SameBook(w, MarketAt(d)[c.sym])

(* A candidate needs a book with both its sides. *)
LEMMA FiresOnQuotes ==
  ASSUME NEW config, NEW strat, NEW st, NEW sym, NEW f, f = Feature(st, sym),
         evaluate(config, strat, f).signal.action # NONE
  PROVE  QuotesValid(st)
<1>1. candidate_fire(config, strat, f)
  BY DEF evaluate
<1>2. feature_set_valid(f)
  BY <1>1 DEF candidate_fire, eligible_direction
<1>3. f.valid.spread
  BY <1>2 DEF feature_set_valid
<1> QED BY <1>3 DEF Feature

(* The midpoint put into the window leaves the book. *)
LEMMA MidpointKeepsBook ==
  ASSUME NEW st, DOMAIN st = Fields PROVE SameBook(WithMidpoint(st), st)
BY DEF WithMidpoint, Fields, SameBook

(* Every accepted event makes such an entry. *)
LEMMA AcceptedEntry ==
  ASSUME StatsInv, NEW e \in Offered(input_events + 1),
         AcceptedEvent(e, now + e.wait, day + e.days)
  PROVE  \E c : Enters(c, day + e.days)
<1> DEFINE t == now + e.wait
           d == day + e.days
           event == [sym |-> e.sym, kind |-> e.kind, side |-> e.side, price |-> e.price,
                     quantity |-> e.quantity, sequence |-> SequenceOf(e, d)]
           st == MarketAt(d)[e.sym]
           new == Applied(st, event)
           f == Feature(new, e.sym)
           decision == evaluate(cfg, StrategyAt(d), f)
           c == Entry(e, t, d, decision.signal, f)
<1>1. Arrives(e, t, d) /\ TypeInv'
  BY AcceptedTypes DEF StatsInv, AcceptedEvent
<1>2. e.wait \in Nat /\ now \in Nat
  <2>1. e.wait \in Nat
    BY <1>1, OfferedEvent DEF StatsInv, TypeInv
  <2> QED BY <2>1 DEF StatsInv, TypeInv, TypeOK
<1>3. t \in Nat /\ now <= t /\ now' = t
  BY <1>1, <1>2 DEF Arrives
<1>4. Rejection(MarketAt(d), event) = "none"
  BY DEF AcceptedEvent, Result, process_event, Rejection
<1>5. e.sym \in Symbols /\ e.kind \in {"quote", "trade"}
  BY <1>4 DEF Rejection
<1>6. Result(e, d) = [market |-> [MarketAt(d) EXCEPT ![e.sym] = WithMidpoint(new)],
                      outcome |-> "feature", feature |-> f]
  BY <1>4 DEF Result, process_event
<1>7. market' = [MarketAt(d) EXCEPT ![e.sym] = WithMidpoint(new)]
  <2> HIDE DEF new, f
  <2> QED BY <1>1, <1>6 DEF Arrives
<1>8. log' = Append(log, c) /\ Report(c)
  <2> HIDE DEF f
  <2>1. Result(e, d).feature = f
    BY <1>6
  <2> QED BY <2>1 DEF AcceptedEvent
<1>9. event.kind = e.kind
  OBVIOUS
<1>10. DOMAIN st = Fields
  <2>1. Reflects(st, OfSymbol(RecentAt(d), e.sym))
    BY <1>5, SlotsAt DEF StatsInv, TypeInv
  <2> QED BY <2>1 DEF Reflects
<1> HIDE DEF event
<1>11. DOMAIN new = Fields
  <2> HIDE DEF st
  <2>1. CASE e.kind = "trade"
    <3>1. event.kind = "trade"
      BY <1>9, <2>1
    <3> QED BY <1>10, <3>1, TradeFields
  <2>2. CASE e.kind = "quote"
    <3>1. event.kind = "quote"
      BY <1>9, <2>2
    <3> QED BY <1>10, <3>1, QuoteFields
  <2> QED BY <1>5, <2>1, <2>2
<1>12. ASSUME e.kind = "trade" PROVE SameBook(new, st)
  <2> HIDE DEF st
  <2>1. event.kind = "trade"
    BY <1>9, <1>12
  <2> QED BY <1>10, <2>1, TradeFields DEF SameBook
<1> HIDE DEF st
<1>13. f.bid = new.bid /\ f.ask = new.ask
  BY DEF Feature
<1> DEFINE w == WithMidpoint(new)
<1>14. decision.signal.action # NONE => QuotesValid(new)
  BY FiresOnQuotes
<1> HIDE DEF new
<1>15. SameBook(w, new)
  BY <1>11, MidpointKeepsBook
<1> HIDE DEF f, decision
<1>16. /\ c.time = t /\ c.sym = e.sym /\ c.kind = e.kind /\ c.bid = f.bid /\ c.ask = f.ask
       /\ c.feature = f /\ c.action = decision.signal.action
  BY DEF Entry
<1> HIDE DEF c, w, t, d
<1>17. f.bid \in Nat /\ f.ask \in Nat
  <2>1. PICK S : log \in Seq(S)
    BY DEF StatsInv, Logs
  <2>2. Len(log) + 1 \in DOMAIN log' /\ log'[Len(log) + 1] = c
    BY <1>8, <2>1
  <2>3. FeatureOK(c.feature)
    BY <1>1, <2>2 DEF TypeInv, TypeOK
  <2> QED BY <1>16, <2>3 DEF FeatureOK
<1>18. w.bid = c.bid /\ w.ask = c.ask
  BY <1>13, <1>15, <1>16 DEF SameBook
<1>19. c.action # NONE => w.bid_valid
  <2> SUFFICES ASSUME c.action # NONE PROVE w.bid_valid
    OBVIOUS
  <2>1. new.bid_valid
    BY <1>14, <1>16 DEF QuotesValid
  <2> QED BY <1>15, <2>1 DEF SameBook
<1>20. c.kind # "quote" => SameBook(w, st)
  BY <1>5, <1>12, <1>15, <1>16 DEF SameBook
<1>21. Enters(c, d)
  BY <1>3, <1>5, <1>7, <1>8, <1>16, <1>17, <1>18, <1>19, <1>20 DEF Enters, w, st
<1> QED BY <1>21 DEF d

(* A reset empties every book. *)
LEMMA QuotedAt ==
  ASSUME WindowInv, NEW s \in Symbols, Quoted(market[s], log, s), NEW d
  PROVE  Quoted(MarketAt(d)[s], log, s) /\ DOMAIN MarketAt(d) = Symbols
<1>1. CASE Resets(d)
  <2>1. MarketAt(d) = reset_market
    BY <1>1 DEF MarketAt
  <2>2. DOMAIN reset_market = Symbols /\ reset_market[s] = EmptyState
    BY DEF reset_market
  <2>3. ~EmptyState.bid_valid /\ ~EmptyState.ask_valid
    BY DEF EmptyState
  <2> QED BY <2>1, <2>2, <2>3 DEF Quoted
<1>2. CASE ~Resets(d)
  BY <1>2 DEF MarketAt, WindowInv
<1> QED BY <1>1, <1>2

(* The invariant, by step. *)
LEMMA AcceptedForward ==
  ASSUME StatsInv, ForwardInv, status = "running", driver' = driver, status' = status,
         NEW d, NEW c, Enters(c, d)
  PROVE  ForwardInv'
<1> DEFINE more == Append(log, c)
<1>1. PICK R : log \in Seq(R) /\ Priced(R)
  BY DEF ForwardInv
<1> DEFINE S == R \cup {c}
<1>2. log \in Seq(S) /\ c \in S /\ Priced(S)
  BY <1>1 DEF Priced, Enters
<1> HIDE DEF S
<1>3. Until(log, c.time)
  <2>1. ASSUME NEW i \in DOMAIN log PROVE log[i].time <= c.time
    <3>1. log[i] \in S
      BY <1>2
    <3>2. log[i].time \in Nat /\ now \in Nat
      BY <1>2, <3>1 DEF Priced, StatsInv, TypeInv, TypeOK
    <3>3. log[i].time <= now
      BY DEF StatsInv, Until
    <3> QED BY <3>2, <3>3 DEF Enters
  <2> QED BY <2>1 DEF Until
<1>4. PICK w : /\ market' = [MarketAt(d) EXCEPT ![c.sym] = w] /\ w.bid = c.bid /\ w.ask = c.ask
               /\ c.action # NONE => w.bid_valid
               /\ c.kind # "quote" => SameBook(w, MarketAt(d)[c.sym])
  BY DEF Enters
<1>5. \A s \in Symbols : Quoted(MarketAt(d)[s], log, s) /\ DOMAIN MarketAt(d) = Symbols
  BY QuotedAt DEF ForwardInv, StatsInv, TypeInv
<1>6. log' = more /\ c.sym \in Symbols
  BY DEF Enters
<1> DEFINE list == more
<1>7. list = Append(log, c)
  OBVIOUS
<1> HIDE DEF list
<1>8. ASSUME NEW s \in Symbols PROVE Quoted(market'[s], list, s)
  <2> DEFINE st == MarketAt(d)[s]
             after == market'[s]
  <2>1. Quoted(st, log, s)
    BY <1>5
  <2>2. CASE s = c.sym
    <3>1. after = w
      BY <1>4, <1>5, <2>2
    <3>2. CASE c.kind = "quote"
      <4>1. Shows(c, s, st, after)
        BY <1>4, <2>2, <3>1, <3>2 DEF Shows
      <4> HIDE DEF after, st
      <4>2. Quoted(after, list, s)
        BY <1>2, <1>7, <2>1, <4>1, QuotedGrows
      <4> QED BY <4>2 DEF after
    <3>3. CASE c.kind # "quote"
      <4>1. Shows(c, s, st, after)
        BY <1>4, <2>2, <3>1, <3>3 DEF Shows, SameBook, IsOther
      <4> HIDE DEF after, st
      <4>2. Quoted(after, list, s)
        BY <1>2, <1>7, <2>1, <4>1, QuotedGrows
      <4> QED BY <4>2 DEF after
    <3> QED BY <3>2, <3>3
  <2>3. CASE s # c.sym
    <3>1. after = st
      BY <1>4, <1>5, <2>3
    <3>2. Shows(c, s, st, after)
      BY <2>3, <3>1 DEF Shows, IsOther
    <3> HIDE DEF after, st
    <3>3. Quoted(after, list, s)
      BY <1>2, <1>7, <2>1, <3>2, QuotedGrows
    <3> QED BY <3>3 DEF after
  <2> QED BY <2>2, <2>3
<1>9. c.action # NONE => Quoted(Shown(c), list, c.sym)
  <2> SUFFICES ASSUME c.action # NONE PROVE Quoted(Shown(c), list, c.sym)
    OBVIOUS
  <2>1. market'[c.sym] = w
    BY <1>4, <1>5, <1>6
  <2>2. Quoted(w, list, c.sym)
    BY <1>6, <1>8, <2>1
  <2>3. \E j : IsLastQuote(list, c.sym, Len(list), j) /\ list[j].bid = w.bid /\ list[j].ask = w.ask
    BY <1>4, <2>2 DEF Quoted
  <2> QED BY <1>4, <2>3 DEF Quoted, Shown
<1>10. Booked(list)
  BY <1>2, <1>7, <1>9, BookedGrows DEF ForwardInv
<1>11. Sorted(list)
  BY <1>2, <1>3, <1>7, SortedGrows DEF ForwardInv
<1>12. list \in Seq(S)
  BY <1>2, <1>7
<1>13. ASSUME driver = "streaming"
       PROVE  Accumulator(forward') /\ Latest(forward', list) /\ Tracks(forward', list, Candidates(list))
  <2>1. forward' = ForwardAfter(c)
    BY <1>13 DEF Enters, Report
  <2>2. Accumulator(forward) /\ Latest(forward, log) /\ Tracks(forward, log, Candidates(log))
    BY <1>13 DEF ForwardInv
  <2> QED BY <1>2, <1>3, <1>7, <1>9, <2>1, <2>2, ForwardGrows
<1>14. log' = list
  BY <1>6, <1>7
<1>15. \E T : log' \in Seq(T) /\ Priced(T)
  BY <1>2, <1>12, <1>14
<1>16. Sorted(log)' /\ Booked(log)'
  BY <1>10, <1>11, <1>14 DEF Sorted, Booked, Candidates, IsLastQuote
<1>17. \A s \in Symbols : Quoted(market[s], log, s)'
  BY <1>8, <1>14 DEF Quoted, IsLastQuote
<1>18. status' # "finished"
  OBVIOUS
<1> QED BY <1>13, <1>14, <1>15, <1>16, <1>17, <1>18 DEF ForwardInv

LEMMA EndedForward ==
  ASSUME ForwardInv, EndOfReplay PROVE ForwardInv'
<1>2. /\ status = "running" /\ status' = "finished" /\ driver' = driver /\ log' = log
      /\ market' = market
  BY DEF EndOfReplay
<1>3. ASSUME driver = "streaming"
      PROVE  (\E T : forward'.rows \in Seq(T)) /\ Reports(forward'.rows, log, Pairs(Candidates(log)))
  <2> DEFINE places == Candidates(log)
  <2>1. PICK S : log \in Seq(S) /\ Priced(S)
    BY DEF ForwardInv
  <2>2. places \in SUBSET DOMAIN log /\ (\A i \in places : log[i].time \in Nat)
    <3>1. \A i \in DOMAIN log : log[i] \in S
      BY <2>1
    <3> QED BY <2>1, <3>1 DEF Candidates, Priced
  <2>3. Accumulator(forward) /\ Tracks(forward, log, places)
    BY <1>2, <1>3 DEF ForwardInv
  <2>4. forward' = finish(forward)
    BY <1>3 DEF EndOfReplay
  <2> HIDE DEF places
  <2>5. /\ \E T : finish(forward).rows \in Seq(T)
        /\ Reports(finish(forward).rows, log, Pairs(places))
    BY <2>2, <2>3, FinishReports
  <2> QED BY <2>4, <2>5 DEF places
<1>4. status' # "running"
  BY <1>2
<1>5. /\ \E S : log' \in Seq(S) /\ Priced(S)
      /\ Sorted(log') /\ Booked(log')
      /\ \A s \in Symbols : Quoted(market'[s], log', s)
  BY <1>2 DEF ForwardInv
<1>6. driver' = "streaming" =>
        (\E T : forward'.rows \in Seq(T)) /\ Reports(forward'.rows, log', Pairs(Candidates(log')))
  BY <1>2, <1>3
<1> QED BY <1>4, <1>5, <1>6 DEF ForwardInv

LEMMA NextForward ==
  ASSUME StatsInv, ForwardInv, [Next]_vars PROVE ForwardInv'
<1>1. ASSUME NEW e \in Offered(input_events + 1), AcceptedEvent(e, now + e.wait, day + e.days)
      PROVE  ForwardInv'
  <2>1. PICK c : Enters(c, day + e.days)
    BY <1>1, AcceptedEntry
  <2>2. status = "running" /\ driver' = driver /\ status' = status
    BY <1>1 DEF AcceptedEvent, Arrives
  <2> QED BY <2>1, <2>2, AcceptedForward
<1>2. ASSUME NEW e \in Offered(input_events + 1), RejectedEvent(e, now + e.wait, day + e.days)
      PROVE  ForwardInv'
  <2> DEFINE d == day + e.days
  <2>1. /\ Arrives(e, now + e.wait, d) /\ log' = log /\ forward' = forward
        /\ driver' = driver /\ status' = status
    BY <1>2 DEF RejectedEvent, statistics, Arrives
  <2>2. market' = MarketAt(d)
    <3>1. market' = Result(e, d).market
      BY <2>1 DEF Arrives
    <3>2. Result(e, d).outcome # "feature"
      BY <1>2 DEF RejectedEvent
    <3> QED BY <3>1, <3>2 DEF Result, process_event
  <2> HIDE DEF d
  <2>3. \A s \in Symbols : Quoted(market'[s], log', s)
    BY <2>1, <2>2, QuotedAt DEF ForwardInv, StatsInv, TypeInv
  <2> QED BY <2>1, <2>3 DEF ForwardInv
<1>3. CASE EndOfReplay
  BY <1>3, EndedForward
<1>4. CASE UNCHANGED vars
  <2>1. /\ driver' = driver /\ status' = status /\ log' = log /\ market' = market /\ forward' = forward
    BY <1>4 DEF vars, statistics
  <2> QED BY <2>1 DEF ForwardInv
<1> QED BY <1>1, <1>2, <1>3, <1>4 DEF Next

(* Nothing is open or reported at the start. *)
LEMMA NoneTracked ==
  ASSUME NEW entries, entries = <<>>
  PROVE  /\ Accumulator(NewForward(Symbols)) /\ Latest(NewForward(Symbols), entries)
         /\ Tracks(NewForward(Symbols), entries, Candidates(entries))
<1> DEFINE fw == NewForward(Symbols)
           none == <<>>
           first == 1
<1>1. /\ fw.rows = none /\ fw.pending = {} /\ fw.next_id = first /\ Accumulator(fw)
      /\ DOMAIN fw.last_quotes = Symbols
  BY DEF NewForward, Accumulator
<1>2. none \in Seq({}) /\ Len(none) = 0 /\ DOMAIN none = {} /\ first \in Nat
  OBVIOUS
<1> HIDE DEF fw, none, first
<1>3. entries = none
  BY DEF none
<1>4. Candidates(entries) = {} /\ Len(entries) = 0
  BY <1>2, <1>3 DEF Candidates
<1>5. Pairs({}) = {}
  BY DEF Pairs
<1>6. ClosedPairs(entries, {}) = {} /\ OpenPairs(entries, {}) = {}
  BY <1>5 DEF ClosedPairs, OpenPairs
<1>7. [x \in {} |-> x] \in Bijection({}, {})
  <2> DEFINE g == [x \in {} |-> x]
  <2>1. g \in [{} -> {}]
    OBVIOUS
  <2>2. (\A a, b \in {} : g[a] = g[b] => a = b) /\ (\A b \in {} : \E a \in {} : g[a] = b)
    OBVIOUS
  <2> HIDE DEF g
  <2>3. g \in Bijection({}, {})
    BY <2>1, <2>2, Fun_IsBij
  <2> QED BY <2>3 DEF g
<1>8. Reports(none, entries, {})
  BY <1>2, <1>7 DEF Reports
<1>9. Awaits({}, entries, {})
  BY <1>7 DEF Awaits
<1>10. Latest(fw, entries)
  <2>1. \A s, j : ~IsLastQuote(entries, s, 0, j)
    BY DEF IsLastQuote
  <2> QED BY <1>1, <1>4, <2>1 DEF Latest
<1>11. IsFiniteSet({}) /\ Numbered({}, first)
  BY FS_EmptySet DEF Numbered
<1>12. Tracks(fw, entries, {})
  BY <1>1, <1>2, <1>6, <1>8, <1>9, <1>11 DEF Tracks
<1> QED BY <1>1, <1>4, <1>10, <1>12 DEF fw

LEMMA InitForward == ASSUME Init PROVE ForwardInv
<1>1. log = <<>> /\ market = reset_market /\ forward = NewForward(Symbols) /\ status = "running"
  BY DEF Init
<1>2. log \in Seq({}) /\ Priced({}) /\ DOMAIN log = {}
  BY <1>1 DEF Priced
<1>3. Sorted(log) /\ Booked(log)
  BY <1>2 DEF Sorted, Booked, Candidates
<1>4. ASSUME NEW s \in Symbols PROVE Quoted(market[s], log, s)
  <2>1. market[s] = EmptyState
    BY <1>1 DEF reset_market
  <2>2. ~EmptyState.bid_valid /\ ~EmptyState.ask_valid
    BY DEF EmptyState
  <2> QED BY <2>1, <2>2 DEF Quoted
<1>5. Accumulator(forward) /\ Latest(forward, log) /\ Tracks(forward, log, Candidates(log))
  BY <1>1, NoneTracked
<1>6. status # "finished"
  BY <1>1
<1>7. \E S : log \in Seq(S) /\ Priced(S)
  BY <1>2
<1> QED BY <1>3, <1>4, <1>5, <1>6, <1>7 DEF ForwardInv

(* For every list of events, every configuration and every list of horizons: a  *)
(* streaming replay ends with a row for every candidate and horizon, as the     *)
(* analysis of the complete lists does, each with the result found there, but   *)
(* for the entry price of a candidate that a later quote shares its time with   *)
(* and for candidates on a side without a price; and its statistics are those   *)
(* of the complete lists (streaming.py _ForwardAccumulator; forward_returns.py  *)
(* ForwardReturnAnalyzer; pipeline.py).                                         *)
THEOREM StreamingIsAnalysis == Spec => []StreamingAgrees
<1>1. Init => ForwardInv /\ StatsInv
  BY InitForward, InitStats
<1>2. StatsInv /\ ForwardInv /\ [Next]_vars => ForwardInv' /\ StatsInv'
  BY NextForward, NextStats
<1>3. ForwardInv => (status = "finished" /\ driver = "streaming" => ForwardAgrees)
  <2> SUFFICES ASSUME ForwardInv, status = "finished", driver = "streaming" PROVE ForwardAgrees
    OBVIOUS
  <2>1. PICK S : log \in Seq(S) /\ Priced(S)
    BY DEF ForwardInv
  <2>2. PICK T : forward.rows \in Seq(T)
    BY DEF ForwardInv
  <2>3. Sorted(log) /\ Booked(log) /\ Reports(forward.rows, log, Pairs(Candidates(log)))
    BY DEF ForwardInv
  <2> QED BY <2>1, <2>2, <2>3, ForwardMatches
<1>4. StatisticsAgree /\ ForwardInv => StreamingAgrees
  BY <1>3 DEF StreamingAgrees
<1> QED BY <1>1, <1>2, <1>4, StatisticsAreOfTheLog, PTL DEF Spec
=============================================================================
