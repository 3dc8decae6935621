------------------------- MODULE TradingFabric_proofs --------------------------
(***************************************************************************)
(* What the fabric promises for every number of slots and packets, every   *)
(* FIFO depth and every latency of its blocks: types, that the two engines *)
(* remember the same events, that a CLEAR separates, and that every packet *)
(* that deserves an answer gets its own.                                   *)
(***************************************************************************)
EXTENDS TradingFabric, SequenceTheorems, WellFoundedInduction, TLAPS

(* The types block by block, and that a packet is routed as its kind demands. *)
QueuesOK == /\ rx \in Seq(Packet) /\ Len(rx) <= FifoDepth
            /\ tx \in Seq(Answers) /\ Len(tx) <= FifoDepth

DispatcherOK ==
  /\ disp \in [state : {"IDLE", "CRC_PACKET", "CLASSIFY", "ROUTE_EVENT", "ROUTE_CONTROL",
                        "ROUTE_LOOPBACK"},
               packet : Packet \union {None}, left : 0 .. CrcCycles,
               override : Statuses \union {None}]
  /\ disp.state # "IDLE" => disp.packet \in Packet
  /\ disp.state = "CRC_PACKET" => disp.left >= 1
  /\ disp.state = "ROUTE_EVENT" => disp.packet.kind = "event" /\ disp.packet.sym \in Symbols

MarketOK ==
  /\ market \in [state : {"IDLE", "CHECK", "CALC", "OUTPUT"}, event : Packet \union {None},
                 left : Nat, feature_valid : BOOLEAN]
  /\ market.feature_valid => market.state = "OUTPUT"
  /\ market.state # "IDLE" =>
       market.event \in Packet /\ market.event.kind = "event" /\ market.event.sym \in Symbols

LoopbackOK ==
  /\ loopback \in [state : {"IDLE", "BUSY", "OUTPUT_RESPONSE"}, request : Packet \union {None},
                   left : 0 .. LoopbackCycles, override : Statuses \union {None}]
  /\ loopback.state # "IDLE" => loopback.request \in Packet
  /\ loopback.state = "BUSY" => loopback.left >= 1

SlotsOK ==
  /\ slot_reset \in Symbols \union {None}
  /\ market_slot \in [Symbols -> SUBSET (1 .. MaxPackets)]
  /\ signal_slot \in [Symbols -> SUBSET (1 .. MaxPackets)]

HistoryOK ==
  /\ sent \in 0 .. MaxPackets /\ hasty \in BOOLEAN
  /\ clears \subseteq (Symbols \union {NoSlot}) \X (1 .. MaxPackets)

Types == QueuesOK /\ DispatcherOK /\ MarketOK /\ LoopbackOK /\ SlotsOK /\ HistoryOK

(* These types are stronger than the checked ones. *)
LEMMA TypesImplyTypeOK == Types => TypeOK
BY DEF Types, TypeOK, QueuesOK, DispatcherOK, MarketOK, LoopbackOK, SlotsOK, HistoryOK

(* They hold at the start. *)
LEMMA InitTypes == ASSUME Init PROVE Types
<1>1. 0 \in 0 .. CrcCycles /\ 0 \in 0 .. LoopbackCycles /\ 0 \in 0 .. MaxPackets /\ 0 <= FifoDepth
  BY FabricAssumption
<1>2. QueuesOK
  BY <1>1 DEF Init, QueuesOK
<1>3. DispatcherOK
  BY <1>1 DEF Init, DispatcherOK
<1>4. MarketOK /\ LoopbackOK
  BY <1>1 DEF Init, MarketOK, LoopbackOK
<1>5. SlotsOK /\ HistoryOK
  BY <1>1 DEF Init, SlotsOK, HistoryOK
<1> QED BY <1>2, <1>3, <1>4, <1>5 DEF Types

(* The dispatcher routes only what it fetched, and an event only if its slot exists. *)
LEMMA DispatcherKeepsTypes == ASSUME Types, Dispatcher PROVE DispatcherOK'
<1> USE FabricAssumption DEF Types, DispatcherOK
<1>1. CASE DispatcherIdle
  <2>1. rx # << >> => Head(rx) \in Packet
    BY DEF QueuesOK
  <2>2. CrcCycles \in 0 .. CrcCycles /\ CrcCycles >= 1
    OBVIOUS
  <2>3. CASE rx = << >> \/ Head(rx).kind = "filler"
    BY <1>1, <2>3 DEF DispatcherIdle
  <2>4. CASE ~(rx = << >> \/ Head(rx).kind = "filler")
    <3>1. disp' = [disp EXCEPT !.state = "CRC_PACKET", !.packet = Head(rx), !.left = CrcCycles]
      BY <1>1, <2>4 DEF DispatcherIdle
    <3> QED BY <2>1, <2>2, <2>4, <3>1
  <2> QED BY <2>3, <2>4
<1>2. CASE CrcPacket
  <2>1. disp.left \in Nat /\ disp.left >= 1 /\ disp.left <= CrcCycles
    BY <1>2 DEF CrcPacket
  <2>2. CASE disp.left = 1
    <3>1. disp' = [disp EXCEPT !.state = "CLASSIFY", !.left = 0] /\ disp.state = "CRC_PACKET"
      BY <1>2, <2>2 DEF CrcPacket
    <3>2. 0 \in 0 .. CrcCycles
      OBVIOUS
    <3> QED BY <3>1, <3>2
  <2>3. CASE disp.left # 1
    <3>1. disp' = [disp EXCEPT !.left = disp.left - 1] /\ disp.state = "CRC_PACKET"
      BY <1>2, <2>3 DEF CrcPacket
    <3>2. disp.left - 1 \in 0 .. CrcCycles /\ disp.left - 1 >= 1
      BY <2>1, <2>3
    <3> QED BY <3>1, <3>2
  <2> QED BY <2>2, <2>3
<1>3. CASE Classify
  <2> DEFINE p == disp.packet
  <2> DEFINE bad_symbol == p.kind = "event" /\ p.sym \notin Symbols
  <2> DEFINE route == CASE p.kind = "event" /\ ~bad_symbol -> "ROUTE_EVENT"
                        [] p.kind \in {"config", "clear"} -> "ROUTE_CONTROL"
                        [] OTHER -> "ROUTE_LOOPBACK"
  <2>1. route \in {"ROUTE_EVENT", "ROUTE_CONTROL", "ROUTE_LOOPBACK"}
        /\ (route = "ROUTE_EVENT" => p.kind = "event" /\ p.sym \in Symbols)
    OBVIOUS
  <2>2. disp' = [disp EXCEPT !.state = route,
                             !.override = IF bad_symbol THEN "BAD_SYMBOL" ELSE None]
    BY <1>3 DEF Classify
  <2>3. disp.packet \in Packet
    BY <1>3 DEF Classify
  <2> HIDE DEF route
  <2> QED BY <2>1, <2>2, <2>3 DEF Statuses
<1>4. CASE RouteEvent
  BY <1>4 DEF RouteEvent
<1>5. CASE RouteControl
  BY <1>5 DEF RouteControl, cfg_status, Statuses
<1>6. CASE RouteLoopback
  BY <1>6 DEF RouteLoopback
<1> QED BY <1>1, <1>2, <1>3, <1>4, <1>5, <1>6 DEF Dispatcher

(* Only a known slot is ever reset. *)
LEMMA ConfigKeepsTypes == ASSUME Types, StrategyConfig PROVE slot_reset' \in Symbols \union {None}
BY DEF Types, StrategyConfig, SlotsOK, DispatcherOK, cfg_status

(* The market engine works on routed events. *)
LEMMA MarketKeepsTypes ==
  ASSUME Types, Market
  PROVE  MarketOK' /\ market_slot' \in [Symbols -> SUBSET (1 .. MaxPackets)]
<1> USE FabricAssumption DEF Types, MarketOK, SlotsOK
<1>1. CASE MarketReset
  BY <1>1 DEF MarketReset
<1>2. CASE MarketIdle
  <2>1. CASE event_accepted
    <3>1. disp.packet \in Packet /\ disp.packet.kind = "event" /\ disp.packet.sym \in Symbols
      BY <2>1 DEF event_accepted, DispatcherOK
    <3>2. PICK good_side \in BOOLEAN :
            market' = IF good_side THEN [market EXCEPT !.state = "CHECK", !.event = disp.packet]
                      ELSE market
      BY <1>2, <2>1 DEF MarketIdle
    <3>3. market_slot' = market_slot /\ ~market.feature_valid
      BY <1>2 DEF MarketIdle
    <3> QED BY <3>1, <3>2, <3>3
  <2>2. CASE ~event_accepted
    BY <1>2, <2>2 DEF MarketIdle
  <2> QED BY <2>1, <2>2
<1>3. CASE MarketCheck
  BY <1>3 DEF MarketCheck
<1>4. CASE MarketCalc
  <2>1. market.event.tag \in 1 .. MaxPackets
    BY <1>4 DEF MarketCalc, Packet
  <2>2. CASE market.left > 1
    <3>1. /\ market' = [market EXCEPT !.left = market.left - 1]
          /\ market.state = "CALC" /\ market_slot' = market_slot
      BY <1>4, <2>2 DEF MarketCalc
    <3>2. market.left - 1 \in Nat
      BY <2>2
    <3> QED BY <3>1, <3>2
  <2>3. CASE ~(market.left > 1)
    <3>1. /\ market' = [market EXCEPT !.state = "OUTPUT", !.left = 0] /\ market.state = "CALC"
          /\ market_slot' = [market_slot EXCEPT ![market.event.sym] = @ \union {market.event.tag}]
      BY <1>4, <2>3 DEF MarketCalc
    <3>2. MarketOK'
      BY <3>1
    <3>3. market_slot' \in [Symbols -> SUBSET (1 .. MaxPackets)]
      BY <2>1, <3>1
    <3> QED BY <3>2, <3>3
  <2> QED BY <2>2, <2>3
<1>5. CASE MarketOutput
  BY <1>5 DEF MarketOutput
<1> QED BY <1>1, <1>2, <1>3, <1>4, <1>5 DEF Market

(* The signal engine remembers events that were sent. *)
LEMMA SignalKeepsTypes ==
  ASSUME Types, SignalEdge PROVE signal_slot' \in [Symbols -> SUBSET (1 .. MaxPackets)]
<1>1. feature_accepted => market.event.tag \in 1 .. MaxPackets
  BY DEF Types, MarketOK, Packet, feature_accepted
<1> QED BY <1>1 DEF Types, SlotsOK, SignalEdge

(* The loopback engine answers with a status of the protocol, if there is room. *)
LEMMA LoopbackKeepsTypes ==
  ASSUME Types, Loopback PROVE LoopbackOK' /\ tx' \in Seq(Answers) /\ Len(tx') <= FifoDepth
<1> USE FabricAssumption DEF Types, LoopbackOK, QueuesOK
<1>1. CASE LoopbackIdle
  <2>1. LoopbackCycles \in 0 .. LoopbackCycles /\ LoopbackCycles >= 1
    OBVIOUS
  <2>2. disp.state = "ROUTE_LOOPBACK" => disp.packet \in Packet
    BY DEF DispatcherOK
  <2>3. disp.override \in Statuses \union {None}
    BY DEF DispatcherOK
  <2>4. tx' = tx
    BY <1>1 DEF LoopbackIdle
  <2>5. CASE disp.state = "ROUTE_LOOPBACK"
    <3>1. loopback' = [state |-> "BUSY", request |-> disp.packet, left |-> LoopbackCycles,
                       override |-> disp.override]
      BY <1>1, <2>5 DEF LoopbackIdle
    <3> QED BY <2>1, <2>2, <2>3, <2>4, <2>5, <3>1
  <2>6. CASE disp.state # "ROUTE_LOOPBACK"
    BY <1>1, <2>4, <2>6 DEF LoopbackIdle
  <2> QED BY <2>5, <2>6
<1>2. CASE LoopbackBusy
  <2>1. loopback.left \in Nat /\ loopback.left >= 1 /\ loopback.left <= LoopbackCycles
    BY <1>2 DEF LoopbackBusy
  <2>2. CASE loopback.left = 1
    <3>1. /\ loopback' = [loopback EXCEPT !.state = "OUTPUT_RESPONSE", !.left = 0]
          /\ loopback.state = "BUSY" /\ tx' = tx
      BY <1>2, <2>2 DEF LoopbackBusy
    <3>2. 0 \in 0 .. LoopbackCycles
      OBVIOUS
    <3> QED BY <3>1, <3>2
  <2>3. CASE loopback.left # 1
    <3>1. /\ loopback' = [loopback EXCEPT !.left = loopback.left - 1]
          /\ loopback.state = "BUSY" /\ tx' = tx
      BY <1>2, <2>3 DEF LoopbackBusy
    <3>2. loopback.left - 1 \in 0 .. LoopbackCycles /\ loopback.left - 1 >= 1
      BY <2>1, <2>3
    <3> QED BY <3>1, <3>2
  <2> QED BY <2>2, <2>3
<1>3. CASE LoopbackOutput
  <2>1. ResponseStatus \in Statuses
    BY <1>3 DEF LoopbackOutput, ResponseStatus, Statuses
  <2>2. loopback.request.tag \in 1 .. MaxPackets
    BY <1>3 DEF LoopbackOutput, Packet
  <2>3. Response \in Answers
    BY <2>1, <2>2 DEF Response, Answers
  <2> HIDE DEF Response
  <2>4. CASE Len(tx) < FifoDepth
    <3>1. tx' = Append(tx, Response) /\ loopback' = [loopback EXCEPT !.state = "IDLE"]
      BY <1>3, <2>4 DEF LoopbackOutput
    <3>2. tx' \in Seq(Answers) /\ Len(tx') = Len(tx) + 1
      BY <2>3, <3>1
    <3>3. LoopbackOK'
      BY <1>3, <3>1 DEF LoopbackOutput
    <3>4. Len(tx') <= FifoDepth
      BY <2>4, <3>2
    <3> QED BY <3>2, <3>3, <3>4
  <2>5. CASE ~(Len(tx) < FifoDepth)
    BY <1>3, <2>5 DEF LoopbackOutput
  <2> QED BY <2>4, <2>5
<1> QED BY <1>1, <1>2, <1>3 DEF Loopback

(* Every step keeps the types. *)
LEMMA NextTypes == ASSUME Types, [Next]_vars PROVE Types'
<1>1. CASE Clk
  <2>1. rx' \in Seq(Packet) /\ Len(rx') <= FifoDepth
    <3>1. CASE rx' = rx
      BY <3>1 DEF Types, QueuesOK
    <3>2. CASE rx # << >> /\ rx' = Tail(rx)
      <4>1. Tail(rx) \in Seq(Packet) /\ Len(Tail(rx)) = Len(rx) - 1
        BY <3>2 DEF Types, QueuesOK
      <4> QED BY <3>2, <4>1, FabricAssumption DEF Types, QueuesOK
    <3> QED BY <1>1, <3>1, <3>2 DEF Clk, Fetched
  <2>2. HistoryOK'
    BY <1>1 DEF Clk, Types, HistoryOK
  <2>3. SlotsOK'
    BY <1>1, ConfigKeepsTypes, MarketKeepsTypes, SignalKeepsTypes DEF Clk, SlotsOK
  <2>4. DispatcherOK' /\ MarketOK' /\ LoopbackOK'
    BY <1>1, DispatcherKeepsTypes, MarketKeepsTypes, LoopbackKeepsTypes DEF Clk
  <2>5. tx' \in Seq(Answers) /\ Len(tx') <= FifoDepth
    BY <1>1, LoopbackKeepsTypes DEF Clk
  <2> QED BY <2>1, <2>2, <2>3, <2>4, <2>5 DEF Types, QueuesOK
<1>2. CASE HostSend
  <2>1. sent' \in 1 .. MaxPackets
    BY <1>2, FabricAssumption DEF HostSend, Types, HistoryOK
  <2>2. PICK k \in Kinds, s \in Symbols \union {NoSlot} :
          /\ rx' = Append(rx, [kind |-> k, sym |-> s, tag |-> sent'])
          /\ clears' = IF k = "clear" THEN clears \union {<<s, sent'>>} ELSE clears
          /\ hasty' = (hasty \/ (k = "clear" /\ EventUnderWay))
    BY <1>2 DEF HostSend
  <2>3. [kind |-> k, sym |-> s, tag |-> sent'] \in Packet
    BY <2>1 DEF Packet
  <2>4. QueuesOK'
    BY <1>2, <2>2, <2>3, FabricAssumption DEF HostSend, Types, QueuesOK
  <2>5. HistoryOK'
    <3>1. clears' \subseteq (Symbols \union {NoSlot}) \X (1 .. MaxPackets)
      BY <2>1, <2>2 DEF Types, HistoryOK
    <3>2. hasty' \in BOOLEAN
      BY <2>2 DEF Types, HistoryOK
    <3> QED BY <2>1, <3>1, <3>2 DEF HistoryOK
  <2> QED BY <1>2, <2>4, <2>5
      DEF HostSend, fabric, Types, DispatcherOK, MarketOK, LoopbackOK, SlotsOK
<1>3. CASE HostFetch
  <2>1. tx' \in Seq(Answers) /\ Len(tx') = Len(tx) - 1
    BY <1>3 DEF HostFetch, Types, QueuesOK
  <2> QED BY <1>3, <2>1, FabricAssumption
          DEF HostFetch, fabric, Types, QueuesOK, DispatcherOK, MarketOK, LoopbackOK, SlotsOK,
              HistoryOK
<1>4. CASE UNCHANGED vars
  BY <1>4 DEF vars, fabric, Types, QueuesOK, DispatcherOK, MarketOK, LoopbackOK, SlotsOK, HistoryOK
<1> QED BY <1>1, <1>2, <1>3, <1>4 DEF Next

(* The registers keep their types, and nothing but an event of a known slot   *)
(* ever occupies the market engine, for every slot count and every latency.   *)
THEOREM TypeCorrect == Spec => []TypeOK
<1>1. Init => Types
  BY InitTypes
<1>2. Types /\ [Next]_vars => Types'
  BY NextTypes
<1> QED BY <1>1, <1>2, TypesImplyTypeOK, PTL DEF Spec

----------------------------------------------------------------------------
(* The engines' memories of a slot differ at most by the event on offer, or *)
(* by a reset that the market engine has still to perform.                  *)
OnOffer(s) == IF market.state = "OUTPUT" /\ market.event.sym = s THEN {market.event.tag} ELSE {}
AgreeUpToOffer ==
  \A s \in Symbols : s # slot_reset => market_slot[s] = signal_slot[s] \union OnOffer(s)

(* What an edge makes of the signal engine's memory of one slot. *)
LEMMA SignalOfSlot ==
  ASSUME Types, SignalEdge, NEW s \in Symbols
  PROVE  signal_slot'[s] =
           IF slot_reset # None THEN (IF s = slot_reset THEN {} ELSE signal_slot[s])
           ELSE IF feature_accepted /\ s = market.event.sym
                THEN signal_slot[s] \union {market.event.tag}
           ELSE signal_slot[s]
BY DEF Types, SlotsOK, SignalEdge, signal_slot_reset_ready

(* A pending reset stays until both engines are ready, and no other joins it. *)
LEMMA PendingReset ==
  ASSUME Types, StrategyConfig, slot_reset # None
  PROVE  slot_reset' = IF market_slot_reset_ready THEN None ELSE slot_reset
BY DEF StrategyConfig, control_ready, config_slot_reset_ready, signal_slot_reset_ready

(* An edge keeps the agreement, whichever of its engines works. *)
LEMMA ClkAgrees ==
  ASSUME Types, AgreeUpToOffer, StrategyConfig, Market, SignalEdge
  PROVE  AgreeUpToOffer'
<1> SUFFICES ASSUME NEW s \in Symbols, s # slot_reset'
             PROVE  market_slot'[s] = signal_slot'[s] \union OnOffer(s)'
  BY DEF AgreeUpToOffer
<1>0. /\ slot_reset = None \/ slot_reset \in Symbols
      /\ None \notin Symbols
      /\ market_slot \in [Symbols -> SUBSET (1 .. MaxPackets)]
  BY FabricAssumption DEF Types, SlotsOK
<1>1. CASE MarketReset
  <2>1. market'.state = "IDLE" /\ market_slot' = [market_slot EXCEPT ![slot_reset] = {}]
        /\ market.state = "IDLE" /\ slot_reset # None
    BY <1>1 DEF MarketReset, market_slot_reset_ready, Types, MarketOK
  <2>2. OnOffer(s) = {} /\ OnOffer(s)' = {}
    BY <2>1 DEF OnOffer
  <2> QED BY <1>0, <2>1, <2>2, SignalOfSlot DEF AgreeUpToOffer
<1>2. CASE MarketIdle
  <2>1. /\ market.state = "IDLE" /\ slot_reset = None /\ ~feature_accepted /\ market_slot' = market_slot
        /\ market'.state # "OUTPUT"
    BY <1>2 DEF MarketIdle, market_slot_reset_ready, feature_accepted, Types, MarketOK
  <2>2. OnOffer(s) = {} /\ OnOffer(s)' = {}
    BY <2>1 DEF OnOffer
  <2> QED BY <1>0, <2>1, <2>2, SignalOfSlot DEF AgreeUpToOffer
<1> SUFFICES ASSUME market.state # "IDLE"
             PROVE  market_slot'[s] = signal_slot'[s] \union OnOffer(s)'
  BY <1>1, <1>2 DEF Market, MarketCheck, MarketCalc, MarketOutput
<1>3. s # slot_reset
  BY <1>0, PendingReset DEF market_slot_reset_ready
<1>4. market_slot[s] = signal_slot[s] \union OnOffer(s)
  BY <1>3 DEF AgreeUpToOffer
<1>5. CASE MarketCheck
  <2>1. /\ market.state = "CHECK" /\ market'.state # "OUTPUT" /\ market_slot' = market_slot
        /\ ~feature_accepted
    BY <1>5 DEF MarketCheck, feature_accepted, Types, MarketOK
  <2>2. OnOffer(s) = {} /\ OnOffer(s)' = {}
    BY <2>1 DEF OnOffer
  <2> QED BY <1>3, <1>4, <2>1, <2>2, SignalOfSlot
<1>6. CASE MarketCalc
  <2>1. market.state = "CALC" /\ ~feature_accepted
    BY <1>6 DEF MarketCalc, feature_accepted, Types, MarketOK
  <2>2. OnOffer(s) = {} /\ signal_slot'[s] = signal_slot[s]
    BY <1>3, <2>1, SignalOfSlot DEF OnOffer
  <2>3. CASE market.left > 1
    <3>1. market'.state = "CALC" /\ market_slot' = market_slot
      BY <1>6, <2>1, <2>3 DEF MarketCalc, Types, MarketOK
    <3> QED BY <1>4, <2>2, <3>1 DEF OnOffer
  <2>4. CASE ~(market.left > 1)
    <3>1. /\ market'.state = "OUTPUT" /\ market'.event = market.event
          /\ market_slot' = [market_slot EXCEPT ![market.event.sym] = @ \union {market.event.tag}]
      BY <1>6, <2>1, <2>4 DEF MarketCalc, Types, MarketOK
    <3>2. market_slot'[s] = market_slot[s] \union OnOffer(s)'
      BY <1>0, <3>1 DEF OnOffer
    <3> QED BY <1>4, <2>2, <3>2
  <2> QED BY <2>3, <2>4
<1>7. CASE MarketOutput
  <2>1. market.state = "OUTPUT" /\ market_slot' = market_slot
    BY <1>7 DEF MarketOutput
  <2>2. CASE feature_accepted
    <3>1. slot_reset = None /\ market'.state = "IDLE"
      BY <1>7, <2>2 DEF MarketOutput, feature_accepted, feature_ready, Types, MarketOK
    <3> QED BY <1>4, <2>1, <2>2, <3>1, SignalOfSlot DEF OnOffer
  <2>3. CASE ~feature_accepted
    <3>1. market'.state = "OUTPUT" /\ market'.event = market.event
      BY <1>7, <2>3 DEF MarketOutput, feature_accepted, feature_ready, Types, MarketOK
    <3>2. signal_slot'[s] = signal_slot[s]
      BY <1>3, <2>3, SignalOfSlot
    <3> QED BY <1>4, <2>1, <3>1, <3>2 DEF OnOffer
  <2> QED BY <2>2, <2>3
<1>8. MarketCheck \/ MarketCalc \/ MarketOutput
  BY DEF Market, MarketReset, MarketIdle, market_slot_reset_ready
<1> QED BY <1>5, <1>6, <1>7, <1>8

(* The two engines remember the same events of every symbol whenever the      *)
(* market engine rests with no reset pending (market_state_engine.sv,         *)
(* signal_engine.sv and the slot-reset handshake of strategy_config.sv).      *)
THEOREM EnginesRememberTheSame == Spec => []EnginesAgree
<1> DEFINE IInv == Types /\ AgreeUpToOffer
<1>1. Init => IInv
  <2> SUFFICES ASSUME Init PROVE AgreeUpToOffer
    BY InitTypes
  <2>1. \A s \in Symbols : market_slot[s] = {} /\ signal_slot[s] = {}
    BY DEF Init
  <2>2. \A s \in Symbols : OnOffer(s) = {}
    BY DEF Init, OnOffer
  <2> QED BY <2>1, <2>2 DEF AgreeUpToOffer
<1>2. IInv /\ [Next]_vars => IInv'
  <2> SUFFICES ASSUME Types, AgreeUpToOffer, [Next]_vars PROVE AgreeUpToOffer'
    BY NextTypes
  <2>1. CASE Clk
    BY <2>1, ClkAgrees DEF Clk
  <2>2. CASE HostSend \/ HostFetch \/ UNCHANGED vars
    BY <2>2 DEF HostSend, HostFetch, vars, fabric, AgreeUpToOffer, OnOffer
  <2> QED BY <2>1, <2>2 DEF Next
<1>3. IInv => EnginesAgree
  <2> SUFFICES ASSUME IInv, market.state = "IDLE", slot_reset = None
               PROVE  market_slot = signal_slot
    BY DEF EnginesAgree
  <2>1. \A s \in Symbols : market_slot[s] = signal_slot[s]
    BY FabricAssumption DEF AgreeUpToOffer, OnOffer
  <2> QED BY <2>1 DEF Types, SlotsOK
<1> QED BY <1>1, <1>2, <1>3, PTL DEF Spec

----------------------------------------------------------------------------
(* What either engine holds of a slot, or the market engine is adding to it. *)
InWork(s) == IF market.state # "IDLE" /\ market.event.sym = s THEN {market.event.tag} ELSE {}
Reflected(s) == market_slot[s] \union signal_slot[s] \union InWork(s)

(* Packets queue up in the order they were sent, behind everything reflected. *)
Ordered ==
  /\ \A i \in 1 .. Len(rx) : rx[i].tag <= sent
  /\ \A i, j \in 1 .. Len(rx) : i < j => rx[i].tag < rx[j].tag
  /\ disp.state # "IDLE" =>
       disp.packet.tag <= sent /\ \A i \in 1 .. Len(rx) : disp.packet.tag < rx[i].tag
  /\ \A s \in Symbols : \A r \in Reflected(s) :
       /\ r <= sent /\ \A i \in 1 .. Len(rx) : r < rx[i].tag
       /\ disp.state # "IDLE" => r < disp.packet.tag

(* A CLEAR is in the RX FIFO, in the dispatcher, or behind every packet there. *)
Clear(c) == [kind |-> "clear", sym |-> c[1], tag |-> c[2]]
Queued(c) == \E i \in 1 .. Len(rx) : rx[i] = Clear(c)
BeforeAcceptance == {"CRC_PACKET", "CLASSIFY", "ROUTE_CONTROL"}
Dispatching(c) == disp.state \in BeforeAcceptance /\ disp.packet = Clear(c)
Passed(c) ==
  /\ \A i \in 1 .. Len(rx) : c[2] < rx[i].tag
  /\ disp.state \in BeforeAcceptance \union {"ROUTE_EVENT"} => c[2] < disp.packet.tag
ClearsTracked == \A c \in clears : c[2] <= sent /\ (Queued(c) \/ Dispatching(c) \/ Passed(c))

(* What is reflected from before a CLEAR waits for its reset, and is never *)
(* together with something from after it.                                  *)
Outstanding(c) == Queued(c) \/ Dispatching(c) \/ slot_reset = c[1]
Separated(c) ==
  /\ (\E r \in Reflected(c[1]) : r < c[2]) => Outstanding(c)
  /\ ~ \E before, after \in Reflected(c[1]) : before < c[2] /\ c[2] < after
ClearsSeparate == \A c \in clears : c[1] \in Symbols => Separated(c)

ClearInv == Types /\ Ordered /\ ClearsTracked /\ ClearsSeparate

(* The event that an edge accepts, if any, is all that is newly reflected. *)
LEMMA ReflectedAfterEdge ==
  ASSUME Types, Clk, NEW s \in Symbols
  PROVE  /\ \A r \in Reflected(s)' :
              \/ r \in Reflected(s)
              \/ event_accepted /\ disp.packet.sym = s /\ r = disp.packet.tag
         /\ (slot_reset = s /\ slot_reset' # s) => Reflected(s)' = {}
<1>0. /\ slot_reset \in Symbols \union {None} /\ None \notin Symbols
      /\ market_slot \in [Symbols -> SUBSET (1 .. MaxPackets)]
      /\ Market /\ SignalEdge /\ StrategyConfig
  BY FabricAssumption DEF Clk, Types, SlotsOK
<1>1. signal_slot'[s] \subseteq signal_slot[s] \union InWork(s)
  BY <1>0, SignalOfSlot DEF InWork, feature_accepted, Types, MarketOK
<1>2. CASE MarketReset
  <2>1. /\ market'.state = "IDLE" /\ market_slot' = [market_slot EXCEPT ![slot_reset] = {}]
        /\ slot_reset # None /\ market.state = "IDLE"
    BY <1>2 DEF MarketReset, market_slot_reset_ready, Types, MarketOK
  <2>2. InWork(s)' = {}
    BY <2>1 DEF InWork
  <2>3. market_slot'[s] \subseteq market_slot[s] /\ (slot_reset = s => market_slot'[s] = {})
    BY <1>0, <2>1
  <2>4. slot_reset = s => signal_slot'[s] = {}
    BY <1>0, <2>1, SignalOfSlot
  <2> QED BY <1>1, <2>2, <2>3, <2>4 DEF Reflected
<1>3. CASE MarketIdle
  <2>1. /\ market.state = "IDLE" /\ slot_reset = None /\ market_slot' = market_slot
        /\ \/ market' = market
           \/ event_accepted /\ market'.state = "CHECK" /\ market'.event = disp.packet
    BY <1>3 DEF MarketIdle, market_slot_reset_ready, Types, MarketOK
  <2>2. InWork(s)' \subseteq
          IF event_accepted /\ disp.packet.sym = s THEN {disp.packet.tag} ELSE {}
    BY <2>1 DEF InWork
  <2>3. slot_reset # s
    BY <1>0, <2>1
  <2> QED BY <1>1, <2>1, <2>2, <2>3 DEF Reflected
<1>4. CASE MarketCheck \/ MarketCalc \/ MarketOutput
  <2>1. market.state # "IDLE" /\ ~market_slot_reset_ready
    BY <1>4 DEF MarketCheck, MarketCalc, MarketOutput, market_slot_reset_ready
  <2>2. slot_reset = s => slot_reset' = s
    BY <1>0, <2>1, PendingReset
  <2>3. market'.event = market.event
    BY <1>4 DEF MarketCheck, MarketCalc, MarketOutput, Types, MarketOK
  <2>4. InWork(s)' \subseteq InWork(s)
    BY <2>1, <2>3 DEF InWork
  <2>5. market_slot'[s] \subseteq market_slot[s] \union InWork(s)
    <3>1. CASE market_slot' = market_slot
      BY <3>1
    <3>2. CASE market_slot' =
                 [market_slot EXCEPT ![market.event.sym] = @ \union {market.event.tag}]
      BY <1>0, <2>1, <3>2 DEF InWork
    <3> QED BY <1>4, <3>1, <3>2 DEF MarketCheck, MarketCalc, MarketOutput
  <2> QED BY <1>1, <2>2, <2>4, <2>5 DEF Reflected
<1> QED BY <1>0, <1>2, <1>3, <1>4 DEF Market

(* What an edge makes of the queue and of the dispatcher's packet: the oldest *)
(* packet may move up, and a clear leaves with its reset pending.             *)
LEMMA PacketsAfterEdge ==
  ASSUME Types, Clk
  PROVE  /\ \/ rx' = rx
            \/ rx # << >> /\ rx' = Tail(rx) /\ disp.state = "IDLE"
         /\ disp'.state # "IDLE" =>
              \/ disp.state # "IDLE" /\ disp'.packet = disp.packet /\ rx' = rx
              \/ /\ disp.state = "IDLE" /\ disp'.state = "CRC_PACKET"
                 /\ rx # << >> /\ rx' = Tail(rx) /\ disp'.packet = Head(rx)
<1>1. rx' = Fetched /\ Dispatcher
  BY DEF Clk
<1>2. CASE DispatcherIdle
  <2>1. disp.state = "IDLE" /\ rx' = IF rx # << >> THEN Tail(rx) ELSE rx
    BY <1>1, <1>2 DEF DispatcherIdle, Fetched, packet_ready
  <2>2. disp \in [state : {"IDLE", "CRC_PACKET", "CLASSIFY", "ROUTE_EVENT", "ROUTE_CONTROL",
                           "ROUTE_LOOPBACK"},
                  packet : Packet \union {None}, left : 0 .. CrcCycles,
                  override : Statuses \union {None}]
    BY DEF Types, DispatcherOK
  <2>3. disp'.state # "IDLE" =>
          rx # << >> /\ disp'.state = "CRC_PACKET" /\ disp'.packet = Head(rx)
    BY <1>2, <2>2 DEF DispatcherIdle
  <2> QED BY <2>1, <2>3
<1>3. CASE CrcPacket \/ Classify \/ RouteEvent \/ RouteControl \/ RouteLoopback
  <2>1. disp.state # "IDLE" /\ rx' = rx
    BY <1>1, <1>3
       DEF CrcPacket, Classify, RouteEvent, RouteControl, RouteLoopback, Fetched, packet_ready
  <2>2. disp'.packet = disp.packet
    BY <1>3 DEF CrcPacket, Classify, RouteEvent, RouteControl, RouteLoopback, Types, DispatcherOK
  <2> QED BY <2>1, <2>2
<1> QED BY <1>1, <1>2, <1>3 DEF Dispatcher

(* An edge keeps the packets in order. *)
LEMMA ClkKeepsOrder == ASSUME Types, Ordered, Clk PROVE Ordered'
<1>0. sent' = sent /\ rx \in Seq(Packet) /\ sent \in Nat
  BY FabricAssumption DEF Clk, Types, QueuesOK, HistoryOK
<1>1. rx' = rx \/ (rx # << >> /\ rx' = Tail(rx) /\ disp.state = "IDLE")
  BY PacketsAfterEdge
<1>2. \A i \in 1 .. Len(rx') : \E j \in 1 .. Len(rx) :
        rx'[i] = rx[j] /\ (rx' # rx => j = i + 1) /\ (rx' = rx => j = i)
  <2>1. CASE rx' = rx
    BY <2>1
  <2>2. CASE rx # << >> /\ rx' = Tail(rx)
    <3>1. Len(Tail(rx)) = Len(rx) - 1 /\ \A i \in 1 .. Len(rx) - 1 : Tail(rx)[i] = rx[i + 1]
      BY <1>0, <2>2
    <3>2. \A i \in 1 .. Len(rx') : i + 1 \in 1 .. Len(rx) /\ rx'[i] = rx[i + 1]
      BY <1>0, <2>2, <3>1
    <3>3. Len(rx) \in Nat /\ Len(rx') = Len(rx) - 1
      BY <1>0, <2>2, <3>1
    <3>4. rx' # rx
      BY <3>3
    <3> QED BY <3>2, <3>4
  <2> QED BY <1>1, <2>1, <2>2
<1>3. \A i \in 1 .. Len(rx') : rx'[i].tag <= sent'
  BY <1>0, <1>2 DEF Ordered
<1>4. \A i, j \in 1 .. Len(rx') : i < j => rx'[i].tag < rx'[j].tag
  <2> SUFFICES ASSUME NEW i \in 1 .. Len(rx'), NEW j \in 1 .. Len(rx'), i < j
               PROVE  rx'[i].tag < rx'[j].tag
    OBVIOUS
  <2>1. PICK a \in 1 .. Len(rx), b \in 1 .. Len(rx) : rx'[i] = rx[a] /\ rx'[j] = rx[b] /\ a < b
    BY <1>0, <1>2
  <2> QED BY <2>1 DEF Ordered
<1>5. ASSUME disp'.state # "IDLE"
      PROVE  disp'.packet.tag <= sent' /\ \A i \in 1 .. Len(rx') : disp'.packet.tag < rx'[i].tag
  <2>1. CASE disp.state # "IDLE" /\ disp'.packet = disp.packet /\ rx' = rx
    BY <1>0, <2>1 DEF Ordered
  <2>2. CASE rx # << >> /\ rx' = Tail(rx) /\ disp'.packet = Head(rx)
    <3>1. Head(rx) = rx[1] /\ 1 \in 1 .. Len(rx) /\ rx' # rx
      BY <1>0, <2>2
    <3>2. \A i \in 1 .. Len(rx') : \E j \in 1 .. Len(rx) : rx'[i] = rx[j] /\ 1 < j
      BY <1>0, <1>2, <3>1
    <3> QED BY <1>0, <2>2, <3>1, <3>2 DEF Ordered
  <2> QED BY <1>5, <2>1, <2>2, PacketsAfterEdge
<1>6. ASSUME NEW s \in Symbols, NEW r \in Reflected(s)'
      PROVE  /\ r <= sent' /\ \A i \in 1 .. Len(rx') : r < rx'[i].tag
             /\ disp'.state # "IDLE" => r < disp'.packet.tag
  <2>1. CASE r \in Reflected(s)
    <3>1. r <= sent /\ (\A i \in 1 .. Len(rx) : r < rx[i].tag)
          /\ (disp.state # "IDLE" => r < disp.packet.tag)
      BY <2>1 DEF Ordered
    <3>2. \A i \in 1 .. Len(rx') : r < rx'[i].tag
      BY <1>2, <3>1
    <3>3. disp'.state # "IDLE" => r < disp'.packet.tag
      <4>1. rx # << >> => Head(rx) = rx[1] /\ 1 \in 1 .. Len(rx)
        BY <1>0
      <4> QED BY <3>1, <4>1, PacketsAfterEdge
    <3> QED BY <1>0, <3>1, <3>2, <3>3
  <2>2. CASE event_accepted /\ r = disp.packet.tag
    <3>1. disp.state # "IDLE" /\ rx' = rx /\ disp'.state = "IDLE"
      BY <2>2, <1>1 DEF event_accepted, Clk, Dispatcher, DispatcherIdle, CrcPacket, Classify,
                        RouteEvent, RouteControl, RouteLoopback, Types, DispatcherOK
    <3> QED BY <1>0, <2>2, <3>1 DEF Ordered
  <2> QED BY <1>6, <2>1, <2>2, ReflectedAfterEdge
<1> QED BY <1>3, <1>4, <1>5, <1>6 DEF Ordered

(* A clear that leaves the dispatcher leaves a reset pending, others stay known. *)
LEMMA OutstandingAfterEdge ==
  ASSUME Types, Ordered, ClearsTracked, Clk, NEW c \in clears
  PROVE  /\ Queued(c)' \/ Dispatching(c)' \/ Passed(c)'
         /\ (Queued(c) \/ Dispatching(c)) /\ c[1] \in Symbols =>
              Queued(c)' \/ Dispatching(c)' \/ slot_reset' = c[1]
<1>0. rx \in Seq(Packet) /\ c[1] \in Symbols \union {NoSlot} /\ c[2] \in 1 .. MaxPackets
  BY DEF Types, QueuesOK, HistoryOK
<1>1. CASE Queued(c)
  <2>1. PICK i \in 1 .. Len(rx) : rx[i] = Clear(c)
    BY <1>1 DEF Queued
  <2>2. CASE rx' = rx
    BY <2>1, <2>2 DEF Queued
  <2>3. CASE rx # << >> /\ rx' = Tail(rx) /\ disp.state = "IDLE"
    <3>1. CASE i = 1
      <4>1. Head(rx) = Clear(c) /\ Head(rx).kind = "clear"
        BY <1>0, <2>1, <3>1 DEF Clear
      <4>2. DispatcherIdle
        BY <2>3 DEF Clk, Dispatcher, DispatcherIdle, CrcPacket, Classify, RouteEvent,
                    RouteControl, RouteLoopback
      <4>3. disp' = [disp EXCEPT !.state = "CRC_PACKET", !.packet = Head(rx), !.left = CrcCycles]
        BY <2>3, <4>1, <4>2 DEF DispatcherIdle
      <4>4. disp'.state = "CRC_PACKET" /\ disp'.packet = Clear(c)
        BY <4>1, <4>3 DEF Types, DispatcherOK
      <4> QED BY <4>4 DEF Dispatching, BeforeAcceptance
    <3>2. CASE i # 1
      <4>1. i - 1 \in 1 .. Len(Tail(rx)) /\ Tail(rx)[i - 1] = rx[i]
        BY <1>0, <2>3, <3>2
      <4> QED BY <2>1, <2>3, <4>1 DEF Queued
    <3> QED BY <3>1, <3>2
  <2> QED BY <2>2, <2>3, PacketsAfterEdge
<1>2. CASE Dispatching(c)
  <2>1. /\ disp.state \in BeforeAcceptance /\ disp.packet = Clear(c) /\ disp.packet.kind = "clear"
        /\ disp.packet.sym = c[1] /\ disp.packet.tag = c[2] /\ disp.state # "IDLE"
    BY <1>2 DEF Dispatching, Clear, BeforeAcceptance
  <2>2. \A i \in 1 .. Len(rx) : c[2] < rx[i].tag
    BY <2>1 DEF Ordered
  <2>3. rx' = rx
    BY <2>1, PacketsAfterEdge
  <2>4. CASE disp.state \in {"CRC_PACKET", "CLASSIFY"}
    <3>1. CrcPacket \/ Classify
      BY <2>4 DEF Clk, Dispatcher, DispatcherIdle, CrcPacket, Classify, RouteEvent, RouteControl,
                  RouteLoopback
    <3>2. disp'.packet = disp.packet /\ disp'.state \in BeforeAcceptance
      BY <2>1, <3>1 DEF CrcPacket, Classify, BeforeAcceptance, Types, DispatcherOK
    <3> QED BY <2>1, <3>2 DEF Dispatching
  <2>5. CASE disp.state = "ROUTE_CONTROL"
    <3>1. RouteControl /\ StrategyConfig
      BY <2>5 DEF Clk, Dispatcher, DispatcherIdle, CrcPacket, Classify, RouteEvent, RouteControl,
                  RouteLoopback
    <3>2. CASE control_ready
      <4>1. disp'.state = "ROUTE_LOOPBACK"
        BY <3>1, <3>2 DEF RouteControl, Types, DispatcherOK
      <4>2. Passed(c)'
        BY <2>2, <2>3, <4>1 DEF Passed, BeforeAcceptance
      <4>3. c[1] \in Symbols => slot_reset' = c[1]
        BY <2>1, <2>5, <3>1, <3>2 DEF StrategyConfig, cfg_status
      <4> QED BY <4>2, <4>3
    <3>3. CASE ~control_ready
      BY <1>2, <3>1, <3>3 DEF RouteControl, Dispatching
    <3> QED BY <3>2, <3>3
  <2> QED BY <2>1, <2>4, <2>5 DEF BeforeAcceptance
<1>3. CASE Passed(c) /\ ~Queued(c) /\ ~Dispatching(c)
  <2>1. \A i \in 1 .. Len(rx') : c[2] < rx'[i].tag
    <3>1. CASE rx' = rx
      BY <1>3, <3>1 DEF Passed
    <3>2. CASE rx # << >> /\ rx' = Tail(rx)
      <4>1. \A i \in 1 .. Len(Tail(rx)) : i + 1 \in 1 .. Len(rx) /\ Tail(rx)[i] = rx[i + 1]
        BY <1>0, <3>2
      <4> QED BY <1>3, <3>2, <4>1 DEF Passed
    <3> QED BY <3>1, <3>2, PacketsAfterEdge
  <2>2. ASSUME disp'.state \in BeforeAcceptance \union {"ROUTE_EVENT"}
        PROVE  c[2] < disp'.packet.tag
    <3>0. disp'.state # "IDLE"
      BY <2>2 DEF BeforeAcceptance
    <3>1. CASE disp.state # "IDLE" /\ disp'.packet = disp.packet
      <4>1. disp.state \in BeforeAcceptance \union {"ROUTE_EVENT"}
        <5>1. disp.state # "ROUTE_LOOPBACK"
          BY <2>2 DEF Clk, Dispatcher, DispatcherIdle, CrcPacket, Classify, RouteEvent,
                      RouteControl, RouteLoopback, Types, DispatcherOK, BeforeAcceptance
        <5> QED BY <3>1, <5>1 DEF Types, DispatcherOK, BeforeAcceptance
      <4> QED BY <1>3, <3>1, <4>1 DEF Passed
    <3>2. CASE rx # << >> /\ disp'.packet = Head(rx)
      <4>1. Head(rx) = rx[1] /\ 1 \in 1 .. Len(rx)
        BY <1>0, <3>2
      <4> QED BY <1>3, <3>2, <4>1 DEF Passed
    <3> QED BY <3>0, <3>1, <3>2, PacketsAfterEdge
  <2> QED BY <1>3, <2>1, <2>2 DEF Passed
<1> QED BY <1>1, <1>2, <1>3 DEF ClearsTracked

(* An edge keeps what is before and what is after a clear apart. *)
LEMMA ClkSeparates ==
  ASSUME ClearInv, Clk, NEW c \in clears, c[1] \in Symbols
  PROVE  Separated(c)'
<1> DEFINE t == disp.packet.tag
<1>0. /\ Types /\ Ordered /\ ClearsTracked /\ Separated(c)
      /\ c' = c
  BY DEF ClearInv, ClearsSeparate
<1>1. \A r \in Reflected(c[1])' : r \in Reflected(c[1]) \/ (event_accepted /\ r = t)
  BY <1>0, ReflectedAfterEdge
<1>2. slot_reset = c[1] /\ slot_reset' # c[1] => Reflected(c[1])' = {}
  BY <1>0, ReflectedAfterEdge
<1>3. Queued(c) \/ Dispatching(c) => Outstanding(c)'
  BY <1>0, OutstandingAfterEdge DEF Outstanding
<1>4. ASSUME event_accepted
      PROVE  /\ slot_reset = None /\ disp.state = "ROUTE_EVENT" /\ ~Dispatching(c)
             /\ Queued(c) \/ c[2] < t
             /\ Queued(c) => t < c[2]
             /\ \A r \in Reflected(c[1]) : r < t
  <2>1. slot_reset = None /\ disp.state = "ROUTE_EVENT"
    BY <1>4 DEF event_accepted, event_ready
  <2>2. ~Dispatching(c)
    BY <2>1 DEF Dispatching, BeforeAcceptance
  <2>3. Queued(c) \/ c[2] < t
    BY <1>0, <2>1, <2>2 DEF ClearsTracked, Passed
  <2>4. Queued(c) => t < c[2]
    BY <1>0, <2>1 DEF Queued, Clear, Ordered
  <2>5. \A r \in Reflected(c[1]) : r < t
    BY <1>0, <2>1 DEF Ordered
  <2> QED BY <2>1, <2>2, <2>3, <2>4, <2>5
<1>5. /\ c[2] \in Nat /\ \A r \in Reflected(c[1]) : r \in Nat
      /\ event_accepted => t \in Nat
  <2>1. c[2] \in Nat
    BY <1>0 DEF Types, HistoryOK
  <2>2. \A r \in Reflected(c[1]) : r \in Nat
    BY <1>0 DEF Types, SlotsOK, MarketOK, Packet, Reflected, InWork
  <2>3. event_accepted => t \in Nat
    BY <1>0 DEF Types, DispatcherOK, Packet, event_accepted
  <2> QED BY <2>1, <2>2, <2>3
<1>6. ASSUME NEW r \in Reflected(c[1])', r < c[2] PROVE Outstanding(c)'
  <2>1. CASE r \in Reflected(c[1])
    <3>1. Outstanding(c)
      BY <1>0, <1>6, <2>1 DEF Separated
    <3> QED BY <1>2, <1>3, <1>6, <3>1 DEF Outstanding
  <2>2. CASE event_accepted /\ r = t
    BY <1>3, <1>4, <1>5, <1>6, <2>2
  <2> QED BY <1>1, <1>6, <2>1, <2>2
<1>7. ASSUME NEW before \in Reflected(c[1])', NEW after \in Reflected(c[1])',
             before < c[2], c[2] < after
      PROVE  FALSE
  <2>1. CASE before \in Reflected(c[1]) /\ after \in Reflected(c[1])
    BY <1>0, <1>7, <2>1 DEF Separated
  <2>2. CASE before \in Reflected(c[1]) /\ event_accepted /\ after = t
    <3>1. Outstanding(c)
      BY <1>0, <1>7, <2>2 DEF Separated
    <3>2. Queued(c)
      BY <1>4, <2>2, <3>1, FabricAssumption DEF Outstanding
    <3> QED BY <1>4, <1>5, <1>7, <2>2, <3>2
  <2>3. CASE event_accepted /\ before = t /\ after \in Reflected(c[1])
    BY <1>4, <1>5, <1>7, <2>3
  <2>4. CASE event_accepted /\ before = t /\ after = t
    BY <1>5, <1>7, <2>4
  <2> QED BY <1>1, <1>7, <2>1, <2>2, <2>3, <2>4
<1> QED BY <1>6, <1>7 DEF Separated

(* A packet that is sent is the newest, and nothing after it is reflected. *)
LEMMA SendSeparates == ASSUME ClearInv, HostSend PROVE Ordered' /\ ClearsTracked' /\ ClearsSeparate'
<1>1. PICK k \in Kinds, s \in Symbols \union {NoSlot} :
        /\ rx' = Append(rx, [kind |-> k, sym |-> s, tag |-> sent'])
        /\ clears' = IF k = "clear" THEN clears \union {<<s, sent'>>} ELSE clears
  BY DEF HostSend
<1> DEFINE p == [kind |-> k, sym |-> s, tag |-> sent']
<1>2. /\ rx \in Seq(Packet) /\ sent \in Nat /\ sent' = sent + 1
      /\ \A c \in clears : c[2] \in Nat /\ c[2] <= sent
  BY DEF ClearInv, Types, QueuesOK, HistoryOK, HostSend, ClearsTracked
<1>3. /\ Len(rx') = Len(rx) + 1 /\ Len(rx) \in Nat /\ rx'[Len(rx) + 1] = p
      /\ \A i \in 1 .. Len(rx) : rx'[i] = rx[i]
  BY <1>1, <1>2
<1>4. disp' = disp /\ slot_reset' = slot_reset
      /\ \A r \in Symbols : Reflected(r)' = Reflected(r)
  BY DEF HostSend, fabric, Reflected, InWork
<1>5. /\ \A i \in 1 .. Len(rx) : rx[i].tag \in Nat /\ rx[i].tag <= sent
      /\ disp.state # "IDLE" => disp.packet.tag \in Nat /\ disp.packet.tag <= sent
      /\ \A r \in Symbols : \A n \in Reflected(r) : n \in Nat /\ n <= sent
  <2>1. \A i \in 1 .. Len(rx) : rx[i].tag \in Nat
    <3>1. \A i \in 1 .. Len(rx) : rx[i] \in Packet
      BY <1>2
    <3> QED BY <3>1, FabricAssumption DEF Packet
  <2>2. disp.state # "IDLE" => disp.packet.tag \in Nat
    BY DEF ClearInv, Types, DispatcherOK, Packet
  <2>3. \A r \in Symbols : \A n \in Reflected(r) : n \in Nat
    BY DEF ClearInv, Types, SlotsOK, MarketOK, Packet, Reflected, InWork
  <2> QED BY <2>1, <2>2, <2>3 DEF ClearInv, Ordered
<1>6. Ordered'
  <2>1. \A i \in 1 .. Len(rx') : rx'[i].tag <= sent'
    BY <1>2, <1>3, <1>5
  <2>2. \A i, j \in 1 .. Len(rx') : i < j => rx'[i].tag < rx'[j].tag
    <3> SUFFICES ASSUME NEW i \in 1 .. Len(rx'), NEW j \in 1 .. Len(rx'), i < j
                 PROVE  rx'[i].tag < rx'[j].tag
      OBVIOUS
    <3>1. CASE j = Len(rx) + 1
      BY <1>2, <1>3, <1>5, <3>1
    <3>2. CASE j # Len(rx) + 1
      BY <1>3, <3>2 DEF ClearInv, Ordered
    <3> QED BY <3>1, <3>2
  <2>3. disp.state # "IDLE" =>
          disp.packet.tag <= sent' /\ \A i \in 1 .. Len(rx') : disp.packet.tag < rx'[i].tag
    BY <1>2, <1>3, <1>5 DEF ClearInv, Ordered
  <2>4. ASSUME NEW r \in Symbols, NEW n \in Reflected(r)
        PROVE  /\ n <= sent' /\ \A i \in 1 .. Len(rx') : n < rx'[i].tag
               /\ disp.state # "IDLE" => n < disp.packet.tag
    BY <1>2, <1>3, <1>5 DEF ClearInv, Ordered
  <2> QED BY <1>4, <2>1, <2>2, <2>3, <2>4 DEF Ordered
<1>7. ASSUME NEW c \in clears
      PROVE  /\ c[2] <= sent' /\ (Queued(c)' \/ Dispatching(c)' \/ Passed(c)')
             /\ Outstanding(c) => Outstanding(c)'
  <2>1. Queued(c) => Queued(c)'
    BY <1>3 DEF Queued
  <2>2. Dispatching(c) => Dispatching(c)'
    BY <1>4 DEF Dispatching
  <2>3. Passed(c) => Passed(c)'
    BY <1>2, <1>3, <1>4 DEF Passed
  <2>4. c[2] <= sent'
    BY <1>2
  <2> QED BY <1>4, <2>1, <2>2, <2>3, <2>4 DEF ClearInv, ClearsTracked, Outstanding
<1>8. ASSUME NEW c, k = "clear", c = <<s, sent'>> PROVE Queued(c)'
  <2>1. p = Clear(c)
    BY <1>8 DEF Clear
  <2>2. Len(rx) + 1 \in 1 .. Len(rx') /\ rx'[Len(rx) + 1] = Clear(c)
    BY <1>3, <2>1
  <2> QED BY <2>2 DEF Queued, Clear
<1>9. ClearsTracked'
  <2> SUFFICES ASSUME NEW c \in clears'
               PROVE  c[2] <= sent' /\ (Queued(c)' \/ Dispatching(c)' \/ Passed(c)')
    BY DEF ClearsTracked
  <2>1. CASE c \in clears
    BY <1>7, <2>1
  <2>2. CASE k = "clear" /\ c = <<s, sent'>>
    BY <1>2, <1>8, <2>2
  <2> QED BY <1>1, <2>1, <2>2
<1>10. ASSUME NEW c \in clears', c[1] \in Symbols PROVE Separated(c)'
  <2>1. CASE c \in clears
    BY <1>4, <1>7, <1>10, <2>1 DEF ClearInv, ClearsSeparate, Separated
  <2>2. CASE k = "clear" /\ c = <<s, sent'>>
    <3>1. Outstanding(c)'
      BY <1>8, <2>2 DEF Outstanding
    <3>2. \A r \in Reflected(c[1])' : r < c[2]
      BY <1>2, <1>4, <1>5, <1>10, <2>2
    <3>3. \A r \in Reflected(c[1])' : ~(c[2] < r)
      BY <1>2, <1>4, <1>5, <1>10, <2>2
    <3> QED BY <3>1, <3>3 DEF Separated
  <2> QED BY <1>1, <1>10, <2>1, <2>2
<1> QED BY <1>6, <1>9, <1>10 DEF ClearsSeparate

(* A CLEAR separates the events before it from those after it, in both        *)
(* engines, for every depth of the FIFOs and every latency: the command is    *)
(* acknowledged before it is carried out, but no later event overtakes it     *)
(* (strategy_config.sv, packet_dispatcher.sv, market_state_engine.sv).        *)
THEOREM ClearIsABarrier == Spec => []ClearSeparates
<1>1. Init => ClearInv
  <2> SUFFICES ASSUME Init PROVE Ordered /\ ClearsTracked /\ ClearsSeparate
    BY InitTypes DEF ClearInv
  <2>1. rx = << >> /\ disp.state = "IDLE" /\ clears = {}
        /\ \A s \in Symbols : Reflected(s) = {}
    BY DEF Init, Reflected, InWork
  <2> QED BY <2>1 DEF Ordered, ClearsTracked, ClearsSeparate
<1>2. ClearInv /\ [Next]_vars => ClearInv'
  <2> SUFFICES ASSUME ClearInv, [Next]_vars PROVE Ordered' /\ ClearsTracked' /\ ClearsSeparate'
    BY NextTypes DEF ClearInv
  <2>1. CASE Clk
    <3>1. clears' = clears /\ sent' = sent
      BY <2>1 DEF Clk
    <3>2. Ordered'
      BY <2>1, ClkKeepsOrder DEF ClearInv
    <3>3. ClearsTracked'
      BY <2>1, <3>1, OutstandingAfterEdge DEF ClearInv, ClearsTracked
    <3>4. ClearsSeparate'
      BY <2>1, <3>1, ClkSeparates DEF ClearsSeparate
    <3> QED BY <3>2, <3>3, <3>4
  <2>2. CASE HostSend
    BY <2>2, SendSeparates
  <2>3. CASE HostFetch \/ UNCHANGED vars
    BY <2>3 DEF HostFetch, vars, fabric, ClearInv, Ordered, ClearsTracked, ClearsSeparate,
                Separated, Outstanding, Queued, Dispatching, Passed, Reflected, InWork
  <2> QED BY <2>1, <2>2, <2>3 DEF Next
<1>3. ClearInv => ClearSeparates
  BY DEF ClearInv, ClearsSeparate, Separated, ClearSeparates, Reflected
<1> QED BY <1>1, <1>2, <1>3, PTL DEF Spec

----------------------------------------------------------------------------
(* Requests and answers.  What is owed for a list of packets, one packet at a time. *)

(* A non-empty set of natural numbers has a smallest one. *)
LEMMA SmallestNumber ==
  ASSUME NEW T \in SUBSET Nat, T # {}
  PROVE  \E m \in T : \A y \in T : m <= y
<1>1. PICK m \in T : \A y \in T : ~(<<y, m>> \in OpToRel(<, Nat))
  BY WFMin, NatLessThanWellFounded, Zenon
<1>2. \A y \in T : ~(y < m)
  BY <1>1, Zenon DEF OpToRel
<1> QED BY <1>2

(* Induction over a set of numbers. *)
LEMMA NatSetInduction ==
  ASSUME NEW S, 0 \in S, \A n \in Nat : n \in S => n + 1 \in S
  PROVE  Nat \subseteq S
<1> DEFINE T == Nat \ S
<1> SUFFICES ASSUME T # {} PROVE FALSE
  OBVIOUS
<1>1. PICK m \in T : \A y \in T : m <= y
  BY SmallestNumber
<1>2. m \in Nat /\ m # 0 /\ m - 1 \in Nat /\ m = (m - 1) + 1
  OBVIOUS
<1>3. m - 1 \in T
  BY <1>2
<1> QED BY <1>1, <1>2, <1>3

Accrues(h, packets) ==
  /\ h[0] = << >> /\ h[Len(packets)] = Owed(packets)
  /\ \A n \in 1 .. Len(packets) : h[n] = h[n - 1] \o AnswerTo(packets[n])

(* What is owed is owed packet by packet. *)
LEMMA OwedAccrues ==
  ASSUME NEW packets \in Seq(Packet)
  PROVE  \E h : Accrues(h, packets)
<1> DEFINE Step(h, n) == IF n = 0 THEN << >> ELSE h[n - 1] \o AnswerTo(packets[n])
           Known == {m \in Nat : \E h : h = [n \in 0 .. m |-> Step(h, n)]}
<1>1. 0 \in Known
  <2>1. 0 .. 0 = {0}
    OBVIOUS
  <2>2. [n \in 0 .. 0 |-> << >>] = [n \in 0 .. 0 |-> Step([i \in 0 .. 0 |-> << >>], n)]
    BY <2>1
  <2> HIDE DEF Step
  <2> QED BY <2>2
<1>2. ASSUME NEW m \in Nat, m \in Known PROVE m + 1 \in Known
  <2>1. PICK h : h = [n \in 0 .. m |-> Step(h, n)]
    BY <1>2
  <2> DEFINE g == [n \in 0 .. m + 1 |-> Step(h, n)]
  <2>2. ASSUME NEW n \in 0 .. m + 1 PROVE Step(h, n) = Step(g, n)
    <3>1. CASE n = 0
      BY <3>1
    <3>2. CASE n # 0
      <4>1. n - 1 \in 0 .. m /\ n - 1 \in 0 .. m + 1
        BY <3>2
      <4>2. g[n - 1] = h[n - 1]
        <5> HIDE DEF Step
        <5> QED BY <4>1, <2>1
      <4> QED BY <4>2
    <3> QED BY <3>1, <3>2
  <2>3. g = [n \in 0 .. m + 1 |-> Step(g, n)]
    BY <2>2
  <2> HIDE DEF g, Step
  <2> QED BY <2>3
<1>3. Len(packets) \in Nat /\ Len(packets) \in Known
  <2>1. Len(packets) \in Nat
    OBVIOUS
  <2> HIDE DEF Known
  <2> QED BY <1>1, <1>2, <2>1, NatSetInduction
<1>4. \E h : h = [n \in 0 .. Len(packets) |-> Step(h, n)]
  BY <1>3
<1> DEFINE owed == CHOOSE h : h = [n \in 0 .. Len(packets) |-> Step(h, n)]
<1>5. owed = [n \in 0 .. Len(packets) |-> Step(owed, n)]
  BY <1>4
<1>6. Owed(packets) = owed[Len(packets)]
  BY DEF Owed
<1> HIDE DEF owed
<1>7. owed[0] = << >>
  BY <1>3, <1>5
<1>8. ASSUME NEW n \in 1 .. Len(packets) PROVE owed[n] = owed[n - 1] \o AnswerTo(packets[n])
  BY <1>3, <1>5
<1> HIDE DEF Step
<1>9. Accrues(owed, packets)
  BY <1>6, <1>7, <1>8 DEF Accrues
<1> QED BY <1>9

(* An answer is one the protocol knows. *)
LEMMA AnswerIsOne ==
  ASSUME NEW p \in Packet
  PROVE  /\ AnswerTo(p) \in Seq(Answers)
         /\ \/ AnswerTo(p) = << >>
            \/ \E a \in Answers : AnswerTo(p) = <<a>> /\ a = [tag |-> p.tag, status |-> Verdict(p)]
<1>1. Verdict(p) = None \/ Verdict(p) \in Statuses
  BY FabricAssumption DEF Verdict, Statuses, Packet, Kinds
<1>2. p.tag \in 1 .. MaxPackets
  BY DEF Packet
<1>3. Verdict(p) # None => [tag |-> p.tag, status |-> Verdict(p)] \in Answers
  BY <1>1, <1>2 DEF Answers
<1> HIDE DEF Verdict
<1> QED BY <1>3 DEF AnswerTo

(* So are the answers owed. *)
LEMMA OwedType ==
  ASSUME NEW packets \in Seq(Packet), NEW h, Accrues(h, packets)
  PROVE  /\ \A n \in 0 .. Len(packets) : h[n] \in Seq(Answers)
         /\ Owed(packets) \in Seq(Answers)
<1> DEFINE Typed == {n \in Nat : n <= Len(packets) => h[n] \in Seq(Answers)}
<1>1. 0 \in Typed
  <2>1. h[0] = << >> /\ << >> \in Seq(Answers)
    BY DEF Accrues
  <2> QED BY <2>1
<1>2. ASSUME NEW n \in Nat, n \in Typed PROVE n + 1 \in Typed
  <2> SUFFICES ASSUME n + 1 <= Len(packets) PROVE h[n + 1] \in Seq(Answers)
    OBVIOUS
  <2>1. n + 1 \in 1 .. Len(packets) /\ (n + 1) - 1 = n /\ n <= Len(packets)
    OBVIOUS
  <2>2. h[n + 1] = h[n] \o AnswerTo(packets[n + 1])
    BY <2>1 DEF Accrues
  <2>3. packets[n + 1] \in Packet
    BY <2>1
  <2>4. AnswerTo(packets[n + 1]) \in Seq(Answers) /\ h[n] \in Seq(Answers)
    BY <1>2, <2>1, <2>3, AnswerIsOne
  <2> QED BY <2>2, <2>4
<1>3. ASSUME NEW n \in 0 .. Len(packets) PROVE h[n] \in Seq(Answers)
  <2>1. n \in Typed
    <3>1. n \in Nat
      OBVIOUS
    <3> HIDE DEF Typed
    <3> QED BY <1>1, <1>2, <3>1, NatSetInduction
  <2> QED BY <2>1
<1>4. Len(packets) \in 0 .. Len(packets) /\ h[Len(packets)] = Owed(packets)
  BY DEF Accrues
<1> QED BY <1>3, <1>4

(* Nothing is owed for nothing. *)
LEMMA OwedForNone == Owed(<< >>) = << >>
<1> DEFINE none == << >>
<1>1. none \in Seq(Packet) /\ Len(none) = 0 /\ none = << >>
  OBVIOUS
<1> HIDE DEF none
<1>2. \E h : Accrues(h, none)
  BY <1>1, OwedAccrues
<1>3. PICK h : Accrues(h, none)
  BY <1>2
<1>4. h[0] = << >> /\ h[Len(none)] = Owed(none)
  BY <1>3 DEF Accrues
<1>5. Owed(none) = << >>
  BY <1>1, <1>4
<1> QED BY <1>1, <1>5

(* A packet more at the end: its answer is owed last. *)
LEMMA OwedForLast ==
  ASSUME NEW packets \in Seq(Packet), NEW p \in Packet
  PROVE  Owed(Append(packets, p)) = Owed(packets) \o AnswerTo(p)
<1> DEFINE more == Append(packets, p)
           n == Len(packets)
<1>1. /\ more \in Seq(Packet) /\ n \in Nat /\ Len(more) = n + 1 /\ more[n + 1] = p
      /\ \A k \in 1 .. n : more[k] = packets[k]
  OBVIOUS
<1> HIDE DEF more
<1>2. \E h : Accrues(h, packets)
  BY OwedAccrues
<1>3. PICK h : Accrues(h, packets)
  BY <1>2
<1>4. \E g : Accrues(g, more)
  BY <1>1, OwedAccrues
<1>5. PICK g : Accrues(g, more)
  BY <1>4
<1> DEFINE Same == {k \in Nat : k <= n => g[k] = h[k]}
<1>6. 0 \in Same
  BY <1>3, <1>5 DEF Accrues
<1>7. ASSUME NEW k \in Nat, k \in Same PROVE k + 1 \in Same
  <2> SUFFICES ASSUME k + 1 <= n PROVE g[k + 1] = h[k + 1]
    OBVIOUS
  <2>1. k + 1 \in 1 .. n /\ k + 1 \in 1 .. n + 1 /\ (k + 1) - 1 = k /\ k <= n
    BY <1>1
  <2>2. h[k + 1] = h[k] \o AnswerTo(packets[k + 1])
    BY <1>3, <2>1 DEF Accrues
  <2>3. g[k + 1] = g[k] \o AnswerTo(more[k + 1])
    BY <1>1, <1>5, <2>1 DEF Accrues
  <2>4. g[k] = h[k] /\ more[k + 1] = packets[k + 1]
    BY <1>1, <1>7, <2>1
  <2> QED BY <2>2, <2>3, <2>4
<1>8. n \in Same
  <2> HIDE DEF Same
  <2> QED BY <1>1, <1>6, <1>7, NatSetInduction
<1>9. g[n] = h[n] /\ h[n] = Owed(packets) /\ g[n + 1] = Owed(more)
  <2>1. g[n] = h[n]
    BY <1>1, <1>8
  <2>2. h[Len(packets)] = Owed(packets)
    BY <1>3 DEF Accrues
  <2>3. g[Len(more)] = Owed(more)
    BY <1>5 DEF Accrues
  <2>4. n = Len(packets) /\ n + 1 = Len(more)
    BY <1>1
  <2> HIDE DEF n, Same
  <2> QED BY <2>1, <2>2, <2>3, <2>4
<1>10. g[n + 1] = g[n] \o AnswerTo(more[n + 1])
  <2>1. n + 1 \in 1 .. Len(more) /\ (n + 1) - 1 = n
    BY <1>1
  <2> QED BY <1>5, <2>1 DEF Accrues
<1>11. Owed(more) = Owed(packets) \o AnswerTo(p)
  BY <1>1, <1>9, <1>10
<1> QED BY <1>11 DEF more

(* The first packet's answer is owed first. *)
LEMMA OwedForFirst ==
  ASSUME NEW packets \in Seq(Packet), packets # << >>
  PROVE  Owed(packets) = AnswerTo(Head(packets)) \o Owed(Tail(packets))
<1> DEFINE rest == Tail(packets)
           n == Len(rest)
           first == AnswerTo(Head(packets))
<1>1. /\ rest \in Seq(Packet) /\ n \in Nat /\ Len(packets) = n + 1 /\ Head(packets) = packets[1]
      /\ Head(packets) \in Packet /\ \A k \in 1 .. n : rest[k] = packets[k + 1] /\ rest[k] \in Packet
  OBVIOUS
<1> HIDE DEF rest
<1>2. \E h : Accrues(h, packets)
  BY OwedAccrues
<1>3. PICK h : Accrues(h, packets)
  BY <1>2
<1>4. \E g : Accrues(g, rest)
  BY <1>1, OwedAccrues
<1>5. PICK g : Accrues(g, rest)
  BY <1>4
<1>6. first \in Seq(Answers)
  BY <1>1, AnswerIsOne
<1>7. \A k \in 0 .. n : g[k] \in Seq(Answers)
  BY <1>1, <1>5, OwedType
<1>0. first = AnswerTo(packets[1])
  BY <1>1
<1> HIDE DEF first
<1> DEFINE Behind == {k \in Nat : k <= n => h[k + 1] = first \o g[k]}
<1>8. 0 \in Behind
  <2>1. 1 \in 1 .. Len(packets) /\ 1 - 1 = 0
    BY <1>1
  <2>2. h[1] = h[0] \o AnswerTo(packets[1]) /\ h[0] = << >>
    BY <1>3, <2>1 DEF Accrues
  <2>3. g[0] = << >>
    BY <1>5 DEF Accrues
  <2>4. h[0 + 1] = << >> \o first /\ 0 + 1 = 1
    BY <1>0, <2>2
  <2>5. << >> \o first = first /\ first \o << >> = first
    BY <1>6, ConcatEmptySeq
  <2> QED BY <2>3, <2>4, <2>5
<1>9. ASSUME NEW k \in Nat, k \in Behind PROVE k + 1 \in Behind
  <2> SUFFICES ASSUME k + 1 <= n PROVE h[(k + 1) + 1] = first \o g[k + 1]
    OBVIOUS
  <2>1. /\ k + 1 \in 1 .. n /\ (k + 1) + 1 \in 1 .. Len(packets) /\ (k + 1) - 1 = k
        /\ ((k + 1) + 1) - 1 = k + 1 /\ k <= n /\ k \in 0 .. n
    BY <1>1
  <2>2. h[(k + 1) + 1] = h[k + 1] \o AnswerTo(packets[(k + 1) + 1])
    BY <1>3, <2>1 DEF Accrues
  <2>3. g[k + 1] = g[k] \o AnswerTo(rest[k + 1])
    BY <1>5, <2>1 DEF Accrues
  <2>4. h[k + 1] = first \o g[k] /\ rest[k + 1] = packets[(k + 1) + 1] /\ rest[k + 1] \in Packet
    BY <1>1, <1>9, <2>1
  <2> DEFINE x == g[k]
             y == AnswerTo(rest[k + 1])
  <2>5. x \in Seq(Answers) /\ y \in Seq(Answers)
    BY <1>7, <2>1, <2>4, AnswerIsOne
  <2> HIDE DEF x, y
  <2>6. (first \o x) \o y = first \o (x \o y)
    BY <1>6, <2>5, ConcatAssociative
  <2>7. (first \o g[k]) \o AnswerTo(rest[k + 1]) = first \o (g[k] \o AnswerTo(rest[k + 1]))
    BY <2>6 DEF x, y
  <2> QED BY <2>2, <2>3, <2>4, <2>7
<1>10. n \in Behind
  <2> HIDE DEF Behind
  <2> QED BY <1>1, <1>8, <1>9, NatSetInduction
<1>11. h[n + 1] = first \o g[n] /\ g[n] = Owed(rest) /\ h[n + 1] = Owed(packets)
  <2>1. h[n + 1] = first \o g[n]
    BY <1>1, <1>10
  <2>2. g[Len(rest)] = Owed(rest)
    BY <1>5 DEF Accrues
  <2>3. h[Len(packets)] = Owed(packets)
    BY <1>3 DEF Accrues
  <2>4. n = Len(rest) /\ n + 1 = Len(packets)
    BY <1>1
  <2> HIDE DEF n, Behind
  <2> QED BY <2>1, <2>2, <2>3, <2>4
<1>12. Owed(packets) = first \o Owed(rest)
  BY <1>11
<1> QED BY <1>12 DEF rest, first

(* What one block holds, and what is owed for it. *)
Held(state, p) == IF state = "IDLE" THEN << >> ELSE <<p>>
OwedBy(state, p) == IF state = "IDLE" THEN << >> ELSE AnswerTo(p)

(* What is owed for the packets inside the fabric, block by block. *)
LEMMA OwedInside ==
  ASSUME NEW a, NEW q, a # "IDLE" => q \in Packet,
         NEW b, NEW p, b # "IDLE" => p \in Packet, NEW queue \in Seq(Packet)
  PROVE  /\ Owed(Held(a, q) \o Held(b, p) \o queue) = OwedBy(a, q) \o (OwedBy(b, p) \o Owed(queue))
         /\ OwedBy(a, q) \in Seq(Answers) /\ OwedBy(b, p) \in Seq(Answers) /\ Owed(queue) \in Seq(Answers)
<1>1. OwedBy(a, q) \in Seq(Answers) /\ OwedBy(b, p) \in Seq(Answers)
  <2>1. << >> \in Seq(Answers)
    OBVIOUS
  <2> QED BY <2>1, AnswerIsOne DEF OwedBy
<1>2. ASSUME NEW s \in Seq(Packet) PROVE Owed(s) \in Seq(Answers)
  <2>1. \E h : Accrues(h, s)
    BY OwedAccrues
  <2> QED BY <2>1, OwedType
<1>3. ASSUME NEW state, NEW x, state # "IDLE" => x \in Packet, NEW s \in Seq(Packet)
      PROVE  Held(state, x) \o s \in Seq(Packet) /\ Owed(Held(state, x) \o s) = OwedBy(state, x) \o Owed(s)
  <2>1. CASE state = "IDLE"
    <3>1. Held(state, x) = << >> /\ OwedBy(state, x) = << >>
      BY <2>1 DEF Held, OwedBy
    <3>2. << >> \o s = s /\ << >> \o Owed(s) = Owed(s)
      BY <1>2, ConcatEmptySeq
    <3> QED BY <3>1, <3>2
  <2>2. CASE state # "IDLE"
    <3> DEFINE all == <<x>> \o s
    <3>1. x \in Packet /\ all \in Seq(Packet) /\ all # << >> /\ Head(all) = x /\ Tail(all) = s
      BY <1>3, <2>2
    <3> HIDE DEF all
    <3>2. Owed(all) = AnswerTo(x) \o Owed(s)
      BY <3>1, OwedForFirst
    <3>3. Held(state, x) = <<x>> /\ OwedBy(state, x) = AnswerTo(x)
      BY <2>2 DEF Held, OwedBy
    <3> QED BY <3>1, <3>2, <3>3 DEF all
  <2> QED BY <2>1, <2>2
<1> DEFINE x == Held(a, q)
           y == Held(b, p)
<1>4. x \in Seq(Packet) /\ y \in Seq(Packet)
  BY DEF Held
<1>5. y \o queue \in Seq(Packet) /\ Owed(y \o queue) = OwedBy(b, p) \o Owed(queue)
  BY <1>3
<1>6. Owed(x \o (y \o queue)) = OwedBy(a, q) \o Owed(y \o queue)
  <2> DEFINE s == y \o queue
  <2>1. s \in Seq(Packet)
    BY <1>5
  <2> HIDE DEF s
  <2>2. Owed(x \o s) = OwedBy(a, q) \o Owed(s)
    BY <1>3, <2>1
  <2> QED BY <2>2 DEF s
<1> HIDE DEF x, y
<1>7. (x \o y) \o queue = x \o (y \o queue)
  BY <1>4, ConcatAssociative
<1> QED BY <1>1, <1>2, <1>5, <1>6, <1>7 DEF x, y

(* The dispatcher routes to the loopback engine what deserves an answer, with   *)
(* the override that makes the engine compute the right status.                  *)
StatusOf(p, override) ==
  IF override # None THEN override ELSE IF p.kind = "loopback" THEN "OK" ELSE "BAD_PACKET"
Routed ==
  /\ disp.state # "IDLE" => disp.packet.kind # "filler"
  /\ disp.state = "ROUTE_CONTROL" => disp.packet.kind \in {"config", "clear"}
  /\ disp.state = "ROUTE_LOOPBACK" => Verdict(disp.packet) = StatusOf(disp.packet, disp.override)
  /\ loopback.state # "IDLE" => Verdict(loopback.request) = StatusOf(loopback.request, loopback.override)

(* Every edge routes right. *)
LEMMA ClkKeepsRouted == ASSUME Types, Routed, Clk PROVE Routed'
<1>1. disp \in [state : {"IDLE", "CRC_PACKET", "CLASSIFY", "ROUTE_EVENT", "ROUTE_CONTROL", "ROUTE_LOOPBACK"},
                packet : Packet \union {None}, left : 0 .. CrcCycles, override : Statuses \union {None}]
      /\ (disp.state # "IDLE" => disp.packet \in Packet)
  BY DEF Types, DispatcherOK
<1>2. loopback \in [state : {"IDLE", "BUSY", "OUTPUT_RESPONSE"}, request : Packet \union {None},
                    left : 0 .. LoopbackCycles, override : Statuses \union {None}]
  BY DEF Types, LoopbackOK
<1>3. /\ disp'.state # "IDLE" => disp'.packet.kind # "filler"
      /\ disp'.state = "ROUTE_CONTROL" => disp'.packet.kind \in {"config", "clear"}
      /\ disp'.state = "ROUTE_LOOPBACK" => Verdict(disp'.packet) = StatusOf(disp'.packet, disp'.override)
  <2>1. CASE DispatcherIdle
    BY <1>1, <2>1 DEF DispatcherIdle
  <2>2. CASE CrcPacket
    BY <1>1, <2>2 DEF CrcPacket, Routed
  <2>3. CASE Classify
    <3> DEFINE p == disp.packet
               bad_symbol == p.kind = "event" /\ p.sym \notin Symbols
    <3>1. p \in Packet /\ p.kind \in Kinds /\ p.kind # "filler" /\ p.sym \in Symbols \union {NoSlot}
      BY <1>1, <2>3 DEF Classify, Routed, Packet
    <3>2. /\ disp'.packet = p /\ disp'.override = (IF bad_symbol THEN "BAD_SYMBOL" ELSE None)
          /\ disp'.state = (IF p.kind = "event" /\ ~bad_symbol THEN "ROUTE_EVENT"
                            ELSE IF p.kind \in {"config", "clear"} THEN "ROUTE_CONTROL" ELSE "ROUTE_LOOPBACK")
      BY <1>1, <2>3 DEF Classify
    <3>3. ASSUME disp'.state = "ROUTE_LOOPBACK" PROVE Verdict(p) = StatusOf(p, disp'.override)
      <4>1. bad_symbol \/ p.kind \in {"loopback", "malformed"}
        BY <3>1, <3>2, <3>3 DEF Kinds
      <4>2. CASE bad_symbol
        <5>1. p.kind = "event" /\ p.sym = NoSlot /\ NoSlot \notin Symbols /\ "BAD_SYMBOL" # None
          BY <3>1, <4>2, FabricAssumption DEF Statuses
        <5>2. Verdict(p) = "BAD_SYMBOL" /\ StatusOf(p, disp'.override) = "BAD_SYMBOL"
          BY <3>2, <4>2, <5>1 DEF Verdict, StatusOf
        <5> QED BY <5>2
      <4>3. CASE p.kind \in {"loopback", "malformed"}
        BY <3>2, <4>3 DEF Verdict, StatusOf
      <4> QED BY <4>1, <4>2, <4>3
    <3> QED BY <3>1, <3>2, <3>3
  <2>4. CASE RouteEvent
    BY <1>1, <2>4 DEF RouteEvent, Routed
  <2>5. CASE RouteControl
    <3> DEFINE p == disp.packet
    <3>1. p \in Packet /\ p.kind \in {"config", "clear"} /\ p.sym \in Symbols \union {NoSlot}
      BY <1>1, <2>5 DEF RouteControl, Routed, Packet
    <3>2. cfg_status(p) = Verdict(p) /\ cfg_status(p) \in Statuses
      BY <3>1, FabricAssumption DEF cfg_status, Verdict, Statuses
    <3>3. cfg_status(p) # None
      BY <3>2, FabricAssumption
    <3>4. /\ disp'.packet = p
          /\ disp' = disp \/ (disp'.state = "ROUTE_LOOPBACK" /\ disp'.override = cfg_status(p))
      BY <1>1, <2>5 DEF RouteControl
    <3> HIDE DEF p
    <3>5. StatusOf(p, cfg_status(p)) = Verdict(p)
      BY <3>2, <3>3 DEF StatusOf
    <3>6. p.kind # "filler"
      BY <3>1
    <3> QED BY <2>5, <3>1, <3>4, <3>5, <3>6 DEF RouteControl, p
  <2>6. CASE RouteLoopback
    BY <1>1, <2>6 DEF RouteLoopback, Routed
  <2> QED BY <2>1, <2>2, <2>3, <2>4, <2>5, <2>6 DEF Clk, Dispatcher
<1>4. loopback'.state # "IDLE" => Verdict(loopback'.request) = StatusOf(loopback'.request, loopback'.override)
  <2>1. CASE LoopbackIdle
    BY <1>1, <1>2, <2>1 DEF LoopbackIdle, Routed
  <2>2. CASE LoopbackBusy
    BY <1>2, <2>2 DEF LoopbackBusy, Routed
  <2>3. CASE LoopbackOutput
    BY <1>2, <2>3 DEF LoopbackOutput, Routed
  <2> QED BY <2>1, <2>2, <2>3 DEF Clk, Loopback
<1> QED BY <1>3, <1>4 DEF Routed, Verdict, StatusOf


(* The packets inside the fabric, block by block. *)
LEMMA OwedIsHeld ==
  ASSUME Types
  PROVE  /\ Owed(Unanswered) = OwedBy(loopback.state, loopback.request)
                               \o (OwedBy(disp.state, disp.packet) \o Owed(rx))
         /\ OwedBy(loopback.state, loopback.request) \in Seq(Answers)
         /\ OwedBy(disp.state, disp.packet) \in Seq(Answers) /\ Owed(rx) \in Seq(Answers)
<1> DEFINE a == loopback.state
           q == loopback.request
           b == disp.state
           p == disp.packet
           queue == rx
<1>1. (a # "IDLE" => q \in Packet) /\ (b # "IDLE" => p \in Packet) /\ queue \in Seq(Packet)
  BY DEF Types, LoopbackOK, DispatcherOK, QueuesOK
<1>2. Unanswered = Held(a, q) \o Held(b, p) \o queue
  BY DEF Unanswered, Held
<1> HIDE DEF a, q, b, p, queue
<1>3. /\ Owed(Held(a, q) \o Held(b, p) \o queue) = OwedBy(a, q) \o (OwedBy(b, p) \o Owed(queue))
      /\ OwedBy(a, q) \in Seq(Answers) /\ OwedBy(b, p) \in Seq(Answers) /\ Owed(queue) \in Seq(Answers)
  BY <1>1, OwedInside
<1> QED BY <1>2, <1>3 DEF a, q, b, p, queue

(* The same after a step. *)
LEMMA OwedIsHeldAfter ==
  ASSUME Types'
  PROVE  /\ Owed(Unanswered)' = OwedBy(loopback'.state, loopback'.request)
                                \o (OwedBy(disp'.state, disp'.packet) \o Owed(rx'))
         /\ OwedBy(loopback'.state, loopback'.request) \in Seq(Answers)
         /\ OwedBy(disp'.state, disp'.packet) \in Seq(Answers) /\ Owed(rx') \in Seq(Answers)
<1> DEFINE a == loopback'.state
           q == loopback'.request
           b == disp'.state
           p == disp'.packet
           queue == rx'
<1>1. (a # "IDLE" => q \in Packet) /\ (b # "IDLE" => p \in Packet) /\ queue \in Seq(Packet)
  BY DEF Types, LoopbackOK, DispatcherOK, QueuesOK
<1>2. Unanswered' = Held(a, q) \o Held(b, p) \o queue
  BY DEF Unanswered, Held
<1>3. Owed(Unanswered)' = Owed(Held(a, q) \o Held(b, p) \o queue)
  <2>1. Owed(Unanswered)' = Owed(Unanswered')
    BY DEF Owed, AnswerTo, Verdict
  <2> QED BY <1>2, <2>1
<1> HIDE DEF a, q, b, p, queue
<1>4. /\ Owed(Held(a, q) \o Held(b, p) \o queue) = OwedBy(a, q) \o (OwedBy(b, p) \o Owed(queue))
      /\ OwedBy(a, q) \in Seq(Answers) /\ OwedBy(b, p) \in Seq(Answers) /\ Owed(queue) \in Seq(Answers)
  BY <1>1, OwedInside
<1> QED BY <1>3, <1>4 DEF a, q, b, p, queue

HandsOver == disp.state = "ROUTE_LOOPBACK" /\ loopback.state = "IDLE"

(* The dispatcher loses no answer: it hands the packet to the loopback engine, *)
(* or it still owes what it owed.                                              *)
LEMMA DispatcherOwes ==
  ASSUME Types, Routed, Clk
  PROVE  /\ HandsOver => OwedBy(disp'.state, disp'.packet) = << >> /\ rx' = rx
         /\ ~HandsOver => OwedBy(disp'.state, disp'.packet) \o Owed(rx')
                          = OwedBy(disp.state, disp.packet) \o Owed(rx)
<1>0. /\ disp \in [state : {"IDLE", "CRC_PACKET", "CLASSIFY", "ROUTE_EVENT", "ROUTE_CONTROL",
                             "ROUTE_LOOPBACK"},
                   packet : Packet \union {None}, left : 0 .. CrcCycles, override : Statuses \union {None}]
      /\ disp.state # "IDLE" => disp.packet \in Packet
      /\ rx \in Seq(Packet) /\ rx' = Fetched /\ Dispatcher
  BY DEF Types, DispatcherOK, QueuesOK, Clk
<1>1. CASE DispatcherIdle
  <2>0. disp.state = "IDLE" /\ ~HandsOver /\ OwedBy(disp.state, disp.packet) = << >>
    BY <1>1 DEF DispatcherIdle, HandsOver, OwedBy
  <2>1. CASE rx = << >>
    <3>1. disp' = disp /\ rx' = rx
      BY <1>0, <1>1, <2>1 DEF DispatcherIdle, Fetched
    <3> QED BY <2>0, <3>1
  <2>2. CASE rx # << >>
    <3>1. rx' = Tail(rx) /\ Head(rx) \in Packet /\ Owed(rx) = AnswerTo(Head(rx)) \o Owed(Tail(rx))
      BY <1>0, <2>0, <2>2, OwedForFirst DEF Fetched, packet_ready
    <3>2. OwedBy(disp'.state, disp'.packet) = AnswerTo(Head(rx))
      <4>1. CASE Head(rx).kind = "filler"
        <5>1. disp' = disp
          BY <1>1, <4>1 DEF DispatcherIdle
        <5>2. AnswerTo(Head(rx)) = << >>
          BY <4>1 DEF AnswerTo, Verdict
        <5> QED BY <2>0, <5>1, <5>2
      <4>2. CASE Head(rx).kind # "filler"
        <5>1. disp'.state = "CRC_PACKET" /\ disp'.packet = Head(rx)
          BY <1>0, <1>1, <2>2, <4>2 DEF DispatcherIdle
        <5> QED BY <5>1 DEF OwedBy
      <4> QED BY <4>1, <4>2
    <3>3. << >> \o Owed(rx) = Owed(rx)
      <4>1. Owed(rx) \in Seq(Answers)
        BY OwedIsHeld
      <4> QED BY <4>1, ConcatEmptySeq
    <3> QED BY <2>0, <3>1, <3>2, <3>3
  <2> QED BY <2>1, <2>2
<1>2. CASE CrcPacket \/ Classify \/ RouteControl
  <2>1. disp.state # "IDLE" /\ ~HandsOver /\ rx' = rx
    BY <1>0, <1>2 DEF CrcPacket, Classify, RouteControl, HandsOver, Fetched, packet_ready
  <2>2. disp'.state # "IDLE" /\ disp'.packet = disp.packet
    <3>1. CASE CrcPacket
      BY <1>0, <3>1 DEF CrcPacket
    <3>2. CASE Classify
      BY <1>0, <3>2 DEF Classify
    <3>3. CASE RouteControl
      BY <1>0, <3>3 DEF RouteControl
    <3> QED BY <1>2, <3>1, <3>2, <3>3
  <2> QED BY <2>1, <2>2 DEF OwedBy
<1>3. CASE RouteEvent
  <2>1. disp.state = "ROUTE_EVENT" /\ ~HandsOver /\ rx' = rx
    BY <1>0, <1>3 DEF RouteEvent, HandsOver, Fetched, packet_ready
  <2>2. disp.packet.kind = "event" /\ disp.packet.sym \in Symbols
    BY <2>1 DEF Types, DispatcherOK
  <2>3. Verdict(disp.packet) = None
    BY <2>2, FabricAssumption DEF Verdict
  <2>5. AnswerTo(disp.packet) = << >>
    BY <2>3 DEF AnswerTo
  <2>4. disp'.packet = disp.packet
    BY <1>0, <1>3 DEF RouteEvent
  <2> QED BY <2>1, <2>4, <2>5 DEF OwedBy
<1>4. CASE RouteLoopback
  <2>1. disp.state = "ROUTE_LOOPBACK" /\ rx' = rx
    BY <1>0, <1>4 DEF RouteLoopback, Fetched, packet_ready
  <2>2. CASE loopback.state = "IDLE"
    <3>1. disp'.state = "IDLE"
      BY <1>0, <1>4, <2>2 DEF RouteLoopback, loopback_ready
    <3> QED BY <2>1, <2>2, <3>1 DEF HandsOver, OwedBy
  <2>3. CASE loopback.state # "IDLE"
    <3>1. disp' = disp
      BY <1>4, <2>3 DEF RouteLoopback, loopback_ready
    <3> QED BY <2>1, <2>3, <3>1 DEF HandsOver
  <2> QED BY <2>2, <2>3
<1> QED BY <1>0, <1>1, <1>2, <1>3, <1>4 DEF Dispatcher

(* The loopback engine takes the packet it is handed, keeps what it owes, or   *)
(* gives the answer it owes, when there is room for it.                        *)
LEMMA LoopbackOwes ==
  ASSUME Types, Routed, Loopback
  PROVE  \/ /\ HandsOver /\ tx' = tx /\ OwedBy(loopback.state, loopback.request) = << >>
            /\ OwedBy(loopback'.state, loopback'.request) = OwedBy(disp.state, disp.packet)
         \/ /\ ~HandsOver /\ tx' = tx
            /\ OwedBy(loopback'.state, loopback'.request) = OwedBy(loopback.state, loopback.request)
         \/ /\ ~HandsOver /\ Len(tx) < FifoDepth /\ tx' = Append(tx, Response) /\ Response \in Answers
            /\ OwedBy(loopback.state, loopback.request) = <<Response>>
            /\ OwedBy(loopback'.state, loopback'.request) = << >>
<1>0. /\ loopback \in [state : {"IDLE", "BUSY", "OUTPUT_RESPONSE"}, request : Packet \union {None},
                       left : 0 .. LoopbackCycles, override : Statuses \union {None}]
      /\ loopback.state # "IDLE" => loopback.request \in Packet
  BY DEF Types, LoopbackOK
<1>1. CASE LoopbackIdle
  <2>1. CASE disp.state = "ROUTE_LOOPBACK"
    <3>1. loopback.state = "IDLE" /\ tx' = tx /\ loopback'.state = "BUSY" /\ loopback'.request = disp.packet
      BY <1>1, <2>1 DEF LoopbackIdle
    <3> QED BY <2>1, <3>1 DEF HandsOver, OwedBy
  <2>2. CASE disp.state # "ROUTE_LOOPBACK"
    BY <1>1, <2>2 DEF LoopbackIdle, HandsOver
  <2> QED BY <2>1, <2>2
<1>2. CASE LoopbackBusy
  <2>1. loopback.state = "BUSY" /\ tx' = tx /\ loopback'.state # "IDLE"
        /\ loopback'.request = loopback.request
    BY <1>0, <1>2 DEF LoopbackBusy
  <2> QED BY <2>1 DEF HandsOver, OwedBy
<1>3. CASE LoopbackOutput
  <2>1. loopback.state = "OUTPUT_RESPONSE" /\ loopback.request \in Packet /\ ~HandsOver
    BY <1>0, <1>3 DEF LoopbackOutput, HandsOver
  <2>2. CASE Len(tx) < FifoDepth
    <3>1. tx' = Append(tx, Response) /\ loopback'.state = "IDLE"
      BY <1>0, <1>3, <2>2 DEF LoopbackOutput
    <3>2. Verdict(loopback.request) = ResponseStatus
      BY <2>1 DEF Routed, StatusOf, ResponseStatus
    <3>3. ResponseStatus \in Statuses /\ ResponseStatus # None
      <4>1. ResponseStatus \in Statuses
        BY <1>0 DEF ResponseStatus, Statuses
      <4> QED BY <4>1, FabricAssumption
    <3> HIDE DEF Verdict
    <3>4. AnswerTo(loopback.request) = <<Response>>
      BY <3>2, <3>3 DEF AnswerTo, Response
    <3>5. Response \in Answers
      <4>1. loopback.request.tag \in 1 .. MaxPackets
        BY <2>1 DEF Packet
      <4> QED BY <3>3, <4>1 DEF Response, Answers
    <3> QED BY <2>1, <2>2, <3>1, <3>4, <3>5 DEF OwedBy
  <2>3. CASE ~(Len(tx) < FifoDepth)
    BY <1>3, <2>1, <2>3 DEF LoopbackOutput
  <2> QED BY <2>2, <2>3
<1> QED BY <1>1, <1>2, <1>3 DEF Loopback

(* An edge gives the oldest answer owed, or leaves the service as it was. *)
LEMMA ClkServes ==
  ASSUME Types, Types', Routed, Clk
  PROVE  Service!Answer \/ (UNCHANGED Service!vars)
<1> DEFINE l == OwedBy(loopback.state, loopback.request)
           d == OwedBy(disp.state, disp.packet)
           r == Owed(rx)
           l1 == OwedBy(loopback'.state, loopback'.request)
           d1 == OwedBy(disp'.state, disp'.packet)
           r1 == Owed(rx')
<1>1. /\ l \in Seq(Answers) /\ d \in Seq(Answers) /\ r \in Seq(Answers)
      /\ Owed(Unanswered) = l \o (d \o r)
  BY OwedIsHeld
<1>2. /\ l1 \in Seq(Answers) /\ d1 \in Seq(Answers) /\ r1 \in Seq(Answers)
      /\ Owed(Unanswered)' = l1 \o (d1 \o r1)
  BY OwedIsHeldAfter
<1>3. /\ HandsOver => d1 = << >> /\ r1 = r
      /\ ~HandsOver => d1 \o r1 = d \o r
  BY DispatcherOwes
<1>4. \/ HandsOver /\ tx' = tx /\ l = << >> /\ l1 = d
      \/ ~HandsOver /\ tx' = tx /\ l1 = l
      \/ /\ ~HandsOver /\ Len(tx) < FifoDepth /\ tx' = Append(tx, Response) /\ Response \in Answers
         /\ l = <<Response>> /\ l1 = << >>
  BY LoopbackOwes DEF Clk
<1> HIDE DEF l, d, r, l1, d1, r1
<1>5. d \o r \in Seq(Answers) /\ << >> \o (d \o r) = d \o r /\ << >> \o r = r
  BY <1>1, ConcatEmptySeq, ConcatProperties
<1>6. CASE HandsOver /\ tx' = tx /\ l = << >> /\ l1 = d
  <2>1. Owed(Unanswered)' = Owed(Unanswered)
    BY <1>1, <1>2, <1>3, <1>5, <1>6
  <2> QED BY <1>6, <2>1 DEF Service!vars
<1>7. CASE ~HandsOver /\ tx' = tx /\ l1 = l
  <2>1. Owed(Unanswered)' = Owed(Unanswered)
    BY <1>1, <1>2, <1>3, <1>7
  <2> QED BY <1>7, <2>1 DEF Service!vars
<1>8. CASE /\ ~HandsOver /\ Len(tx) < FifoDepth /\ tx' = Append(tx, Response) /\ Response \in Answers
           /\ l = <<Response>> /\ l1 = << >>
  <2> DEFINE rest == d \o r
             one == Response
  <2>1. rest \in Seq(Answers) /\ one \in Answers
    BY <1>5, <1>8
  <2>2. Owed(Unanswered) = <<one>> \o rest
    BY <1>1, <1>8
  <2>3. Owed(Unanswered)' = rest
    BY <1>2, <1>3, <1>5, <1>8
  <2>4. tx' = Append(tx, one) /\ Len(tx) < FifoDepth
    BY <1>8
  <2> HIDE DEF rest, one
  <2> DEFINE all == <<one>> \o rest
  <2>5. all # << >> /\ Head(all) = one /\ Tail(all) = rest
    BY <2>1
  <2> HIDE DEF all
  <2>6. Owed(Unanswered) = all
    BY <2>2 DEF all
  <2>7. Service!Answer
    BY <2>3, <2>4, <2>5, <2>6 DEF Service!Answer
  <2> QED BY <2>7
<1> QED BY <1>4, <1>6, <1>7, <1>8

(* What is appended to the last of three lists is appended to them together. *)
LEMMA LastIsOutermost ==
  ASSUME NEW a \in Seq(Answers), NEW b \in Seq(Answers), NEW c \in Seq(Answers),
         NEW d \in Seq(Answers)
  PROVE  a \o (b \o (c \o d)) = (a \o (b \o c)) \o d /\ a \o (b \o c) \in Seq(Answers)
<1> DEFINE x == b \o c
<1>1. x \in Seq(Answers)
  OBVIOUS
<1>2. x \o d = b \o (c \o d)
  BY ConcatAssociative
<1> HIDE DEF x
<1>3. (a \o x) \o d = a \o (x \o d)
  BY <1>1, ConcatAssociative
<1>4. a \o x \in Seq(Answers)
  BY <1>1
<1>5. a \o (b \o (c \o d)) = (a \o x) \o d /\ a \o x \in Seq(Answers)
  BY <1>2, <1>3, <1>4
<1> QED BY <1>5 DEF x

(* Sending a packet requests its answer, if it deserves one. *)
LEMMA SendRequests ==
  ASSUME Types, Types', HostSend
  PROVE  Service!Request \/ (UNCHANGED Service!vars)
<1>1. PICK k \in Kinds, s \in Symbols \union {NoSlot} :
        rx' = Append(rx, [kind |-> k, sym |-> s, tag |-> sent'])
  BY DEF HostSend
<1> DEFINE p == [kind |-> k, sym |-> s, tag |-> sent']
           l == OwedBy(loopback.state, loopback.request)
           d == OwedBy(disp.state, disp.packet)
           r == Owed(rx)
           more == AnswerTo(p)
<1>2. p \in Packet /\ rx \in Seq(Packet)
  <2>1. sent' \in 1 .. MaxPackets
    BY FabricAssumption DEF HostSend, Types, HistoryOK
  <2> QED BY <2>1 DEF Packet, Types, QueuesOK
<1>3. tx' = tx /\ disp' = disp /\ loopback' = loopback
  BY DEF HostSend, fabric
<1> HIDE DEF p
<1>4. Owed(rx') = r \o more
  <2>1. rx' = Append(rx, p)
    BY <1>1 DEF p
  <2> QED BY <1>2, <2>1, OwedForLast
<1>5. /\ l \in Seq(Answers) /\ d \in Seq(Answers) /\ r \in Seq(Answers)
      /\ Owed(Unanswered) = l \o (d \o r)
  BY OwedIsHeld
<1>6. Owed(Unanswered)' = l \o (d \o (r \o more))
  BY <1>3, <1>4, OwedIsHeldAfter
<1>7. /\ more \in Seq(Answers)
      /\ more = << >> \/ \E a \in Answers : more = <<a>>
  BY <1>2, AnswerIsOne
<1> HIDE DEF l, d, r, more
<1> DEFINE owed == l \o (d \o r)
<1>8. l \o (d \o (r \o more)) = owed \o more /\ owed \in Seq(Answers)
  <2>1. l \in Seq(Answers) /\ d \in Seq(Answers) /\ r \in Seq(Answers) /\ more \in Seq(Answers)
    BY <1>5, <1>7
  <2>2. /\ l \o (d \o (r \o more)) = (l \o (d \o r)) \o more
        /\ l \o (d \o r) \in Seq(Answers)
    BY <2>1, LastIsOutermost
  <2> QED BY <2>2 DEF owed
<1> HIDE DEF owed
<1>9. Owed(Unanswered) = owed /\ Owed(Unanswered)' = owed \o more
  BY <1>5, <1>6, <1>8 DEF owed
<1>10. CASE more = << >>
  <2>1. owed \o << >> = owed
    BY <1>8, ConcatEmptySeq
  <2> QED BY <1>3, <1>9, <1>10, <2>1 DEF Service!vars
<1>11. ASSUME NEW a \in Answers, more = <<a>> PROVE Service!Request
  <2>1. owed \o <<a>> = Append(owed, a)
    BY <1>8, <1>11
  <2> QED BY <1>3, <1>9, <1>11, <2>1 DEF Service!Request
<1> QED BY <1>7, <1>10, <1>11

(* Every packet that deserves an answer gets exactly one, the right one, in     *)
(* order, whatever the depth of the FIFOs, the latencies of the blocks and the  *)
(* stalls of the answer FIFO: the fabric implements the request service         *)
(* (packet_dispatcher.sv, strategy_config.sv, loopback_engine.sv).              *)
THEOREM FabricServesRequests == Spec => AnswersRequests
<1> DEFINE Inv == Types /\ Routed
<1>1. Init => Inv /\ Service!Init
  <2> SUFFICES ASSUME Init PROVE Inv /\ Service!Init
    OBVIOUS
  <2>1. Routed
    BY DEF Init, Routed
  <2>2. Unanswered = << >>
    BY DEF Init, Unanswered
  <2>3. Service!Init
    BY <2>2, OwedForNone DEF Init, Service!Init
  <2> QED BY <2>1, <2>3, InitTypes
<1>2. Inv /\ [Next]_vars => Inv' /\ [Service!Next]_Service!vars
  <2> SUFFICES ASSUME Types, Routed, [Next]_vars
               PROVE  Types' /\ Routed' /\ [Service!Next]_Service!vars
    OBVIOUS
  <2>0. Types'
    BY NextTypes
  <2>1. CASE Clk
    BY <2>0, <2>1, ClkKeepsRouted, ClkServes DEF Service!Next
  <2>2. CASE HostSend
    <3>1. Routed'
      BY <2>2 DEF HostSend, fabric, Routed, Verdict, StatusOf
    <3> QED BY <2>0, <2>2, <3>1, SendRequests DEF Service!Next
  <2>3. CASE HostFetch
    <3>1. Routed'
      BY <2>3 DEF HostFetch, fabric, Routed, Verdict, StatusOf
    <3>2. Owed(Unanswered)' = Owed(Unanswered)
      BY <2>3 DEF HostFetch, fabric, Unanswered, Owed, AnswerTo, Verdict
    <3>3. Service!Fetch
      BY <2>3, <3>2 DEF HostFetch, Service!Fetch
    <3> QED BY <2>0, <3>1, <3>3 DEF Service!Next
  <2>4. CASE UNCHANGED vars
    <3>1. Routed'
      BY <2>4 DEF vars, fabric, Routed, Verdict, StatusOf
    <3>2. UNCHANGED Service!vars
      BY <2>4 DEF vars, fabric, Service!vars, Unanswered, Owed, AnswerTo, Verdict
    <3> QED BY <2>0, <3>1, <3>2
  <2> QED BY <2>1, <2>2, <2>3, <2>4 DEF Next
<1> QED BY <1>1, <1>2, PTL DEF Spec, AnswersRequests, Service!Spec
=============================================================================
