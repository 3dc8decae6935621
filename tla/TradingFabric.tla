--------------------------- MODULE TradingFabric ----------------------------
(***************************************************************************)
(* The synchronous 27 MHz fabric of fpga/rtl/top/trading_spi_top.sv: the   *)
(* packet dispatcher, the strategy configuration's slot-reset handshake,   *)
(* the market and signal engines' handshakes, the loopback engine that     *)
(* writes every answer, and the fabric side of the two packet FIFOs.       *)
(*                                                                         *)
(* Clk is one edge of clk: every block reads the registers as they stood   *)
(* before the edge.  The link may put a packet into the RX FIFO, or take   *)
(* an answer from the TX FIFO, between any two edges.  What the events do  *)
(* to prices and windows is left to MarketEngine and SignalEngine; here an *)
(* engine's memory of a symbol is the set of the events it reflects.       *)
(***************************************************************************)
EXTENDS Naturals, Sequences, FiniteSets

CONSTANTS
  Symbols,         (* the slots 0 .. NUM_SYMBOLS-1 *)
  NoSlot,          (* a symbol field that is out of range *)
  None,
  FifoDepth,       (* DEPTH of both FIFOs *)
  CrcCycles,       (* edges the dispatcher's CRC takes; more than a market reject takes *)
  LoopbackCycles,  (* edges from request to response in the loopback engine *)
  CalcCycles,      (* how many edges an event's calculation may take: it depends on data *)
  MaxPackets       (* bound: packets the host sends *)

Statuses == {"OK", "BAD_PACKET", "BAD_SYMBOL", "BAD_CONTROL"}

ASSUME FabricAssumption ==
  /\ NoSlot \notin Symbols /\ None \notin Symbols /\ NoSlot # None /\ None \notin Statuses
  /\ FifoDepth \in Nat \ {0} /\ MaxPackets \in Nat
  /\ CrcCycles \in Nat /\ CrcCycles > 1 /\ LoopbackCycles \in Nat \ {0}
  /\ CalcCycles \subseteq Nat \ {0} /\ CalcCycles # {}

(* A tag numbers the packets in the order they were sent. *)
Kinds == {"filler", "loopback", "malformed", "event", "config", "clear"}
Packet == [kind : Kinds, sym : Symbols \union {NoSlot}, tag : 1 .. MaxPackets]
Answers == [tag : 1 .. MaxPackets, status : Statuses]

VARIABLES
  rx,           (* packets the RX FIFO shows the fabric *)
  tx,           (* answers in the TX FIFO *)
  disp,         (* packet_dispatcher: state, packet_reg, edges left, status override *)
  slot_reset,   (* strategy_config: the slot whose reset is pending, or None *)
  market,       (* market_state_engine: state, event, edges left, feature_valid *)
  market_slot,  (* the events each slot of the market engine reflects *)
  signal_slot,  (* the events each slot of the signal engine reflects *)
  loopback,     (* loopback_engine: state, request, edges left, status override *)
  sent,         (* how many packets were sent *)
  clears,       (* history: the CLEAR commands sent *)
  hasty         (* history: a CLEAR was sent while an event was on its way *)

fabric == <<disp, slot_reset, market, market_slot, signal_slot, loopback>>
vars == <<rx, tx, fabric, sent, clears, hasty>>

Init ==
  /\ rx = << >> /\ tx = << >> /\ slot_reset = None
  /\ disp = [state |-> "IDLE", packet |-> None, left |-> 0, override |-> None]
  /\ market = [state |-> "IDLE", event |-> None, left |-> 0, feature_valid |-> FALSE]
  /\ loopback = [state |-> "IDLE", request |-> None, left |-> 0, override |-> None]
  /\ market_slot = [s \in Symbols |-> {}] /\ signal_slot = [s \in Symbols |-> {}]
  /\ sent = 0 /\ clears = {} /\ hasty = FALSE
-----------------------------------------------------------------------------
(* The wires between the blocks. *)
packet_ready     == disp.state = "IDLE"
control_ready    == slot_reset = None
event_ready      == market.state = "IDLE" /\ ~market.feature_valid /\ slot_reset = None
event_accepted   == disp.state = "ROUTE_EVENT" /\ event_ready
loopback_ready   == loopback.state = "IDLE"
feature_ready    == slot_reset = None
feature_accepted == market.feature_valid /\ feature_ready
(* A ready that waits for a ready that waits for it. *)
BugCircularReady == market.state = "IDLE" /\ feature_ready
market_slot_reset_ready == market.state = "IDLE" /\ ~market.feature_valid
signal_slot_reset_ready == TRUE     (* signal_ready is tied high *)
config_slot_reset_ready == market_slot_reset_ready /\ signal_slot_reset_ready

cfg_status(p) == IF p.kind = "clear" /\ p.sym \notin Symbols THEN "BAD_CONTROL" ELSE "OK"

(* packet_dispatcher.sv *)
Fetched == IF packet_ready /\ rx # << >> THEN Tail(rx) ELSE rx

DispatcherIdle ==
  /\ disp.state = "IDLE"
  /\ disp' = IF rx = << >> \/ Head(rx).kind = "filler" THEN disp
             ELSE [disp EXCEPT !.state = "CRC_PACKET", !.packet = Head(rx), !.left = CrcCycles]

CrcPacket ==
  /\ disp.state = "CRC_PACKET"
  /\ disp' = IF disp.left = 1 THEN [disp EXCEPT !.state = "CLASSIFY", !.left = 0]
             ELSE [disp EXCEPT !.left = @ - 1]

(* Bad-symbol events are taken for good ones. *)
BugNoSymbolCheck ==
  /\ disp.state = "CLASSIFY"
  /\ LET p == disp.packet
         route == CASE p.kind = "event" -> "ROUTE_EVENT"
                    [] p.kind \in {"config", "clear"} -> "ROUTE_CONTROL"
                    [] OTHER -> "ROUTE_LOOPBACK"
     IN  disp' = [disp EXCEPT !.state = route, !.override = None]

Classify ==
  /\ disp.state = "CLASSIFY"
  /\ LET p == disp.packet
         bad_symbol == p.kind = "event" /\ p.sym \notin Symbols
         route == CASE p.kind = "event" /\ ~bad_symbol -> "ROUTE_EVENT"
                    [] p.kind \in {"config", "clear"} -> "ROUTE_CONTROL"
                    [] OTHER -> "ROUTE_LOOPBACK"
     IN  disp' = [disp EXCEPT !.state = route,
                              !.override = IF bad_symbol THEN "BAD_SYMBOL" ELSE None]

RouteEvent ==
  /\ disp.state = "ROUTE_EVENT"
  /\ disp' = IF event_ready THEN [disp EXCEPT !.state = "IDLE"] ELSE disp

RouteControl ==
  /\ disp.state = "ROUTE_CONTROL"
  /\ disp' = IF control_ready
             THEN [disp EXCEPT !.state = "ROUTE_LOOPBACK", !.override = cfg_status(disp.packet)]
             ELSE disp

RouteLoopback ==
  /\ disp.state = "ROUTE_LOOPBACK"
  /\ disp' = IF loopback_ready THEN [disp EXCEPT !.state = "IDLE", !.override = None] ELSE disp

Dispatcher == \/ DispatcherIdle \/ CrcPacket \/ Classify
              \/ RouteEvent \/ RouteControl \/ RouteLoopback

(* strategy_config.sv: a CLEAR raises slot_reset; both engines' ready lowers it. *)
StrategyConfig ==
  LET p == disp.packet
      clear_accepted == /\ disp.state = "ROUTE_CONTROL" /\ control_ready
                        /\ p.kind = "clear" /\ cfg_status(p) = "OK"
  IN  slot_reset' = IF clear_accepted THEN p.sym
                    ELSE IF config_slot_reset_ready THEN None ELSE slot_reset

(* market_state_engine.sv *)
MarketReset ==
  /\ slot_reset # None /\ market_slot_reset_ready
  /\ market' = [market EXCEPT !.state = "IDLE", !.feature_valid = FALSE]
  /\ market_slot' = [market_slot EXCEPT ![slot_reset] = {}]

(* An event with an unknown side is turned away at once. *)
MarketIdle ==
  /\ market.state = "IDLE" /\ (slot_reset = None \/ ~market_slot_reset_ready)
  /\ UNCHANGED market_slot
  /\ IF event_accepted
     THEN \E good_side \in BOOLEAN :
            market' = IF good_side THEN [market EXCEPT !.state = "CHECK", !.event = disp.packet]
                      ELSE market
     ELSE UNCHANGED market

(* READ_STATE and CHECK_SEQUENCE: a duplicate or stale event goes no further. *)
MarketCheck ==
  /\ market.state = "CHECK"
  /\ \/ market' = [market EXCEPT !.state = "IDLE"]
     \/ \E n \in CalcCycles : market' = [market EXCEPT !.state = "CALC", !.left = n]
  /\ UNCHANGED market_slot

(* SET_HISTORY_ADDR to WRITE_HISTORY: the slot is written before the output. *)
MarketCalc ==
  /\ market.state = "CALC"
  /\ IF market.left > 1
     THEN market' = [market EXCEPT !.left = @ - 1] /\ UNCHANGED market_slot
     ELSE /\ market' = [market EXCEPT !.state = "OUTPUT", !.left = 0]
          /\ market_slot' = [market_slot EXCEPT ![market.event.sym] = @ \union {market.event.tag}]

(* The feature is dropped when the signal engine is not ready at once. *)
BugOutputDoesNotHold ==
  /\ market.state = "OUTPUT" /\ UNCHANGED market_slot
  /\ market' = IF ~market.feature_valid THEN [market EXCEPT !.feature_valid = TRUE]
               ELSE [market EXCEPT !.state = "IDLE", !.feature_valid = FALSE]

MarketOutput ==
  /\ market.state = "OUTPUT" /\ UNCHANGED market_slot
  /\ market' = IF ~market.feature_valid THEN [market EXCEPT !.feature_valid = TRUE]
               ELSE IF feature_ready THEN [market EXCEPT !.state = "IDLE", !.feature_valid = FALSE]
               ELSE market

Market == MarketReset \/ MarketIdle \/ MarketCheck \/ MarketCalc \/ MarketOutput

BugSignalKeepsState ==
  signal_slot' = IF feature_accepted
                 THEN [signal_slot EXCEPT ![market.event.sym] = @ \union {market.event.tag}]
                 ELSE signal_slot

(* signal_engine.sv: its own ready alone lets it clear a slot. *)
SignalEdge ==
  signal_slot' =
    IF slot_reset # None /\ signal_slot_reset_ready THEN [signal_slot EXCEPT ![slot_reset] = {}]
    ELSE IF feature_accepted
         THEN [signal_slot EXCEPT ![market.event.sym] = @ \union {market.event.tag}]
    ELSE signal_slot

(* loopback_engine.sv *)
LoopbackIdle ==
  /\ loopback.state = "IDLE" /\ UNCHANGED tx
  /\ loopback' = IF disp.state = "ROUTE_LOOPBACK"
                 THEN [state |-> "BUSY", request |-> disp.packet, left |-> LoopbackCycles,
                       override |-> disp.override]
                 ELSE loopback

LoopbackBusy ==
  /\ loopback.state = "BUSY" /\ UNCHANGED tx
  /\ loopback' = IF loopback.left = 1
                 THEN [loopback EXCEPT !.state = "OUTPUT_RESPONSE", !.left = 0]
                 ELSE [loopback EXCEPT !.left = @ - 1]

(* VALIDATE_REQUEST *)
ResponseStatus ==
  IF loopback.override # None THEN loopback.override
  ELSE IF loopback.request.kind = "loopback" THEN "OK" ELSE "BAD_PACKET"
Response == [tag |-> loopback.request.tag, status |-> ResponseStatus]

BugDropWhenFull ==
  /\ loopback.state = "OUTPUT_RESPONSE"
  /\ tx' = IF Len(tx) < FifoDepth THEN Append(tx, Response) ELSE tx
  /\ loopback' = [loopback EXCEPT !.state = "IDLE"]

LoopbackOutput ==
  /\ loopback.state = "OUTPUT_RESPONSE"
  /\ IF Len(tx) < FifoDepth
     THEN tx' = Append(tx, Response) /\ loopback' = [loopback EXCEPT !.state = "IDLE"]
     ELSE UNCHANGED <<tx, loopback>>

Loopback == LoopbackIdle \/ LoopbackBusy \/ LoopbackOutput

Clk ==
  /\ rx' = Fetched
  /\ Dispatcher /\ StrategyConfig /\ Market /\ SignalEdge /\ Loopback
  /\ UNCHANGED <<sent, clears, hasty>>
-----------------------------------------------------------------------------
(* An event that is on its way or still being worked on. *)
EventUnderWay ==
  \/ \E i \in 1 .. Len(rx) : rx[i].kind = "event"
  \/ disp.state # "IDLE" /\ disp.packet.kind = "event"
  \/ market.state # "IDLE"

HostSend ==
  /\ sent < MaxPackets /\ Len(rx) < FifoDepth
  /\ sent' = sent + 1
  /\ \E k \in Kinds, s \in Symbols \union {NoSlot} :
       /\ k \notin {"event", "clear"} => s = NoSlot
       /\ rx' = Append(rx, [kind |-> k, sym |-> s, tag |-> sent'])
       /\ clears' = IF k = "clear" THEN clears \union {<<s, sent'>>} ELSE clears
       /\ hasty' = (hasty \/ (k = "clear" /\ EventUnderWay))
  /\ UNCHANGED <<tx, fabric>>

HostFetch == tx # << >> /\ tx' = Tail(tx) /\ UNCHANGED <<rx, fabric, sent, clears, hasty>>

Next == Clk \/ HostSend \/ HostFetch

Spec == Init /\ [][Next]_vars

(* The clock runs and the host keeps fetching answers; it need not send. *)
FairSpec == Spec /\ WF_vars(Clk) /\ WF_vars(HostFetch)
-----------------------------------------------------------------------------
(* The registers keep their types, and nothing but an event of a known slot *)
(* ever occupies the market engine.                                         *)
TypeOK ==
  /\ rx \in Seq(Packet) /\ Len(rx) <= FifoDepth /\ tx \in Seq(Answers) /\ Len(tx) <= FifoDepth
  /\ disp \in [state : {"IDLE", "CRC_PACKET", "CLASSIFY", "ROUTE_EVENT", "ROUTE_CONTROL",
                        "ROUTE_LOOPBACK"},
               packet : Packet \union {None}, left : 0 .. CrcCycles,
               override : Statuses \union {None}]
  /\ slot_reset \in Symbols \union {None}
  /\ market \in [state : {"IDLE", "CHECK", "CALC", "OUTPUT"}, event : Packet \union {None},
                 left : Nat, feature_valid : BOOLEAN]
  /\ market.feature_valid => market.state = "OUTPUT"
  /\ market.state # "IDLE" => market.event.kind = "event" /\ market.event.sym \in Symbols
  /\ market_slot \in [Symbols -> SUBSET (1 .. MaxPackets)]
  /\ signal_slot \in [Symbols -> SUBSET (1 .. MaxPackets)]
  /\ loopback \in [state : {"IDLE", "BUSY", "OUTPUT_RESPONSE"}, request : Packet \union {None},
                   left : 0 .. LoopbackCycles, override : Statuses \union {None}]
  /\ sent \in 0 .. MaxPackets /\ hasty \in BOOLEAN
  /\ clears \subseteq (Symbols \union {NoSlot}) \X (1 .. MaxPackets)

(* The answer the protocol lays down for a packet; None for the silent ones. *)
Verdict(p) ==
  CASE p.kind = "filler" \/ (p.kind = "event" /\ p.sym \in Symbols) -> None
    [] p.kind = "event" /\ p.sym = NoSlot -> "BAD_SYMBOL"
    [] p.kind = "clear" /\ p.sym = NoSlot -> "BAD_CONTROL"
    [] p.kind = "malformed" -> "BAD_PACKET"
    [] OTHER -> "OK"

AnswerTo(p) == IF Verdict(p) = None THEN << >> ELSE <<[tag |-> p.tag, status |-> Verdict(p)]>>

Owed(packets) ==
  LET owed[n \in 0 .. Len(packets)] == IF n = 0 THEN << >> ELSE owed[n - 1] \o AnswerTo(packets[n])
  IN  owed[Len(packets)]

(* The packets inside the fabric that may still be answered, oldest first. *)
Unanswered == (IF loopback.state = "IDLE" THEN << >> ELSE <<loopback.request>>)
              \o (IF disp.state = "IDLE" THEN << >> ELSE <<disp.packet>>) \o rx

Service == INSTANCE RequestService
             WITH owed <- Owed(Unanswered), answers <- tx, AnswerDepth <- FifoDepth

(* Every packet that deserves an answer is answered once, with its status,  *)
(* in order, although the status is computed in three blocks and the TX     *)
(* FIFO may stall the loopback engine at any point (packet_dispatcher.sv    *)
(* 181-259, loopback_engine.sv 152-207).                                    *)
AnswersRequests == Service!Spec

(* Whenever the market engine rests with no reset pending, the two engines  *)
(* remember the same events of every symbol: no feature is lost, and none   *)
(* survives in one engine a reset that the other performed.                 *)
EnginesAgree ==
  (market.state = "IDLE" /\ slot_reset = None) => market_slot = signal_slot

(* A CLEAR separates: no engine ever mixes, for one symbol, events from     *)
(* before and after a CLEAR command, although the command is acknowledged   *)
(* before it is carried out.                                                *)
ClearSeparates ==
  \A c \in clears : c[1] \in Symbols =>
    \A slots \in {market_slot, signal_slot} :
      ~ \E before, after \in slots[c[1]] : before < c[2] /\ c[2] < after

(* Unless a CLEAR overtakes an event that is still being worked on, a       *)
(* pending slot reset is carried out and every answer owed is given.        *)
PatientHostIsServed ==
  (slot_reset # None \/ Owed(Unanswered) # << >>)
    ~> (hasty \/ (slot_reset = None /\ Owed(Unanswered) = << >>))

(* Both engines perform a requested slot reset.                             *)
ResetIsPerformed == (slot_reset # None) ~> (slot_reset = None)
=============================================================================
