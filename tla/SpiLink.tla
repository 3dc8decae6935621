------------------------------ MODULE SpiLink -------------------------------
(***************************************************************************)
(* The link between host and fabric: LoopbackClient::exchange of           *)
(* host/src/spi_transport.cpp (request, turnaround, response) and          *)
(* one-way events on the master's side, fpga/rtl/spi/spi_slave.sv on the   *)
(* other, and the two FIFOs as the slave sees them.                        *)
(*                                                                         *)
(* spi_clk runs only inside a frame, so the slave moves only then.  A      *)
(* frame is three steps: its first edge, the edges between, its last edge. *)
(* The fabric may work at any time; it answers in order (RequestService).  *)
(***************************************************************************)
EXTENDS Naturals, Sequences

CONSTANTS
  Depth,           (* cells of each FIFO, with the packets the fabric is working on *)
  MaxPackets,      (* bound: packets the host submits *)
  SequenceOf(_),   (* the sequence field the caller gave to a packet *)
  None,
  Filler           (* 32 zero bytes *)

Statuses == {"OK", "ERROR"}
(* verdict: the status the packet deserves, None if it goes unanswered. *)
Packets == [id : 1 .. MaxPackets, verdict : Statuses \union {None}]
Answers == [id : 1 .. MaxPackets, status : Statuses]
Calls   == [packet : Packets, exchange : BOOLEAN, expected : Statuses \union {None},
            step : {"request", "turnaround", "response"}]
Frames  == [packet : Packets \union {Filler}, at : {"start", "body"},
            miso : Answers \union {None}]

ASSUME LinkAssumption ==
  /\ Depth \in Nat \ {0} /\ MaxPackets \in Nat
  /\ \A id \in 1 .. MaxPackets : SequenceOf(id) \in Nat
  /\ None \notin Statuses \union Answers \union Calls \union Frames
  /\ Filler \notin Packets

VARIABLES
  op,           (* the call in progress: packet, exchange or event, status expected, step *)
  outcome,      (* what the last exchange reported: expected, verdict and success *)
  sent,         (* packets submitted so far *)
  frame,        (* the frame on the wire: packet, edge reached, answer shifted out; or None *)
  phase,        (* spi_slave: WAIT_REQUEST, WAIT_TURNAROUND or RESPONSE_READY *)
  rx_packet, rx_packet_valid, (* spi_slave: the packet held for the RX FIFO *)
  rx_full,      (* the RX FIFO's full flag in the SPI domain *)
  tx_seen,      (* how many answers the SPI domain knows of *)
  rx, tx,       (* the FIFOs' contents *)
  taken,        (* history: packets the fabric took *)
  disturbed     (* history: a transfer failed, an answer was owed that nobody fetches, *)
                (* a frame was overwritten, or the fabric missed a turnaround          *)

host  == <<op, outcome, sent>>
slave == <<phase, rx_packet, rx_packet_valid, rx_full, tx_seen>>
vars  == <<host, frame, slave, rx, tx, taken, disturbed>>

Init ==
  /\ op = None /\ outcome = None /\ sent = 0 /\ frame = None
  /\ phase = "WAIT_REQUEST" /\ rx_packet = Filler /\ rx_packet_valid = FALSE /\ rx_full = FALSE
  /\ tx_seen = 0 /\ rx = << >> /\ tx = << >> /\ taken = {} /\ disturbed = FALSE
-----------------------------------------------------------------------------
(* send_market_event: one transfer.  Bad-symbol events are answered too. *)
SubmitEvent ==
  /\ op = None /\ sent < MaxPackets /\ sent' = sent + 1
  /\ \E v \in {None, "ERROR"} :
       /\ op' = [packet |-> [id |-> sent', verdict |-> v], exchange |-> FALSE,
                 expected |-> None, step |-> "request"]
       /\ disturbed' = (disturbed \/ v # None)
  /\ UNCHANGED <<outcome, frame, slave, rx, tx, taken>>

(* exchange: a loopback or control request. *)
SubmitRequest ==
  /\ op = None /\ sent < MaxPackets /\ sent' = sent + 1
  /\ \E v, e \in Statuses :
       op' = [packet |-> [id |-> sent', verdict |-> v], exchange |-> TRUE,
              expected |-> e, step |-> "request"]
  /\ outcome' = None
  /\ UNCHANGED <<frame, slave, rx, tx, taken, disturbed>>

(* The held packet enters the RX FIFO unless the flag forbids it. *)
BugHeldTwice(room) ==
  IF rx_packet_valid /\ room
  THEN /\ rx' = Append(rx, rx_packet) /\ UNCHANGED rx_packet_valid
  ELSE /\ UNCHANGED <<rx, rx_packet_valid>>
BugIgnoresFull(room) ==
  IF rx_packet_valid
  THEN /\ rx' = Append(rx, rx_packet) /\ rx_packet_valid' = FALSE
  ELSE /\ UNCHANGED <<rx, rx_packet_valid>>
HandOver(room) ==
  IF rx_packet_valid /\ room
  THEN /\ rx' = Append(rx, rx_packet) /\ rx_packet_valid' = FALSE
  ELSE /\ UNCHANGED <<rx, rx_packet_valid>>

(* The first rising edge: an answer is taken in the response phase. *)
FrameStart ==
  /\ op # None /\ frame = None
  /\ LET pop == phase = "RESPONSE_READY" /\ tx_seen > 0
     IN  /\ frame' = [packet |-> IF op.step = "request" THEN op.packet ELSE Filler,
                      at |-> "start", miso |-> IF pop THEN Head(tx) ELSE None]
         /\ tx' = IF pop THEN Tail(tx) ELSE tx
         /\ tx_seen' = IF pop THEN tx_seen - 1 ELSE tx_seen
  /\ HandOver(~rx_full) /\ rx_full' = (rx_full \/ Len(rx') = Depth)
  /\ UNCHANGED <<host, phase, rx_packet, taken, disturbed>>

(* The edges between: both synchronizers catch up with the fabric. *)
FrameBody ==
  /\ frame # None /\ frame.at = "start"
  /\ frame' = [frame EXCEPT !.at = "body"]
  /\ tx_seen' = Len(tx)
  /\ HandOver(Len(rx) < Depth) /\ rx_full' = (Len(rx') = Depth)
  /\ disturbed' = (disturbed \/ (op.step = "turnaround" /\ rx' # << >>))
  /\ UNCHANGED <<host, phase, rx_packet, tx, taken>>

(* Any frame ends the turnaround. *)
BugAnyFrameTurns(p) ==
  CASE phase = "WAIT_REQUEST"    -> IF p # Filler THEN "WAIT_TURNAROUND" ELSE phase
    [] phase = "WAIT_TURNAROUND" -> "RESPONSE_READY"
    [] OTHER                     -> "WAIT_REQUEST"
NextPhase(p) ==
  CASE phase = "WAIT_REQUEST"    -> IF p # Filler THEN "WAIT_TURNAROUND" ELSE phase
    [] phase = "WAIT_TURNAROUND" -> IF p = Filler THEN "RESPONSE_READY" ELSE phase
    [] OTHER                     -> "WAIT_REQUEST"

(* What exchange makes of the third transfer. *)
BugNoSequenceCheck(answer) == answer # None /\ answer.status = op.expected
Accepts(answer) ==
  /\ answer # None
  /\ SequenceOf(answer.id) = SequenceOf(op.packet.id)
  /\ answer.status = op.expected

Report(success) ==
  outcome' = [expected |-> op.expected, verdict |-> op.packet.verdict, success |-> success,
              reached |-> op.packet.id \in taken]

(* The 256th edge, and ioctl returns; it may report a failure all the same. *)
FrameEnd ==
  /\ frame # None /\ frame.at = "body" /\ frame' = None
  /\ rx_packet' = frame.packet /\ rx_packet_valid' = TRUE
  /\ rx' = IF rx_packet_valid /\ ~rx_full THEN Append(rx, rx_packet) ELSE rx
  /\ rx_full' = (rx_full \/ Len(rx') = Depth)
  /\ phase' = NextPhase(frame.packet)
  /\ \E ok \in BOOLEAN :
       /\ disturbed' = (disturbed \/ ~ok \/ (rx_packet_valid /\ rx_full))
       /\ IF ~ok \/ op.step = "response" \/ ~op.exchange
          THEN /\ op' = None
               /\ IF op.exchange THEN Report(ok /\ Accepts(frame.miso)) ELSE UNCHANGED outcome
          ELSE /\ op' = [op EXCEPT !.step = IF @ = "request" THEN "turnaround" ELSE "response"]
               /\ UNCHANGED outcome
  /\ UNCHANGED <<sent, tx_seen, tx, taken>>

(* ioctl fails before the frame is complete: chip select ends it. *)
TransferFails ==
  /\ op # None /\ frame' = None /\ op' = None /\ disturbed' = TRUE
  /\ IF op.exchange THEN Report(FALSE) ELSE UNCHANGED outcome
  /\ UNCHANGED <<sent, slave, rx, tx, taken>>

(* The fabric takes the oldest packet and answers it if it must. *)
FabricStep ==
  /\ rx # << >> /\ rx' = Tail(rx)
  /\ LET p == Head(rx)
     IN  IF p = Filler \/ p.verdict = None
         THEN UNCHANGED tx
         ELSE Len(tx) < Depth /\ tx' = Append(tx, [id |-> p.id, status |-> p.verdict])
  /\ taken' = IF Head(rx) = Filler THEN taken ELSE taken \union {Head(rx).id}
  /\ UNCHANGED <<host, frame, slave, disturbed>>

Next == SubmitEvent \/ SubmitRequest \/ FrameStart \/ FrameBody \/ FrameEnd
        \/ TransferFails \/ FabricStep

Spec == Init /\ [][Next]_vars
-----------------------------------------------------------------------------
(* Types; the SPI domain never believes in an answer that is not there, nor *)
(* in room that is not there.                                               *)
TypeOK ==
  /\ sent \in 0 .. MaxPackets /\ taken \subseteq 1 .. sent /\ disturbed \in BOOLEAN
  /\ op # None => op \in Calls /\ (op.step # "request" => op.exchange)
  /\ frame # None => frame \in Frames /\ op # None
  /\ phase \in {"WAIT_REQUEST", "WAIT_TURNAROUND", "RESPONSE_READY"}
  /\ rx_packet \in Packets \union {Filler} /\ rx_packet_valid \in BOOLEAN
  /\ rx \in Seq(Packets \union {Filler}) /\ Len(rx) <= Depth
  /\ tx \in Seq(Answers) /\ tx_seen <= Len(tx) /\ Len(tx) <= Depth
  /\ Len(rx) = Depth => rx_full

(* An exchange that reports success tells the truth: the fabric took this   *)
(* very request, and the status expected is the one it deserves, whatever   *)
(* failed before (a stale answer is never taken for the answer).            *)
AckIsTruthful ==
  (outcome # None /\ outcome.success) => (outcome.reached /\ outcome.verdict = outcome.expected)

(* As long as no transfer failed, no answer was left unfetched and the      *)
(* fabric kept up, every exchange reports success exactly when the status   *)
(* it expects is the right one, wherever one-way events left the slave's    *)
(* phase (spi_slave.sv:138-149).                                            *)
UndisturbedExchangeSucceeds ==
  (outcome # None /\ ~disturbed) => (outcome.success <=> outcome.verdict = outcome.expected)

(* The packets that are on their way to the fabric, oldest first: FIFO      *)
(* contents, then the packet held.                                          *)
UnderWay == IF rx_packet_valid THEN Append(rx, rx_packet) ELSE rx

(* No packet reaches the fabric twice or out of order, although a frame is  *)
(* handed over only by the clock edges of a later one, and may be           *)
(* overwritten or cut short meanwhile.                                      *)
OnceInOrder ==
  \A i \in 1 .. Len(UnderWay) : UnderWay[i] # Filler =>
    /\ \A j \in 1 .. i - 1 : UnderWay[j] # Filler => UnderWay[j].id < UnderWay[i].id
    /\ \A t \in taken : t < UnderWay[i].id
=============================================================================
