---------------------------- MODULE SpiLink_proofs -----------------------------
(***************************************************************************)
(* What the link promises for every FIFO depth, every number of packets    *)
(* and every way callers number them: types, order, that undisturbed       *)
(* exchanges succeed, and, if the numbers differ, that success is true.    *)
(***************************************************************************)
EXTENDS SpiLink, TLAPS

(* The types, spelled out for the records of call and frame. *)
CallOK ==
  /\ op # None =>
       /\ op \in Calls
       /\ op.step # "request" => op.exchange
       /\ op.packet.id = sent
  /\ frame # None =>
       /\ op # None
       /\ frame \in Frames
       /\ frame.packet = IF op.step = "request" THEN op.packet ELSE Filler
SlaveOK ==
  /\ phase \in {"WAIT_REQUEST", "WAIT_TURNAROUND", "RESPONSE_READY"}
  /\ rx_packet \in Packets \union {Filler} /\ rx_packet_valid \in BOOLEAN /\ rx_full \in BOOLEAN
FifosOK ==
  /\ rx \in Seq(Packets \union {Filler}) /\ Len(rx) <= Depth /\ (Len(rx) = Depth => rx_full)
  /\ tx \in Seq(Answers) /\ tx_seen \in Nat /\ tx_seen <= Len(tx) /\ Len(tx) <= Depth
HistoryOK == sent \in 0 .. MaxPackets /\ taken \subseteq 1 .. sent /\ disturbed \in BOOLEAN

(* A packet that was sent; the present one only once its frame is through. *)
Known(p) == p.id <= sent /\ (op # None /\ p.id = sent => p = op.packet /\ op.step # "request")
PacketsKnown ==
  /\ \A i \in 1 .. Len(rx) : rx[i] # Filler => Known(rx[i])
  /\ rx_packet # Filler => Known(rx_packet)
  /\ op # None /\ op.step = "request" => sent \notin taken

Types == CallOK /\ SlaveOK /\ FifosOK /\ HistoryOK /\ PacketsKnown

(* These types are stronger than the checked ones. *)
LEMMA TypesImplyTypeOK == Types => TypeOK
BY DEF Types, TypeOK, CallOK, SlaveOK, FifosOK, HistoryOK

(* They hold at the start. *)
LEMMA InitTypes == ASSUME Init PROVE Types
<1>1. CallOK /\ SlaveOK
  BY DEF Init, CallOK, SlaveOK
<1>2. FifosOK /\ HistoryOK
  <2>1. 0 <= Depth /\ 0 # Depth /\ 0 \in 0 .. MaxPackets
    BY LinkAssumption
  <2>2. rx = << >> /\ tx = << >> /\ tx_seen = 0 /\ sent = 0 /\ taken = {} /\ disturbed = FALSE
    BY DEF Init
  <2>3. FifosOK
    BY <2>1, <2>2 DEF FifosOK
  <2>4. HistoryOK
    BY <2>1, <2>2 DEF HistoryOK
  <2> QED BY <2>3, <2>4
<1>3. PacketsKnown
  BY DEF Init, PacketsKnown
<1> QED BY <1>1, <1>2, <1>3 DEF Types

(* The held packet moves into the RX FIFO or everything stays. *)
Moves == rx_packet_valid /\ Len(rx) < Depth /\ rx' = Append(rx, rx_packet)
Stays == rx' = rx

(* What the slave's hand-over does, given room in the FIFO whenever it says so. *)
LEMMA HandedOver ==
  ASSUME Types, NEW room \in BOOLEAN, room => Len(rx) < Depth, HandOver(room)
  PROVE  \/ Moves /\ room /\ rx_packet_valid' = FALSE
         \/ Stays /\ rx_packet_valid' = rx_packet_valid /\ ~(rx_packet_valid /\ room)
BY DEF HandOver, Moves, Stays

(* The FIFO keeps known packets and its bound. *)
LEMMA FifoAfterMove ==
  ASSUME Types, Moves \/ Stays
  PROVE  /\ rx' \in Seq(Packets \union {Filler}) /\ Len(rx') <= Depth
         /\ \A i \in 1 .. Len(rx') : rx'[i] # Filler => Known(rx'[i])
<1>1. rx \in Seq(Packets \union {Filler}) /\ Len(rx) <= Depth /\ Depth \in Nat
      /\ rx_packet \in Packets \union {Filler}
  BY LinkAssumption DEF Types, FifosOK, SlaveOK
<1>2. CASE Stays
  BY <1>1, <1>2 DEF Stays, Types, PacketsKnown
<1>3. CASE Moves
  <2>1. /\ rx' \in Seq(Packets \union {Filler}) /\ Len(rx') = Len(rx) + 1
        /\ \A i \in 1 .. Len(rx) : rx'[i] = rx[i]
        /\ rx'[Len(rx) + 1] = rx_packet
    BY <1>1, <1>3 DEF Moves
  <2>2. \A i \in 1 .. Len(rx') : i \in 1 .. Len(rx) \/ i = Len(rx) + 1
    BY <1>1, <2>1
  <2>3. \A i \in 1 .. Len(rx') : rx'[i] # Filler => Known(rx'[i])
    BY <2>1, <2>2 DEF Types, PacketsKnown
  <2>4. Len(rx') <= Depth
    BY <1>1, <1>3, <2>1 DEF Moves
  <2> QED BY <2>1, <2>3, <2>4
<1> QED BY <1>2, <1>3

(* What is full is known to be full, so that a ready slave has room. *)
LEMMA RoomIfNotFull == ASSUME Types PROVE ~rx_full => Len(rx) < Depth
BY LinkAssumption DEF Types, FifosOK

(* The submissions: the packet is newer than everything known. *)
LEMMA SubmitTypes == ASSUME Types, SubmitEvent \/ SubmitRequest PROVE Types'
<1>1. /\ op = None /\ frame = None /\ frame' = frame /\ sent' = sent + 1 /\ sent \in Nat
      /\ sent' \in 1 .. MaxPackets /\ sent' \in 0 .. MaxPackets /\ taken \subseteq 1 .. sent
      /\ UNCHANGED <<slave, rx, tx, taken>> /\ disturbed' \in BOOLEAN
  <2>1. op = None /\ frame' = frame /\ sent' = sent + 1 /\ sent < MaxPackets
        /\ UNCHANGED <<slave, rx, tx, taken>>
    BY DEF SubmitEvent, SubmitRequest
  <2>2. disturbed' \in BOOLEAN
    <3>1. disturbed \in BOOLEAN
      BY DEF Types, HistoryOK
    <3> QED BY <3>1 DEF SubmitEvent, SubmitRequest
  <2> QED BY <2>1, <2>2, LinkAssumption DEF Types, CallOK, HistoryOK
<1>2. PICK v \in Statuses \union {None}, x \in BOOLEAN, e \in Statuses \union {None} :
        op' = [packet |-> [id |-> sent', verdict |-> v], exchange |-> x, expected |-> e,
               step |-> "request"]
  BY DEF SubmitEvent, SubmitRequest, Statuses
<1>3. [id |-> sent', verdict |-> v] \in Packets
  BY <1>1, <1>2 DEF Packets
<1>4. CallOK'
  BY <1>1, <1>2, <1>3 DEF CallOK, Calls
<1>5. SlaveOK' /\ FifosOK'
  BY <1>1 DEF Types, SlaveOK, FifosOK, slave
<1>6. HistoryOK'
  BY <1>1 DEF HistoryOK
<1>7. PacketsKnown'
  <2>1. ASSUME NEW p \in Packets, p.id <= sent PROVE Known(p)'
    <3>1. p.id \in Nat
      BY LinkAssumption DEF Packets
    <3> QED BY <1>1, <2>1, <3>1 DEF Known
  <2>2. \A i \in 1 .. Len(rx) : rx[i] # Filler => rx[i] \in Packets /\ rx[i].id <= sent
    BY DEF Types, FifosOK, PacketsKnown, Known
  <2>3. rx_packet # Filler => rx_packet \in Packets /\ rx_packet.id <= sent
    BY DEF Types, SlaveOK, PacketsKnown, Known
  <2>4. sent' \notin taken'
    BY <1>1
  <2> QED BY <1>1, <2>1, <2>2, <2>3, <2>4 DEF PacketsKnown, slave
<1> QED BY <1>4, <1>5, <1>6, <1>7 DEF Types

(* A frame begins: an answer the slave knows of is shifted out. *)
LEMMA StartTypes == ASSUME Types, FrameStart PROVE Types'
<1> DEFINE pop == phase = "RESPONSE_READY" /\ tx_seen > 0
<1>1. /\ op # None /\ frame = None /\ HandOver(~rx_full) /\ rx_full' = (rx_full \/ Len(rx') = Depth)
      /\ UNCHANGED <<host, phase, rx_packet, taken, disturbed>>
      /\ frame' = [packet |-> IF op.step = "request" THEN op.packet ELSE Filler,
                   at |-> "start", miso |-> IF pop THEN Head(tx) ELSE None]
      /\ tx' = (IF pop THEN Tail(tx) ELSE tx) /\ tx_seen' = (IF pop THEN tx_seen - 1 ELSE tx_seen)
  BY DEF FrameStart
<1>2. /\ tx \in Seq(Answers) /\ tx_seen \in Nat /\ tx_seen <= Len(tx) /\ Len(tx) <= Depth
      /\ Len(tx) \in Nat /\ Depth \in Nat /\ rx_full \in BOOLEAN
  BY LinkAssumption DEF Types, FifosOK, SlaveOK
<1>3. (Moves /\ rx_packet_valid' = FALSE) \/ (Stays /\ rx_packet_valid' = rx_packet_valid)
  BY <1>1, <1>2, HandedOver, RoomIfNotFull
<1>4. pop => Head(tx) \in Answers /\ Tail(tx) \in Seq(Answers) /\ Len(Tail(tx)) = Len(tx) - 1
  BY <1>2
<1>5. CallOK'
  <2>1. op' = op /\ sent' = sent
    BY <1>1 DEF host
  <2>2. op.packet \in Packets
    BY <1>1 DEF Types, CallOK, Calls
  <2>3. frame' \in Frames
    BY <1>1, <1>4, <2>2 DEF Frames
  <2>4. frame'.packet = IF op.step = "request" THEN op.packet ELSE Filler
    BY <1>1
  <2> QED BY <1>1, <2>1, <2>3, <2>4 DEF Types, CallOK
<1>6. SlaveOK'
  <2>1. rx_packet_valid' \in BOOLEAN
    BY <1>3 DEF Types, SlaveOK
  <2>2. rx_full' \in BOOLEAN
    BY <1>1, <1>2
  <2> QED BY <1>1, <2>1, <2>2 DEF Types, SlaveOK
<1>7. FifosOK'
  <2>1. tx' \in Seq(Answers) /\ tx_seen' \in Nat /\ tx_seen' <= Len(tx') /\ Len(tx') <= Depth
    BY <1>1, <1>2, <1>4
  <2>2. rx' \in Seq(Packets \union {Filler}) /\ Len(rx') <= Depth /\ (Len(rx') = Depth => rx_full')
    BY <1>1, <1>3, FifoAfterMove
  <2> QED BY <2>1, <2>2 DEF FifosOK
<1>8. HistoryOK' /\ PacketsKnown'
  BY <1>1, <1>3, FifoAfterMove DEF Types, HistoryOK, PacketsKnown, Known, host
<1> QED BY <1>5, <1>6, <1>7, <1>8 DEF Types

(* The edges between. *)
LEMMA BodyTypes == ASSUME Types, FrameBody PROVE Types'
<1>1. /\ frame # None /\ frame' = [frame EXCEPT !.at = "body"] /\ tx_seen' = Len(tx)
      /\ HandOver(Len(rx) < Depth) /\ rx_full' = (Len(rx') = Depth)
      /\ UNCHANGED <<host, phase, rx_packet, tx, taken>>
  BY DEF FrameBody
<1>2. /\ tx \in Seq(Answers) /\ Len(tx) \in Nat /\ Len(tx) <= Depth
  BY DEF Types, FifosOK
<1>3. (Moves /\ rx_packet_valid' = FALSE) \/ (Stays /\ rx_packet_valid' = rx_packet_valid)
  <2> DEFINE room == Len(rx) < Depth
  <2>1. room \in BOOLEAN /\ (room => Len(rx) < Depth) /\ HandOver(room)
    BY <1>1
  <2> HIDE DEF room
  <2> QED BY <2>1, HandedOver
<1>4. CallOK'
  BY <1>1 DEF Types, CallOK, host, Frames
<1>5. SlaveOK'
  <2>1. rx_packet_valid' \in BOOLEAN
    BY <1>3 DEF Types, SlaveOK
  <2>2. rx_full' \in BOOLEAN
    BY <1>1
  <2> QED BY <1>1, <2>1, <2>2 DEF Types, SlaveOK
<1>6. FifosOK'
  <2>1. rx' \in Seq(Packets \union {Filler}) /\ Len(rx') <= Depth /\ (Len(rx') = Depth => rx_full')
    BY <1>1, <1>3, FifoAfterMove
  <2> QED BY <1>1, <1>2, <2>1 DEF FifosOK
<1>7. HistoryOK' /\ PacketsKnown'
  <2>1. disturbed' \in BOOLEAN
    <3>1. disturbed \in BOOLEAN
      BY DEF Types, HistoryOK
    <3> QED BY <3>1 DEF FrameBody
  <2> QED BY <1>1, <1>3, <2>1, FifoAfterMove DEF Types, HistoryOK, PacketsKnown, Known, host
<1> QED BY <1>4, <1>5, <1>6, <1>7 DEF Types

(* A frame ends: what it carried is held, what was held moves up. *)
LEMMA EndTypes == ASSUME Types, FrameEnd PROVE Types'
<1>1. PICK ok \in BOOLEAN :
        /\ disturbed' = (disturbed \/ ~ok \/ (rx_packet_valid /\ rx_full))
        /\ IF ~ok \/ op.step = "response" \/ ~op.exchange
           THEN op' = None
           ELSE op' = [op EXCEPT !.step = IF @ = "request" THEN "turnaround" ELSE "response"]
  BY DEF FrameEnd
<1>2. /\ frame # None /\ frame' = None /\ rx_packet' = frame.packet /\ rx_packet_valid' = TRUE
      /\ rx' = (IF rx_packet_valid /\ ~rx_full THEN Append(rx, rx_packet) ELSE rx)
      /\ rx_full' = (rx_full \/ Len(rx') = Depth) /\ phase' = NextPhase(frame.packet)
      /\ UNCHANGED <<sent, tx_seen, tx, taken>>
  BY DEF FrameEnd
<1>3. /\ op # None /\ op.packet \in Packets /\ op.packet.id = sent /\ op.exchange \in BOOLEAN
      /\ frame.packet = (IF op.step = "request" THEN op.packet ELSE Filler)
      /\ op \in Calls
      /\ op.step # "request" => op.exchange
  BY <1>2 DEF Types, CallOK, Calls, Frames
<1>4. Moves \/ Stays
  BY <1>2, RoomIfNotFull DEF Moves, Stays
<1>5. /\ op' # None => /\ op' \in Calls
                       /\ op'.packet = op.packet /\ op'.step # "request" /\ op'.exchange
  <2>1. CASE op' = None
    BY <2>1
  <2>2. CASE op.exchange /\ op' = [op EXCEPT !.step =
                                     IF @ = "request" THEN "turnaround" ELSE "response"]
    BY <1>3, <2>2 DEF Calls
  <2> QED BY <1>1, <1>3, <2>1, <2>2
<1>6. CallOK'
  BY <1>2, <1>3, <1>5 DEF CallOK
<1>7. SlaveOK'
  <2>1. phase' \in {"WAIT_REQUEST", "WAIT_TURNAROUND", "RESPONSE_READY"}
    BY <1>2 DEF Types, SlaveOK, NextPhase
  <2>2. rx_full' \in BOOLEAN
    <3>1. rx_full \in BOOLEAN
      BY DEF Types, SlaveOK
    <3> QED BY <1>2, <3>1
  <2>3. rx_packet' \in Packets \union {Filler}
    BY <1>2, <1>3
  <2> QED BY <1>2, <2>1, <2>2, <2>3 DEF SlaveOK
<1>8. FifosOK'
  <2>1. rx' \in Seq(Packets \union {Filler}) /\ Len(rx') <= Depth /\ (Len(rx') = Depth => rx_full')
    BY <1>2, <1>4, FifoAfterMove
  <2> QED BY <1>2, <2>1 DEF Types, FifosOK
<1>9. HistoryOK'
  <2>1. disturbed' \in BOOLEAN
    <3>1. disturbed \in BOOLEAN
      BY DEF Types, HistoryOK
    <3> QED BY <1>1, <3>1
  <2> QED BY <1>2, <2>1 DEF Types, HistoryOK
<1>10. PacketsKnown'
  <2>1. ASSUME NEW p, Known(p) PROVE Known(p)'
    BY <1>2, <1>3, <1>5, <2>1 DEF Known
  <2>2. \A i \in 1 .. Len(rx') : rx'[i] # Filler => Known(rx'[i])
    BY <1>4, FifoAfterMove
  <2>3. (rx_packet # Filler => Known(rx_packet))'
    <3>1. PICK q : q = op.packet
      OBVIOUS
    <3>2. sent \in Nat
      BY DEF Types, HistoryOK
    <3>3. Known(q)'
      BY <1>2, <1>3, <1>5, <3>1, <3>2 DEF Known
    <3>4. rx_packet' = Filler \/ rx_packet' = q
      BY <1>2, <1>3, <3>1
    <3> QED BY <3>3, <3>4
  <2> QED BY <1>5, <2>1, <2>2, <2>3 DEF PacketsKnown
<1> QED BY <1>6, <1>7, <1>8, <1>9, <1>10 DEF Types

(* A transfer fails: the call is over, the slave keeps what it had. *)
LEMMA FailTypes == ASSUME Types, TransferFails PROVE Types'
<1>1. /\ op' = None /\ frame' = None /\ disturbed' = TRUE /\ UNCHANGED <<sent, slave, rx, tx, taken>>
  BY DEF TransferFails
<1> QED BY <1>1 DEF Types, CallOK, SlaveOK, FifosOK, HistoryOK, PacketsKnown, Known, slave

(* The fabric takes the oldest packet. *)
LEMMA FabricTypes == ASSUME Types, FabricStep PROVE Types'
<1>1. /\ rx # << >> /\ rx' = Tail(rx) /\ UNCHANGED <<host, frame, slave, disturbed>>
      /\ taken' = (IF Head(rx) = Filler THEN taken ELSE taken \union {Head(rx).id})
  BY DEF FabricStep
<1>2. /\ rx \in Seq(Packets \union {Filler}) /\ Len(rx) <= Depth /\ Depth \in Nat
      /\ tx \in Seq(Answers) /\ tx_seen \in Nat /\ tx_seen <= Len(tx) /\ Len(tx) <= Depth
  BY LinkAssumption DEF Types, FifosOK
<1>3. /\ Tail(rx) \in Seq(Packets \union {Filler}) /\ Len(Tail(rx)) = Len(rx) - 1
      /\ \A i \in 1 .. Len(Tail(rx)) : i + 1 \in 1 .. Len(rx) /\ Tail(rx)[i] = rx[i + 1]
      /\ Head(rx) = rx[1] /\ 1 \in 1 .. Len(rx) /\ Head(rx) \in Packets \union {Filler}
      /\ Len(rx) \in Nat
  BY <1>1, <1>2
<1>4. tx' \in Seq(Answers) /\ tx_seen <= Len(tx') /\ Len(tx') <= Depth
  <2>1. CASE tx' = tx
    BY <1>2, <2>1
  <2>2. CASE /\ ~(Head(rx) = Filler \/ Head(rx).verdict = None) /\ Len(tx) < Depth
             /\ tx' = Append(tx, [id |-> Head(rx).id, status |-> Head(rx).verdict])
    <3>1. [id |-> Head(rx).id, status |-> Head(rx).verdict] \in Answers
      BY <1>3, <2>2 DEF Packets, Answers
    <3> QED BY <1>2, <2>2, <3>1
  <2> QED BY <2>1, <2>2 DEF FabricStep
<1>5. CallOK' /\ SlaveOK'
  BY <1>1 DEF Types, CallOK, SlaveOK, host, slave
<1>6. FifosOK'
  <2>1. Len(rx') < Depth
    BY <1>1, <1>2, <1>3
  <2>2. tx_seen' = tx_seen
    BY <1>1 DEF slave
  <2>3. rx' \in Seq(Packets \union {Filler}) /\ Len(rx') <= Depth /\ Len(rx') # Depth
    <3>1. Len(rx') \in Nat /\ rx' \in Seq(Packets \union {Filler})
      BY <1>1, <1>3
    <3> QED BY <1>2, <2>1, <3>1
  <2> QED BY <1>2, <1>4, <2>2, <2>3 DEF FifosOK
<1>7. Head(rx) # Filler => Known(Head(rx)) /\ Head(rx).id \in Nat \ {0}
  BY <1>3, LinkAssumption DEF Types, PacketsKnown, Packets
<1>8. HistoryOK'
  <2>1. taken \subseteq 1 .. sent /\ sent \in Nat /\ sent' = sent
    BY <1>1 DEF Types, HistoryOK, host
  <2>2. Head(rx) # Filler => Head(rx).id \in 1 .. sent
    BY <1>7, <2>1 DEF Known
  <2>3. taken' \subseteq 1 .. sent'
    BY <1>1, <2>1, <2>2
  <2> QED BY <1>1, <2>3 DEF Types, HistoryOK, host
<1>9. PacketsKnown'
  BY <1>1, <1>3, <1>7 DEF Types, PacketsKnown, Known, host, slave
<1> QED BY <1>5, <1>6, <1>8, <1>9 DEF Types

(* Every step keeps the types. *)
LEMMA NextTypes == ASSUME Types, [Next]_vars PROVE Types'
<1>1. CASE UNCHANGED vars
  BY <1>1 DEF vars, host, slave, Types, CallOK, SlaveOK, FifosOK, HistoryOK, PacketsKnown, Known
<1> QED BY <1>1, SubmitTypes, StartTypes, BodyTypes, EndTypes, FailTypes, FabricTypes DEF Next

(* Types; the SPI domain never believes in an answer that is not there, nor   *)
(* in room that is not there (spi_slave.sv, the flags of async_packet_fifo).  *)
THEOREM TypeCorrect == Spec => []TypeOK
<1>1. Init => Types
  BY InitTypes
<1>2. Types /\ [Next]_vars => Types'
  BY NextTypes
<1> QED BY <1>1, <1>2, TypesImplyTypeOK, PTL DEF Spec

----------------------------------------------------------------------------
(* An answer is of a packet the fabric took, and of the call's own packet it *)
(* says what that deserves.                                                  *)
Truthful(a) == a.id \in taken /\ (op # None /\ a.id = sent => a.status = op.packet.verdict)
AnswersTruthful ==
  /\ \A i \in 1 .. Len(tx) : Truthful(tx[i])
  /\ frame # None /\ frame.miso # None => Truthful(frame.miso)

(* Every step keeps the answers truthful. *)
LEMMA NextAnswers == ASSUME Types, AnswersTruthful, [Next]_vars PROVE AnswersTruthful'
<1>0. tx \in Seq(Answers) /\ rx \in Seq(Packets \union {Filler}) /\ Len(tx) \in Nat
      /\ sent \in Nat /\ taken \subseteq 1 .. sent
  BY DEF Types, FifosOK, HistoryOK
<1>1. CASE SubmitEvent \/ SubmitRequest
  <2>1. sent' = sent + 1 /\ UNCHANGED <<frame, tx, taken>> /\ frame = None
    BY <1>1 DEF SubmitEvent, SubmitRequest, Types, CallOK
  <2>2. ASSUME NEW a, a.id \in taken PROVE a.id # sent'
    BY <1>0, <2>1, <2>2
  <2> QED BY <2>1, <2>2 DEF AnswersTruthful, Truthful
<1>2. CASE FrameStart
  <2>1. op' = op /\ sent' = sent /\ taken' = taken
    BY <1>2 DEF FrameStart, host
  <2>2. CASE tx' = tx /\ frame'.miso = None
    BY <2>1, <2>2 DEF AnswersTruthful, Truthful
  <2>3. CASE tx # << >> /\ tx' = Tail(tx) /\ frame'.miso = Head(tx)
    <3>1. /\ Head(tx) = tx[1] /\ 1 \in 1 .. Len(tx)
          /\ \A i \in 1 .. Len(Tail(tx)) : i + 1 \in 1 .. Len(tx) /\ Tail(tx)[i] = tx[i + 1]
      BY <1>0, <2>3
    <3> QED BY <2>1, <2>3, <3>1 DEF AnswersTruthful, Truthful
  <2>4. tx_seen > 0 => tx # << >>
    BY <1>0 DEF Types, FifosOK
  <2> QED BY <1>2, <2>2, <2>3, <2>4 DEF FrameStart
<1>3. CASE FrameBody
  BY <1>3 DEF FrameBody, host, AnswersTruthful, Truthful, Types, CallOK
<1>4. CASE FrameEnd \/ TransferFails
  <2>1. frame' = None /\ sent' = sent /\ tx' = tx /\ taken' = taken
    BY <1>4 DEF FrameEnd, TransferFails
  <2>2. op' # None => op # None /\ op'.packet = op.packet
    BY <1>4 DEF FrameEnd, TransferFails, Types, CallOK, Calls
  <2> QED BY <2>1, <2>2 DEF AnswersTruthful, Truthful
<1>5. CASE FabricStep
  <2>1. /\ op' = op /\ sent' = sent /\ frame' = frame /\ taken \subseteq taken'
        /\ Head(rx) # Filler => Head(rx).id \in taken' /\ Known(Head(rx))
    <3>1. rx # << >> => Head(rx) = rx[1] /\ 1 \in 1 .. Len(rx)
      BY <1>0
    <3> QED BY <1>5, <3>1 DEF FabricStep, host, Types, PacketsKnown
  <2>2. ASSUME NEW a, Truthful(a) PROVE Truthful(a)'
    BY <2>1, <2>2 DEF Truthful
  <2>3. CASE tx' = tx
    BY <2>1, <2>2, <2>3 DEF AnswersTruthful
  <2>4. CASE /\ Head(rx) # Filler
             /\ tx' = Append(tx, [id |-> Head(rx).id, status |-> Head(rx).verdict])
    <3>1. PICK a : a = [id |-> Head(rx).id, status |-> Head(rx).verdict]
      OBVIOUS
    <3>2. Truthful(a)'
      BY <2>1, <2>4, <3>1 DEF Truthful, Known
    <3>3. \A i \in 1 .. Len(tx') : (i \in 1 .. Len(tx) /\ tx'[i] = tx[i]) \/ tx'[i] = a
      BY <1>0, <2>4, <3>1
    <3> QED BY <2>1, <2>2, <3>2, <3>3 DEF AnswersTruthful
  <2> QED BY <1>5, <2>3, <2>4 DEF FabricStep
<1>6. CASE UNCHANGED vars
  BY <1>6 DEF vars, host, slave, AnswersTruthful, Truthful
<1> QED BY <1>1, <1>2, <1>3, <1>4, <1>5, <1>6 DEF Next

(* If no two packets have the same sequence number, an exchange that reports  *)
(* success tells the truth: the fabric took this very request and the status  *)
(* expected is the one it deserves, whatever failed before (exchange in       *)
(* spi_transport.cpp checks sequence and status of the third transfer).       *)
THEOREM SuccessIsTrue ==
  ASSUME \A a, b \in 1 .. MaxPackets : SequenceOf(a) = SequenceOf(b) => a = b
  PROVE  Spec => []AckIsTruthful
<1> DEFINE IInv == Types /\ AnswersTruthful /\ AckIsTruthful
<1>1. Init => IInv
  <2> SUFFICES ASSUME Init PROVE AnswersTruthful /\ AckIsTruthful
    BY InitTypes
  <2>1. tx = << >> /\ frame = None /\ outcome = None
    BY DEF Init
  <2> QED BY <2>1 DEF AnswersTruthful, AckIsTruthful
<1>2. IInv /\ [Next]_vars => IInv'
  <2> SUFFICES ASSUME IInv, [Next]_vars PROVE AckIsTruthful'
    BY NextTypes, NextAnswers
  <2>1. CASE FrameEnd
    <3>1. CASE outcome' = outcome
      BY <3>1 DEF AckIsTruthful
    <3>2. CASE \E ok \in BOOLEAN : Report(ok /\ Accepts(frame.miso))
      <4>1. PICK ok \in BOOLEAN : Report(ok /\ Accepts(frame.miso))
        BY <3>2
      <4>2. CASE ok /\ Accepts(frame.miso)
        <5>1. /\ frame.miso # None /\ SequenceOf(frame.miso.id) = SequenceOf(op.packet.id)
              /\ frame.miso.status = op.expected
          BY <4>2 DEF Accepts
        <5>2. frame # None /\ op # None
          BY <2>1 DEF FrameEnd, Types, CallOK
        <5>3. frame.miso.id \in 1 .. MaxPackets /\ op.packet.id \in 1 .. MaxPackets
              /\ op.packet.id = sent
          BY <5>1, <5>2 DEF Types, CallOK, Answers, Packets, Calls, Frames
        <5>4. frame.miso.id = sent
          BY <5>1, <5>3
        <5>5. sent \in taken /\ op.packet.verdict = op.expected
          BY <5>1, <5>2, <5>4 DEF AnswersTruthful, Truthful
        <5> QED BY <4>1, <5>3, <5>5 DEF Report, AckIsTruthful
      <4>3. CASE ~(ok /\ Accepts(frame.miso))
        BY <4>1, <4>3 DEF Report, AckIsTruthful
      <4> QED BY <4>2, <4>3
    <3> QED BY <2>1, <3>1, <3>2 DEF FrameEnd
  <2>2. CASE TransferFails
    BY <2>2 DEF TransferFails, Report, AckIsTruthful
  <2>3. CASE outcome' = outcome \/ outcome' = None
    BY <2>3 DEF AckIsTruthful
  <2> QED BY <2>1, <2>2, <2>3 DEF Next, SubmitEvent, SubmitRequest, FrameStart, FrameBody,
                                  FabricStep, vars, host
<1>3. IInv => AckIsTruthful
  OBVIOUS
<1> QED BY <1>1, <1>2, <1>3, PTL DEF Spec

----------------------------------------------------------------------------
(* What is under way are known packets. *)
LEMMA UnderWayKnown ==
  ASSUME Types
  PROVE  /\ UnderWay \in Seq(Packets \union {Filler}) /\ Len(UnderWay) \in Nat
         /\ \A i \in 1 .. Len(UnderWay) : UnderWay[i] # Filler =>
              Known(UnderWay[i]) /\ UnderWay[i].id \in Nat
<1>1. rx \in Seq(Packets \union {Filler}) /\ rx_packet \in Packets \union {Filler}
  BY DEF Types, FifosOK, SlaveOK
<1>2. /\ UnderWay \in Seq(Packets \union {Filler}) /\ Len(UnderWay) \in Nat
      /\ \A i \in 1 .. Len(UnderWay) :
           (i \in 1 .. Len(rx) /\ UnderWay[i] = rx[i]) \/ UnderWay[i] = rx_packet
  BY <1>1 DEF UnderWay
<1>3. \A i \in 1 .. Len(UnderWay) : UnderWay[i] # Filler => Known(UnderWay[i])
  BY <1>2 DEF Types, PacketsKnown
<1>4. \A i \in 1 .. Len(UnderWay) : UnderWay[i] # Filler => UnderWay[i].id \in Nat
  <2>1. \A i \in 1 .. Len(UnderWay) : UnderWay[i] \in Packets \union {Filler}
    BY <1>2
  <2> QED BY <2>1, LinkAssumption DEF Packets
<1> QED BY <1>2, <1>3, <1>4

(* What was under way, or all but the last of it, is followed by the frame. *)
LEMMA FrameFollows ==
  ASSUME Types, OnceInOrder, FrameEnd
  PROVE  OnceInOrder'
<1>1. /\ rx \in Seq(Packets \union {Filler}) /\ rx_packet \in Packets \union {Filler}
      /\ rx' = (IF rx_packet_valid /\ ~rx_full THEN Append(rx, rx_packet) ELSE rx)
      /\ rx_packet' = frame.packet /\ rx_packet_valid' = TRUE /\ taken' = taken
      /\ frame.packet \in Packets \union {Filler} /\ Len(rx) \in Nat
  BY DEF FrameEnd, Types, FifosOK, SlaveOK, CallOK, Frames
<1>2. PICK n \in 0 .. Len(UnderWay) :
        /\ Len(UnderWay') = n + 1 /\ UnderWay'[n + 1] = frame.packet
        /\ \A i \in 1 .. n : UnderWay'[i] = UnderWay[i]
  <2>1. UnderWay' = Append(rx', frame.packet)
    BY <1>1 DEF UnderWay
  <2>2. CASE rx_packet_valid /\ rx_full
    <3>1. /\ UnderWay' = Append(rx, frame.packet) /\ UnderWay = Append(rx, rx_packet)
          /\ Len(rx) \in 0 .. Len(UnderWay)
      BY <1>1, <2>1, <2>2 DEF UnderWay
    <3> QED BY <1>1, <3>1
  <2>3. CASE ~(rx_packet_valid /\ rx_full)
    <3>1. /\ UnderWay' = Append(UnderWay, frame.packet)
          /\ UnderWay \in Seq(Packets \union {Filler}) /\ Len(UnderWay) \in Nat
      BY <1>1, <2>1, <2>3 DEF UnderWay
    <3>2. Len(UnderWay) \in 0 .. Len(UnderWay)
      BY <3>1
    <3> QED BY <1>1, <3>1, <3>2
  <2> QED BY <2>2, <2>3
<1>3. n \in Nat /\ n <= Len(UnderWay) /\ Len(UnderWay) \in Nat
  BY UnderWayKnown
<1>4. ASSUME frame.packet # Filler
      PROVE  /\ frame.packet.id = sent
             /\ \A j \in 1 .. n : UnderWay[j] # Filler => UnderWay[j].id < sent
             /\ \A t \in taken : t < sent
  <2>1. op # None /\ op.step = "request" /\ frame.packet = op.packet /\ op.packet.id = sent
    BY <1>4 DEF FrameEnd, Types, CallOK
  <2>2. sent \in Nat /\ taken \subseteq 1 .. sent /\ sent \notin taken
    BY <2>1 DEF Types, HistoryOK, PacketsKnown
  <2>3. \A j \in 1 .. n : UnderWay[j] # Filler => UnderWay[j].id < sent
    BY <1>3, <2>1, <2>2, UnderWayKnown DEF Known
  <2> QED BY <2>1, <2>2, <2>3
<1>5. ASSUME NEW i \in 1 .. Len(UnderWay'), UnderWay'[i] # Filler
      PROVE  /\ \A j \in 1 .. i - 1 : UnderWay'[j] # Filler => UnderWay'[j].id < UnderWay'[i].id
             /\ \A t \in taken : t < UnderWay'[i].id
  <2>1. CASE i = n + 1
    <3>1. UnderWay'[i] = frame.packet /\ frame.packet # Filler /\ i - 1 = n
      BY <1>2, <1>3, <1>5, <2>1
    <3>2. \A j \in 1 .. n : UnderWay'[j] # Filler => UnderWay'[j].id < sent
      BY <1>2, <1>4, <3>1
    <3> QED BY <1>4, <3>1, <3>2
  <2>2. CASE i \in 1 .. n
    <3>1. i \in 1 .. Len(UnderWay) /\ \A j \in 1 .. i - 1 : j \in 1 .. n
      BY <1>3, <2>2
    <3> QED BY <1>2, <1>5, <2>2, <3>1 DEF OnceInOrder
  <2> QED BY <1>2, <1>3, <2>1, <2>2
<1> QED BY <1>1, <1>5 DEF OnceInOrder

(* Taking the oldest packet leaves newer ones. *)
LEMMA TakenInOrder == ASSUME Types, OnceInOrder, FabricStep PROVE OnceInOrder'
<1>1. /\ rx # << >> /\ rx' = Tail(rx) /\ rx_packet' = rx_packet
      /\ rx_packet_valid' = rx_packet_valid
      /\ rx \in Seq(Packets \union {Filler}) /\ rx_packet \in Packets \union {Filler}
      /\ taken' = (IF Head(rx) = Filler THEN taken ELSE taken \union {Head(rx).id})
  BY DEF FabricStep, slave, Types, FifosOK, SlaveOK
<1>2. /\ Len(UnderWay') = Len(UnderWay) - 1 /\ Len(UnderWay) \in Nat \ {0}
      /\ \A i \in 1 .. Len(UnderWay') : UnderWay'[i] = UnderWay[i + 1]
      /\ UnderWay[1] = Head(rx)
  <2>1. CASE rx_packet_valid
    <3>1. UnderWay = Append(rx, rx_packet) /\ UnderWay' = Append(Tail(rx), rx_packet)
      BY <1>1, <2>1 DEF UnderWay
    <3>2. /\ Len(Tail(rx)) = Len(rx) - 1 /\ Len(rx) \in Nat \ {0} /\ Head(rx) = rx[1]
          /\ \A i \in 1 .. Len(rx) - 1 : Tail(rx)[i] = rx[i + 1]
          /\ Tail(rx) \in Seq(Packets \union {Filler})
      BY <1>1
    <3>3. /\ Len(UnderWay) = Len(rx) + 1 /\ UnderWay[Len(rx) + 1] = rx_packet
          /\ \A i \in 1 .. Len(rx) : UnderWay[i] = rx[i]
      BY <1>1, <3>1, <3>2
    <3>4. /\ Len(UnderWay') = Len(rx) /\ UnderWay'[Len(rx)] = rx_packet
          /\ \A i \in 1 .. Len(rx) - 1 : UnderWay'[i] = rx[i + 1]
      BY <1>1, <3>1, <3>2
    <3> QED BY <3>2, <3>3, <3>4
  <2>2. CASE ~rx_packet_valid
    <3>1. UnderWay = rx /\ UnderWay' = Tail(rx)
      BY <1>1, <2>2 DEF UnderWay
    <3> QED BY <1>1, <3>1
  <2> QED BY <2>1, <2>2
<1>3. ASSUME NEW i \in 1 .. Len(UnderWay'), UnderWay'[i] # Filler
      PROVE  /\ \A j \in 1 .. i - 1 : UnderWay'[j] # Filler => UnderWay'[j].id < UnderWay'[i].id
             /\ \A t \in taken' : t < UnderWay'[i].id
  <2>1. i + 1 \in 1 .. Len(UnderWay) /\ 1 \in 1 .. i /\ UnderWay'[i] = UnderWay[i + 1]
    BY <1>2
  <2>2. /\ \A j \in 1 .. i : UnderWay[j] # Filler => UnderWay[j].id < UnderWay[i + 1].id
        /\ \A t \in taken : t < UnderWay[i + 1].id
    BY <1>3, <2>1 DEF OnceInOrder
  <2>3. \A j \in 1 .. i - 1 : j + 1 \in 1 .. i /\ UnderWay'[j] = UnderWay[j + 1]
    BY <1>2
  <2> QED BY <1>1, <1>2, <2>1, <2>2, <2>3
<1> QED BY <1>3 DEF OnceInOrder

(* Moving the held packet into the FIFO does not change what is under way. *)
LEMMA SameUnderWay ==
  ASSUME Types, \/ Moves /\ rx_packet_valid' = FALSE
                \/ Stays /\ rx_packet_valid' = rx_packet_valid,
         rx_packet' = rx_packet, taken' = taken
  PROVE  UnderWay' = UnderWay
<1>1. CASE Moves /\ rx_packet_valid' = FALSE
  BY <1>1 DEF Moves, UnderWay
<1>2. CASE Stays /\ rx_packet_valid' = rx_packet_valid
  <2>1. rx' = rx /\ rx_packet' = rx_packet
    BY <1>2 DEF Stays
  <2> QED BY <1>2, <2>1 DEF UnderWay
<1> QED BY <1>1, <1>2

(* No packet reaches the fabric twice or out of order, for every depth,       *)
(* however frames are cut short or overwritten (spi_slave.sv holds a frame    *)
(* until the clock edges of a later one hand it over).                        *)
THEOREM PacketsOnceInOrder == Spec => []OnceInOrder
<1>1. Init => OnceInOrder
  BY DEF Init, UnderWay, OnceInOrder
<1>2. Types /\ OnceInOrder /\ [Next]_vars => OnceInOrder'
  <2> SUFFICES ASSUME Types, OnceInOrder, [Next]_vars PROVE OnceInOrder'
    OBVIOUS
  <2>1. CASE FrameStart \/ FrameBody
    <3>1. rx_packet' = rx_packet /\ taken' = taken
      BY <2>1 DEF FrameStart, FrameBody
    <3>2. PICK room \in BOOLEAN : HandOver(room) /\ (room => Len(rx) < Depth)
      <4> DEFINE before == ~rx_full
      <4> DEFINE between == Len(rx) < Depth
      <4>1. before \in BOOLEAN /\ between \in BOOLEAN /\ (between => Len(rx) < Depth)
        OBVIOUS
      <4>2. before => Len(rx) < Depth
        BY RoomIfNotFull
      <4>3. HandOver(before) \/ HandOver(between)
        BY <2>1 DEF FrameStart, FrameBody
      <4> HIDE DEF before, between
      <4> QED BY <4>1, <4>2, <4>3
    <3>3. UnderWay' = UnderWay
      BY <3>1, <3>2, HandedOver, SameUnderWay
    <3> QED BY <3>1, <3>3 DEF OnceInOrder
  <2>2. CASE FrameEnd
    BY <2>2, FrameFollows
  <2>3. CASE FabricStep
    BY <2>3, TakenInOrder
  <2>4. CASE SubmitEvent \/ SubmitRequest \/ TransferFails \/ UNCHANGED vars
    <3>1. /\ rx' = rx /\ rx_packet' = rx_packet /\ rx_packet_valid' = rx_packet_valid
          /\ taken' = taken
      BY <2>4 DEF SubmitEvent, SubmitRequest, TransferFails, vars, slave
    <3>2. UnderWay' = UnderWay
      BY <3>1 DEF UnderWay
    <3> QED BY <3>1, <3>2 DEF OnceInOrder
  <2> QED BY <2>1, <2>2, <2>3, <2>4 DEF Next
<1> QED BY <1>1, <1>2, InitTypes, NextTypes, PTL DEF Spec

----------------------------------------------------------------------------
(* What holds as long as nothing disturbed the link: where the request of an  *)
(* exchange is at each of its three transfers, that nothing else is answered, *)
(* and which phase the slave is in.                                           *)
Silent(p) == p = Filler \/ p.verdict = None
FifoSilent == \A i \in 1 .. Len(rx) : Silent(rx[i])
HeldSilent == rx_packet_valid => Silent(rx_packet)
NothingOwed == Len(tx) = 0 /\ FifoSilent /\ HeldSilent
AnswerWaits ==
  /\ Len(tx) = 1 /\ tx[1] = [id |-> op.packet.id, status |-> op.packet.verdict]
  /\ FifoSilent /\ HeldSilent
RequestHeld == rx_packet_valid /\ rx_packet = op.packet /\ Len(tx) = 0 /\ FifoSilent
RequestQueued ==
  /\ ~rx_packet_valid /\ Len(tx) = 0 /\ Len(rx) > 0 /\ rx[Len(rx)] = op.packet
  /\ \A i \in 1 .. Len(rx) - 1 : Silent(rx[i])

Idle == op = None => NothingOwed /\ phase # "RESPONSE_READY"
Requesting ==
  op # None /\ op.step = "request" =>
    /\ NothingOwed /\ phase # "RESPONSE_READY"
    /\ op.exchange <=> op.packet.verdict # None
Turning ==
  op # None /\ op.step = "turnaround" =>
    /\ phase = "WAIT_TURNAROUND" /\ op.packet.verdict # None
    /\ RequestHeld \/ RequestQueued \/ (AnswerWaits /\ ~rx_packet_valid)
    /\ frame # None /\ frame.at = "body" => AnswerWaits /\ ~rx_packet_valid /\ tx_seen = 1
Responding ==
  op # None /\ op.step = "response" =>
    /\ phase = "RESPONSE_READY" /\ op.packet.verdict # None
    /\ frame = None => AnswerWaits /\ tx_seen = 1
    /\ frame # None =>
         NothingOwed /\ frame.miso = [id |-> op.packet.id, status |-> op.packet.verdict]
CallProceeds == Idle /\ Requesting /\ Turning /\ Responding

CalmInv == Types /\ (~disturbed => CallProceeds) /\ UndisturbedExchangeSucceeds

(* Silent packets stay silent in the FIFO. *)
LEMMA SilentAfterMove ==
  ASSUME Types, Moves \/ Stays, FifoSilent, HeldSilent
  PROVE  FifoSilent'
<1>1. CASE Stays
  BY <1>1 DEF Stays, FifoSilent, Silent
<1>2. CASE Moves
  <2>1. rx \in Seq(Packets \union {Filler}) /\ rx_packet \in Packets \union {Filler}
        /\ rx' = Append(rx, rx_packet) /\ rx_packet_valid
    BY <1>2 DEF Moves, Types, FifosOK, SlaveOK
  <2>2. \A i \in 1 .. Len(rx') : (i \in 1 .. Len(rx) /\ rx'[i] = rx[i]) \/ rx'[i] = rx_packet
    BY <2>1
  <2> QED BY <2>1, <2>2 DEF FifoSilent, HeldSilent, Silent
<1> QED BY <1>1, <1>2

(* A request that is held stays held or becomes the newest of the FIFO. *)
LEMMA RequestAfterMove ==
  ASSUME Types, RequestHeld \/ RequestQueued, op' = op, tx' = tx, rx_packet' = rx_packet,
         \/ Moves /\ rx_packet_valid' = FALSE
         \/ Stays /\ rx_packet_valid' = rx_packet_valid
  PROVE  RequestHeld' \/ RequestQueued'
<1>1. CASE Stays /\ rx_packet_valid' = rx_packet_valid
  <2>1. rx' = rx
    BY <1>1 DEF Stays
  <2> QED BY <1>1, <2>1 DEF RequestHeld, RequestQueued, FifoSilent, Silent
<1>2. CASE Moves /\ rx_packet_valid' = FALSE
  <2>1. RequestHeld
    BY <1>2 DEF Moves, RequestQueued
  <2>2. rx \in Seq(Packets \union {Filler}) /\ rx_packet \in Packets \union {Filler}
        /\ rx' = Append(rx, rx_packet) /\ Len(rx) \in Nat
    BY <1>2 DEF Moves, Types, FifosOK, SlaveOK
  <2>3. /\ Len(rx') = Len(rx) + 1 /\ rx'[Len(rx')] = rx_packet
        /\ \A i \in 1 .. Len(rx') - 1 : i \in 1 .. Len(rx) /\ rx'[i] = rx[i]
    BY <2>2
  <2>4. \A i \in 1 .. Len(rx') - 1 : Silent(rx'[i])
    BY <2>1, <2>3 DEF RequestHeld, FifoSilent, Silent
  <2>5. Len(rx') > 0
    BY <2>2, <2>3
  <2> QED BY <1>2, <2>1, <2>3, <2>4, <2>5 DEF RequestHeld, RequestQueued, Silent
<1> QED BY <1>1, <1>2

(* A new call starts where nothing is owed. *)
LEMMA SubmitProceeds ==
  ASSUME Types, CallProceeds, SubmitEvent \/ SubmitRequest, ~disturbed'
  PROVE  CallProceeds'
<1>1. op = None /\ UNCHANGED <<frame, slave, rx, tx>> /\ NothingOwed /\ phase # "RESPONSE_READY"
  BY DEF SubmitEvent, SubmitRequest, CallProceeds, Idle
<1>2. NothingOwed' /\ phase' # "RESPONSE_READY"
  <2>1. rx' = rx /\ tx' = tx /\ rx_packet' = rx_packet /\ rx_packet_valid' = rx_packet_valid
        /\ phase' = phase
    BY <1>1 DEF slave
  <2> QED BY <1>1, <2>1 DEF NothingOwed, FifoSilent, HeldSilent, Silent
<1>3. op'.step = "request" /\ (op'.exchange <=> op'.packet.verdict # None)
  <2>1. CASE SubmitEvent
    <3>1. PICK v \in {None, "ERROR"} :
            /\ op' = [packet |-> [id |-> sent', verdict |-> v], exchange |-> FALSE,
                      expected |-> None, step |-> "request"]
            /\ disturbed' = (disturbed \/ v # None)
      BY <2>1 DEF SubmitEvent
    <3>2. v = None
      BY <3>1
    <3> QED BY <3>1, <3>2
  <2>2. CASE SubmitRequest
    <3>1. PICK v \in Statuses, e \in Statuses :
            op' = [packet |-> [id |-> sent', verdict |-> v], exchange |-> TRUE,
                   expected |-> e, step |-> "request"]
      BY <2>2 DEF SubmitRequest
    <3>2. v # None
      BY LinkAssumption
    <3> QED BY <3>1, <3>2
  <2> QED BY <2>1, <2>2
<1> QED BY <1>2, <1>3 DEF CallProceeds, Idle, Requesting, Turning, Responding

(* Nothing that is held or queued asks for an answer: so it stays. *)
LEMMA NothingOwedAfterMove ==
  ASSUME Types, NothingOwed, tx' = tx, rx_packet' = rx_packet,
         \/ Moves /\ rx_packet_valid' = FALSE
         \/ Stays /\ rx_packet_valid' = rx_packet_valid
  PROVE  NothingOwed'
<1>1. FifoSilent'
  BY SilentAfterMove DEF NothingOwed
<1>2. HeldSilent'
  BY DEF NothingOwed, HeldSilent, Silent
<1> QED BY <1>1, <1>2 DEF NothingOwed

(* A frame begins; only that of the response takes the answer that waits. *)
LEMMA StartProceeds == ASSUME Types, CallProceeds, FrameStart PROVE CallProceeds'
<1> DEFINE pop == phase = "RESPONSE_READY" /\ tx_seen > 0
<1>1. /\ op # None /\ frame = None /\ op' = op /\ phase' = phase /\ rx_packet' = rx_packet
      /\ HandOver(~rx_full) /\ op \in Calls
      /\ frame' = [packet |-> IF op.step = "request" THEN op.packet ELSE Filler,
                   at |-> "start", miso |-> IF pop THEN Head(tx) ELSE None]
      /\ tx' = (IF pop THEN Tail(tx) ELSE tx) /\ tx_seen' = (IF pop THEN tx_seen - 1 ELSE tx_seen)
  BY DEF FrameStart, host, Types, CallOK
<1>2. (Moves /\ rx_packet_valid' = FALSE) \/ (Stays /\ rx_packet_valid' = rx_packet_valid)
  <2>1. rx_full \in BOOLEAN
    BY DEF Types, SlaveOK
  <2> QED BY <1>1, <2>1, HandedOver, RoomIfNotFull
<1>3. CASE op.step = "request"
  <2>1. NothingOwed /\ phase # "RESPONSE_READY" /\ (op.exchange <=> op.packet.verdict # None)
    BY <1>1, <1>3 DEF CallProceeds, Requesting
  <2>2. NothingOwed'
    BY <1>1, <1>2, <2>1, NothingOwedAfterMove
  <2> QED BY <1>1, <1>3, <2>1, <2>2 DEF CallProceeds, Idle, Requesting, Turning, Responding
<1>4. CASE op.step = "turnaround"
  <2>1. /\ phase = "WAIT_TURNAROUND" /\ op.packet.verdict # None /\ tx' = tx /\ frame'.at # "body"
        /\ RequestHeld \/ RequestQueued \/ (AnswerWaits /\ ~rx_packet_valid)
    BY <1>1, <1>4 DEF CallProceeds, Turning
  <2>2. RequestHeld' \/ RequestQueued' \/ (AnswerWaits' /\ ~rx_packet_valid')
    <3>1. CASE RequestHeld \/ RequestQueued
      BY <1>1, <1>2, <2>1, <3>1, RequestAfterMove
    <3>2. CASE AnswerWaits /\ ~rx_packet_valid
      <4>1. rx' = rx /\ rx_packet_valid' = rx_packet_valid
        BY <1>2, <3>2 DEF Moves, Stays
      <4> QED BY <1>1, <2>1, <3>2, <4>1 DEF AnswerWaits, FifoSilent, HeldSilent, Silent
    <3> QED BY <2>1, <3>1, <3>2
  <2> QED BY <1>1, <1>4, <2>1, <2>2 DEF CallProceeds, Idle, Requesting, Turning, Responding
<1>5. CASE op.step = "response"
  <2>1. /\ phase = "RESPONSE_READY" /\ op.packet.verdict # None /\ AnswerWaits /\ tx_seen = 1 /\ pop
    BY <1>1, <1>5 DEF CallProceeds, Responding
  <2>2. tx \in Seq(Answers) /\ Len(tx) = 1 /\ tx[1] = [id |-> op.packet.id, status |-> op.packet.verdict]
    BY <2>1 DEF Types, FifosOK, AnswerWaits
  <2>3. Len(tx') = 0 /\ frame'.miso = tx[1] /\ tx[1] \in Answers
    <3>1. tx' = Tail(tx) /\ frame'.miso = Head(tx)
      BY <1>1, <2>1
    <3> HIDE DEF pop
    <3>2. tx \in Seq(Answers) /\ Len(tx) = 1
      BY <2>2
    <3>3. Len(Tail(tx)) = 0 /\ Head(tx) = tx[1] /\ tx[1] \in Answers
      BY <3>2
    <3> QED BY <3>1, <3>3
  <2>4. frame' \in Frames
    BY <1>1, <1>5, <2>1, <2>2, <2>3 DEF Frames
  <2>5. FifoSilent' /\ HeldSilent'
    <3>1. FifoSilent /\ HeldSilent
      BY <2>1 DEF AnswerWaits
    <3> QED BY <1>1, <1>2, <3>1, SilentAfterMove DEF HeldSilent, Silent
  <2>6. frame' # None
    BY <2>4, LinkAssumption
  <2> QED BY <1>1, <1>5, <2>1, <2>2, <2>3, <2>5, <2>6
          DEF CallProceeds, Idle, Requesting, Turning, Responding, NothingOwed
<1> QED BY <1>1, <1>3, <1>4, <1>5 DEF Calls

(* The edges between: if the fabric kept up, the answer of a turnaround is there. *)
LEMMA BodyProceeds == ASSUME Types, CallProceeds, FrameBody, ~disturbed' PROVE CallProceeds'
<1>1. /\ op # None /\ frame # None /\ op' = op /\ phase' = phase /\ rx_packet' = rx_packet
      /\ HandOver(Len(rx) < Depth) /\ op \in Calls /\ frame \in Frames /\ tx' = tx
      /\ frame' = [frame EXCEPT !.at = "body"] /\ tx_seen' = Len(tx)
      /\ (op.step = "turnaround" => rx' = << >>)
  BY DEF FrameBody, host, Types, CallOK
<1>2. (Moves /\ rx_packet_valid' = FALSE) \/ (Stays /\ rx_packet_valid' = rx_packet_valid)
  <2> DEFINE room == Len(rx) < Depth
  <2>1. room \in BOOLEAN /\ (room => Len(rx) < Depth) /\ HandOver(room)
    BY <1>1
  <2> HIDE DEF room
  <2> QED BY <2>1, HandedOver
<1>3. frame'.miso = frame.miso
  BY <1>1 DEF Frames
<1>4. CASE op.step = "request"
  <2>1. NothingOwed /\ phase # "RESPONSE_READY" /\ (op.exchange <=> op.packet.verdict # None)
    BY <1>1, <1>4 DEF CallProceeds, Requesting
  <2>2. NothingOwed'
    BY <1>1, <1>2, <2>1, NothingOwedAfterMove
  <2> QED BY <1>1, <1>4, <2>1, <2>2 DEF CallProceeds, Idle, Requesting, Turning, Responding
<1>5. CASE op.step = "turnaround"
  <2>1. /\ phase = "WAIT_TURNAROUND" /\ op.packet.verdict # None /\ rx' = << >>
        /\ RequestHeld \/ RequestQueued \/ (AnswerWaits /\ ~rx_packet_valid)
    BY <1>1, <1>5 DEF CallProceeds, Turning
  <2>2. AnswerWaits' /\ ~rx_packet_valid' /\ tx_seen' = 1
    <3>1. CASE RequestHeld
      <4>1. rx_packet_valid /\ rx_packet = op.packet /\ Len(rx) = 0
        <5>1. rx_packet_valid /\ Len(rx) \in Nat
          BY <3>1 DEF RequestHeld, Types, FifosOK
        <5>2. Len(rx) = 0
          <6>1. rx \in Seq(Packets \union {Filler})
            BY DEF Types, FifosOK
          <6> QED BY <1>2, <2>1, <6>1 DEF Moves, Stays
        <5> QED BY <3>1, <5>1, <5>2 DEF RequestHeld
      <4>2. Depth > 0 /\ Len(rx) < Depth
        BY <4>1, LinkAssumption
      <4>3. rx' = Append(rx, rx_packet)
        BY <1>1, <4>1, <4>2 DEF HandOver
      <4>4. rx \in Seq(Packets \union {Filler}) /\ rx_packet \in Packets \union {Filler}
        BY DEF Types, FifosOK, SlaveOK
      <4>5. Len(rx') = Len(rx) + 1
        BY <4>3, <4>4
      <4> QED BY <2>1, <4>1, <4>5
    <3>2. CASE RequestQueued
      <4>1. rx \in Seq(Packets \union {Filler}) /\ Len(rx) > 0
        BY <3>2 DEF Types, FifosOK, RequestQueued
      <4> QED BY <1>2, <2>1, <4>1 DEF Moves, Stays
    <3>3. CASE AnswerWaits /\ ~rx_packet_valid
      <4>1. rx' = rx /\ rx_packet_valid' = rx_packet_valid
        BY <1>2, <3>3 DEF Moves, Stays
      <4> QED BY <1>1, <2>1, <3>3, <4>1 DEF AnswerWaits, FifoSilent, HeldSilent, Silent
    <3> QED BY <2>1, <3>1, <3>2, <3>3
  <2> QED BY <1>1, <1>5, <2>1, <2>2 DEF CallProceeds, Idle, Requesting, Turning, Responding
<1>6. CASE op.step = "response"
  <2>1. /\ phase = "RESPONSE_READY" /\ op.packet.verdict # None /\ NothingOwed
        /\ frame.miso = [id |-> op.packet.id, status |-> op.packet.verdict]
    BY <1>1, <1>6 DEF CallProceeds, Responding
  <2>2. NothingOwed'
    BY <1>1, <1>2, <2>1, NothingOwedAfterMove
  <2>3. frame' # None
    <3>1. frame' \in Frames
      BY <1>1 DEF Frames
    <3> QED BY <3>1, LinkAssumption
  <2> QED BY <1>1, <1>3, <1>6, <2>1, <2>2, <2>3 DEF CallProceeds, Idle, Requesting, Turning, Responding
<1> QED BY <1>1, <1>4, <1>5, <1>6 DEF Calls

(* A frame ends.  The request is held and the slave turns around, or, one way, *)
(* nothing is owed; the filler makes the slave ready; the answer is judged.    *)
LEMMA EndProceeds ==
  ASSUME CalmInv, FrameEnd
  PROVE  (~disturbed' => CallProceeds') /\ UndisturbedExchangeSucceeds'
<1> SUFFICES ASSUME ~disturbed' PROVE CallProceeds' /\ UndisturbedExchangeSucceeds'
  BY DEF UndisturbedExchangeSucceeds
<1>0. Types
  BY DEF CalmInv
<1>1. /\ IF op.step = "response" \/ ~op.exchange
         THEN /\ op' = None
              /\ IF op.exchange THEN Report(Accepts(frame.miso)) ELSE UNCHANGED outcome
         ELSE /\ op' = [op EXCEPT !.step = IF @ = "request" THEN "turnaround" ELSE "response"]
              /\ UNCHANGED outcome
      /\ ~disturbed /\ ~(rx_packet_valid /\ rx_full)
  <2>1. PICK ok \in BOOLEAN :
       /\ disturbed' = (disturbed \/ ~ok \/ (rx_packet_valid /\ rx_full))
       /\ IF ~ok \/ op.step = "response" \/ ~op.exchange
          THEN /\ op' = None
               /\ IF op.exchange THEN Report(ok /\ Accepts(frame.miso)) ELSE UNCHANGED outcome
          ELSE /\ op' = [op EXCEPT !.step = IF @ = "request" THEN "turnaround" ELSE "response"]
               /\ UNCHANGED outcome
    BY DEF FrameEnd
  <2>2. ok /\ ~disturbed /\ ~(rx_packet_valid /\ rx_full)
    BY <2>1
  <2>3. ok = TRUE
    BY <2>2
  <2>4. /\ IF op.step = "response" \/ ~op.exchange
           THEN /\ op' = None
                /\ IF op.exchange THEN Report(TRUE /\ Accepts(frame.miso)) ELSE UNCHANGED outcome
           ELSE /\ op' = [op EXCEPT !.step = IF @ = "request" THEN "turnaround" ELSE "response"]
                /\ UNCHANGED outcome
    BY <2>1, <2>3
  <2>5. (TRUE /\ Accepts(frame.miso)) = Accepts(frame.miso)
    BY DEF Accepts
  <2> QED BY <2>2, <2>4, <2>5
<1>2. /\ CallProceeds /\ op # None /\ frame # None /\ frame.at = "body" /\ frame' = None
      /\ frame.packet = (IF op.step = "request" THEN op.packet ELSE Filler)
      /\ op \in Calls /\ op.packet \in Packets /\ op.exchange \in BOOLEAN
      /\ op.packet # Filler /\ (op.step # "request" => op.exchange)
      /\ rx_packet' = frame.packet /\ rx_packet_valid' = TRUE /\ phase' = NextPhase(frame.packet)
      /\ tx' = tx /\ tx_seen' = tx_seen
      /\ rx' = (IF rx_packet_valid /\ ~rx_full THEN Append(rx, rx_packet) ELSE rx)
  BY <1>0, <1>1, LinkAssumption DEF CalmInv, FrameEnd, Types, CallOK, Calls
<1>3. Moves \/ (Stays /\ ~rx_packet_valid)
  BY <1>0, <1>1, <1>2, RoomIfNotFull DEF Moves, Stays
<1>4. CASE op.step = "request"
  <2>1. NothingOwed /\ phase # "RESPONSE_READY" /\ (op.exchange <=> op.packet.verdict # None)
    BY <1>2, <1>4 DEF CallProceeds, Requesting
  <2>2. FifoSilent' /\ Len(tx') = 0 /\ rx_packet' = op.packet /\ rx_packet_valid'
    BY <1>0, <1>2, <1>3, <1>4, <2>1, SilentAfterMove DEF NothingOwed
  <2>3. phase' = "WAIT_TURNAROUND"
    <3>1. phase \in {"WAIT_REQUEST", "WAIT_TURNAROUND"}
      BY <1>0, <2>1 DEF Types, SlaveOK
    <3> QED BY <1>2, <1>4, <3>1 DEF NextPhase
  <2>4. UNCHANGED outcome
    BY <1>1, <1>4
  <2>5. CASE op.exchange
    <3>1. op'.packet = op.packet /\ op'.step = "turnaround"
      BY <1>1, <1>2, <1>4, <2>5 DEF Calls
    <3>2. op' # None
      <4>1. op' \in Calls
        BY <1>1, <1>2, <1>4, <2>5 DEF Calls
      <4> QED BY <4>1, LinkAssumption
    <3>3. RequestHeld'
      BY <2>2, <3>1 DEF RequestHeld
    <3> QED BY <1>1, <1>2, <2>1, <2>3, <2>4, <2>5, <3>1, <3>2, <3>3
            DEF CallProceeds, Idle, Requesting, Turning, Responding, CalmInv, UndisturbedExchangeSucceeds
  <2>6. CASE ~op.exchange
    <3>1. op' = None /\ NothingOwed'
      BY <1>1, <1>2, <2>1, <2>2, <2>6 DEF NothingOwed, HeldSilent, Silent
    <3> QED BY <1>1, <1>2, <2>3, <2>4, <3>1
            DEF CallProceeds, Idle, Requesting, Turning, Responding, CalmInv, UndisturbedExchangeSucceeds
  <2> QED BY <2>5, <2>6
<1>5. CASE op.step = "turnaround"
  <2>1. /\ phase = "WAIT_TURNAROUND" /\ op.packet.verdict # None /\ op.exchange
        /\ AnswerWaits /\ ~rx_packet_valid /\ tx_seen = 1
    BY <1>2, <1>5 DEF CallProceeds, Turning
  <2>2. rx' = rx /\ rx_packet' = Filler /\ phase' = "RESPONSE_READY"
    BY <1>2, <1>5, <2>1 DEF NextPhase
  <2>3. op'.packet = op.packet /\ op'.step = "response" /\ UNCHANGED outcome
    BY <1>1, <1>2, <1>5, <2>1 DEF Calls
  <2>4. op' # None
    <3>1. op' \in Calls
      BY <1>1, <1>2, <1>5, <2>1 DEF Calls
    <3> QED BY <3>1, LinkAssumption
  <2>5. AnswerWaits'
    BY <1>2, <2>1, <2>2, <2>3 DEF AnswerWaits, FifoSilent, HeldSilent, Silent
  <2> QED BY <1>1, <1>2, <2>1, <2>2, <2>3, <2>4, <2>5
          DEF CallProceeds, Idle, Requesting, Turning, Responding, CalmInv, UndisturbedExchangeSucceeds
<1>6. CASE op.step = "response"
  <2>1. /\ phase = "RESPONSE_READY" /\ op.packet.verdict # None /\ NothingOwed /\ op.exchange
        /\ frame.miso = [id |-> op.packet.id, status |-> op.packet.verdict]
    BY <1>2, <1>6 DEF CallProceeds, Responding
  <2>2. op' = None /\ phase' = "WAIT_REQUEST" /\ rx_packet' = Filler /\ Report(Accepts(frame.miso))
    BY <1>1, <1>2, <1>6, <2>1 DEF NextPhase
  <2>3. NothingOwed'
    BY <1>0, <1>2, <1>3, <2>1, <2>2, SilentAfterMove DEF NothingOwed, HeldSilent, Silent
  <2>4. Accepts(frame.miso) <=> op.packet.verdict = op.expected
    <3>1. frame.miso # None /\ frame.miso.id = op.packet.id /\ frame.miso.status = op.packet.verdict
      <4>1. frame.miso \in Answers
        BY <1>2, <2>1 DEF Packets, Answers
      <4> QED BY <2>1, <4>1, LinkAssumption
    <3> QED BY <3>1 DEF Accepts
  <2>5. UndisturbedExchangeSucceeds'
    BY <2>2, <2>4 DEF Report, UndisturbedExchangeSucceeds
  <2> QED BY <1>2, <2>2, <2>3, <2>5 DEF CallProceeds, Idle, Requesting, Turning, Responding
<1> QED BY <1>2, <1>4, <1>5, <1>6 DEF Calls

(* The fabric takes the oldest packet: a silent one, or the request itself. *)
LEMMA FabricProceeds == ASSUME Types, CallProceeds, FabricStep PROVE CallProceeds'
<1>1. /\ op' = op /\ frame' = frame /\ phase' = phase /\ rx_packet' = rx_packet
      /\ rx_packet_valid' = rx_packet_valid /\ tx_seen' = tx_seen
      /\ rx # << >> /\ rx' = Tail(rx)
      /\ IF Silent(Head(rx)) THEN tx' = tx
         ELSE tx' = Append(tx, [id |-> Head(rx).id, status |-> Head(rx).verdict])
  BY DEF FabricStep, host, slave, Silent
<1>2. /\ rx \in Seq(Packets \union {Filler}) /\ tx \in Seq(Answers) /\ Len(rx) \in Nat /\ Len(tx) \in Nat
      /\ Head(rx) = rx[1] /\ 1 \in 1 .. Len(rx) /\ Len(rx') = Len(rx) - 1
      /\ \A i \in 1 .. Len(rx') : i + 1 \in 1 .. Len(rx) /\ rx'[i] = rx[i + 1]
  BY <1>1 DEF Types, FifosOK
<1>3. FifoSilent => FifoSilent' /\ tx' = tx
  BY <1>1, <1>2 DEF FifoSilent, Silent
<1>4. HeldSilent => HeldSilent'
  BY <1>1 DEF HeldSilent, Silent
<1>5. NothingOwed => NothingOwed'
  BY <1>3, <1>4 DEF NothingOwed
<1>6. AnswerWaits => AnswerWaits'
  BY <1>1, <1>3, <1>4 DEF AnswerWaits
<1>7. RequestHeld => RequestHeld'
  BY <1>1, <1>3 DEF RequestHeld
<1>8. RequestQueued /\ op # None /\ op.packet.verdict # None => RequestQueued' \/ AnswerWaits'
  <2> SUFFICES ASSUME RequestQueued, op # None, op.packet.verdict # None
               PROVE  RequestQueued' \/ AnswerWaits'
    OBVIOUS
  <2>1. CASE Len(rx) = 1
    <3>1. rx[1] = op.packet /\ op.packet \in Packets /\ op.packet # Filler
      BY <2>1, LinkAssumption DEF RequestQueued, Types, CallOK, Calls
    <3>2. tx' = Append(tx, [id |-> op.packet.id, status |-> op.packet.verdict])
      BY <1>1, <1>2, <3>1 DEF Silent
    <3>3. Len(tx) = 0
      BY DEF RequestQueued
    <3>4. Len(tx') = 1 /\ tx'[1] = [id |-> op.packet.id, status |-> op.packet.verdict]
      <4>1. PICK a : a = [id |-> op.packet.id, status |-> op.packet.verdict]
        OBVIOUS
      <4>2. tx' = Append(tx, a)
        BY <3>2, <4>1
      <4>3. a \in Answers
        BY <3>1, <4>1 DEF Packets, Answers
      <4>4. Len(tx') = Len(tx) + 1 /\ tx'[Len(tx) + 1] = a
        BY <1>2, <4>2, <4>3
      <4> QED BY <3>3, <4>1, <4>4
    <3>5. FifoSilent'
      BY <1>2, <2>1 DEF FifoSilent
    <3>6. HeldSilent'
      BY <1>1 DEF RequestQueued, HeldSilent
    <3> QED BY <1>1, <3>4, <3>5, <3>6 DEF AnswerWaits
  <2>2. CASE Len(rx) > 1
    <3>1. Silent(Head(rx))
      BY <1>2, <2>2 DEF RequestQueued
    <3>2. tx' = tx /\ ~rx_packet_valid' /\ Len(tx) = 0
      BY <1>1, <3>1 DEF RequestQueued
    <3>3. rx'[Len(rx')] = rx[Len(rx)] /\ Len(rx') > 0
      BY <1>2, <2>2
    <3>4. \A i \in 1 .. Len(rx') - 1 : Silent(rx'[i])
      BY <1>2, <2>2 DEF RequestQueued, Silent
    <3>5. rx'[Len(rx')] = op'.packet
      BY <1>1, <3>3 DEF RequestQueued
    <3> QED BY <3>2, <3>3, <3>4, <3>5 DEF RequestQueued, Silent
  <2> QED BY <1>2, <2>1, <2>2 DEF RequestQueued
<1>9. Idle' /\ Requesting' /\ Responding'
  BY <1>1, <1>5, <1>6 DEF CallProceeds, Idle, Requesting, Responding
<1>10. Turning'
  <2> SUFFICES ASSUME op # None, op.step = "turnaround"
               PROVE  Turning'
    BY <1>1 DEF Turning
  <2>1. /\ phase = "WAIT_TURNAROUND" /\ op.packet.verdict # None
        /\ RequestHeld \/ RequestQueued \/ (AnswerWaits /\ ~rx_packet_valid)
        /\ frame # None /\ frame.at = "body" => AnswerWaits /\ ~rx_packet_valid /\ tx_seen = 1
    BY DEF CallProceeds, Turning
  <2>2. RequestHeld' \/ RequestQueued' \/ (AnswerWaits' /\ ~rx_packet_valid')
    <3>1. RequestQueued => ~rx_packet_valid
      BY DEF RequestQueued
    <3> QED BY <1>1, <1>6, <1>7, <1>8, <2>1, <3>1
  <2> QED BY <1>1, <1>6, <2>1, <2>2 DEF Turning
<1> QED BY <1>9, <1>10 DEF CallProceeds

(* As long as nothing failed, went unfetched, was overwritten or came late,   *)
(* every exchange reports success exactly when the caller expects the right   *)
(* status, for every depth and number of calls (spi_slave.sv:138-149 and      *)
(* LoopbackClient::exchange agree on the phase they are in).                  *)
THEOREM UndisturbedCallsSucceed == Spec => []UndisturbedExchangeSucceeds
<1>1. Init => CalmInv
  <2> SUFFICES ASSUME Init PROVE CalmInv
    OBVIOUS
  <2>1. CallProceeds
    BY DEF Init, CallProceeds, Idle, Requesting, Turning, Responding, NothingOwed, FifoSilent, HeldSilent
  <2>2. UndisturbedExchangeSucceeds
    BY DEF Init, UndisturbedExchangeSucceeds
  <2> QED BY <2>1, <2>2, InitTypes DEF CalmInv
<1>2. CalmInv /\ [Next]_vars => CalmInv'
  <2> SUFFICES ASSUME CalmInv, [Next]_vars PROVE CalmInv'
    OBVIOUS
  <2>0. Types /\ Types' /\ (~disturbed => CallProceeds) /\ UndisturbedExchangeSucceeds
    BY NextTypes DEF CalmInv
  <2>1. CASE SubmitEvent \/ SubmitRequest
    <3>1. ~disturbed' => ~disturbed
      BY <2>1 DEF SubmitEvent, SubmitRequest
    <3>2. outcome' = outcome \/ outcome' = None
      BY <2>1 DEF SubmitEvent, SubmitRequest
    <3> QED BY <2>0, <2>1, <3>1, <3>2, SubmitProceeds DEF CalmInv, UndisturbedExchangeSucceeds
  <2>2. CASE FrameStart
    <3>1. disturbed' = disturbed /\ outcome' = outcome
      BY <2>2 DEF FrameStart, host
    <3> QED BY <2>0, <2>2, <3>1, StartProceeds DEF CalmInv, UndisturbedExchangeSucceeds
  <2>3. CASE FrameBody
    <3>1. (~disturbed' => ~disturbed) /\ outcome' = outcome
      BY <2>3 DEF FrameBody, host
    <3> QED BY <2>0, <2>3, <3>1, BodyProceeds DEF CalmInv, UndisturbedExchangeSucceeds
  <2>4. CASE FrameEnd
    BY <2>0, <2>4, EndProceeds DEF CalmInv
  <2>5. CASE TransferFails
    BY <2>0, <2>5 DEF TransferFails, CalmInv, UndisturbedExchangeSucceeds
  <2>6. CASE FabricStep
    <3>1. disturbed' = disturbed /\ outcome' = outcome
      BY <2>6 DEF FabricStep, host
    <3> QED BY <2>0, <2>6, <3>1, FabricProceeds DEF CalmInv, UndisturbedExchangeSucceeds
  <2>7. CASE UNCHANGED vars
    <3>1. CallProceeds => CallProceeds'
      BY <2>7 DEF vars, host, slave, CallProceeds, Idle, Requesting, Turning, Responding, NothingOwed,
                  AnswerWaits, RequestHeld, RequestQueued, FifoSilent, HeldSilent, Silent
    <3> QED BY <2>0, <2>7, <3>1 DEF vars, host, CalmInv, UndisturbedExchangeSucceeds
  <2> QED BY <2>1, <2>2, <2>3, <2>4, <2>5, <2>6, <2>7 DEF Next
<1> QED BY <1>1, <1>2, PTL DEF Spec, CalmInv
=============================================================================
