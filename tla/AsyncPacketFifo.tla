-------------------------- MODULE AsyncPacketFifo ---------------------------
(***************************************************************************)
(* fpga/rtl/fifo/async_packet_fifo.sv: the dual-clock FIFO between the SPI *)
(* clock and the fabric clock.  Each domain owns a binary pointer and its  *)
(* code; the code crosses to the other domain through two flip-flops.  A   *)
(* pointer code is the set of its bits that are 1.                         *)
(*                                                                         *)
(* A clock edge of one domain is a step; the two may also fall together,   *)
(* and then the first synchronizer flip-flop samples a code in flight: of  *)
(* every bit that is changing it may catch the old or the new value.       *)
(***************************************************************************)
EXTENDS Naturals, Sequences

CONSTANTS
  Data,        (* the packets *)
  Depth,       (* DEPTH: storage cells *)
  PtrWidth,    (* PTR_WIDTH: bits of a pointer, one more than an address *)
  Gray(_),     (* the code of a binary pointer *)
  CountMod     (* the diagnostic counters are 32 bits wide; they wrap at this *)

Ptr     == 0 .. (2 * Depth - 1)
Inc(p)  == IF p = 2 * Depth - 1 THEN 0 ELSE p + 1
(* Steps from pointer a forward to pointer b. *)
Dist(a, b) == IF b >= a THEN b - a ELSE b + 2 * Depth - a
Slot(p) == IF p >= Depth THEN p - Depth ELSE p

FlipTopTwo(c) == LET top == {PtrWidth - 1, PtrWidth - 2} IN (c \ top) \union (top \ c)

(* What a flip-flop may catch of a code that goes from a to b. *)
Blend(a, b) == {c \in SUBSET (a \union b) : a \intersect b \subseteq c}

ASSUME DepthAssumption ==
  /\ Depth \in Nat /\ Depth >= 2
  /\ PtrWidth \in Nat
  /\ CountMod \in Nat \ {0}
  /\ Data # {}

(* What the crossing asks of the pointer code. *)
ASSUME CodeAssumption ==
  /\ \A p, q \in Ptr : Gray(p) = Gray(q) => p = q
  /\ \A p, q \in Ptr : Gray(p) = FlipTopTwo(Gray(q)) <=> Dist(q, p) = Depth
  /\ \A p \in Ptr : Blend(Gray(p), Gray(p)) = {Gray(p)}
  /\ \A p \in Ptr : Blend(Gray(p), Gray(Inc(p))) \subseteq {Gray(p), Gray(Inc(p))}

VARIABLES
  storage,
  wr_bin, wr_gray, rd_gray_sync1_wr, rd_gray_sync2_wr, wr_full_reg, wr_overflow_count,
  rd_bin, rd_gray, wr_gray_sync1_rd, wr_gray_sync2_rd, rd_empty_reg, rd_underflow_count,
  sampled      (* the packet the reader caught at its last read *)

wrVars == <<storage, wr_bin, wr_gray, rd_gray_sync1_wr, rd_gray_sync2_wr, wr_full_reg,
            wr_overflow_count>>
rdVars == <<rd_bin, rd_gray, wr_gray_sync1_rd, wr_gray_sync2_rd, rd_empty_reg,
            rd_underflow_count, sampled>>
vars == <<wrVars, rdVars>>

(* Faulty variants, named Bug..., are what the checks must tell from the code. *)
BugWriteWhenFull(en) == en

wr_fire(en) == en /\ ~wr_full_reg
rd_fire(en) == en /\ ~rd_empty_reg
wr_bin_next(en) == IF wr_fire(en) THEN Inc(wr_bin) ELSE wr_bin
rd_bin_next(en) == IF rd_fire(en) THEN Inc(rd_bin) ELSE rd_bin
wr_full_next(en)  == Gray(wr_bin_next(en)) = FlipTopTwo(rd_gray_sync2_wr)
BugEmptyIgnoresThisRead(en) == Gray(rd_bin) = wr_gray_sync2_rd
rd_empty_next(en) == Gray(rd_bin_next(en)) = wr_gray_sync2_rd
dout == storage[Slot(rd_bin)]

Registers0 ==
  /\ wr_bin = 0 /\ wr_gray = Gray(0) /\ rd_gray_sync1_wr = Gray(0) /\ rd_gray_sync2_wr = Gray(0)
  /\ wr_full_reg = FALSE /\ wr_overflow_count = 0
  /\ rd_bin = 0 /\ rd_gray = Gray(0) /\ wr_gray_sync1_rd = Gray(0) /\ wr_gray_sync2_rd = Gray(0)
  /\ rd_empty_reg = TRUE /\ rd_underflow_count = 0

Init == Registers0 /\ storage \in [0 .. (Depth - 1) -> Data] /\ sampled \in Data

(* The write-side synchronizer moves only when a packet is written. *)
BugGatedWrDomain(en, din, seen) ==
  /\ rd_gray_sync1_wr' = IF wr_fire(en) THEN seen ELSE rd_gray_sync1_wr
  /\ rd_gray_sync2_wr' = IF wr_fire(en) THEN rd_gray_sync1_wr ELSE rd_gray_sync2_wr
  /\ storage' = IF wr_fire(en) THEN [storage EXCEPT ![Slot(wr_bin)] = din] ELSE storage
  /\ wr_bin' = wr_bin_next(en) /\ wr_gray' = Gray(wr_bin_next(en))
  /\ wr_full_reg' = wr_full_next(en) /\ UNCHANGED wr_overflow_count

(* One edge of wr_clk; seen is what the first flip-flop catches of rd_gray. *)
WrDomain(en, din, seen) ==
  /\ rd_gray_sync1_wr' = seen
  /\ rd_gray_sync2_wr' = rd_gray_sync1_wr
  /\ wr_overflow_count' = IF en /\ wr_full_reg THEN (wr_overflow_count + 1) % CountMod
                                               ELSE wr_overflow_count
  /\ storage' = IF wr_fire(en) THEN [storage EXCEPT ![Slot(wr_bin)] = din] ELSE storage
  /\ wr_bin' = wr_bin_next(en)
  /\ wr_gray' = Gray(wr_bin_next(en))
  /\ wr_full_reg' = wr_full_next(en)

(* The read-side synchronizer moves only when a packet is read. *)
BugGatedRdDomain(en, seen) ==
  /\ wr_gray_sync1_rd' = IF rd_fire(en) THEN seen ELSE wr_gray_sync1_rd
  /\ wr_gray_sync2_rd' = IF rd_fire(en) THEN wr_gray_sync1_rd ELSE wr_gray_sync2_rd
  /\ rd_bin' = rd_bin_next(en) /\ rd_gray' = Gray(rd_bin_next(en))
  /\ rd_empty_reg' = rd_empty_next(en) /\ UNCHANGED <<rd_underflow_count, sampled>>

(* One edge of rd_clk; seen is what the first flip-flop catches of wr_gray. *)
RdDomain(en, seen) ==
  /\ wr_gray_sync1_rd' = seen
  /\ wr_gray_sync2_rd' = wr_gray_sync1_rd
  /\ rd_underflow_count' = IF en /\ rd_empty_reg THEN (rd_underflow_count + 1) % CountMod
                                                 ELSE rd_underflow_count
  /\ rd_bin' = rd_bin_next(en)
  /\ rd_gray' = Gray(rd_bin_next(en))
  /\ rd_empty_reg' = rd_empty_next(en)
  /\ sampled' = IF rd_fire(en) THEN dout ELSE sampled

WrEdge == \E en \in BOOLEAN, din \in Data : WrDomain(en, din, rd_gray) /\ UNCHANGED rdVars
RdEdge == \E en \in BOOLEAN : RdDomain(en, wr_gray) /\ UNCHANGED wrVars
BothEdges ==
  \E wen, ren \in BOOLEAN, din \in Data :
    /\ \E seen \in Blend(rd_gray, Gray(rd_bin_next(ren))) : WrDomain(wen, din, seen)
    /\ \E seen \in Blend(wr_gray, Gray(wr_bin_next(wen))) : RdDomain(ren, seen)

(* A reset that leaves the write code standing. *)
BugPartialReset ==
  /\ wr_bin' = 0 /\ rd_bin' = 0 /\ rd_gray' = Gray(0) /\ rd_empty_reg' = TRUE
  /\ wr_full_reg' = FALSE
  /\ UNCHANGED <<storage, wr_gray, rd_gray_sync1_wr, rd_gray_sync2_wr, wr_overflow_count,
                 wr_gray_sync1_rd, wr_gray_sync2_rd, rd_underflow_count, sampled>>

(* reset_n reaches both domains at once; the storage cells have no reset. *)
Reset ==
  /\ wr_bin' = 0 /\ wr_gray' = Gray(0) /\ rd_gray_sync1_wr' = Gray(0)
  /\ rd_gray_sync2_wr' = Gray(0) /\ wr_full_reg' = FALSE /\ wr_overflow_count' = 0
  /\ rd_bin' = 0 /\ rd_gray' = Gray(0) /\ wr_gray_sync1_rd' = Gray(0)
  /\ wr_gray_sync2_rd' = Gray(0) /\ rd_empty_reg' = TRUE /\ rd_underflow_count' = 0
  /\ UNCHANGED <<storage, sampled>>

Next == WrEdge \/ RdEdge \/ BothEdges \/ Reset

Spec == Init /\ [][Next]_vars

(* Both clocks keep ticking while the host keeps polling. *)
Fairness == WF_vars(WrEdge \/ BothEdges) /\ WF_vars(RdEdge \/ BothEdges)
FairSpec == Spec /\ Fairness
-----------------------------------------------------------------------------
Codes == {Gray(p) : p \in Ptr}

(* Each register holds a value of its width, and no crossing register ever  *)
(* holds a code that is not the code of a pointer.                          *)
TypeOK ==
  /\ storage \in [0 .. (Depth - 1) -> Data] /\ sampled \in Data
  /\ wr_bin \in Ptr /\ wr_gray = Gray(wr_bin) /\ wr_full_reg \in BOOLEAN
  /\ rd_bin \in Ptr /\ rd_gray = Gray(rd_bin) /\ rd_empty_reg \in BOOLEAN
  /\ rd_gray_sync1_wr \in Codes /\ rd_gray_sync2_wr \in Codes
  /\ wr_gray_sync1_rd \in Codes /\ wr_gray_sync2_rd \in Codes
  /\ wr_overflow_count \in 0 .. (CountMod - 1) /\ rd_underflow_count \in 0 .. (CountMod - 1)

(* How many packets are really held, which neither domain knows. *)
Occupancy == Dist(rd_bin, wr_bin)

(* A write that the full flag lets through never lands on a packet that was *)
(* not read yet, and a read that the empty flag lets through never takes a  *)
(* cell that was not written: the flags, computed from pointers that are    *)
(* two synchronizer stages old, err on the safe side only (lines 43-47).    *)
FlagsErrSafely ==
  /\ Occupancy <= Depth
  /\ ~wr_full_reg => Occupancy < Depth
  /\ ~rd_empty_reg => Occupancy > 0

(* The pointer a code stands for. *)
Bin(c) == CHOOSE p \in Ptr : Gray(p) = c

(* The pointers on the ring of 2 * Depth, each behind the next: the writer  *)
(* believes in a reader that is no further than the real one, the reader in *)
(* a writer that is no further than the real one, and the writer's own      *)
(* pointer is at most Depth ahead of the oldest reader it believes in.      *)
PointerOrder ==
  LET r2 == Bin(rd_gray_sync2_wr)
      r1 == Bin(rd_gray_sync1_wr)
      w2 == Bin(wr_gray_sync2_rd)
      w1 == Bin(wr_gray_sync1_rd)
  IN  /\ Dist(r2, r1) + Dist(r1, rd_bin) + Dist(rd_bin, wr_bin) = Dist(r2, wr_bin)
      /\ Dist(rd_bin, w2) + Dist(w2, w1) + Dist(w1, wr_bin) = Dist(rd_bin, wr_bin)
      /\ Dist(r2, wr_bin) <= Depth
      /\ ~wr_full_reg => Dist(r2, wr_bin) < Depth
      /\ ~rd_empty_reg => Dist(rd_bin, w2) > 0

(* The packets held, oldest first: the mapping to the abstract queue. *)
Held(cells, from, to) ==
  [i \in 1 .. Dist(from, to) |->
     cells[Slot(IF from + i - 1 >= 2 * Depth THEN from + i - 1 - 2 * Depth ELSE from + i - 1)]]
Contents == Held(storage, rd_bin, wr_bin)

Queue == INSTANCE BoundedPacketQueue
           WITH queue <- Contents, overflows <- wr_overflow_count,
                underflows <- rd_underflow_count

(* The FIFO implements the queue: nothing lost, duplicated or reordered in  *)
(* any interleaving of the two clocks, whatever the flip-flops catch.       *)
ImplementsQueue == Queue!Spec

(* A packet written becomes visible to the reader: the code of the write    *)
(* pointer gets through both flip-flops although the reader's domain never  *)
(* learns of the write in any other way (or the reset throws it away).      *)
WrittenBecomesVisible == (Occupancy > 0) ~> (~rd_empty_reg \/ Occupancy = 0)

(* A full FIFO that was drained accepts writes again. *)
DrainedFifoAccepts == (Occupancy = 0) ~> ~wr_full_reg
=============================================================================
