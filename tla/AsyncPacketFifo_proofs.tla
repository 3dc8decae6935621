----------------------- MODULE AsyncPacketFifo_proofs -----------------------
(***************************************************************************)
(* The dual-clock FIFO is correct for every depth and every pointer code   *)
(* that meets CodeAssumption: its flags err on the safe side only, and it  *)
(* implements the bounded queue.                                           *)
(***************************************************************************)
EXTENDS AsyncPacketFifo, SequenceTheorems, TLAPS

(* The inductive invariant. *)
IInv == TypeOK /\ PointerOrder
-----------------------------------------------------------------------------
(* Arithmetic on the ring of pointers. *)

(* The six pointers in ring order, the writer within Depth of its reader. *)
Order(r2, r1, rd, w2, w1, wr) ==
  /\ Dist(r2, r1) + Dist(r1, rd) + Dist(rd, wr) = Dist(r2, wr)
  /\ Dist(rd, w2) + Dist(w2, w1) + Dist(w1, wr) = Dist(rd, wr)
  /\ Dist(r2, wr) <= Depth

(* A write edge keeps the order: the writer goes on to a newer reader, and *)
(* its full flag was computed from the older one.                          *)
LEMMA WrMoves ==
  ASSUME NEW r2 \in Ptr, NEW r1 \in Ptr, NEW rd \in Ptr,
         NEW w2 \in Ptr, NEW w1 \in Ptr, NEW wr \in Ptr,
         NEW next \in Ptr, next = wr \/ next = Inc(wr),
         next # wr => Dist(r2, wr) < Depth,
         Order(r2, r1, rd, w2, w1, wr)
  PROVE  /\ Order(r1, rd, rd, w2, w1, next)
         /\ Dist(r2, next) # Depth => Dist(r1, next) < Depth
  BY DepthAssumption, SMTT(30) DEF Ptr, Inc, Dist, Order

(* A read edge keeps the order. *)
LEMMA RdMoves ==
  ASSUME NEW r2 \in Ptr, NEW r1 \in Ptr, NEW rd \in Ptr,
         NEW w2 \in Ptr, NEW w1 \in Ptr, NEW wr \in Ptr,
         NEW next \in Ptr, next = rd \/ next = Inc(rd),
         next # rd => Dist(rd, w2) > 0,
         Order(r2, r1, rd, w2, w1, wr)
  PROVE  /\ Order(r2, r1, next, w1, wr, wr)
         /\ next # w2 => Dist(next, w1) > 0
  BY DepthAssumption, SMTT(30) DEF Ptr, Inc, Dist, Order

(* Two edges that fall together: where the pointers go to, and which of the *)
(* old and the new one each domain samples.                                 *)
FallTogether(r2, r1, rd, w2, w1, wr, rs, rnext, ws, wnext) ==
  /\ r2 \in Ptr /\ r1 \in Ptr /\ rd \in Ptr /\ w2 \in Ptr /\ w1 \in Ptr /\ wr \in Ptr
  /\ rs \in Ptr /\ rnext \in Ptr /\ ws \in Ptr /\ wnext \in Ptr
  /\ wnext = wr \/ (wnext = Inc(wr) /\ Dist(r2, wr) < Depth)
  /\ rnext = rd \/ (rnext = Inc(rd) /\ Dist(rd, w2) > 0)
  /\ rs = rd \/ rs = rnext
  /\ ws = wr \/ ws = wnext
  /\ Order(r2, r1, rd, w2, w1, wr)

(* They keep the order too. *)
LEMMA BothMove ==
  ASSUME NEW r2, NEW r1, NEW rd, NEW w2, NEW w1, NEW wr,
         NEW rs, NEW rnext, NEW ws, NEW wnext,
         FallTogether(r2, r1, rd, w2, w1, wr, rs, rnext, ws, wnext)
  PROVE  /\ Order(r1, rs, rnext, w1, ws, wnext)
         /\ Dist(r2, wnext) # Depth => Dist(r1, wnext) < Depth
         /\ rnext # w2 => Dist(rnext, w1) > 0
  BY DepthAssumption, SMTT(60) DEF Ptr, Inc, Dist, Order, FallTogether

(* What the order says of the true occupancy. *)
LEMMA OrderBounds ==
  ASSUME NEW r2 \in Ptr, NEW r1 \in Ptr, NEW rd \in Ptr,
         NEW w2 \in Ptr, NEW w1 \in Ptr, NEW wr \in Ptr,
         Order(r2, r1, rd, w2, w1, wr)
  PROVE  /\ Dist(rd, wr) \in 0 .. Depth
         /\ Dist(r2, wr) < Depth => Dist(rd, wr) < Depth
         /\ Dist(rd, w2) > 0 => Dist(rd, wr) > 0
  BY DepthAssumption, SMTT(30) DEF Ptr, Inc, Dist, Order

LEMMA IncInRing ==
  ASSUME NEW p \in Ptr
  PROVE  Inc(p) \in Ptr /\ Inc(p) # p
  BY DepthAssumption DEF Ptr, Inc

LEMMA ZeroInRing == 0 \in Ptr
  BY DepthAssumption DEF Ptr

LEMMA ZeroCounts == 0 \in 0 .. (CountMod - 1)
  BY DepthAssumption
-----------------------------------------------------------------------------
(* The pointer code. *)

LEMMA BinOfGray ==
  ASSUME NEW p \in Ptr
  PROVE  Bin(Gray(p)) = p /\ Gray(p) \in Codes
  BY CodeAssumption DEF Bin, Codes

LEMMA BinOfCode ==
  ASSUME NEW c \in Codes
  PROVE  Bin(c) \in Ptr /\ Gray(Bin(c)) = c
<1>1. PICK p \in Ptr : c = Gray(p)
  BY DEF Codes
<1> QED BY <1>1, BinOfGray

(* A code in flight is caught as the old one or as the new one. *)
LEMMA CaughtInFlight ==
  ASSUME NEW p \in Ptr, NEW next \in {p, Inc(p)},
         NEW seen \in Blend(Gray(p), Gray(next))
  PROVE  seen \in Codes /\ Bin(seen) \in {p, next}
<1>1. seen = Gray(p) \/ seen = Gray(next)
  BY CodeAssumption
<1> QED BY <1>1, BinOfGray, IncInRing
-----------------------------------------------------------------------------
(* The clock edges on the ring. *)

(* The pointers that the crossing registers stand for. *)
R2 == Bin(rd_gray_sync2_wr)
R1 == Bin(rd_gray_sync1_wr)
W2 == Bin(wr_gray_sync2_rd)
W1 == Bin(wr_gray_sync1_rd)

LEMMA OnRing ==
  ASSUME IInv
  PROVE  /\ R2 \in Ptr /\ R1 \in Ptr /\ W2 \in Ptr /\ W1 \in Ptr
         /\ rd_bin \in Ptr /\ wr_bin \in Ptr
         /\ Order(R2, R1, rd_bin, W2, W1, wr_bin)
         /\ ~wr_full_reg => Dist(R2, wr_bin) < Depth
         /\ ~rd_empty_reg => Dist(rd_bin, W2) > 0
  BY BinOfCode DEF IInv, TypeOK, PointerOrder, Order, R2, R1, W2, W1

LEMMA OrderIsEnough ==
  ASSUME Order(R2, R1, rd_bin, W2, W1, wr_bin)',
         ~wr_full_reg' => Dist(R2, wr_bin)' < Depth,
         ~rd_empty_reg' => Dist(rd_bin, W2)' > 0
  PROVE  PointerOrder'
  BY DEF PointerOrder, Order, R2, R1, W2, W1, Dist

(* A write edge: its registers keep their types, the write pointer moves    *)
(* only where the ring has room, and the new flag is that of the ring.      *)
LEMMA WrDomainMoves ==
  ASSUME IInv, NEW en \in BOOLEAN, NEW din \in Data,
         NEW seen \in Codes, WrDomain(en, din, seen)
  PROVE  /\ wr_bin' \in {wr_bin, Inc(wr_bin)} /\ wr_bin' \in Ptr
         /\ wr_bin' # wr_bin <=> wr_fire(en)
         /\ wr_bin' # wr_bin => Dist(R2, wr_bin) < Depth
         /\ ~wr_full_reg' => Dist(R2, wr_bin') # Depth
         /\ R2' = R1 /\ R1' = Bin(seen)
         /\ wr_gray' = Gray(wr_bin') /\ wr_full_reg' \in BOOLEAN
         /\ rd_gray_sync1_wr' \in Codes /\ rd_gray_sync2_wr' \in Codes
         /\ wr_overflow_count' \in 0 .. (CountMod - 1)
         /\ storage' \in [0 .. (Depth - 1) -> Data]
<1>1. TypeOK
  BY DEF IInv
<1>2. /\ wr_bin' = wr_bin_next(en)
      /\ wr_bin' \in {wr_bin, Inc(wr_bin)}
      /\ wr_bin' # wr_bin <=> wr_fire(en)
  BY <1>1, IncInRing DEF WrDomain, wr_bin_next, TypeOK
<1>3. wr_bin' \in Ptr
  BY <1>1, <1>2, IncInRing DEF TypeOK
<1>4. wr_bin' # wr_bin => Dist(R2, wr_bin) < Depth
  BY <1>2, OnRing DEF wr_fire
<1>5. Gray(R2) = rd_gray_sync2_wr
  BY <1>1, BinOfCode DEF TypeOK, R2
<1>6. wr_full_reg' <=> Dist(R2, wr_bin') = Depth
  BY <1>2, <1>3, <1>5, OnRing, CodeAssumption DEF WrDomain, wr_full_next
<1>7. R2' = R1 /\ R1' = Bin(seen)
  BY DEF WrDomain, R2, R1
<1>8. wr_overflow_count' \in 0 .. (CountMod - 1)
  BY <1>1, DepthAssumption DEF WrDomain, TypeOK
<1>9. storage' \in [0 .. (Depth - 1) -> Data]
  BY <1>1 DEF WrDomain, TypeOK
<1> QED BY <1>1, <1>2, <1>3, <1>4, <1>6, <1>7, <1>8, <1>9 DEF WrDomain, TypeOK, wr_full_next

(* A read edge, likewise. *)
LEMMA RdDomainMoves ==
  ASSUME IInv, NEW en \in BOOLEAN, NEW seen \in Codes, RdDomain(en, seen)
  PROVE  /\ rd_bin' \in {rd_bin, Inc(rd_bin)} /\ rd_bin' \in Ptr
         /\ rd_bin' # rd_bin <=> rd_fire(en)
         /\ rd_bin' # rd_bin => Dist(rd_bin, W2) > 0
         /\ ~rd_empty_reg' => rd_bin' # W2
         /\ W2' = W1 /\ W1' = Bin(seen)
         /\ rd_gray' = Gray(rd_bin') /\ rd_empty_reg' \in BOOLEAN
         /\ wr_gray_sync1_rd' \in Codes /\ wr_gray_sync2_rd' \in Codes
         /\ rd_underflow_count' \in 0 .. (CountMod - 1)
         /\ sampled' \in Data
<1>1. TypeOK
  BY DEF IInv
<1>2. /\ rd_bin' = rd_bin_next(en)
      /\ rd_bin' \in {rd_bin, Inc(rd_bin)}
      /\ rd_bin' # rd_bin <=> rd_fire(en)
  BY <1>1, IncInRing DEF RdDomain, rd_bin_next, TypeOK
<1>3. rd_bin' \in Ptr
  BY <1>1, <1>2, IncInRing DEF TypeOK
<1>4. rd_bin' # rd_bin => Dist(rd_bin, W2) > 0
  BY <1>2, OnRing DEF rd_fire
<1>5. Gray(W2) = wr_gray_sync2_rd
  BY <1>1, BinOfCode DEF TypeOK, W2
<1>6. rd_empty_reg' <=> rd_bin' = W2
  BY <1>2, <1>3, <1>5, OnRing, CodeAssumption DEF RdDomain, rd_empty_next
<1>7. W2' = W1 /\ W1' = Bin(seen)
  BY DEF RdDomain, W2, W1
<1>8. rd_underflow_count' \in 0 .. (CountMod - 1)
  BY <1>1, DepthAssumption DEF RdDomain, TypeOK
<1>9. Slot(rd_bin) \in 0 .. (Depth - 1)
  BY <1>1, DepthAssumption DEF TypeOK, Slot, Ptr
<1>10. sampled' \in Data
  BY <1>1, <1>9 DEF RdDomain, TypeOK, dout
<1> QED BY <1>1, <1>2, <1>3, <1>4, <1>6, <1>7, <1>8, <1>10 DEF RdDomain, TypeOK, rd_empty_next
-----------------------------------------------------------------------------
(* The invariant. *)

LEMMA InitInv == Init => IInv
<1> SUFFICES ASSUME Init PROVE IInv
  OBVIOUS
<1>1. Bin(Gray(0)) = 0 /\ Gray(0) \in Codes /\ 0 \in Ptr
  BY BinOfGray, ZeroInRing
<1>2. TypeOK
  BY <1>1, ZeroCounts DEF Init, Registers0, TypeOK
<1>3. PointerOrder
  BY <1>1, DepthAssumption DEF Init, Registers0, PointerOrder, Dist
<1> QED BY <1>2, <1>3 DEF IInv

LEMMA ResetInv ==
  ASSUME IInv, Reset
  PROVE  IInv'
<1>1. Bin(Gray(0)) = 0 /\ Gray(0) \in Codes /\ 0 \in Ptr
  BY BinOfGray, ZeroInRing
<1>2. TypeOK'
  BY <1>1, ZeroCounts DEF IInv, Reset, TypeOK
<1>3. PointerOrder'
  BY <1>1, DepthAssumption DEF Reset, PointerOrder, Dist
<1> QED BY <1>2, <1>3 DEF IInv

LEMMA WrEdgeInv ==
  ASSUME IInv, NEW en \in BOOLEAN, NEW din \in Data,
         WrDomain(en, din, rd_gray), UNCHANGED rdVars
  PROVE  IInv'
<1>1. rd_gray \in Codes /\ Bin(rd_gray) = rd_bin
  BY BinOfGray DEF IInv, TypeOK
<1>2. TypeOK'
  BY <1>1, WrDomainMoves DEF IInv, TypeOK, rdVars
<1>3. /\ R2' = R1 /\ R1' = rd_bin /\ rd_bin' = rd_bin /\ W2' = W2 /\ W1' = W1
      /\ rd_empty_reg' = rd_empty_reg
  BY <1>1, WrDomainMoves DEF rdVars, W2, W1
<1>4. /\ Order(R1, rd_bin, rd_bin, W2, W1, wr_bin')
      /\ Dist(R2, wr_bin') # Depth => Dist(R1, wr_bin') < Depth
  <2>1. /\ wr_bin' \in Ptr /\ (wr_bin' = wr_bin \/ wr_bin' = Inc(wr_bin))
        /\ wr_bin' # wr_bin => Dist(R2, wr_bin) < Depth
    BY <1>1, WrDomainMoves
  <2> QED BY <2>1, OnRing, WrMoves
<1>5. PointerOrder'
  <2>1. Order(R2, R1, rd_bin, W2, W1, wr_bin)'
    BY <1>3, <1>4 DEF Order, Dist
  <2>2. ~wr_full_reg' => Dist(R2, wr_bin)' < Depth
    BY <1>3, <1>4, <1>1, WrDomainMoves DEF Dist
  <2>3. ~rd_empty_reg' => Dist(rd_bin, W2)' > 0
    BY <1>3, OnRing DEF Dist
  <2> QED BY <2>1, <2>2, <2>3, OrderIsEnough
<1> QED BY <1>2, <1>5 DEF IInv

LEMMA RdEdgeInv ==
  ASSUME IInv, NEW en \in BOOLEAN, RdDomain(en, wr_gray), UNCHANGED wrVars
  PROVE  IInv'
<1>1. wr_gray \in Codes /\ Bin(wr_gray) = wr_bin
  BY BinOfGray DEF IInv, TypeOK
<1>2. TypeOK'
  BY <1>1, RdDomainMoves DEF IInv, TypeOK, wrVars
<1>3. /\ W2' = W1 /\ W1' = wr_bin /\ wr_bin' = wr_bin /\ R2' = R2 /\ R1' = R1
      /\ wr_full_reg' = wr_full_reg
  BY <1>1, RdDomainMoves DEF wrVars, R2, R1
<1>4. /\ Order(R2, R1, rd_bin', W1, wr_bin, wr_bin)
      /\ rd_bin' # W2 => Dist(rd_bin', W1) > 0
  <2>1. /\ rd_bin' \in Ptr /\ (rd_bin' = rd_bin \/ rd_bin' = Inc(rd_bin))
        /\ rd_bin' # rd_bin => Dist(rd_bin, W2) > 0
    BY <1>1, RdDomainMoves
  <2> QED BY <2>1, OnRing, RdMoves
<1>5. PointerOrder'
  <2>1. Order(R2, R1, rd_bin, W2, W1, wr_bin)'
    BY <1>3, <1>4 DEF Order, Dist
  <2>2. ~wr_full_reg' => Dist(R2, wr_bin)' < Depth
    BY <1>3, OnRing DEF Dist
  <2>3. ~rd_empty_reg' => Dist(rd_bin, W2)' > 0
    BY <1>3, <1>4, <1>1, RdDomainMoves DEF Dist
  <2> QED BY <2>1, <2>2, <2>3, OrderIsEnough
<1> QED BY <1>2, <1>5 DEF IInv

LEMMA BothEdgesInv ==
  ASSUME IInv, NEW wen \in BOOLEAN, NEW ren \in BOOLEAN, NEW din \in Data,
         NEW rseen \in Blend(rd_gray, Gray(rd_bin_next(ren))),
         NEW wseen \in Blend(wr_gray, Gray(wr_bin_next(wen))),
         WrDomain(wen, din, rseen), RdDomain(ren, wseen)
  PROVE  IInv'
<1>1. /\ wr_bin' = wr_bin_next(wen) /\ wr_bin' \in {wr_bin, Inc(wr_bin)}
      /\ rd_bin' = rd_bin_next(ren) /\ rd_bin' \in {rd_bin, Inc(rd_bin)}
  BY DEF WrDomain, RdDomain, wr_bin_next, rd_bin_next
<1>2. /\ rd_bin \in Ptr /\ wr_bin \in Ptr
      /\ rd_gray = Gray(rd_bin) /\ wr_gray = Gray(wr_bin)
  BY DEF IInv, TypeOK
<1>3. rseen \in Codes /\ Bin(rseen) \in {rd_bin, rd_bin'}
  BY <1>1, <1>2, CaughtInFlight
<1>4. wseen \in Codes /\ Bin(wseen) \in {wr_bin, wr_bin'}
  BY <1>1, <1>2, CaughtInFlight
<1>5. TypeOK'
  BY <1>3, <1>4, WrDomainMoves, RdDomainMoves DEF TypeOK
<1>6. R2' = R1 /\ R1' = Bin(rseen) /\ W2' = W1 /\ W1' = Bin(wseen)
  BY <1>3, <1>4, WrDomainMoves, RdDomainMoves
<1>7. /\ wr_bin' # wr_bin => Dist(R2, wr_bin) < Depth
      /\ ~wr_full_reg' => Dist(R2, wr_bin') # Depth
  BY <1>3, WrDomainMoves
<1>8. /\ rd_bin' # rd_bin => Dist(rd_bin, W2) > 0
      /\ ~rd_empty_reg' => rd_bin' # W2
  BY <1>4, RdDomainMoves
<1>9. /\ Order(R1, Bin(rseen), rd_bin', W1, Bin(wseen), wr_bin')
      /\ Dist(R2, wr_bin') # Depth => Dist(R1, wr_bin') < Depth
      /\ rd_bin' # W2 => Dist(rd_bin', W1) > 0
  <2>1. FallTogether(R2, R1, rd_bin, W2, W1, wr_bin, Bin(rseen), rd_bin', Bin(wseen), wr_bin')
    BY <1>1, <1>2, <1>3, <1>4, <1>7, <1>8, OnRing, IncInRing DEF FallTogether
  <2> QED BY <2>1, BothMove
<1>10. PointerOrder'
  <2>1. Order(R2, R1, rd_bin, W2, W1, wr_bin)'
    BY <1>6, <1>9 DEF Order, Dist
  <2>2. ~wr_full_reg' => Dist(R2, wr_bin)' < Depth
    BY <1>6, <1>7, <1>9 DEF Dist
  <2>3. ~rd_empty_reg' => Dist(rd_bin, W2)' > 0
    BY <1>6, <1>8, <1>9 DEF Dist
  <2> QED BY <2>1, <2>2, <2>3, OrderIsEnough
<1> QED BY <1>5, <1>10 DEF IInv

LEMMA StutterInv ==
  ASSUME IInv, UNCHANGED vars
  PROVE  IInv'
  BY DEF IInv, TypeOK, PointerOrder, vars, wrVars, rdVars, Codes, Dist

LEMMA NextInv == IInv /\ [Next]_vars => IInv'
<1> SUFFICES ASSUME IInv, [Next]_vars PROVE IInv'
  OBVIOUS
<1>1. CASE WrEdge
  BY <1>1, WrEdgeInv DEF WrEdge
<1>2. CASE RdEdge
  BY <1>2, RdEdgeInv DEF RdEdge
<1>3. CASE BothEdges
  BY <1>3, BothEdgesInv DEF BothEdges
<1>4. CASE Reset
  BY <1>4, ResetInv
<1>5. CASE UNCHANGED vars
  BY <1>5, StutterInv
<1> QED BY <1>1, <1>2, <1>3, <1>4, <1>5 DEF Next

THEOREM FifoInvariant == Spec => []IInv
<1>1. Init => IInv
  BY InitInv
<1>2. IInv /\ [Next]_vars => IInv'
  BY NextInv
<1> QED BY <1>1, <1>2, PTL DEF Spec

(* Every register keeps its width, and a crossing register only ever holds  *)
(* the code of a pointer, for every depth (lines 28-32, 64-70, 83-88).      *)
THEOREM TypeCorrect == Spec => []TypeOK
<1>1. IInv => TypeOK
  BY DEF IInv
<1> QED BY <1>1, FifoInvariant, PTL

(* No write over a packet that was not read, no read of a cell that was not *)
(* written, for every depth (the flags of lines 43-47).                     *)
THEOREM FlagsSafe == Spec => []FlagsErrSafely
<1>1. IInv => FlagsErrSafely
  <2> SUFFICES ASSUME IInv PROVE FlagsErrSafely
    OBVIOUS
  <2>1. /\ Dist(rd_bin, wr_bin) \in 0 .. Depth
        /\ Dist(R2, wr_bin) < Depth => Dist(rd_bin, wr_bin) < Depth
        /\ Dist(rd_bin, W2) > 0 => Dist(rd_bin, wr_bin) > 0
    BY OnRing, OrderBounds
  <2> QED BY <2>1, OnRing, DepthAssumption DEF FlagsErrSafely, Occupancy
<1> QED BY <1>1, FifoInvariant, PTL
-----------------------------------------------------------------------------
(* The cells between the pointers as a sequence. *)

Cells == [0 .. (Depth - 1) -> Data]
At(from, i) == Slot(IF from + i - 1 >= 2 * Depth THEN from + i - 1 - 2 * Depth ELSE from + i - 1)

LEMMA DistMoves ==
  ASSUME NEW from \in Ptr, NEW to \in Ptr
  PROVE  /\ Dist(from, to) \in Nat
         /\ Dist(from, to) < Depth => Dist(from, Inc(to)) = Dist(from, to) + 1
         /\ Dist(from, to) > 0 => Dist(Inc(from), to) = Dist(from, to) - 1
  BY DepthAssumption, SMTT(30) DEF Dist, Ptr, Inc

LEMMA AtCells ==
  ASSUME NEW from \in Ptr, NEW i \in 1 .. Depth
  PROVE  /\ At(from, i) \in 0 .. (Depth - 1)
         /\ i < Depth => At(Inc(from), i) = At(from, i + 1)
         /\ At(from, 1) = Slot(from)
  BY DepthAssumption, SMTT(30) DEF At, Slot, Ptr, Inc

(* The cell behind the held ones is none of them. *)
LEMMA AtApart ==
  ASSUME NEW from \in Ptr, NEW to \in Ptr, Dist(from, to) < Depth
  PROVE  /\ \A i \in 1 .. Dist(from, to) : At(from, i) # Slot(to)
         /\ At(from, Dist(from, to) + 1) = Slot(to)
  BY DepthAssumption, SMTT(30) DEF At, Slot, Ptr, Dist

LEMMA HeldIsSeq ==
  ASSUME NEW cells \in Cells, NEW from \in Ptr, NEW to \in Ptr,
         NEW n \in 0 .. Depth, n = Dist(from, to)
  PROVE  /\ Held(cells, from, to) \in Seq(Data)
         /\ Len(Held(cells, from, to)) = n
         /\ \A i \in 1 .. n : Held(cells, from, to)[i] = cells[At(from, i)]
<1>1. \A i \in 1 .. n : cells[At(from, i)] \in Data
  BY AtCells, DepthAssumption DEF Cells
<1>2. Held(cells, from, to) = [i \in 1 .. n |-> cells[At(from, i)]]
  BY DEF Held, At
<1> QED BY <1>1, <1>2, DepthAssumption

LEMMA HeldWrite ==
  ASSUME NEW cells \in Cells, NEW after \in Cells, NEW from \in Ptr, NEW to \in Ptr,
         NEW d \in Data, NEW n \in Nat, n = Dist(from, to), n < Depth,
         after[Slot(to)] = d,
         \A k \in 0 .. (Depth - 1) : k # Slot(to) => after[k] = cells[k]
  PROVE  Held(after, from, Inc(to)) = Append(Held(cells, from, to), d)
<1> DEFINE new == Held(after, from, Inc(to))
           old == Held(cells, from, to)
<1>1. /\ n \in 0 .. Depth /\ n + 1 \in 0 .. Depth /\ n + 1 = Dist(from, Inc(to))
      /\ Inc(to) \in Ptr
  BY DistMoves, IncInRing, DepthAssumption
<1>2. new \in Seq(Data) /\ Len(new) = n + 1 /\ \A i \in 1 .. (n + 1) : new[i] = after[At(from, i)]
  BY <1>1, HeldIsSeq
<1>3. old \in Seq(Data) /\ Len(old) = n /\ \A i \in 1 .. n : old[i] = cells[At(from, i)]
  BY <1>1, HeldIsSeq
<1> HIDE DEF new, old
<1>4. \A i \in 1 .. n : new[i] = old[i]
  <2> SUFFICES ASSUME NEW i \in 1 .. n PROVE new[i] = old[i]
    OBVIOUS
  <2>1. i \in 1 .. Depth /\ i \in 1 .. (n + 1)
    BY DepthAssumption
  <2>2. At(from, i) # Slot(to) /\ At(from, i) \in 0 .. (Depth - 1)
    BY <2>1, AtApart, AtCells
  <2> QED BY <2>1, <2>2, <1>2, <1>3
<1>5. new[n + 1] = d
  <2>1. At(from, n + 1) = Slot(to)
    BY AtApart
  <2> QED BY <2>1, <1>2
<1>6. /\ Append(old, d) \in Seq(Data) /\ Len(Append(old, d)) = n + 1
      /\ \A i \in 1 .. n : Append(old, d)[i] = old[i]
      /\ Append(old, d)[n + 1] = d
  BY <1>3, AppendProperties
<1>7. \A i \in 1 .. (n + 1) : new[i] = Append(old, d)[i]
  <2> SUFFICES ASSUME NEW i \in 1 .. (n + 1) PROVE new[i] = Append(old, d)[i]
    OBVIOUS
  <2>1. i \in 1 .. n \/ i = n + 1
    OBVIOUS
  <2> QED BY <2>1, <1>4, <1>5, <1>6
<1>8. new = Append(old, d)
  BY <1>2, <1>6, <1>7, SeqEqual
<1> QED BY <1>8 DEF new, old

LEMMA HeldRead ==
  ASSUME NEW cells \in Cells, NEW from \in Ptr, NEW to \in Ptr,
         NEW n \in 1 .. Depth, n = Dist(from, to)
  PROVE  /\ Held(cells, from, to) # << >>
         /\ Held(cells, Inc(from), to) = Tail(Held(cells, from, to))
         /\ cells[Slot(from)] = Head(Held(cells, from, to))
<1> DEFINE new == Held(cells, Inc(from), to)
           old == Held(cells, from, to)
<1>1. /\ n \in 0 .. Depth /\ n - 1 \in 0 .. Depth /\ n - 1 = Dist(Inc(from), to)
      /\ Inc(from) \in Ptr
  BY DistMoves, IncInRing, DepthAssumption
<1>2. new \in Seq(Data) /\ Len(new) = n - 1
      /\ \A i \in 1 .. (n - 1) : new[i] = cells[At(Inc(from), i)]
  BY <1>1, HeldIsSeq
<1>3. old \in Seq(Data) /\ Len(old) = n /\ \A i \in 1 .. n : old[i] = cells[At(from, i)]
  BY <1>1, HeldIsSeq
<1> HIDE DEF new, old
<1>4. \A i \in 1 .. (n - 1) : new[i] = old[i + 1]
  <2> SUFFICES ASSUME NEW i \in 1 .. (n - 1) PROVE new[i] = old[i + 1]
    OBVIOUS
  <2>1. i \in 1 .. Depth /\ i < Depth /\ i + 1 \in 1 .. n
    BY DepthAssumption
  <2>2. At(Inc(from), i) = At(from, i + 1)
    BY <2>1, AtCells
  <2> QED BY <2>1, <2>2, <1>2, <1>3
<1>5. old[1] = cells[Slot(from)]
  <2>1. 1 \in 1 .. Depth /\ 1 \in 1 .. n
    BY DepthAssumption
  <2> QED BY <2>1, <1>3, AtCells
<1>6. old # << >>
  BY <1>3
<1>7. Tail(old) \in Seq(Data) /\ Len(Tail(old)) = n - 1
      /\ \A i \in 1 .. (n - 1) : Tail(old)[i] = old[i + 1]
  BY <1>3, <1>6, HeadTailProperties
<1>8. new = Tail(old)
  BY <1>2, <1>4, <1>7, SeqEqual
<1>9. Head(old) = old[1]
  BY <1>3, <1>6
<1> QED BY <1>5, <1>6, <1>8, <1>9 DEF new, old
-----------------------------------------------------------------------------
(* Refinement: every edge is a step of the bounded queue, or changes nothing *)
(* the queue can see.                                                        *)

LEMMA OccupancyOf ==
  ASSUME IInv
  PROVE  /\ Occupancy \in 0 .. Depth /\ Occupancy = Dist(rd_bin, wr_bin)
         /\ rd_bin \in Ptr /\ wr_bin \in Ptr /\ storage \in Cells
         /\ Dist(R2, wr_bin) < Depth => Occupancy < Depth
         /\ Dist(rd_bin, W2) > 0 => Occupancy > 0
         /\ Contents = Held(storage, rd_bin, wr_bin)
         /\ Len(Contents) = Occupancy
<1>1. /\ Dist(rd_bin, wr_bin) \in 0 .. Depth
      /\ Dist(R2, wr_bin) < Depth => Dist(rd_bin, wr_bin) < Depth
      /\ Dist(rd_bin, W2) > 0 => Dist(rd_bin, wr_bin) > 0
  BY OnRing, OrderBounds
<1>2. rd_bin \in Ptr /\ wr_bin \in Ptr /\ storage \in Cells
  BY DEF IInv, TypeOK, Cells
<1>3. Len(Contents) = Dist(rd_bin, wr_bin)
  BY <1>1, <1>2, HeldIsSeq DEF Contents
<1> QED BY <1>1, <1>2, <1>3 DEF Contents, Occupancy

(* What a write edge does to the cells. *)
LEMMA WrDomainCells ==
  ASSUME IInv, NEW en \in BOOLEAN, NEW din \in Data,
         NEW seen \in Codes, WrDomain(en, din, seen)
  PROVE  \/ /\ wr_bin' = wr_bin /\ storage' = storage
            /\ Queue!Count(wr_overflow_count)
         \/ /\ wr_bin' = Inc(wr_bin) /\ wr_overflow_count' = wr_overflow_count
            /\ Occupancy < Depth
            /\ storage' \in Cells /\ storage'[Slot(wr_bin)] = din
            /\ \A k \in 0 .. (Depth - 1) : k # Slot(wr_bin) => storage'[k] = storage[k]
<1>1. CASE wr_fire(en)
  <2>1. wr_bin' = Inc(wr_bin) /\ wr_overflow_count' = wr_overflow_count
    BY <1>1 DEF WrDomain, wr_bin_next, wr_fire
  <2>2. Occupancy < Depth
    BY <1>1, OccupancyOf, OnRing DEF wr_fire
  <2>3. Slot(wr_bin) \in 0 .. (Depth - 1)
    BY OnRing, DepthAssumption DEF Slot, Ptr
  <2>4. storage \in Cells /\ storage' = [storage EXCEPT ![Slot(wr_bin)] = din]
    BY <1>1 DEF WrDomain, IInv, TypeOK, Cells
  <2> QED BY <2>1, <2>2, <2>3, <2>4 DEF Cells
<1>2. CASE ~wr_fire(en)
  BY <1>2 DEF WrDomain, wr_bin_next, Queue!Count
<1> QED BY <1>1, <1>2

(* What a read edge takes. *)
LEMMA RdDomainTakes ==
  ASSUME IInv, NEW en \in BOOLEAN, NEW seen \in Codes, RdDomain(en, seen)
  PROVE  \/ /\ rd_bin' = rd_bin /\ sampled' = sampled
            /\ Queue!Count(rd_underflow_count)
         \/ /\ rd_bin' = Inc(rd_bin) /\ rd_underflow_count' = rd_underflow_count
            /\ Occupancy \in 1 .. Depth
            /\ sampled' = storage[Slot(rd_bin)]
<1>1. CASE rd_fire(en)
  BY <1>1, OccupancyOf, OnRing, DepthAssumption DEF RdDomain, rd_bin_next, rd_fire, dout
<1>2. CASE ~rd_fire(en)
  BY <1>2 DEF RdDomain, rd_bin_next, Queue!Count
<1> QED BY <1>1, <1>2

LEMMA WrEdgeQueue ==
  ASSUME IInv, NEW en \in BOOLEAN, NEW din \in Data,
         WrDomain(en, din, rd_gray), UNCHANGED rdVars
  PROVE  Queue!Next
<1>1. rd_gray \in Codes
  BY BinOfGray DEF IInv, TypeOK
<1>2. rd_bin' = rd_bin /\ sampled' = sampled /\ rd_underflow_count' = rd_underflow_count
  BY DEF rdVars
<1>3. CASE wr_bin' = wr_bin /\ storage' = storage /\ Queue!Count(wr_overflow_count)
  <2>1. Contents' = Contents
    BY <1>2, <1>3 DEF Contents, Held, Dist
  <2> QED BY <1>2, <1>3, <2>1 DEF Queue!Next, Queue!Refuse, Queue!Count
<1>4. CASE /\ wr_bin' = Inc(wr_bin) /\ wr_overflow_count' = wr_overflow_count
           /\ Occupancy < Depth
           /\ storage' \in Cells /\ storage'[Slot(wr_bin)] = din
           /\ \A k \in 0 .. (Depth - 1) : k # Slot(wr_bin) => storage'[k] = storage[k]
  <2>1. Occupancy \in Nat /\ Occupancy = Dist(rd_bin, wr_bin)
    BY OccupancyOf, DepthAssumption
  <2>2. Held(storage', rd_bin, Inc(wr_bin)) = Append(Held(storage, rd_bin, wr_bin), din)
    BY <1>4, <2>1, OccupancyOf, HeldWrite
  <2>3. Contents' = Append(Contents, din)
    BY <1>2, <1>4, <2>2 DEF Contents, Held, Dist
  <2> QED BY <1>2, <1>4, <2>3, OccupancyOf
      DEF Queue!Next, Queue!Accept, Queue!Put, Queue!Count
<1> QED BY <1>1, <1>3, <1>4, WrDomainCells

LEMMA RdEdgeQueue ==
  ASSUME IInv, NEW en \in BOOLEAN, RdDomain(en, wr_gray), UNCHANGED wrVars
  PROVE  Queue!Next
<1>1. wr_gray \in Codes
  BY BinOfGray DEF IInv, TypeOK
<1>2. wr_bin' = wr_bin /\ storage' = storage /\ wr_overflow_count' = wr_overflow_count
  BY DEF wrVars
<1>3. CASE rd_bin' = rd_bin /\ sampled' = sampled /\ Queue!Count(rd_underflow_count)
  <2>1. Contents' = Contents
    BY <1>2, <1>3 DEF Contents, Held, Dist
  <2> QED BY <1>2, <1>3, <2>1 DEF Queue!Next, Queue!Refuse, Queue!Count
<1>4. CASE /\ rd_bin' = Inc(rd_bin) /\ rd_underflow_count' = rd_underflow_count
           /\ Occupancy \in 1 .. Depth
           /\ sampled' = storage[Slot(rd_bin)]
  <2>1. /\ Contents # << >>
        /\ Held(storage, Inc(rd_bin), wr_bin) = Tail(Contents)
        /\ storage[Slot(rd_bin)] = Head(Contents)
    BY <1>4, OccupancyOf, HeldRead
  <2>2. Contents' = Tail(Contents)
    BY <1>2, <1>4, <2>1 DEF Contents, Held, Dist
  <2> QED BY <1>2, <1>4, <2>1, <2>2 DEF Queue!Next, Queue!Deliver, Queue!Take, Queue!Count
<1> QED BY <1>1, <1>3, <1>4, RdDomainTakes

LEMMA BothEdgesQueue ==
  ASSUME IInv, NEW wen \in BOOLEAN, NEW ren \in BOOLEAN, NEW din \in Data,
         NEW rseen \in Codes, NEW wseen \in Codes,
         WrDomain(wen, din, rseen), RdDomain(ren, wseen)
  PROVE  Queue!Next
<1> DEFINE Kept  == wr_bin' = wr_bin /\ storage' = storage /\ Queue!Count(wr_overflow_count)
           Wrote == /\ wr_bin' = Inc(wr_bin) /\ wr_overflow_count' = wr_overflow_count
                    /\ Occupancy < Depth
                    /\ storage' \in Cells /\ storage'[Slot(wr_bin)] = din
                    /\ \A k \in 0 .. (Depth - 1) : k # Slot(wr_bin) => storage'[k] = storage[k]
           Left  == rd_bin' = rd_bin /\ sampled' = sampled /\ Queue!Count(rd_underflow_count)
           Took  == /\ rd_bin' = Inc(rd_bin) /\ rd_underflow_count' = rd_underflow_count
                    /\ Occupancy \in 1 .. Depth
                    /\ sampled' = storage[Slot(rd_bin)]
<1>1. (Kept \/ Wrote) /\ (Left \/ Took)
  BY WrDomainCells, RdDomainTakes
<1>2. Took => /\ Contents # << >>
              /\ Held(storage, Inc(rd_bin), wr_bin) = Tail(Contents)
              /\ storage[Slot(rd_bin)] = Head(Contents)
  BY OccupancyOf, HeldRead
<1>3. CASE Kept /\ Left
  <2>1. Contents' = Contents
    BY <1>3 DEF Contents, Held, Dist
  <2> QED BY <1>3, <2>1 DEF Queue!Next, Queue!Refuse
<1>4. CASE Kept /\ Took
  <2>1. Contents' = Tail(Contents)
    BY <1>2, <1>4 DEF Contents, Held, Dist
  <2> QED BY <1>2, <1>4, <2>1 DEF Queue!Next, Queue!Deliver, Queue!Take
<1>5. CASE Wrote /\ Left
  <2>1. Occupancy \in Nat /\ Occupancy = Dist(rd_bin, wr_bin)
    BY OccupancyOf, DepthAssumption
  <2>2. Held(storage', rd_bin, Inc(wr_bin)) = Append(Held(storage, rd_bin, wr_bin), din)
    BY <1>5, <2>1, OccupancyOf, HeldWrite
  <2>3. Contents' = Append(Contents, din)
    BY <1>5, <2>2 DEF Contents, Held, Dist
  <2> QED BY <1>5, <2>3, OccupancyOf DEF Queue!Next, Queue!Accept, Queue!Put
<1>6. CASE Wrote /\ Took
  <2>1. /\ Occupancy - 1 \in Nat /\ Occupancy - 1 = Dist(Inc(rd_bin), wr_bin)
        /\ Occupancy - 1 < Depth /\ Inc(rd_bin) \in Ptr
    BY <1>6, OccupancyOf, DistMoves, IncInRing, DepthAssumption
  <2>2. Held(storage', Inc(rd_bin), Inc(wr_bin))
          = Append(Held(storage, Inc(rd_bin), wr_bin), din)
    BY <1>6, <2>1, OccupancyOf, HeldWrite
  <2>3. Contents' = Append(Tail(Contents), din)
    BY <1>2, <1>6, <2>2 DEF Contents, Held, Dist
  <2> QED BY <1>2, <1>6, <2>3, OccupancyOf DEF Queue!Next, Queue!AcceptDeliver, Queue!PutTake
<1> QED BY <1>1, <1>3, <1>4, <1>5, <1>6

LEMMA EmptyContents ==
  ASSUME rd_bin = 0, wr_bin = 0
  PROVE  Contents = << >>
<1>1. Dist(rd_bin, wr_bin) = 0
  BY DepthAssumption DEF Dist
<1> QED BY <1>1 DEF Contents, Held

LEMMA ResetQueue ==
  ASSUME Reset
  PROVE  Queue!Next
<1>1. Contents' = << >>
  <2>1. Dist(rd_bin, wr_bin)' = 0
    BY DepthAssumption DEF Dist, Reset
  <2> QED BY <2>1 DEF Contents, Held
<1> QED BY <1>1 DEF Reset, Queue!Next, Queue!Reset

(* The dual-clock FIFO implements the bounded queue for every depth and     *)
(* every pointer code that meets CodeAssumption.                            *)
THEOREM FifoIsQueue == Spec => ImplementsQueue
<1>1. Init => Queue!Init
  BY EmptyContents DEF Init, Registers0, Queue!Init
<1>2. IInv /\ [Next]_vars => [Queue!Next]_Queue!vars
  <2> SUFFICES ASSUME IInv, [Next]_vars PROVE [Queue!Next]_Queue!vars
    OBVIOUS
  <2>1. CASE WrEdge
    BY <2>1, WrEdgeQueue DEF WrEdge
  <2>2. CASE RdEdge
    BY <2>2, RdEdgeQueue DEF RdEdge
  <2>3. CASE BothEdges
    <3>1. PICK wen \in BOOLEAN, ren \in BOOLEAN, din \in Data :
            /\ \E seen \in Blend(rd_gray, Gray(rd_bin_next(ren))) : WrDomain(wen, din, seen)
            /\ \E seen \in Blend(wr_gray, Gray(wr_bin_next(wen))) : RdDomain(ren, seen)
      BY <2>3 DEF BothEdges
    <3>2. /\ rd_bin \in Ptr /\ wr_bin \in Ptr
          /\ rd_gray = Gray(rd_bin) /\ wr_gray = Gray(wr_bin)
          /\ rd_bin_next(ren) \in {rd_bin, Inc(rd_bin)}
          /\ wr_bin_next(wen) \in {wr_bin, Inc(wr_bin)}
      BY DEF IInv, TypeOK, rd_bin_next, wr_bin_next
    <3>3. PICK rseen \in Blend(rd_gray, Gray(rd_bin_next(ren))) : WrDomain(wen, din, rseen)
      BY <3>1
    <3>4. PICK wseen \in Blend(wr_gray, Gray(wr_bin_next(wen))) : RdDomain(ren, wseen)
      BY <3>1
    <3>5. rseen \in Codes /\ wseen \in Codes
      BY <3>2, CaughtInFlight
    <3> QED BY <3>3, <3>4, <3>5, BothEdgesQueue
  <2>4. CASE Reset
    BY <2>4, ResetQueue
  <2>5. CASE UNCHANGED vars
    BY <2>5 DEF vars, wrVars, rdVars, Queue!vars, Contents, Held, Dist
  <2> QED BY <2>1, <2>2, <2>3, <2>4, <2>5 DEF Next
<1> QED BY <1>1, <1>2, FifoInvariant, PTL DEF Spec, ImplementsQueue, Queue!Spec
=============================================================================
