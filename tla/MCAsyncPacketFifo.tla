------------------------- MODULE MCAsyncPacketFifo --------------------------
(* The FIFO with the binary-to-Gray conversion of the RTL, for TLC. *)
EXTENDS AsyncPacketFifo

Bit(n, i) == (n \div 2 ^ i) % 2

(* (n >> 1) ^ n: bit i of the code is 1 when bits i and i + 1 of n differ. *)
GrayTable == [n \in Ptr |-> {i \in 0 .. (PtrWidth - 1) : Bit(n, i) # Bit(n, i + 1)}]
GrayOf(n) == GrayTable[n]
=============================================================================
