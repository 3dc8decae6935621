------------------------- MODULE BoundedPacketQueue -------------------------
(***************************************************************************)
(* What a packet FIFO promises to the two logic domains it joins: packets  *)
(* leave in the order they entered, none is lost or duplicated once it was *)
(* accepted, no more than Depth are held, and a refused write or an empty  *)
(* read leaves the contents alone and is counted.  A refusal is allowed at *)
(* any time: the status flags may be pessimistic.                          *)
(***************************************************************************)
EXTENDS Naturals, Sequences

CONSTANTS
  Data,      (* the packets *)
  Depth,     (* how many packets the queue holds *)
  CountMod   (* the diagnostic counters count modulo this *)

VARIABLES
  queue,       (* accepted and not yet taken, oldest first *)
  sampled,     (* what the reader took last *)
  overflows,   (* refused writes *)
  underflows   (* reads refused because nothing was visible *)

vars == <<queue, sampled, overflows, underflows>>

Init ==
  /\ queue = << >>
  /\ sampled \in Data
  /\ overflows = 0
  /\ underflows = 0

(* The two sides act at the same instant or one at a time. *)
Put(d)    == Len(queue) < Depth /\ queue' = Append(queue, d)
Take      == queue # << >> /\ queue' = Tail(queue) /\ sampled' = Head(queue)
PutTake(d) ==
  /\ Len(queue) < Depth
  /\ queue # << >>
  /\ queue' = Append(Tail(queue), d)
  /\ sampled' = Head(queue)

Count(c) == c' \in {c, (c + 1) % CountMod}

Accept == \E d \in Data : Put(d) /\ UNCHANGED sampled /\ UNCHANGED overflows /\ Count(underflows)
Deliver == Take /\ Count(overflows) /\ UNCHANGED underflows
AcceptDeliver == \E d \in Data : PutTake(d) /\ UNCHANGED <<overflows, underflows>>
Refuse == UNCHANGED <<queue, sampled>> /\ Count(overflows) /\ Count(underflows)

(* The shared reset empties the queue. *)
Reset ==
  /\ queue' = << >>
  /\ overflows' = 0
  /\ underflows' = 0
  /\ UNCHANGED sampled

Next == Accept \/ Deliver \/ AcceptDeliver \/ Refuse \/ Reset

Spec == Init /\ [][Next]_vars
=============================================================================
