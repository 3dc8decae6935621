------------------------- MODULE HostRuntime_proofs ---------------------------
(***************************************************************************)
(* The registry and sequence properties of HostRuntime, for every number   *)
(* of slots, every set of tickers and every width of the sequence number.  *)
(* TypeOK with the meaning of the phases is inductive and carries the      *)
(* other three invariants, which are inductive relative to it.             *)
(***************************************************************************)
EXTENDS HostRuntime, TLAPS

IInv == TypeOK /\ OneActiveSlotPerSymbol /\ RemapSlotIsClean /\ NextEventIsFresh

(* Before anything happened nothing is enabled and the FPGA is clean. *)
LEMMA InitIInv == ASSUME Init PROVE IInv
<1> USE HostAssumption
<1>1. TypeOK
  BY DEF Init, TypeOK, EmptySlot, Slot, Phases
<1>2. OneActiveSlotPerSymbol
  BY DEF Init, OneActiveSlotPerSymbol, EmptySlot
<1>3. RemapSlotIsClean
  BY DEF Init, RemapSlotIsClean, EmptySlot
<1>4. NextEventIsFresh
  BY DEF Init, NextEventIsFresh, FpgaAccepts
<1> QED BY <1>1, <1>2, <1>3, <1>4 DEF IInv

(* A call of the registry alone changes one slot.  Whatever legal record it  *)
(* leaves there, the invariant holds if an enabled record has no active      *)
(* double and a record that is ready and empty is backed by a clean FPGA.    *)
LEMMA RegistryStep ==
  ASSUME IInv, NEW s \in Slots, NEW r \in Slot,
         slots' = [slots EXCEPT ![s] = r],
         r.enabled <=> r.phase = "Active",
         r.phase \in {"AwaitingFpgaClearAck", "Active"} => r.symbol # None,
         r.enabled => ~DuplicateActiveMapping(s, r.symbol),
         ~(r.phase = "ReadyForAssignment" /\ r.symbol = None)
           \/ (slots[s].phase = "ReadyForAssignment" /\ slots[s].symbol = None),
         UNCHANGED <<next_sequences, running, fpga, rewound>>
  PROVE  IInv'
<1>1. slots'[s] = r /\ \A t \in Slots \ {s} : slots'[t] = slots[t]
  BY DEF IInv, TypeOK
<1>2. TypeOK'
  BY <1>1 DEF IInv, TypeOK, fpga
<1>3. OneActiveSlotPerSymbol'
  <2> SUFFICES ASSUME NEW a \in Slots, NEW b \in Slots, slots'[a].enabled, slots'[b].enabled,
                      slots'[a].symbol = slots'[b].symbol
               PROVE  a = b
    BY DEF OneActiveSlotPerSymbol
  <2>1. CASE a # s /\ b # s
    BY <1>1, <2>1 DEF IInv, OneActiveSlotPerSymbol
  <2>2. CASE a = s /\ b # s
    BY <1>1, <2>2 DEF DuplicateActiveMapping
  <2>3. CASE a # s /\ b = s
    BY <1>1, <2>3 DEF DuplicateActiveMapping
  <2> QED BY <2>1, <2>2, <2>3
<1>4. RemapSlotIsClean'
  <2> SUFFICES ASSUME NEW a \in Slots, slots'[a].phase = "ReadyForAssignment",
                      slots'[a].symbol = None
               PROVE  fpga_symbols[a] = {} /\ last_sequence[a] = None
    BY DEF RemapSlotIsClean, fpga
  <2> QED BY <1>1 DEF IInv, RemapSlotIsClean
<1>5. NextEventIsFresh'
  BY DEF IInv, NextEventIsFresh, FpgaAccepts, fpga
<1> QED BY <1>2, <1>3, <1>4, <1>5 DEF IInv

(* assign_symbol, clear_slot, enable_slot, disable_slot, begin_remap and     *)
(* complete_remap are such calls.                                            *)
LEMMA RegistryCalls ==
  ASSUME IInv, NEW s \in Slots,
         \/ AssignSymbol(s) \/ ClearSlot(s) \/ EnableSlot(s) \/ DisableSlot(s)
         \/ BeginRemap(s) \/ CompleteRemap(s)
  PROVE  IInv'
<1> USE HostAssumption
<1>0. slots[s] \in Slot /\ slots \in [Slots -> Slot]
  BY DEF IInv, TypeOK
<1>1. CASE AssignSymbol(s)
  <2>1. PICK x \in Symbols :
          slots' = [slots EXCEPT ![s] =
            [symbol |-> x, enabled |-> FALSE, phase |-> "ReadyForAssignment"]]
    BY <1>1 DEF AssignSymbol
  <2> DEFINE r == [symbol |-> x, enabled |-> FALSE, phase |-> "ReadyForAssignment"]
  <2>2. r \in Slot /\ r.enabled = FALSE /\ r.phase = "ReadyForAssignment" /\ r.symbol # None
    BY DEF Slot, Phases
  <2>3. slots' = [slots EXCEPT ![s] = r] /\ UNCHANGED <<next_sequences, running, fpga, rewound>>
    BY <1>1, <2>1 DEF AssignSymbol
  <2> HIDE DEF r
  <2> QED BY <2>2, <2>3, RegistryStep
<1>2. CASE ClearSlot(s)
  <2>1. EmptySlot \in Slot /\ EmptySlot.enabled = FALSE /\ EmptySlot.phase = "Empty"
    BY DEF Slot, Phases, EmptySlot
  <2>2. slots' = [slots EXCEPT ![s] = EmptySlot]
        /\ UNCHANGED <<next_sequences, running, fpga, rewound>>
    BY <1>2 DEF ClearSlot, ClearedSlot
  <2> QED BY <2>1, <2>2, RegistryStep
<1>3. CASE EnableSlot(s)
  <2> DEFINE r == [slots[s] EXCEPT !.enabled = TRUE, !.phase = "Active"]
  <2>1. /\ r \in Slot /\ r.enabled = TRUE /\ r.phase = "Active" /\ r.symbol = slots[s].symbol
        /\ slots' = [slots EXCEPT ![s] = r] /\ UNCHANGED <<next_sequences, running, fpga, rewound>>
        /\ slots[s].symbol # None /\ ~DuplicateActiveMapping(s, slots[s].symbol)
    BY <1>0, <1>3 DEF EnableSlot, Slot, Phases
  <2> HIDE DEF r
  <2> QED BY <2>1, RegistryStep
<1>4. CASE DisableSlot(s)
  <2> DEFINE r == [slots[s] EXCEPT !.enabled = FALSE,
                     !.phase = IF @ = "Active" THEN "ReadyForAssignment" ELSE @]
  <2>1. /\ r \in Slot /\ r.enabled = FALSE /\ r.phase # "Active" /\ r.symbol = slots[s].symbol
        /\ slots' = [slots EXCEPT ![s] = r] /\ UNCHANGED <<next_sequences, running, fpga, rewound>>
        /\ slots[s].symbol # None
    BY <1>0, <1>4 DEF DisableSlot, Slot, Phases
  <2> HIDE DEF r
  <2> QED BY <2>1, RegistryStep
<1>5. CASE BeginRemap(s)
  <2> DEFINE r == [slots[s] EXCEPT !.enabled = FALSE, !.phase = "AwaitingFpgaClearAck"]
  <2>1. /\ r \in Slot /\ r.enabled = FALSE /\ r.phase = "AwaitingFpgaClearAck"
        /\ r.symbol = slots[s].symbol /\ slots[s].symbol # None
        /\ slots' = [slots EXCEPT ![s] = r] /\ UNCHANGED <<next_sequences, running, fpga, rewound>>
    BY <1>0, <1>5 DEF BeginRemap, Slot, Phases
  <2> HIDE DEF r
  <2> QED BY <2>1, RegistryStep
<1>6. CASE CompleteRemap(s)
  <2>1. PICK x \in Symbols :
          /\ MayAssign(s, x)
          /\ slots' = [slots EXCEPT ![s] = [symbol |-> x, enabled |-> TRUE, phase |-> "Active"]]
    BY <1>6 DEF CompleteRemap
  <2> DEFINE r == [symbol |-> x, enabled |-> TRUE, phase |-> "Active"]
  <2>2. r \in Slot /\ r.enabled = TRUE /\ r.phase = "Active" /\ r.symbol = x /\ x # None
    BY DEF Slot, Phases
  <2>3. /\ slots' = [slots EXCEPT ![s] = r] /\ UNCHANGED <<next_sequences, running, fpga, rewound>>
        /\ ~DuplicateActiveMapping(s, x)
    BY <1>6, <2>1 DEF CompleteRemap, MayAssign
  <2> HIDE DEF r
  <2> QED BY <2>2, <2>3, RegistryStep
<1> QED BY <1>1, <1>2, <1>3, <1>4, <1>5, <1>6

(* A clear of the slot in the FPGA leaves it clean and open to any number. *)
LEMMA ClearCleans ==
  ASSUME IInv, NEW s \in Slots, FpgaClears(s)
  PROVE  /\ last_sequence' \in [Slots -> 0 .. MaxSequence \union {None}]
         /\ fpga_symbols' \in [Slots -> SUBSET Symbols] /\ rewound' \in [Slots -> BOOLEAN]
         /\ last_sequence'[s] = None /\ fpga_symbols'[s] = {}
         /\ \A t \in Slots \ {s} : /\ last_sequence'[t] = last_sequence[t]
                                   /\ fpga_symbols'[t] = fpga_symbols[t]
                                   /\ rewound'[t] = rewound[t]
BY DEF FpgaClears, IInv, TypeOK

(* The two outcomes of a clear exchange. *)
LEMMA ClearSteps ==
  ASSUME IInv, NEW s \in Slots, ClearFails(s) \/ AcknowledgeClear(s)
  PROVE  IInv'
<1> USE HostAssumption
<1>1. CASE ClearFails(s) /\ UNCHANGED <<fpga, rewound>>
  BY <1>1 DEF ClearFails, IInv, TypeOK, OneActiveSlotPerSymbol, RemapSlotIsClean, NextEventIsFresh,
              FpgaAccepts, fpga
<1>2. CASE ClearFails(s) /\ FpgaClears(s)
  <2>1. UNCHANGED <<slots, next_sequences, running>>
    BY <1>2 DEF ClearFails
  <2>2. TypeOK'
    BY <1>2, <2>1, ClearCleans DEF IInv, TypeOK
  <2>3. OneActiveSlotPerSymbol'
    BY <2>1 DEF IInv, OneActiveSlotPerSymbol
  <2>4. RemapSlotIsClean'
    BY <1>2, <2>1, ClearCleans DEF IInv, RemapSlotIsClean
  <2>5. NextEventIsFresh'
    BY <1>2, <2>1, ClearCleans DEF IInv, NextEventIsFresh, FpgaAccepts
  <2> QED BY <2>2, <2>3, <2>4, <2>5 DEF IInv
<1>3. CASE AcknowledgeClear(s)
  <2> DEFINE r == [symbol |-> None, enabled |-> FALSE, phase |-> "ReadyForAssignment"]
  <2>1. r \in Slot /\ r.enabled = FALSE /\ r.phase = "ReadyForAssignment" /\ r.symbol = None
    BY DEF Slot, Phases
  <2>2. /\ slots' = [slots EXCEPT ![s] = r] /\ UNCHANGED <<next_sequences, running>>
        /\ FpgaClears(s)
    BY <1>3 DEF AcknowledgeClear
  <2> HIDE DEF r
  <2>3. slots'[s] = r /\ \A t \in Slots \ {s} : slots'[t] = slots[t]
    BY <2>2 DEF IInv, TypeOK
  <2>4. TypeOK'
    BY <2>1, <2>2, <2>3, ClearCleans DEF IInv, TypeOK
  <2>5. OneActiveSlotPerSymbol'
    BY <2>1, <2>3 DEF IInv, OneActiveSlotPerSymbol
  <2>6. RemapSlotIsClean'
    BY <2>2, <2>3, ClearCleans DEF IInv, RemapSlotIsClean
  <2>7. NextEventIsFresh'
    BY <2>2, ClearCleans DEF IInv, NextEventIsFresh, FpgaAccepts
  <2> QED BY <2>4, <2>5, <2>6, <2>7 DEF IInv
<1> QED BY <1>1, <1>2, <1>3 DEF ClearFails

(* Sending an event: the number given is below the next one, received or not. *)
LEMMA SendStep ==
  ASSUME IInv, NEW s \in Slots, SendEvent(s)
  PROVE  IInv'
<1> USE HostAssumption
<1>1. /\ UNCHANGED <<slots, running, rewound>>
      /\ next_sequences' = [next_sequences EXCEPT ![s] = next_sequences[s] + 1]
      /\ next_sequences[s] \in 0 .. MaxSequence /\ next_sequences[s] < MaxSequence
      /\ slots[s].symbol \in Symbols /\ slots[s].enabled
  BY DEF SendEvent, NumberAfter, IInv, TypeOK, Slot
<1>2. next_sequences' \in [Slots -> 0 .. MaxSequence]
  BY <1>1 DEF IInv, TypeOK
<1>3. \/ UNCHANGED fpga
      \/ /\ last_sequence' = [last_sequence EXCEPT ![s] = next_sequences[s]]
         /\ fpga_symbols' = [fpga_symbols EXCEPT ![s] = @ \union {slots[s].symbol}]
  BY DEF SendEvent
<1>4. TypeOK'
  BY <1>1, <1>2, <1>3 DEF IInv, TypeOK, fpga
<1>5. OneActiveSlotPerSymbol'
  BY <1>1 DEF IInv, OneActiveSlotPerSymbol
<1>6. RemapSlotIsClean'
  BY <1>1, <1>3 DEF IInv, TypeOK, RemapSlotIsClean, fpga
<1>7. NextEventIsFresh'
  <2> SUFFICES ASSUME NEW t \in Slots PROVE rewound[t] \/ FpgaAccepts(t, next_sequences[t])'
    BY <1>1 DEF NextEventIsFresh
  <2>1. rewound[t] \/ FpgaAccepts(t, next_sequences[t])
    BY DEF IInv, TypeOK, NextEventIsFresh
  <2>2. last_sequence[t] = None \/ last_sequence[t] \in Nat
    BY DEF IInv, TypeOK
  <2>3. next_sequences'[t] = IF t = s THEN next_sequences[t] + 1 ELSE next_sequences[t]
    BY <1>1 DEF IInv, TypeOK
  <2>4. last_sequence'[t] = last_sequence[t] \/ (t = s /\ last_sequence'[t] = next_sequences[t])
    BY <1>3 DEF IInv, TypeOK, fpga
  <2>5. next_sequences[t] \in Nat
    BY DEF IInv, TypeOK
  <2> QED BY <2>1, <2>2, <2>3, <2>4, <2>5 DEF FpgaAccepts, IInv, NextEventIsFresh
<1> QED BY <1>4, <1>5, <1>6, <1>7 DEF IInv

(* SequenceOverflow, a rewritten number, and a restart of the process. *)
LEMMA OtherSteps ==
  ASSUME IInv, HostRestart \/ \E s \in Slots : SequencesRunOut(s) \/ SetSequence(s)
  PROVE  IInv'
<1> USE HostAssumption
<1>1. CASE HostRestart
  <2>1. /\ slots' = [s \in Slots |-> EmptySlot] /\ next_sequences' = [s \in Slots |-> 0]
        /\ running' = TRUE /\ rewound' = [s \in Slots |-> TRUE] /\ UNCHANGED fpga
    BY <1>1 DEF HostRestart
  <2>2. TypeOK'
    BY <2>1 DEF IInv, TypeOK, EmptySlot, Slot, Phases, fpga
  <2> QED BY <2>1, <2>2 DEF IInv, OneActiveSlotPerSymbol, RemapSlotIsClean, NextEventIsFresh, EmptySlot
<1>2. ASSUME NEW s \in Slots, SequencesRunOut(s) PROVE IInv'
  BY <1>2 DEF SequencesRunOut, IInv, TypeOK, OneActiveSlotPerSymbol, RemapSlotIsClean,
              NextEventIsFresh, FpgaAccepts, fpga
<1>3. ASSUME NEW s \in Slots, SetSequence(s) PROVE IInv'
  <2>1. PICK n \in 0 .. MaxSequence :
          /\ next_sequences' = [next_sequences EXCEPT ![s] = n]
          /\ rewound' = [rewound EXCEPT ![s] = @ \/ n < next_sequences[s]]
    BY <1>3 DEF SetSequence
  <2>2. UNCHANGED <<slots, running, last_sequence, fpga_symbols>>
    BY <1>3 DEF SetSequence, fpga
  <2>3. rewound' \in [Slots -> BOOLEAN] /\ next_sequences' \in [Slots -> 0 .. MaxSequence]
    <3>1. (rewound[s] \/ n < next_sequences[s]) \in BOOLEAN
      OBVIOUS
    <3> QED BY <2>1, <3>1 DEF IInv, TypeOK
  <2>4. NextEventIsFresh'
    <3> SUFFICES ASSUME NEW t \in Slots PROVE rewound'[t] \/ FpgaAccepts(t, next_sequences[t])'
      BY DEF NextEventIsFresh
    <3>1. rewound[t] \/ FpgaAccepts(t, next_sequences[t])
      BY DEF IInv, NextEventIsFresh
    <3>2. next_sequences[t] \in Nat /\ last_sequence[t] \in Nat \union {None}
      BY DEF IInv, TypeOK
    <3>3. CASE t # s
      BY <2>1, <2>2, <3>1, <3>3 DEF IInv, TypeOK, FpgaAccepts
    <3>4. CASE t = s
      <4>1. next_sequences'[s] = n
        BY <2>1 DEF IInv, TypeOK
      <4>2. rewound[s] \/ n < next_sequences[s] => rewound'[s]
        BY <2>1, Zenon DEF IInv, TypeOK
      <4>3. CASE rewound[s] \/ n < next_sequences[s]
        BY <3>4, <4>2, <4>3
      <4>4. CASE ~rewound[s] /\ ~(n < next_sequences[s])
        <5>1. last_sequence[s] = None \/ last_sequence[s] < next_sequences[s]
          BY <3>1, <3>4, <4>4 DEF FpgaAccepts
        <5>2. last_sequence[s] = None \/ last_sequence[s] < n
          BY <3>2, <3>4, <4>4, <5>1
        <5> QED BY <2>2, <3>4, <4>1, <5>2 DEF FpgaAccepts
      <4> QED BY <4>3, <4>4
    <3> QED BY <3>3, <3>4
  <2>5. TypeOK'
    BY <2>2, <2>3 DEF IInv, TypeOK
  <2> QED BY <2>2, <2>4, <2>5 DEF IInv, OneActiveSlotPerSymbol, RemapSlotIsClean
<1> QED BY <1>1, <1>2, <1>3

(* Every step keeps the invariant. *)
LEMMA NextIInv == ASSUME IInv, [Next]_vars PROVE IInv'
<1>1. CASE HostRestart
  BY <1>1, OtherSteps
<1>2. ASSUME NEW s \in Slots, SlotStep(s) PROVE IInv'
  BY <1>2, RegistryCalls, ClearSteps, SendStep, OtherSteps DEF SlotStep
<1>3. CASE UNCHANGED vars
  BY <1>3 DEF vars, fpga, IInv, TypeOK, OneActiveSlotPerSymbol, RemapSlotIsClean, NextEventIsFresh,
              FpgaAccepts
<1> QED BY <1>1, <1>2, <1>3 DEF Next

(* The invariant the other results rest on holds of every behaviour. *)
THEOREM HostInvariant == Spec => []IInv
<1>1. Init => IInv
  BY InitIInv
<1>2. IInv /\ [Next]_vars => IInv'
  BY NextIInv
<1> QED BY <1>1, <1>2, PTL DEF Spec

(* Types and phases. *)
THEOREM TypeCorrect == Spec => []TypeOK
<1>1. IInv => TypeOK
  BY DEF IInv
<1> QED BY <1>1, HostInvariant, PTL

(* No two enabled slots carry the same ticker. *)
THEOREM NoDoubleTicker == Spec => []OneActiveSlotPerSymbol
<1>1. IInv => OneActiveSlotPerSymbol
  BY DEF IInv
<1> QED BY <1>1, HostInvariant, PTL

(* A coordinated remap only ever fills a slot that is clean in the FPGA. *)
THEOREM RemapIsClean == Spec => []RemapSlotIsClean
<1>1. IInv => RemapSlotIsClean
  BY DEF IInv
<1> QED BY <1>1, HostInvariant, PTL

(* The FPGA takes the next event of a slot whose numbers were not set back. *)
THEOREM NextEventAccepted == Spec => []NextEventIsFresh
<1>1. IInv => NextEventIsFresh
  BY DEF IInv
<1> QED BY <1>1, HostInvariant, PTL
=============================================================================
