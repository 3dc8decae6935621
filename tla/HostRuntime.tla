---------------------------- MODULE HostRuntime -----------------------------
(***************************************************************************)
(* The host's view of the FPGA slots: host/src/symbol_registry.cpp (which  *)
(* ticker a slot carries, and the remap state machine), sequence_manager   *)
(* .cpp (the next sequence number of a slot) and the loop of               *)
(* trading_engine.cpp that stamps an event and sends it, together with     *)
(* what the FPGA keeps of a slot: the last sequence accepted               *)
(* (market_state_engine.sv) and the tickers its state stems from.          *)
(*                                                                         *)
(* A refused call changes nothing, so its refusal is the guard.            *)
(***************************************************************************)
EXTENDS Naturals, FiniteSets

CONSTANTS
  Slots,        (* 0 .. capacity - 1 *)
  Symbols,      (* tickers *)
  None,         (* no ticker; no sequence accepted yet *)
  MaxSequence   (* the largest 32-bit number, scaled down *)

ASSUME HostAssumption ==
  /\ None \notin Symbols /\ None \notin Nat
  /\ MaxSequence \in Nat \ {0}

Phases == {"Empty", "Active", "AwaitingFpgaClearAck", "ReadyForAssignment"}
Slot == [symbol : Symbols \union {None}, enabled : BOOLEAN, phase : Phases]

VARIABLES
  slots,           (* SymbolRegistry::slots_ *)
  next_sequences,  (* SequenceManager::next_sequences_ *)
  running,         (* the engine's loop has not ended *)
  last_sequence,   (* FPGA: last sequence accepted for a slot, or None *)
  fpga_symbols,    (* history: tickers of the events a slot of the FPGA reflects *)
  rewound          (* history: sequences restarted with no clear of the slot since *)

fpga == <<last_sequence, fpga_symbols>>
vars == <<slots, next_sequences, running, fpga, rewound>>

EmptySlot == [symbol |-> None, enabled |-> FALSE, phase |-> "Empty"]

Init ==
  /\ slots = [s \in Slots |-> EmptySlot]
  /\ next_sequences = [s \in Slots |-> 0]
  /\ running = TRUE
  /\ last_sequence = [s \in Slots |-> None]
  /\ fpga_symbols = [s \in Slots |-> {}]
  /\ rewound = [s \in Slots |-> FALSE]
-----------------------------------------------------------------------------
(* A slot is compared with itself only. *)
BugComparesOwnSlot(s, x) == slots[s].enabled /\ slots[s].symbol = x
DuplicateActiveMapping(s, x) == \E t \in Slots \ {s} : slots[t].enabled /\ slots[t].symbol = x

(* Whether assign_symbol and enable_slot go through. *)
MayAssign(s, x) ==
  /\ ~DuplicateActiveMapping(s, x)
  /\ ~slots[s].enabled /\ slots[s].phase # "AwaitingFpgaClearAck"

AssignSymbol(s) ==
  /\ \E x \in Symbols :
       /\ MayAssign(s, x)
       /\ slots' = [slots EXCEPT ![s] =
            [symbol |-> x, enabled |-> FALSE, phase |-> "ReadyForAssignment"]]
  /\ UNCHANGED <<next_sequences, running, fpga, rewound>>

(* A cleared slot is made ready for the remap although nobody asked the FPGA. *)
BugClearedIsReady == [symbol |-> None, enabled |-> FALSE, phase |-> "ReadyForAssignment"]
ClearedSlot == EmptySlot

ClearSlot(s) ==
  /\ slots[s].phase # "AwaitingFpgaClearAck"
  /\ slots' = [slots EXCEPT ![s] = ClearedSlot]
  /\ UNCHANGED <<next_sequences, running, fpga, rewound>>

BugEnableDuringRemap(s) ==
  /\ slots[s].symbol # None /\ ~DuplicateActiveMapping(s, slots[s].symbol)
  /\ slots' = [slots EXCEPT ![s].enabled = TRUE]
  /\ UNCHANGED <<next_sequences, running, fpga, rewound>>

EnableSlot(s) ==
  /\ slots[s].symbol # None
  /\ slots[s].phase # "AwaitingFpgaClearAck"
  /\ ~DuplicateActiveMapping(s, slots[s].symbol)
  /\ slots' = [slots EXCEPT ![s].enabled = TRUE, ![s].phase = "Active"]
  /\ UNCHANGED <<next_sequences, running, fpga, rewound>>

DisableSlot(s) ==
  /\ slots[s].symbol # None
  /\ slots' = [slots EXCEPT ![s].enabled = FALSE,
                            ![s].phase = IF @ = "Active" THEN "ReadyForAssignment" ELSE @]
  /\ UNCHANGED <<next_sequences, running, fpga, rewound>>

BeginRemap(s) ==
  /\ slots[s].symbol # None /\ slots[s].enabled /\ slots[s].phase = "Active"
  /\ slots' = [slots EXCEPT ![s].enabled = FALSE, ![s].phase = "AwaitingFpgaClearAck"]
  /\ UNCHANGED <<next_sequences, running, fpga, rewound>>

(* What CLEAR_SYMBOL_STATE does to the slot in the FPGA. *)
FpgaClears(s) ==
  /\ last_sequence' = [last_sequence EXCEPT ![s] = None]
  /\ fpga_symbols' = [fpga_symbols EXCEPT ![s] = {}]
  /\ rewound' = [rewound EXCEPT ![s] = FALSE]

(* The exchange failed: the command was carried out, or it never arrived. *)
ClearFails(s) ==
  /\ slots[s].phase = "AwaitingFpgaClearAck"
  /\ FpgaClears(s) \/ UNCHANGED <<fpga, rewound>>
  /\ UNCHANGED <<slots, next_sequences, running>>

(* The slot is released on the timeout of the exchange, not on its answer. *)
BugReleaseWithoutAck(s) ==
  /\ slots[s].phase = "AwaitingFpgaClearAck"
  /\ slots' = [slots EXCEPT ![s] =
       [symbol |-> None, enabled |-> FALSE, phase |-> "ReadyForAssignment"]]
  /\ UNCHANGED <<next_sequences, running, fpga, rewound>>

(* The CLEAR exchange succeeds and acknowledge_clear is called on its answer. *)
AcknowledgeClear(s) ==
  /\ slots[s].phase = "AwaitingFpgaClearAck"
  /\ FpgaClears(s)
  /\ slots' = [slots EXCEPT ![s] =
       [symbol |-> None, enabled |-> FALSE, phase |-> "ReadyForAssignment"]]
  /\ UNCHANGED <<next_sequences, running>>

(* complete_remap: assign, then enable. *)
CompleteRemap(s) ==
  /\ slots[s].phase = "ReadyForAssignment" /\ slots[s].symbol = None
  /\ \E x \in Symbols :
       /\ MayAssign(s, x)
       /\ slots' = [slots EXCEPT ![s] = [symbol |-> x, enabled |-> TRUE, phase |-> "Active"]]
  /\ UNCHANGED <<next_sequences, running, fpga, rewound>>
-----------------------------------------------------------------------------
(* CHECK_SEQUENCE of the market engine. *)
FpgaAccepts(s, sequence) == last_sequence[s] = None \/ last_sequence[s] < sequence

(* A number is given again when the transfer is reported as failed. *)
BugNumberReused(s, ok) == IF ok THEN next_sequences[s] + 1 ELSE next_sequences[s]
NumberAfter(s, ok) == next_sequences[s] + 1

(* One pass of TradingEngine::run: the event is stamped, then sent; the      *)
(* number is used up whether or not the transfer succeeds, and a transfer    *)
(* that is reported as failed may have arrived.                              *)
SendEvent(s) ==
  /\ running /\ slots[s].symbol # None /\ slots[s].enabled
  /\ next_sequences[s] < MaxSequence
  /\ \E ok, arrived \in BOOLEAN :
       /\ ok => arrived
       /\ next_sequences' = [next_sequences EXCEPT ![s] = NumberAfter(s, ok)]
       /\ IF arrived /\ FpgaAccepts(s, next_sequences[s])
          THEN /\ last_sequence' = [last_sequence EXCEPT ![s] = next_sequences[s]]
               /\ fpga_symbols' = [fpga_symbols EXCEPT ![s] = @ \union {slots[s].symbol}]
          ELSE UNCHANGED fpga
  /\ UNCHANGED <<slots, running, rewound>>

(* SequenceOverflow ends the loop. *)
SequencesRunOut(s) ==
  /\ running /\ slots[s].symbol # None /\ slots[s].enabled
  /\ next_sequences[s] = MaxSequence
  /\ running' = FALSE
  /\ UNCHANGED <<slots, next_sequences, fpga, rewound>>

(* SequenceManager::reset and set_next; only tests call them. *)
SetSequence(s) ==
  /\ \E n \in 0 .. MaxSequence :
       /\ next_sequences' = [next_sequences EXCEPT ![s] = n]
       /\ rewound' = [rewound EXCEPT ![s] = @ \/ n < next_sequences[s]]
  /\ UNCHANGED <<slots, running, fpga>>

(* The process starts again; the FPGA has no reset from the host and keeps   *)
(* its state.                                                                *)
HostRestart ==
  /\ slots' = [s \in Slots |-> EmptySlot]
  /\ next_sequences' = [s \in Slots |-> 0]
  /\ running' = TRUE
  /\ rewound' = [s \in Slots |-> TRUE]
  /\ UNCHANGED fpga

SlotStep(s) ==
  \/ AssignSymbol(s) \/ ClearSlot(s) \/ EnableSlot(s) \/ DisableSlot(s)
  \/ BeginRemap(s) \/ ClearFails(s) \/ AcknowledgeClear(s) \/ CompleteRemap(s)
  \/ SendEvent(s) \/ SequencesRunOut(s) \/ SetSequence(s)

Next == HostRestart \/ \E s \in Slots : SlotStep(s)

Spec == Init /\ [][Next]_vars
-----------------------------------------------------------------------------
(* Types, and the phases mean what they say: exactly the enabled slots are  *)
(* Active, and only Active or waiting slots are sure to carry a ticker.     *)
TypeOK ==
  /\ slots \in [Slots -> Slot]
  /\ next_sequences \in [Slots -> 0 .. MaxSequence] /\ running \in BOOLEAN
  /\ last_sequence \in [Slots -> 0 .. MaxSequence \union {None}]
  /\ fpga_symbols \in [Slots -> SUBSET Symbols] /\ rewound \in [Slots -> BOOLEAN]
  /\ \A s \in Slots :
       /\ slots[s].enabled <=> slots[s].phase = "Active"
       /\ slots[s].phase = "AwaitingFpgaClearAck" => slots[s].symbol # None
       /\ slots[s].phase = "Active" => slots[s].symbol # None

(* No two slots that feed the FPGA carry the same ticker, in whatever order *)
(* slots are assigned, enabled, disabled and remapped.                      *)
OneActiveSlotPerSymbol ==
  \A s, t \in Slots :
    (slots[s].enabled /\ slots[t].enabled /\ slots[s].symbol = slots[t].symbol) => s = t

(* A slot that complete_remap would fill is clean in the FPGA too.          *)
RemapSlotIsClean ==
  \A s \in Slots :
    (slots[s].phase = "ReadyForAssignment" /\ slots[s].symbol = None)
      => (fpga_symbols[s] = {} /\ last_sequence[s] = None)

(* Unless the host's numbers were set back with no clear of the slot, the   *)
(* FPGA takes the next event of every slot: lost transfers, remaps, and     *)
(* clears whose answer was lost never leave the host behind the FPGA.       *)
NextEventIsFresh ==
  \A s \in Slots : rewound[s] \/ FpgaAccepts(s, next_sequences[s])

(* A slot must be clear-acknowledged before assignment: as long as the host *)
(* was not restarted, what the FPGA remembers of an enabled slot stems from *)
(* the ticker the slot is assigned to (symbol_registry.cpp:60).             *)
FpgaHoldsOnlyItsSymbol ==
  \A s \in Slots :
    (slots[s].enabled /\ ~rewound[s]) => fpga_symbols[s] \subseteq {slots[s].symbol}
=============================================================================
