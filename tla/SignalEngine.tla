---------------------------- MODULE SignalEngine ----------------------------
(***************************************************************************)
(* fpga/rtl/strategy/signal_engine.sv with the registers of                *)
(* strategy_config.sv that steer it: from each accepted feature record it  *)
(* derives a direction, fires a candidate on a new edge or when the        *)
(* cooldown runs out, and holds the signal record until it is taken.       *)
(*                                                                         *)
(* A feature record is abstracted to whether all five long conditions and  *)
(* whether all five short conditions hold for it; thresholds may be set so *)
(* that both do.  Score and reason bits only report and are left out.      *)
(***************************************************************************)
EXTENDS Naturals

CONSTANTS
  Symbols,      (* slots *)
  MaxCooldown,  (* largest value written to signal_cooldown_events; 2^32 - 1 in the RTL *)
  Horizon,      (* bound: the history counter since stops here *)
  NoSignal, NONE, LONG, SHORT

ASSUME SignalAssumption ==
  /\ MaxCooldown \in Nat /\ Horizon \in Nat /\ MaxCooldown <= Horizon
  /\ NONE # LONG /\ NONE # SHORT /\ LONG # SHORT
  /\ NoSignal \notin [sym : Symbols, action : {NONE, LONG, SHORT}]

Directions == {LONG, SHORT}
Actions == {NONE, LONG, SHORT}
Feature == [sym : Symbols, long : BOOLEAN, short : BOOLEAN]

VARIABLES
  strategy_enable, long_enable, short_enable, symbol_enable, signal_cooldown_events,
  previous_condition, last_emitted_action, cooldown_remaining,  (* per slot *)
  signal,        (* the signal record on offer, or NoSignal *)
  signal_ready,  (* the consumer's ready at the next edge *)
  since,         (* history: features of the slot accepted since its last candidate *)
  loaded,        (* history: the cooldown in force at that candidate *)
  disarmed       (* history: no feature of the slot since it was cleared, or the last *)
                 (* one found no condition or its direction switched off              *)

config == <<strategy_enable, long_enable, short_enable, symbol_enable, signal_cooldown_events>>
slots == <<previous_condition, last_emitted_action, cooldown_remaining, since, loaded, disarmed>>
vars == <<config, slots, signal, signal_ready>>

Init ==
  /\ strategy_enable = FALSE /\ long_enable = TRUE /\ short_enable = TRUE
  /\ symbol_enable = [s \in Symbols |-> TRUE]
  /\ signal_cooldown_events \in 0 .. MaxCooldown
  /\ previous_condition = [s \in Symbols |-> NONE]
  /\ last_emitted_action = [s \in Symbols |-> NONE]
  /\ cooldown_remaining = [s \in Symbols |-> 0]
  /\ signal = NoSignal /\ signal_ready \in BOOLEAN
  /\ since = [s \in Symbols |-> 0] /\ loaded = [s \in Symbols |-> 0]
  /\ disarmed = [s \in Symbols |-> TRUE]

(* Long has priority when the thresholds overlap. *)
RawDirection(f) == IF f.long THEN LONG ELSE IF f.short THEN SHORT ELSE NONE

SideEnabled(d) == (d = LONG => long_enable) /\ (d = SHORT => short_enable)
Enabled(f) == strategy_enable /\ symbol_enable[f.sym] /\ SideEnabled(RawDirection(f))
Eligible(f) == Enabled(f) /\ RawDirection(f) # NONE

DirectionEdge(f) == RawDirection(f) # NONE /\ RawDirection(f) # previous_condition[f.sym]
CooldownExpiryRepeat(f) ==
  /\ signal_cooldown_events # 0
  /\ cooldown_remaining[f.sym] = 1
  /\ RawDirection(f) = last_emitted_action[f.sym]

(* An edge fires whatever the cooldown. *)
BugEdgeIgnoresCooldown(f) == Eligible(f) /\ (DirectionEdge(f) \/ CooldownExpiryRepeat(f))

(* Only edges fire: a condition that lasts is never repeated. *)
BugNoRepeat(f) == Eligible(f) /\ DirectionEdge(f) /\ cooldown_remaining[f.sym] = 0

CandidateFires(f) ==
  /\ Eligible(f)
  /\ (DirectionEdge(f) /\ cooldown_remaining[f.sym] = 0) \/ CooldownExpiryRepeat(f)

(* A side that is switched off does not disarm. *)
BugConditionOutlivesDisable(f) == RawDirection(f)
Condition(f) == IF Enabled(f) THEN RawDirection(f) ELSE NONE

feature_ready    == signal = NoSignal \/ signal_ready
slot_reset_ready == signal = NoSignal \/ signal_ready

BugCountsThroughZero(f) ==
  cooldown_remaining' = [cooldown_remaining EXCEPT ![f.sym] =
    IF CandidateFires(f) THEN signal_cooldown_events ELSE @ - 1]

Cooldown(f) ==
  cooldown_remaining' = [cooldown_remaining EXCEPT ![f.sym] =
    IF CandidateFires(f) THEN signal_cooldown_events ELSE IF @ # 0 THEN @ - 1 ELSE 0]

AcceptFeature(f) ==
  /\ feature_ready
  /\ signal' = [sym |-> f.sym, action |-> IF CandidateFires(f) THEN RawDirection(f) ELSE NONE]
  /\ previous_condition' = [previous_condition EXCEPT ![f.sym] = Condition(f)]
  /\ last_emitted_action' = [last_emitted_action EXCEPT ![f.sym] =
       IF CandidateFires(f) THEN RawDirection(f) ELSE @]
  /\ Cooldown(f)
  /\ since' = [since EXCEPT ![f.sym] =
       IF CandidateFires(f) THEN 0 ELSE IF @ < Horizon THEN @ + 1 ELSE @]
  /\ loaded' = [loaded EXCEPT ![f.sym] = IF CandidateFires(f) THEN signal_cooldown_events ELSE @]
  /\ disarmed' = [disarmed EXCEPT ![f.sym] = (~Eligible(f))]

(* An edge with a feature on offer, no slot reset and a consumer that can take. *)
FeatureEdge ==
  /\ \E f \in Feature : AcceptFeature(f)
  /\ signal_ready' \in BOOLEAN
  /\ UNCHANGED config

(* An edge without an acceptable feature: an offered record may be taken. *)
IdleEdge ==
  /\ signal' = IF signal_ready THEN NoSignal ELSE signal
  /\ signal_ready' \in BOOLEAN
  /\ UNCHANGED <<config, slots>>

BugResetKeepsCooldown(s) ==
  /\ previous_condition' = [previous_condition EXCEPT ![s] = NONE]
  /\ last_emitted_action' = [last_emitted_action EXCEPT ![s] = NONE]
  /\ UNCHANGED cooldown_remaining

ClearSlot(s) ==
  /\ previous_condition' = [previous_condition EXCEPT ![s] = NONE]
  /\ last_emitted_action' = [last_emitted_action EXCEPT ![s] = NONE]
  /\ cooldown_remaining' = [cooldown_remaining EXCEPT ![s] = 0]

(* An edge with slot_reset_valid: features wait, a taken record is dropped. *)
SlotResetEdge ==
  /\ slot_reset_ready
  /\ \E s \in Symbols :
       /\ ClearSlot(s)
       /\ since' = [since EXCEPT ![s] = 0] /\ loaded' = [loaded EXCEPT ![s] = 0]
       /\ disarmed' = [disarmed EXCEPT ![s] = TRUE]
  /\ signal' = NoSignal
  /\ signal_ready' \in BOOLEAN
  /\ UNCHANGED config

(* strategy_config.sv: the writes of SET_GLOBAL_FLAGS, SET_SYMBOL_ENABLE and SET_COOLDOWN. *)
SetGlobalFlags ==
  /\ strategy_enable' \in BOOLEAN /\ long_enable' \in BOOLEAN /\ short_enable' \in BOOLEAN
  /\ UNCHANGED <<symbol_enable, signal_cooldown_events, slots, signal, signal_ready>>
SetSymbolEnable ==
  /\ \E s \in Symbols, on \in BOOLEAN : symbol_enable' = [symbol_enable EXCEPT ![s] = on]
  /\ UNCHANGED <<strategy_enable, long_enable, short_enable, signal_cooldown_events, slots,
                 signal, signal_ready>>
SetCooldown ==
  /\ signal_cooldown_events' \in 0 .. MaxCooldown
  /\ UNCHANGED <<strategy_enable, long_enable, short_enable, symbol_enable, slots, signal,
                 signal_ready>>

Next == FeatureEdge \/ IdleEdge \/ SlotResetEdge \/ SetGlobalFlags \/ SetSymbolEnable \/ SetCooldown

Spec == Init /\ [][Next]_vars
-----------------------------------------------------------------------------
(* The registers keep their types; what runs down was loaded by a candidate. *)
TypeOK ==
  /\ strategy_enable \in BOOLEAN /\ long_enable \in BOOLEAN /\ short_enable \in BOOLEAN
  /\ symbol_enable \in [Symbols -> BOOLEAN] /\ signal_cooldown_events \in 0 .. MaxCooldown
  /\ previous_condition \in [Symbols -> Actions] /\ last_emitted_action \in [Symbols -> Actions]
  /\ cooldown_remaining \in [Symbols -> 0 .. MaxCooldown]
  /\ signal \in [sym : Symbols, action : Actions] \union {NoSignal} /\ signal_ready \in BOOLEAN
  /\ since \in [Symbols -> 0 .. Horizon] /\ loaded \in [Symbols -> 0 .. MaxCooldown]
  /\ disarmed \in [Symbols -> BOOLEAN]

(* The counter is exactly what is left of the cooldown loaded by the last   *)
(* candidate, counted in features of that slot alone, whatever was          *)
(* reconfigured, switched off or on, or left waiting since.                 *)
CooldownMeasuresFeatures ==
  \A s \in Symbols :
    /\ cooldown_remaining[s] = IF since[s] < loaded[s] THEN loaded[s] - since[s] ELSE 0
    /\ last_emitted_action[s] = NONE => loaded[s] = 0

(* Two candidates of one slot are at least the cooldown that the first one  *)
(* loaded apart, even across reversals and reconfiguration.                 *)
CandidatesKeepTheirDistance ==
  [][\A f \in Feature :
       (AcceptFeature(f) /\ signal'.action # NONE /\ last_emitted_action[f.sym] # NONE)
         => since[f.sym] + 1 >= loaded[f.sym]]_vars

(* A slot that was cleared, or whose last feature found no condition or a   *)
(* direction switched off, answers the next condition with a candidate as   *)
(* soon as its cooldown is over: no hidden prior condition is inherited     *)
(* (the comment at signal_engine.sv:292-295).                               *)
DisarmedSlotFires ==
  [][\A f \in Feature :
       (AcceptFeature(f) /\ Eligible(f) /\ disarmed[f.sym] /\ since[f.sym] >= loaded[f.sym])
         => signal'.action = RawDirection(f)]_vars

(* A condition that lasts is repeated: the feature that ends the cooldown   *)
(* fires again the direction that was fired last, if it still holds.        *)
LastingConditionRepeats ==
  [][\A f \in Feature :
       (AcceptFeature(f) /\ Eligible(f) /\ RawDirection(f) = last_emitted_action[f.sym]
          /\ since[f.sym] + 1 = loaded[f.sym] /\ signal_cooldown_events # 0)
         => signal'.action = RawDirection(f)]_vars
=============================================================================
