------------------------- MODULE SignalEngine_proofs --------------------------
(***************************************************************************)
(* What SignalEngine promises for every set of slots, every cooldown width *)
(* and every history: the cooldown counter measures features exactly, and  *)
(* so candidates keep their distance, conditions that last are repeated    *)
(* and a disarmed slot fires.                                              *)
(***************************************************************************)
EXTENDS SignalEngine, TLAPS

(* A slot is disarmed exactly when it remembers no condition. *)
DisarmedMeansNoCondition == \A s \in Symbols : disarmed[s] <=> previous_condition[s] = NONE

IInv == TypeOK /\ CooldownMeasuresFeatures /\ DisarmedMeansNoCondition

(* The reset state satisfies the invariant. *)
LEMMA InitIInv == ASSUME Init PROVE IInv
<1>1. MaxCooldown \in Nat /\ Horizon \in Nat
  BY SignalAssumption
<1>2. TypeOK
  <2>1. 0 \in 0 .. MaxCooldown /\ 0 \in 0 .. Horizon
    BY <1>1
  <2>2. /\ cooldown_remaining \in [Symbols -> 0 .. MaxCooldown]
        /\ loaded \in [Symbols -> 0 .. MaxCooldown] /\ since \in [Symbols -> 0 .. Horizon]
    BY <2>1 DEF Init
  <2>3. disarmed \in [Symbols -> BOOLEAN] /\ symbol_enable \in [Symbols -> BOOLEAN]
    BY DEF Init
  <2>4. previous_condition \in [Symbols -> Actions] /\ last_emitted_action \in [Symbols -> Actions]
    BY DEF Init, Actions
  <2> QED BY <2>2, <2>3, <2>4 DEF Init, TypeOK
<1>3. CooldownMeasuresFeatures
  <2> SUFFICES ASSUME NEW s \in Symbols
               PROVE  /\ cooldown_remaining[s] = IF since[s] < loaded[s] THEN loaded[s] - since[s] ELSE 0
                      /\ last_emitted_action[s] = NONE => loaded[s] = 0
    BY DEF CooldownMeasuresFeatures
  <2>1. cooldown_remaining[s] = 0 /\ since[s] = 0 /\ loaded[s] = 0
    BY DEF Init
  <2> QED BY <2>1
<1>4. DisarmedMeansNoCondition
  BY DEF Init, DisarmedMeansNoCondition
<1> QED BY <1>2, <1>3, <1>4 DEF IInv

(* An accepted feature keeps the types. *)
LEMMA FeatureTypeOK ==
  ASSUME TypeOK, NEW f \in Feature, AcceptFeature(f), signal_ready' \in BOOLEAN,
         UNCHANGED config
  PROVE  TypeOK'
<1> USE SignalAssumption
<1>0. f.sym \in Symbols /\ RawDirection(f) \in Actions /\ Condition(f) \in Actions
  BY DEF Feature, RawDirection, Condition, Actions
<1>1. previous_condition' \in [Symbols -> Actions]
  BY <1>0 DEF TypeOK, AcceptFeature
<1>2. last_emitted_action' \in [Symbols -> Actions]
  BY <1>0 DEF TypeOK, AcceptFeature
<1>3. cooldown_remaining' \in [Symbols -> 0 .. MaxCooldown]
  <2>1. (IF CandidateFires(f) THEN signal_cooldown_events
         ELSE IF cooldown_remaining[f.sym] # 0 THEN cooldown_remaining[f.sym] - 1 ELSE 0)
           \in 0 .. MaxCooldown
    BY <1>0 DEF TypeOK
  <2> QED BY <2>1, <1>0 DEF TypeOK, AcceptFeature, Cooldown
<1>4. since' \in [Symbols -> 0 .. Horizon]
  BY <1>0 DEF TypeOK, AcceptFeature
<1>5. loaded' \in [Symbols -> 0 .. MaxCooldown]
  BY <1>0 DEF TypeOK, AcceptFeature
<1>6. disarmed' \in [Symbols -> BOOLEAN]
  <2>1. (~Eligible(f)) \in BOOLEAN
    BY DEF Eligible, Enabled
  <2> QED BY <2>1, <1>0 DEF TypeOK, AcceptFeature
<1>7. signal' \in [sym : Symbols, action : Actions]
  BY <1>0 DEF AcceptFeature, Actions
<1> QED BY <1>1, <1>2, <1>3, <1>4, <1>5, <1>6, <1>7 DEF TypeOK, config

(* An accepted feature keeps the counter exact. *)
LEMMA FeatureCounts ==
  ASSUME IInv, NEW f \in Feature, AcceptFeature(f)
  PROVE  CooldownMeasuresFeatures' /\ DisarmedMeansNoCondition'
<1> USE SignalAssumption
<1>0. f.sym \in Symbols
  BY DEF Feature
<1>1. ASSUME NEW s \in Symbols, s # f.sym
      PROVE  /\ cooldown_remaining'[s] = cooldown_remaining[s] /\ since'[s] = since[s]
             /\ loaded'[s] = loaded[s] /\ last_emitted_action'[s] = last_emitted_action[s]
             /\ disarmed'[s] = disarmed[s] /\ previous_condition'[s] = previous_condition[s]
  BY <1>1 DEF AcceptFeature, Cooldown, IInv, TypeOK
<1>2. /\ cooldown_remaining'[f.sym] =
           IF since'[f.sym] < loaded'[f.sym] THEN loaded'[f.sym] - since'[f.sym] ELSE 0
      /\ last_emitted_action'[f.sym] = NONE => loaded'[f.sym] = 0
  <2>1. CASE CandidateFires(f)
    <3>1. /\ cooldown_remaining'[f.sym] = signal_cooldown_events
          /\ since'[f.sym] = 0 /\ loaded'[f.sym] = signal_cooldown_events
          /\ last_emitted_action'[f.sym] = RawDirection(f)
      BY <1>0, <2>1 DEF AcceptFeature, Cooldown, IInv, TypeOK
    <3>2. RawDirection(f) # NONE
      BY <2>1 DEF CandidateFires, Eligible
    <3>3. signal_cooldown_events \in Nat
      BY DEF IInv, TypeOK
    <3> QED BY <3>1, <3>2, <3>3
  <2>2. CASE ~CandidateFires(f)
    <3>1. /\ cooldown_remaining'[f.sym] =
               IF cooldown_remaining[f.sym] # 0 THEN cooldown_remaining[f.sym] - 1 ELSE 0
          /\ since'[f.sym] = IF since[f.sym] < Horizon THEN since[f.sym] + 1 ELSE since[f.sym]
          /\ loaded'[f.sym] = loaded[f.sym]
          /\ last_emitted_action'[f.sym] = last_emitted_action[f.sym]
      BY <1>0, <2>2 DEF AcceptFeature, Cooldown, IInv, TypeOK
    <3>2. /\ since[f.sym] \in 0 .. Horizon /\ loaded[f.sym] \in 0 .. MaxCooldown
          /\ cooldown_remaining[f.sym] =
               IF since[f.sym] < loaded[f.sym] THEN loaded[f.sym] - since[f.sym] ELSE 0
          /\ last_emitted_action[f.sym] = NONE => loaded[f.sym] = 0
      BY <1>0 DEF IInv, TypeOK, CooldownMeasuresFeatures
    <3> QED BY <3>1, <3>2
  <2> QED BY <2>1, <2>2
<1>3. CooldownMeasuresFeatures'
  BY <1>1, <1>2 DEF CooldownMeasuresFeatures, IInv
<1>4. disarmed'[f.sym] <=> previous_condition'[f.sym] = NONE
  <2>1. disarmed'[f.sym] = (~Eligible(f)) /\ previous_condition'[f.sym] = Condition(f)
    BY <1>0 DEF AcceptFeature, IInv, TypeOK
  <2> QED BY <2>1 DEF Condition, Eligible
<1>5. DisarmedMeansNoCondition'
  BY <1>1, <1>4 DEF DisarmedMeansNoCondition, IInv
<1> QED BY <1>3, <1>5

(* Every step keeps the invariant. *)
LEMMA NextIInv == ASSUME IInv, [Next]_vars PROVE IInv'
<1> USE SignalAssumption
<1>1. CASE FeatureEdge
  BY <1>1, FeatureTypeOK, FeatureCounts DEF FeatureEdge, IInv
<1>2. CASE IdleEdge
  <2>1. TypeOK'
    BY <1>2 DEF IdleEdge, IInv, TypeOK, config, slots
  <2> QED BY <1>2, <2>1 DEF IdleEdge, IInv, CooldownMeasuresFeatures, DisarmedMeansNoCondition, slots
<1>3. CASE SlotResetEdge
  <2>1. PICK s \in Symbols :
          /\ ClearSlot(s)
          /\ since' = [since EXCEPT ![s] = 0] /\ loaded' = [loaded EXCEPT ![s] = 0]
          /\ disarmed' = [disarmed EXCEPT ![s] = TRUE]
    BY <1>3 DEF SlotResetEdge
  <2>2. TypeOK'
    BY <1>3, <2>1 DEF SlotResetEdge, ClearSlot, IInv, TypeOK, config, Actions
  <2>3. CooldownMeasuresFeatures'
    BY <2>1 DEF ClearSlot, IInv, TypeOK, CooldownMeasuresFeatures
  <2>4. DisarmedMeansNoCondition'
    BY <2>1 DEF ClearSlot, IInv, TypeOK, DisarmedMeansNoCondition
  <2> QED BY <2>2, <2>3, <2>4 DEF IInv
<1>4. CASE SetGlobalFlags
  BY <1>4 DEF SetGlobalFlags, IInv, TypeOK, CooldownMeasuresFeatures, DisarmedMeansNoCondition, slots
<1>5. CASE SetSymbolEnable
  BY <1>5 DEF SetSymbolEnable, IInv, TypeOK, CooldownMeasuresFeatures, DisarmedMeansNoCondition, slots
<1>6. CASE SetCooldown
  BY <1>6 DEF SetCooldown, IInv, TypeOK, CooldownMeasuresFeatures, DisarmedMeansNoCondition, slots
<1>7. CASE UNCHANGED vars
  BY <1>7 DEF vars, config, slots, IInv, TypeOK, CooldownMeasuresFeatures, DisarmedMeansNoCondition
<1> QED BY <1>1, <1>2, <1>3, <1>4, <1>5, <1>6, <1>7 DEF Next

(* The invariant the other results rest on holds of every behaviour. *)
THEOREM SignalInvariant == Spec => []IInv
<1>1. Init => IInv
  BY InitIInv
<1>2. IInv /\ [Next]_vars => IInv'
  BY NextIInv
<1> QED BY <1>1, <1>2, PTL DEF Spec

(* Type correctness. *)
THEOREM TypeCorrect == Spec => []TypeOK
<1>1. IInv => TypeOK
  BY DEF IInv
<1> QED BY <1>1, SignalInvariant, PTL

(* The counter is the rest of the cooldown loaded by the last candidate. *)
THEOREM CooldownExact == Spec => []CooldownMeasuresFeatures
<1>1. IInv => CooldownMeasuresFeatures
  BY DEF IInv
<1> QED BY <1>1, SignalInvariant, PTL

(* What the exact counter means for one accepted feature. *)
LEMMA CounterOf ==
  ASSUME IInv, NEW f \in Feature
  PROVE  /\ f.sym \in Symbols
         /\ since[f.sym] \in Nat /\ loaded[f.sym] \in Nat
         /\ cooldown_remaining[f.sym] = 0 <=> since[f.sym] >= loaded[f.sym]
         /\ cooldown_remaining[f.sym] = 1 <=> since[f.sym] + 1 = loaded[f.sym]
<1>1. f.sym \in Symbols
  BY DEF Feature
<1>2. since[f.sym] \in Nat /\ loaded[f.sym] \in Nat
  BY <1>1, SignalAssumption DEF IInv, TypeOK
<1> QED BY <1>1, <1>2 DEF IInv, CooldownMeasuresFeatures

(* Two candidates of one slot are at least the loaded cooldown apart. *)
THEOREM DistanceKept == Spec => CandidatesKeepTheirDistance
<1> DEFINE Step ==
      \A f \in Feature :
        (AcceptFeature(f) /\ signal'.action # NONE /\ last_emitted_action[f.sym] # NONE)
          => since[f.sym] + 1 >= loaded[f.sym]
<1>1. ASSUME IInv PROVE Step
  <2> SUFFICES ASSUME NEW f \in Feature, AcceptFeature(f), signal'.action # NONE
               PROVE  since[f.sym] + 1 >= loaded[f.sym]
    OBVIOUS
  <2>1. CandidateFires(f)
    BY DEF AcceptFeature
  <2>2. cooldown_remaining[f.sym] = 0 \/ cooldown_remaining[f.sym] = 1
    BY <2>1 DEF CandidateFires, CooldownExpiryRepeat
  <2> QED BY <1>1, <2>2, CounterOf
<1>2. IInv => [Step]_vars
  BY <1>1
<1>3. Spec => [][Step]_vars
  BY <1>2, SignalInvariant, PTL
<1> QED BY <1>3 DEF CandidatesKeepTheirDistance

(* A disarmed slot whose cooldown is over fires on the next condition. *)
THEOREM DisarmedFires == Spec => DisarmedSlotFires
<1> DEFINE Step ==
      \A f \in Feature :
        (AcceptFeature(f) /\ Eligible(f) /\ disarmed[f.sym] /\ since[f.sym] >= loaded[f.sym])
          => signal'.action = RawDirection(f)
<1>1. ASSUME IInv PROVE Step
  <2> SUFFICES ASSUME NEW f \in Feature, AcceptFeature(f), Eligible(f), disarmed[f.sym],
                      since[f.sym] >= loaded[f.sym]
               PROVE  signal'.action = RawDirection(f)
    OBVIOUS
  <2>1. f.sym \in Symbols /\ cooldown_remaining[f.sym] = 0
    BY <1>1, CounterOf
  <2>2. previous_condition[f.sym] = NONE
    BY <1>1, <2>1 DEF IInv, DisarmedMeansNoCondition
  <2>3. CandidateFires(f)
    BY <2>1, <2>2 DEF CandidateFires, DirectionEdge, Eligible
  <2> QED BY <2>3 DEF AcceptFeature
<1>2. IInv => [Step]_vars
  BY <1>1
<1>3. Spec => [][Step]_vars
  BY <1>2, SignalInvariant, PTL
<1> QED BY <1>3 DEF DisarmedSlotFires

(* The feature that ends the cooldown repeats a direction that still holds. *)
THEOREM LastingRepeats == Spec => LastingConditionRepeats
<1> DEFINE Step ==
      \A f \in Feature :
        (AcceptFeature(f) /\ Eligible(f) /\ RawDirection(f) = last_emitted_action[f.sym]
           /\ since[f.sym] + 1 = loaded[f.sym] /\ signal_cooldown_events # 0)
          => signal'.action = RawDirection(f)
<1>1. ASSUME IInv PROVE Step
  <2> SUFFICES ASSUME NEW f \in Feature, AcceptFeature(f), Eligible(f),
                      RawDirection(f) = last_emitted_action[f.sym],
                      since[f.sym] + 1 = loaded[f.sym], signal_cooldown_events # 0
               PROVE  signal'.action = RawDirection(f)
    OBVIOUS
  <2>1. cooldown_remaining[f.sym] = 1
    BY <1>1, CounterOf
  <2>2. CandidateFires(f)
    BY <2>1 DEF CandidateFires, CooldownExpiryRepeat
  <2> QED BY <2>2 DEF AcceptFeature
<1>2. IInv => [Step]_vars
  BY <1>1
<1>3. Spec => [][Step]_vars
  BY <1>2, SignalInvariant, PTL
<1> QED BY <1>3 DEF LastingConditionRepeats
=============================================================================
