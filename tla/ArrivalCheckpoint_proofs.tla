----------------------- MODULE ArrivalCheckpoint_proofs -----------------------
(***************************************************************************)
(* What an analysis that is interrupted, killed and taken up again keeps,  *)
(* for every event stream, interval and number of runs.                    *)
(***************************************************************************)
EXTENDS ArrivalCheckpoint, FiniteSetTheorems, SequenceTheorems, WellFoundedInduction, TLAPS

----------------------------------------------------------------------------
(* A pass over a list of events, one event at a time *)

(* A non-empty set of natural numbers has a smallest one. *)
LEMMA SmallestNumber ==
  ASSUME NEW T \in SUBSET Nat, T # {}
  PROVE  \E m \in T : \A y \in T : m <= y
<1>1. PICK m \in T : \A y \in T : ~(<<y, m>> \in OpToRel(<, Nat))
  BY WFMin, NatLessThanWellFounded, Zenon
<1>2. \A y \in T : ~(y < m)
  BY <1>1, Zenon DEF OpToRel
<1> QED BY <1>2

(* Induction over a set of numbers. *)
LEMMA NatSetInduction ==
  ASSUME NEW S, 0 \in S, \A n \in Nat : n \in S => n + 1 \in S
  PROVE  Nat \subseteq S
<1> DEFINE T == Nat \ S
<1> SUFFICES ASSUME T # {} PROVE FALSE
  OBVIOUS
<1>1. PICK m \in T : \A y \in T : m <= y
  BY SmallestNumber
<1>2. m \in Nat /\ m # 0 /\ m - 1 \in Nat /\ m = (m - 1) + 1
  OBVIOUS
<1>3. m - 1 \in T
  BY <1>2
<1> QED BY <1>1, <1>2, <1>3

(* A bounded key has a largest value. *)
LEMMA LargestKey ==
  ASSUME NEW T, T # {}, NEW key \in [T -> Int], NEW b \in Int, \A s \in T : key[s] <= b
  PROVE  \E s \in T : \A t \in T : key[t] <= key[s]
<1> DEFINE Gaps == {b - key[s] : s \in T}
<1>1. Gaps \subseteq Nat /\ Gaps # {}
  OBVIOUS
<1>2. PICK g \in Gaps : \A y \in Gaps : g <= y
  <2> HIDE DEF Gaps
  <2> QED BY <1>1, SmallestNumber
<1>3. PICK s \in T : g = b - key[s]
  OBVIOUS
<1>4. ASSUME NEW t \in T PROVE key[t] <= key[s]
  <2>1. b - key[t] \in Gaps /\ key[t] \in Int /\ key[s] \in Int
    OBVIOUS
  <2> HIDE DEF Gaps
  <2>2. b - key[s] <= b - key[t]
    BY <1>2, <1>3, <2>1
  <2> QED BY <2>1, <2>2
<1> QED BY <1>4

(* The largest index of a non-empty set of indices. *)
LEMMA LargestIndex ==
  ASSUME NEW n \in Nat, NEW T \in SUBSET (1 .. n), T # {}
  PROVE  Max(T) \in T /\ \A i \in T : i <= Max(T)
<1> DEFINE key == [i \in T |-> i]
<1>1. key \in [T -> Int] /\ n \in Int /\ \A s \in T : key[s] <= n
  OBVIOUS
<1>2. \E s \in T : \A t \in T : key[t] <= key[s]
  <2> HIDE DEF key
  <2> QED BY <1>1, LargestKey
<1>3. \E s \in T : \A t \in T : s >= t
  BY <1>2
<1>4. Max(T) \in T /\ \A t \in T : Max(T) >= t
  BY <1>3 DEF Max
<1> QED BY <1>4

(* A finite set loses one element at a time. *)
LEMMA FiniteParts ==
  ASSUME NEW S, IsFiniteSet(S), NEW T \in SUBSET S
  PROVE  /\ IsFiniteSet(T) /\ Cardinality(T) \in Nat /\ Cardinality(T) <= Cardinality(S)
         /\ Cardinality(T) = 0 <=> T = {}
         /\ \A x \in T : T \ {x} \in SUBSET S /\ Cardinality(T \ {x}) = Cardinality(T) - 1
<1>1. IsFiniteSet(T) /\ Cardinality(T) <= Cardinality(S)
  BY FS_Subset
<1> QED BY <1>1, FS_CardinalityType, FS_EmptySet, FS_RemoveElement

(* A pass goes through a chain of states, one event a step. *)
Passes(h, events, n) ==
  h[0] = NewDiagnostics /\ h[n] = PassOver(events) /\ \A k \in 1 .. n : h[k] = ObserveParts(h[k - 1], events[k], Parts)
(* A pass has such a chain. *)
LEMMA PassStates ==
  ASSUME NEW events, NEW n \in Nat, DOMAIN events = 1 .. n
  PROVE  \E h : Passes(h, events, n)
<1> DEFINE Op(i, r) == ObserveParts(r, events[i], Parts)
           S == DOMAIN events
           c(T) == Max(T)
           Step(h, T) == IF T = {} THEN NewDiagnostics ELSE Op(c(T), h[T \ {c(T)}])
           UpTo(m) == {T \in SUBSET S : Cardinality(T) <= m}
           Known == {m \in Nat : \E h : h = [T \in UpTo(m) |-> Step(h, T)]}
<1>1. IsFiniteSet(S) /\ \A T \in SUBSET S : T # {} => c(T) \in T
  <2>1. IsFiniteSet(1 .. n)
    BY FS_Interval
  <2> QED BY <2>1, LargestIndex
<1> HIDE DEF S, c, Op
<1>2. 0 \in Known
  <2>1. UpTo(0) = {{}}
    BY <1>1, FiniteParts
  <2>2. [T \in UpTo(0) |-> NewDiagnostics] = [T \in UpTo(0) |-> Step([U \in UpTo(0) |-> NewDiagnostics], T)]
    BY <2>1
  <2> HIDE DEF UpTo, Step
  <2> QED BY <2>2
<1>3. ASSUME NEW m \in Nat, m \in Known PROVE m + 1 \in Known
  <2>1. PICK h : h = [T \in UpTo(m) |-> Step(h, T)]
    BY <1>3
  <2> DEFINE g == [T \in UpTo(m + 1) |-> Step(h, T)]
  <2>2. ASSUME NEW T \in UpTo(m + 1) PROVE Step(h, T) = Step(g, T)
    <3>1. CASE T = {}
      BY <3>1
    <3>2. CASE T # {}
      <4>1. T \ {c(T)} \in UpTo(m) /\ T \ {c(T)} \in UpTo(m + 1)
        BY <1>1, <3>2, FiniteParts
      <4>2. g[T \ {c(T)}] = h[T \ {c(T)}]
        BY <4>1, <2>1
      <4> QED BY <4>2
    <3> QED BY <3>1, <3>2
  <2>3. g = [T \in UpTo(m + 1) |-> Step(g, T)]
    BY <2>2
  <2> HIDE DEF g, Step, UpTo
  <2> QED BY <2>3
<1>4. Cardinality(S) \in Known
  <2> HIDE DEF Known
  <2> QED BY <1>1, <1>2, <1>3, NatSetInduction, FiniteParts
<1>5. UpTo(Cardinality(S)) = SUBSET S
  BY <1>1, FiniteParts
<1>6. \E h : h = [T \in SUBSET S |-> Step(h, T)]
  BY <1>4, <1>5
<1> DEFINE iter == CHOOSE h : h = [T \in SUBSET S |-> Step(h, T)]
           H == [k \in 0 .. n |-> iter[1 .. k]]
<1>7. iter = [T \in SUBSET S |-> Step(iter, T)]
  BY <1>6
<1>8. PassOver(events) = iter[1 .. n]
  BY DEF PassOver, FoldLeft, MapThenFoldSet, S, c, Op
<1> HIDE DEF iter
<1>9. iter[1 .. 0] = NewDiagnostics
  BY <1>7
<1>10. ASSUME NEW k \in 1 .. n PROVE H[k] = Op(k, H[k - 1])
  <2>1. 1 .. k \in SUBSET (1 .. n) /\ S = 1 .. n /\ 1 .. k # {} /\ k \in 0 .. n /\ k - 1 \in 0 .. n
    BY DEF S
  <2>2. c(1 .. k) = k
    <3>1. Max(1 .. k) \in 1 .. k /\ \A i \in 1 .. k : i <= Max(1 .. k)
      <4> DEFINE U == 1 .. k
      <4>1. U \in SUBSET (1 .. n) /\ U # {}
        BY <2>1
      <4> HIDE DEF U
      <4>2. Max(U) \in U /\ \A i \in U : i <= Max(U)
        BY <4>1, LargestIndex
      <4> QED BY <4>2 DEF U
    <3> QED BY <3>1 DEF c
  <2>3. (1 .. k) \ {k} = 1 .. (k - 1)
    OBVIOUS
  <2>4. iter[1 .. k] = Op(c(1 .. k), iter[(1 .. k) \ {c(1 .. k)}])
    BY <1>7, <2>1
  <2> QED BY <2>1, <2>2, <2>3, <2>4
<1>11. H[0] = NewDiagnostics /\ H[n] = PassOver(events)
  BY <1>8, <1>9
<1>12. \A k \in 1 .. n : H[k] = Op(k, H[k - 1])
  BY <1>10
<1> HIDE DEF H
<1> QED BY <1>11, <1>12 DEF Op, Passes

(* A list with one more event needs one more step. *)
LEMMA PassNext ==
  ASSUME NEW es, NEW n \in Nat, n < Len(es), es \in Seq(Event)
  PROVE  PassOver(SubSeq(es, 1, n + 1)) = ObserveParts(PassOver(SubSeq(es, 1, n)), es[n + 1], Parts)
<1> DEFINE short == SubSeq(es, 1, n)
           long == SubSeq(es, 1, n + 1)
<1>1. /\ DOMAIN short = 1 .. n /\ DOMAIN long = 1 .. (n + 1) /\ n + 1 \in Nat
      /\ \A k \in 1 .. n : short[k] = long[k] /\ long[n + 1] = es[n + 1]
  OBVIOUS
<1> HIDE DEF short, long
<1>2. \E g : Passes(g, short, n)
  BY <1>1, PassStates
<1>3. \E h : Passes(h, long, n + 1)
  BY <1>1, PassStates
<1>4. PICK g : Passes(g, short, n)
  BY <1>2
<1>5. PICK h : Passes(h, long, n + 1)
  BY <1>3
<1> DEFINE Same == {k \in Nat : k <= n => g[k] = h[k]}
<1>6. 0 \in Same
  BY <1>4, <1>5 DEF Passes
<1>7. ASSUME NEW k \in Nat, k \in Same PROVE k + 1 \in Same
  <2> SUFFICES ASSUME k + 1 <= n PROVE g[k + 1] = h[k + 1]
    OBVIOUS
  <2>1. k + 1 \in 1 .. n /\ k + 1 \in 1 .. (n + 1) /\ (k + 1) - 1 = k /\ k <= n
    OBVIOUS
  <2>2. g[k + 1] = ObserveParts(g[k], short[k + 1], Parts)
    BY <1>4, <2>1 DEF Passes
  <2>3. h[k + 1] = ObserveParts(h[k], long[k + 1], Parts)
    BY <1>5, <2>1 DEF Passes
  <2>4. short[k + 1] = long[k + 1] /\ g[k] = h[k]
    BY <1>1, <1>7, <2>1
  <2> QED BY <2>2, <2>3, <2>4
<1>8. n \in Same
  <2> HIDE DEF Same
  <2> QED BY <1>6, <1>7, NatSetInduction
<1>9. g[n] = h[n] /\ g[n] = PassOver(short) /\ h[n + 1] = PassOver(long)
  BY <1>4, <1>5, <1>8 DEF Passes
<1>10. h[n + 1] = ObserveParts(h[n], long[n + 1], Parts)
  <2>1. n + 1 \in 1 .. (n + 1) /\ (n + 1) - 1 = n
    OBVIOUS
  <2> QED BY <1>5, <2>1 DEF Passes
<1>11. long[n + 1] = es[n + 1]
  BY DEF long
<1> QED BY <1>9, <1>10, <1>11 DEF short, long

(* A pass over nothing leaves the fresh state. *)
LEMMA PassOfNone ==
  ASSUME NEW es \in Seq(Event)
  PROVE  PassOver(SubSeq(es, 1, 0)) = NewDiagnostics
<1> DEFINE none == SubSeq(es, 1, 0)
<1>1. DOMAIN none = 1 .. 0 /\ 0 \in Nat
  OBVIOUS
<1> HIDE DEF none
<1>2. \E h : Passes(h, none, 0)
  BY <1>1, PassStates
<1>3. PICK h : Passes(h, none, 0)
  BY <1>2
<1> QED BY <1>3 DEF Passes, none

----------------------------------------------------------------------------
(* The inductive invariant *)

(* A saved or working state has its three fields; unless an event was counted in *)
(* part or an input was left for another, it is its owner's after some events.   *)
Sound(m) ==
  /\ m = [diag |-> m.diag, owner |-> m.owner, spoiled |-> m.spoiled] /\ StateOK(m)
  /\ ~m.spoiled =>
       /\ m.diag.processed <= Len(trace[m.owner])
       /\ m.diag = PrefixState(m.owner, m.diag.processed)

(* The two files belong together whenever a run may find them; halfway between   *)
(* the two writes only the run that is writing goes on.                          *)
FilesMatch ==
  /\ mem.owner = input
  /\ pair = "halfway" => pc \in {"replace", "manifest"}
  /\ /\ pair = "whole" /\ checkpoint # Absent
     /\ manifest # Absent /\ manifest.phase = "in_progress"
     => checkpoint.owner = manifest.input

IInv ==
  /\ TypeOK /\ trace \in Traces
  /\ Sound(mem) /\ (checkpoint # Absent => Sound(checkpoint))
  /\ pc = "loop" => mem.diag.processed - last_checkpoint_events < Interval
  /\ pc = "manifest" => checkpoint = mem
  /\ pair # "torn" => FilesMatch
  /\ pc = "done" => Exhausted /\ result = DiagnosticsResult(mem.diag)

(* The streams are sequences of events. *)
LEMMA TraceType ==
  ASSUME trace \in Traces, NEW i \in Inputs
  PROVE  trace[i] \in Seq(Event) /\ Len(trace[i]) \in Nat
<1>1. trace \in [Inputs -> Seq(Event)]
  BY CheckpointAssumption
<1> QED BY <1>1

(* A fresh state is sound. *)
LEMMA FreshIsSound ==
  ASSUME trace \in Traces, NEW i \in Inputs
  PROVE  Sound(Fresh(i)) /\ Fresh(i).owner = i /\ Fresh(i).diag.processed = 0
<1>1. Fresh(i) = [diag |-> NewDiagnostics, owner |-> i, spoiled |-> FALSE]
  BY DEF Fresh
<1>2. NewDiagnostics.processed = 0
  BY DEF NewDiagnostics
<1> HIDE DEF NewDiagnostics
<1>3. PrefixState(i, 0) = NewDiagnostics
  BY TraceType, PassOfNone DEF PrefixState
<1>4. 0 <= Len(trace[i]) /\ 0 \in Nat
  BY TraceType
<1> QED BY <1>1, <1>2, <1>3, <1>4 DEF Sound, StateOK

(* An event that is observed wholly, or in part, keeps the state sound. *)
LEMMA ObservedIsSound ==
  ASSUME IInv, ~Exhausted, NEW k \in 1 .. Parts, NEW spoiled \in BOOLEAN,
         spoiled \/ (k = Parts /\ mem.owner = input), ObserveUpTo(NextEvent, k, spoiled), trace' = trace
  PROVE  /\ Sound(mem)' /\ mem'.owner = mem.owner /\ mem'.diag.processed = mem.diag.processed + 1
         /\ mem'.spoiled = (mem.spoiled \/ spoiled)
<1> DEFINE p == mem.diag.processed
           d == ObserveParts(mem.diag, NextEvent, k)
<1>1. /\ mem = [diag |-> mem.diag, owner |-> mem.owner, spoiled |-> mem.spoiled]
      /\ mem.owner \in Inputs /\ mem.spoiled \in BOOLEAN /\ p \in Nat /\ input \in Inputs /\ trace \in Traces
  BY DEF IInv, Sound, StateOK, TypeOK
<1>2. mem' = [mem EXCEPT !.diag = d, !.spoiled = @ \/ spoiled]
  BY DEF ObserveUpTo
<1>3. d.processed = p + 1
  BY DEF ObserveParts, Parts
<1> HIDE DEF d
<1>4. mem' = [diag |-> d, owner |-> mem.owner, spoiled |-> mem.spoiled \/ spoiled]
  BY <1>1, <1>2
<1>5. p < Len(trace[input]) /\ Len(trace[input]) \in Nat /\ trace[input] \in Seq(Event)
  BY <1>1, TraceType DEF Exhausted
<1>6. ASSUME ~mem.spoiled, ~spoiled PROVE d = PrefixState(mem.owner, p + 1) /\ mem.owner = input
  <2>1. k = Parts /\ mem.owner = input /\ mem.diag = PrefixState(input, p)
    BY <1>6 DEF IInv, Sound
  <2>2. PrefixState(input, p + 1) = ObserveParts(PrefixState(input, p), trace[input][p + 1], Parts)
    BY <1>1, <1>5, PassNext DEF PrefixState
  <2> QED BY <2>1, <2>2 DEF d, NextEvent
<1>7. p + 1 \in Nat /\ p + 1 <= Len(trace[input])
  BY <1>1, <1>5
<1>8. StateOK(mem)'
  BY <1>1, <1>3, <1>4, <1>7 DEF StateOK
<1>9. ASSUME ~mem'.spoiled
      PROVE  /\ mem'.diag.processed <= Len(trace[mem'.owner])
             /\ mem'.diag = PrefixState(mem'.owner, mem'.diag.processed)
  <2>1. ~mem.spoiled /\ ~spoiled
    BY <1>1, <1>4, <1>9
  <2> QED BY <1>3, <1>4, <1>6, <1>7, <2>1
<1> QED BY <1>1, <1>3, <1>4, <1>8, <1>9 DEF Sound, PrefixState

(* What is not written stays sound. *)
LEMMA StaysSound ==
  ASSUME IInv, trace' = trace
  PROVE  /\ mem' = mem => Sound(mem)'
         /\ checkpoint' = checkpoint => (checkpoint # Absent => Sound(checkpoint))'
         /\ checkpoint' = mem => Sound(checkpoint)'
<1>1. ASSUME mem' = mem PROVE Sound(mem)'
  <2>1. Sound(mem)
    BY DEF IInv
  <2> QED BY <1>1, <2>1 DEF Sound, StateOK, PrefixState
<1>2. ASSUME checkpoint' = checkpoint, checkpoint' # Absent PROVE Sound(checkpoint)'
  <2>1. Sound(checkpoint)
    BY <1>2 DEF IInv
  <2> QED BY <1>2, <2>1 DEF Sound, StateOK, PrefixState
<1>3. ASSUME checkpoint' = mem PROVE Sound(checkpoint)'
  <2>1. Sound(mem)
    BY DEF IInv
  <2> QED BY <1>3, <2>1 DEF Sound, StateOK, PrefixState
<1> QED BY <1>1, <1>2, <1>3

(* The states in memory and on disk and the sizes that TypeOK relates, unfolded. *)
LEMMA Shapes ==
  ASSUME IInv
  PROVE  /\ mem.diag.processed \in Nat /\ last_checkpoint_events \in Nat
         /\ last_checkpoint_events <= mem.diag.processed
         /\ Interval \in Nat \ {0} /\ MaxLost \in Nat
  BY CheckpointAssumption DEF IInv, TypeOK, StateOK

(* An analysis starts with the invariant. *)
LEMMA InitEstablishes == Init => IInv
<1> SUFFICES ASSUME Init PROVE IInv
  OBVIOUS
<1>1. Sound(mem) /\ mem.owner = input /\ mem.diag.processed = 0
  BY FreshIsSound DEF Init
<1>2. TypeOK
  <2>1. /\ last_checkpoint_events = 0 /\ lost = 0 /\ pair = "whole" /\ checkpoint = Absent /\ manifest = Absent
        /\ pc = "down" /\ failing = FALSE /\ input \in Inputs
    BY DEF Init
  <2>2. 0 \in 0 .. 0 /\ 0 - 0 <= Interval /\ 0 \in 0 .. MaxLost
    BY CheckpointAssumption
  <2>3. StateOK(mem)
    BY <1>1 DEF Sound
  <2> QED BY <1>1, <2>1, <2>2, <2>3 DEF TypeOK
<1> QED BY <1>1, <1>2, CheckpointAssumption DEF Init, IInv, FilesMatch

(* A run that starts, fresh or from a checkpoint, keeps it. *)
LEMMA StartKeeps == ASSUME IInv, NEW i \in Inputs, Start(i) PROVE IInv'
<1>1. /\ pc \in {"down", "done"} /\ pc' = "loop" /\ input' = i /\ failing' = FALSE /\ result' = Absent
      /\ trace' = trace /\ checkpoint' = checkpoint /\ manifest' = manifest
      /\ lost' = lost /\ pair' = pair
      /\ mem' = (IF CanResume(i) THEN Resumed ELSE Fresh(i))
      /\ last_checkpoint_events' = mem'.diag.processed
  BY DEF Start, files, losses
<1>2. trace \in Traces /\ lost \in 0 .. MaxLost /\ pair \in {"whole", "halfway", "torn"}
  BY DEF IInv, TypeOK
<1>3. Sound(mem)' /\ (pair # "torn" => mem'.owner = i)
  <2>1. CASE CanResume(i)
    <3>1. mem' = checkpoint /\ checkpoint # Absent
      BY <1>1, <2>1 DEF CanResume, Resumed
    <3>2. Sound(checkpoint)
      BY <3>1 DEF IInv
    <3>3. Sound(mem)'
      BY <1>1, <3>1, <3>2 DEF Sound, StateOK, PrefixState
    <3>4. pair # "torn" => checkpoint.owner = i
      BY <1>1, <1>2, <2>1 DEF IInv, FilesMatch, CanResume
    <3> QED BY <3>1, <3>3, <3>4
  <2>2. CASE ~CanResume(i)
    <3>1. mem' = Fresh(i)
      BY <1>1, <2>2
    <3>2. Sound(Fresh(i)) /\ Fresh(i).owner = i
      BY <1>2, FreshIsSound
    <3> QED BY <1>1, <3>1, <3>2 DEF Sound, StateOK, PrefixState
  <2> QED BY <2>1, <2>2
<1>4. (checkpoint # Absent => Sound(checkpoint))'
  BY <1>1, StaysSound
<1>5. mem'.diag.processed \in Nat /\ StateOK(mem)'
  BY <1>3 DEF Sound, StateOK
<1>6. mem'.diag.processed - last_checkpoint_events' = 0 /\ last_checkpoint_events' \in 0 .. mem'.diag.processed
  BY <1>1, <1>5
<1>7. Interval \in Nat /\ 0 < Interval
  BY CheckpointAssumption
<1>8. TypeOK'
  <2>1. (checkpoint # Absent => StateOK(checkpoint))'
    BY <1>4 DEF Sound
  <2>2. mem'.diag.processed - last_checkpoint_events' <= Interval
    BY <1>6, <1>7
  <2>3. (manifest # Absent => manifest.phase \in {"in_progress", "complete"})'
    BY <1>1 DEF IInv, TypeOK
  <2>4. /\ (pc \in {"down", "loop", "replace", "manifest", "done"})' /\ input' \in Inputs
        /\ failing' \in BOOLEAN /\ lost' \in 0 .. MaxLost
        /\ (pair \in {"whole", "halfway", "torn"})'
    BY <1>1, <1>2
  <2> QED BY <1>5, <1>6, <2>1, <2>2, <2>3, <2>4 DEF TypeOK
<1>9. (pair # "torn" => FilesMatch)'
  BY <1>1, <1>2, <1>3 DEF IInv, FilesMatch
<1> QED BY <1>1, <1>2, <1>3, <1>4, <1>6, <1>7, <1>8, <1>9 DEF IInv

(* Both ways of observing an event, in part or wholly, with what they do to pc. *)
LEMMA ObservingKeeps ==
  ASSUME IInv, pc = "loop", ~Exhausted, NEW k \in 1 .. Parts, NEW spoiled \in BOOLEAN,
         spoiled \/ (k = Parts /\ mem.owner = input), ObserveUpTo(NextEvent, k, spoiled),
         pc' \in {"loop", "replace"}, failing' \in BOOLEAN,
         pc' = "loop" => ~CheckpointDue,
         UNCHANGED <<trace, input, last_checkpoint_events, files, result, losses>>
  PROVE  IInv'
<1>1. trace' = trace /\ checkpoint' = checkpoint /\ manifest' = manifest /\ input' = input
      /\ last_checkpoint_events' = last_checkpoint_events /\ lost' = lost /\ pair' = pair
  BY DEF files, losses
<1>2. Sound(mem)' /\ mem'.owner = mem.owner /\ mem'.diag.processed = mem.diag.processed + 1
  BY <1>1, ObservedIsSound
<1>3. (checkpoint # Absent => Sound(checkpoint))'
  BY <1>1, StaysSound
<1>4. mem.diag.processed - last_checkpoint_events < Interval
  BY DEF IInv
<1>5. /\ mem'.diag.processed - last_checkpoint_events' <= Interval
      /\ last_checkpoint_events' \in 0 .. mem'.diag.processed
  BY <1>1, <1>2, <1>4, Shapes
<1>6. pc' = "loop" => mem'.diag.processed - last_checkpoint_events' < Interval
  BY <1>1, <1>2, <1>5, Shapes DEF CheckpointDue
<1>7. TypeOK'
  BY <1>1, <1>2, <1>3, <1>5 DEF IInv, TypeOK, Sound
<1>8. (pair # "torn" => FilesMatch)'
  BY <1>1, <1>2 DEF IInv, FilesMatch
<1> QED BY <1>1, <1>2, <1>3, <1>6, <1>7, <1>8 DEF IInv

(* An event that is observed keeps it. *)
LEMMA ObserveKeeps == ASSUME IInv, Observe PROVE IInv'
<1> DEFINE other == mem.owner # input
<1>1. other \in BOOLEAN /\ (other \/ (Parts = Parts /\ mem.owner = input)) /\ Parts \in 1 .. Parts
  BY DEF Parts
<1>2. /\ pc = "loop" /\ ~Exhausted /\ ObserveUpTo(NextEvent, Parts, other)
      /\ pc' = (IF CheckpointDue THEN "replace" ELSE "loop") /\ failing' = failing
      /\ UNCHANGED <<trace, input, last_checkpoint_events, files, result, losses>>
  BY DEF Observe
<1>3. pc' \in {"loop", "replace"} /\ failing' \in BOOLEAN /\ (pc' = "loop" => ~CheckpointDue)
  BY <1>2 DEF IInv, TypeOK
<1> HIDE DEF other, CheckpointDue, Exhausted, ObserveUpTo, Parts
<1> QED BY <1>1, <1>2, <1>3, ObservingKeeps

(* An event that is cut short keeps it. *)
LEMMA FailInsideEventKeeps == ASSUME IInv, FailInsideEvent PROVE IInv'
<1>1. PICK k \in 1 .. Parts - 1 : ObserveUpTo(NextEvent, k, TRUE)
  BY DEF FailInsideEvent
<1> DEFINE yes == TRUE
<1>2. k \in 1 .. Parts /\ yes \in BOOLEAN /\ yes /\ ObserveUpTo(NextEvent, k, yes)
  <2>1. k \in 1 .. Parts
    BY DEF Parts
  <2> QED BY <1>1, <2>1
<1>3. /\ pc = "loop" /\ ~Exhausted /\ pc' \in {"loop", "replace"} /\ failing' \in BOOLEAN
      /\ (pc' = "loop" => ~CheckpointDue)
      /\ UNCHANGED <<trace, input, last_checkpoint_events, files, result, losses>>
  BY DEF FailInsideEvent, Handle
<1> HIDE DEF yes
<1> QED BY <1>2, <1>3, ObservingKeeps

(* An exception between events, or during a checkpoint, keeps it. *)
LEMMA FailBetweenEventsKeeps == ASSUME IInv, FailBetweenEvents PROVE IInv'
<1>1. /\ pc' = "replace" /\ failing' = TRUE
      /\ UNCHANGED <<trace, input, mem, last_checkpoint_events, checkpoint, manifest, result, lost, pair>>
  BY DEF FailBetweenEvents, Handle, files, losses
<1>2. Sound(mem)' /\ (checkpoint # Absent => Sound(checkpoint))'
  BY <1>1, StaysSound
<1>3. TypeOK'
  BY <1>1 DEF IInv, TypeOK, StateOK
<1> QED BY <1>1, <1>2, <1>3 DEF IInv, FilesMatch

(* The first of the two writes keeps it. *)
LEMMA ReplaceCheckpointKeeps == ASSUME IInv, ReplaceCheckpoint PROVE IInv'
<1>1. /\ pc' = "manifest" /\ checkpoint' = mem /\ PairBecomes("halfway")
      /\ UNCHANGED <<trace, input, mem, last_checkpoint_events, failing, manifest, result, lost>>
  BY DEF ReplaceCheckpoint
<1>2. Sound(mem)' /\ Sound(checkpoint)'
  BY <1>1, StaysSound
<1>3. pair' \in {"halfway", "torn"} /\ (pair' # "torn" => pair # "torn")
  BY <1>1 DEF PairBecomes
<1>4. TypeOK'
  BY <1>1, <1>2, <1>3 DEF IInv, TypeOK, StateOK, Sound
<1> QED BY <1>1, <1>2, <1>3, <1>4 DEF IInv, FilesMatch

(* What ends a process keeps the invariant if the files go on to match. *)
LEMMA GoneKeeps ==
  ASSUME IInv, Gone, trace' = trace, input' = input, checkpoint' = checkpoint,
         lost' \in 0 .. MaxLost, pair' \in {"whole", "torn"},
         (manifest # Absent => manifest.phase \in {"in_progress", "complete"})',
         (pair = "whole" /\ checkpoint # Absent /\ manifest # Absent /\ manifest.phase = "in_progress"
            => checkpoint.owner = manifest.input)'
  PROVE  IInv'
<1>1. pc' = "down" /\ mem' = Fresh(input) /\ last_checkpoint_events' = 0 /\ failing' = FALSE
  BY DEF Gone
<1>2. trace \in Traces /\ input \in Inputs
  BY DEF IInv, TypeOK
<1>3. Sound(Fresh(input)) /\ Fresh(input).owner = input /\ Fresh(input).diag.processed = 0
  BY <1>2, FreshIsSound
<1>4. Sound(mem)' /\ mem'.owner = input /\ mem'.diag.processed = 0
  BY <1>1, <1>3 DEF Sound, StateOK, PrefixState
<1>5. (checkpoint # Absent => Sound(checkpoint))'
  BY StaysSound
<1>6. TypeOK'
  <2>1. 0 \in 0 .. 0 /\ 0 - 0 <= Interval
    BY CheckpointAssumption
  <2>2. StateOK(mem)' /\ (checkpoint # Absent => StateOK(checkpoint))'
    BY <1>4, <1>5 DEF Sound
  <2>3. /\ pc' = "down" /\ input' \in Inputs /\ failing' \in BOOLEAN
        /\ mem'.diag.processed = 0 /\ last_checkpoint_events' = 0
    BY <1>1, <1>2, <1>4
  <2> QED BY <2>1, <2>2, <2>3 DEF TypeOK
<1> QED BY <1>1, <1>2, <1>4, <1>5, <1>6 DEF IInv, FilesMatch

(* The second of the two writes keeps it. *)
LEMMA WriteManifestKeeps == ASSUME IInv, WriteManifest PROVE IInv'
<1>1. /\ pc = "manifest" /\ UNCHANGED <<trace, input, checkpoint, result, lost>> /\ PairBecomes("whole")
      /\ manifest' = [phase |-> "in_progress", input |-> input, processed |-> mem.diag.processed]
  BY DEF WriteManifest, write_analysis_state
<1>2. /\ checkpoint = mem /\ (pair' = "whole" => mem.owner = input)
      /\ pair' \in {"whole", "torn"} /\ lost' \in 0 .. MaxLost
  BY <1>1 DEF IInv, FilesMatch, TypeOK, PairBecomes
<1>3. manifest'.phase = "in_progress" /\ manifest'.input = input
  BY <1>1
<1>4. CASE Gone
  BY <1>1, <1>2, <1>3, <1>4, GoneKeeps
<1>5. CASE pc' = "loop" /\ last_checkpoint_events' = mem.diag.processed /\ UNCHANGED <<mem, failing>>
  <2>1. Sound(mem)' /\ (checkpoint # Absent => Sound(checkpoint))'
    BY <1>1, <1>5, StaysSound
  <2>2. /\ mem'.diag.processed - last_checkpoint_events' = 0
        /\ last_checkpoint_events' \in 0 .. mem'.diag.processed
    BY <1>5, Shapes
  <2>3. 0 < Interval /\ 0 <= Interval
    BY CheckpointAssumption
  <2>4. StateOK(mem)' /\ (checkpoint # Absent => StateOK(checkpoint))'
    BY <2>1 DEF Sound
  <2>5. (input \in Inputs /\ failing \in BOOLEAN /\ lost \in 0 .. MaxLost /\ pair \in {"whole", "halfway", "torn"})'
    BY <1>1, <1>2, <1>5 DEF IInv, TypeOK
  <2>6. TypeOK'
    BY <1>3, <1>5, <2>2, <2>3, <2>4, <2>5 DEF TypeOK
  <2> QED BY <1>1, <1>2, <1>3, <1>5, <2>1, <2>2, <2>3, <2>6 DEF IInv, FilesMatch
<1> QED BY <1>4, <1>5 DEF WriteManifest

(* The completion keeps it. *)
LEMMA FinishKeeps == ASSUME IInv, Finish PROVE IInv'
<1>1. /\ pc = "loop" /\ Exhausted /\ pc' = "done" /\ result' = DiagnosticsResult(mem.diag)
      /\ manifest' = [phase |-> "complete", input |-> input, processed |-> mem.diag.processed]
      /\ UNCHANGED <<trace, input, mem, last_checkpoint_events, failing, checkpoint, lost, pair>>
  BY DEF Finish, write_analysis_state, losses
<1>2. Sound(mem)' /\ (checkpoint # Absent => Sound(checkpoint))'
  BY <1>1, StaysSound
<1>3. manifest'.phase = "complete"
  BY <1>1
<1>4. TypeOK'
  BY <1>1, <1>3 DEF IInv, TypeOK, StateOK
<1> QED BY <1>1, <1>2, <1>3, <1>4 DEF IInv, FilesMatch, Exhausted

(* A run that is lost keeps it: one lost halfway ends the promise about the inputs. *)
LEMMA EndUnsavedKeeps ==
  ASSUME IInv, pc \in {"loop", "replace", "manifest"}, EndUnsaved
  PROVE  IInv'
<1>1. /\ Gone /\ lost' = lost + 1 /\ UNCHANGED <<trace, input, checkpoint, manifest>> /\ lost < MaxLost
      /\ PairBecomes(IF pair = "halfway" THEN "torn" ELSE pair)
  BY DEF EndUnsaved, files
<1>2. lost' \in 0 .. MaxLost
  BY <1>1, CheckpointAssumption DEF IInv, TypeOK
<1>3. pair' \in {"whole", "torn"} /\ (pair' = "whole" => pair = "whole")
  BY <1>1 DEF IInv, TypeOK, PairBecomes
<1>4. (manifest # Absent => manifest.phase \in {"in_progress", "complete"})'
  BY <1>1 DEF IInv, TypeOK
<1>5. (pair = "whole" /\ checkpoint # Absent /\ manifest # Absent /\ manifest.phase = "in_progress"
         => checkpoint.owner = manifest.input)'
  BY <1>1, <1>3 DEF IInv, FilesMatch
<1> QED BY <1>1, <1>2, <1>3, <1>4, <1>5, GoneKeeps

(* The three ways to lose a run. *)
LEMMA LossKeeps == ASSUME IInv, FailInHandler \/ FailAfterPass \/ Kill PROVE IInv'
  BY EndUnsavedKeeps DEF FailInHandler, FailAfterPass, Kill

(* The invariant holds throughout. *)
LEMMA Invariance == Spec => []IInv
<1>1. IInv /\ [Next]_vars => IInv'
  <2> SUFFICES ASSUME IInv, [Next]_vars PROVE IInv'
    OBVIOUS
  <2>1. CASE UNCHANGED vars
    <3>1. UNCHANGED <<trace, pc, input, mem, last_checkpoint_events, failing, checkpoint, manifest, result,
                    lost, pair>>
      BY <2>1 DEF vars, run, files, losses
    <3>2. Sound(mem)' /\ (checkpoint # Absent => Sound(checkpoint))'
      BY <3>1, StaysSound
    <3>3. TypeOK'
      BY <3>1 DEF IInv, TypeOK, StateOK
    <3> QED BY <3>1, <3>2, <3>3 DEF IInv, FilesMatch, Exhausted
  <2>2. ASSUME NEW i \in Inputs, Start(i) PROVE IInv'
    BY <2>2, StartKeeps
  <2> QED BY <2>1, <2>2, ObserveKeeps, FailBetweenEventsKeeps, FailInsideEventKeeps, ReplaceCheckpointKeeps,
             WriteManifestKeeps, FinishKeeps, LossKeeps DEF Next
<1> QED BY <1>1, InitEstablishes, PTL DEF Spec

----------------------------------------------------------------------------
(* The properties of the runs *)

(* Every variable keeps its shape, and an analysis that dies loses at most the  *)
(* events of one checkpoint interval.                                            *)
THEOREM TypeCorrect == Spec => []TypeOK
<1>1. IInv => TypeOK
  BY DEF IInv
<1> QED BY <1>1, Invariance, PTL

(* Wherever a pass was interrupted between events, lost or taken up again, its   *)
(* state is the one a single pass has after as many events of its input.         *)
THEOREM CheckpointsArePrefixes == Spec => []StateIsAPrefix
<1>1. IInv => StateIsAPrefix
  BY DEF IInv, Sound, StateIsAPrefix
<1> QED BY <1>1, Invariance, PTL

(* Only a run that ends halfway between its two writes, killed or hit by an        *)
(* exception in the handler's own checkpoint, can make a later run take up another *)
(* input's state; no other kill, exception or change of the input does.            *)
THEOREM RunsAdoptTheirOwn == Spec => []AdoptsOwnState
<1>1. IInv => AdoptsOwnState
  BY DEF IInv, FilesMatch, AdoptsOwnState
<1> QED BY <1>1, Invariance, PTL

(* What a finished analysis reports, if no exception struck inside an event and it *)
(* took up no other input's state: what one pass over its whole input reports.     *)
ReportsOnePass ==
  pc = "done" /\ ~mem.spoiled /\ mem.owner = input =>
    result = DiagnosticsResult(PrefixState(input, Len(trace[input])))
THEOREM ResumedReportIsOnePass == Spec => []ReportsOnePass
<1>1. IInv => ReportsOnePass
  <2> SUFFICES ASSUME IInv, pc = "done", ~mem.spoiled, mem.owner = input
               PROVE  result = DiagnosticsResult(PrefixState(input, Len(trace[input])))
    BY DEF ReportsOnePass
  <2>1. /\ mem.diag = PrefixState(input, mem.diag.processed) /\ mem.diag.processed <= Len(trace[input])
        /\ mem.diag.processed >= Len(trace[input]) /\ mem.diag.processed \in Nat
        /\ result = DiagnosticsResult(mem.diag)
    BY DEF IInv, Sound, StateOK, Exhausted
  <2>2. Len(trace[input]) \in Nat
    BY TraceType DEF IInv, TypeOK
  <2>3. mem.diag.processed = Len(trace[input])
    BY <2>1, <2>2
  <2> QED BY <2>1, <2>3
<1> QED BY <1>1, Invariance, PTL

----------------------------------------------------------------------------
(* The queue: maxima, sums and counts, one entry more at a time *)

(* The larger of two numbers. *)
LEMMA LargerOf ==
  ASSUME NEW x \in Int, NEW y \in Int
  PROVE  Larger(x, y) \in {x, y} /\ Larger(x, y) >= x /\ Larger(x, y) >= y
  BY DEF Larger

(* A maximum is where it is found. *)
LEMMA MaxIs ==
  ASSUME NEW T \in SUBSET Int, NEW m \in T, \A x \in T : x <= m
  PROVE  Max(T) = m
<1>1. \E x \in T : \A y \in T : x >= y
  OBVIOUS
<1>2. Max(T) \in T /\ \A y \in T : Max(T) >= y
  BY <1>1 DEF Max
<1>3. Max(T) >= m /\ m >= Max(T) /\ Max(T) \in Int /\ m \in Int
  BY <1>2
<1> QED BY <1>3

(* The largest of a set, as a fact of its own. *)
Top(m, T) == m = Max(T) /\ m \in T /\ \A x \in T : x <= m

(* The maximum of a number and those of a list that grows. *)
LEMMA MaxGrows ==
  ASSUME NEW low \in Int, NEW list \in Seq(Int), NEW v \in Int,
         NEW m, Top(m, {low} \cup ToSet(list))
  PROVE  Top(Larger(m, v), {low} \cup ToSet(Append(list, v)))
<1> DEFINE old == {low} \cup ToSet(list)
           more == {low} \cup ToSet(Append(list, v))
           big == Larger(m, v)
<1>1. more = old \cup {v}
  <2> DEFINE list2 == Append(list, v)
  <2>1. /\ DOMAIN list = 1 .. Len(list) /\ DOMAIN list2 = 1 .. Len(list) + 1 /\ Len(list) \in Nat
        /\ list2[Len(list) + 1] = v /\ \A i \in 1 .. Len(list) : list2[i] = list[i]
    OBVIOUS
  <2> HIDE DEF list2
  <2>2. ToSet(list) = {list[i] : i \in DOMAIN list} /\ ToSet(list2) = {list2[i] : i \in DOMAIN list2}
    BY DEF ToSet
  <2>3. ToSet(list2) = ToSet(list) \cup {v}
    <3>1. ASSUME NEW x \in ToSet(list2) PROVE x \in ToSet(list) \cup {v}
      BY <2>1, <2>2
    <3>2. ASSUME NEW x \in ToSet(list) PROVE x \in ToSet(list2)
      BY <2>1, <2>2
    <3>3. v \in ToSet(list2)
      BY <2>1, <2>2
    <3> QED BY <3>1, <3>2, <3>3
  <2> QED BY <2>3 DEF list2
<1>2. ToSet(list) \subseteq Int
  BY DEF ToSet
<1>3. m \in old /\ \A x \in old : x <= m
  BY DEF Top
<1>4. old \in SUBSET Int
  BY <1>2
<1> HIDE DEF old, more
<1>5. m \in Int /\ big \in {m, v} /\ big >= m /\ big >= v /\ big \in Int
  BY <1>3, <1>4, LargerOf
<1> HIDE DEF big
<1>6. more \in SUBSET Int /\ big \in more
  BY <1>1, <1>3, <1>4, <1>5
<1>8. ASSUME NEW x \in more PROVE x <= big
  <2>1. CASE x = v
    BY <1>5, <2>1
  <2>2. CASE x # v
    <3>1. x \in old /\ x <= m /\ x \in Int
      BY <1>1, <1>3, <1>4, <2>2
    <3> QED BY <1>5, <3>1
  <2> QED BY <2>1, <2>2
<1>7. Max(more) = big
  BY <1>6, <1>8, MaxIs
<1> QED BY <1>6, <1>7, <1>8 DEF more, big, Top

(* The sum of no numbers, and of one more. *)
LEMMA CountGrows ==
  ASSUME NEW n \in Nat, NEW P, NEW Q, P \subseteq 1 .. n, Q \subseteq 1 .. n + 1,
         \A i \in 1 .. n : i \in Q <=> i \in P
  PROVE  /\ Cardinality(P) \in Nat
         /\ Cardinality(Q) = IF n + 1 \in Q THEN Cardinality(P) + 1 ELSE Cardinality(P)
<1>1. IsFiniteSet(1 .. n)
  BY FS_Interval
<1>2. IsFiniteSet(P) /\ Cardinality(P) \in Nat
  BY <1>1, FS_Subset, FS_CardinalityType
<1>3. CASE n + 1 \in Q
  <2>1. n + 1 \notin P /\ n + 1 \in Nat
    OBVIOUS
  <2>2. ASSUME NEW i \in Q PROVE i \in P \cup {n + 1}
    OBVIOUS
  <2>3. ASSUME NEW i \in P PROVE i \in Q
    OBVIOUS
  <2>4. Q = P \cup {n + 1}
    BY <1>3, <2>2, <2>3
  <2> QED BY <1>2, <1>3, <2>1, <2>4, FS_AddElement
<1>4. CASE n + 1 \notin Q
  <2>2. ASSUME NEW i \in Q PROVE i \in P
    BY <1>4
  <2>3. ASSUME NEW i \in P PROVE i \in Q
    OBVIOUS
  <2>1. Q = P
    BY <2>2, <2>3
  <2> QED BY <1>2, <1>4, <2>1
<1> QED BY <1>3, <1>4

(* Nothing waits in an empty queue. *)
LEMMA NoneCounted ==
  ASSUME NEW P, P = {} PROVE Cardinality(P) = 0
  BY FS_EmptySet

LEMMA QuotientShifts ==
  ASSUME NEW x \in Nat, NEW s \in Nat \ {0}
  PROVE  (x + s) \div s = (x \div s) + 1
  OBVIOUS

(* How many services it takes for what is left. *)
LEMMA CeilOfSmall ==
  ASSUME NEW s \in Nat \ {0}, NEW x \in 1 .. s PROVE CeilDiv(x, s) = 1
<1>1. x - 1 \in 0 .. s - 1
  OBVIOUS
<1>2. (x + s) - 1 = (x - 1) + s /\ x - 1 \in Nat
  BY <1>1
<1>3. (x - 1) \div s = 0
  BY <1>1
<1>4. ((x - 1) + s) \div s = 1
  BY <1>2, <1>3, QuotientShifts
<1> QED BY <1>2, <1>4 DEF CeilDiv

LEMMA CeilOfMore ==
  ASSUME NEW s \in Nat \ {0}, NEW x \in Nat \ {0} PROVE CeilDiv(x + s, s) = CeilDiv(x, s) + 1 /\ CeilDiv(x, s) \in Nat
<1> DEFINE y == x + (s - 1)
<1>1. y \in Nat /\ (x + s) - 1 = y /\ ((x + s) + s) - 1 = y + s
  OBVIOUS
<1> HIDE DEF y
<1>2. (y + s) \div s = (y \div s) + 1
  BY <1>1, QuotientShifts
<1>3. y \div s \in Nat
  BY <1>1
<1> QED BY <1>1, <1>2, <1>3 DEF CeilDiv

(* A list with one entry more, spelled out. *)
LEMMA Appended ==
  ASSUME NEW S, NEW list \in Seq(S), NEW v \in S
  PROVE  /\ Append(list, v) \in Seq(S) /\ Len(Append(list, v)) = Len(list) + 1
         /\ DOMAIN Append(list, v) = 1 .. Len(list) + 1 /\ DOMAIN list = 1 .. Len(list) /\ Len(list) \in Nat
         /\ Append(list, v)[Len(list) + 1] = v /\ \A i \in 1 .. Len(list) : Append(list, v)[i] = list[i]
  OBVIOUS

(* The departures are computed one event at a time. *)
LEMMA DeparturesAdd ==
  ASSUME NEW events, Len(events) \in Nat, NEW d
  PROVE  /\ Departures(events, d)[0] = <<>>
         /\ \A n \in 1 .. Len(events) :
              Departures(events, d)[n] = Joined(Departures(events, d)[n - 1], events[n].t * ClockHz, d)
<1> DEFINE N == Len(events)
           Step(h, n) == IF n = 0 THEN <<>> ELSE Joined(h[n - 1], events[n].t * ClockHz, d)
           Known == {m \in Nat : \E h : h = [n \in 0 .. m |-> Step(h, n)]}
<1>1. 0 \in Known
  <2>1. [n \in 0 .. 0 |-> <<>>] = [n \in 0 .. 0 |-> Step([k \in 0 .. 0 |-> <<>>], n)]
    OBVIOUS
  <2> HIDE DEF Step
  <2> QED BY <2>1
<1>2. ASSUME NEW m \in Nat, m \in Known PROVE m + 1 \in Known
  <2>1. PICK h : h = [n \in 0 .. m |-> Step(h, n)]
    BY <1>2
  <2> DEFINE g == [n \in 0 .. m + 1 |-> Step(h, n)]
  <2>2. ASSUME NEW n \in 0 .. m + 1 PROVE Step(h, n) = Step(g, n)
    <3>1. CASE n = 0
      BY <3>1
    <3>2. CASE n # 0
      <4>1. n - 1 \in 0 .. m /\ n - 1 \in 0 .. m + 1
        BY <3>2
      <4>2. g[n - 1] = h[n - 1]
        <5> HIDE DEF Step
        <5> QED BY <4>1, <2>1
      <4> HIDE DEF g
      <4> QED BY <3>2, <4>2
    <3> QED BY <3>1, <3>2
  <2>3. g = [n \in 0 .. m + 1 |-> Step(g, n)]
    BY <2>2
  <2> HIDE DEF g, Step
  <2> QED BY <2>3
<1>3. N \in Known
  <2> HIDE DEF Known
  <2> QED BY <1>1, <1>2, NatSetInduction
<1> DEFINE left == CHOOSE h : h = [n \in 0 .. N |-> Step(h, n)]
<1>4. left = [n \in 0 .. N |-> Step(left, n)]
  BY <1>3
<1>5. Departures(events, d) = left
  BY DEF Departures
<1> HIDE DEF left
<1>6. left[0] = <<>>
  BY <1>4
<1>7. ASSUME NEW n \in 1 .. N PROVE left[n] = Joined(left[n - 1], events[n].t * ClockHz, d)
  <2>1. n \in 0 .. N /\ n # 0
    OBVIOUS
  <2> QED BY <1>4, <2>1
<1> QED BY <1>5, <1>6, <1>7

Adds(h, numbers) ==
  /\ h[0] = 0 /\ h[Len(numbers)] = Total(numbers)
  /\ \A n \in 1 .. Len(numbers) : h[n] = h[n - 1] + numbers[n]

(* A total is added up number by number, and is a number. *)
LEMMA TotalAdds ==
  ASSUME NEW numbers \in Seq(Nat)
  PROVE  \E h : Adds(h, numbers) /\ h \in [0 .. Len(numbers) -> Nat]
<1> DEFINE Step(h, n) == IF n = 0 THEN 0 ELSE h[n - 1] + numbers[n]
           Built(m) == \E h \in [0 .. m -> Nat] : h = [n \in 0 .. m |-> Step(h, n)]
           Known == {m \in Nat : m <= Len(numbers) => Built(m)}
<1>1. 0 \in Known
  <2>1. 0 .. 0 = {0}
    OBVIOUS
  <2> DEFINE zero == [n \in 0 .. 0 |-> 0]
  <2>2. zero \in [0 .. 0 -> Nat] /\ zero = [n \in 0 .. 0 |-> Step(zero, n)]
    BY <2>1
  <2> HIDE DEF Step, zero
  <2> QED BY <2>2
<1>2. ASSUME NEW m \in Nat, m \in Known PROVE m + 1 \in Known
  <2> SUFFICES ASSUME m + 1 <= Len(numbers) PROVE Built(m + 1)
    <3> HIDE DEF Built
    <3> QED OBVIOUS
  <2>1. PICK h \in [0 .. m -> Nat] : h = [n \in 0 .. m |-> Step(h, n)]
    BY <1>2
  <2> DEFINE g == [n \in 0 .. m + 1 |-> Step(h, n)]
  <2>2. ASSUME NEW n \in 0 .. m + 1 PROVE Step(h, n) = Step(g, n) /\ Step(h, n) \in Nat
    <3>1. CASE n = 0
      BY <3>1
    <3>2. CASE n # 0
      <4>1. n - 1 \in 0 .. m /\ n - 1 \in 0 .. m + 1 /\ n \in 1 .. Len(numbers)
        BY <3>2
      <4>2. g[n - 1] = h[n - 1]
        <5> HIDE DEF Step
        <5> QED BY <4>1, <2>1
      <4>3. h[n - 1] \in Nat /\ numbers[n] \in Nat
        BY <4>1
      <4>4. Step(h, n) = h[n - 1] + numbers[n] /\ Step(g, n) = g[n - 1] + numbers[n]
        BY <3>2
      <4> HIDE DEF Step, g
      <4> QED BY <4>2, <4>3, <4>4
    <3> QED BY <3>1, <3>2
  <2>3. g = [n \in 0 .. m + 1 |-> Step(g, n)] /\ g \in [0 .. m + 1 -> Nat]
    BY <2>2
  <2> HIDE DEF g, Step
  <2> QED BY <2>3
<1>3. Len(numbers) \in Known /\ Len(numbers) \in Nat
  <2> HIDE DEF Known
  <2> QED BY <1>1, <1>2, NatSetInduction
<1>4. PICK f \in [0 .. Len(numbers) -> Nat] : f = [n \in 0 .. Len(numbers) |-> Step(f, n)]
  BY <1>3
<1> DEFINE sum == CHOOSE h : h = [n \in 0 .. Len(numbers) |-> Step(h, n)]
<1>5. sum = [n \in 0 .. Len(numbers) |-> Step(sum, n)]
  BY <1>4
<1>6. Total(numbers) = sum[Len(numbers)]
  BY DEF Total
<1> HIDE DEF sum
<1> DEFINE Same == {k \in Nat : k <= Len(numbers) => sum[k] = f[k]}
<1>7. 0 \in Same
  BY <1>3, <1>4, <1>5
<1>8. ASSUME NEW k \in Nat, k \in Same PROVE k + 1 \in Same
  <2> SUFFICES ASSUME k + 1 <= Len(numbers) PROVE sum[k + 1] = f[k + 1]
    OBVIOUS
  <2>1. k + 1 \in 0 .. Len(numbers) /\ (k + 1) - 1 = k /\ k + 1 # 0 /\ sum[k] = f[k]
    BY <1>8
  <2>2. sum[k + 1] = sum[k] + numbers[k + 1]
    BY <1>5, <2>1
  <2>3. f[k + 1] = f[k] + numbers[k + 1]
    BY <1>4, <2>1
  <2> QED BY <2>1, <2>2, <2>3
<1>9. Len(numbers) \in Same
  <2> HIDE DEF Same
  <2> QED BY <1>3, <1>7, <1>8, NatSetInduction
<1>10. f[0] = 0 /\ \A n \in 1 .. Len(numbers) : f[n] = f[n - 1] + numbers[n]
  BY <1>3, <1>4
<1>11. f[Len(numbers)] = Total(numbers)
  BY <1>3, <1>6, <1>9
<1> HIDE DEF Step
<1>12. Adds(f, numbers)
  BY <1>10, <1>11 DEF Adds
<1> QED BY <1>12

(* A total of naturals is a natural; of no numbers it is 0. *)
LEMMA TotalType == ASSUME NEW numbers \in Seq(Nat) PROVE Total(numbers) \in Nat
<1>1. PICK h \in [0 .. Len(numbers) -> Nat] : Adds(h, numbers)
  BY TotalAdds
<1>2. Len(numbers) \in 0 .. Len(numbers) /\ h[Len(numbers)] = Total(numbers)
  BY <1>1 DEF Adds
<1> QED BY <1>2

LEMMA TotalOfNone == ASSUME NEW numbers \in Seq(Nat), Len(numbers) = 0 PROVE Total(numbers) = 0
<1>1. PICK h \in [0 .. Len(numbers) -> Nat] : Adds(h, numbers)
  BY TotalAdds
<1> QED BY <1>1 DEF Adds

(* A number more at the end. *)
LEMMA TotalWithLast ==
  ASSUME NEW numbers \in Seq(Nat), NEW v \in Nat
  PROVE  Total(Append(numbers, v)) = Total(numbers) + v
<1> DEFINE more == Append(numbers, v)
           n == Len(numbers)
<1>1. /\ more \in Seq(Nat) /\ n \in Nat /\ Len(more) = n + 1 /\ more[n + 1] = v
      /\ \A k \in 1 .. n : more[k] = numbers[k]
  OBVIOUS
<1> HIDE DEF more
<1>2. PICK h \in [0 .. Len(numbers) -> Nat] : Adds(h, numbers)
  BY TotalAdds
<1>3. PICK g \in [0 .. Len(more) -> Nat] : Adds(g, more)
  BY <1>1, TotalAdds
<1> DEFINE Same == {k \in Nat : k <= n => g[k] = h[k]}
<1>4. 0 \in Same
  BY <1>2, <1>3 DEF Adds
<1>5. ASSUME NEW k \in Nat, k \in Same PROVE k + 1 \in Same
  <2> SUFFICES ASSUME k + 1 <= n PROVE g[k + 1] = h[k + 1]
    OBVIOUS
  <2>1. k + 1 \in 1 .. n /\ k + 1 \in 1 .. n + 1 /\ (k + 1) - 1 = k /\ k <= n
    BY <1>1
  <2>2. h[k + 1] = h[k] + numbers[k + 1]
    BY <1>2, <2>1 DEF Adds
  <2>3. g[k + 1] = g[k] + more[k + 1]
    BY <1>1, <1>3, <2>1 DEF Adds
  <2>4. g[k] = h[k] /\ more[k + 1] = numbers[k + 1]
    BY <1>1, <1>5, <2>1
  <2> QED BY <2>2, <2>3, <2>4
<1>6. n \in Same
  <2> HIDE DEF Same
  <2> QED BY <1>1, <1>4, <1>5, NatSetInduction
<1>7. g[n] = h[n]
  BY <1>1, <1>6
<1>8. h[Len(numbers)] = Total(numbers) /\ g[Len(more)] = Total(more)
  BY <1>2, <1>3 DEF Adds
<1>9. g[n + 1] = g[n] + more[n + 1]
  <2>1. n + 1 \in 1 .. Len(more) /\ (n + 1) - 1 = n
    BY <1>1
  <2> QED BY <1>3, <2>1 DEF Adds
<1>10. Total(more) = Total(numbers) + v
  BY <1>1, <1>7, <1>8, <1>9
<1> QED BY <1>10 DEF more


----------------------------------------------------------------------------
(* One event at the queue *)

CapacityFields == {"depth", "server", "occupancies", "overflow", "busy_start", "busy_end", "longest_busy", "last"}
StatsFields == {"count", "total", "min", "max", "size", "sample"}

Full(c, arrival) == c.depth # None /\ Outstanding(c, arrival) >= c.depth
ServerAfter(c, arrival) == IF Full(c, arrival) THEN c.server ELSE Larger(c.server, arrival) + ServiceNum
OccupancyAfter(c, arrival) ==
  IF Full(c, arrival) THEN Outstanding(c, arrival) ELSE CeilDiv(ServerAfter(c, arrival) - arrival, ServiceNum)

(* What an event changes in a queue, field by field. *)
LEMMA CapacityStep ==
  ASSUME NEW c, NEW t, DOMAIN c = CapacityFields, DOMAIN c.occupancies = StatsFields
  PROVE  LET new == CapacityObserve(c, t)
             arrival == t * ClockHz IN
         /\ DOMAIN new = CapacityFields /\ DOMAIN new.occupancies = StatsFields
         /\ new.depth = c.depth /\ new.server = ServerAfter(c, arrival)
         /\ new.overflow = IF Full(c, arrival) THEN c.overflow + 1 ELSE c.overflow
         /\ new.occupancies.total = c.occupancies.total + OccupancyAfter(c, arrival)
         /\ new.occupancies.max = Larger(c.occupancies.max, OccupancyAfter(c, arrival))
<1> DEFINE arrival == t * ClockHz
           new == CapacityObserve(c, t)
           v == OccupancyAfter(c, arrival)
<1>1. ASSUME NEW x
      PROVE  /\ DOMAIN AddStat(c.occupancies, x) = StatsFields
             /\ AddStat(c.occupancies, x).total = c.occupancies.total + x
             /\ AddStat(c.occupancies, x).max = Larger(c.occupancies.max, x)
  BY DEF AddStat, StatsFields
<1>2. CASE Full(c, arrival)
  <2>1. /\ DOMAIN new = CapacityFields /\ new.depth = c.depth /\ new.server = c.server
        /\ new.overflow = c.overflow + 1 /\ new.occupancies = AddStat(c.occupancies, Outstanding(c, arrival))
    BY <1>2 DEF CapacityObserve, Full, CapacityFields
  <2> QED BY <1>1, <1>2, <2>1 DEF OccupancyAfter, ServerAfter
<1>3. CASE ~Full(c, arrival)
  <2>1. /\ DOMAIN new = CapacityFields /\ new.depth = c.depth /\ new.server = Larger(c.server, arrival) + ServiceNum
        /\ new.overflow = c.overflow
        /\ new.occupancies = AddStat(c.occupancies, CeilDiv((Larger(c.server, arrival) + ServiceNum) - arrival, ServiceNum))
    BY <1>3 DEF CapacityObserve, Full, CapacityFields
  <2> QED BY <1>1, <1>3, <2>1 DEF OccupancyAfter, ServerAfter
<1> QED BY <1>2, <1>3

(* What the server still has to do at a time is how many have not left then. *)
Agrees(c, left, from) == \A A \in Nat : A >= from => Waiting(left, A) = Outstanding(c, A)

(* The server is done when the last accepted event leaves. *)
LastLeaves(c, left) ==
  c.server \in Nat /\ Top(c.server, {0} \cup ToSet(left))

(* When an accepted event leaves. *)
LEMMA NextDeparture ==
  ASSUME NEW c, NEW left \in Seq(Int), NEW arrival \in Nat, LastLeaves(c, left)
  PROVE  Max({arrival} \cup ToSet(left)) = Larger(c.server, arrival)
<1> DEFINE T == {arrival} \cup ToSet(left)
           m == Larger(c.server, arrival)
<1>1. ToSet(left) \subseteq Int
  BY DEF ToSet
<1>2. m \in {c.server, arrival} /\ m >= c.server /\ m >= arrival /\ m \in Nat
  BY LargerOf DEF LastLeaves, Top
<1>3. m \in T
  <2>1. CASE c.server \in ToSet(left)
    BY <1>2, <2>1
  <2>2. CASE c.server = 0
    BY <1>2, <2>2
  <2> QED BY <2>1, <2>2 DEF LastLeaves, Top
<1>4. ASSUME NEW x \in T PROVE x <= m
  <2>1. CASE x = arrival
    BY <1>2, <2>1
  <2>2. CASE x \in ToSet(left)
    <3>1. x \in Int /\ x <= c.server /\ c.server \in Nat
      BY <1>1, <2>2 DEF LastLeaves, Top
    <3> HIDE DEF m
    <3> QED BY <1>2, <3>1
  <2> QED BY <2>1, <2>2
<1>5. T \in SUBSET Int
  BY <1>1
<1> HIDE DEF T, m
<1>6. Max(T) = m
  BY <1>3, <1>4, <1>5, MaxIs
<1> QED BY <1>6 DEF T, m

(* One more in the queue, or one turned away: how many wait at a time. *)
LEMMA WaitingGrows ==
  ASSUME NEW left \in Seq(Int), NEW v \in Int, NEW A \in Nat
  PROVE  /\ Waiting(left, A) \in Nat
         /\ Waiting(Append(left, v), A) = IF v > A THEN Waiting(left, A) + 1 ELSE Waiting(left, A)
<1> DEFINE more == Append(left, v)
           n == Len(left)
           P == {i \in 1 .. n : left[i] > A}
           Q == {i \in 1 .. n + 1 : more[i] > A}
<1>1. /\ DOMAIN more = 1 .. n + 1 /\ DOMAIN left = 1 .. n /\ n \in Nat
      /\ more[n + 1] = v /\ \A i \in 1 .. n : more[i] = left[i]
  BY Appended
<1> HIDE DEF more, n
<1>2. /\ P \subseteq 1 .. n /\ Q \subseteq 1 .. n + 1 /\ \A i \in 1 .. n : i \in Q <=> i \in P
      /\ n + 1 \in Q <=> v > A
  BY <1>1
<1>3. Waiting(left, A) = Cardinality(P) /\ Waiting(more, A) = Cardinality(Q)
  BY <1>1 DEF Waiting
<1> HIDE DEF P, Q
<1>4. Cardinality(P) \in Nat /\ Cardinality(Q) = IF n + 1 \in Q THEN Cardinality(P) + 1 ELSE Cardinality(P)
  BY <1>1, <1>2, CountGrows
<1> QED BY <1>2, <1>3, <1>4 DEF more

Leaves(c, arrival) == IF Full(c, arrival) THEN None ELSE Larger(c.server, arrival) + ServiceNum

(* An event joins the queue when the server has room for it. *)
LEMMA JoinedIs ==
  ASSUME NEW c, NEW left \in Seq(Int), NEW arrival \in Nat, NEW from \in Nat, from <= arrival,
         LastLeaves(c, left), Agrees(c, left, from)
  PROVE  /\ Joined(left, arrival, c.depth) = Append(left, Leaves(c, arrival))
         /\ Leaves(c, arrival) \in Int /\ ServerAfter(c, arrival) \in Nat
         /\ Leaves(c, arrival) = None <=> Full(c, arrival)
         /\ ~Full(c, arrival) => Leaves(c, arrival) = ServerAfter(c, arrival)
<1>1. Waiting(left, arrival) = Outstanding(c, arrival)
  BY DEF Agrees
<1>2. Max({arrival} \cup ToSet(left)) = Larger(c.server, arrival)
  BY NextDeparture
<1>3. c.server \in Nat /\ ServiceNum \in Nat \ {0}
  BY ArrivalAssumption DEF LastLeaves, Top
<1>4. Larger(c.server, arrival) \in Nat
  BY <1>3, LargerOf
<1>5. ServiceNum + Larger(c.server, arrival) = Larger(c.server, arrival) + ServiceNum
  BY <1>3, <1>4
<1>6. Joined(left, arrival, c.depth) = Append(left, Leaves(c, arrival))
  BY <1>1, <1>2, <1>5 DEF Joined, Leaves, Full
<1> QED BY <1>3, <1>4, <1>6 DEF Leaves, ServerAfter, None

(* The server's remaining work goes on being the number of events that wait. *)
LEMMA AgreesOn ==
  ASSUME NEW c, NEW left \in Seq(Int), NEW arrival \in Nat, NEW from \in Nat, from <= arrival,
         LastLeaves(c, left), Agrees(c, left, from),
         NEW new, new.server = ServerAfter(c, arrival), NEW A \in Nat, A >= arrival
  PROVE  Waiting(Append(left, Leaves(c, arrival)), A) = Outstanding(new, A)
<1> DEFINE v == Leaves(c, arrival)
           old == Waiting(left, A)
           s == c.server
           z == new.server
<1>1. /\ v \in Int /\ z = ServerAfter(c, arrival) /\ z \in Nat
      /\ Full(c, arrival) <=> v = None
      /\ ~Full(c, arrival) => v = z
  BY JoinedIs
<1>2. s \in Nat /\ ServiceNum \in Nat \ {0}
  BY ArrivalAssumption DEF LastLeaves, Top
<1>3. Waiting(Append(left, v), A) = IF v > A THEN old + 1 ELSE old
  <2> HIDE DEF v
  <2> QED BY <1>1, WaitingGrows
<1>4. old = IF s <= A THEN 0 ELSE CeilDiv(s - A, ServiceNum)
  BY DEF Agrees, Outstanding
<1>5. Outstanding(new, A) = IF z <= A THEN 0 ELSE CeilDiv(z - A, ServiceNum)
  BY DEF Outstanding
<1>6. CASE Full(c, arrival)
  <2>1. z = s /\ v = -1
    BY <1>1, <1>6 DEF ServerAfter, None
  <2> HIDE DEF v, old, s, z
  <2>2. ~(v > A)
    BY <2>1
  <2> QED BY <1>3, <1>4, <1>5, <2>1, <2>2 DEF v
<1>7. CASE ~Full(c, arrival)
  <2>1. v = z /\ z = Larger(s, arrival) + ServiceNum
    BY <1>1, <1>7 DEF ServerAfter
  <2>2. CASE s <= arrival
    <3>1. z = arrival + ServiceNum
      BY <1>2, <2>1, <2>2 DEF Larger
    <3> HIDE DEF v, old, s, z
    <3>2. old = 0
      BY <1>2, <1>4, <2>2
    <3>3. CASE z <= A
      BY <1>1, <1>3, <1>5, <2>1, <3>2, <3>3 DEF v
    <3>4. CASE z > A
      <4>1. z - A \in 1 .. ServiceNum
        BY <1>1, <1>2, <3>1, <3>4
      <4>2. CeilDiv(z - A, ServiceNum) = 1
        BY <1>2, <4>1, CeilOfSmall
      <4>3. ~(z <= A)
        BY <1>1, <3>4
      <4> QED BY <1>3, <1>5, <2>1, <3>2, <3>4, <4>2, <4>3 DEF v
    <3> QED BY <1>1, <3>3, <3>4
  <2>3. CASE s > arrival
    <3>1. z = s + ServiceNum
      BY <1>2, <2>1, <2>3 DEF Larger
    <3> HIDE DEF v, old, s, z
    <3>2. CASE z <= A
      <4>1. s <= A /\ ~(z > A)
        BY <1>1, <1>2, <3>1, <3>2
      <4> QED BY <1>3, <1>4, <1>5, <2>1, <3>2, <4>1 DEF v
    <3>3. CASE z > A /\ s <= A
      <4>1. z - A \in 1 .. ServiceNum
        BY <1>1, <1>2, <3>1, <3>3
      <4>2. CeilDiv(z - A, ServiceNum) = 1
        BY <1>2, <4>1, CeilOfSmall
      <4>3. ~(z <= A)
        BY <1>1, <3>3
      <4> QED BY <1>3, <1>4, <1>5, <2>1, <3>3, <4>2, <4>3 DEF v
    <3>4. CASE s > A
      <4> DEFINE x == s - A
      <4>1. x \in Nat \ {0} /\ z - A = x + ServiceNum /\ z > A /\ ~(z <= A) /\ ~(s <= A)
        BY <1>2, <3>1, <3>4
      <4>2. old = CeilDiv(x, ServiceNum)
        BY <1>4, <4>1
      <4> HIDE DEF x
      <4>3. CeilDiv(x + ServiceNum, ServiceNum) = CeilDiv(x, ServiceNum) + 1
        BY <1>2, <4>1, CeilOfMore
      <4> QED BY <1>3, <1>5, <2>1, <4>1, <4>2, <4>3 DEF v
    <3> QED BY <1>1, <1>2, <3>2, <3>3, <3>4
  <2> QED BY <1>2, <2>2, <2>3
<1> QED BY <1>6, <1>7

(* The server is done with the last departure. *)
LEMMA LastLeavesGrows ==
  ASSUME NEW c, NEW left \in Seq(Int), NEW arrival \in Nat, NEW from \in Nat, from <= arrival,
         LastLeaves(c, left), Agrees(c, left, from), NEW new, new.server = ServerAfter(c, arrival)
  PROVE  LastLeaves(new, Append(left, Leaves(c, arrival)))
<1> DEFINE v == Leaves(c, arrival)
           zero == 0
           m == c.server
<1>1. /\ v \in Int /\ new.server \in Nat
      /\ Full(c, arrival) <=> v = None
      /\ ~Full(c, arrival) => v = new.server
  BY JoinedIs
<1>2. m \in Nat /\ Top(m, {zero} \cup ToSet(left))
  BY DEF LastLeaves
<1>3. zero \in Int /\ arrival \in Nat /\ ServiceNum \in Nat \ {0}
  BY ArrivalAssumption
<1>4. Larger(m, v) = new.server
  <2>1. CASE Full(c, arrival)
    <3>1. v = -1 /\ new.server = m
      BY <1>1, <2>1 DEF None, ServerAfter
    <3> HIDE DEF v, m
    <3> QED BY <1>2, <3>1 DEF Larger
  <2>2. CASE ~Full(c, arrival)
    <3>1. v = Larger(m, arrival) + ServiceNum /\ v = new.server
      BY <1>1, <2>2 DEF Leaves
    <3>2. Larger(m, arrival) >= m /\ Larger(m, arrival) \in Int
      BY <1>2, <1>3, LargerOf
    <3> HIDE DEF v, m
    <3>3. v > m
      BY <1>2, <1>3, <3>1, <3>2
    <3> QED BY <1>1, <1>2, <3>1, <3>3 DEF Larger
  <2> QED BY <2>1, <2>2
<1> HIDE DEF zero, m, v
<1>5. Top(Larger(m, v), {zero} \cup ToSet(Append(left, v)))
  BY <1>1, <1>2, <1>3, MaxGrows
<1> QED BY <1>1, <1>4, <1>5 DEF LastLeaves, v, zero


(* A list one longer than another, with the same numbers before, is its extension. *)
LEMMA IsAppend ==
  ASSUME NEW x \in Seq(Nat), NEW q \in Seq(Nat), NEW v \in Nat,
         Len(x) = Len(q) + 1, x[Len(q) + 1] = v, \A i \in 1 .. Len(q) : x[i] = q[i]
  PROVE  x = Append(q, v)
<1> DEFINE y == Append(q, v)
<1>1. /\ y \in Seq(Nat) /\ Len(y) = Len(q) + 1 /\ y[Len(q) + 1] = v
      /\ \A i \in 1 .. Len(q) : y[i] = q[i]
  OBVIOUS
<1> HIDE DEF y
<1>2. ASSUME NEW i \in 1 .. Len(x) PROVE x[i] = y[i]
  <2>1. CASE i = Len(q) + 1
    BY <1>1, <2>1
  <2>2. CASE i # Len(q) + 1
    <3>1. i \in 1 .. Len(q)
      BY <2>2
    <3> QED BY <1>1, <3>1
  <2> QED BY <2>1, <2>2
<1>3. Len(x) = Len(y)
  BY <1>1
<1>4. x = y
  BY <1>1, <1>2, <1>3, SeqEqual
<1> QED BY <1>4 DEF y

(* How many each event finds before it, itself included, over the first events. *)
Presents(left, events, n) == [i \in 1 .. n |-> Present(left, events, i)]

(* The occupancy of an event does not change with what comes after it. *)
LEMMA PresentsGrow ==
  ASSUME NEW left \in Seq(Int), NEW n \in Nat, Len(left) = n, NEW v \in Int, NEW events, NEW arrival \in Nat,
         events[n + 1].t * ClockHz = arrival
  PROVE  /\ Presents(left, events, n) \in Seq(Nat) /\ Len(Presents(left, events, n)) = n
         /\ Presents(Append(left, v), events, n + 1) =
              Append(Presents(left, events, n), Waiting(Append(left, v), arrival))
<1> DEFINE more == Append(left, v)
           old == Presents(left, events, n)
           new == Presents(more, events, n + 1)
           w == Waiting(more, arrival)
<1>1. /\ more \in Seq(Int) /\ DOMAIN more = 1 .. n + 1 /\ \A i \in 1 .. n : more[i] = left[i]
  BY Appended
<1>2. w \in Nat
  BY <1>1, WaitingGrows
<1> HIDE DEF more
<1>3. ASSUME NEW i \in 1 .. n PROVE Present(more, events, i) = Present(left, events, i) /\ Present(left, events, i) \in Nat
  <2> DEFINE A == events[i].t * ClockHz
             P == {j \in 1 .. i : left[j] > A}
  <2>1. {j \in 1 .. i : more[j] > A} = P
    <3>1. \A j \in 1 .. i : more[j] = left[j]
      BY <1>1
    <3> HIDE DEF A
    <3> QED BY <3>1
  <2>2. P \subseteq 1 .. i
    OBVIOUS
  <2>4. IsFiniteSet(1 .. i)
    BY FS_Interval
  <2> HIDE DEF P
  <2>3. Cardinality(P) \in Nat
    BY <2>2, <2>4, FS_Subset, FS_CardinalityType
  <2> QED BY <2>1, <2>3 DEF Present, P
<1>4. Present(more, events, n + 1) = w
  BY <1>1 DEF Present, Waiting
<1> HIDE DEF w
<1>5. old \in [1 .. n -> Nat] /\ new \in [1 .. n + 1 -> Nat]
  <2>1. \A i \in 1 .. n + 1 : Present(more, events, i) \in Nat
    <3> SUFFICES ASSUME NEW i \in 1 .. n + 1 PROVE Present(more, events, i) \in Nat
      OBVIOUS
    <3>1. CASE i = n + 1
      BY <1>2, <1>4, <3>1
    <3>2. CASE i # n + 1
      <4>1. i \in 1 .. n
        BY <3>2
      <4> QED BY <1>3, <4>1
    <3> QED BY <3>1, <3>2
  <2>2. \A i \in 1 .. n : Present(left, events, i) \in Nat
    BY <1>3
  <2> QED BY <2>1, <2>2 DEF Presents
<1>6. new[n + 1] = w /\ \A i \in 1 .. n : new[i] = old[i]
  <2>1. \A i \in 1 .. n + 1 : new[i] = Present(more, events, i)
    BY DEF Presents
  <2>2. \A i \in 1 .. n : old[i] = Present(left, events, i)
    BY DEF Presents
  <2>3. n + 1 \in 1 .. n + 1 /\ \A i \in 1 .. n : i \in 1 .. n + 1
    OBVIOUS
  <2> HIDE DEF new, old
  <2> QED BY <1>3, <1>4, <2>1, <2>2, <2>3
<1> HIDE DEF old, new
<1>7. old \in Seq(Nat) /\ Len(old) = n /\ new \in Seq(Nat) /\ Len(new) = n + 1
  BY <1>5
<1>8. new = Append(old, w)
  BY <1>2, <1>6, <1>7, IsAppend
<1> QED BY <1>7, <1>8 DEF old, new, w, more

(* The queue of the program after the first events is the real one. *)
Follows(c, left, events, n) ==
  LET present == Presents(left, events, n) IN
  /\ DOMAIN c = CapacityFields /\ DOMAIN c.occupancies = StatsFields
  /\ left \in Seq(Int) /\ Len(left) = n /\ LastLeaves(c, left)
  /\ Agrees(c, left, IF n = 0 THEN 0 ELSE events[n].t * ClockHz)
  /\ present \in Seq(Nat)
  /\ c.overflow = Cardinality({i \in 1 .. n : left[i] = None})
  /\ c.occupancies.total = Total(present)
  /\ Top(c.occupancies.max, {None} \cup ToSet(present))

LEMMA Arrivals ==
  ASSUME NEW events \in Seq(Event), NEW i \in 1 .. Len(events)
  PROVE  events[i].t \in Nat /\ events[i].t * ClockHz \in Nat
<1>1. events[i] \in Event
  OBVIOUS
<1>2. events[i].t \in Nat /\ ClockHz \in Nat
  BY <1>1, ArrivalAssumption DEF Event
<1> QED BY <1>2

LEMMA LaterArrival ==
  ASSUME NEW x \in Nat, NEW y \in Nat, x <= y PROVE x * ClockHz <= y * ClockHz
<1>1. ClockHz \in Nat
  BY ArrivalAssumption
<1> QED BY <1>1

(* An event keeps the two queues together. *)
LEMMA FollowsOn ==
  ASSUME NEW events \in Seq(Event), InTimeOrder(events), NEW n \in Nat, n < Len(events),
         NEW c, NEW left, Follows(c, left, events, n)
  PROVE  /\ CapacityObserve(c, events[n + 1].t).depth = c.depth
         /\ Follows(CapacityObserve(c, events[n + 1].t), Joined(left, events[n + 1].t * ClockHz, c.depth), events, n + 1)
<1> DEFINE t == events[n + 1].t
           arrival == t * ClockHz
           from == IF n = 0 THEN 0 ELSE events[n].t * ClockHz
           new == CapacityObserve(c, t)
           v == Leaves(c, arrival)
           more == Append(left, v)
           old == Presents(left, events, n)
           w == Waiting(more, arrival)
<1>1. /\ DOMAIN c = CapacityFields /\ DOMAIN c.occupancies = StatsFields
      /\ left \in Seq(Int) /\ Len(left) = n /\ LastLeaves(c, left) /\ Agrees(c, left, from)
      /\ old \in Seq(Nat) /\ c.overflow = Cardinality({i \in 1 .. n : left[i] = None})
      /\ c.occupancies.total = Total(old) /\ Top(c.occupancies.max, {None} \cup ToSet(old))
  BY DEF Follows
<1>2. t \in Nat /\ arrival \in Nat /\ from \in Nat /\ from <= arrival
  <2>1. n + 1 \in 1 .. Len(events)
    OBVIOUS
  <2>2. CASE n = 0
    BY <2>1, <2>2, Arrivals
  <2>3. CASE n # 0
    <3>1. n \in 1 .. Len(events) /\ events[n].t <= t
      BY <2>3 DEF InTimeOrder
    <3> QED BY <2>1, <2>3, <3>1, Arrivals, LaterArrival
  <2> QED BY <2>2, <2>3
<1> HIDE DEF from, arrival, t
<1>3. /\ DOMAIN new = CapacityFields /\ DOMAIN new.occupancies = StatsFields
      /\ new.depth = c.depth /\ new.server = ServerAfter(c, arrival)
      /\ new.overflow = IF Full(c, arrival) THEN c.overflow + 1 ELSE c.overflow
      /\ new.occupancies.total = c.occupancies.total + OccupancyAfter(c, arrival)
      /\ new.occupancies.max = Larger(c.occupancies.max, OccupancyAfter(c, arrival))
  BY <1>1, CapacityStep DEF arrival
<1> HIDE DEF new
<1>4. /\ Joined(left, arrival, c.depth) = more
      /\ v \in Int /\ ServerAfter(c, arrival) \in Nat
  BY <1>1, <1>2, JoinedIs
<1>5. Full(c, arrival) <=> v = None
  BY <1>1, <1>2, JoinedIs
<1> HIDE DEF v
<1>6. /\ more \in Seq(Int) /\ Len(more) = n + 1 /\ more[n + 1] = v /\ \A i \in 1 .. n : more[i] = left[i]
  BY <1>1, <1>4, Appended
<1>7. Agrees(new, more, arrival)
  <2> SUFFICES ASSUME NEW A \in Nat, A >= arrival PROVE Waiting(more, A) = Outstanding(new, A)
    BY DEF Agrees
  <2> QED BY <1>1, <1>2, <1>3, AgreesOn DEF v
<1>8. LastLeaves(new, more)
  BY <1>1, <1>2, <1>3, LastLeavesGrows DEF v
<1>18. w \in Nat
  <2> HIDE DEF more
  <2> QED BY <1>2, <1>4, <1>6, WaitingGrows
<1>9. Waiting(more, arrival) = OccupancyAfter(c, arrival)
  <2>1. Waiting(more, arrival) = Outstanding(new, arrival)
    BY <1>2, <1>7 DEF Agrees
  <2>2. CASE Full(c, arrival)
    <3>1. Outstanding(new, arrival) = Outstanding(c, arrival)
      BY <1>3, <2>2 DEF Outstanding, ServerAfter
    <3> QED BY <2>1, <2>2, <3>1 DEF OccupancyAfter
  <2>3. CASE ~Full(c, arrival)
    <3>1. ServerAfter(c, arrival) > arrival
      <4>1. c.server \in Nat /\ ServiceNum \in Nat \ {0}
        BY <1>1, ArrivalAssumption DEF LastLeaves
      <4>2. Larger(c.server, arrival) >= arrival /\ Larger(c.server, arrival) \in Int
        BY <1>2, <4>1, LargerOf
      <4> QED BY <1>2, <2>3, <4>1, <4>2 DEF ServerAfter
    <3>2. ~(new.server <= arrival)
      BY <1>2, <1>3, <1>4, <3>1
    <3>3. Outstanding(new, arrival) = CeilDiv(ServerAfter(c, arrival) - arrival, ServiceNum)
      BY <1>3, <3>2 DEF Outstanding
    <3> QED BY <2>1, <2>3, <3>3 DEF OccupancyAfter
  <2> QED BY <2>2, <2>3
<1>10. old \in Seq(Nat) /\ Presents(more, events, n + 1) = Append(old, w)
  BY <1>1, <1>2, <1>4, PresentsGrow DEF arrival, t
<1> HIDE DEF more, w, old
<1>11. Append(old, w) \in Seq(Nat) /\ Total(Append(old, w)) = Total(old) + w
  BY <1>10, <1>18, TotalWithLast
<1>12. new.occupancies.total = Total(Presents(more, events, n + 1))
  BY <1>1, <1>3, <1>9, <1>10, <1>11 DEF w
<1>13. Top(new.occupancies.max, {None} \cup ToSet(Presents(more, events, n + 1)))
  <2> DEFINE m == c.occupancies.max
             low == None
  <2>1. low \in Int /\ old \in Seq(Int) /\ w \in Int /\ Top(m, {low} \cup ToSet(old))
    BY <1>1, <1>10, <1>18 DEF None
  <2> HIDE DEF m, low
  <2>2. Top(Larger(m, w), {low} \cup ToSet(Append(old, w)))
    BY <2>1, MaxGrows
  <2> QED BY <1>3, <1>9, <1>10, <2>2 DEF m, low, w
<1>14. new.overflow = Cardinality({i \in 1 .. n + 1 : more[i] = None})
  <2> DEFINE P == {i \in 1 .. n : left[i] = None}
             Q == {i \in 1 .. n + 1 : more[i] = None}
  <2>1. /\ P \subseteq 1 .. n /\ Q \subseteq 1 .. n + 1 /\ \A i \in 1 .. n : i \in Q <=> i \in P
    BY <1>6
  <2>2. n + 1 \in Q <=> Full(c, arrival)
    BY <1>5, <1>6
  <2> HIDE DEF P, Q
  <2>3. Cardinality(Q) = IF n + 1 \in Q THEN Cardinality(P) + 1 ELSE Cardinality(P)
    BY <2>1, CountGrows
  <2> QED BY <1>1, <1>3, <2>2, <2>3 DEF P, Q
<1>15. Agrees(new, more, IF n + 1 = 0 THEN 0 ELSE events[n + 1].t * ClockHz)
  <2>1. n + 1 # 0
    OBVIOUS
  <2> QED BY <1>7, <2>1 DEF arrival, t
<1>16. Presents(more, events, n + 1) \in Seq(Nat)
  BY <1>10, <1>11
<1>17. Follows(new, more, events, n + 1)
  BY <1>3, <1>6, <1>8, <1>12, <1>13, <1>14, <1>15, <1>16 DEF Follows
<1> QED BY <1>3, <1>4, <1>17 DEF new, more, arrival, t

(* A queue to which nothing came. *)
LEMMA FollowsNone ==
  ASSUME NEW events, NEW d
  PROVE  NewCapacity(d).depth = d /\ Follows(NewCapacity(d), <<>>, events, 0)
<1> DEFINE c == NewCapacity(d)
           none == <<>>
           zero == 0
           present == Presents(none, events, 0)
<1>1. none \in Seq(Int) /\ Len(none) = 0 /\ DOMAIN none = {} /\ ToSet(none) = {}
  BY DEF ToSet
<1>2. /\ DOMAIN c = CapacityFields /\ DOMAIN c.occupancies = StatsFields /\ c.depth = d
      /\ c.server = 0 /\ c.overflow = 0 /\ c.occupancies.total = 0 /\ c.occupancies.max = None
  BY DEF NewCapacity, NewStats, CapacityFields, StatsFields
<1>3. DOMAIN present = 1 .. 0 /\ present \in Seq(Nat) /\ Len(present) = 0
  BY DEF Presents
<1> HIDE DEF c, none, present
<1>4. ToSet(present) = {}
  BY <1>3 DEF ToSet
<1>5. ASSUME NEW x \in Int PROVE Top(x, {x} \cup {})
  <2> DEFINE T == {x} \cup {}
  <2>1. T \in SUBSET Int /\ x \in T /\ \A y \in T : y <= x
    OBVIOUS
  <2> HIDE DEF T
  <2>2. Max(T) = x
    BY <2>1, MaxIs
  <2> QED BY <2>1, <2>2 DEF Top, T
<1>6. LastLeaves(c, none)
  <2>1. zero \in Int
    OBVIOUS
  <2> HIDE DEF zero
  <2>2. Top(zero, {zero} \cup {})
    BY <1>5, <2>1
  <2> QED BY <1>1, <1>2, <2>2 DEF LastLeaves, zero
<1>7. Agrees(c, none, zero)
  <2> SUFFICES ASSUME NEW A \in Nat PROVE Waiting(none, A) = Outstanding(c, A)
    BY DEF Agrees
  <2>1. Outstanding(c, A) = 0
    BY <1>2 DEF Outstanding
  <2>2. {i \in DOMAIN none : none[i] > A} = {}
    BY <1>1
  <2> QED BY <2>1, <2>2, FS_EmptySet DEF Waiting
<1>8. c.overflow = Cardinality({i \in 1 .. 0 : none[i] = None})
  <2>1. {i \in 1 .. 0 : none[i] = None} = {}
    OBVIOUS
  <2> QED BY <1>2, <2>1, FS_EmptySet
<1>9. Total(present) = 0
  BY <1>3, TotalOfNone
<1>10. Top(c.occupancies.max, {None} \cup ToSet(present))
  BY <1>2, <1>4, <1>5 DEF None
<1>11. Follows(c, none, events, 0)
  BY <1>1, <1>2, <1>3, <1>6, <1>7, <1>8, <1>9, <1>10 DEF Follows, present, zero
<1> QED BY <1>2, <1>11 DEF c, none

(* After any number of the events of a pass the program's queues are the real ones. *)
LEMMA PassFollows ==
  ASSUME trace \in Traces, NEW i \in Inputs, InTimeOrder(trace[i]), NEW d \in Depths \cup {None},
         NEW n \in 0 .. Len(trace[i])
  PROVE  Follows(PrefixState(i, n).capacity[d], Departures(trace[i], d)[n], trace[i], n)
<1> DEFINE events == trace[i]
           state == [k \in Nat |-> PrefixState(i, k)]
           left == Departures(events, d)
           Good(k) == /\ DOMAIN state[k].capacity = Depths \cup {None} /\ state[k].capacity[d].depth = d
                      /\ Follows(state[k].capacity[d], left[k], events, k)
           Known == {k \in Nat : k <= Len(events) => Good(k)}
<1>1. events \in Seq(Event) /\ Len(events) \in Nat
  BY TraceType
<1>2. 0 \in Known
  <2>1. state[0] = NewDiagnostics
    BY <1>1, PassOfNone DEF PrefixState
  <2>2. NewDiagnostics.capacity = [x \in Depths \cup {None} |-> NewCapacity(x)]
    BY DEF NewDiagnostics
  <2>3. left[0] = <<>>
    BY <1>1, DeparturesAdd
  <2> HIDE DEF left, state
  <2> QED BY <2>1, <2>2, <2>3, FollowsNone
<1>3. ASSUME NEW k \in Nat, k \in Known PROVE k + 1 \in Known
  <2> SUFFICES ASSUME k + 1 <= Len(events) PROVE Good(k + 1)
    OBVIOUS
  <2>1. Good(k)
    BY <1>1, <1>3
  <2>2. state[k + 1] = ObserveParts(state[k], events[k + 1], Parts)
    BY <1>1, PassNext DEF PrefixState
  <2>3. left[k + 1] = Joined(left[k], events[k + 1].t * ClockHz, d)
    <3>1. k + 1 \in 1 .. Len(events) /\ (k + 1) - 1 = k
      BY <1>1
    <3> QED BY <1>1, <3>1, DeparturesAdd
  <2>4. state[k + 1].capacity = [x \in DOMAIN state[k].capacity |-> CapacityObserve(state[k].capacity[x], events[k + 1].t)]
    BY <2>2 DEF ObserveParts, Parts
  <2>5. k < Len(events)
    BY <1>1
  <2> DEFINE c == state[k].capacity[d]
             old == left[k]
  <2>6. Follows(c, old, events, k) /\ c.depth = d
    BY <2>1
  <2> HIDE DEF state, left, events
  <2>7. /\ CapacityObserve(c, events[k + 1].t).depth = c.depth
        /\ Follows(CapacityObserve(c, events[k + 1].t), Joined(old, events[k + 1].t * ClockHz, c.depth), events, k + 1)
    <3> HIDE DEF c, old
    <3>1. InTimeOrder(events)
      BY DEF events
    <3> QED BY <1>1, <2>5, <2>6, <3>1, FollowsOn
  <2> QED BY <2>1, <2>3, <2>4, <2>6, <2>7
<1>4. Good(n)
  <2>1. n \in Nat /\ n <= Len(events)
    BY <1>1
  <2>2. n \in Known
    <3> HIDE DEF Known
    <3> QED BY <1>2, <1>3, <2>1, NatSetInduction
  <2> QED BY <2>1, <2>2
<1> QED BY <1>1, <1>4

(* For every clock, service time and depth, and every stream in the order of  *)
(* time: the running figures of _CapacityState (arrival.py) are those of a    *)
(* queue in which every event waits for its own service, through interrupts,  *)
(* kills and resumed runs.                                                    *)
THEOREM QueuesAreReal == Spec => []QueueIsReal
<1>1. IInv => QueueIsReal
  <2> SUFFICES ASSUME IInv, ~mem.spoiled, mem.owner = input, InTimeOrder(trace[input]), NEW d \in Depths \cup {None}
               PROVE  QueueOf(mem.diag.capacity[d], Departures(trace[input], d)[mem.diag.processed],
                              trace[input], mem.diag.processed)
    BY DEF QueueIsReal
  <2> DEFINE n == mem.diag.processed
             c == mem.diag.capacity[d]
             left == Departures(trace[input], d)[n]
  <2>1. /\ n \in Nat /\ n <= Len(trace[input]) /\ input \in Inputs /\ trace \in Traces
        /\ mem.diag = PrefixState(input, n)
    BY DEF IInv, Sound, StateOK, TypeOK
  <2>2. n \in 0 .. Len(trace[input])
    BY <2>1, TraceType
  <2>3. Follows(PrefixState(input, n).capacity[d], left, trace[input], n)
    <3> HIDE DEF n
    <3> QED BY <2>1, <2>2, PassFollows
  <2>4. Follows(c, left, trace[input], n)
    BY <2>1, <2>3
  <2> HIDE DEF n, c, left
  <2>5. QueueOf(c, left, trace[input], n)
    BY <2>4 DEF Follows, LastLeaves, Top, QueueOf, Presents
  <2> QED BY <2>5 DEF n, c, left
<1> QED BY <1>1, Invariance, PTL
=============================================================================
