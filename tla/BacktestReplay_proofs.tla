------------------------ MODULE BacktestReplay_proofs -------------------------
(***************************************************************************)
(* What the paper portfolio promises for every set of symbols, every       *)
(* setting, every stream of quotes and all three replay loops.             *)
(***************************************************************************)
EXTENDS BacktestReplay, FiniteSetTheorems, WellFoundedInduction, TLAPS

----------------------------------------------------------------------------
(* Numbers and folds.  Induction is over a set of numbers; the folds of the   *)
(* community modules are unfolded from it, each for the step it is used with. *)

(* A non-empty set of natural numbers has a smallest one. *)
LEMMA SmallestNumber ==
  ASSUME NEW T \in SUBSET Nat, T # {}
  PROVE  \E m \in T : \A y \in T : m <= y
<1>1. PICK m \in T : \A y \in T : ~(<<y, m>> \in OpToRel(<, Nat))
  BY WFMin, NatLessThanWellFounded, Zenon
<1>2. \A y \in T : ~(y < m)
  BY <1>1, Zenon DEF OpToRel
<1> QED BY <1>2

(* Induction over a set of numbers. *)
LEMMA NatSetInduction ==
  ASSUME NEW S, 0 \in S, \A n \in Nat : n \in S => n + 1 \in S
  PROVE  Nat \subseteq S
<1> DEFINE T == Nat \ S
<1> SUFFICES ASSUME T # {} PROVE FALSE
  OBVIOUS
<1>1. PICK m \in T : \A y \in T : m <= y
  BY SmallestNumber
<1>2. m \in Nat /\ m # 0 /\ m - 1 \in Nat /\ m = (m - 1) + 1
  OBVIOUS
<1>3. m - 1 \in T
  BY <1>2
<1> QED BY <1>1, <1>2, <1>3

(* Max of two integers is one of them and bounds both. *)
LEMMA MaxOfTwo ==
  ASSUME NEW x \in Int, NEW y \in Int
  PROVE  Max({x, y}) \in {x, y} /\ Max({x, y}) >= x /\ Max({x, y}) >= y
<1> DEFINE m == IF x >= y THEN x ELSE y
<1>1. m \in {x, y} /\ \A z \in {x, y} : m >= z
  OBVIOUS
<1>2. \E u \in {x, y} : \A z \in {x, y} : u >= z
  BY <1>1
<1> QED BY <1>2 DEF Max

(* A bounded key has a largest value. *)
LEMMA LargestKey ==
  ASSUME NEW T, T # {}, NEW key \in [T -> Int], NEW b \in Int, \A s \in T : key[s] <= b
  PROVE  \E s \in T : \A t \in T : key[t] <= key[s]
<1> DEFINE Gaps == {b - key[s] : s \in T}
<1>1. Gaps \subseteq Nat /\ Gaps # {}
  OBVIOUS
<1>2. PICK g \in Gaps : \A y \in Gaps : g <= y
  <2> HIDE DEF Gaps
  <2> QED BY <1>1, SmallestNumber
<1>3. PICK s \in T : g = b - key[s]
  OBVIOUS
<1>4. ASSUME NEW t \in T PROVE key[t] <= key[s]
  <2>1. b - key[t] \in Gaps /\ key[t] \in Int /\ key[s] \in Int
    OBVIOUS
  <2> HIDE DEF Gaps
  <2>2. b - key[s] <= b - key[t]
    BY <1>2, <1>3, <2>1
  <2> QED BY <2>1, <2>2
<1> QED BY <1>4

(* The largest index of a non-empty set of indices. *)
LEMMA LargestIndex ==
  ASSUME NEW n \in Nat, NEW T \in SUBSET (1 .. n), T # {}
  PROVE  Max(T) \in T /\ \A i \in T : i <= Max(T)
<1> DEFINE key == [i \in T |-> i]
<1>1. key \in [T -> Int] /\ n \in Int /\ \A s \in T : key[s] <= n
  OBVIOUS
<1>2. \E s \in T : \A t \in T : key[t] <= key[s]
  <2> HIDE DEF key
  <2> QED BY <1>1, LargestKey
<1>3. \E s \in T : \A t \in T : s >= t
  BY <1>2
<1>4. Max(T) \in T /\ \A t \in T : Max(T) >= t
  BY <1>3 DEF Max
<1> QED BY <1>4

(* A finite set loses one element at a time. *)
LEMMA FiniteParts ==
  ASSUME NEW S, IsFiniteSet(S), NEW T \in SUBSET S
  PROVE  /\ IsFiniteSet(T) /\ Cardinality(T) \in Nat /\ Cardinality(T) <= Cardinality(S)
         /\ Cardinality(T) = 0 <=> T = {}
         /\ \A x \in T : T \ {x} \in SUBSET S /\ Cardinality(T \ {x}) = Cardinality(T) - 1
<1>1. IsFiniteSet(T) /\ Cardinality(T) <= Cardinality(S)
  BY FS_Subset
<1> QED BY <1>1, FS_CardinalityType, FS_EmptySet, FS_RemoveElement

----------------------------------------------------------------------------
(* Sums over a finite set *)

PartSums(f) ==
  CHOOSE p : p = [T \in SUBSET DOMAIN f |->
    IF T = {} THEN 0 ELSE f[CHOOSE x \in T : TRUE] + p[T \ {CHOOSE x \in T : TRUE}]]

(* A sum is the last of the partial sums over the domain. *)
LEMMA SumIsLastPart == \A f : SumFunction(f) = PartSums(f)[DOMAIN f]
  BY DEF SumFunction, SumFunctionOnSet, FoldFunctionOnSet, MapThenFoldSet, PartSums

(* The partial sums exist: each adds one chosen element to a smaller one. *)
LEMMA PartSumsUnfold ==
  ASSUME NEW f, IsFiniteSet(DOMAIN f)
  PROVE  \A T \in SUBSET DOMAIN f : PartSums(f)[T] =
           IF T = {} THEN 0 ELSE f[CHOOSE x \in T : TRUE] + PartSums(f)[T \ {CHOOSE x \in T : TRUE}]
<1> DEFINE S == DOMAIN f
           c(T) == CHOOSE x \in T : TRUE
           Step(h, T) == IF T = {} THEN 0 ELSE f[c(T)] + h[T \ {c(T)}]
           UpTo(n) == {T \in SUBSET S : Cardinality(T) <= n}
           Known == {n \in Nat : \E h : h = [T \in UpTo(n) |-> Step(h, T)]}
<1>1. \A T \in SUBSET S : T # {} => c(T) \in T
  OBVIOUS
<1> HIDE DEF c
<1>2. 0 \in Known
  <2>1. UpTo(0) = {{}}
    BY FiniteParts
  <2>2. [T \in UpTo(0) |-> 0] = [T \in UpTo(0) |-> Step([U \in UpTo(0) |-> 0], T)]
    BY <2>1
  <2> QED BY <2>2
<1>3. ASSUME NEW n \in Nat, n \in Known PROVE n + 1 \in Known
  <2>1. PICK h : h = [T \in UpTo(n) |-> Step(h, T)]
    BY <1>3
  <2> DEFINE g == [T \in UpTo(n + 1) |-> Step(h, T)]
  <2>2. ASSUME NEW T \in UpTo(n + 1) PROVE Step(h, T) = Step(g, T)
    <3>1. CASE T = {}
      BY <3>1
    <3>2. CASE T # {}
      <4>1. T \ {c(T)} \in UpTo(n) /\ T \ {c(T)} \in UpTo(n + 1)
        BY <1>1, <3>2, FiniteParts
      <4>2. g[T \ {c(T)}] = h[T \ {c(T)}]
        BY <4>1, <2>1
      <4> QED BY <4>2
    <3> QED BY <3>1, <3>2
  <2>3. g = [T \in UpTo(n + 1) |-> Step(g, T)]
    BY <2>2
  <2> HIDE DEF g, Step, UpTo
  <2> QED BY <2>3
<1>4. Cardinality(S) \in Known
  <2> HIDE DEF Known
  <2> QED BY <1>2, <1>3, NatSetInduction, FiniteParts
<1>5. UpTo(Cardinality(S)) = SUBSET S
  BY FiniteParts
<1>6. \E h : h = [T \in SUBSET S |-> Step(h, T)]
  BY <1>4, <1>5
<1>7. PartSums(f) = [T \in SUBSET S |-> Step(PartSums(f), T)]
  BY <1>6 DEF PartSums, c
<1> QED BY <1>7 DEF c

(* The sum does not depend on the order: any element can be taken out first. *)
LEMMA PartSumsRemove ==
  ASSUME NEW f, IsFiniteSet(DOMAIN f), \A s \in DOMAIN f : f[s] \in Int
  PROVE  \A T \in SUBSET DOMAIN f :
           /\ PartSums(f)[T] \in Int
           /\ \A x \in T : PartSums(f)[T] = f[x] + PartSums(f)[T \ {x}]
<1> DEFINE S == DOMAIN f
           c(T) == CHOOSE x \in T : TRUE
           p == PartSums(f)
           Good(T) == p[T] \in Int /\ \A x \in T : p[T] = f[x] + p[T \ {x}]
           Done == {n \in Nat : \A T \in SUBSET S : Cardinality(T) <= n => Good(T)}
<1>1. \A T \in SUBSET S : T # {} => c(T) \in T /\ p[T] = f[c(T)] + p[T \ {c(T)}]
  BY PartSumsUnfold
<1>2. p[{}] = 0
  BY PartSumsUnfold
<1> HIDE DEF c, p
<1>3. 0 \in Done
  BY <1>2, FiniteParts
<1>4. ASSUME NEW n \in Nat, n \in Done PROVE n + 1 \in Done
  <2> SUFFICES ASSUME NEW T \in SUBSET S, Cardinality(T) = n + 1 PROVE Good(T)
    BY <1>4, FiniteParts
  <2>1. T # {} /\ c(T) \in T /\ p[T] = f[c(T)] + p[T \ {c(T)}]
    BY <1>1, FiniteParts
  <2>2. \A x \in T : T \ {x} \in SUBSET S /\ Cardinality(T \ {x}) = n
    BY FiniteParts
  <2>3. \A x \in T : Good(T \ {x}) /\ f[x] \in Int
    BY <1>4, <2>2
  <2>4. ASSUME NEW x \in T, x # c(T) PROVE p[T] = f[x] + p[T \ {x}]
    <3>1. p[T \ {c(T)}] = f[x] + p[(T \ {c(T)}) \ {x}]
      BY <2>1, <2>3, <2>4
    <3>2. p[T \ {x}] = f[c(T)] + p[(T \ {x}) \ {c(T)}]
      BY <2>1, <2>3, <2>4
    <3>3. (T \ {c(T)}) \ {x} = (T \ {x}) \ {c(T)}
      OBVIOUS
    <3>4. p[(T \ {x}) \ {c(T)}] \in Int
      <4>1. (T \ {x}) \ {c(T)} \in SUBSET S /\ Cardinality((T \ {x}) \ {c(T)}) <= n
        BY <2>1, <2>2, <2>4, FiniteParts
      <4> QED BY <4>1, <1>4
    <3>5. f[x] \in Int /\ f[c(T)] \in Int
      BY <2>1
    <3>6. p[T] = f[c(T)] + (f[x] + p[(T \ {x}) \ {c(T)}])
      BY <2>1, <3>1, <3>3
    <3> QED BY <3>2, <3>4, <3>5, <3>6
  <2>5. f[c(T)] \in Int /\ p[T \ {c(T)}] \in Int
    BY <2>1, <2>3
  <2>6. p[T] \in Int
    BY <2>1, <2>5
  <2>7. ASSUME NEW x \in T PROVE p[T] = f[x] + p[T \ {x}]
    <3>1. CASE x = c(T)
      BY <2>1, <3>1
    <3>2. CASE x # c(T)
      BY <2>4, <3>2
    <3> QED BY <3>1, <3>2
  <2> QED BY <2>6, <2>7
<1>5. Nat \subseteq Done
  <2> HIDE DEF Done
  <2> QED BY <1>3, <1>4, NatSetInduction
<1> QED BY <1>5, FiniteParts DEF p

(* Two functions have the same sums where they agree. *)
LEMMA PartSumsAgree ==
  ASSUME NEW f, NEW g, IsFiniteSet(DOMAIN f), IsFiniteSet(DOMAIN g),
         NEW G, G \subseteq DOMAIN f, G \subseteq DOMAIN g, \A s \in G : f[s] = g[s]
  PROVE  \A T \in SUBSET G : PartSums(f)[T] = PartSums(g)[T]
<1> DEFINE c(T) == CHOOSE x \in T : TRUE
           p == PartSums(f)
           q == PartSums(g)
           Done == {n \in Nat : \A T \in SUBSET G : Cardinality(T) = n => p[T] = q[T]}
<1>1. \A T \in SUBSET G : T # {} =>
        c(T) \in T /\ p[T] = f[c(T)] + p[T \ {c(T)}] /\ q[T] = g[c(T)] + q[T \ {c(T)}]
  BY PartSumsUnfold
<1>2. p[{}] = 0 /\ q[{}] = 0
  BY PartSumsUnfold
<1>0. IsFiniteSet(G)
  BY FS_Subset
<1> HIDE DEF c, p, q
<1>3. 0 \in Done
  BY <1>0, <1>2, FiniteParts
<1>4. ASSUME NEW n \in Nat, n \in Done PROVE n + 1 \in Done
  <2> SUFFICES ASSUME NEW T \in SUBSET G, Cardinality(T) = n + 1 PROVE p[T] = q[T]
    OBVIOUS
  <2>0. T # {}
    BY <1>0, FiniteParts
  <2>1. T # {} /\ c(T) \in T /\ f[c(T)] = g[c(T)]
    BY <1>1, <2>0
  <2>2. T \ {c(T)} \in SUBSET G /\ Cardinality(T \ {c(T)}) = n
    BY <1>0, <2>1, FiniteParts
  <2>3. p[T \ {c(T)}] = q[T \ {c(T)}]
    BY <1>4, <2>2
  <2> QED BY <1>1, <2>1, <2>3
<1>5. Nat \subseteq Done
  <2> HIDE DEF Done
  <2> QED BY <1>3, <1>4, NatSetInduction
<1> QED BY <1>0, <1>5, FiniteParts DEF p, q

(* What the sums of the portfolio need: a number, zero of nothing, and one term  *)
(* more when the set gains one element.                                           *)
LEMMA SumType ==
  ASSUME NEW S, IsFiniteSet(S), NEW f \in [S -> Int]
  PROVE  SumFunction(f) \in Int
  BY PartSumsRemove, SumIsLastPart

(* A sum over nothing is zero. *)
LEMMA SumEmpty == ASSUME NEW f, DOMAIN f = {} PROVE SumFunction(f) = 0
<1>1. IsFiniteSet(DOMAIN f)
  BY FS_EmptySet
<1> QED BY <1>1, PartSumsUnfold, SumIsLastPart

(* A new element adds its value to the sum. *)
LEMMA SumAdd ==
  ASSUME NEW S, IsFiniteSet(S), NEW x, x \notin S, NEW f \in [S -> Int],
         NEW g \in [S \cup {x} -> Int], \A s \in S : g[s] = f[s]
  PROVE  SumFunction(g) = SumFunction(f) + g[x]
<1>1. IsFiniteSet(S \cup {x}) /\ (S \cup {x}) \ {x} = S
  BY FS_AddElement
<1>2. DOMAIN f = S /\ DOMAIN g = S \cup {x} /\ (\A s \in DOMAIN f : f[s] \in Int) /\ \A s \in DOMAIN g : g[s] \in Int
  OBVIOUS
<1>7. IsFiniteSet(DOMAIN f) /\ IsFiniteSet(DOMAIN g)
  BY <1>1, <1>2
<1>3. PartSums(g)[S \cup {x}] = g[x] + PartSums(g)[S]
  <2>1. \A T \in SUBSET DOMAIN g :
          /\ PartSums(g)[T] \in Int
          /\ \A y \in T : PartSums(g)[T] = g[y] + PartSums(g)[T \ {y}]
    BY <1>7, <1>2, PartSumsRemove, Zenon
  <2>2. S \cup {x} \in SUBSET DOMAIN g /\ x \in S \cup {x}
    BY <1>2
  <2>3. PartSums(g)[S \cup {x}] = g[x] + PartSums(g)[(S \cup {x}) \ {x}]
    BY <2>1, <2>2, Zenon
  <2> QED BY <2>3, <1>1
<1>4. PartSums(f)[S] \in Int
  BY <1>1, <1>2, PartSumsRemove
<1>5. PartSums(g)[S] = PartSums(f)[S]
  <2>1. S \subseteq DOMAIN f /\ S \subseteq DOMAIN g
    BY <1>2
  <2>2. \A T \in SUBSET S : PartSums(g)[T] = PartSums(f)[T]
    BY <1>1, <1>2, <2>1, PartSumsAgree
  <2> QED BY <2>2
<1>6. g[x] \in Int
  OBVIOUS
<1> QED BY <1>2, <1>3, <1>4, <1>5, <1>6, SumIsLastPart

----------------------------------------------------------------------------
(* The loops of the simulators, one visit at a time *)

(* Fills are applied one after the other. *)
AppliesFills(h, a, fills, n) ==
  h[0] = a /\ h[n] = apply_fills(a, fills) /\ \A k \in 1 .. n : h[k] = apply_fill(h[k - 1], fills[k])
(* apply_fills passes through a chain of accounts, one fill a step. *)
LEMMA ApplyFillsStates ==
  ASSUME NEW a, NEW fills, NEW n \in Nat, DOMAIN fills = 1 .. n
  PROVE  \E h : AppliesFills(h, a, fills, n)
<1> DEFINE Op(i, r) == apply_fill(r, fills[i])
           S == DOMAIN fills
           c(T) == Max(T)
           Step(h, T) == IF T = {} THEN a ELSE Op(c(T), h[T \ {c(T)}])
           UpTo(m) == {T \in SUBSET S : Cardinality(T) <= m}
           Known == {m \in Nat : \E h : h = [T \in UpTo(m) |-> Step(h, T)]}
<1>1. IsFiniteSet(S) /\ \A T \in SUBSET S : T # {} => c(T) \in T
  <2>1. IsFiniteSet(1 .. n)
    BY FS_Interval
  <2> QED BY <2>1, LargestIndex
<1> HIDE DEF S, c, Op
<1>2. 0 \in Known
  <2>1. UpTo(0) = {{}}
    BY <1>1, FiniteParts
  <2>2. [T \in UpTo(0) |-> a] = [T \in UpTo(0) |-> Step([U \in UpTo(0) |-> a], T)]
    BY <2>1
  <2> HIDE DEF UpTo, Step
  <2> QED BY <2>2
<1>3. ASSUME NEW m \in Nat, m \in Known PROVE m + 1 \in Known
  <2>1. PICK h : h = [T \in UpTo(m) |-> Step(h, T)]
    BY <1>3
  <2> DEFINE g == [T \in UpTo(m + 1) |-> Step(h, T)]
  <2>2. ASSUME NEW T \in UpTo(m + 1) PROVE Step(h, T) = Step(g, T)
    <3>1. CASE T = {}
      BY <3>1
    <3>2. CASE T # {}
      <4>1. T \ {c(T)} \in UpTo(m) /\ T \ {c(T)} \in UpTo(m + 1)
        BY <1>1, <3>2, FiniteParts
      <4>2. g[T \ {c(T)}] = h[T \ {c(T)}]
        BY <4>1, <2>1
      <4> QED BY <4>2
    <3> QED BY <3>1, <3>2
  <2>3. g = [T \in UpTo(m + 1) |-> Step(g, T)]
    BY <2>2
  <2> HIDE DEF g, Step, UpTo
  <2> QED BY <2>3
<1>4. Cardinality(S) \in Known
  <2> HIDE DEF Known
  <2> QED BY <1>1, <1>2, <1>3, NatSetInduction, FiniteParts
<1>5. UpTo(Cardinality(S)) = SUBSET S
  BY <1>1, FiniteParts
<1>6. \E h : h = [T \in SUBSET S |-> Step(h, T)]
  BY <1>4, <1>5
<1> DEFINE iter == CHOOSE h : h = [T \in SUBSET S |-> Step(h, T)]
           H == [k \in 0 .. n |-> iter[1 .. k]]
<1>7. iter = [T \in SUBSET S |-> Step(iter, T)]
  BY <1>6
<1>8. apply_fills(a, fills) = iter[1 .. n]
  BY DEF apply_fills, FoldLeft, MapThenFoldSet, S, c, Op
<1> HIDE DEF iter
<1>9. iter[1 .. 0] = a
  BY <1>7
<1>10. ASSUME NEW k \in 1 .. n PROVE H[k] = Op(k, H[k - 1])
  <2>1. 1 .. k \in SUBSET (1 .. n) /\ S = 1 .. n /\ 1 .. k # {} /\ k \in 0 .. n /\ k - 1 \in 0 .. n
    BY DEF S
  <2>2. c(1 .. k) = k
    <3>1. Max(1 .. k) \in 1 .. k /\ \A i \in 1 .. k : i <= Max(1 .. k)
      <4> DEFINE U == 1 .. k
      <4>1. U \in SUBSET (1 .. n) /\ U # {}
        BY <2>1
      <4> HIDE DEF U
      <4>2. Max(U) \in U /\ \A i \in U : i <= Max(U)
        BY <4>1, LargestIndex
      <4> QED BY <4>2 DEF U
    <3> QED BY <3>1 DEF c
  <2>3. (1 .. k) \ {k} = 1 .. (k - 1)
    OBVIOUS
  <2>4. iter[1 .. k] = Op(c(1 .. k), iter[(1 .. k) \ {c(1 .. k)}])
    BY <1>7, <2>1
  <2> QED BY <2>1, <2>2, <2>3, <2>4
<1>11. H[0] = a /\ H[n] = apply_fills(a, fills)
  BY <1>8, <1>9
<1>12. \A k \in 1 .. n : H[k] = Op(k, H[k - 1])
  BY <1>10
<1> HIDE DEF H
<1> QED BY <1>11, <1>12 DEF Op, AppliesFills

(* A quote tries the waiting orders one after the other. *)
TriesOrders(h, a, t, f, n) ==
  h[0] = With([a EXCEPT !.pending = <<>>], <<>>) /\ h[n] = execution_on_quote(a, t, f) /\ \A k \in 1 .. n : h[k] = Attempt(h[k - 1], a.pending[k], t, f)
(* on_quote passes through a chain of accounts, one order a step. *)
LEMMA OnQuoteStates ==
  ASSUME NEW a, NEW t, NEW f, NEW n \in Nat, DOMAIN a.pending = 1 .. n
  PROVE  \E h : TriesOrders(h, a, t, f, n)
<1> DEFINE Op(i, r) == Attempt(r, a.pending[i], t, f)
           S == DOMAIN a.pending
           c(T) == Max(T)
           Step(h, T) == IF T = {} THEN With([a EXCEPT !.pending = <<>>], <<>>) ELSE Op(c(T), h[T \ {c(T)}])
           UpTo(m) == {T \in SUBSET S : Cardinality(T) <= m}
           Known == {m \in Nat : \E h : h = [T \in UpTo(m) |-> Step(h, T)]}
<1>1. IsFiniteSet(S) /\ \A T \in SUBSET S : T # {} => c(T) \in T
  <2>1. IsFiniteSet(1 .. n)
    BY FS_Interval
  <2> QED BY <2>1, LargestIndex
<1> HIDE DEF S, c, Op
<1>2. 0 \in Known
  <2>1. UpTo(0) = {{}}
    BY <1>1, FiniteParts
  <2>2. [T \in UpTo(0) |-> With([a EXCEPT !.pending = <<>>], <<>>)] = [T \in UpTo(0) |-> Step([U \in UpTo(0) |-> With([a EXCEPT !.pending = <<>>], <<>>)], T)]
    BY <2>1
  <2> HIDE DEF UpTo, Step
  <2> QED BY <2>2
<1>3. ASSUME NEW m \in Nat, m \in Known PROVE m + 1 \in Known
  <2>1. PICK h : h = [T \in UpTo(m) |-> Step(h, T)]
    BY <1>3
  <2> DEFINE g == [T \in UpTo(m + 1) |-> Step(h, T)]
  <2>2. ASSUME NEW T \in UpTo(m + 1) PROVE Step(h, T) = Step(g, T)
    <3>1. CASE T = {}
      BY <3>1
    <3>2. CASE T # {}
      <4>1. T \ {c(T)} \in UpTo(m) /\ T \ {c(T)} \in UpTo(m + 1)
        BY <1>1, <3>2, FiniteParts
      <4>2. g[T \ {c(T)}] = h[T \ {c(T)}]
        BY <4>1, <2>1
      <4> QED BY <4>2
    <3> QED BY <3>1, <3>2
  <2>3. g = [T \in UpTo(m + 1) |-> Step(g, T)]
    BY <2>2
  <2> HIDE DEF g, Step, UpTo
  <2> QED BY <2>3
<1>4. Cardinality(S) \in Known
  <2> HIDE DEF Known
  <2> QED BY <1>1, <1>2, <1>3, NatSetInduction, FiniteParts
<1>5. UpTo(Cardinality(S)) = SUBSET S
  BY <1>1, FiniteParts
<1>6. \E h : h = [T \in SUBSET S |-> Step(h, T)]
  BY <1>4, <1>5
<1> DEFINE iter == CHOOSE h : h = [T \in SUBSET S |-> Step(h, T)]
           H == [k \in 0 .. n |-> iter[1 .. k]]
<1>7. iter = [T \in SUBSET S |-> Step(iter, T)]
  BY <1>6
<1>8. execution_on_quote(a, t, f) = iter[1 .. n]
  BY DEF execution_on_quote, FoldLeft, MapThenFoldSet, S, c, Op
<1> HIDE DEF iter
<1>9. iter[1 .. 0] = With([a EXCEPT !.pending = <<>>], <<>>)
  BY <1>7
<1>10. ASSUME NEW k \in 1 .. n PROVE H[k] = Op(k, H[k - 1])
  <2>1. 1 .. k \in SUBSET (1 .. n) /\ S = 1 .. n /\ 1 .. k # {} /\ k \in 0 .. n /\ k - 1 \in 0 .. n
    BY DEF S
  <2>2. c(1 .. k) = k
    <3>1. Max(1 .. k) \in 1 .. k /\ \A i \in 1 .. k : i <= Max(1 .. k)
      <4> DEFINE U == 1 .. k
      <4>1. U \in SUBSET (1 .. n) /\ U # {}
        BY <2>1
      <4> HIDE DEF U
      <4>2. Max(U) \in U /\ \A i \in U : i <= Max(U)
        BY <4>1, LargestIndex
      <4> QED BY <4>2 DEF U
    <3> QED BY <3>1 DEF c
  <2>3. (1 .. k) \ {k} = 1 .. (k - 1)
    OBVIOUS
  <2>4. iter[1 .. k] = Op(c(1 .. k), iter[(1 .. k) \ {c(1 .. k)}])
    BY <1>7, <2>1
  <2> QED BY <2>1, <2>2, <2>3, <2>4
<1>11. H[0] = With([a EXCEPT !.pending = <<>>], <<>>) /\ H[n] = execution_on_quote(a, t, f)
  BY <1>8, <1>9
<1>12. \A k \in 1 .. n : H[k] = Op(k, H[k - 1])
  BY <1>10
<1> HIDE DEF H
<1> QED BY <1>11, <1>12 DEF Op, TriesOrders

(* No position is younger than t. *)
Timely(a, t) == \A s \in Open(a) : a.positions[s].entry_time <= t

(* Only finitely many positions are open. *)
LEMMA OpenFinite == ASSUME NEW a PROVE IsFiniteSet(Open(a))
<1>1. Open(a) \in SUBSET Symbols
  BY DEF Open
<1> QED BY <1>1, FS_Subset, PortfolioAssumption

(* An open position has every field of a position. *)
LEMMA OpenIsPosition ==
  ASSUME NEW a \in Account(Configs), NEW s \in Open(a)
  PROVE  a.positions[s] \in Position
  BY DEF Account, Open

(* Of some open positions there is one that was opened last. *)
LEMMA LastOpenedIsOne ==
  ASSUME NEW a \in Account(Configs), NEW t \in Int, Timely(a, t), NEW T \in SUBSET Open(a), T # {}
  PROVE  LastOpened(a, T) \in T
<1> DEFINE key == [s \in T |-> a.positions[s].entry_time]
<1>1. \A s \in T : a.positions[s].entry_time \in Int /\ a.positions[s].entry_time <= t
  BY OpenIsPosition DEF Position, Timely
<1>2. key \in [T -> Int] /\ \A s \in T : key[s] <= t
  BY <1>1
<1>3. \E s \in T : \A u \in T : key[u] <= key[s]
  <2> HIDE DEF key
  <2> QED BY <1>2, LargestKey
<1>4. \E s \in T : \A u \in T : a.positions[u].entry_time <= a.positions[s].entry_time
  BY <1>3
<1> QED BY <1>4 DEF LastOpened

(* The risk policies visit the open positions one after the other. *)
VisitsAtRisk(h, a, t, f, is_quote) ==
  /\ h[{}] = a /\ h[Open(a)] = evaluate_risk(a, t, f, is_quote)
  /\ \A T \in SUBSET Open(a) : T # {} => \E s \in T : h[T] = RiskExit(s, h[T \ {s}], t, f, is_quote)
(* evaluate_risk passes through a chain of accounts, one position a step. *)
LEMMA RiskStates ==
  ASSUME NEW f, NEW is_quote, NEW a \in Account(Configs), NEW t \in Int, Timely(a, t)
  PROVE  \E h : VisitsAtRisk(h, a, t, f, is_quote)
<1> DEFINE Op(s, r) == RiskExit(s, r, t, f, is_quote)
           S == Open(a)
           c(T) == LastOpened(a, T)
           Step(h, T) == IF T = {} THEN a ELSE Op(c(T), h[T \ {c(T)}])
           UpTo(m) == {T \in SUBSET S : Cardinality(T) <= m}
           Known == {m \in Nat : \E h : h = [T \in UpTo(m) |-> Step(h, T)]}
<1>1. IsFiniteSet(S) /\ \A T \in SUBSET S : T # {} => c(T) \in T
  BY LastOpenedIsOne, OpenFinite
<1> HIDE DEF S, c, Op
<1>2. 0 \in Known
  <2>1. UpTo(0) = {{}}
    BY <1>1, FiniteParts
  <2>2. [T \in UpTo(0) |-> a] = [T \in UpTo(0) |-> Step([U \in UpTo(0) |-> a], T)]
    BY <2>1
  <2> HIDE DEF UpTo, Step
  <2> QED BY <2>2
<1>3. ASSUME NEW m \in Nat, m \in Known PROVE m + 1 \in Known
  <2>1. PICK h : h = [T \in UpTo(m) |-> Step(h, T)]
    BY <1>3
  <2> DEFINE g == [T \in UpTo(m + 1) |-> Step(h, T)]
  <2>2. ASSUME NEW T \in UpTo(m + 1) PROVE Step(h, T) = Step(g, T)
    <3>1. CASE T = {}
      BY <3>1
    <3>2. CASE T # {}
      <4>1. T \ {c(T)} \in UpTo(m) /\ T \ {c(T)} \in UpTo(m + 1)
        BY <1>1, <3>2, FiniteParts
      <4>2. g[T \ {c(T)}] = h[T \ {c(T)}]
        BY <4>1, <2>1
      <4> QED BY <4>2
    <3> QED BY <3>1, <3>2
  <2>3. g = [T \in UpTo(m + 1) |-> Step(g, T)]
    BY <2>2
  <2> HIDE DEF g, Step, UpTo
  <2> QED BY <2>3
<1>4. Cardinality(S) \in Known
  <2> HIDE DEF Known
  <2> QED BY <1>1, <1>2, <1>3, NatSetInduction, FiniteParts
<1>5. UpTo(Cardinality(S)) = SUBSET S
  BY <1>1, FiniteParts
<1>6. \E h : h = [T \in SUBSET S |-> Step(h, T)]
  BY <1>4, <1>5
<1> DEFINE iter == CHOOSE h : h = [T \in SUBSET S |-> Step(h, T)]
<1>7. iter = [T \in SUBSET S |-> Step(iter, T)]
  BY <1>6
<1>8. evaluate_risk(a, t, f, is_quote) = iter[S]
  BY DEF evaluate_risk, VisitOpen, MapThenFoldSet, S, c, Op
<1> HIDE DEF iter
<1>9. iter[{}] = a
  BY <1>7
<1>10. ASSUME NEW T \in SUBSET S, T # {} PROVE c(T) \in T /\ iter[T] = Op(c(T), iter[T \ {c(T)}])
  BY <1>1, <1>7, <1>10
<1>11. \A T \in SUBSET S : T # {} => \E s \in T : iter[T] = Op(s, iter[T \ {s}])
  BY <1>10
<1>12. iter[S] = evaluate_risk(a, t, f, is_quote) /\ iter[{}] = a
  BY <1>8, <1>9
<1> QED BY <1>11, <1>12, Zenon DEF Op, S, VisitsAtRisk

(* So does flatten, which applies the fills only afterwards. *)
VisitsAtClose(h, a, t, features) ==
  /\ h[{}] = With(a, <<>>) /\ h[Open(a)] = EndOfDayExits(a, t, features)
  /\ \A T \in SUBSET Open(a) : T # {} => \E s \in T : h[T] = FlattenExit(s, h[T \ {s}], t, features)
(* flatten passes through a chain of accounts, one position a step. *)
LEMMA FlattenStates ==
  ASSUME NEW features, NEW a \in Account(Configs), NEW t \in Int, Timely(a, t)
  PROVE  \E h : VisitsAtClose(h, a, t, features)
<1> DEFINE Op(s, r) == FlattenExit(s, r, t, features)
           S == Open(a)
           c(T) == LastOpened(a, T)
           Step(h, T) == IF T = {} THEN With(a, <<>>) ELSE Op(c(T), h[T \ {c(T)}])
           UpTo(m) == {T \in SUBSET S : Cardinality(T) <= m}
           Known == {m \in Nat : \E h : h = [T \in UpTo(m) |-> Step(h, T)]}
<1>1. IsFiniteSet(S) /\ \A T \in SUBSET S : T # {} => c(T) \in T
  BY LastOpenedIsOne, OpenFinite
<1> HIDE DEF S, c, Op
<1>2. 0 \in Known
  <2>1. UpTo(0) = {{}}
    BY <1>1, FiniteParts
  <2>2. [T \in UpTo(0) |-> With(a, <<>>)] = [T \in UpTo(0) |-> Step([U \in UpTo(0) |-> With(a, <<>>)], T)]
    BY <2>1
  <2> HIDE DEF UpTo, Step
  <2> QED BY <2>2
<1>3. ASSUME NEW m \in Nat, m \in Known PROVE m + 1 \in Known
  <2>1. PICK h : h = [T \in UpTo(m) |-> Step(h, T)]
    BY <1>3
  <2> DEFINE g == [T \in UpTo(m + 1) |-> Step(h, T)]
  <2>2. ASSUME NEW T \in UpTo(m + 1) PROVE Step(h, T) = Step(g, T)
    <3>1. CASE T = {}
      BY <3>1
    <3>2. CASE T # {}
      <4>1. T \ {c(T)} \in UpTo(m) /\ T \ {c(T)} \in UpTo(m + 1)
        BY <1>1, <3>2, FiniteParts
      <4>2. g[T \ {c(T)}] = h[T \ {c(T)}]
        BY <4>1, <2>1
      <4> QED BY <4>2
    <3> QED BY <3>1, <3>2
  <2>3. g = [T \in UpTo(m + 1) |-> Step(g, T)]
    BY <2>2
  <2> HIDE DEF g, Step, UpTo
  <2> QED BY <2>3
<1>4. Cardinality(S) \in Known
  <2> HIDE DEF Known
  <2> QED BY <1>1, <1>2, <1>3, NatSetInduction, FiniteParts
<1>5. UpTo(Cardinality(S)) = SUBSET S
  BY <1>1, FiniteParts
<1>6. \E h : h = [T \in SUBSET S |-> Step(h, T)]
  BY <1>4, <1>5
<1> DEFINE iter == CHOOSE h : h = [T \in SUBSET S |-> Step(h, T)]
<1>7. iter = [T \in SUBSET S |-> Step(iter, T)]
  BY <1>6
<1>8. EndOfDayExits(a, t, features) = iter[S]
  BY DEF EndOfDayExits, VisitOpen, MapThenFoldSet, S, c, Op
<1> HIDE DEF iter
<1>9. iter[{}] = With(a, <<>>)
  BY <1>7
<1>10. ASSUME NEW T \in SUBSET S, T # {} PROVE c(T) \in T /\ iter[T] = Op(c(T), iter[T \ {c(T)}])
  BY <1>1, <1>7, <1>10
<1>11. \A T \in SUBSET S : T # {} => \E s \in T : iter[T] = Op(s, iter[T \ {s}])
  BY <1>10
<1>12. iter[S] = EndOfDayExits(a, t, features) /\ iter[{}] = With(a, <<>>)
  BY <1>8, <1>9
<1> QED BY <1>11, <1>12, Zenon DEF Op, S, VisitsAtClose

----------------------------------------------------------------------------
(* The ledger: an account together with the fills of this step that are not yet *)
(* applied, of which the first k already are.                                    *)

Fill ==
  [order : Nat \ {0}, sym : Symbols, side : {"buy", "sell"}, purpose : {"entry", "exit"},
   direction : Directions, quantity : Nat \ {0}, time : Nat, price : Nat \ {0}, commission : Nat]

Unapplied(fills, k) == (k + 1) .. Len(fills)

(* One order or fill per symbol. *)
OneEach(a, fills, k) ==
  /\ \A i, j \in DOMAIN a.pending : a.pending[i].sym = a.pending[j].sym => i = j
  /\ \A i, j \in Unapplied(fills, k) : fills[i].sym = fills[j].sym => i = j
  /\ \A i \in DOMAIN a.pending, j \in Unapplied(fills, k) : a.pending[i].sym # fills[j].sym

(* A symbol is marked exactly when an order or a fill of it is under way. *)
Marked(a, fills, k) ==
  /\ \A i \in DOMAIN a.pending :
       /\ a.pending_symbols[a.pending[i].sym] = a.pending[i].id
       /\ a.pending[i].id < a.next_order_id
  /\ \A j \in Unapplied(fills, k) : IsPending(a, fills[j].sym)
  /\ \A s \in Symbols : IsPending(a, s) =>
       \/ \E i \in DOMAIN a.pending : a.pending[i].sym = s
       \/ \E j \in Unapplied(fills, k) : fills[j].sym = s

(* An entry finds no position, an exit the whole of one of its direction. *)
Serves(a, o) ==
  LET p == a.positions[o.sym] IN
  IF o.purpose = "entry" THEN p = Flat
  ELSE p # Flat /\ p.direction = o.direction /\ p.quantity = o.quantity
Serving(a, fills, k) ==
  /\ \A i \in DOMAIN a.pending : Serves(a, a.pending[i])
  /\ \A j \in Unapplied(fills, k) : Serves(a, fills[j])

(* Every order issued waits, was given up, has a fill to come or is in the books. *)
Waiting(a) == Len(a.pending) + Len(a.unfilled_orders)
Booked(a) == 2 * a.completed_trades + Cardinality(Open(a))
Counted(a, fills, k) == a.next_order_id - 1 = Waiting(a) + (Len(fills) - k) + Booked(a)

Balanced(a) == a.cash = a.cfg.starting_cash + a.realized_pnl - Costs(a) - Invested(a)

Ledger(a, fills, k, t) ==
  /\ a \in Account(Configs) /\ fills \in Seq(Fill) /\ k \in 0 .. Len(fills)
  /\ Timely(a, t) /\ \A j \in DOMAIN fills : fills[j].time = t
  /\ OneEach(a, fills, k) /\ Marked(a, fills, k) /\ Serving(a, fills, k)
  /\ Counted(a, fills, k) /\ Balanced(a)

----------------------------------------------------------------------------
(* Orders and fills of their types *)

(* Max of a natural number and an integer is a natural number. *)
LEMMA MaxAtLeast ==
  ASSUME NEW x \in Nat, NEW y \in Int
  PROVE  Max({x, y}) \in Nat /\ Max({x, y}) >= x
<1>1. Max({x, y}) \in {x, y} /\ Max({x, y}) >= x
  BY MaxOfTwo
<1> QED BY <1>1

(* The settings are those the two dataclasses accept. *)
LEMMA ConfigsAreOK ==
  ASSUME NEW cfg \in Configs
  PROVE  ExecutionConfigOK(cfg) /\ PortfolioConfigOK(cfg)
  BY ReplayAssumption

(* A commission is never negative. *)
LEMMA CommissionType ==
  ASSUME NEW cfg \in Configs, NEW q \in Nat
  PROVE  commission(cfg, q) \in Nat
<1> DEFINE raw == cfg.commission_per_trade + cfg.commission_per_share * q
<1>1. raw \in Nat /\ cfg.minimum_commission \in Nat
  BY ConfigsAreOK DEF ExecutionConfigOK
<1> HIDE DEF raw
<1>2. Max({cfg.minimum_commission, raw}) \in Nat
  <2>1. raw \in Int
    BY <1>1
  <2> QED BY <1>1, <2>1, MaxAtLeast
<1> QED BY <1>2 DEF commission, raw

(* Slippage leaves a price positive. *)
LEMMA SlippageType ==
  ASSUME NEW cfg \in Configs, NEW price \in Nat \ {0}, NEW side
  PROVE  apply_slippage(cfg, price, side) \in Nat \ {0}
<1> DEFINE adverse == cfg.fixed_slippage + (price * cfg.slippage_bps) \div 10000
<1>1. adverse \in Nat
  <2>1. cfg.fixed_slippage \in Nat /\ cfg.slippage_bps \in Nat
    BY ConfigsAreOK DEF ExecutionConfigOK
  <2>2. price * cfg.slippage_bps \in Nat
    BY <2>1
  <2>3. \A m \in Nat : m \div 10000 \in Nat
    OBVIOUS
  <2> QED BY <2>1, <2>2, <2>3
<1> HIDE DEF adverse
<1>2. Max({1, price - adverse}) \in Nat \ {0}
  <2>1. \A m \in Int : Max({1, m}) \in Nat /\ Max({1, m}) >= 1
    BY MaxAtLeast
  <2>2. price - adverse \in Int
    BY <1>1
  <2> QED BY <2>1, <2>2
<1>3. price + adverse \in Nat \ {0}
  BY <1>1
<1> QED BY <1>2, <1>3 DEF apply_slippage, adverse

(* A fill is made exactly when somebody stands on the side the order needs. *)
LEMMA MakeFill ==
  ASSUME NEW cfg \in Configs, NEW o \in Order, NEW t \in Nat, NEW f \in Feature
  PROVE  LET fill == make_fill(cfg, o, t, f) IN
         /\ fill # NoFill <=> f.sym = o.sym /\ Fillable(o.side, f)
         /\ fill # NoFill =>
              /\ fill \in Fill /\ fill.order = o.id /\ fill.sym = o.sym /\ fill.time = t
              /\ fill.purpose = o.purpose /\ fill.direction = o.direction /\ fill.quantity = o.quantity
<1> DEFINE price == apply_slippage(cfg, IF o.side = "buy" THEN f.ask ELSE f.bid, o.side)
           made == [order |-> o.id, sym |-> o.sym, side |-> o.side, purpose |-> o.purpose,
                    direction |-> o.direction, quantity |-> o.quantity, time |-> t,
                    price |-> price, commission |-> commission(cfg, o.quantity)]
<1>1. commission(cfg, o.quantity) \in Nat
  BY CommissionType DEF Order
<1>2. Fillable(o.side, f) => price \in Nat \ {0}
  <2>1. Fillable(o.side, f) => (IF o.side = "buy" THEN f.ask ELSE f.bid) \in Nat \ {0}
    BY DEF Fillable, Feature
  <2> QED BY <2>1, SlippageType
<1>3. make_fill(cfg, o, t, f) = IF f.sym # o.sym \/ ~Fillable(o.side, f) THEN NoFill ELSE made
  BY DEF make_fill
<1> HIDE DEF price
<1>4. made # NoFill
  <2>1. made.order = o.id /\ NoFill.order = 0 /\ o.id # 0
    BY DEF NoFill, Order
  <2> QED BY <2>1
<1>5. Fillable(o.side, f) => made \in Fill
  BY <1>1, <1>2 DEF Fill, Order
<1> QED BY <1>3, <1>4, <1>5

(* An order is for at least one share. *)
LEMMA SizeType ==
  ASSUME NEW a \in Account(Configs), NEW price \in Nat \ {0}
  PROVE  size(a, price) \in Nat \ {0}
<1>0. a.cfg \in Configs /\ a.cash \in Int
  BY DEF Account
<1>1. /\ a.cfg.fixed_shares \in Nat \ {0} /\ a.cfg.fixed_notional \in Nat /\ a.cfg.fixed_cash_pct \in Int
      /\ a.cfg.sizing_mode \in {"fixed_shares", "fixed_notional", "cash_pct"}
  BY <1>0, ConfigsAreOK DEF PortfolioConfigOK
<1>2. \A m \in Int : Max({1, m}) \in Nat \ {0}
  <2>1. \A m \in Int : Max({1, m}) \in Nat /\ Max({1, m}) >= 1
    BY MaxAtLeast
  <2> QED BY <2>1
<1>3. (a.cash * a.cfg.fixed_cash_pct) \div (100 * price) \in Int
  <2>1. a.cash * a.cfg.fixed_cash_pct \in Int /\ 100 * price \in Nat /\ 100 * price > 0
    BY <1>0, <1>1
  <2>2. \A m \in Int, n \in Nat : n > 0 => m \div n \in Int
    OBVIOUS
  <2> QED BY <2>1, <2>2
<1>4. a.cfg.fixed_notional \div price \in Int
  BY <1>1
<1> QED BY <1>1, <1>2, <1>3, <1>4 DEF size

(* The exit of an open position asks for all of it. *)
LEMMA ExitOrder ==
  ASSUME NEW a \in Account(Configs), NEW s \in Open(a), NEW t \in Nat
  PROVE  LET o == exit_order(a, s, t) IN
         /\ o \in Order /\ o.id = a.next_order_id /\ o.sym = s /\ o.order_time = t
         /\ o.purpose = "exit" /\ Serves(a, o) /\ o.side = Flattens(a, s)
<1>1. a.positions[s] \in Position /\ s \in Symbols /\ a.positions[s] # Flat
  BY OpenIsPosition DEF Open
<1>2. a.cfg.latency \in Nat /\ a.next_order_id \in Nat \ {0}
  BY ConfigsAreOK DEF Account, ExecutionConfigOK
<1> QED BY <1>1, <1>2 DEF exit_order, Order, Position, Serves, Flattens

(* An entry is of at least one share. *)
LEMMA EntryOrder ==
  ASSUME NEW a \in Account(Configs), NEW f \in Feature, NEW direction \in Directions, NEW t \in Nat,
         MayEnter(a, f, direction), a.positions[f.sym] = Flat
  PROVE  LET o == entry_order(a, f, direction, t) IN
         /\ o \in Order /\ o.id = a.next_order_id /\ o.sym = f.sym /\ o.order_time = t
         /\ o.purpose = "entry" /\ Serves(a, o)
<1>1. EntryPrice(f, direction) \in Nat \ {0}
  BY DEF MayEnter, EntryPrice, Feature
<1>2. size(a, EntryPrice(f, direction)) \in Nat \ {0}
  BY <1>1, SizeType
<1>3. a.cfg.latency \in Nat /\ a.next_order_id \in Nat \ {0} /\ f.sym \in Symbols
  BY ConfigsAreOK DEF Account, ExecutionConfigOK, Feature
<1> QED BY <1>2, <1>3 DEF entry_order, Order, Serves, Directions

----------------------------------------------------------------------------
(* A position gained or lost *)

(* The sums of the cash equation are over finite sets of integers. *)
LEMMA LedgerSums ==
  ASSUME NEW a \in Account(Configs)
  PROVE  /\ IsFiniteSet(Open(a)) /\ IsFiniteSet(Longs(a))
         /\ Cardinality(Open(a)) \in Nat /\ Costs(a) \in Int /\ Invested(a) \in Int
<1>1. IsFiniteSet(Open(a)) /\ IsFiniteSet(Longs(a))
  <2>1. Longs(a) \in SUBSET Open(a)
    BY DEF Longs
  <2> QED BY <2>1, OpenFinite, FS_Subset
<1>2. \A s \in Open(a) : a.positions[s] \in Position
  BY OpenIsPosition
<1>3. [s \in Open(a) |-> a.positions[s].entry_costs] \in [Open(a) -> Int]
  BY <1>2 DEF Position
<1>4. [s \in Longs(a) |-> a.positions[s].entry_price * a.positions[s].quantity] \in [Longs(a) -> Int]
  <2>1. \A s \in Longs(a) : a.positions[s].entry_price \in Int /\ a.positions[s].quantity \in Int
    BY <1>2 DEF Position, Longs
  <2>2. \A s \in Longs(a) : a.positions[s].entry_price * a.positions[s].quantity \in Int
    BY <2>1
  <2> QED BY <2>2
<1>5. Costs(a) \in Int
  BY <1>1, <1>3, SumType DEF Costs, SumOver
<1>6. Invested(a) \in Int
  BY <1>1, <1>4, SumType DEF Invested, SumOver
<1> QED BY <1>1, <1>5, <1>6, FS_CardinalityType

(* b has one position more than a. *)
Gains(a, b, s) ==
  /\ s \in Symbols /\ a.positions[s] = Flat /\ b.positions[s] # Flat
  /\ \A u \in Symbols \ {s} : a.positions[u] = b.positions[u]

(* What a new position adds to the sums of the cash equation. *)
LEMMA PositionGained ==
  ASSUME NEW a \in Account(Configs), NEW b \in Account(Configs), NEW s, Gains(a, b, s)
  PROVE  LET p == b.positions[s] IN
         /\ Cardinality(Open(b)) = Cardinality(Open(a)) + 1
         /\ Costs(b) = Costs(a) + p.entry_costs
         /\ Invested(b) = Invested(a) + (IF p.direction = "long" THEN p.entry_price * p.quantity ELSE 0)
<1> DEFINE p == b.positions[s]
<1>1. Open(b) = Open(a) \cup {s} /\ s \notin Open(a) /\ s \in Open(b)
  BY DEF Gains, Open
<1>2. \A u \in Open(a) : a.positions[u] = b.positions[u]
  BY DEF Gains, Open
<1>3. IsFiniteSet(Open(a)) /\ IsFiniteSet(Longs(a)) /\ Invested(a) \in Int
  BY LedgerSums
<1>4. Cardinality(Open(b)) = Cardinality(Open(a)) + 1
  BY <1>1, <1>3, FS_AddElement
<1>5. \A u \in Open(b) : b.positions[u] \in Position
  BY OpenIsPosition
<1>6. Costs(b) = Costs(a) + p.entry_costs
  <2> DEFINE fa == [u \in Open(a) |-> a.positions[u].entry_costs]
             fb == [u \in Open(b) |-> b.positions[u].entry_costs]
  <2>1. /\ fa \in [Open(a) -> Int] /\ fb \in [Open(a) \cup {s} -> Int]
        /\ (\A u \in Open(a) : fb[u] = fa[u]) /\ fb[s] = p.entry_costs
    BY <1>1, <1>2, <1>5 DEF Position
  <2>2. Costs(a) = SumFunction(fa) /\ Costs(b) = SumFunction(fb)
    BY DEF Costs, SumOver
  <2> HIDE DEF fa, fb
  <2> QED BY <1>1, <1>3, <2>1, <2>2, SumAdd
<1>7. Invested(b) = Invested(a) + (IF p.direction = "long" THEN p.entry_price * p.quantity ELSE 0)
  <2> DEFINE fa == [u \in Longs(a) |-> a.positions[u].entry_price * a.positions[u].quantity]
             fb == [u \in Longs(b) |-> b.positions[u].entry_price * b.positions[u].quantity]
  <2>0. \A u \in Open(b) : b.positions[u].entry_price * b.positions[u].quantity \in Int
    <3>1. \A u \in Open(b) : b.positions[u].entry_price \in Int /\ b.positions[u].quantity \in Int
      BY <1>5 DEF Position
    <3> QED BY <3>1
  <2>1. Invested(a) = SumFunction(fa) /\ Invested(b) = SumFunction(fb)
    BY DEF Invested, SumOver
  <2>2. fa \in [Longs(a) -> Int]
    BY <1>1, <1>2, <2>0 DEF Longs
  <2>3. CASE p.direction = "long"
    <3>1. Longs(b) = Longs(a) \cup {s} /\ s \notin Longs(a)
      BY <1>1, <1>2, <2>3 DEF Longs
    <3>2. /\ fb \in [Longs(a) \cup {s} -> Int] /\ (\A u \in Longs(a) : fb[u] = fa[u])
          /\ fb[s] = p.entry_price * p.quantity
      BY <1>1, <1>2, <2>0, <3>1 DEF Longs
    <3>3. IsFiniteSet(Longs(a))
      BY <1>3
    <3> HIDE DEF fa, fb
    <3>4. SumFunction(fb) = SumFunction(fa) + fb[s]
      BY <2>2, <3>1, <3>2, <3>3, SumAdd
    <3> QED BY <2>1, <2>3, <3>2, <3>4
  <2>4. CASE p.direction # "long"
    <3>1. Longs(b) = Longs(a)
      BY <1>1, <1>2, <2>4 DEF Longs
    <3>2. fb = fa
      BY <1>1, <1>2, <3>1 DEF Longs
    <3> QED BY <1>3, <2>1, <2>4, <3>2
  <2> QED BY <2>3, <2>4
<1> QED BY <1>4, <1>6, <1>7

----------------------------------------------------------------------------
(* Applying a fill *)

(* What an entry fill makes of an account without a position. *)
LEMMA OpensPosition ==
  ASSUME NEW a \in Account(Configs), NEW fill \in Fill, fill.purpose = "entry", a.positions[fill.sym] = Flat
  PROVE  LET b == apply_fill(a, fill)
             p == b.positions[fill.sym] IN
         /\ b \in Account(Configs) /\ Gains(a, b, fill.sym) /\ p \in Position
         /\ p.direction = fill.direction /\ p.quantity = fill.quantity /\ p.entry_price = fill.price
         /\ p.entry_time = fill.time /\ p.entry_costs = fill.commission
         /\ b.pending_symbols = [a.pending_symbols EXCEPT ![fill.sym] = 0]
         /\ b.cash = a.cash - fill.commission - (IF fill.direction = "long" THEN fill.price * fill.quantity ELSE 0)
         /\ b.cfg = a.cfg /\ b.pending = a.pending /\ b.unfilled_orders = a.unfilled_orders
         /\ b.next_order_id = a.next_order_id /\ b.completed_trades = a.completed_trades
         /\ b.realized_pnl = a.realized_pnl
<1> DEFINE s == fill.sym
           new == [direction |-> fill.direction, quantity |-> fill.quantity, entry_price |-> fill.price,
                   entry_time |-> fill.time, entry_costs |-> fill.commission]
           paid == fill.commission + (IF fill.direction = "long" THEN fill.price * fill.quantity ELSE 0)
           cash == a.cash - fill.commission - (IF fill.direction = "long" THEN fill.price * fill.quantity ELSE 0)
           m == [a EXCEPT !.pending_symbols[s] = 0]
           b == [m EXCEPT !.cash = cash, !.positions[s] = new]
<1>1. new \in Position /\ s \in Symbols /\ new # Flat
  BY PortfolioAssumption DEF Fill, Position
<1>2. cash \in Int
  <2>1. fill.price * fill.quantity \in Int
    BY DEF Fill
  <2> QED BY <2>1 DEF Fill, Account
<1>3. m.cash = a.cash /\ m.positions = a.positions
  OBVIOUS
<1>4. apply_fill(a, fill) = b
  BY <1>3 DEF apply_fill, OpenPosition
<1> HIDE DEF new, cash
<1>5. /\ b.cash = cash /\ b.positions = [a.positions EXCEPT ![s] = new]
      /\ b.pending_symbols = [a.pending_symbols EXCEPT ![s] = 0]
      /\ b.cfg = a.cfg /\ b.pending = a.pending /\ b.unfilled_orders = a.unfilled_orders
      /\ b.next_order_id = a.next_order_id /\ b.completed_trades = a.completed_trades
      /\ b.realized_pnl = a.realized_pnl
  BY <1>1 DEF Account
<1>6. b \in Account(Configs)
  BY <1>1, <1>2 DEF Account
<1> HIDE DEF b
<1>7. b.positions[s] = new /\ \A u \in Symbols \ {s} : b.positions[u] = a.positions[u]
  BY <1>1, <1>5 DEF Account
<1>8. Gains(a, b, s)
  BY <1>1, <1>7 DEF Gains
<1> QED BY <1>1, <1>4, <1>5, <1>6, <1>7, <1>8 DEF new, cash

(* What an exit fill makes of an account with the position. *)
LEMMA ClosesPosition ==
  ASSUME NEW a \in Account(Configs), NEW fill \in Fill, fill.purpose = "exit", a.positions[fill.sym] # Flat
  PROVE  LET b == apply_fill(a, fill)
             p == a.positions[fill.sym]
             gross == (IF p.direction = "long" THEN fill.price - p.entry_price
                       ELSE p.entry_price - fill.price) * p.quantity IN
         /\ b \in Account(Configs) /\ Gains(b, a, fill.sym) /\ p \in Position
         /\ b.pending_symbols = [a.pending_symbols EXCEPT ![fill.sym] = 0]
         /\ b.cash = a.cash - fill.commission
                     + (IF p.direction = "long" THEN fill.price * fill.quantity ELSE gross)
         /\ b.cfg = a.cfg /\ b.pending = a.pending /\ b.unfilled_orders = a.unfilled_orders
         /\ b.next_order_id = a.next_order_id /\ b.completed_trades = a.completed_trades + 1
         /\ b.realized_pnl = a.realized_pnl + gross - p.entry_costs - fill.commission
<1> DEFINE s == fill.sym
           p == a.positions[s]
           gross == (IF p.direction = "long" THEN fill.price - p.entry_price
                     ELSE p.entry_price - fill.price) * p.quantity
           cash == a.cash - fill.commission + (IF p.direction = "long" THEN fill.price * fill.quantity ELSE gross)
           pnl == a.realized_pnl + gross - p.entry_costs - fill.commission
           m == [a EXCEPT !.pending_symbols[s] = 0]
           b == [m EXCEPT !.cash = cash, !.positions[s] = Flat, !.completed_trades = a.completed_trades + 1,
                          !.realized_pnl = pnl]
<1>1. p \in Position /\ s \in Symbols
  BY OpenIsPosition DEF Fill, Open
<1>2. cash \in Int /\ pnl \in Int
  <2>1. fill.price * fill.quantity \in Int
    BY DEF Fill
  <2>2. gross \in Int
    <3>1. p.entry_price \in Int /\ p.quantity \in Int /\ fill.price \in Int
      BY <1>1 DEF Position, Fill
    <3> QED BY <3>1
  <2>3. a.cash \in Int /\ a.realized_pnl \in Int /\ fill.commission \in Int /\ p.entry_costs \in Int
    BY <1>1 DEF Position, Fill, Account
  <2> HIDE DEF gross, p
  <2> QED BY <2>1, <2>2, <2>3
<1>3. /\ m.cash = a.cash /\ m.positions = a.positions /\ m.completed_trades = a.completed_trades
      /\ m.realized_pnl = a.realized_pnl
  OBVIOUS
<1>4. apply_fill(a, fill) = b
  BY <1>3 DEF apply_fill, ClosePosition
<1> HIDE DEF cash, pnl
<1>5. /\ b.cash = cash /\ b.positions = [a.positions EXCEPT ![s] = Flat] /\ b.realized_pnl = pnl
      /\ b.pending_symbols = [a.pending_symbols EXCEPT ![s] = 0]
      /\ b.cfg = a.cfg /\ b.pending = a.pending /\ b.unfilled_orders = a.unfilled_orders
      /\ b.next_order_id = a.next_order_id /\ b.completed_trades = a.completed_trades + 1
  BY <1>1 DEF Account
<1>6. b \in Account(Configs)
  <2>1. /\ [a.positions EXCEPT ![s] = Flat] \in [Symbols -> Position \cup {Flat}]
        /\ [a.pending_symbols EXCEPT ![s] = 0] \in [Symbols -> Nat] /\ a.completed_trades + 1 \in Nat
    BY <1>1 DEF Account
  <2> QED BY <1>2, <2>1 DEF Account
<1> HIDE DEF b
<1>7. b.positions[s] = Flat /\ \A u \in Symbols \ {s} : b.positions[u] = a.positions[u]
  BY <1>1, <1>5 DEF Account
<1>8. Gains(b, a, s)
  BY <1>1, <1>7 DEF Gains
<1> QED BY <1>1, <1>4, <1>5, <1>6, <1>7, <1>8 DEF cash, pnl

(* A product of a difference. *)
LEMMA DifferenceTimes ==
  ASSUME NEW x \in Int, NEW y \in Int, NEW z \in Int
  PROVE  (x - y) * z = x * z - y * z
  OBVIOUS

(* The cash equation survives an entry and an exit. *)
LEMMA BalanceKept ==
  ASSUME NEW a \in Account(Configs), NEW fill \in Fill, Serves(a, fill), Balanced(a)
  PROVE  Balanced(apply_fill(a, fill))
<1> DEFINE b == apply_fill(a, fill)
           s == fill.sym
<1>1. /\ a.cash \in Int /\ a.realized_pnl \in Int /\ a.cfg \in Configs /\ fill.commission \in Int
      /\ fill.price \in Int /\ fill.quantity \in Int /\ fill.purpose \in {"entry", "exit"}
  BY DEF Account, Fill
<1>2. a.cfg.starting_cash \in Int
  BY <1>1, ConfigsAreOK DEF PortfolioConfigOK
<1>3. CASE fill.purpose = "entry"
  <2> DEFINE p == b.positions[s]
             v == fill.price * fill.quantity
  <2>1. a.positions[s] = Flat
    BY <1>3 DEF Serves
  <2>2. /\ b \in Account(Configs) /\ Gains(a, b, s) /\ p.direction = fill.direction
        /\ p.entry_price * p.quantity = v /\ p.entry_costs = fill.commission
        /\ b.cash = a.cash - fill.commission - (IF fill.direction = "long" THEN v ELSE 0)
        /\ b.cfg = a.cfg /\ b.realized_pnl = a.realized_pnl
    BY <1>3, <2>1, OpensPosition
  <2> HIDE DEF b
  <2>3. /\ Costs(b) = Costs(a) + fill.commission
        /\ Invested(b) = Invested(a) + (IF fill.direction = "long" THEN v ELSE 0)
    BY <2>2, PositionGained
  <2>4. v \in Int /\ Costs(a) \in Int /\ Invested(a) \in Int
    BY <1>1, LedgerSums
  <2> HIDE DEF v
  <2> QED BY <1>1, <1>2, <2>2, <2>3, <2>4 DEF Balanced, b
<1>4. CASE fill.purpose = "exit"
  <2> DEFINE p == a.positions[s]
             v == fill.price * p.quantity
             w == p.entry_price * p.quantity
             gross == (IF p.direction = "long" THEN fill.price - p.entry_price
                       ELSE p.entry_price - fill.price) * p.quantity
  <2>1. p # Flat /\ p.quantity = fill.quantity
    BY <1>4 DEF Serves
  <2>2. /\ b \in Account(Configs) /\ Gains(b, a, s) /\ p \in Position
        /\ b.cash = a.cash - fill.commission + (IF p.direction = "long" THEN v ELSE gross)
        /\ b.realized_pnl = a.realized_pnl + gross - p.entry_costs - fill.commission
        /\ b.cfg = a.cfg
    BY <1>4, <2>1, ClosesPosition
  <2> HIDE DEF b
  <2>3. /\ Costs(a) = Costs(b) + p.entry_costs
        /\ Invested(a) = Invested(b) + (IF p.direction = "long" THEN w ELSE 0)
    BY <2>2, PositionGained
  <2>4. /\ p.entry_price \in Int /\ p.quantity \in Int /\ p.entry_costs \in Int
        /\ Costs(b) \in Int /\ Invested(b) \in Int
    BY <2>2, LedgerSums DEF Position
  <2>5. v \in Int /\ w \in Int /\ gross \in Int /\ (p.direction = "long" => gross = v - w)
    <3>1. fill.price - p.entry_price \in Int /\ p.entry_price - fill.price \in Int
      BY <1>1, <2>4
    <3>2. (fill.price - p.entry_price) * p.quantity = v - w
      BY <1>1, <2>4, DifferenceTimes
    <3>3. v \in Int /\ w \in Int /\ (p.entry_price - fill.price) * p.quantity \in Int
      BY <1>1, <2>4, <3>1
    <3> QED BY <3>2, <3>3
  <2> HIDE DEF v, w, gross
  <2>6. b.cash = b.cfg.starting_cash + b.realized_pnl - Costs(b) - Invested(b)
    <3>1. a.cash = a.cfg.starting_cash + a.realized_pnl - Costs(a) - Invested(a)
      BY DEF Balanced
    <3>2. CASE p.direction = "long"
      BY <1>1, <1>2, <2>2, <2>3, <2>4, <2>5, <3>1, <3>2
    <3>3. CASE p.direction # "long"
      BY <1>1, <1>2, <2>2, <2>3, <2>4, <2>5, <3>1, <3>3
    <3> QED BY <3>2, <3>3
  <2> QED BY <2>6 DEF Balanced, b
<1> QED BY <1>1, <1>3, <1>4

(* The counts of orders are natural numbers. *)
LEMMA LedgerCounts ==
  ASSUME NEW a \in Account(Configs)
  PROVE  Waiting(a) \in Nat /\ Booked(a) \in Nat
<1>1. a.pending \in Seq(Order) /\ a.unfilled_orders \in Seq(Order) /\ a.completed_trades \in Nat
  BY DEF Account
<1>2. 2 * a.completed_trades \in Nat /\ Cardinality(Open(a)) \in Nat
  BY <1>1, LedgerSums
<1>3. Waiting(a) \in Nat
  <2> DEFINE p == a.pending
             u == a.unfilled_orders
  <2>1. p \in Seq(Order) /\ u \in Seq(Order)
    BY <1>1
  <2> HIDE DEF p, u
  <2>2. Len(p) + Len(u) \in Nat
    BY <2>1
  <2> QED BY <2>2 DEF Waiting, p, u
<1>4. Booked(a) \in Nat
  BY <1>2 DEF Booked
<1> QED BY <1>3, <1>4

(* A position stays, is closed or is opened at t. *)
Follows(a, b, t) ==
  \A u \in Symbols : b.positions[u] = a.positions[u] \/ b.positions[u] = Flat \/ b.positions[u].entry_time = t

(* A fill that is applied moves from the fills to come into the books. *)
LEMMA FillApplied ==
  ASSUME NEW a, NEW fills, NEW k \in Nat, NEW t \in Nat, Ledger(a, fills, k, t), k < Len(fills)
  PROVE  LET b == apply_fill(a, fills[k + 1])
             s == fills[k + 1].sym IN
         /\ Ledger(b, fills, k + 1, t)
         /\ b.cfg = a.cfg /\ b.pending = a.pending /\ b.unfilled_orders = a.unfilled_orders
         /\ \A u \in Symbols \ {s} : b.positions[u] = a.positions[u]
         /\ fills[k + 1].purpose = "exit" => b.positions[s] = Flat
         /\ Follows(a, b, t)
<1> DEFINE fill == fills[k + 1]
           s == fill.sym
           b == apply_fill(a, fill)
<1>1. /\ a \in Account(Configs) /\ fills \in Seq(Fill) /\ Len(fills) \in Nat
      /\ k + 1 \in Unapplied(fills, k) /\ k + 1 \in DOMAIN fills /\ k + 1 \in 0 .. Len(fills)
      /\ Unapplied(fills, k + 1) = Unapplied(fills, k) \ {k + 1}
  BY DEF Ledger, Unapplied
<1>2. fill \in Fill /\ s \in Symbols /\ fill.time = t /\ Serves(a, fill) /\ fill.purpose \in {"entry", "exit"}
  <2>1. fill \in Fill
    BY <1>1
  <2>2. fill.time = t
    BY <1>1 DEF Ledger
  <2>3. Serves(a, fill)
    BY <1>1 DEF Ledger, Serving
  <2> QED BY <2>1, <2>2, <2>3 DEF Fill
<1>3. /\ b \in Account(Configs) /\ b.pending_symbols = [a.pending_symbols EXCEPT ![s] = 0]
      /\ b.cfg = a.cfg /\ b.pending = a.pending /\ b.unfilled_orders = a.unfilled_orders
      /\ b.next_order_id = a.next_order_id
      /\ \A u \in Symbols \ {s} : b.positions[u] = a.positions[u]
      /\ fill.purpose = "exit" => b.positions[s] = Flat
      /\ fill.purpose # "exit" => b.positions[s].entry_time = t
      /\ Booked(b) = Booked(a) + 1
  <2>1. CASE fill.purpose = "entry"
    <3>1. a.positions[s] = Flat
      BY <1>2, <2>1 DEF Serves
    <3>2. /\ b \in Account(Configs) /\ b.pending_symbols = [a.pending_symbols EXCEPT ![s] = 0]
          /\ b.cfg = a.cfg /\ b.pending = a.pending /\ b.unfilled_orders = a.unfilled_orders
          /\ b.next_order_id = a.next_order_id /\ b.completed_trades = a.completed_trades
          /\ Gains(a, b, s) /\ b.positions[s].entry_time = t
      BY <1>1, <1>2, <2>1, <3>1, OpensPosition
    <3> HIDE DEF b
    <3>3. Cardinality(Open(b)) = Cardinality(Open(a)) + 1 /\ Cardinality(Open(a)) \in Nat
      BY <1>1, <3>2, PositionGained, LedgerSums
    <3>4. a.completed_trades \in Nat
      BY <1>1 DEF Account
    <3>5. Booked(b) = Booked(a) + 1
      <4> DEFINE m == Cardinality(Open(a))
                 n == Cardinality(Open(b))
                 c == a.completed_trades
                 d == b.completed_trades
      <4>1. n = m + 1 /\ m \in Nat /\ c \in Nat /\ d = c
        BY <3>2, <3>3, <3>4
      <4> HIDE DEF m, n, c, d
      <4>2. 2 * d + n = (2 * c + m) + 1
        BY <4>1
      <4> QED BY <4>2 DEF m, n, c, d, Booked
    <3>6. \A u \in Symbols \ {s} : b.positions[u] = a.positions[u]
      BY <3>2 DEF Gains
    <3> QED BY <2>1, <3>2, <3>5, <3>6
  <2>2. CASE fill.purpose = "exit"
    <3>1. a.positions[s] # Flat
      BY <1>2, <2>2 DEF Serves
    <3>2. /\ b \in Account(Configs) /\ b.pending_symbols = [a.pending_symbols EXCEPT ![s] = 0]
          /\ b.cfg = a.cfg /\ b.pending = a.pending /\ b.unfilled_orders = a.unfilled_orders
          /\ b.next_order_id = a.next_order_id /\ b.completed_trades = a.completed_trades + 1
          /\ Gains(b, a, s)
      BY <1>1, <1>2, <2>2, <3>1, ClosesPosition
    <3> HIDE DEF b
    <3>3. Cardinality(Open(a)) = Cardinality(Open(b)) + 1 /\ Cardinality(Open(b)) \in Nat
      BY <1>1, <3>2, PositionGained, LedgerSums
    <3>4. a.completed_trades \in Nat
      BY <1>1 DEF Account
    <3>5. Booked(b) = Booked(a) + 1
      <4> DEFINE m == Cardinality(Open(a))
                 n == Cardinality(Open(b))
                 c == a.completed_trades
                 d == b.completed_trades
      <4>1. d = c + 1
        BY <3>2
      <4>2. m = n + 1 /\ n \in Nat /\ c \in Nat
        BY <3>3, <3>4
      <4> HIDE DEF m, n, c, d
      <4>3. 2 * d + n = (2 * c + m) + 1
        BY <4>1, <4>2
      <4> QED BY <4>3 DEF m, n, c, d, Booked
    <3>6. b.positions[s] = Flat /\ \A u \in Symbols \ {s} : b.positions[u] = a.positions[u]
      BY <3>2 DEF Gains
    <3> QED BY <2>2, <3>2, <3>5, <3>6
  <2> QED BY <1>2, <2>1, <2>2
<1>4. Balanced(b)
  BY <1>1, <1>2, BalanceKept DEF Ledger
<1> HIDE DEF b
<1>5. /\ \A i \in DOMAIN a.pending : a.pending[i].sym # s /\ a.pending[i].sym \in Symbols
      /\ \A j \in Unapplied(fills, k + 1) : fills[j].sym # s /\ fills[j].sym \in Symbols
  <2>1. a.pending \in Seq(Order)
    BY <1>1 DEF Account
  <2>2. \A j \in Unapplied(fills, k) : j \in DOMAIN fills
    BY <1>1 DEF Unapplied
  <2>3. \A i \in DOMAIN a.pending : a.pending[i].sym # s /\ a.pending[i].sym \in Symbols
    <3>1. \A i \in DOMAIN a.pending : a.pending[i].sym # s
      BY <1>1 DEF Ledger, OneEach
    <3>2. \A i \in DOMAIN a.pending : a.pending[i] \in Order
      BY <2>1
    <3> QED BY <3>1, <3>2 DEF Order
  <2>4. \A j \in Unapplied(fills, k + 1) : fills[j].sym # s /\ fills[j].sym \in Symbols
    <3>1. \A j \in Unapplied(fills, k + 1) : fills[j].sym # s
      BY <1>1 DEF Ledger, OneEach
    <3>2. \A j \in DOMAIN fills : fills[j] \in Fill
      BY <1>1
    <3> QED BY <1>1, <2>2, <3>1, <3>2 DEF Fill
  <2> QED BY <2>3, <2>4
<1>6. OneEach(b, fills, k + 1)
  BY <1>1, <1>3 DEF Ledger, OneEach
<1>7. a.pending_symbols \in [Symbols -> Nat]
  BY <1>1 DEF Account
<1>8. Marked(b, fills, k + 1)
  <2>1. \A u \in Symbols : u # s => b.pending_symbols[u] = a.pending_symbols[u]
    BY <1>3, <1>7
  <2>2. b.pending_symbols[s] = 0
    BY <1>2, <1>3, <1>7
  <2>3. Marked(a, fills, k)
    BY DEF Ledger
  <2>4. \A i \in DOMAIN b.pending :
          /\ b.pending_symbols[b.pending[i].sym] = b.pending[i].id /\ b.pending[i].id < b.next_order_id
    BY <1>3, <1>5, <2>1, <2>3 DEF Marked
  <2>5. \A j \in Unapplied(fills, k + 1) : IsPending(b, fills[j].sym)
    BY <1>1, <1>5, <2>1, <2>3 DEF Marked, IsPending
  <2>6. ASSUME NEW u \in Symbols, IsPending(b, u)
        PROVE  \/ \E i \in DOMAIN b.pending : b.pending[i].sym = u
               \/ \E j \in Unapplied(fills, k + 1) : fills[j].sym = u
    <3>1. u # s /\ IsPending(a, u)
      BY <2>1, <2>2, <2>6 DEF IsPending
    <3> QED BY <1>1, <1>3, <2>3, <3>1 DEF Marked
  <2> QED BY <2>4, <2>5, <2>6 DEF Marked
<1>9. Serving(b, fills, k + 1)
  <2>1. \A o : o.sym \in Symbols \ {s} /\ Serves(a, o) => Serves(b, o)
    BY <1>3 DEF Serves
  <2>2. \A i \in DOMAIN b.pending : Serves(b, b.pending[i])
    BY <1>3, <1>5, <2>1 DEF Ledger, Serving
  <2>3. \A j \in Unapplied(fills, k + 1) : Serves(b, fills[j])
    BY <1>1, <1>5, <2>1 DEF Ledger, Serving
  <2> QED BY <2>2, <2>3 DEF Serving
<1>10. Counted(b, fills, k + 1)
  <2>1. Waiting(a) \in Nat /\ Booked(a) \in Nat /\ Waiting(b) = Waiting(a) /\ Booked(b) = Booked(a) + 1
    BY <1>1, <1>3, LedgerCounts DEF Waiting
  <2>2. a.next_order_id \in Nat /\ b.next_order_id = a.next_order_id
    BY <1>1, <1>3 DEF Account
  <2>3. Counted(a, fills, k)
    BY DEF Ledger
  <2> QED BY <1>1, <2>1, <2>2, <2>3 DEF Counted
<1>11. Timely(b, t)
  <2> SUFFICES ASSUME NEW u \in Open(b) PROVE b.positions[u].entry_time <= t
    BY DEF Timely
  <2>1. CASE u = s
    BY <1>2, <1>3, <2>1 DEF Open
  <2>2. CASE u # s
    <3>1. u \in Open(a)
      BY <1>3, <2>2 DEF Open
    <3> QED BY <1>3, <2>2, <3>1 DEF Ledger, Timely, Open
  <2> QED BY <2>1, <2>2
<1>12. Ledger(b, fills, k + 1, t)
  BY <1>1, <1>3, <1>4, <1>6, <1>8, <1>9, <1>10, <1>11 DEF Ledger
<1>13. Follows(a, b, t)
  BY <1>3 DEF Follows
<1> QED BY <1>3, <1>12, <1>13 DEF b

(* The fills of a step, applied one after the other, keep the ledger and touch  *)
(* only the positions of their symbols.                                         *)
LEMMA FillsApplied ==
  ASSUME NEW a, NEW fills, NEW t \in Nat, Ledger(a, fills, 0, t)
  PROVE  LET b == apply_fills(a, fills) IN
         /\ Ledger(b, <<>>, 0, t)
         /\ b.cfg = a.cfg /\ b.pending = a.pending /\ b.unfilled_orders = a.unfilled_orders
         /\ \A u \in Symbols : (\A j \in DOMAIN fills : fills[j].sym # u) => b.positions[u] = a.positions[u]
         /\ \A j \in DOMAIN fills : fills[j].purpose = "exit" => b.positions[fills[j].sym] = Flat
         /\ \A j \in DOMAIN fills : ~IsPending(b, fills[j].sym)
         /\ Follows(a, b, t)
<1> DEFINE n == Len(fills)
           b == apply_fills(a, fills)
<1>1. n \in Nat /\ DOMAIN fills = 1 .. n /\ fills \in Seq(Fill) /\ \A j \in 1 .. n : fills[j] \in Fill
  BY DEF Ledger
<1> HIDE DEF n
<1>2. PICK h : /\ h[0] = a /\ h[n] = b
               /\ \A k \in 1 .. n : h[k] = apply_fill(h[k - 1], fills[k])
  <2>1. n \in Nat /\ DOMAIN fills = 1 .. n
    BY <1>1
  <2>2. \E h : AppliesFills(h, a, fills, n)
    BY <2>1, ApplyFillsStates
  <2> QED BY <2>2 DEF AppliesFills
<1> HIDE DEF b
<1>3. \A i, j \in 1 .. n : fills[i].sym = fills[j].sym => i = j
  BY <1>1 DEF Ledger, OneEach, Unapplied, n
<1> DEFINE Good(k) ==
             /\ Ledger(h[k], fills, k, t)
             /\ h[k].cfg = a.cfg /\ h[k].pending = a.pending /\ h[k].unfilled_orders = a.unfilled_orders
             /\ \A u \in Symbols : (\A j \in 1 .. k : fills[j].sym # u) => h[k].positions[u] = a.positions[u]
             /\ \A j \in 1 .. k : fills[j].purpose = "exit" => h[k].positions[fills[j].sym] = Flat
             /\ Follows(a, h[k], t)
           Done == {k \in Nat : k <= n => Good(k)}
<1>4. 0 \in Done
  BY <1>2 DEF Follows
<1>5. ASSUME NEW k \in Nat, k \in Done, k + 1 <= n PROVE Good(k + 1)
  <2> DEFINE c == h[k]
             d == h[k + 1]
             s == fills[k + 1].sym
  <2>1. Good(k) /\ k < n /\ k + 1 \in 1 .. n /\ d = apply_fill(c, fills[k + 1])
    BY <1>1, <1>2, <1>5
  <2>2. Ledger(c, fills, k, t) /\ k < Len(fills)
    BY <2>1 DEF n
  <2>6. d = apply_fill(c, fills[k + 1])
    BY <2>1
  <2> HIDE DEF c, d, Good
  <2>3. /\ Ledger(d, fills, k + 1, t)
        /\ d.cfg = c.cfg /\ d.pending = c.pending /\ d.unfilled_orders = c.unfilled_orders
        /\ \A u \in Symbols \ {s} : d.positions[u] = c.positions[u]
        /\ fills[k + 1].purpose = "exit" => d.positions[s] = Flat
        /\ Follows(c, d, t)
    <3>1. LET e == apply_fill(c, fills[k + 1]) IN
          /\ Ledger(e, fills, k + 1, t)
          /\ e.cfg = c.cfg /\ e.pending = c.pending /\ e.unfilled_orders = c.unfilled_orders
          /\ \A u \in Symbols \ {fills[k + 1].sym} : e.positions[u] = c.positions[u]
          /\ fills[k + 1].purpose = "exit" => e.positions[fills[k + 1].sym] = Flat
      BY <2>2, FillApplied
    <3>2. Follows(c, apply_fill(c, fills[k + 1]), t)
      BY <2>2, FillApplied
    <3> QED BY <2>6, <3>1, <3>2
  <2> USE DEF Good
  <2>4. ASSUME NEW u \in Symbols, \A j \in 1 .. (k + 1) : fills[j].sym # u
        PROVE  d.positions[u] = a.positions[u]
    <3>1. u # s
      BY <2>1, <2>4
    <3>2. \A j \in 1 .. k : fills[j].sym # u
      BY <2>4
    <3> QED BY <2>1, <2>3, <3>1, <3>2 DEF c
  <2>5. ASSUME NEW j \in 1 .. (k + 1), fills[j].purpose = "exit"
        PROVE  d.positions[fills[j].sym] = Flat
    <3>1. CASE j = k + 1
      BY <2>3, <2>5, <3>1
    <3>2. CASE j # k + 1
      <4>1. j \in 1 .. k /\ j \in 1 .. n
        BY <1>1, <2>1, <3>2
      <4>2. fills[j].sym # s /\ fills[j].sym \in Symbols
        BY <1>1, <1>3, <2>1, <3>2, <4>1 DEF Fill
      <4>3. c.positions[fills[j].sym] = Flat
        BY <2>1, <2>5, <4>1 DEF c
      <4> QED BY <2>3, <4>2, <4>3
    <3> QED BY <3>1, <3>2
  <2>7. Follows(a, d, t)
    <3>1. Follows(a, c, t)
      BY <2>1 DEF c
    <3> QED BY <2>3, <3>1 DEF Follows
  <2> QED BY <2>1, <2>3, <2>4, <2>5, <2>7 DEF c, d
<1>6. n \in Done
  <2>1. \A k \in Nat : k \in Done => k + 1 \in Done
    <3> SUFFICES ASSUME NEW k \in Nat, k \in Done, k + 1 <= n PROVE Good(k + 1)
      OBVIOUS
    <3> QED BY <1>5
  <2> HIDE DEF Done
  <2> QED BY <1>1, <1>4, <2>1, NatSetInduction
<1>7. Good(n)
  BY <1>1, <1>6
<1>8. Ledger(b, fills, n, t)
  BY <1>2, <1>7
<1>9. Ledger(b, <<>>, 0, t)
  <2>1. Unapplied(fills, n) = {} /\ Unapplied(<<>>, 0) = {} /\ DOMAIN <<>> = {} /\ Len(<<>>) = 0
        /\ <<>> \in Seq(Fill) /\ 0 \in 0 .. Len(<<>>)
    BY <1>1 DEF Unapplied, n
  <2>2. OneEach(b, <<>>, 0)
    BY <1>8, <2>1 DEF Ledger, OneEach
  <2>3. Marked(b, <<>>, 0)
    BY <1>8, <2>1 DEF Ledger, Marked
  <2>4. Serving(b, <<>>, 0)
    BY <1>8, <2>1 DEF Ledger, Serving
  <2>5. Counted(b, <<>>, 0)
    <3>1. b \in Account(Configs) /\ Counted(b, fills, n)
      BY <1>8 DEF Ledger
    <3>2. Waiting(b) \in Nat /\ Booked(b) \in Nat
      BY <3>1, LedgerCounts
    <3> QED BY <1>1, <2>1, <3>1, <3>2 DEF Counted, n
  <2> QED BY <1>8, <2>1, <2>2, <2>3, <2>4, <2>5 DEF Ledger
<1>10. ASSUME NEW j \in DOMAIN fills PROVE ~IsPending(b, fills[j].sym)
  <2>1. \A i \in DOMAIN b.pending : b.pending[i].sym # fills[j].sym
    <3>1. j \in Unapplied(fills, 0) /\ b.pending = a.pending
      BY <1>1, <1>2, <1>7, <1>10 DEF Unapplied, n
    <3> QED BY <3>1 DEF Ledger, OneEach
  <2>2. fills[j].sym \in Symbols
    BY <1>1, <1>10 DEF Fill
  <2>3. Marked(b, <<>>, 0) /\ Unapplied(<<>>, 0) = {}
    BY <1>9 DEF Ledger, Unapplied
  <2> QED BY <2>1, <2>2, <2>3 DEF Marked
<1> QED BY <1>1, <1>2, <1>7, <1>9, <1>10 DEF b

----------------------------------------------------------------------------
(* Submitting an order *)

(* An order under the next number, of a symbol that has none under way. *)
MayIssue(a, o, t) ==
  o \in Order /\ o.id = a.next_order_id /\ o.order_time = t /\ ~IsPending(a, o.sym) /\ Serves(a, o)
Issued(a, o) == [a EXCEPT !.pending_symbols[o.sym] = o.id, !.next_order_id = @ + 1]

(* Issuing an order marks its symbol and takes its number. *)
LEMMA IssuedFields ==
  ASSUME NEW a \in Account(Configs), NEW o \in Order, o.id = a.next_order_id
  PROVE  LET b == Issued(a, o) IN
         /\ b \in Account(Configs) /\ b.next_order_id = a.next_order_id + 1
         /\ b.pending_symbols[o.sym] = o.id /\ o.id # 0
         /\ \A u \in Symbols \ {o.sym} : b.pending_symbols[u] = a.pending_symbols[u]
         /\ b.cfg = a.cfg /\ b.cash = a.cash /\ b.positions = a.positions /\ b.pending = a.pending
         /\ b.unfilled_orders = a.unfilled_orders /\ b.completed_trades = a.completed_trades
         /\ b.realized_pnl = a.realized_pnl
<1>1. a.pending_symbols \in [Symbols -> Nat] /\ a.next_order_id \in Nat \ {0} /\ o.sym \in Symbols /\ o.id \in Nat \ {0}
  BY DEF Account, Order
<1>2. /\ [a.pending_symbols EXCEPT ![o.sym] = o.id] \in [Symbols -> Nat]
      /\ a.next_order_id + 1 \in Nat \ {0}
  BY <1>1
<1> QED BY <1>1, <1>2 DEF Issued, Account

(* While a symbol is not pending, neither order nor fill of it is under way. *)
LEMMA NothingUnderWay ==
  ASSUME NEW a, NEW fills, NEW t \in Nat, Ledger(a, fills, 0, t), NEW s \in Symbols, ~IsPending(a, s)
  PROVE  /\ \A i \in DOMAIN a.pending : a.pending[i].sym # s
         /\ \A j \in DOMAIN fills : fills[j].sym # s
<1>1. Marked(a, fills, 0) /\ a.pending \in Seq(Order) /\ DOMAIN fills = Unapplied(fills, 0)
  BY DEF Ledger, Account, Unapplied
<1>2. \A i \in DOMAIN a.pending : a.pending[i].id # 0
  <2>1. \A i \in DOMAIN a.pending : a.pending[i] \in Order
    BY <1>1
  <2> QED BY <2>1 DEF Order
<1> QED BY <1>1, <1>2 DEF Marked, IsPending

(* Balance and sums depend on positions, cash and configuration only. *)
LEMMA SameBooks ==
  ASSUME NEW a, NEW b, b.cfg = a.cfg, b.cash = a.cash, b.positions = a.positions,
         b.completed_trades = a.completed_trades, b.realized_pnl = a.realized_pnl
  PROVE  /\ Balanced(a) => Balanced(b)
         /\ Booked(b) = Booked(a) /\ Open(b) = Open(a)
         /\ \A t : Timely(a, t) => Timely(b, t)
         /\ \A o : Serves(a, o) => Serves(b, o)
<1>1. Open(b) = Open(a)
  BY DEF Open
<1>2. Costs(b) = Costs(a)
  BY <1>1 DEF Costs
<1>3. Longs(b) = Longs(a)
  BY <1>1 DEF Longs
<1>4. Invested(b) = Invested(a)
  BY <1>3 DEF Invested, SumOver
<1> QED BY <1>1, <1>2, <1>4 DEF Balanced, Booked, Timely, Serves

(* It joins the queue, ... *)
LEMMA OrderQueued ==
  ASSUME NEW a, NEW fills, NEW t \in Nat, Ledger(a, fills, 0, t), NEW o, MayIssue(a, o, t),
         NEW q \in Order, q.id = o.id, q.sym = o.sym, q.purpose = o.purpose,
         q.direction = o.direction, q.quantity = o.quantity
  PROVE  Ledger([Issued(a, o) EXCEPT !.pending = Append(@, q)], fills, 0, t)
<1> DEFINE m == Issued(a, o)
           b == [m EXCEPT !.pending = Append(@, q)]
           s == o.sym
           n == Len(a.pending)
<1>1. /\ a \in Account(Configs) /\ o \in Order /\ o.id = a.next_order_id /\ s \in Symbols
      /\ ~IsPending(a, s) /\ Serves(a, o) /\ fills \in Seq(Fill)
  BY DEF Ledger, MayIssue, Order
<1>2. /\ m \in Account(Configs) /\ m.next_order_id = a.next_order_id + 1
      /\ m.pending_symbols[s] = o.id /\ o.id # 0
      /\ \A u \in Symbols \ {s} : m.pending_symbols[u] = a.pending_symbols[u]
      /\ m.cfg = a.cfg /\ m.cash = a.cash /\ m.positions = a.positions /\ m.pending = a.pending
      /\ m.unfilled_orders = a.unfilled_orders /\ m.completed_trades = a.completed_trades
      /\ m.realized_pnl = a.realized_pnl
  BY <1>1, IssuedFields
<1> HIDE DEF m
<1>3. /\ a.pending \in Seq(Order) /\ a.unfilled_orders \in Seq(Order) /\ a.next_order_id \in Nat \ {0}
      /\ n \in Nat /\ DOMAIN a.pending = 1 .. n
  BY <1>1 DEF Account
<1>4. /\ b \in Account(Configs) /\ b.pending = Append(a.pending, q) /\ b.next_order_id = a.next_order_id + 1
      /\ b.pending_symbols = m.pending_symbols /\ b.unfilled_orders = a.unfilled_orders
      /\ b.cfg = a.cfg /\ b.cash = a.cash /\ b.positions = a.positions
      /\ b.completed_trades = a.completed_trades /\ b.realized_pnl = a.realized_pnl
  <2>1. Append(m.pending, q) \in Seq(Order)
    BY <1>2, <1>3
  <2> QED BY <1>2, <2>1 DEF Account
<1> HIDE DEF b
<1>5. /\ DOMAIN b.pending = 1 .. (n + 1) /\ Len(b.pending) = n + 1 /\ b.pending[n + 1] = q
      /\ \A i \in 1 .. n : b.pending[i] = a.pending[i]
  <2> DEFINE p == a.pending
  <2>1. p \in Seq(Order) /\ n = Len(p) /\ b.pending = Append(p, q)
    BY <1>3, <1>4
  <2> HIDE DEF p, n
  <2>2. /\ DOMAIN Append(p, q) = 1 .. (n + 1) /\ Len(Append(p, q)) = n + 1 /\ Append(p, q)[n + 1] = q
        /\ \A i \in 1 .. n : Append(p, q)[i] = p[i]
    BY <2>1
  <2> QED BY <2>1, <2>2 DEF p
<1> HIDE DEF n
<1>6. /\ \A i \in 1 .. n : a.pending[i].sym # s /\ a.pending[i].sym \in Symbols
      /\ \A j \in Unapplied(fills, 0) : fills[j].sym # s /\ fills[j].sym \in Symbols
  <2>1. /\ \A i \in 1 .. n : a.pending[i].sym # s
        /\ \A j \in DOMAIN fills : fills[j].sym # s
    BY <1>1, <1>3, NothingUnderWay
  <2>2. \A i \in 1 .. n : a.pending[i] \in Order
    BY <1>3
  <2>3. \A j \in Unapplied(fills, 0) : j \in DOMAIN fills /\ fills[j] \in Fill
    BY <1>1 DEF Unapplied
  <2> QED BY <2>1, <2>2, <2>3 DEF Order, Fill
<1>7. OneEach(b, fills, 0)
  <2>1. OneEach(a, fills, 0)
    BY DEF Ledger
  <2>2. ASSUME NEW i \in 1 .. (n + 1), NEW j \in 1 .. (n + 1), b.pending[i].sym = b.pending[j].sym
        PROVE  i = j
    <3>1. CASE i \in 1 .. n /\ j \in 1 .. n
      BY <1>3, <1>5, <2>1, <2>2, <3>1 DEF OneEach
    <3>2. CASE i \notin 1 .. n \/ j \notin 1 .. n
      <4>1. (i \in 1 .. n \/ i = n + 1) /\ (j \in 1 .. n \/ j = n + 1)
        BY <1>3
      <4>2. \A l \in 1 .. n : b.pending[l].sym # b.pending[n + 1].sym
        BY <1>5, <1>6
      <4> QED BY <2>2, <3>2, <4>1, <4>2
    <3> QED BY <3>1, <3>2
  <2>3. ASSUME NEW i \in 1 .. (n + 1), NEW j \in Unapplied(fills, 0)
        PROVE  b.pending[i].sym # fills[j].sym
    <3>1. CASE i \in 1 .. n
      <4>1. i \in DOMAIN a.pending /\ b.pending[i] = a.pending[i]
        BY <1>3, <1>5, <3>1
      <4> QED BY <2>1, <4>1 DEF OneEach
    <3>2. CASE i = n + 1
      BY <1>5, <1>6, <3>2
    <3> QED BY <1>3, <3>1, <3>2
  <2> QED BY <1>5, <2>1, <2>2, <2>3 DEF OneEach
<1>8. Marked(b, fills, 0)
  <2>1. Marked(a, fills, 0)
    BY DEF Ledger
  <2>2. ASSUME NEW i \in 1 .. (n + 1)
        PROVE  b.pending_symbols[b.pending[i].sym] = b.pending[i].id /\ b.pending[i].id < b.next_order_id
    <3>1. CASE i \in 1 .. n
      <4>0. b.pending[i] = a.pending[i] /\ a.pending[i] \in Order
        BY <1>3, <1>5, <3>1
      <4>1. a.pending[i].id \in Nat
        BY <4>0 DEF Order
      <4>2. a.pending_symbols[a.pending[i].sym] = a.pending[i].id /\ a.pending[i].id < a.next_order_id
        BY <1>3, <2>1, <3>1 DEF Marked
      <4>3. b.pending_symbols[a.pending[i].sym] = a.pending_symbols[a.pending[i].sym]
        BY <1>2, <1>4, <1>6, <3>1
      <4>4. b.next_order_id = a.next_order_id + 1 /\ a.next_order_id \in Nat
        BY <1>3, <1>4
      <4> QED BY <4>0, <4>1, <4>2, <4>3, <4>4
    <3>2. CASE i = n + 1
      BY <1>1, <1>2, <1>3, <1>4, <1>5, <3>2
    <3> QED BY <1>3, <3>1, <3>2
  <2>3. \A j \in Unapplied(fills, 0) : IsPending(b, fills[j].sym)
    BY <1>2, <1>4, <1>6, <2>1 DEF Marked, IsPending
  <2>4. ASSUME NEW u \in Symbols, IsPending(b, u)
        PROVE  \/ \E i \in DOMAIN b.pending : b.pending[i].sym = u
               \/ \E j \in Unapplied(fills, 0) : fills[j].sym = u
    <3>1. CASE u = s
      <4>1. n + 1 \in DOMAIN b.pending
        BY <1>3, <1>5
      <4> QED BY <1>5, <3>1, <4>1
    <3>2. CASE u # s
      <4>1. IsPending(a, u)
        BY <1>2, <1>4, <2>4, <3>2 DEF IsPending
      <4>2. \A i \in DOMAIN a.pending : i \in DOMAIN b.pending /\ b.pending[i] = a.pending[i]
        BY <1>3, <1>5
      <4> QED BY <2>1, <4>1, <4>2 DEF Marked
    <3> QED BY <3>1, <3>2
  <2> QED BY <1>5, <2>2, <2>3, <2>4 DEF Marked
<1>9. Balanced(b) /\ Booked(b) = Booked(a) /\ Timely(b, t) /\ \A x : Serves(a, x) => Serves(b, x)
  BY <1>4, SameBooks DEF Ledger
<1>10. Serving(b, fills, 0)
  <2>1. Serving(a, fills, 0)
    BY DEF Ledger
  <2>2. Serves(b, q)
    <3>1. Serves(b, o)
      BY <1>1, <1>9
    <3> QED BY <3>1 DEF Serves
  <2>3. ASSUME NEW i \in 1 .. (n + 1) PROVE Serves(b, b.pending[i])
    <3>1. CASE i \in 1 .. n
      BY <1>3, <1>5, <1>9, <2>1, <3>1 DEF Serving
    <3>2. CASE i = n + 1
      BY <1>5, <2>2, <3>2
    <3> QED BY <1>3, <3>1, <3>2
  <2> QED BY <1>5, <1>9, <2>1, <2>3 DEF Serving
<1>11. Counted(b, fills, 0)
  <2>1. Waiting(b) = Waiting(a) + 1 /\ Waiting(a) \in Nat /\ Booked(a) \in Nat
    <3> DEFINE u == Len(a.unfilled_orders)
    <3>1. u \in Nat
      BY <1>3
    <3>2. Waiting(a) = n + u /\ Waiting(b) = n + 1 + u
      BY <1>4, <1>5 DEF Waiting, n
    <3> HIDE DEF u
    <3>3. Waiting(a) \in Nat /\ Booked(a) \in Nat
      BY <1>1, LedgerCounts
    <3> QED BY <1>3, <3>1, <3>2, <3>3
  <2>2. Counted(a, fills, 0)
    BY DEF Ledger
  <2>3. Len(fills) \in Nat
    BY <1>1
  <2>4. b.next_order_id = a.next_order_id + 1 /\ a.next_order_id \in Nat /\ Booked(b) = Booked(a)
    BY <1>3, <1>4, <1>9
  <2> QED BY <2>1, <2>2, <2>3, <2>4 DEF Counted
<1>12. Ledger(b, fills, 0, t)
  BY <1>1, <1>4, <1>7, <1>8, <1>9, <1>10, <1>11 DEF Ledger
<1> QED BY <1>12 DEF b, m

(* ... or fills at once. *)
LEMMA OrderFilled ==
  ASSUME NEW a, NEW fills, NEW t \in Nat, Ledger(a, fills, 0, t), NEW o, MayIssue(a, o, t),
         NEW fill \in Fill, fill.sym = o.sym, fill.time = t, fill.purpose = o.purpose,
         fill.direction = o.direction, fill.quantity = o.quantity
  PROVE  Ledger(Issued(a, o), Append(fills, fill), 0, t)
<1> DEFINE b == Issued(a, o)
           s == o.sym
           n == Len(fills)
           all == Append(fills, fill)
<1>1. /\ a \in Account(Configs) /\ o \in Order /\ o.id = a.next_order_id /\ s \in Symbols
      /\ ~IsPending(a, s) /\ Serves(a, o) /\ fills \in Seq(Fill)
  BY DEF Ledger, MayIssue, Order
<1>2. /\ b \in Account(Configs) /\ b.next_order_id = a.next_order_id + 1
      /\ b.pending_symbols[s] = o.id /\ o.id # 0
      /\ \A u \in Symbols \ {s} : b.pending_symbols[u] = a.pending_symbols[u]
      /\ b.cfg = a.cfg /\ b.cash = a.cash /\ b.positions = a.positions /\ b.pending = a.pending
      /\ b.unfilled_orders = a.unfilled_orders /\ b.completed_trades = a.completed_trades
      /\ b.realized_pnl = a.realized_pnl
  BY <1>1, IssuedFields
<1> HIDE DEF b
<1>3. /\ n \in Nat /\ DOMAIN fills = 1 .. n /\ all \in Seq(Fill) /\ Len(all) = n + 1
      /\ DOMAIN all = 1 .. (n + 1) /\ all[n + 1] = fill /\ \A j \in 1 .. n : all[j] = fills[j]
  BY <1>1
<1> HIDE DEF n, all
<1>4. Unapplied(fills, 0) = 1 .. n /\ Unapplied(all, 0) = 1 .. (n + 1)
  BY <1>3 DEF Unapplied, n
<1>5. \A i \in DOMAIN a.pending : a.pending[i].sym # s /\ a.pending[i].sym \in Symbols /\ a.pending[i].id \in Nat
  <2>1. \A i \in DOMAIN a.pending : a.pending[i].sym # s
    BY <1>1, NothingUnderWay
  <2>2. a.pending \in Seq(Order)
    BY <1>1 DEF Account
  <2>3. \A i \in DOMAIN a.pending : a.pending[i] \in Order
    BY <2>2
  <2> QED BY <2>1, <2>3 DEF Order
<1>6. \A j \in 1 .. n : fills[j].sym # s /\ fills[j].sym \in Symbols
  <2>1. \A j \in 1 .. n : fills[j].sym # s
    BY <1>1, <1>3, NothingUnderWay
  <2>2. \A j \in 1 .. n : fills[j] \in Fill
    BY <1>1, <1>3
  <2> QED BY <2>1, <2>2 DEF Fill
<1>7. OneEach(b, all, 0)
  <2>1. OneEach(a, fills, 0)
    BY DEF Ledger
  <2>2. ASSUME NEW i \in 1 .. (n + 1), NEW j \in 1 .. (n + 1), all[i].sym = all[j].sym
        PROVE  i = j
    <3>1. CASE i \in 1 .. n /\ j \in 1 .. n
      <4>1. fills[i].sym = fills[j].sym
        BY <1>3, <2>2, <3>1
      <4> QED BY <1>4, <2>1, <3>1, <4>1 DEF OneEach
    <3>2. CASE i \notin 1 .. n \/ j \notin 1 .. n
      <4>1. (i \in 1 .. n \/ i = n + 1) /\ (j \in 1 .. n \/ j = n + 1)
        BY <1>3
      <4>2. \A l \in 1 .. n : all[l].sym # all[n + 1].sym
        BY <1>3, <1>6
      <4> QED BY <2>2, <3>2, <4>1, <4>2
    <3> QED BY <3>1, <3>2
  <2>3. ASSUME NEW i \in DOMAIN a.pending, NEW j \in 1 .. (n + 1)
        PROVE  a.pending[i].sym # all[j].sym
    <3>1. CASE j \in 1 .. n
      <4>1. all[j] = fills[j]
        BY <1>3, <3>1
      <4> QED BY <1>4, <2>1, <3>1, <4>1 DEF OneEach
    <3>2. CASE j = n + 1
      BY <1>3, <1>5, <3>2
    <3> QED BY <1>3, <3>1, <3>2
  <2>4. b.pending = a.pending
    BY <1>2
  <2>5. \A i, j \in DOMAIN b.pending : b.pending[i].sym = b.pending[j].sym => i = j
    BY <2>1, <2>4 DEF OneEach
  <2>6. \A i, j \in Unapplied(all, 0) : all[i].sym = all[j].sym => i = j
    BY <1>4, <2>2
  <2>7. \A i \in DOMAIN b.pending, j \in Unapplied(all, 0) : b.pending[i].sym # all[j].sym
    BY <1>4, <2>3, <2>4
  <2> QED BY <2>5, <2>6, <2>7 DEF OneEach
<1>8. Marked(b, all, 0)
  <2>1. Marked(a, fills, 0)
    BY DEF Ledger
  <2>2. ASSUME NEW i \in DOMAIN b.pending
        PROVE  b.pending_symbols[b.pending[i].sym] = b.pending[i].id /\ b.pending[i].id < b.next_order_id
    <3>1. i \in DOMAIN a.pending /\ b.pending[i] = a.pending[i]
      BY <1>2
    <3>2. a.pending_symbols[a.pending[i].sym] = a.pending[i].id /\ a.pending[i].id < a.next_order_id
      BY <2>1, <3>1 DEF Marked
    <3>3. a.next_order_id \in Nat /\ b.next_order_id = a.next_order_id + 1 /\ a.pending[i].id \in Nat
      BY <1>1, <1>2, <1>5, <3>1 DEF Account
    <3>4. b.pending_symbols[a.pending[i].sym] = a.pending_symbols[a.pending[i].sym]
      BY <1>2, <1>5, <3>1
    <3> QED BY <3>1, <3>2, <3>3, <3>4
  <2>3. ASSUME NEW j \in 1 .. (n + 1) PROVE IsPending(b, all[j].sym)
    <3>1. CASE j \in 1 .. n
      <4>1. all[j] = fills[j] /\ IsPending(a, fills[j].sym) /\ fills[j].sym \in Symbols \ {s}
        BY <1>3, <1>4, <1>6, <2>1, <3>1 DEF Marked
      <4> QED BY <1>2, <4>1 DEF IsPending
    <3>2. CASE j = n + 1
      BY <1>2, <1>3, <3>2 DEF IsPending
    <3> QED BY <1>3, <3>1, <3>2
  <2>4. ASSUME NEW u \in Symbols, IsPending(b, u)
        PROVE  \/ \E i \in DOMAIN b.pending : b.pending[i].sym = u
               \/ \E j \in 1 .. (n + 1) : all[j].sym = u
    <3>1. CASE u = s
      <4>1. n + 1 \in 1 .. (n + 1) /\ all[n + 1].sym = u
        BY <1>3, <3>1
      <4> QED BY <4>1
    <3>2. CASE u # s
      <4>1. IsPending(a, u)
        BY <1>2, <2>4, <3>2 DEF IsPending
      <4>2. CASE \E i \in DOMAIN a.pending : a.pending[i].sym = u
        BY <1>2, <4>2
      <4>3. CASE \E j \in 1 .. n : fills[j].sym = u
        BY <1>3, <4>3
      <4> QED BY <1>4, <2>1, <4>1, <4>2, <4>3 DEF Marked
    <3> QED BY <3>1, <3>2
  <2> QED BY <1>4, <2>2, <2>3, <2>4 DEF Marked
<1>9. Balanced(b) /\ Booked(b) = Booked(a) /\ Timely(b, t) /\ \A x : Serves(a, x) => Serves(b, x)
  BY <1>2, SameBooks DEF Ledger
<1>10. Serving(b, all, 0)
  <2>1. Serving(a, fills, 0)
    BY DEF Ledger
  <2>2. Serves(b, fill)
    <3>1. Serves(b, o)
      BY <1>1, <1>9
    <3> QED BY <3>1 DEF Serves
  <2>3. ASSUME NEW j \in 1 .. (n + 1) PROVE Serves(b, all[j])
    <3>1. CASE j \in 1 .. n
      <4>1. all[j] = fills[j] /\ j \in Unapplied(fills, 0)
        BY <1>3, <1>4, <3>1
      <4> QED BY <1>9, <2>1, <4>1 DEF Serving
    <3>2. CASE j = n + 1
      BY <1>3, <2>2, <3>2
    <3> QED BY <1>3, <3>1, <3>2
  <2>4. \A i \in DOMAIN b.pending : Serves(b, b.pending[i])
    BY <1>2, <1>9, <2>1 DEF Serving
  <2> QED BY <1>4, <2>3, <2>4 DEF Serving
<1>11. Counted(b, all, 0)
  <2>1. Waiting(b) = Waiting(a) /\ Waiting(a) \in Nat /\ Booked(a) \in Nat
    BY <1>1, <1>2, LedgerCounts DEF Waiting
  <2>2. Counted(a, fills, 0)
    BY DEF Ledger
  <2>3. n = Len(fills) /\ n \in Nat /\ Len(all) = n + 1
    BY <1>3 DEF n
  <2>4. b.next_order_id = a.next_order_id + 1 /\ a.next_order_id \in Nat /\ Booked(b) = Booked(a)
    BY <1>1, <1>2, <1>9 DEF Account
  <2>5. a.next_order_id - 1 = Waiting(a) + n + Booked(a)
    BY <2>2, <2>3 DEF Counted
  <2> DEFINE w == Waiting(a)
             k == Booked(a)
  <2> HIDE DEF w, k
  <2>6. a.next_order_id - 1 = w + n + k /\ w \in Nat /\ k \in Nat
    BY <2>1, <2>5 DEF w, k
  <2>7. b.next_order_id - 1 = w + (Len(all) - 0) + k
    BY <2>3, <2>4, <2>6
  <2> QED BY <2>1, <2>4, <2>7 DEF Counted, w, k
<1>12. \A j \in DOMAIN all : all[j].time = t
  <2>1. \A j \in 1 .. n : fills[j].time = t
    BY <1>3 DEF Ledger
  <2>2. ASSUME NEW j \in 1 .. (n + 1) PROVE all[j].time = t
    <3>1. CASE j \in 1 .. n
      BY <1>3, <2>1, <3>1
    <3>2. CASE j = n + 1
      BY <1>3, <3>2
    <3> QED BY <1>3, <3>1, <3>2
  <2> QED BY <1>3, <2>2
<1>13. Ledger(b, all, 0, t)
  BY <1>2, <1>3, <1>7, <1>8, <1>9, <1>10, <1>11, <1>12 DEF Ledger
<1> QED BY <1>13 DEF b, all

(* An order issued at t that no fillable quote of its symbol has passed by. *)
NewOrder(o, t, f, is_quote) ==
  o.order_time = t /\ (is_quote /\ Due(o, t, f) => ~Fillable(o.side, f))

(* Positions change as they may, and orders join the queue only as new ones. *)
Proceeds(a, b, t, f, is_quote) ==
  /\ b.cfg = a.cfg /\ b.unfilled_orders = a.unfilled_orders /\ Follows(a, b, t)
  /\ \A i \in DOMAIN b.pending :
       \/ NewOrder(b.pending[i], t, f, is_quote)
       \/ \E m \in DOMAIN a.pending : b.pending[i] = a.pending[m]

(* What one call may do to an account, two calls in a row may do. *)
LEMMA ProceedsOn ==
  ASSUME NEW a, NEW b, NEW c, NEW t, NEW f, NEW is_quote,
         Proceeds(a, b, t, f, is_quote), Proceeds(b, c, t, f, is_quote)
  PROVE  Proceeds(a, c, t, f, is_quote)
<1> HIDE DEF NewOrder
<1> QED BY DEF Proceeds, Follows

(* Submitting keeps the ledger with the fills there were and the one it makes; the *)
(* order fills when it may, or waits as a new one.                                 *)
LEMMA OrderSubmitted ==
  ASSUME NEW a, NEW fills, NEW t \in Nat, Ledger(a, fills, 0, t), NEW o, MayIssue(a, o, t),
         NEW f \in Feature, NEW is_quote, NEW force
  PROVE  LET done == submit_marked(a, o, t, f, is_quote, force) IN
         /\ Ledger(done.a, fills \o done.fills, 0, t)
         /\ done.a.cfg = a.cfg /\ done.a.unfilled_orders = a.unfilled_orders
         /\ done.a.positions = a.positions
         /\ \A u \in Symbols \ {o.sym} : done.a.pending_symbols[u] = a.pending_symbols[u]
         /\ \/ /\ done.a.pending = a.pending
               /\ \E fill \in Fill : done.fills = <<fill>> /\ fill.sym = o.sym /\ fill.purpose = o.purpose
            \/ /\ done.fills = <<>>
               /\ \E q \in Order :
                    /\ done.a.pending = Append(a.pending, q) /\ q.sym = o.sym /\ q.order_time = t
                    /\ q.side = o.side
                    /\ is_quote /\ (force \/ q.eligible <= t) => f.sym # o.sym \/ ~Fillable(o.side, f)
<1> DEFINE eligible == IF force THEN t ELSE o.order_time + a.cfg.latency
           q == IF force THEN o ELSE [o EXCEPT !.eligible = eligible]
           b == Issued(a, o)
           fill == make_fill(a.cfg, q, t, f)
           now_ == is_quote /\ eligible <= t /\ fill # NoFill
           done == submit_marked(a, o, t, f, is_quote, force)
<1>1. /\ a \in Account(Configs) /\ o \in Order /\ o.id = a.next_order_id /\ fills \in Seq(Fill)
      /\ a.cfg \in Configs /\ o.order_time = t /\ a.pending \in Seq(Order)
  BY DEF Ledger, MayIssue, Account
<1>2. /\ b.cfg = a.cfg /\ b.positions = a.positions /\ b.pending = a.pending
      /\ b.unfilled_orders = a.unfilled_orders /\ b \in Account(Configs)
      /\ \A u \in Symbols \ {o.sym} : b.pending_symbols[u] = a.pending_symbols[u]
  BY <1>1, IssuedFields
<1>3. done = IF now_ THEN With(b, <<fill>>) ELSE With([b EXCEPT !.pending = Append(@, q)], <<>>)
  BY <1>2 DEF submit_marked, submit, Issued
<1>4. /\ q \in Order /\ q.id = o.id /\ q.sym = o.sym /\ q.purpose = o.purpose /\ q.direction = o.direction
      /\ q.quantity = o.quantity /\ q.side = o.side /\ q.order_time = t
      /\ (~force => q.eligible = eligible) /\ (force => eligible = t)
  <2>1. a.cfg.latency \in Nat
    BY <1>1, ConfigsAreOK DEF ExecutionConfigOK
  <2>2. eligible \in Nat
    BY <1>1, <2>1
  <2> HIDE DEF eligible
  <2>3. CASE force
    BY <1>1, <2>3 DEF eligible
  <2>4. CASE ~force
    <3>1. q = [o EXCEPT !.eligible = eligible]
      BY <2>4
    <3> QED BY <1>1, <2>2, <2>4, <3>1 DEF Order
  <2> QED BY <2>3, <2>4
<1> HIDE DEF q, eligible, b
<1>5. /\ fill # NoFill <=> f.sym = q.sym /\ Fillable(q.side, f)
      /\ fill # NoFill =>
           /\ fill \in Fill /\ fill.sym = o.sym /\ fill.time = t
           /\ fill.purpose = o.purpose /\ fill.direction = o.direction /\ fill.quantity = o.quantity
  BY <1>1, <1>4, MakeFill
<1> HIDE DEF fill, done
<1>6. CASE now_
  <2>1. done.a = b /\ done.fills = <<fill>>
    BY <1>3, <1>6 DEF With
  <2>2. fill \in Fill /\ fill.sym = o.sym /\ fill.purpose = o.purpose
    BY <1>5, <1>6
  <2>3. Ledger(b, Append(fills, fill), 0, t)
    BY <1>5, <1>6, OrderFilled DEF b
  <2>4. fills \o <<fill>> = Append(fills, fill)
    BY <1>1, <2>2
  <2> QED BY <1>2, <2>1, <2>2, <2>3, <2>4 DEF done
<1>7. CASE ~now_
  <2> DEFINE c == [b EXCEPT !.pending = Append(@, q)]
  <2>1. done.a = c /\ done.fills = <<>>
    BY <1>3, <1>7 DEF With
  <2>2. Ledger(c, fills, 0, t)
    BY <1>4, OrderQueued DEF b
  <2>3. /\ c.cfg = b.cfg /\ c.unfilled_orders = b.unfilled_orders /\ c.positions = b.positions
        /\ c.pending_symbols = b.pending_symbols /\ c.pending = Append(b.pending, q)
    BY <1>2 DEF Account
  <2> HIDE DEF c
  <2>4. fills \o <<>> = fills
    BY <1>1
  <2>5. is_quote /\ (force \/ q.eligible <= t) => f.sym # o.sym \/ ~Fillable(o.side, f)
    BY <1>4, <1>5, <1>7
  <2> QED BY <1>2, <1>4, <2>1, <2>2, <2>3, <2>4, <2>5 DEF done
<1> QED BY <1>6, <1>7

----------------------------------------------------------------------------
(* A quote tries the waiting orders *)

(* The elements of a sequence with one more at its end. *)
LEMMA Appended ==
  ASSUME NEW T, NEW p \in Seq(T), NEW x \in T
  PROVE  /\ Append(p, x) \in Seq(T) /\ Len(p) \in Nat /\ Len(Append(p, x)) = Len(p) + 1
         /\ DOMAIN p = 1 .. Len(p) /\ DOMAIN Append(p, x) = 1 .. (Len(p) + 1)
         /\ Append(p, x)[Len(p) + 1] = x /\ \A i \in 1 .. Len(p) : Append(p, x)[i] = p[i]
  OBVIOUS

FillOf(fill, o, t) ==
  /\ fill.sym = o.sym /\ fill.purpose = o.purpose /\ fill.direction = o.direction
  /\ fill.quantity = o.quantity /\ fill.time = t
MayStay(o, t, f) == Due(o, t, f) => ~Fillable(o.side, f)

(* Of the first k waiting orders, those in p stay and those in fs are filled. *)
Sorted(p, fs, a, t, f, k) ==
  /\ Len(p) + Len(fs) = k
  /\ \A i \in DOMAIN p : MayStay(p[i], t, f) /\ \E m \in 1 .. k : p[i] = a.pending[m]
  /\ \A j \in DOMAIN fs : \E m \in 1 .. k : FillOf(fs[j], a.pending[m], t)
  /\ \A m \in 1 .. k :
       (\E i \in DOMAIN p : p[i] = a.pending[m]) \/ \E j \in DOMAIN fs : FillOf(fs[j], a.pending[m], t)
  /\ \A i, j \in DOMAIN p : p[i].sym = p[j].sym => i = j
  /\ \A i, j \in DOMAIN fs : fs[i].sym = fs[j].sym => i = j
  /\ \A i \in DOMAIN p, j \in DOMAIN fs : p[i].sym # fs[j].sym

(* One more order is tried: it stays or fills, and the division goes on. *)
LEMMA SortedNext ==
  ASSUME NEW a, NEW t, NEW f, NEW k \in Nat, NEW p \in Seq(Order), NEW fs \in Seq(Fill),
         \A i, j \in 1 .. (k + 1) : a.pending[i].sym = a.pending[j].sym => i = j,
         Sorted(p, fs, a, t, f, k)
  PROVE  /\ \A x \in Order : x = a.pending[k + 1] /\ MayStay(x, t, f) => Sorted(Append(p, x), fs, a, t, f, k + 1)
         /\ \A x \in Fill : FillOf(x, a.pending[k + 1], t) => Sorted(p, Append(fs, x), a, t, f, k + 1)
<1> DEFINE o == a.pending[k + 1]
           n == Len(p)
           l == Len(fs)
<1>1. \A m \in 1 .. k : m \in 1 .. (k + 1) /\ a.pending[m].sym # o.sym
  <2>1. \A m \in 1 .. k : m \in 1 .. (k + 1) /\ m # k + 1 /\ k + 1 \in 1 .. (k + 1)
    OBVIOUS
  <2> QED BY <2>1
<1>2. \A m \in 1 .. (k + 1) : m \in 1 .. k \/ m = k + 1
  OBVIOUS
<1>3. k + 1 \in 1 .. (k + 1)
  OBVIOUS
<1>4. /\ n \in Nat /\ l \in Nat /\ DOMAIN p = 1 .. n /\ DOMAIN fs = 1 .. l /\ n + l = k
      /\ \A i \in DOMAIN p : p[i].sym # o.sym
      /\ \A j \in DOMAIN fs : fs[j].sym # o.sym
  <2>1. ASSUME NEW i \in DOMAIN p PROVE p[i].sym # o.sym
    <3>1. \E m \in 1 .. k : p[i] = a.pending[m]
      BY DEF Sorted
    <3> QED BY <1>1, <3>1
  <2>2. ASSUME NEW j \in DOMAIN fs PROVE fs[j].sym # o.sym
    <3>1. \E m \in 1 .. k : FillOf(fs[j], a.pending[m], t)
      BY DEF Sorted
    <3>2. PICK m \in 1 .. k : FillOf(fs[j], a.pending[m], t)
      BY <3>1
    <3>3. fs[j].sym = a.pending[m].sym
      BY <3>2 DEF FillOf
    <3> QED BY <1>1, <3>3
  <2>3. n + l = k
    BY DEF Sorted
  <2> QED BY <2>1, <2>2, <2>3
<1>5. ASSUME NEW x \in Order, x = o, MayStay(x, t, f) PROVE Sorted(Append(p, x), fs, a, t, f, k + 1)
  <2> DEFINE q == Append(p, x)
  <2>1. /\ Len(q) = n + 1 /\ DOMAIN q = 1 .. (n + 1) /\ q[n + 1] = x /\ n + 1 \in DOMAIN q
        /\ \A i \in DOMAIN p : i \in DOMAIN q /\ q[i] = p[i]
        /\ \A i \in DOMAIN q : i \in DOMAIN p \/ i = n + 1
    BY <1>4, Appended
  <2> HIDE DEF q, n, l, o
  <2>2. Len(q) + Len(fs) = k + 1
    BY <1>4, <2>1 DEF n, l
  <2>3. \A i \in DOMAIN q : MayStay(q[i], t, f) /\ \E m \in 1 .. (k + 1) : q[i] = a.pending[m]
    <3> SUFFICES ASSUME NEW i \in DOMAIN q
                 PROVE  MayStay(q[i], t, f) /\ \E m \in 1 .. (k + 1) : q[i] = a.pending[m]
      OBVIOUS
    <3>1. CASE i \in DOMAIN p
      <4>1. MayStay(p[i], t, f) /\ \E m \in 1 .. k : p[i] = a.pending[m]
        BY <3>1 DEF Sorted
      <4> QED BY <1>1, <2>1, <3>1, <4>1
    <3>2. CASE i = n + 1
      BY <1>3, <1>5, <2>1, <3>2 DEF o
    <3> QED BY <2>1, <3>1, <3>2
  <2>4. \A j \in DOMAIN fs : \E m \in 1 .. (k + 1) : FillOf(fs[j], a.pending[m], t)
    <3>1. \A j \in DOMAIN fs : \E m \in 1 .. k : FillOf(fs[j], a.pending[m], t)
      BY DEF Sorted
    <3> QED BY <1>1, <3>1
  <2>5. \A m \in 1 .. (k + 1) :
          (\E i \in DOMAIN q : q[i] = a.pending[m]) \/ \E j \in DOMAIN fs : FillOf(fs[j], a.pending[m], t)
    <3> SUFFICES ASSUME NEW m \in 1 .. (k + 1)
                 PROVE  (\E i \in DOMAIN q : q[i] = a.pending[m]) \/ \E j \in DOMAIN fs : FillOf(fs[j], a.pending[m], t)
      OBVIOUS
    <3>1. CASE m \in 1 .. k
      <4>1. (\E i \in DOMAIN p : p[i] = a.pending[m]) \/ \E j \in DOMAIN fs : FillOf(fs[j], a.pending[m], t)
        BY <3>1 DEF Sorted
      <4> QED BY <2>1, <4>1
    <3>2. CASE m = k + 1
      BY <1>5, <2>1, <3>2 DEF o
    <3> QED BY <1>2, <3>1, <3>2
  <2>6. \A i, j \in DOMAIN q : q[i].sym = q[j].sym => i = j
    <3>1. \A i, j \in DOMAIN p : p[i].sym = p[j].sym => i = j
      BY DEF Sorted
    <3> QED BY <1>4, <1>5, <2>1, <3>1
  <2>7. \A i, j \in DOMAIN fs : fs[i].sym = fs[j].sym => i = j
    BY DEF Sorted
  <2>8. \A i \in DOMAIN q, j \in DOMAIN fs : q[i].sym # fs[j].sym
    <3>1. \A i \in DOMAIN p, j \in DOMAIN fs : p[i].sym # fs[j].sym
      BY DEF Sorted
    <3> QED BY <1>4, <1>5, <2>1, <3>1
  <2>9. Sorted(q, fs, a, t, f, k + 1)
    BY <2>2, <2>3, <2>4, <2>5, <2>6, <2>7, <2>8 DEF Sorted
  <2> QED BY <2>9 DEF q
<1>6. ASSUME NEW x \in Fill, FillOf(x, o, t) PROVE Sorted(p, Append(fs, x), a, t, f, k + 1)
  <2> DEFINE g == Append(fs, x)
  <2>1. /\ Len(g) = l + 1 /\ DOMAIN g = 1 .. (l + 1) /\ g[l + 1] = x /\ l + 1 \in DOMAIN g
        /\ \A j \in DOMAIN fs : j \in DOMAIN g /\ g[j] = fs[j]
        /\ \A j \in DOMAIN g : j \in DOMAIN fs \/ j = l + 1
    BY <1>4, Appended
  <2> HIDE DEF g, n, l, o
  <2>0. x.sym = o.sym
    BY <1>6 DEF FillOf
  <2>2. Len(p) + Len(g) = k + 1
    BY <1>4, <2>1 DEF n, l
  <2>3. \A i \in DOMAIN p : MayStay(p[i], t, f) /\ \E m \in 1 .. (k + 1) : p[i] = a.pending[m]
    <3>1. \A i \in DOMAIN p : MayStay(p[i], t, f) /\ \E m \in 1 .. k : p[i] = a.pending[m]
      BY DEF Sorted
    <3> QED BY <1>1, <3>1
  <2>4. \A j \in DOMAIN g : \E m \in 1 .. (k + 1) : FillOf(g[j], a.pending[m], t)
    <3> SUFFICES ASSUME NEW j \in DOMAIN g PROVE \E m \in 1 .. (k + 1) : FillOf(g[j], a.pending[m], t)
      OBVIOUS
    <3>1. CASE j \in DOMAIN fs
      <4>1. \E m \in 1 .. k : FillOf(fs[j], a.pending[m], t)
        BY <3>1 DEF Sorted
      <4> QED BY <1>1, <2>1, <3>1, <4>1
    <3>2. CASE j = l + 1
      BY <1>3, <1>6, <2>1, <3>2 DEF o
    <3> QED BY <2>1, <3>1, <3>2
  <2>5. \A m \in 1 .. (k + 1) :
          (\E i \in DOMAIN p : p[i] = a.pending[m]) \/ \E j \in DOMAIN g : FillOf(g[j], a.pending[m], t)
    <3> SUFFICES ASSUME NEW m \in 1 .. (k + 1)
                 PROVE  (\E i \in DOMAIN p : p[i] = a.pending[m]) \/ \E j \in DOMAIN g : FillOf(g[j], a.pending[m], t)
      OBVIOUS
    <3>1. CASE m \in 1 .. k
      <4>1. (\E i \in DOMAIN p : p[i] = a.pending[m]) \/ \E j \in DOMAIN fs : FillOf(fs[j], a.pending[m], t)
        BY <3>1 DEF Sorted
      <4> QED BY <2>1, <4>1
    <3>2. CASE m = k + 1
      BY <1>6, <2>1, <3>2 DEF o
    <3> QED BY <1>2, <3>1, <3>2
  <2>6. \A i, j \in DOMAIN g : g[i].sym = g[j].sym => i = j
    <3>1. \A i, j \in DOMAIN fs : fs[i].sym = fs[j].sym => i = j
      BY DEF Sorted
    <3> QED BY <1>4, <2>0, <2>1, <3>1
  <2>7. \A i, j \in DOMAIN p : p[i].sym = p[j].sym => i = j
    BY DEF Sorted
  <2>8. \A i \in DOMAIN p, j \in DOMAIN g : p[i].sym # g[j].sym
    <3>1. \A i \in DOMAIN p, j \in DOMAIN fs : p[i].sym # fs[j].sym
      BY DEF Sorted
    <3> QED BY <1>4, <2>0, <2>1, <3>1
  <2>9. Sorted(p, g, a, t, f, k + 1)
    BY <2>2, <2>3, <2>4, <2>5, <2>6, <2>7, <2>8 DEF Sorted
  <2> QED BY <2>9 DEF g
<1> QED BY <1>5, <1>6

Outcome(a, p, fs) == With([a EXCEPT !.pending = p], fs)

(* on_quote divides the waiting orders into those that stay and those that fill. *)
LEMMA OrdersTried ==
  ASSUME NEW a \in Account(Configs), NEW t \in Nat, NEW f \in Feature,
         \A i, j \in DOMAIN a.pending : a.pending[i].sym = a.pending[j].sym => i = j
  PROVE  \E p \in Seq(Order), fs \in Seq(Fill) :
           /\ execution_on_quote(a, t, f) = Outcome(a, p, fs)
           /\ Sorted(p, fs, a, t, f, Len(a.pending))
<1> DEFINE n == Len(a.pending)
           Is(r, k) == \E p \in Seq(Order), fs \in Seq(Fill) :
                         r = Outcome(a, p, fs) /\ Sorted(p, fs, a, t, f, k)
<1>1. n \in Nat /\ DOMAIN a.pending = 1 .. n /\ \A k \in 1 .. n : a.pending[k] \in Order
  <2>1. a.pending \in Seq(Order)
    BY DEF Account
  <2> QED BY <2>1
<1> HIDE DEF n
<1>2. \E h : TriesOrders(h, a, t, f, n)
  BY <1>1, OnQuoteStates
<1>3. PICK h : TriesOrders(h, a, t, f, n)
  BY <1>2
<1>4. /\ h[0] = Outcome(a, <<>>, <<>>) /\ h[n] = execution_on_quote(a, t, f)
      /\ \A k \in 1 .. n : h[k] = Attempt(h[k - 1], a.pending[k], t, f)
  BY <1>3 DEF TriesOrders, Outcome
<1> DEFINE Done == {k \in Nat : k <= n => Is(h[k], k)}
<1>5. 0 \in Done
  <2>1. <<>> \in Seq(Order) /\ <<>> \in Seq(Fill) /\ Len(<<>>) + Len(<<>>) = 0 /\ DOMAIN <<>> = {} /\ 1 .. 0 = {}
    OBVIOUS
  <2>2. Sorted(<<>>, <<>>, a, t, f, 0)
    BY <2>1 DEF Sorted
  <2>3. Is(h[0], 0)
    <3> DEFINE e == <<>>
    <3>1. e \in Seq(Order) /\ e \in Seq(Fill) /\ h[0] = Outcome(a, e, e) /\ Sorted(e, e, a, t, f, 0)
      BY <1>4, <2>1, <2>2
    <3> HIDE DEF e
    <3> QED BY <3>1
  <2> QED BY <2>3
<1>6. ASSUME NEW k \in Nat, k \in Done, k + 1 <= n PROVE Is(h[k + 1], k + 1)
  <2> DEFINE o == a.pending[k + 1]
  <2>1. k <= n /\ k + 1 \in 1 .. n /\ o \in Order /\ h[k + 1] = Attempt(h[k], o, t, f)
    BY <1>1, <1>4, <1>6
  <2>2. PICK p \in Seq(Order), fs \in Seq(Fill) :
          h[k] = Outcome(a, p, fs) /\ Sorted(p, fs, a, t, f, k)
    BY <1>6, <2>1
  <2> DEFINE r == h[k]
             fill == make_fill(a.cfg, o, t, f)
             due == Due(o, t, f)
  <2>3. r.a = [a EXCEPT !.pending = p] /\ r.fills = fs /\ r.a.cfg = a.cfg /\ r.a.pending = p /\ a.cfg \in Configs
    <3>1. r.a = [a EXCEPT !.pending = p] /\ r.fills = fs
      BY <2>2 DEF With, Outcome
    <3> HIDE DEF r
    <3> QED BY <3>1 DEF Account
  <2>4. [r.a EXCEPT !.pending = Append(@, o)] = [a EXCEPT !.pending = Append(p, o)]
    BY <2>3 DEF Account
  <2>5. /\ \A x \in Order : x = o /\ MayStay(x, t, f) => Sorted(Append(p, x), fs, a, t, f, k + 1)
        /\ \A x \in Fill : FillOf(x, o, t) => Sorted(p, Append(fs, x), a, t, f, k + 1)
    <3>1. \A i, j \in 1 .. (k + 1) : a.pending[i].sym = a.pending[j].sym => i = j
      <4>1. \A i \in 1 .. (k + 1) : i \in 1 .. n
        BY <1>1, <1>6
      <4> QED BY <1>1, <4>1
    <3>2. Sorted(p, fs, a, t, f, k)
      BY <2>2
    <3> QED BY <3>1, <3>2, SortedNext
  <2>6. /\ fill # NoFill <=> f.sym = o.sym /\ Fillable(o.side, f)
        /\ fill # NoFill => fill \in Fill /\ FillOf(fill, o, t)
    BY <2>1, <2>3, MakeFill DEF FillOf
  <2>7. h[k + 1] = LET made == IF due THEN make_fill(r.a.cfg, o, t, f) ELSE NoFill IN
                   IF made = NoFill THEN With([r.a EXCEPT !.pending = Append(@, o)], r.fills)
                   ELSE With(r.a, Append(r.fills, made))
    BY <2>1 DEF Attempt
  <2> HIDE DEF r, fill, due, o
  <2>8. CASE due /\ fill # NoFill
    <3>1. h[k + 1] = Outcome(a, p, Append(fs, fill))
      BY <2>3, <2>7, <2>8 DEF fill, Outcome
    <3>2. Append(fs, fill) \in Seq(Fill) /\ Sorted(p, Append(fs, fill), a, t, f, k + 1)
      BY <2>5, <2>6, <2>8
    <3> QED BY <3>1, <3>2
  <2>9. CASE ~due \/ fill = NoFill
    <3>1. h[k + 1] = Outcome(a, Append(p, o), fs)
      BY <2>3, <2>4, <2>7, <2>9 DEF fill, Outcome
    <3>2. MayStay(o, t, f)
      BY <2>6, <2>9 DEF MayStay, due, Due
    <3>3. Append(p, o) \in Seq(Order) /\ Sorted(Append(p, o), fs, a, t, f, k + 1)
      BY <2>1, <2>5, <3>2
    <3> QED BY <3>1, <3>3
  <2> QED BY <2>8, <2>9
<1>7. n \in Done
  <2>1. \A k \in Nat : k \in Done => k + 1 \in Done
    <3> SUFFICES ASSUME NEW k \in Nat, k \in Done, k + 1 <= n PROVE Is(h[k + 1], k + 1)
      <4> HIDE DEF Is
      <4> QED OBVIOUS
    <3> HIDE DEF Is
    <3> QED BY <1>6
  <2> HIDE DEF Done
  <2> QED BY <1>1, <1>5, <2>1, NatSetInduction
<1>8. Is(h[n], n)
  <2> HIDE DEF Is
  <2> QED BY <1>1, <1>7
<1> QED BY <1>4, <1>8 DEF n

(* The quote leaves a ledger in which no order it could have filled waits. *)
Tried(a, t, f) == \A i \in DOMAIN a.pending : MayStay(a.pending[i], t, f)

(* on_quote keeps the ledger, its fills still to be applied. *)
LEMMA QuoteTries ==
  ASSUME NEW a, NEW t \in Nat, Ledger(a, <<>>, 0, t), NEW f \in Feature
  PROVE  LET tried == execution_on_quote(a, t, f) IN
         /\ Ledger(tried.a, tried.fills, 0, t)
         /\ tried.a.cfg = a.cfg /\ tried.a.unfilled_orders = a.unfilled_orders
         /\ tried.a.positions = a.positions
         /\ Tried(tried.a, t, f)
         /\ \A i \in DOMAIN tried.a.pending : \E m \in DOMAIN a.pending : tried.a.pending[i] = a.pending[m]
<1> DEFINE n == Len(a.pending)
<1>1. a \in Account(Configs) /\ a.pending \in Seq(Order) /\ n \in Nat /\ DOMAIN a.pending = 1 .. n
  <2>1. a \in Account(Configs) /\ a.pending \in Seq(Order)
    BY DEF Ledger, Account
  <2> QED BY <2>1
<1>2. \A i, j \in DOMAIN a.pending : a.pending[i].sym = a.pending[j].sym => i = j
  BY DEF Ledger, OneEach
<1> HIDE DEF n
<1>3. PICK p \in Seq(Order), fs \in Seq(Fill) :
        execution_on_quote(a, t, f) = Outcome(a, p, fs) /\ Sorted(p, fs, a, t, f, n)
  BY <1>1, <1>2, OrdersTried DEF n
<1> DEFINE b == [a EXCEPT !.pending = p]
<1>4. execution_on_quote(a, t, f).a = b /\ execution_on_quote(a, t, f).fills = fs
  BY <1>3 DEF Outcome, With
<1>5. /\ b.pending = p /\ b.cfg = a.cfg /\ b.cash = a.cash /\ b.positions = a.positions
      /\ b.pending_symbols = a.pending_symbols /\ b.next_order_id = a.next_order_id
      /\ b.unfilled_orders = a.unfilled_orders /\ b.completed_trades = a.completed_trades
      /\ b.realized_pnl = a.realized_pnl /\ b \in Account(Configs)
  BY <1>1 DEF Account
<1> HIDE DEF b
<1>6. /\ \A i \in DOMAIN p : \E m \in DOMAIN a.pending : p[i] = a.pending[m]
      /\ \A j \in DOMAIN fs : \E m \in DOMAIN a.pending : FillOf(fs[j], a.pending[m], t)
      /\ \A m \in DOMAIN a.pending :
           (\E i \in DOMAIN p : p[i] = a.pending[m]) \/ \E j \in DOMAIN fs : FillOf(fs[j], a.pending[m], t)
  BY <1>1, <1>3 DEF Sorted
<1>7. DOMAIN fs = Unapplied(fs, 0) /\ DOMAIN <<>> = {} /\ Unapplied(<<>>, 0) = {}
  BY DEF Unapplied
<1>8. OneEach(b, fs, 0)
  BY <1>3, <1>5, <1>7 DEF Sorted, OneEach
<1>9. Marked(b, fs, 0)
  <2>1. Marked(a, <<>>, 0)
    BY DEF Ledger
  <2>2. \A i \in DOMAIN b.pending :
          b.pending_symbols[b.pending[i].sym] = b.pending[i].id /\ b.pending[i].id < b.next_order_id
    BY <1>5, <1>6, <2>1 DEF Marked
  <2>3. \A m \in DOMAIN a.pending : IsPending(a, a.pending[m].sym)
    <3>1. \A m \in DOMAIN a.pending : a.pending[m] \in Order
      BY <1>1
    <3>2. \A m \in DOMAIN a.pending : a.pending[m].id # 0
      BY <3>1 DEF Order
    <3> QED BY <2>1, <3>2 DEF Marked, IsPending
  <2>4. \A j \in Unapplied(fs, 0) : IsPending(b, fs[j].sym)
    BY <1>5, <1>6, <1>7, <2>3 DEF FillOf, IsPending
  <2>5. ASSUME NEW u \in Symbols, IsPending(b, u)
        PROVE  \/ \E i \in DOMAIN b.pending : b.pending[i].sym = u
               \/ \E j \in Unapplied(fs, 0) : fs[j].sym = u
    <3>1. PICK m \in DOMAIN a.pending : a.pending[m].sym = u
      BY <1>5, <1>7, <2>1, <2>5 DEF Marked, IsPending
    <3> QED BY <1>5, <1>6, <1>7, <3>1 DEF FillOf
  <2> QED BY <2>2, <2>4, <2>5 DEF Marked
<1>10. Balanced(b) /\ Booked(b) = Booked(a) /\ Timely(b, t) /\ \A x : Serves(a, x) => Serves(b, x)
  BY <1>5, SameBooks DEF Ledger
<1>11. Serving(b, fs, 0)
  <2>1. \A m \in DOMAIN a.pending : Serves(a, a.pending[m])
    BY DEF Ledger, Serving
  <2>2. \A i \in DOMAIN b.pending : Serves(b, b.pending[i])
    BY <1>5, <1>6, <1>10, <2>1
  <2>3. \A j \in Unapplied(fs, 0) : Serves(b, fs[j])
    <3> SUFFICES ASSUME NEW j \in DOMAIN fs PROVE Serves(b, fs[j])
      BY <1>7
    <3>1. PICK m \in DOMAIN a.pending : FillOf(fs[j], a.pending[m], t)
      BY <1>6
    <3>2. Serves(b, a.pending[m])
      BY <1>10, <2>1
    <3> QED BY <3>1, <3>2 DEF Serves, FillOf
  <2> QED BY <2>2, <2>3 DEF Serving
<1>12. Counted(b, fs, 0)
  <2> DEFINE u == Len(a.unfilled_orders)
             k == Len(p)
             l == Len(fs)
             w == Booked(a)
  <2>1. k \in Nat /\ l \in Nat /\ k + l = n
    BY <1>3 DEF Sorted
  <2>2. u \in Nat
    <3>1. a.unfilled_orders \in Seq(Order)
      BY <1>1 DEF Account
    <3> QED BY <3>1
  <2>3. w \in Nat /\ a.next_order_id \in Nat
    BY <1>1, LedgerCounts DEF Account
  <2>4. a.next_order_id - 1 = (n + u) + (Len(<<>>) - 0) + w
    BY DEF Ledger, Counted, Waiting, n
  <2>5. Len(<<>>) = 0
    OBVIOUS
  <2> HIDE DEF u, k, l, w
  <2>6. a.next_order_id - 1 = (k + u) + (l - 0) + w
    BY <1>1, <2>1, <2>2, <2>3, <2>4, <2>5
  <2>7. Waiting(b) = k + u /\ Booked(b) = w /\ b.next_order_id = a.next_order_id
    BY <1>5, <1>10 DEF Waiting, k, u, w
  <2> QED BY <2>6, <2>7 DEF Counted, l
<1>13. \A j \in DOMAIN fs : fs[j].time = t
  BY <1>6 DEF FillOf
<1>14. fs \in Seq(Fill) /\ 0 \in 0 .. Len(fs)
  BY <1>3
<1>15. Ledger(b, fs, 0, t)
  BY <1>5, <1>8, <1>9, <1>10, <1>11, <1>12, <1>13, <1>14 DEF Ledger
<1>16. Tried(b, t, f)
  BY <1>3, <1>5 DEF Tried, Sorted
<1> QED BY <1>4, <1>5, <1>6, <1>15, <1>16

----------------------------------------------------------------------------
(* The operations of the portfolio *)

(* The next event finds the ledger as the last one left it. *)
LEMMA LaterLedger ==
  ASSUME NEW a, NEW t \in Nat, Ledger(a, <<>>, 0, t)
  PROVE  Ledger(a, <<>>, 0, t + 1)
<1>1. \A s \in Open(a) : a.positions[s].entry_time \in Nat
  BY OpenIsPosition DEF Ledger, Position
<1>2. Timely(a, t + 1)
  BY <1>1 DEF Ledger, Timely
<1> QED BY <1>2 DEF Ledger

(* A quote: waiting orders that can fill do, and are in the books. *)
LEMMA QuoteApplied ==
  ASSUME NEW a, NEW t \in Nat, Ledger(a, <<>>, 0, t), NEW f \in Feature
  PROVE  LET b == portfolio_on_quote(a, t, f) IN
         /\ Ledger(b, <<>>, 0, t) /\ Tried(b, t, f)
         /\ b.cfg = a.cfg /\ b.unfilled_orders = a.unfilled_orders /\ Follows(a, b, t)
         /\ \A i \in DOMAIN b.pending : \E m \in DOMAIN a.pending : b.pending[i] = a.pending[m]
<1> DEFINE tried == execution_on_quote(a, t, f)
           b == apply_fills(tried.a, tried.fills)
<1>1. /\ Ledger(tried.a, tried.fills, 0, t)
      /\ tried.a.cfg = a.cfg /\ tried.a.unfilled_orders = a.unfilled_orders /\ tried.a.positions = a.positions
      /\ Tried(tried.a, t, f)
      /\ \A i \in DOMAIN tried.a.pending : \E m \in DOMAIN a.pending : tried.a.pending[i] = a.pending[m]
  BY QuoteTries
<1> HIDE DEF tried
<1>2. /\ Ledger(b, <<>>, 0, t)
      /\ b.cfg = tried.a.cfg /\ b.pending = tried.a.pending /\ b.unfilled_orders = tried.a.unfilled_orders
      /\ Follows(tried.a, b, t)
  BY <1>1, FillsApplied
<1>3. portfolio_on_quote(a, t, f) = b
  BY DEF portfolio_on_quote, tried
<1> HIDE DEF b
<1> QED BY <1>1, <1>2, <1>3 DEF Tried, Follows

(* Submitting and applying: only the position of the symbol may change, and an exit *)
(* that fills leaves none, nor an order. *)
Covers(iq, is_quote, f, o) == is_quote /\ f.sym = o.sym => iq
(* An order that is submitted and its fill applied keep the ledger. *)
LEMMA SubmittedAndApplied ==
  ASSUME NEW a, NEW t \in Nat, Ledger(a, <<>>, 0, t), NEW o, MayIssue(a, o, t),
         NEW f \in Feature, NEW iq, NEW is_quote, Covers(iq, is_quote, f, o)
  PROVE  LET done == submit_and_apply(a, o, t, f, iq) IN
         /\ Ledger(done.a, <<>>, 0, t) /\ Proceeds(a, done.a, t, f, is_quote)
         /\ \A u \in Symbols \ {o.sym} : done.a.positions[u] = a.positions[u]
         /\ done.fills # <<>> => ~IsPending(done.a, o.sym)
<1> DEFINE force == FALSE
           none == <<>>
           sent == submit_marked(a, o, t, f, iq, force)
           b == sent.a
           fills == sent.fills
           c == apply_fills(b, fills)
<1> HIDE DEF force, none
<1>1. /\ Ledger(b, none \o fills, 0, t)
      /\ b.cfg = a.cfg /\ b.unfilled_orders = a.unfilled_orders /\ b.positions = a.positions
      /\ \/ /\ b.pending = a.pending
            /\ \E fill \in Fill : fills = <<fill>> /\ fill.sym = o.sym /\ fill.purpose = o.purpose
         \/ /\ fills = <<>>
            /\ \E q \in Order :
                 /\ b.pending = Append(a.pending, q) /\ q.sym = o.sym /\ q.order_time = t
                 /\ q.side = o.side
                 /\ iq /\ q.eligible <= t => f.sym # o.sym \/ ~Fillable(o.side, f)
  <2>1. Ledger(a, none, 0, t)
    BY DEF none
  <2>2. LET done == submit_marked(a, o, t, f, iq, force) IN
         /\ Ledger(done.a, none \o done.fills, 0, t)
         /\ done.a.cfg = a.cfg /\ done.a.unfilled_orders = a.unfilled_orders
         /\ done.a.positions = a.positions
         /\ \/ /\ done.a.pending = a.pending
               /\ \E fill \in Fill : done.fills = <<fill>> /\ fill.sym = o.sym /\ fill.purpose = o.purpose
            \/ /\ done.fills = <<>>
               /\ \E q \in Order :
                    /\ done.a.pending = Append(a.pending, q) /\ q.sym = o.sym /\ q.order_time = t
                    /\ q.side = o.side
                    /\ iq /\ (force \/ q.eligible <= t) => f.sym # o.sym \/ ~Fillable(o.side, f)
    BY <2>1, OrderSubmitted
  <2> QED BY <2>2
<1> HIDE DEF sent
<1>2. submit_and_apply(a, o, t, f, iq) = With(c, fills)
  BY DEF submit_and_apply, sent, force
<1> HIDE DEF b, fills
<1>3. fills \in Seq(Fill) /\ none \o fills = fills
  <2>1. fills \in Seq(Fill)
    <3>1. \A fill \in Fill : <<fill>> \in Seq(Fill)
      OBVIOUS
    <3>2. fills = <<>> \/ \E fill \in Fill : fills = <<fill>>
      BY <1>1
    <3>3. <<>> \in Seq(Fill)
      OBVIOUS
    <3> QED BY <3>1, <3>2, <3>3
  <2> QED BY <2>1 DEF none
<1>4. /\ Ledger(c, <<>>, 0, t)
      /\ c.cfg = b.cfg /\ c.pending = b.pending /\ c.unfilled_orders = b.unfilled_orders
      /\ \A u \in Symbols : (\A j \in DOMAIN fills : fills[j].sym # u) => c.positions[u] = b.positions[u]
      /\ \A j \in DOMAIN fills : ~IsPending(c, fills[j].sym)
      /\ Follows(b, c, t)
  BY <1>1, <1>3, FillsApplied
<1> HIDE DEF c
<1>5. \A j \in DOMAIN fills : fills[j].sym = o.sym
  BY <1>1
<1>6. fills # <<>> => ~IsPending(c, o.sym)
  <2>1. fills # <<>> => 1 \in DOMAIN fills
    BY <1>3
  <2> QED BY <1>4, <1>5, <2>1
<1>7. Proceeds(a, c, t, f, is_quote)
  <2> SUFFICES ASSUME NEW i \in DOMAIN c.pending
               PROVE  \/ NewOrder(c.pending[i], t, f, is_quote)
                      \/ \E m \in DOMAIN a.pending : c.pending[i] = a.pending[m]
    BY <1>1, <1>4 DEF Proceeds, Follows
  <2>1. CASE b.pending = a.pending
    BY <1>4, <2>1
  <2>2. ASSUME NEW q \in Order, b.pending = Append(a.pending, q), q.sym = o.sym, q.order_time = t,
               q.side = o.side, iq /\ q.eligible <= t => f.sym # o.sym \/ ~Fillable(o.side, f)
        PROVE  \/ NewOrder(c.pending[i], t, f, is_quote)
               \/ \E m \in DOMAIN a.pending : c.pending[i] = a.pending[m]
    <3>1. NewOrder(q, t, f, is_quote)
      BY <2>2 DEF NewOrder, Due, Covers
    <3>2. a.pending \in Seq(Order)
      BY DEF Ledger, Account
    <3> DEFINE p == a.pending
    <3>3. p \in Seq(Order) /\ c.pending = Append(p, q)
      BY <1>4, <2>2, <3>2
    <3> HIDE DEF p
    <3>4. c.pending[i] = q \/ (i \in DOMAIN p /\ c.pending[i] = p[i])
      BY <3>3, Appended
    <3> QED BY <3>1, <3>4 DEF p
  <2> QED BY <1>1, <2>1, <2>2
<1> QED BY <1>1, <1>2, <1>4, <1>5, <1>6, <1>7 DEF With

(* What holds of the empty set and survives every new element holds of a finite set. *)
LEMMA SetInduction ==
  ASSUME NEW S, IsFiniteSet(S), NEW G, {} \in G,
         \A T \in SUBSET S : T # {} /\ (\A s \in T : T \ {s} \in G) => T \in G
  PROVE  S \in G
<1> DEFINE Done == {n \in Nat : \A T \in SUBSET S : Cardinality(T) = n => T \in G}
<1>1. 0 \in Done
  BY FiniteParts
<1>2. ASSUME NEW n \in Nat, n \in Done PROVE n + 1 \in Done
  <2> SUFFICES ASSUME NEW T \in SUBSET S, Cardinality(T) = n + 1 PROVE T \in G
    OBVIOUS
  <2>1. T # {}
    BY FiniteParts
  <2>2. ASSUME NEW s \in T PROVE T \ {s} \in G
    <3>1. T \ {s} \in SUBSET S /\ Cardinality(T \ {s}) = n
      BY FiniteParts
    <3> QED BY <1>2, <3>1
  <2> QED BY <2>1, <2>2
<1>3. Cardinality(S) \in Done
  <2> HIDE DEF Done
  <2> QED BY <1>1, <1>2, NatSetInduction, FiniteParts
<1> QED BY <1>3

(* A call may leave the account alone. *)
LEMMA ProceedsHere ==
  ASSUME NEW a, NEW t, NEW f, NEW is_quote
  PROVE  Proceeds(a, a, t, f, is_quote)
  BY DEF Proceeds, Follows

(* An exit may be issued for an open position that has no order pending. *)
LEMMA ExitMayIssue ==
  ASSUME NEW a, NEW fills, NEW t \in Nat, Ledger(a, fills, 0, t), NEW s \in Open(a), ~IsPending(a, s)
  PROVE  LET o == exit_order(a, s, t) IN
         MayIssue(a, o, t) /\ o.sym = s /\ o.purpose = "exit" /\ o.side = Flattens(a, s) /\ s \in Symbols
<1>1. a \in Account(Configs)
  BY DEF Ledger
<1> QED BY <1>1, ExitOrder DEF MayIssue, Open

(* A risk policy's exit keeps the ledger and touches its own symbol only. *)
LEMMA RiskExitKeeps ==
  ASSUME NEW a, NEW t \in Nat, Ledger(a, <<>>, 0, t), NEW s \in Open(a), NEW f \in Feature, NEW is_quote
  PROVE  LET b == RiskExit(s, a, t, f, is_quote) IN
         /\ Ledger(b, <<>>, 0, t) /\ Proceeds(a, b, t, f, is_quote)
         /\ \A u \in Symbols \ {s} : b.positions[u] = a.positions[u]
<1>2. PICK iq \in BOOLEAN : iq = (is_quote /\ f.sym = s)
  OBVIOUS
<1> DEFINE o == exit_order(a, s, t)
           done == submit_and_apply(a, o, t, f, iq)
           b == RiskExit(s, a, t, f, is_quote)
<1>1. b = a \/ (~IsPending(a, s) /\ b = done.a)
  BY <1>2 DEF RiskExit
<1>3. CASE b = a
  <2> HIDE DEF b
  <2>1. Ledger(b, <<>>, 0, t) /\ Proceeds(a, b, t, f, is_quote)
    BY <1>3, ProceedsHere
  <2> QED BY <1>3, <2>1 DEF b
<1>4. CASE ~IsPending(a, s) /\ b = done.a
  <2>1. MayIssue(a, o, t) /\ o.sym = s
    <3> DEFINE none == <<>>
    <3>1. Ledger(a, none, 0, t)
      OBVIOUS
    <3> HIDE DEF none, o
    <3> QED BY <1>4, <3>1, ExitMayIssue DEF o
  <2> HIDE DEF o
  <2>2. /\ Ledger(done.a, <<>>, 0, t) /\ Proceeds(a, done.a, t, f, is_quote)
        /\ \A u \in Symbols \ {o.sym} : done.a.positions[u] = a.positions[u]
    <3>1. Covers(iq, is_quote, f, o)
      BY <1>2, <2>1 DEF Covers
    <3> QED BY <2>1, <3>1, SubmittedAndApplied
  <2> HIDE DEF b, done
  <2> QED BY <1>4, <2>1, <2>2 DEF b
<1> QED BY <1>1, <1>3, <1>4

(* The risk policies, for any number of positions. *)
LEMMA RiskKeeps ==
  ASSUME NEW a, NEW t \in Nat, Ledger(a, <<>>, 0, t), NEW f \in Feature, NEW is_quote
  PROVE  LET b == evaluate_risk(a, t, f, is_quote) IN
         Ledger(b, <<>>, 0, t) /\ Proceeds(a, b, t, f, is_quote)
<1>1. a \in Account(Configs) /\ Timely(a, t) /\ t \in Int /\ IsFiniteSet(Open(a))
  BY OpenFinite DEF Ledger
<1>2. \E h : VisitsAtRisk(h, a, t, f, is_quote)
  BY <1>1, RiskStates
<1>3. PICK h : VisitsAtRisk(h, a, t, f, is_quote)
  BY <1>2
<1>4. /\ h[{}] = a /\ h[Open(a)] = evaluate_risk(a, t, f, is_quote)
      /\ \A T \in SUBSET Open(a) : T # {} => \E s \in T : h[T] = RiskExit(s, h[T \ {s}], t, f, is_quote)
  BY <1>3 DEF VisitsAtRisk
<1> DEFINE Good(b, T) ==
             /\ Ledger(b, <<>>, 0, t) /\ Proceeds(a, b, t, f, is_quote)
             /\ \A u \in Open(a) \ T : b.positions[u] = a.positions[u]
           G == {T \in SUBSET Open(a) : Good(h[T], T)}
<1>5. {} \in G
  BY <1>4, ProceedsHere
<1>6. ASSUME NEW T \in SUBSET Open(a), T # {}, \A s \in T : T \ {s} \in G
      PROVE  T \in G
  <2>1. PICK s \in T : h[T] = RiskExit(s, h[T \ {s}], t, f, is_quote)
    BY <1>4, <1>6
  <2> DEFINE b == h[T \ {s}]
             c == h[T]
  <2>2. Good(b, T \ {s})
    BY <1>6
  <2>3. c = RiskExit(s, b, t, f, is_quote)
    BY <2>1
  <2> HIDE DEF b, c
  <2>4. s \in Open(b)
    <3>1. s \in Open(a) \ (T \ {s})
      OBVIOUS
    <3>2. b.positions[s] = a.positions[s]
      BY <2>2, <3>1
    <3> QED BY <3>1, <3>2 DEF Open
  <2>5. /\ Ledger(c, <<>>, 0, t) /\ Proceeds(b, c, t, f, is_quote)
        /\ \A u \in Symbols \ {s} : c.positions[u] = b.positions[u]
    BY <2>2, <2>3, <2>4, RiskExitKeeps
  <2>6. Proceeds(a, c, t, f, is_quote)
    BY <2>2, <2>5, ProceedsOn
  <2>7. \A u \in Open(a) \ T : c.positions[u] = a.positions[u]
    <3>1. \A u \in Open(a) \ T : u \in Symbols \ {s} /\ u \in Open(a) \ (T \ {s})
      BY DEF Open
    <3> QED BY <2>2, <2>5, <3>1
  <2> QED BY <2>5, <2>6, <2>7 DEF c
<1>7. Open(a) \in G
  <2> HIDE DEF G
  <2> QED BY <1>1, <1>5, <1>6, SetInduction
<1> QED BY <1>4, <1>7

(* An entry keeps the ledger. *)
LEMMA EntryKeeps ==
  ASSUME NEW a, NEW t \in Nat, Ledger(a, <<>>, 0, t), NEW f \in Feature, NEW direction \in Directions,
         NEW is_quote, ~IsPending(a, f.sym), a.positions[f.sym] = Flat
  PROVE  LET b == submit_entry(a, f, direction, t, is_quote) IN
         Ledger(b, <<>>, 0, t) /\ Proceeds(a, b, t, f, is_quote)
<1> DEFINE o == entry_order(a, f, direction, t)
           done == submit_and_apply(a, o, t, f, is_quote)
<1>1. CASE MayEnter(a, f, direction)
  <2>1. MayIssue(a, o, t)
    <3>1. a \in Account(Configs)
      BY DEF Ledger
    <3> QED BY <1>1, <3>1, EntryOrder DEF MayIssue
  <2> HIDE DEF o
  <2>2. Ledger(done.a, <<>>, 0, t) /\ Proceeds(a, done.a, t, f, is_quote)
    BY <2>1, SubmittedAndApplied DEF Covers
  <2> HIDE DEF done
  <2>3. submit_entry(a, f, direction, t, is_quote) = done.a
    BY <1>1 DEF submit_entry, done, o
  <2> QED BY <2>2, <2>3
<1>2. CASE ~MayEnter(a, f, direction)
  <2>1. submit_entry(a, f, direction, t, is_quote) = a
    BY <1>2 DEF submit_entry
  <2> QED BY <2>1, ProceedsHere
<1> QED BY <1>1, <1>2

(* Whatever a candidate leads to keeps the ledger. *)
LEMMA CandidateKeeps ==
  ASSUME NEW a, NEW t \in Nat, Ledger(a, <<>>, 0, t), NEW action, NEW f \in Feature, NEW is_quote
  PROVE  LET b == consider_candidate(a, action, f, t, is_quote) IN
         Ledger(b, <<>>, 0, t) /\ Proceeds(a, b, t, f, is_quote)
<1> DEFINE desired == IF action = LONG THEN "long" ELSE "short"
           p == a.positions[f.sym]
           o == exit_order(a, f.sym, t)
           closing == submit_and_apply(a, o, t, f, is_quote)
           Keeps(b) == Ledger(b, <<>>, 0, t) /\ Proceeds(a, b, t, f, is_quote)
           b == consider_candidate(a, action, f, t, is_quote)
<1>1. desired \in Directions /\ f.sym \in Symbols
  BY DEF Directions, Feature
<1>2. Keeps(a)
  BY ProceedsHere
<1>3. CASE action = NONE \/ IsPending(a, f.sym) \/ (desired = "short" /\ ~a.cfg.enable_short)
  <2>1. b = a
    BY <1>3 DEF consider_candidate
  <2> HIDE DEF b
  <2> QED BY <1>2, <2>1 DEF b
<1>4. CASE ~(action = NONE \/ IsPending(a, f.sym) \/ (desired = "short" /\ ~a.cfg.enable_short))
  <2>0. ~IsPending(a, f.sym)
    BY <1>4
  <2>1. CASE p = Flat
    <3>1. b = submit_entry(a, f, desired, t, is_quote)
      BY <1>4, <2>1 DEF consider_candidate
    <3> HIDE DEF b, desired
    <3>2. Keeps(b)
      BY <1>1, <2>0, <2>1, <3>1, EntryKeeps
    <3> QED BY <3>2 DEF b
  <2>2. CASE p # Flat /\ (p.direction = desired \/ ~a.cfg.opposite_candidate_exit)
    <3>1. b = a
      BY <1>4, <2>2 DEF consider_candidate
    <3> HIDE DEF b
    <3> QED BY <1>2, <3>1 DEF b
  <2>3. CASE p # Flat /\ ~(p.direction = desired \/ ~a.cfg.opposite_candidate_exit)
    <3>1. MayIssue(a, o, t) /\ o.sym = f.sym
      <4> DEFINE none == <<>>
                 s == f.sym
      <4>1. Ledger(a, none, 0, t) /\ s \in Open(a) /\ ~IsPending(a, s)
        BY <1>1, <2>0, <2>3 DEF Open
      <4> HIDE DEF none, s
      <4>2. MayIssue(a, exit_order(a, s, t), t) /\ exit_order(a, s, t).sym = s
        BY <4>1, ExitMayIssue
      <4> QED BY <4>2 DEF s
    <3>2. b = IF a.cfg.reverse_same_event /\ closing.fills # <<>> /\ closing.a.positions[f.sym] = Flat
              THEN submit_entry(closing.a, f, desired, t, is_quote) ELSE closing.a
      BY <1>4, <2>3 DEF consider_candidate
    <3> HIDE DEF o
    <3>3. /\ Ledger(closing.a, <<>>, 0, t) /\ Proceeds(a, closing.a, t, f, is_quote)
          /\ closing.fills # <<>> => ~IsPending(closing.a, f.sym)
      BY <3>1, SubmittedAndApplied DEF Covers
    <3> HIDE DEF b, closing, desired
    <3>4. CASE b = closing.a
      <4>1. Keeps(b)
        BY <3>3, <3>4
      <4> QED BY <4>1 DEF b
    <3>5. CASE /\ closing.fills # <<>> /\ closing.a.positions[f.sym] = Flat
               /\ b = submit_entry(closing.a, f, desired, t, is_quote)
      <4>1. Ledger(b, <<>>, 0, t) /\ Proceeds(closing.a, b, t, f, is_quote)
        BY <1>1, <3>3, <3>5, EntryKeeps
      <4>2. Proceeds(a, b, t, f, is_quote)
        BY <3>3, <4>1, ProceedsOn
      <4> QED BY <4>1, <4>2 DEF b
    <3> QED BY <3>2, <3>4, <3>5
  <2> QED BY <2>1, <2>2, <2>3
<1> QED BY <1>3, <1>4

(* An accepted event, whatever its policies do, keeps the ledger; after a quote no *)
(* order waits that it could have filled. *)
LEMMA TradeKeeps ==
  ASSUME NEW a, now \in Nat, Ledger(a, <<>>, 0, now), NEW f \in Feature, NEW is_quote, NEW action
  PROVE  LET b == Trade(a, f, is_quote, action) IN
         /\ Ledger(b, <<>>, 0, now + 1) /\ Proceeds(a, b, now + 1, f, FALSE)
         /\ is_quote => Tried(b, now + 1, f)
<1> DEFINE t == now + 1
           quoted == IF is_quote THEN portfolio_on_quote(a, t, f) ELSE a
           guarded == evaluate_risk(quoted, t, f, is_quote)
           b == consider_candidate(guarded, action, f, t, is_quote)
           no == FALSE
<1>1. Ledger(a, <<>>, 0, t) /\ t \in Nat
  BY LaterLedger
<1>2. Trade(a, f, is_quote, action) = b
  BY DEF Trade
<1> HIDE DEF t, no
<1>3. /\ Ledger(quoted, <<>>, 0, t) /\ Proceeds(a, quoted, t, f, no)
      /\ is_quote => Tried(quoted, t, f)
  <2>1. CASE is_quote
    <3>1. quoted = portfolio_on_quote(a, t, f)
      BY <2>1
    <3> HIDE DEF quoted
    <3>2. /\ Ledger(quoted, <<>>, 0, t) /\ Tried(quoted, t, f)
          /\ quoted.cfg = a.cfg /\ quoted.unfilled_orders = a.unfilled_orders /\ Follows(a, quoted, t)
          /\ \A i \in DOMAIN quoted.pending : \E m \in DOMAIN a.pending : quoted.pending[i] = a.pending[m]
      BY <1>1, <3>1, QuoteApplied
    <3> QED BY <3>2 DEF Proceeds
  <2>2. CASE ~is_quote
    <3>1. quoted = a
      BY <2>2
    <3> HIDE DEF quoted
    <3> QED BY <1>1, <2>2, <3>1, ProceedsHere
  <2> QED BY <2>1, <2>2
<1> HIDE DEF quoted
<1>4. Ledger(guarded, <<>>, 0, t) /\ Proceeds(quoted, guarded, t, f, is_quote)
  BY <1>1, <1>3, RiskKeeps
<1> HIDE DEF guarded
<1>5. Ledger(b, <<>>, 0, t) /\ Proceeds(guarded, b, t, f, is_quote)
  BY <1>1, <1>4, CandidateKeeps
<1> HIDE DEF b
<1>6. Proceeds(quoted, b, t, f, is_quote)
  BY <1>4, <1>5, ProceedsOn
<1>7. Proceeds(quoted, b, t, f, no)
  BY <1>6 DEF Proceeds, NewOrder, no
<1>8. Proceeds(a, b, t, f, no)
  BY <1>3, <1>7, ProceedsOn
<1>9. is_quote => Tried(b, t, f)
  BY <1>3, <1>6 DEF Proceeds, NewOrder, Tried, MayStay
<1> QED BY <1>2, <1>5, <1>8, <1>9 DEF t, no

----------------------------------------------------------------------------
(* The end of a session *)

(* The exit of one position at the close: it is among the fills unless an order of *)
(* the symbol was pending or nobody stood on its side. *)
Asked(a, s, features, fills) ==
  \/ IsPending(a, s) \/ ~Fillable(Flattens(a, s), features[s])
  \/ \E j \in DOMAIN fills : fills[j].sym = s /\ fills[j].purpose = "exit"
(* Every fill of x is one of y. *)
Among(x, y) == \A j \in DOMAIN x : \E i \in DOMAIN y : y[i] = x[j]
HasQuote(s, features) == features[s] \in Feature /\ features[s].sym = s
Priced(a, s, features) == ~IsPending(a, s) => HasQuote(s, features)

(* An exit at the close keeps the ledger, its fill still to be applied. *)
LEMMA FlattenExitKeeps ==
  ASSUME NEW r, NEW t \in Nat, Ledger(r.a, r.fills, 0, t), NEW s \in Open(r.a), NEW features,
         Priced(r.a, s, features)
  PROVE  LET q == FlattenExit(s, r, t, features) IN
         /\ Ledger(q.a, q.fills, 0, t)
         /\ q.a.cfg = r.a.cfg /\ q.a.unfilled_orders = r.a.unfilled_orders /\ q.a.positions = r.a.positions
         /\ \A u \in Symbols \ {s} : q.a.pending_symbols[u] = r.a.pending_symbols[u]
         /\ Among(r.fills, q.fills) /\ Asked(r.a, s, features, q.fills)
<1> DEFINE a == r.a
           fills == r.fills
           f == features[s]
           yes == TRUE
           o == exit_order(a, s, t)
           done == submit_marked(a, o, t, f, yes, yes)
           all == fills \o done.fills
           q == FlattenExit(s, r, t, features)
<1>1. Ledger(a, fills, 0, t) /\ s \in Open(a)
  OBVIOUS
<1>2. q = IF IsPending(a, s) THEN r ELSE With(done.a, all)
  BY DEF FlattenExit
<1> HIDE DEF q
<1>3. CASE IsPending(a, s)
  <2>1. Asked(a, s, features, fills)
    BY <1>3 DEF Asked
  <2>2. Among(fills, fills)
    BY DEF Among
  <2>3. q = r
    BY <1>2, <1>3
  <2> QED BY <1>1, <2>1, <2>2, <2>3 DEF q
<1>4. CASE ~IsPending(a, s)
  <2>1. f \in Feature /\ f.sym = s
    BY <1>4 DEF Priced, HasQuote
  <2> HIDE DEF a, fills, f, yes
  <2>2. MayIssue(a, o, t) /\ o.sym = s /\ o.purpose = "exit" /\ o.side = Flattens(a, s)
    BY <1>1, <1>4, ExitMayIssue
  <2> HIDE DEF o
  <2>3. /\ Ledger(done.a, fills \o done.fills, 0, t)
        /\ done.a.cfg = a.cfg /\ done.a.unfilled_orders = a.unfilled_orders /\ done.a.positions = a.positions
        /\ \A u \in Symbols \ {o.sym} : done.a.pending_symbols[u] = a.pending_symbols[u]
        /\ \/ /\ done.a.pending = a.pending
              /\ \E fill \in Fill : done.fills = <<fill>> /\ fill.sym = o.sym /\ fill.purpose = o.purpose
           \/ /\ done.fills = <<>>
              /\ \E x \in Order :
                   /\ done.a.pending = Append(a.pending, x) /\ x.sym = o.sym /\ x.order_time = t
                   /\ x.side = o.side
                   /\ yes /\ (yes \/ x.eligible <= t) => f.sym # o.sym \/ ~Fillable(o.side, f)
    BY <1>1, <2>1, <2>2, OrderSubmitted
  <2> DEFINE made == done.fills
  <2> HIDE DEF done
  <2>4. CASE made = <<>> /\ ~Fillable(o.side, f)
    <3>1. fills \in Seq(Fill)
      BY <1>1 DEF Ledger
    <3>2. all = fills
      BY <2>4, <3>1
    <3>3. Asked(a, s, features, all)
      BY <2>2, <2>4 DEF Asked, f
    <3>4. q.a = done.a /\ q.fills = all
      BY <1>2, <1>4 DEF With
    <3> HIDE DEF all
    <3>5. Among(fills, all)
      BY <3>2 DEF Among
    <3> QED BY <2>2, <2>3, <3>2, <3>3, <3>4, <3>5 DEF all, a, fills, q
  <2>5. ASSUME NEW fill \in Fill, made = <<fill>>, fill.sym = o.sym, fill.purpose = o.purpose
        PROVE  /\ Asked(a, s, features, all)
               /\ Among(fills, all)
    <3>1. fills \in Seq(Fill)
      BY <1>1 DEF Ledger
    <3>2. all = Append(fills, fill)
      BY <2>5, <3>1
    <3> HIDE DEF all
    <3>3. /\ DOMAIN fills = 1 .. Len(fills) /\ DOMAIN all = 1 .. (Len(fills) + 1) /\ Len(fills) \in Nat
          /\ all[Len(fills) + 1] = fill /\ \A i \in 1 .. Len(fills) : all[i] = fills[i]
      BY <3>1, <3>2, Appended
    <3>4. Len(fills) + 1 \in DOMAIN all /\ \A i \in DOMAIN fills : i \in DOMAIN all /\ all[i] = fills[i]
      BY <3>3
    <3> QED BY <2>2, <2>5, <3>3, <3>4 DEF Asked, Among
  <2>6. (made = <<>> /\ ~Fillable(o.side, f))
        \/ \E fill \in Fill : made = <<fill>> /\ fill.sym = o.sym /\ fill.purpose = o.purpose
    BY <2>1, <2>2, <2>3 DEF yes
  <2>7. CASE \E fill \in Fill : made = <<fill>> /\ fill.sym = o.sym /\ fill.purpose = o.purpose
    <3>1. q.a = done.a /\ q.fills = all
      BY <1>2, <1>4 DEF With
    <3>2. Asked(a, s, features, all) /\ Among(fills, all)
      BY <2>5, <2>7
    <3>3. Ledger(done.a, all, 0, t)
      BY <2>3
    <3> HIDE DEF all
    <3> QED BY <2>2, <2>3, <3>1, <3>2, <3>3 DEF a, fills, q
  <2> QED BY <2>4, <2>6, <2>7
<1> QED BY <1>3, <1>4

(* flatten closes every position it asks to close and can. *)
LEMMA FlattenKeeps ==
  ASSUME NEW a, NEW t \in Nat, Ledger(a, <<>>, 0, t), NEW features,
         \A s \in Open(a) : Priced(a, s, features)
  PROVE  LET b == flatten(a, t, features) IN
         /\ Ledger(b, <<>>, 0, t) /\ b.cfg = a.cfg /\ b.unfilled_orders = a.unfilled_orders
         /\ \A s \in Open(a) :
              b.positions[s] = Flat \/ IsPending(a, s) \/ ~Fillable(Flattens(a, s), features[s])
<1>1. a \in Account(Configs) /\ Timely(a, t) /\ t \in Int /\ IsFiniteSet(Open(a))
  BY OpenFinite DEF Ledger
<1>2. \E h : VisitsAtClose(h, a, t, features)
  BY <1>1, FlattenStates
<1>3. PICK h : VisitsAtClose(h, a, t, features)
  BY <1>2
<1>4. /\ h[{}] = With(a, <<>>) /\ h[Open(a)] = EndOfDayExits(a, t, features)
      /\ \A T \in SUBSET Open(a) : T # {} => \E s \in T : h[T] = FlattenExit(s, h[T \ {s}], t, features)
  BY <1>3 DEF VisitsAtClose
<1> DEFINE Good(r, T) ==
             /\ Ledger(r.a, r.fills, 0, t)
             /\ r.a.cfg = a.cfg /\ r.a.unfilled_orders = a.unfilled_orders /\ r.a.positions = a.positions
             /\ \A u \in Open(a) \ T : r.a.pending_symbols[u] = a.pending_symbols[u]
             /\ \A u \in T : Asked(a, u, features, r.fills)
           G == {T \in SUBSET Open(a) : Good(h[T], T)}
<1>5. {} \in G
  <2>1. h[{}].a = a /\ h[{}].fills = <<>>
    BY <1>4 DEF With
  <2> DEFINE r == h[{}]
             none == <<>>
  <2>2. r.a = a /\ r.fills = none /\ Ledger(a, none, 0, t)
    BY <2>1
  <2> HIDE DEF r, none
  <2>3. Good(r, {})
    BY <2>2
  <2> QED BY <2>3 DEF r
<1>6. ASSUME NEW T \in SUBSET Open(a), T # {}, \A s \in T : T \ {s} \in G
      PROVE  T \in G
  <2>1. PICK s \in T : h[T] = FlattenExit(s, h[T \ {s}], t, features)
    BY <1>4, <1>6
  <2> DEFINE r == h[T \ {s}]
             q == h[T]
  <2>2. Good(r, T \ {s})
    BY <1>6
  <2>3. q = FlattenExit(s, r, t, features)
    BY <2>1
  <2> HIDE DEF r, q
  <2>4. s \in Open(r.a) /\ s \in Open(a) /\ s \in Symbols /\ r.a.pending_symbols[s] = a.pending_symbols[s]
        /\ r.a.positions[s] = a.positions[s]
    BY <2>2 DEF Open
  <2>5. Priced(r.a, s, features)
    BY <2>4 DEF IsPending, Priced
  <2>6. /\ Ledger(q.a, q.fills, 0, t)
        /\ q.a.cfg = r.a.cfg /\ q.a.unfilled_orders = r.a.unfilled_orders /\ q.a.positions = r.a.positions
        /\ \A u \in Symbols \ {s} : q.a.pending_symbols[u] = r.a.pending_symbols[u]
        /\ Among(r.fills, q.fills) /\ Asked(r.a, s, features, q.fills)
    <3>1. Ledger(r.a, r.fills, 0, t) /\ s \in Open(r.a)
      BY <2>2, <2>4
    <3> DEFINE x == FlattenExit(s, r, t, features)
    <3>2. /\ Ledger(x.a, x.fills, 0, t)
          /\ x.a.cfg = r.a.cfg /\ x.a.unfilled_orders = r.a.unfilled_orders /\ x.a.positions = r.a.positions
          /\ \A u \in Symbols \ {s} : x.a.pending_symbols[u] = r.a.pending_symbols[u]
          /\ Among(r.fills, x.fills) /\ Asked(r.a, s, features, x.fills)
      BY <2>5, <3>1, FlattenExitKeeps
    <3> HIDE DEF x
    <3>3. x = q
      BY <2>3 DEF x
    <3> QED BY <3>2, <3>3
  <2>7. \A u \in Open(a) \ T : q.a.pending_symbols[u] = a.pending_symbols[u]
    <3>1. \A u \in Open(a) \ T : u \in Symbols \ {s} /\ u \in Open(a) \ (T \ {s})
      BY DEF Open
    <3> QED BY <2>2, <2>6, <3>1
  <2>8. \A u \in T : Asked(a, u, features, q.fills)
    <3>1. Asked(a, s, features, q.fills)
      BY <2>4, <2>6 DEF Asked, IsPending, Flattens
    <3>2. \A u \in T \ {s} : Asked(a, u, features, q.fills)
      <4>1. \A u \in T \ {s} : Asked(a, u, features, r.fills)
        BY <2>2
      <4> QED BY <2>6, <4>1 DEF Asked, Among
    <3> QED BY <3>1, <3>2
  <2>9. Good(q, T)
    BY <2>2, <2>6, <2>7, <2>8
  <2> QED BY <2>9 DEF q
<1>7. Open(a) \in G
  <2> HIDE DEF G
  <2> QED BY <1>1, <1>5, <1>6, SetInduction
<1> DEFINE r == EndOfDayExits(a, t, features)
           b == apply_fills(r.a, r.fills)
<1>8. Good(r, Open(a))
  BY <1>4, <1>7
<1>9. flatten(a, t, features) = b
  BY DEF flatten
<1> HIDE DEF r
<1>10. /\ Ledger(b, <<>>, 0, t)
       /\ b.cfg = r.a.cfg /\ b.unfilled_orders = r.a.unfilled_orders
       /\ \A j \in DOMAIN r.fills : r.fills[j].purpose = "exit" => b.positions[r.fills[j].sym] = Flat
  BY <1>8, FillsApplied
<1> HIDE DEF b
<1>11. ASSUME NEW s \in Open(a)
       PROVE  b.positions[s] = Flat \/ IsPending(a, s) \/ ~Fillable(Flattens(a, s), features[s])
  BY <1>8, <1>10 DEF Asked
<1> QED BY <1>8, <1>9, <1>10, <1>11

(* The queue emptied: its orders are given up, nothing is pending. *)
LEMMA QueueEmptied ==
  ASSUME NEW a, NEW t \in Nat, Ledger(a, <<>>, 0, t)
  PROVE  LET b == ClearPending(flush(a)) IN
         /\ Ledger(b, <<>>, 0, t) /\ b.cfg = a.cfg /\ b.positions = a.positions /\ b.pending = <<>>
         /\ Len(b.unfilled_orders) = Len(a.unfilled_orders) + Len(a.pending)
<1> DEFINE p == a.pending
           u == a.unfilled_orders
           none == [s \in Symbols |-> 0]
           e == <<>>
           w == u \o p
           b == [a EXCEPT !.unfilled_orders = w, !.pending = e, !.pending_symbols = none]
<1>1. a \in Account(Configs) /\ p \in Seq(Order) /\ u \in Seq(Order)
  BY DEF Ledger, Account
<1>2. ClearPending(flush(a)) = b
  BY DEF ClearPending, flush
<1> HIDE DEF p, u
<1>3. w \in Seq(Order) /\ Len(w) = Len(u) + Len(p) /\ Len(u) \in Nat /\ Len(p) \in Nat
  BY <1>1
<1> HIDE DEF w
<1>4. e \in Seq(Order) /\ Len(e) = 0 /\ DOMAIN e = {} /\ e = <<>> /\ Unapplied(e, 0) = {}
  BY DEF Unapplied
<1>5. none \in [Symbols -> Nat] /\ \A s \in Symbols : none[s] = 0
  OBVIOUS
<1> HIDE DEF e, none
<1>6. /\ b.pending = e /\ b.cfg = a.cfg /\ b.cash = a.cash /\ b.positions = a.positions
      /\ b.pending_symbols = none /\ b.next_order_id = a.next_order_id
      /\ b.unfilled_orders = w /\ b.completed_trades = a.completed_trades
      /\ b.realized_pnl = a.realized_pnl /\ b \in Account(Configs)
  BY <1>1, <1>3, <1>4, <1>5 DEF Account
<1> HIDE DEF b
<1>7. Balanced(b) /\ Booked(b) = Booked(a) /\ Timely(b, t)
  BY <1>6, SameBooks DEF Ledger
<1>8. OneEach(b, e, 0) /\ Serving(b, e, 0)
  BY <1>4, <1>6 DEF OneEach, Serving
<1>9. Marked(b, e, 0)
  BY <1>4, <1>5, <1>6 DEF Marked, IsPending
<1>10. Counted(b, e, 0)
  <2>1. Waiting(b) = Waiting(a)
    <3>1. Waiting(a) = Len(p) + Len(u) /\ Waiting(b) = Len(e) + Len(w)
      BY <1>6 DEF Waiting, p, u
    <3> DEFINE lp == Len(p)
               lu == Len(u)
    <3>2. lp \in Nat /\ lu \in Nat /\ Len(w) = lu + lp /\ Len(e) = 0
      BY <1>3, <1>4
    <3>3. Waiting(a) = lp + lu /\ Waiting(b) = Len(e) + Len(w)
      BY <3>1
    <3> HIDE DEF lp, lu
    <3> QED BY <3>2, <3>3
  <2>2. Counted(a, e, 0)
    BY DEF Ledger, e
  <2> QED BY <1>6, <1>7, <2>1, <2>2 DEF Counted
<1>11. e \in Seq(Fill) /\ 0 \in 0 .. Len(e) /\ \A j \in DOMAIN e : e[j].time = t
  BY <1>4 DEF e
<1>12. Ledger(b, e, 0, t)
  BY <1>6, <1>7, <1>8, <1>9, <1>10, <1>11 DEF Ledger
<1> QED BY <1>2, <1>3, <1>4, <1>6, <1>12 DEF p, u

----------------------------------------------------------------------------
(* The invariant of the replay *)

FeaturesOwn == \A s \in Symbols : HasFeature(s) => last_features[s] \in Feature /\ last_features[s].sym = s

(* A presequenced loop that has caught up with the day has met only symbols of it. *)
SeenToday == session = day => seen_symbols \subseteq today

UnfilledCounted ==
  /\ driver # "engine" => unfilled_count = Len(account.unfilled_orders)
  /\ driver = "engine" => unfilled_count <= Len(account.unfilled_orders)

IInv ==
  /\ driver \in Drivers /\ book \in [Symbols -> Book]
  /\ last_features \in [Symbols -> Feature \cup {NoFeature}]
  /\ now \in Nat /\ day \in Nat /\ session \in Nat /\ unfilled_count \in Nat
  /\ seen_symbols \subseteq Symbols /\ today \subseteq Symbols /\ last_quote \in Symbols \cup {NoSymbol}
  /\ session <= day /\ (driver # "presequenced" => session = day)
  /\ status \in {"running", "finished", "crashed"}
  /\ Ledger(account, <<>>, 0, now) /\ FeaturesOwn /\ SeenToday /\ UnfilledCounted
  /\ EligibleOrdersFill

(* The feature of a book is a feature of its symbol. *)
LEMMA FeatureType ==
  ASSUME NEW s \in Symbols, NEW b \in Book
  PROVE  FeatureOf(s, b) \in Feature /\ FeatureOf(s, b).sym = s
  BY DEF FeatureOf, Feature, Book

(* A quote leaves a book a book. *)
LEMMA QuotedType ==
  ASSUME NEW b \in Book, NEW q \in Quotes
  PROVE  Quoted(b, q) \in Book
<1>1. q \in [side : {"bid", "ask"}, price : Nat, quantity : Nat]
  BY ReplayAssumption
<1> QED BY <1>1 DEF Quoted, Book

(* A new account is in balance. *)
LEMMA NewLedger ==
  ASSUME NEW cfg \in Configs
  PROVE  LET a == NewAccount(cfg) IN Ledger(a, <<>>, 0, 0) /\ a.unfilled_orders = <<>> /\ a.pending = <<>>
<1> DEFINE a == NewAccount(cfg)
           e == <<>>
<1>1. /\ a.cfg = cfg /\ a.cash = cfg.starting_cash /\ a.positions = [s \in Symbols |-> Flat]
      /\ a.pending_symbols = [s \in Symbols |-> 0] /\ a.completed_trades = 0 /\ a.realized_pnl = 0
      /\ a.next_order_id = 1 /\ a.pending = e /\ a.unfilled_orders = e
  BY DEF NewAccount
<1>2. e \in Seq(Order) /\ e \in Seq(Fill) /\ Len(e) = 0 /\ DOMAIN e = {} /\ Unapplied(e, 0) = {}
  BY DEF Unapplied
<1>3. cfg.starting_cash \in Nat
  BY ConfigsAreOK DEF PortfolioConfigOK
<1> HIDE DEF e
<1>4. a \in Account(Configs)
  BY <1>2, <1>3 DEF Account, NewAccount, e
<1> HIDE DEF a
<1>5. Open(a) = {} /\ Longs(a) = {}
  BY <1>1 DEF Open, Longs
<1>6. Costs(a) = 0 /\ Invested(a) = 0
  <2> DEFINE fc == [s \in Open(a) |-> a.positions[s].entry_costs]
             fl == [s \in Longs(a) |-> a.positions[s].entry_price * a.positions[s].quantity]
  <2>1. DOMAIN fc = {} /\ DOMAIN fl = {}
    BY <1>5
  <2>2. Costs(a) = SumFunction(fc) /\ Invested(a) = SumFunction(fl)
    BY DEF Costs, Invested, SumOver
  <2> HIDE DEF fc, fl
  <2> QED BY <2>1, <2>2, SumEmpty
<1>7. Balanced(a)
  BY <1>1, <1>3, <1>6 DEF Balanced
<1>8. Counted(a, e, 0)
  <2>1. Waiting(a) = 0
    <3>1. Waiting(a) = Len(e) + Len(e)
      BY <1>1 DEF Waiting
    <3> QED BY <1>2, <3>1
  <2>2. Booked(a) = 0
    <3>1. Cardinality(Open(a)) = 0
      BY <1>5, FS_EmptySet
    <3> QED BY <1>1, <3>1 DEF Booked
  <2>3. a.next_order_id = 1 /\ Len(e) = 0
    BY <1>1, <1>2
  <2> QED BY <2>1, <2>2, <2>3 DEF Counted
<1>9. OneEach(a, e, 0) /\ Serving(a, e, 0)
  BY <1>1, <1>2 DEF OneEach, Serving
<1>10. Marked(a, e, 0)
  BY <1>1, <1>2 DEF Marked, IsPending
<1>11. Timely(a, 0) /\ 0 \in 0 .. Len(e) /\ \A j \in DOMAIN e : e[j].time = 0
  BY <1>2, <1>5 DEF Timely
<1>12. Ledger(a, e, 0, 0)
  BY <1>2, <1>4, <1>7, <1>8, <1>9, <1>10, <1>11 DEF Ledger
<1> QED BY <1>1, <1>12 DEF a, e

(* A replay starts with the invariant. *)
LEMMA InitEstablishes == Init => IInv
<1> SUFFICES ASSUME Init PROVE IInv
  OBVIOUS
<1>1. PICK cfg \in Configs : account = NewAccount(cfg)
  BY DEF Init
<1>2. Ledger(account, <<>>, 0, now) /\ account.unfilled_orders = <<>> /\ account.pending = <<>>
  <2>1. now = 0
    BY DEF Init
  <2> QED BY <1>1, <2>1, NewLedger
<1>3. UnfilledCounted
  <2>1. Len(account.unfilled_orders) = 0 /\ unfilled_count = 0
    BY <1>2 DEF Init
  <2> QED BY <2>1 DEF UnfilledCounted
<1>4. EligibleOrdersFill
  <2>1. DOMAIN account.pending = {}
    BY <1>2
  <2> QED BY <2>1 DEF EligibleOrdersFill
<1>5. book \in [Symbols -> Book]
  BY DEF Init, Book, EmptyBook
<1>6. FeaturesOwn /\ last_features \in [Symbols -> Feature \cup {NoFeature}]
  BY DEF Init, NoFeatures, FeaturesOwn, HasFeature
<1>7. SeenToday
  BY DEF Init, SeenToday
<1> QED BY <1>2, <1>3, <1>4, <1>5, <1>6, <1>7 DEF IInv, Init

(* At a boundary, and at the end, the account is flattened and the queue emptied. *)
LEMMA CloseKeeps ==
  ASSUME IInv, ~Crashes
  PROVE  /\ Ledger(Closed, <<>>, 0, now) /\ Closed.cfg = account.cfg /\ Closed.pending = <<>>
         /\ Flattened.pending \in Seq(Order)
         /\ Len(Closed.unfilled_orders) = Len(account.unfilled_orders) + Len(Flattened.pending)
         /\ \A s \in Open(account) :
              AnyFeature /\ account.cfg.end_of_day_flatten =>
                \/ Closed.positions[s] = Flat \/ IsPending(account, s)
                \/ ~Fillable(Flattens(account, s), last_features[s])
<1>1. Ledger(account, <<>>, 0, now) /\ now \in Nat /\ FeaturesOwn
  BY DEF IInv
<1> DEFINE a == account
           b == Flattened
<1>2. /\ Ledger(b, <<>>, 0, now) /\ b.cfg = a.cfg /\ b.unfilled_orders = a.unfilled_orders
      /\ \A s \in Open(a) :
           AnyFeature /\ a.cfg.end_of_day_flatten =>
             b.positions[s] = Flat \/ IsPending(a, s) \/ ~Fillable(Flattens(a, s), last_features[s])
  <2>1. CASE AnyFeature /\ a.cfg.end_of_day_flatten
    <3>1. b = flatten(a, now, last_features)
      BY <2>1 DEF Flattened
    <3>2. \A s \in Open(a) : Priced(a, s, last_features)
      BY <1>1, <2>1 DEF Crashes, ToFlatten, Priced, HasQuote, FeaturesOwn, Open
    <3> HIDE DEF b
    <3>3. /\ Ledger(b, <<>>, 0, now) /\ b.cfg = a.cfg /\ b.unfilled_orders = a.unfilled_orders
          /\ \A s \in Open(a) :
               b.positions[s] = Flat \/ IsPending(a, s) \/ ~Fillable(Flattens(a, s), last_features[s])
      BY <1>1, <3>1, <3>2, FlattenKeeps
    <3> QED BY <3>3
  <2>2. CASE ~(AnyFeature /\ a.cfg.end_of_day_flatten)
    <3>1. b = a
      BY <2>2 DEF Flattened
    <3> HIDE DEF b
    <3> QED BY <1>1, <2>2, <3>1
  <2> QED BY <2>1, <2>2
<1>3. Closed = ClearPending(flush(b))
  BY DEF Closed
<1> HIDE DEF b
<1>4. /\ Ledger(Closed, <<>>, 0, now) /\ Closed.cfg = b.cfg /\ Closed.positions = b.positions
      /\ Closed.pending = <<>>
      /\ Len(Closed.unfilled_orders) = Len(b.unfilled_orders) + Len(b.pending)
  BY <1>1, <1>2, <1>3, QueueEmptied
<1>5. b.pending \in Seq(Order)
  BY <1>2 DEF Ledger, Account
<1> QED BY <1>2, <1>4, <1>5 DEF b

(* What the boundary leaves to the event proper. *)
LEMMA BoundaryKeeps ==
  ASSUME IInv, NEW s \in Symbols, NEW d \in day .. MaxDay, CrossBoundary(s, d)
  PROVE  /\ Ledger(AccountAt(s, d), <<>>, 0, now) /\ BookAt(s, d) \in [Symbols -> Book]
         /\ FeaturesAt(s, d) \in [Symbols -> Feature \cup {NoFeature}]
         /\ \A u \in Symbols : FeaturesAt(s, d)[u] # NoFeature =>
              FeaturesAt(s, d)[u] \in Feature /\ FeaturesAt(s, d)[u].sym = u
         /\ now' = now + 1 /\ now' \in Nat /\ driver' = driver /\ status' = "running"
         /\ day' \in Nat /\ session' \in Nat /\ session' <= day'
         /\ (driver' # "presequenced" => session' = day')
         /\ seen_symbols' \subseteq Symbols /\ today' \subseteq Symbols /\ SeenToday'
         /\ unfilled_count' \in Nat
         /\ driver' # "engine" => unfilled_count' = Len(AccountAt(s, d).unfilled_orders)
         /\ driver' = "engine" => unfilled_count' <= Len(AccountAt(s, d).unfilled_orders)
         /\ session' # session => AccountAt(s, d).pending = <<>>
<1>1. /\ now \in Nat /\ day \in Nat /\ session \in Nat /\ unfilled_count \in Nat /\ driver \in Drivers
      /\ seen_symbols \subseteq Symbols /\ today \subseteq Symbols /\ session <= day
      /\ (driver # "presequenced" => session = day) /\ SeenToday /\ UnfilledCounted
      /\ Ledger(account, <<>>, 0, now) /\ FeaturesOwn
      /\ book \in [Symbols -> Book] /\ last_features \in [Symbols -> Feature \cup {NoFeature}]
  BY DEF IInv
<1>2. d \in Nat /\ d >= day
  BY <1>1, ReplayAssumption
<1>3. /\ now' = now + 1 /\ now' \in Nat /\ driver' = driver /\ status' = "running"
      /\ day' = d /\ session' = SessionOf(s, d)
      /\ today' = (IF d # day THEN {} ELSE today) \cup {s}
      /\ seen_symbols' = (IF Boundary(s, d) THEN {} ELSE seen_symbols) \cup {s}
      /\ unfilled_count' = IF Boundary(s, d) THEN Unfilled ELSE unfilled_count
      /\ Boundary(s, d) => ~Crashes
      /\ Boundary(s, d) <=> session' # session
  BY <1>1 DEF CrossBoundary, Boundary
<1>4. seen_symbols' \subseteq Symbols /\ today' \subseteq Symbols
  BY <1>1, <1>3
<1>5. session' \in Nat /\ session' <= day' /\ (driver' # "presequenced" => session' = day')
  <2>1. CASE driver # "presequenced"
    BY <1>1, <1>2, <1>3, <2>1 DEF SessionOf
  <2>2. CASE driver = "presequenced" /\ s \in seen_symbols /\ (d # day \/ s \notin today)
    <3>1. session' = session + 1
      BY <1>3, <2>2 DEF SessionOf
    <3>2. session < d
      BY <1>1, <1>2, <2>2 DEF SeenToday
    <3> QED BY <1>1, <1>2, <1>3, <2>2, <3>1, <3>2
  <2>3. CASE driver = "presequenced" /\ ~(s \in seen_symbols /\ (d # day \/ s \notin today))
    <3>1. session' = session
      BY <1>3, <2>3 DEF SessionOf
    <3> QED BY <1>1, <1>2, <1>3, <2>3, <3>1
  <2> QED BY <2>1, <2>2, <2>3
<1>6. SeenToday'
  <2> SUFFICES ASSUME session' = day' PROVE seen_symbols' \subseteq today'
    BY DEF SeenToday
  <2>1. CASE session' # session
    BY <1>3, <2>1
  <2>2. CASE session' = session
    <3>1. d = day /\ session = day
      BY <1>1, <1>2, <1>3, <2>2
    <3> QED BY <1>1, <1>3, <2>2, <3>1 DEF SeenToday
  <2> QED BY <2>1, <2>2
<1>7. /\ BookAt(s, d) \in [Symbols -> Book]
      /\ FeaturesAt(s, d) \in [Symbols -> Feature \cup {NoFeature}]
      /\ \A u \in Symbols : FeaturesAt(s, d)[u] # NoFeature =>
           FeaturesAt(s, d)[u] \in Feature /\ FeaturesAt(s, d)[u].sym = u
  <2>1. BookAt(s, d) \in [Symbols -> Book]
    <3>1. EmptyBook \in Book
      BY DEF EmptyBook, Book
    <3> QED BY <1>1, <3>1 DEF BookAt
  <2>2. FeaturesAt(s, d) = NoFeatures \/ FeaturesAt(s, d) = last_features
    BY DEF FeaturesAt
  <2>3. NoFeatures \in [Symbols -> Feature \cup {NoFeature}] /\ \A u \in Symbols : NoFeatures[u] = NoFeature
    BY DEF NoFeatures
  <2> QED BY <1>1, <2>1, <2>2, <2>3 DEF FeaturesOwn, HasFeature
<1>8. /\ Ledger(AccountAt(s, d), <<>>, 0, now) /\ unfilled_count' \in Nat
      /\ driver # "engine" => unfilled_count' = Len(AccountAt(s, d).unfilled_orders)
      /\ driver = "engine" => unfilled_count' <= Len(AccountAt(s, d).unfilled_orders)
      /\ session' # session => AccountAt(s, d).pending = <<>>
  <2>1. CASE Boundary(s, d)
    <3>1. AccountAt(s, d) = Closed
      BY <2>1 DEF AccountAt
    <3>2. /\ Ledger(Closed, <<>>, 0, now) /\ Closed.pending = <<>> /\ Flattened.pending \in Seq(Order)
          /\ Len(Closed.unfilled_orders) = Len(account.unfilled_orders) + Len(Flattened.pending)
      BY <1>3, <2>1, CloseKeeps
    <3> DEFINE p == Flattened.pending
               u == account.unfilled_orders
               lc == Len(Closed.unfilled_orders)
               lp == Len(p)
               lu == Len(u)
    <3>3. p \in Seq(Order) /\ u \in Seq(Order)
      BY <1>1, <3>2 DEF Ledger, Account
    <3>4. lp \in Nat /\ lu \in Nat /\ lc = lu + lp
      <4>1. lc = lu + lp
        BY <3>2
      <4> HIDE DEF p, u
      <4>2. lp \in Nat /\ lu \in Nat
        BY <3>3
      <4> QED BY <4>1, <4>2
    <3>5. (driver # "engine" => unfilled_count = lu) /\ (driver = "engine" => unfilled_count <= lu)
      BY <1>1 DEF UnfilledCounted
    <3>6. unfilled_count' = IF driver = "engine" THEN lp ELSE unfilled_count + lp
      BY <1>3, <2>1 DEF Unfilled
    <3> HIDE DEF lp, lu, p, u, lc
    <3>7. /\ unfilled_count' \in Nat /\ (driver # "engine" => unfilled_count' = lc)
          /\ (driver = "engine" => unfilled_count' <= lc)
      BY <1>1, <3>4, <3>5, <3>6
    <3> QED BY <3>1, <3>2, <3>7 DEF lc
  <2>2. CASE ~Boundary(s, d)
    <3>1. AccountAt(s, d) = account /\ unfilled_count' = unfilled_count /\ session' = session
      BY <1>3, <2>2 DEF AccountAt
    <3> QED BY <1>1, <3>1 DEF UnfilledCounted
  <2> QED BY <2>1, <2>2
<1> QED BY <1>3, <1>4, <1>5, <1>6, <1>7, <1>8

(* An accepted event: the new account follows from the one at the boundary. *)
LEMMA AcceptedKeeps ==
  ASSUME IInv, NEW s \in Symbols, NEW d \in day .. MaxDay, CrossBoundary(s, d),
         NEW b \in Book, NEW is_quote \in BOOLEAN, NEW action, Accepted(s, d, b, is_quote, action)
  PROVE  /\ IInv'
         /\ \E f : Proceeds(AccountAt(s, d), account', now', f, FALSE)
<1> DEFINE f == FeatureOf(s, b)
           a == AccountAt(s, d)
           no == FALSE
<1>1. /\ Ledger(a, <<>>, 0, now) /\ BookAt(s, d) \in [Symbols -> Book]
      /\ FeaturesAt(s, d) \in [Symbols -> Feature \cup {NoFeature}]
      /\ \A u \in Symbols : FeaturesAt(s, d)[u] # NoFeature =>
           FeaturesAt(s, d)[u] \in Feature /\ FeaturesAt(s, d)[u].sym = u
      /\ now' = now + 1 /\ now' \in Nat /\ driver' = driver /\ status' = "running"
      /\ day' \in Nat /\ session' \in Nat /\ session' <= day'
      /\ (driver' # "presequenced" => session' = day')
      /\ seen_symbols' \subseteq Symbols /\ today' \subseteq Symbols /\ SeenToday'
      /\ unfilled_count' \in Nat
      /\ driver' # "engine" => unfilled_count' = Len(a.unfilled_orders)
      /\ driver' = "engine" => unfilled_count' <= Len(a.unfilled_orders)
  BY BoundaryKeeps
<1>2. f \in Feature /\ f.sym = s
  BY FeatureType
<1>3. /\ account' = Trade(a, f, is_quote, action)
      /\ book' = [BookAt(s, d) EXCEPT ![s] = b]
      /\ last_features' = [FeaturesAt(s, d) EXCEPT ![s] = f]
      /\ last_quote' = IF is_quote THEN s ELSE NoSymbol
  BY DEF Accepted
<1>4. now \in Nat /\ driver \in Drivers
  BY DEF IInv
<1> HIDE DEF a, f, no
<1>5. /\ Ledger(account', <<>>, 0, now + 1) /\ Proceeds(a, account', now + 1, f, FALSE)
      /\ is_quote => Tried(account', now + 1, f)
  BY <1>1, <1>2, <1>3, <1>4, TradeKeeps
<1>6. book' \in [Symbols -> Book] /\ book'[s] = b
  BY <1>1, <1>3
<1>7. last_features' \in [Symbols -> Feature \cup {NoFeature}] /\ FeaturesOwn'
  <2>1. last_features' \in [Symbols -> Feature \cup {NoFeature}]
    BY <1>1, <1>2, <1>3
  <2>2. \A u \in Symbols : last_features'[u] # NoFeature =>
          last_features'[u] \in Feature /\ last_features'[u].sym = u
    BY <1>1, <1>2, <1>3
  <2> QED BY <2>1, <2>2 DEF FeaturesOwn, HasFeature
<1>8. UnfilledCounted'
  BY <1>1, <1>5 DEF UnfilledCounted, Proceeds
<1>9. EligibleOrdersFill'
  <2> DEFINE p == account'.pending
  <2> SUFFICES ASSUME NEW i \in DOMAIN p, last_quote' = p[i].sym, p[i].eligible <= now'
               PROVE  ~Fillable(p[i].side, FeatureOf(p[i].sym, book'[p[i].sym]))
    BY DEF EligibleOrdersFill
  <2>1. p[i] \in Order
    <3>1. p \in Seq(Order)
      BY <1>5 DEF Ledger, Account
    <3> HIDE DEF p
    <3> QED BY <3>1
  <2>2. p[i].sym # NoSymbol
    BY <2>1, ReplayAssumption DEF Order
  <2>3. is_quote /\ p[i].sym = s
    BY <1>3, <2>2
  <2>4. MayStay(p[i], now + 1, f)
    BY <1>5, <2>3 DEF Tried
  <2>5. FeatureOf(p[i].sym, book'[p[i].sym]) = f
    BY <1>6, <2>3 DEF f
  <2>6. Due(p[i], now + 1, f)
    BY <1>1, <1>2, <2>3 DEF Due
  <2> QED BY <2>4, <2>5, <2>6 DEF MayStay
<1>10. last_quote' \in Symbols \cup {NoSymbol}
  BY <1>3
<1>11. Ledger(account', <<>>, 0, now')
  BY <1>1, <1>5
<1>12. IInv'
  BY <1>1, <1>4, <1>6, <1>7, <1>8, <1>9, <1>10, <1>11 DEF IInv
<1>13. Proceeds(a, account', now', f, FALSE)
  BY <1>1, <1>5
<1> QED BY <1>12, <1>13 DEF a

(* A rejected event keeps the invariant. *)
LEMMA RejectedKeeps ==
  ASSUME IInv, NEW s \in Symbols, NEW d \in day .. MaxDay, RejectedEvent(s, d)
  PROVE  IInv'
<1>1. CrossBoundary(s, d)
  BY DEF RejectedEvent
<1>2. /\ Ledger(AccountAt(s, d), <<>>, 0, now) /\ BookAt(s, d) \in [Symbols -> Book]
      /\ FeaturesAt(s, d) \in [Symbols -> Feature \cup {NoFeature}]
      /\ \A u \in Symbols : FeaturesAt(s, d)[u] # NoFeature =>
           FeaturesAt(s, d)[u] \in Feature /\ FeaturesAt(s, d)[u].sym = u
      /\ now' = now + 1 /\ now' \in Nat /\ driver' = driver /\ status' = "running"
      /\ day' \in Nat /\ session' \in Nat /\ session' <= day'
      /\ (driver' # "presequenced" => session' = day')
      /\ seen_symbols' \subseteq Symbols /\ today' \subseteq Symbols /\ SeenToday'
      /\ unfilled_count' \in Nat
      /\ driver' # "engine" => unfilled_count' = Len(AccountAt(s, d).unfilled_orders)
      /\ driver' = "engine" => unfilled_count' <= Len(AccountAt(s, d).unfilled_orders)
  BY <1>1, BoundaryKeeps
<1>3. /\ account' = AccountAt(s, d) /\ book' = BookAt(s, d) /\ last_features' = FeaturesAt(s, d)
      /\ last_quote' = NoSymbol
  BY DEF RejectedEvent
<1>4. now \in Nat /\ driver \in Drivers
  BY DEF IInv
<1>5. Ledger(account', <<>>, 0, now')
  <2>1. Ledger(AccountAt(s, d), <<>>, 0, now + 1)
    BY <1>2, <1>4, LaterLedger
  <2> QED BY <1>2, <1>3, <2>1
<1>6. EligibleOrdersFill'
  <2>1. account'.pending \in Seq(Order)
    BY <1>5 DEF Ledger, Account
  <2>2. \A i \in DOMAIN account'.pending : account'.pending[i] \in Order
    BY <2>1
  <2>3. \A i \in DOMAIN account'.pending : account'.pending[i].sym # NoSymbol
    BY <2>2, ReplayAssumption DEF Order
  <2> QED BY <1>3, <2>3 DEF EligibleOrdersFill
<1>7. FeaturesOwn'
  BY <1>2, <1>3 DEF FeaturesOwn, HasFeature
<1>8. UnfilledCounted'
  BY <1>2, <1>3 DEF UnfilledCounted
<1> QED BY <1>2, <1>3, <1>4, <1>5, <1>6, <1>7, <1>8 DEF IInv

(* The end of the replay keeps the invariant. *)
LEMMA EndKeeps ==
  ASSUME IInv, EndOfReplay
  PROVE  IInv'
<1>1. /\ ~Crashes /\ account' = Closed /\ unfilled_count' = Unfilled /\ status' = "finished"
      /\ UNCHANGED <<driver, book, last_features, now, day, session, seen_symbols, today, last_quote>>
  BY DEF EndOfReplay, loop
<1>2. /\ Ledger(Closed, <<>>, 0, now) /\ Closed.pending = <<>> /\ Flattened.pending \in Seq(Order)
      /\ Len(Closed.unfilled_orders) = Len(account.unfilled_orders) + Len(Flattened.pending)
  BY <1>1, CloseKeeps
<1>3. Ledger(account, <<>>, 0, now) /\ unfilled_count \in Nat /\ UnfilledCounted
  BY DEF IInv
<1>4. UnfilledCounted' /\ unfilled_count' \in Nat
  <2> DEFINE p == Flattened.pending
             u == account.unfilled_orders
             lc == Len(Closed.unfilled_orders)
             lp == Len(p)
             lu == Len(u)
  <2>1. p \in Seq(Order) /\ u \in Seq(Order)
    BY <1>2, <1>3 DEF Ledger, Account
  <2>2. lp \in Nat /\ lu \in Nat /\ lc = lu + lp
    <3>1. lc = lu + lp
      BY <1>2
    <3> HIDE DEF p, u
    <3>2. lp \in Nat /\ lu \in Nat
      BY <2>1
    <3> QED BY <3>1, <3>2
  <2>3. (driver # "engine" => unfilled_count = lu) /\ (driver = "engine" => unfilled_count <= lu)
    BY <1>3 DEF UnfilledCounted
  <2>4. unfilled_count' = IF driver = "engine" THEN lp ELSE unfilled_count + lp
    BY <1>1 DEF Unfilled
  <2> HIDE DEF lp, lu, p, u
  <2>5. /\ unfilled_count' \in Nat /\ (driver # "engine" => unfilled_count' = lc)
        /\ (driver = "engine" => unfilled_count' <= lc)
    BY <1>3, <2>2, <2>3, <2>4
  <2> QED BY <1>1, <2>5 DEF UnfilledCounted
<1>5. EligibleOrdersFill'
  <2>1. DOMAIN account'.pending = {}
    BY <1>1, <1>2
  <2> QED BY <2>1 DEF EligibleOrdersFill
<1>6. FeaturesOwn' /\ SeenToday'
  BY <1>1 DEF IInv, FeaturesOwn, HasFeature, SeenToday
<1>7. Ledger(account', <<>>, 0, now')
  BY <1>1, <1>2
<1> QED BY <1>1, <1>4, <1>5, <1>6, <1>7 DEF IInv

(* What changes the status only keeps the invariant. *)
LEMMA UnchangedKeeps ==
  ASSUME IInv, UNCHANGED <<driver, account, book, last_features, now, loop, last_quote, unfilled_count>>,
         status' \in {"running", "finished", "crashed"}
  PROVE  IInv'
<1>1. /\ EligibleOrdersFill' /\ FeaturesOwn' /\ SeenToday' /\ UnfilledCounted'
  BY DEF IInv, EligibleOrdersFill, FeaturesOwn, HasFeature, SeenToday, UnfilledCounted, loop
<1>2. Ledger(account', <<>>, 0, now')
  BY DEF IInv
<1> QED BY <1>1, <1>2 DEF IInv, loop

(* A quote keeps the invariant. *)
LEMMA QuoteEventKeeps ==
  ASSUME IInv, NEW s \in Symbols, NEW d \in day .. MaxDay, QuoteEvent(s, d)
  PROVE  /\ IInv' /\ CrossBoundary(s, d)
         /\ \E f : Proceeds(AccountAt(s, d), account', now', f, FALSE)
<1> DEFINE yes == TRUE
<1>1. yes \in BOOLEAN
  OBVIOUS
<1>2. PICK q \in Quotes, action \in {NONE, LONG, SHORT} :
        Accepted(s, d, Quoted(BookAt(s, d)[s], q), yes, action)
  BY DEF QuoteEvent
<1> HIDE DEF yes
<1>3. CrossBoundary(s, d)
  BY DEF QuoteEvent
<1>4. Quoted(BookAt(s, d)[s], q) \in Book
  <2>1. BookAt(s, d)[s] \in Book
    BY <1>3, BoundaryKeeps
  <2> QED BY <2>1, QuotedType
<1> QED BY <1>1, <1>2, <1>3, <1>4, AcceptedKeeps

(* A trade keeps the invariant. *)
LEMMA TradeEventKeeps ==
  ASSUME IInv, NEW s \in Symbols, NEW d \in day .. MaxDay, TradeEvent(s, d)
  PROVE  /\ IInv' /\ CrossBoundary(s, d)
         /\ \E f : Proceeds(AccountAt(s, d), account', now', f, FALSE)
<1> DEFINE no == FALSE
<1>1. no \in BOOLEAN
  OBVIOUS
<1>2. PICK action \in {NONE, LONG, SHORT} : Accepted(s, d, BookAt(s, d)[s], no, action)
  BY DEF TradeEvent
<1> HIDE DEF no
<1>3. CrossBoundary(s, d)
  BY DEF TradeEvent
<1>4. BookAt(s, d)[s] \in Book
  BY <1>3, BoundaryKeeps
<1> QED BY <1>1, <1>2, <1>3, <1>4, AcceptedKeeps

(* Every step keeps the invariant. *)
LEMMA NextKeeps == IInv /\ [Next]_vars => IInv'
<1> SUFFICES ASSUME IInv, [Next]_vars PROVE IInv'
  OBVIOUS
<1>1. ASSUME NEW s \in Symbols, NEW d \in day .. MaxDay, QuoteEvent(s, d) PROVE IInv'
  BY <1>1, QuoteEventKeeps
<1>2. ASSUME NEW s \in Symbols, NEW d \in day .. MaxDay, TradeEvent(s, d) PROVE IInv'
  BY <1>2, TradeEventKeeps
<1>3. ASSUME NEW s \in Symbols, NEW d \in day .. MaxDay, RejectedEvent(s, d) PROVE IInv'
  BY <1>3, RejectedKeeps
<1>4. CASE EndOfReplay
  BY <1>4, EndKeeps
<1>5. CASE Crash
  BY <1>5, UnchangedKeeps DEF Crash
<1>6. CASE UNCHANGED vars
  <2>1. status' \in {"running", "finished", "crashed"}
    BY <1>6 DEF IInv, vars
  <2> QED BY <1>6, <2>1, UnchangedKeeps DEF vars
<1> QED BY <1>1, <1>2, <1>3, <1>4, <1>5, <1>6 DEF Next

(* The invariant holds throughout every replay. *)
LEMMA Invariance == Spec => []IInv
<1> QED BY InitEstablishes, NextKeeps, PTL DEF Spec

----------------------------------------------------------------------------
(* The properties of the runs *)

(* Unrealised gains are an integer. *)
LEMMA UnrealizedType ==
  ASSUME NEW a \in Account(Configs), NEW f \in Feature
  PROVE  Unrealized(a, f) \in Int
<1> DEFINE p(s) == a.positions[s]
           touch(s) == IF p(s).direction = "long" THEN f.bid ELSE f.ask
           mark(s) == IF f.sym = s /\ touch(s) > 0 THEN touch(s) ELSE p(s).entry_price
           gain(s) == (IF p(s).direction = "long" THEN mark(s) - p(s).entry_price
                       ELSE p(s).entry_price - mark(s)) * p(s).quantity
           g == [s \in Open(a) |-> gain(s)]
<1>1. ASSUME NEW s \in Open(a) PROVE gain(s) \in Int
  <2>1. p(s).entry_price \in Int /\ p(s).quantity \in Int
    <3>1. p(s) \in Position
      BY OpenIsPosition
    <3> QED BY <3>1 DEF Position
  <2>2. mark(s) \in Int
    BY <2>1 DEF Feature
  <2> DEFINE m == mark(s)
             e == p(s).entry_price
             q == p(s).quantity
  <2>3. m \in Int /\ e \in Int /\ q \in Int
    BY <2>1, <2>2
  <2> HIDE DEF m, e, q
  <2>4. (IF p(s).direction = "long" THEN m - e ELSE e - m) * q \in Int
    BY <2>3
  <2> QED BY <2>4 DEF m, e, q
<1>2. Unrealized(a, f) = SumFunction(g)
  BY DEF Unrealized, SumOver
<1>3. g \in [Open(a) -> Int]
  <2> HIDE DEF gain
  <2> QED BY <1>1
<1> HIDE DEF g
<1> QED BY <1>2, <1>3, OpenFinite, SumType

(* An account that balances is marked at its worth. *)
LEMMA MarkedEquity ==
  ASSUME NEW a \in Account(Configs), NEW f \in Feature, Balanced(a)
  PROVE  mark_to_market(a, f) = a.cfg.starting_cash + a.realized_pnl - Costs(a) + Unrealized(a, f)
<1>1. mark_to_market(a, f) = a.cash + Unrealized(a, f) + Invested(a)
  BY DEF mark_to_market, Invested, Longs
<1>2. a.cash = a.cfg.starting_cash + a.realized_pnl - Costs(a) - Invested(a)
  BY DEF Balanced
<1>3. Unrealized(a, f) \in Int /\ Costs(a) \in Int /\ Invested(a) \in Int
  BY UnrealizedType, LedgerSums
<1>4. a.cfg.starting_cash \in Int /\ a.realized_pnl \in Int
  BY ConfigsAreOK DEF Account, PortfolioConfigOK
<1> QED BY <1>1, <1>2, <1>3, <1>4

(* Every variable of the replay keeps its shape, whatever the symbols, quotes and   *)
(* settings: in particular prices and quantities of positions stay positive.       *)
THEOREM TypeCorrect == Spec => []TypeOK
<1>1. IInv => TypeOK
  <2> SUFFICES ASSUME IInv PROVE TypeOK
    OBVIOUS
  <2>1. Ledger(account, <<>>, 0, now)
    BY DEF IInv
  <2>2. account \in Account(Configs) /\ \A s \in Open(account) : account.positions[s].entry_time <= now
    BY <2>1 DEF Ledger, Timely
  <2>3. \A i \in DOMAIN account.pending : account.pending[i].id < account.next_order_id
    BY <2>1 DEF Ledger, Marked
  <2> QED BY <2>2, <2>3 DEF IInv, TypeOK
<1> QED BY <1>1, Invariance, PTL

(* What the portfolio believes to be pending is what the execution simulator holds, *)
(* so apply_fill never meets a fill it would ignore.                                *)
THEOREM PendingAgrees == Spec => []PendingAgree
<1>1. IInv => PendingAgree
  <2> SUFFICES ASSUME IInv PROVE PendingAgree
    OBVIOUS
  <2> DEFINE a == account
             e == <<>>
  <2>1. Ledger(a, e, 0, now) /\ Unapplied(e, 0) = {}
    BY DEF IInv, Unapplied
  <2> HIDE DEF e
  <2>2. OneEach(a, e, 0) /\ Marked(a, e, 0) /\ Serving(a, e, 0) /\ a.pending \in Seq(Order)
    BY <2>1 DEF Ledger, Account
  <2>3. \A i \in DOMAIN a.pending : a.pending[i].id # 0
    <3>1. \A i \in DOMAIN a.pending : a.pending[i] \in Order
      BY <2>2
    <3> QED BY <3>1 DEF Order
  <2>4. \A i, j \in DOMAIN a.pending : a.pending[i].sym = a.pending[j].sym => i = j
    BY <2>2 DEF OneEach
  <2>5. ASSUME NEW s \in Symbols
        PROVE  IF IsPending(a, s)
               THEN \E i \in DOMAIN a.pending :
                      a.pending[i].sym = s /\ a.pending[i].id = a.pending_symbols[s]
               ELSE \A i \in DOMAIN a.pending : a.pending[i].sym # s
    BY <2>1, <2>2, <2>3 DEF Marked, IsPending
  <2>6. \A i \in DOMAIN a.pending :
          LET o == a.pending[i]
              p == a.positions[o.sym] IN
          IF o.purpose = "entry" THEN p = Flat
          ELSE p # Flat /\ p.direction = o.direction /\ p.quantity = o.quantity
    BY <2>2 DEF Serving, Serves
  <2> QED BY <2>4, <2>5, <2>6 DEF PendingAgree
<1> QED BY <1>1, Invariance, PTL

(* The cash is what completed trades and open positions leave of the starting cash,  *)
(* through every fill of longs and shorts, and every mark values the account by it.  *)
THEOREM CashAlwaysReconciles == Spec => []CashReconciles
<1>1. IInv => CashReconciles
  <2> SUFFICES ASSUME IInv PROVE CashReconciles
    OBVIOUS
  <2>1. account \in Account(Configs) /\ Balanced(account)
    BY DEF IInv, Ledger
  <2>2. \A s \in Symbols : FeatureOf(s, book[s]) \in Feature
    BY FeatureType DEF IInv
  <2> DEFINE settled == account.cfg.starting_cash + account.realized_pnl - Costs(account)
  <2>3. ASSUME NEW s \in Symbols
        PROVE  mark_to_market(account, FeatureOf(s, book[s])) = settled + Unrealized(account, FeatureOf(s, book[s]))
    BY <2>1, <2>2, MarkedEquity
  <2>4. account.cash = settled - Invested(account)
    <3> DEFINE c == account.cfg.starting_cash
               r == account.realized_pnl
               x == Costs(account)
               y == Invested(account)
    <3>1. account.cash = c + r - x - y
      BY <2>1 DEF Balanced
    <3>2. c \in Int /\ r \in Int /\ x \in Int /\ y \in Int
      BY <2>1, LedgerSums, ConfigsAreOK DEF Account, PortfolioConfigOK
    <3> HIDE DEF c, r, x, y
    <3>3. account.cash = (c + r - x) - y
      BY <3>1, <3>2
    <3> QED BY <3>3 DEF c, r, x, y
  <2>5. CashReconciles <=>
          /\ account.cash = settled - Invested(account)
          /\ \A s \in Symbols :
               mark_to_market(account, FeatureOf(s, book[s])) = settled + Unrealized(account, FeatureOf(s, book[s]))
    BY ONLY DEF CashReconciles
  <2> HIDE DEF settled
  <2> QED BY <2>3, <2>4, <2>5
<1> QED BY <1>1, Invariance, PTL

(* No order is lost and none fills twice: each issued one waits, was given up or is  *)
(* in the books; the summaries count those given up as the two loops do.             *)
THEOREM OrdersAreAccounted == Spec => []OrdersAccounted
<1>1. IInv => OrdersAccounted
  <2> SUFFICES ASSUME IInv PROVE OrdersAccounted
    OBVIOUS
  <2> DEFINE e == <<>>
             w == Len(account.pending) + Len(account.unfilled_orders)
             b == 2 * account.completed_trades
             c == Cardinality(Open(account))
  <2>1. Counted(account, e, 0) /\ account \in Account(Configs) /\ Len(e) = 0
    BY DEF IInv, Ledger
  <2> HIDE DEF e
  <2>2. Waiting(account) = w /\ Booked(account) = b + c /\ w \in Nat
    BY <2>1, LedgerCounts DEF Waiting, Booked
  <2>3. b \in Nat /\ c \in Nat
    BY <2>1, LedgerSums DEF Account
  <2>4. account.next_order_id - 1 = Waiting(account) + (Len(e) - 0) + Booked(account)
    BY <2>1 DEF Counted
  <2> HIDE DEF w, b, c
  <2>5. account.next_order_id - 1 = w + b + c
    BY <2>1, <2>2, <2>3, <2>4
  <2>6. account.next_order_id - 1 =
          Len(account.pending) + Len(account.unfilled_orders)
          + 2 * account.completed_trades + Cardinality(Open(account))
    BY <2>5 DEF w, b, c
  <2> QED BY <2>6 DEF IInv, UnfilledCounted, OrdersAccounted
<1> QED BY <1>1, Invariance, PTL

(* After a quote no eligible order of its symbol waits that it could have filled,    *)
(* those included that the policies issued at the quote itself.                      *)
THEOREM EligibleOrdersAlwaysFill == Spec => []EligibleOrdersFill
<1>1. IInv => EligibleOrdersFill
  BY DEF IInv
<1> QED BY <1>1, Invariance, PTL

(* What a session's close promises, for the loop body. *)
CloseStep ==
  /\ session' # session =>
       \A i \in DOMAIN account'.pending : account'.pending[i].order_time = now'
  /\ \A s \in Open(account) :
       /\ (session' # session \/ status' = "finished") /\ AnyFeature /\ account.cfg.end_of_day_flatten
       /\ account'.positions[s] = account.positions[s]
       => IsPending(account, s) \/ ~Fillable(Flattens(account, s), last_features[s])

(* An event of a new session starts from the closed account and can only reopen. *)
LEMMA EventCloses ==
  ASSUME IInv, NEW s \in Symbols, NEW d \in day .. MaxDay, CrossBoundary(s, d),
         NEW f, Proceeds(AccountAt(s, d), account', now', f, FALSE)
  PROVE  CloseStep
<1>1. /\ now' = now + 1 /\ status' = "running"
      /\ session' # session => AccountAt(s, d).pending = <<>>
  BY BoundaryKeeps
<1>2. Ledger(account, <<>>, 0, now) /\ now \in Nat
  BY DEF IInv
<1>3. CASE session' = session
  BY <1>1, <1>3 DEF CloseStep
<1>4. CASE session' # session
  <2>1. AccountAt(s, d) = Closed /\ ~Crashes
    BY <1>4 DEF CrossBoundary, Boundary, AccountAt
  <2>2. \A u \in Open(account) :
          AnyFeature /\ account.cfg.end_of_day_flatten =>
            \/ Closed.positions[u] = Flat \/ IsPending(account, u)
            \/ ~Fillable(Flattens(account, u), last_features[u])
    BY <2>1, CloseKeeps
  <2>3. DOMAIN Closed.pending = {}
    BY <1>1, <1>4, <2>1
  <2>4. \A i \in DOMAIN account'.pending : account'.pending[i].order_time = now'
    BY <2>1, <2>3 DEF Proceeds, NewOrder
  <2>5. ASSUME NEW u \in Open(account), Closed.positions[u] = Flat
        PROVE  account'.positions[u] # account.positions[u]
    <3>1. account.positions[u] \in Position /\ u \in Symbols /\ account.positions[u] # Flat
      BY <1>2, OpenIsPosition DEF Ledger, Open
    <3>2. account.positions[u].entry_time \in Nat /\ account.positions[u].entry_time <= now
      BY <1>2, <3>1 DEF Ledger, Timely, Position
    <3>3. account'.positions[u] = Flat \/ account'.positions[u].entry_time = now + 1
      BY <1>1, <2>1, <2>5, <3>1 DEF Proceeds, Follows
    <3> QED BY <1>2, <3>1, <3>2, <3>3
  <2> QED BY <1>1, <2>2, <2>4, <2>5 DEF CloseStep
<1> QED BY <1>3, <1>4

(* A session that is closed leaves no order waiting, and a position only if its exit *)
(* could not fill.                                                                   *)
THEOREM CloseAlwaysComplete == Spec => CloseIsComplete
<1>1. IInv /\ [Next]_vars => [CloseStep]_vars
  <2> SUFFICES ASSUME IInv, Next PROVE CloseStep
    BY DEF vars
  <2>1. ASSUME NEW s \in Symbols, NEW d \in day .. MaxDay, QuoteEvent(s, d) \/ TradeEvent(s, d)
        PROVE  CloseStep
    BY <2>1, QuoteEventKeeps, TradeEventKeeps, EventCloses
  <2>2. ASSUME NEW s \in Symbols, NEW d \in day .. MaxDay, RejectedEvent(s, d)
        PROVE  CloseStep
    <3>1. CrossBoundary(s, d) /\ account' = AccountAt(s, d)
      BY <2>2 DEF RejectedEvent
    <3> DEFINE no == FALSE
    <3> HIDE DEF no
    <3>2. \A f : Proceeds(AccountAt(s, d), account', now', f, no)
      BY <3>1, ProceedsHere
    <3> QED BY <3>1, <3>2, EventCloses DEF no
  <2>3. CASE EndOfReplay
    <3>1. account' = Closed /\ ~Crashes /\ session' = session /\ status' = "finished"
      BY <2>3 DEF EndOfReplay, loop
    <3>2. \A s \in Open(account) :
            AnyFeature /\ account.cfg.end_of_day_flatten =>
              \/ Closed.positions[s] = Flat \/ IsPending(account, s)
              \/ ~Fillable(Flattens(account, s), last_features[s])
      BY <3>1, CloseKeeps
    <3> QED BY <3>1, <3>2 DEF CloseStep, Open
  <2>4. CASE Crash
    <3>1. Crashes /\ session' = session /\ status' = "crashed"
      BY <2>4 DEF Crash, loop
    <3> QED BY <3>1 DEF CloseStep
  <2> QED BY <2>1, <2>2, <2>3, <2>4 DEF Next
<1> QED BY <1>1, Invariance, PTL DEF Spec, CloseIsComplete, CloseStep
=============================================================================
