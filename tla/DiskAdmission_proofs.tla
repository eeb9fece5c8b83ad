------------------------ MODULE DiskAdmission_proofs ------------------------
(***************************************************************************)
(* Proofs about DiskAdmission: the types, the agreement of the deque, the  *)
(* requests and the reservations with the callers, the files of a package  *)
(* that stay within what it reserved, and the bound on the bytes that      *)
(* admitted packages may still write.                                      *)
(*                                                                         *)
(* The bound is about sums over a set of packages, which are recursive     *)
(* functions on the subsets of Keys. The library's induction theorems take *)
(* an operator and cannot be instantiated, so induction over finite sets   *)
(* is restated for a SET of good subsets (FiniteSetInduction), from the    *)
(* fact that strict inclusion is well founded.                             *)
(***************************************************************************)
EXTENDS DiskAdmission, FiniteSetTheorems, SequenceTheorems, TLAPS

-----------------------------------------------------------------------------
(* Induction over a finite set, and sums.                                  *)

LEMMA FiniteSetInduction ==
  ASSUME NEW S, IsFiniteSet(S), NEW Good,
         \A T \in SUBSET S : (\A U \in SUBSET T : U # T => U \in Good) => T \in Good
  PROVE  \A T \in SUBSET S : T \in Good
<1>1. SUFFICES ASSUME {T \in SUBSET S : T \notin Good} # {} PROVE FALSE
  OBVIOUS
<1> DEFINE Bad == {T \in SUBSET S : T \notin Good}
<1>2. IsWellFoundedOn(StrictSubsetOrdering(S), SUBSET S)
  BY FS_StrictSubsetOrderingWellFounded, FS_FiniteSubsetsOfFinite
<1>3. PICK T \in Bad : \A U \in Bad : <<U, T>> \notin StrictSubsetOrdering(S)
  <2>1. Bad \subseteq SUBSET S /\ Bad # {}
    BY <1>1
  <2> HIDE DEF Bad
  <2> QED BY <1>2, <2>1, WFMin
<1>4. \A U \in SUBSET T : U # T => U \in Good
  BY <1>3 DEF StrictSubsetOrdering
<1> QED BY <1>3, <1>4

(* The element SumFunctionOnSet takes next, and the recursive function it  *)
(* chooses: the sum over every subset of S.                                *)
Taken(s) == CHOOSE x \in s : TRUE

IsSum(f, S, g) ==
  g = [s \in SUBSET S |-> IF s = {} THEN 0 ELSE f[Taken(s)] + g[s \ {Taken(s)}]]

SumFcn(f, S) == CHOOSE g : IsSum(f, S, g)

LEMMA SumIsSumFcn ==
  ASSUME NEW f, NEW S
  PROVE  SumFunctionOnSet(f, S) = SumFcn(f, S)[S]
BY Zenon DEF SumFunctionOnSet, FoldFunctionOnSet, MapThenFoldSet, SumFcn, IsSum, Taken

LEMMA TakenIn == ASSUME NEW s, s # {} PROVE Taken(s) \in s
BY DEF Taken

LEMMA IsSumUnfold ==
  ASSUME NEW f, NEW S, NEW g, IsSum(f, S, g)
  PROVE  /\ g[{}] = 0
         /\ \A T \in SUBSET S : T # {} => g[T] = f[Taken(T)] + g[T \ {Taken(T)}]
<1>1. \A T \in SUBSET S : g[T] = IF T = {} THEN 0 ELSE f[Taken(T)] + g[T \ {Taken(T)}]
  BY Zenon DEF IsSum
<1> QED BY <1>1

(* Two such functions agree wherever both are defined.                     *)
LEMMA SumsAgree ==
  ASSUME NEW f, NEW A, IsFiniteSet(A), NEW B, B \in SUBSET A,
         NEW g, IsSum(f, A, g), NEW h, IsSum(f, B, h)
  PROVE  \A T \in SUBSET B : g[T] = h[T]
<1> DEFINE Good == {T \in SUBSET B : g[T] = h[T]}
<1>1. ASSUME NEW T \in SUBSET B, \A U \in SUBSET T : U # T => U \in Good
      PROVE  T \in Good
  <2>1. CASE T = {}
    BY <2>1, IsSumUnfold
  <2>2. CASE T # {}
    <3>1. T \ {Taken(T)} \in Good
      BY <1>1, <2>2, TakenIn
    <3>2. g[T] = f[Taken(T)] + g[T \ {Taken(T)}]
      BY <2>2, IsSumUnfold
    <3>3. h[T] = f[Taken(T)] + h[T \ {Taken(T)}]
      BY <2>2, IsSumUnfold
    <3> QED BY <3>1, <3>2, <3>3
  <2> QED BY <2>1, <2>2
<1>2. IsFiniteSet(B)
  BY FS_Subset
<1> HIDE DEF Good
<1>3. \A T \in SUBSET B : T \in Good
  BY <1>1, <1>2, FiniteSetInduction
<1> QED BY <1>3 DEF Good

LEMMA SumExists ==
  ASSUME NEW f, NEW S, IsFiniteSet(S)
  PROVE  \A T \in SUBSET S : IsSum(f, T, SumFcn(f, T))
<1> DEFINE Good == {T \in SUBSET S : IsSum(f, T, SumFcn(f, T))}
<1>1. ASSUME NEW T \in SUBSET S, \A U \in SUBSET T : U # T => U \in Good
      PROVE  T \in Good
  <2> DEFINE V == [U \in SUBSET T |-> SumFcn(f, U)[U]]
             g == [s \in SUBSET T |-> IF s = {} THEN 0
                                      ELSE f[Taken(s)] + V[s \ {Taken(s)}]]
  <2>1. ASSUME NEW U \in SUBSET T, U # T
        PROVE  g[U] = V[U]
    <3>1. IsSum(f, U, SumFcn(f, U))
      BY <1>1, <2>1
    <3>2. V[U] = SumFcn(f, U)[U]
      OBVIOUS
    <3>3. CASE U = {}
      <4>1. g[U] = 0
        BY <3>3
      <4>2. SumFcn(f, U)[U] = 0
        BY <3>1, <3>3, IsSumUnfold
      <4> QED BY <3>2, <4>1, <4>2
    <3>4. CASE U # {}
      <4> DEFINE W == U \ {Taken(U)}
      <4>1. W \in SUBSET U /\ W # T /\ W \in SUBSET T
        BY <2>1, <3>4, TakenIn
      <4>2. IsSum(f, W, SumFcn(f, W))
        BY <1>1, <4>1
      <4>3. IsFiniteSet(U)
        BY FS_Subset
      <4>4. SumFcn(f, U)[W] = SumFcn(f, W)[W]
        <5> HIDE DEF W
        <5>1. W \in SUBSET W
          OBVIOUS
        <5> QED BY <3>1, <4>1, <4>2, <4>3, <5>1, SumsAgree
      <4>5. SumFcn(f, U)[U] = f[Taken(U)] + SumFcn(f, U)[W]
        BY <3>1, <3>4, IsSumUnfold
      <4>6. g[U] = f[Taken(U)] + V[W]
        BY <3>4
      <4>7. V[W] = SumFcn(f, W)[W]
        BY <4>1
      <4> QED BY <3>2, <4>4, <4>5, <4>6, <4>7
    <3> QED BY <3>3, <3>4
  <2>2. ASSUME NEW s \in SUBSET T, s # {}
        PROVE  V[s \ {Taken(s)}] = g[s \ {Taken(s)}]
    <3>1. s \ {Taken(s)} \in SUBSET T /\ s \ {Taken(s)} # T
      BY <2>2, TakenIn
    <3> HIDE DEF V, g
    <3> QED BY <2>1, <3>1
  <2>3. IsSum(f, T, g)
    <3>1. [s \in SUBSET T |-> IF s = {} THEN 0 ELSE f[Taken(s)] + V[s \ {Taken(s)}]]
          = [s \in SUBSET T |-> IF s = {} THEN 0 ELSE f[Taken(s)] + g[s \ {Taken(s)}]]
      <4> HIDE DEF V, g
      <4> QED BY <2>2
    <3> DEFINE G == [s \in SUBSET T |-> IF s = {} THEN 0
                                        ELSE f[Taken(s)] + g[s \ {Taken(s)}]]
    <3>2. g = G
      BY <3>1
    <3> HIDE DEF g
    <3> QED BY <3>2 DEF IsSum
  <2> HIDE DEF g
  <2>4. IsSum(f, T, SumFcn(f, T))
    BY <2>3 DEF SumFcn
  <2> QED BY <2>4
<1> HIDE DEF Good
<1>2. \A T \in SUBSET S : T \in Good
  BY <1>1, FiniteSetInduction
<1> QED BY <1>2 DEF Good

(* What every proof below uses of a sum.                                   *)
LEMMA SumRecursion ==
  ASSUME NEW f, NEW S, IsFiniteSet(S)
  PROVE  /\ SumFunctionOnSet(f, {}) = 0
         /\ S # {} => SumFunctionOnSet(f, S)
                        = f[Taken(S)] + SumFunctionOnSet(f, S \ {Taken(S)})
<1>1. IsSum(f, S, SumFcn(f, S)) /\ IsSum(f, {}, SumFcn(f, {}))
  BY SumExists
<1>2. SumFunctionOnSet(f, {}) = 0
  BY <1>1, SumIsSumFcn, IsSumUnfold
<1>3. ASSUME S # {}
      PROVE  SumFunctionOnSet(f, S) = f[Taken(S)] + SumFunctionOnSet(f, S \ {Taken(S)})
  <2> DEFINE W == S \ {Taken(S)}
  <2>1. W \in SUBSET S /\ W \in SUBSET W
    OBVIOUS
  <2>2. IsSum(f, W, SumFcn(f, W))
    BY <2>1, SumExists
  <2>3. SumFcn(f, S)[S] = f[Taken(S)] + SumFcn(f, S)[W]
    BY <1>1, <1>3, IsSumUnfold
  <2> HIDE DEF W
  <2>4. SumFcn(f, S)[W] = SumFcn(f, W)[W]
    BY <1>1, <2>1, <2>2, SumsAgree
  <2>5. SumFunctionOnSet(f, S) = f[Taken(S)] + SumFunctionOnSet(f, W)
    BY <2>3, <2>4, SumIsSumFcn
  <2> QED BY <2>5 DEF W
<1> QED BY <1>2, <1>3

(* A sum of natural numbers is one.                                        *)
LEMMA SumNat ==
  ASSUME NEW D, NEW f \in [D -> Nat], NEW S, IsFiniteSet(S), S \subseteq D
  PROVE  SumFunctionOnSet(f, S) \in Nat
<1> DEFINE Good == {T \in SUBSET S : SumFunctionOnSet(f, T) \in Nat}
<1>1. ASSUME NEW T \in SUBSET S, \A U \in SUBSET T : U # T => U \in Good
      PROVE  T \in Good
  <2>1. IsFiniteSet(T)
    BY FS_Subset
  <2>2. CASE T = {}
    <3>1. SumFunctionOnSet(f, T) = 0
      BY <2>1, <2>2, SumRecursion
    <3> QED BY <3>1
  <2>3. CASE T # {}
    <3>1. Taken(T) \in T /\ f[Taken(T)] \in Nat
      BY <2>3, TakenIn
    <3>2. SumFunctionOnSet(f, T \ {Taken(T)}) \in Nat
      BY <1>1, <3>1
    <3>3. SumFunctionOnSet(f, T) = f[Taken(T)] + SumFunctionOnSet(f, T \ {Taken(T)})
      BY <2>1, <2>3, SumRecursion
    <3> QED BY <3>1, <3>2, <3>3
  <2> QED BY <2>2, <2>3
<1> HIDE DEF Good
<1>2. \A T \in SUBSET S : T \in Good
  BY <1>1, FiniteSetInduction
<1> QED BY <1>2 DEF Good

(* Any element may be taken out first.                                     *)
LEMMA SumRemove ==
  ASSUME NEW D, NEW f \in [D -> Nat], NEW S, IsFiniteSet(S), S \subseteq D
  PROVE  \A x \in S :
           SumFunctionOnSet(f, S) = f[x] + SumFunctionOnSet(f, S \ {x})
<1> DEFINE Takes(T, x) == SumFunctionOnSet(f, T) = f[x] + SumFunctionOnSet(f, T \ {x})
           Good == {T \in SUBSET S : \A x \in T : Takes(T, x)}
<1>1. ASSUME NEW T \in SUBSET S, \A U \in SUBSET T : U # T => U \in Good
      PROVE  T \in Good
  <2> SUFFICES ASSUME NEW x \in T PROVE Takes(T, x)
    OBVIOUS
  <2> DEFINE p == Taken(T)
  <2>1. IsFiniteSet(T)
    BY FS_Subset
  <2>2. p \in T /\ Takes(T, p)
    BY <2>1, SumRecursion, TakenIn
  <2> HIDE DEF p
  <2>3. CASE x # p
    <3>1. Takes(T \ {p}, x)
      BY <1>1, <2>2, <2>3
    <3>2. Takes(T \ {x}, p)
      BY <1>1, <2>2, <2>3
    <3>3. (T \ {p}) \ {x} = (T \ {x}) \ {p}
      OBVIOUS
    <3> DEFINE R == (T \ {x}) \ {p}
    <3>4. SumFunctionOnSet(f, R) \in Nat
      <4>1. IsFiniteSet(R)
        BY FS_Subset
      <4> QED BY <4>1, SumNat
    <3>5. f[x] \in Nat /\ f[p] \in Nat
      BY <2>2
    <3>6. /\ SumFunctionOnSet(f, T) = f[p] + (f[x] + SumFunctionOnSet(f, R))
          /\ SumFunctionOnSet(f, T \ {x}) = f[p] + SumFunctionOnSet(f, R)
      BY <2>2, <3>1, <3>2, <3>3
    <3> HIDE DEF R
    <3> QED BY <3>4, <3>5, <3>6
  <2> QED BY <2>2, <2>3
<1> HIDE DEF Good
<1>2. \A T \in SUBSET S : T \in Good
  BY <1>1, FiniteSetInduction
<1> QED BY <1>2 DEF Good

(* A sum is monotone in its terms.                                         *)
LEMMA SumMonotone ==
  ASSUME NEW D, NEW f \in [D -> Nat], NEW g \in [D -> Nat],
         NEW S, IsFiniteSet(S), S \subseteq D,
         \A x \in S : f[x] <= g[x]
  PROVE  SumFunctionOnSet(f, S) <= SumFunctionOnSet(g, S)
<1> DEFINE Good == {T \in SUBSET S : SumFunctionOnSet(f, T) <= SumFunctionOnSet(g, T)}
<1>1. ASSUME NEW T \in SUBSET S, \A U \in SUBSET T : U # T => U \in Good
      PROVE  T \in Good
  <2>1. IsFiniteSet(T)
    BY FS_Subset
  <2>2. CASE T = {}
    <3>1. SumFunctionOnSet(f, T) = 0 /\ SumFunctionOnSet(g, T) = 0
      BY <2>1, <2>2, SumRecursion
    <3> QED BY <3>1
  <2>3. CASE T # {}
    <3> DEFINE p == Taken(T)
               R == T \ {p}
    <3>1. p \in T
      BY <2>3, TakenIn
    <3>2. /\ SumFunctionOnSet(f, T) = f[p] + SumFunctionOnSet(f, R)
          /\ SumFunctionOnSet(g, T) = g[p] + SumFunctionOnSet(g, R)
      BY <2>1, <2>3, SumRecursion
    <3>3. R \in Good
      BY <1>1, <3>1
    <3>4. IsFiniteSet(R)
      BY <2>1, FS_Subset
    <3>5. SumFunctionOnSet(f, R) \in Nat /\ SumFunctionOnSet(g, R) \in Nat
      BY <3>4, SumNat
    <3>6. f[p] \in Nat /\ g[p] \in Nat /\ f[p] <= g[p]
      BY <3>1
    <3>7. SumFunctionOnSet(f, R) <= SumFunctionOnSet(g, R)
      BY <3>3
    <3> HIDE DEF p, R
    <3> QED BY <3>2, <3>5, <3>6, <3>7
  <2> QED BY <2>2, <2>3
<1> HIDE DEF Good
<1>2. \A T \in SUBSET S : T \in Good
  BY <1>1, FiniteSetInduction
<1> QED BY <1>2 DEF Good

LEMMA SumCongruence ==
  ASSUME NEW D, NEW f \in [D -> Nat], NEW g \in [D -> Nat],
         NEW S, IsFiniteSet(S), S \subseteq D,
         \A x \in S : f[x] = g[x]
  PROVE  SumFunctionOnSet(f, S) = SumFunctionOnSet(g, S)
<1>1. \A x \in S : f[x] <= g[x] /\ g[x] <= f[x]
  <2> SUFFICES ASSUME NEW x \in S PROVE f[x] <= g[x] /\ g[x] <= f[x]
    OBVIOUS
  <2>1. f[x] \in Nat /\ g[x] \in Nat /\ f[x] = g[x]
    OBVIOUS
  <2> QED BY <2>1
<1>2. /\ SumFunctionOnSet(f, S) <= SumFunctionOnSet(g, S)
      /\ SumFunctionOnSet(g, S) <= SumFunctionOnSet(f, S)
  BY <1>1, SumMonotone
<1>3. SumFunctionOnSet(f, S) \in Nat /\ SumFunctionOnSet(g, S) \in Nat
  BY SumNat
<1> QED BY <1>2, <1>3

(* One more element, with the other terms unchanged.                       *)
LEMMA SumAdd ==
  ASSUME NEW D, NEW f \in [D -> Nat], NEW g \in [D -> Nat],
         NEW S, IsFiniteSet(S), S \subseteq D, NEW k \in D \ S,
         \A x \in S : g[x] = f[x]
  PROVE  SumFunctionOnSet(g, S \union {k}) = g[k] + SumFunctionOnSet(f, S)
<1> DEFINE T == S \union {k}
<1>1. IsFiniteSet(T) /\ T \subseteq D /\ k \in T /\ T \ {k} = S
  BY FS_AddElement
<1>2. SumFunctionOnSet(g, S) = SumFunctionOnSet(f, S)
  BY SumCongruence
<1> HIDE DEF T
<1>3. SumFunctionOnSet(g, T) = g[k] + SumFunctionOnSet(g, T \ {k})
  BY <1>1, SumRemove
<1> QED BY <1>1, <1>2, <1>3 DEF T

(* One term changes.                                                       *)
LEMMA SumChange ==
  ASSUME NEW D, NEW f \in [D -> Nat], NEW g \in [D -> Nat],
         NEW S, IsFiniteSet(S), S \subseteq D, NEW k \in S,
         \A x \in S \ {k} : g[x] = f[x]
  PROVE  SumFunctionOnSet(g, S) + f[k] = SumFunctionOnSet(f, S) + g[k]
<1> DEFINE R == S \ {k}
<1>1. IsFiniteSet(R) /\ R \subseteq D /\ k \in D
  BY FS_Subset
<1>2. /\ SumFunctionOnSet(f, S) = f[k] + SumFunctionOnSet(f, R)
      /\ SumFunctionOnSet(g, S) = g[k] + SumFunctionOnSet(g, R)
  BY SumRemove
<1> HIDE DEF R
<1>3. SumFunctionOnSet(g, R) = SumFunctionOnSet(f, R)
  BY <1>1, SumCongruence DEF R
<1>4. SumFunctionOnSet(f, R) \in Nat /\ f[k] \in Nat /\ g[k] \in Nat
  BY <1>1, SumNat
<1> QED BY <1>2, <1>3, <1>4

(* A sum of n terms of at most m is at most n * m.                         *)
LEMMA SumBounded ==
  ASSUME NEW D, NEW f \in [D -> Nat], NEW S, IsFiniteSet(S), S \subseteq D,
         NEW m \in Nat, \A x \in S : f[x] <= m
  PROVE  SumFunctionOnSet(f, S) <= Cardinality(S) * m
<1> DEFINE Good == {T \in SUBSET S : SumFunctionOnSet(f, T) <= Cardinality(T) * m}
<1>1. ASSUME NEW T \in SUBSET S, \A U \in SUBSET T : U # T => U \in Good
      PROVE  T \in Good
  <2>1. IsFiniteSet(T)
    BY FS_Subset
  <2>2. CASE T = {}
    <3>1. SumFunctionOnSet(f, T) = 0 /\ Cardinality(T) = 0
      BY <2>1, <2>2, SumRecursion, FS_EmptySet
    <3>2. 0 <= 0 * m
      OBVIOUS
    <3> QED BY <3>1, <3>2
  <2>3. CASE T # {}
    <3> DEFINE p == Taken(T)
               R == T \ {p}
    <3>1. p \in T
      BY <2>3, TakenIn
    <3>2. SumFunctionOnSet(f, T) = f[p] + SumFunctionOnSet(f, R)
      BY <2>1, <2>3, SumRecursion
    <3>3. R \in Good
      BY <1>1, <3>1
    <3>4. IsFiniteSet(R) /\ Cardinality(R) = Cardinality(T) - 1
      BY <2>1, <3>1, FS_RemoveElement
    <3>5. Cardinality(R) \in Nat /\ Cardinality(T) \in Nat
      BY <2>1, <3>4, FS_CardinalityType
    <3>6. f[p] \in Nat /\ f[p] <= m
      BY <3>1
    <3>7. SumFunctionOnSet(f, R) \in Nat /\ SumFunctionOnSet(f, R) <= Cardinality(R) * m
      BY <3>3, <3>4, SumNat
    <3> HIDE DEF p, R
    <3>8. (Cardinality(R) + 1) * m = Cardinality(R) * m + m
      BY <3>5
    <3>9. Cardinality(T) = Cardinality(R) + 1 /\ Cardinality(R) * m \in Nat
      BY <3>4, <3>5
    <3>10. SumFunctionOnSet(f, T) <= Cardinality(R) * m + m
      BY <3>2, <3>6, <3>7, <3>9
    <3> QED BY <3>8, <3>9, <3>10
  <2> QED BY <2>2, <2>3
<1> HIDE DEF Good
<1>2. \A T \in SUBSET S : T \in Good
  BY <1>1, FiniteSetInduction
<1> QED BY <1>2 DEF Good

LEMMA SumOfZeroes ==
  ASSUME NEW D, NEW f \in [D -> Nat], NEW S, IsFiniteSet(S), S \subseteq D,
         \A x \in S : f[x] = 0
  PROVE  SumFunctionOnSet(f, S) = 0
<1>1. SumFunctionOnSet(f, S) <= Cardinality(S) * 0
  BY SumBounded
<1>2. Cardinality(S) \in Nat /\ SumFunctionOnSet(f, S) \in Nat
  BY FS_CardinalityType, SumNat
<1> QED BY <1>1, <1>2

(* The larger and the smaller of two numbers.                              *)
LEMMA MaxMinOfTwo ==
  ASSUME NEW a \in Nat, NEW b \in Nat
  PROVE  /\ Max({a, b}) = (IF a >= b THEN a ELSE b)
         /\ Min({a, b}) = (IF a <= b THEN a ELSE b)
<1>1. Max({a, b}) = (IF a >= b THEN a ELSE b)
  BY DEF Max
<1>2. Min({a, b}) = (IF a <= b THEN a ELSE b)
  BY DEF Min
<1> QED BY <1>1, <1>2

-----------------------------------------------------------------------------
(* The deque.                                                              *)

(* No key is twice in q.                                                   *)
NoRepeat(q) == \A i, j \in 1 .. Len(q) : q[i] = q[j] => i = j

Among(k, q) == \E i \in 1 .. Len(q) : q[i] = k

LEMMA OccursOnce ==
  ASSUME NEW q \in Seq(Keys), NoRepeat(q), NEW k
  PROVE  Cardinality({i \in 1 .. Len(q) : q[i] = k}) = IF Among(k, q) THEN 1 ELSE 0
<1>1. CASE Among(k, q)
  <2>1. PICK i \in 1 .. Len(q) : q[i] = k
    BY <1>1 DEF Among
  <2>2. {j \in 1 .. Len(q) : q[j] = k} = {i}
    BY <2>1 DEF NoRepeat
  <2> QED BY <1>1, <2>2, FS_Singleton
<1>2. CASE ~Among(k, q)
  <2>1. {j \in 1 .. Len(q) : q[j] = k} = {}
    BY <1>2 DEF Among
  <2> QED BY <1>2, <2>1, FS_EmptySet
<1> QED BY <1>1, <1>2

(* deque.append of a key that is not waiting.                              *)
LEMMA AppendNew ==
  ASSUME NEW q \in Seq(Keys), NoRepeat(q), NEW k \in Keys, ~Among(k, q)
  PROVE  /\ Append(q, k) \in Seq(Keys)
         /\ NoRepeat(Append(q, k))
         /\ \A j : Among(j, Append(q, k)) <=> Among(j, q) \/ j = k
<1> DEFINE r == Append(q, k)
<1>1. /\ r \in Seq(Keys) /\ Len(r) = Len(q) + 1
      /\ \A i \in 1 .. Len(q) : r[i] = q[i]
      /\ r[Len(q) + 1] = k
  BY AppendProperties
<1>2. Len(q) \in Nat
  OBVIOUS
<1> HIDE DEF r
<1>3. NoRepeat(r)
  <2> SUFFICES ASSUME NEW i \in 1 .. Len(r), NEW j \in 1 .. Len(r), r[i] = r[j]
               PROVE  i = j
    BY DEF NoRepeat
  <2>1. CASE i = Len(q) + 1 /\ j = Len(q) + 1
    BY <2>1
  <2>2. CASE i = Len(q) + 1 /\ j \in 1 .. Len(q)
    BY <1>1, <2>2 DEF Among
  <2>3. CASE j = Len(q) + 1 /\ i \in 1 .. Len(q)
    BY <1>1, <2>3 DEF Among
  <2>4. CASE i \in 1 .. Len(q) /\ j \in 1 .. Len(q)
    BY <1>1, <2>4 DEF NoRepeat
  <2> QED BY <1>1, <1>2, <2>1, <2>2, <2>3, <2>4
<1>4. ASSUME NEW j PROVE Among(j, r) <=> Among(j, q) \/ j = k
  <2>1. ASSUME Among(j, r) PROVE Among(j, q) \/ j = k
    <3>1. PICK i \in 1 .. Len(r) : r[i] = j
      BY <2>1 DEF Among
    <3>2. i \in 1 .. Len(q) \/ i = Len(q) + 1
      BY <1>1, <1>2
    <3> QED BY <1>1, <3>1, <3>2 DEF Among
  <2>2. ASSUME Among(j, q) PROVE Among(j, r)
    <3>1. PICK i \in 1 .. Len(q) : q[i] = j
      BY <2>2 DEF Among
    <3>2. i \in 1 .. Len(r)
      BY <1>1, <1>2
    <3> QED BY <1>1, <3>1, <3>2 DEF Among
  <2>3. Among(k, r)
    <3>1. Len(q) + 1 \in 1 .. Len(r)
      BY <1>1, <1>2
    <3> QED BY <1>1, <3>1 DEF Among
  <2> QED BY <2>1, <2>2, <2>3
<1> QED BY <1>1, <1>3, <1>4 DEF r

(* deque.remove, with the ValueError of an absent key swallowed.           *)
LEMMA RemoveFirstKey ==
  ASSUME NEW q \in Seq(Keys), NoRepeat(q), NEW k \in Keys
  PROVE  /\ RemoveFirst(q, k) \in Seq(Keys)
         /\ NoRepeat(RemoveFirst(q, k))
         /\ \A j : Among(j, RemoveFirst(q, k)) <=> Among(j, q) /\ j # k
<1>1. CASE ~Among(k, q)
  BY <1>1 DEF Among, RemoveFirst
<1>2. CASE Among(k, q)
  <2>1. PICK n \in 1 .. Len(q) : q[n] = k
    BY <1>2 DEF Among
  <2>2. {i \in 1 .. Len(q) : q[i] = k} = {n}
    BY <2>1 DEF NoRepeat
  <2>3. Min({n}) = n
    BY DEF Min
  <2> DEFINE r == RemoveFirst(q, k)
             a == SubSeq(q, 1, n - 1)
             b == SubSeq(q, n + 1, Len(q))
  <2>4. r = a \o b
    <3>1. SelectInSeq(q, LAMBDA v : v = k) = n
      BY <2>2, <2>3 DEF SelectInSeq
    <3> QED BY <2>1, <3>1 DEF RemoveFirst, RemoveAt
  <2>5. Len(q) \in Nat
    OBVIOUS
  <2>6. /\ a \in Seq(Keys) /\ Len(a) = n - 1
        /\ \A i \in 1 .. n - 1 : a[i] = q[i]
    <3>1. \A i \in 1 .. n - 1 : q[i] \in Keys
      BY <2>5
    <3>2. /\ a \in Seq(Keys) /\ Len(a) = IF 1 <= n - 1 THEN n - 1 - 1 + 1 ELSE 0
          /\ \A i \in 1 .. n - 1 - 1 + 1 : a[i] = q[1 + i - 1]
      BY <3>1, SubSeqProperties
    <3> HIDE DEF a
    <3> QED BY <3>2
  <2>7. /\ b \in Seq(Keys) /\ Len(b) = Len(q) - n
        /\ \A i \in 1 .. Len(q) - n : b[i] = q[n + i]
    <3>1. \A i \in n + 1 .. Len(q) : q[i] \in Keys
      BY <2>5
    <3>2. /\ b \in Seq(Keys)
          /\ Len(b) = IF n + 1 <= Len(q) THEN Len(q) - (n + 1) + 1 ELSE 0
          /\ \A i \in 1 .. Len(q) - (n + 1) + 1 : b[i] = q[n + 1 + i - 1]
      BY <2>5, <3>1, SubSeqProperties
    <3> HIDE DEF b
    <3> QED BY <2>5, <3>2
  <2> HIDE DEF a, b, r
  <2>8. /\ r \in Seq(Keys) /\ Len(r) = Len(q) - 1
        /\ \A i \in 1 .. Len(q) - 1 : r[i] = IF i < n THEN q[i] ELSE q[i + 1]
    <3>1. /\ r \in Seq(Keys)
          /\ Len(r) = Len(a) + Len(b)
          /\ \A i \in 1 .. Len(a) + Len(b) :
               r[i] = IF i <= Len(a) THEN a[i] ELSE b[i - Len(a)]
      BY <2>4, <2>6, <2>7, ConcatProperties
    <3>2. ASSUME NEW i \in 1 .. Len(q) - 1
          PROVE  r[i] = IF i < n THEN q[i] ELSE q[i + 1]
      <4>1. CASE i < n
        <5>1. i \in 1 .. n - 1 /\ i \in 1 .. Len(a) + Len(b) /\ i <= Len(a)
          BY <2>5, <2>6, <2>7, <4>1
        <5> QED BY <2>6, <3>1, <4>1, <5>1
      <4>2. CASE ~(i < n)
        <5>1. i - (n - 1) \in 1 .. Len(q) - n
          BY <2>5, <4>2
        <5>2. r[i] = b[i - (n - 1)]
          <6>1. i \in 1 .. Len(a) + Len(b) /\ ~(i <= Len(a)) /\ Len(a) = n - 1
            BY <2>5, <2>6, <2>7, <4>2
          <6>2. r[i] = b[i - Len(a)]
            BY <3>1, <6>1
          <6> QED BY <6>1, <6>2
        <5>3. b[i - (n - 1)] = q[n + (i - (n - 1))]
          BY <2>7, <5>1
        <5>4. n + (i - (n - 1)) = i + 1
          OBVIOUS
        <5> QED BY <4>2, <5>2, <5>3, <5>4
      <4> QED BY <4>1, <4>2
    <3> QED BY <2>5, <2>6, <2>7, <3>1, <3>2
  <2>9. NoRepeat(r)
    <3> SUFFICES ASSUME NEW i \in 1 .. Len(r), NEW j \in 1 .. Len(r), r[i] = r[j]
                 PROVE  i = j
      BY DEF NoRepeat
    <3> DEFINE at(x) == IF x < n THEN x ELSE x + 1
    <3>1. /\ at(i) \in 1 .. Len(q) /\ r[i] = q[at(i)]
          /\ at(j) \in 1 .. Len(q) /\ r[j] = q[at(j)]
      BY <2>5, <2>8
    <3>2. at(i) = at(j)
      <4> HIDE DEF at
      <4> QED BY <3>1 DEF NoRepeat
    <3> QED BY <2>5, <3>2
  <2>10. ASSUME NEW j PROVE Among(j, r) <=> Among(j, q) /\ j # k
    <3>1. ASSUME Among(j, r) PROVE Among(j, q) /\ j # k
      <4>1. PICK i \in 1 .. Len(r) : r[i] = j
        BY <3>1 DEF Among
      <4>2. CASE i < n
        <5>1. i \in 1 .. Len(q) /\ q[i] = j /\ i # n
          BY <2>5, <2>8, <4>1, <4>2
        <5> QED BY <2>1, <5>1 DEF Among, NoRepeat
      <4>3. CASE ~(i < n)
        <5>1. i + 1 \in 1 .. Len(q) /\ q[i + 1] = j /\ i + 1 # n
          BY <2>5, <2>8, <4>1, <4>3
        <5> QED BY <2>1, <5>1 DEF Among, NoRepeat
      <4> QED BY <4>2, <4>3
    <3>2. ASSUME Among(j, q), j # k PROVE Among(j, r)
      <4>1. PICK i \in 1 .. Len(q) : q[i] = j
        BY <3>2 DEF Among
      <4>2. CASE i < n
        <5>1. i \in 1 .. Len(r) /\ r[i] = j
          BY <2>1, <2>5, <2>8, <4>1, <4>2
        <5> QED BY <5>1 DEF Among
      <4>3. CASE i > n
        <5>1. i - 1 \in 1 .. Len(r) /\ r[i - 1] = q[(i - 1) + 1] /\ (i - 1) + 1 = i
          BY <2>1, <2>5, <2>8, <4>1, <4>3
        <5> QED BY <4>1, <5>1 DEF Among
      <4> QED BY <2>1, <3>2, <4>1, <4>2, <4>3
    <3> QED BY <3>1, <3>2
  <2> QED BY <2>8, <2>9, <2>10 DEF r
<1> QED BY <1>1, <1>2

-----------------------------------------------------------------------------
(* The inductive invariant.                                                *)

CallersAgree ==
  \A k \in Keys : /\ k \in requested <=> pc[k] \in {"parked", "ready"}
                  /\ k \in reserved <=> pc[k] = "held"

QueueAgrees ==
  /\ NoRepeat(waiting)
  /\ \A k \in Keys : Among(k, waiting) <=> k \in requested

HandTotal(k) == SumFunctionOnSet(hand[k], Workers)

(* The files of a package: each has a place, a worker has one of them in   *)
(* hand at a time, a package that streams leaves none of them in its       *)
(* reservation, and who holds no reservation has none. From this, and not  *)
(* from any check when a file is written, follows what a package may have  *)
(* on the disk (WithinReservation): either all its files, or one for each  *)
(* worker.                                                                 *)
FilesAgree ==
  \A k \in Keys :
    /\ \A w \in Workers : hand[k][w] <= Largest[k]
    /\ left[k] + stored[k] + HandTotal(k) <= Total[k]
    /\ k \in Streams => stored[k] = 0
    /\ k \notin reserved =>
         left[k] = 0 /\ stored[k] = 0 /\ \A w \in Workers : hand[k][w] = 0

DiskTypes ==
  /\ free \in Nat
  /\ left \in [Keys -> Nat]
  /\ hand \in [Keys -> [Workers -> Nat]]
  /\ stored \in [Keys -> Nat]
  /\ kept \in Nat
  /\ foreign \in 0 .. MaxForeign

Books == TypeOK /\ CallersAgree /\ QueueAgrees

(* OutstandingFits without its first part, which follows from FilesAgree.  *)
SumFits ==
  reserved # {} =>
    SumFunctionOnSet(Outstanding, reserved) + MinFree <= free + kept + foreign

Space == FilesAgree /\ SumFits

IInv == Books /\ Space

LEMMA TypesOfDisk == Books => DiskTypes
BY DEF Books, TypeOK, DiskTypes

LEMMA BooksAgree == Books => NothingLeftBehind
<1> SUFFICES ASSUME Books, NEW k \in Keys
             PROVE  /\ k \in requested <=> pc[k] \in {"parked", "ready"}
                    /\ k \in reserved <=> pc[k] = "held"
                    /\ Cardinality({i \in 1 .. Len(waiting) : waiting[i] = k})
                         = IF k \in requested THEN 1 ELSE 0
  BY DEF NothingLeftBehind
<1>1. waiting \in Seq(Keys) /\ NoRepeat(waiting) /\ (Among(k, waiting) <=> k \in requested)
  BY DEF Books, TypeOK, QueueAgrees
<1>2. Cardinality({i \in 1 .. Len(waiting) : waiting[i] = k})
        = IF k \in requested THEN 1 ELSE 0
  BY <1>1, OccursOnce
<1> QED BY <1>2 DEF Books, CallersAgree

-----------------------------------------------------------------------------
(* The books, action by action. The queue a turn works on is the deque, in *)
(* the first turn with k appended.                                         *)

TurnQueue(k, q) ==
  /\ q \in Seq(Keys)
  /\ NoRepeat(q)
  /\ \A j \in Keys : Among(j, q) <=> j \in requested \union {k}

LEMMA DiscardKeepsBooks ==
  ASSUME Books, NEW k \in Keys, Discard(k), NotifyAll(k, "idle"),
         timer' = [timer EXCEPT ![k] = "off"],
         DiskTypes'
  PROVE  Books'
<1> USE DEF Books, TypeOK, CallersAgree, QueueAgrees
<1>1. /\ waiting' \in Seq(Keys) /\ NoRepeat(waiting')
      /\ \A j : Among(j, waiting') <=> Among(j, waiting) /\ j # k
  BY RemoveFirstKey DEF Discard
<1>2. requested' = requested \ {k} /\ reserved' = reserved \ {k}
  BY DEF Discard
<1>3. /\ pc' \in [Keys -> {"idle", "parked", "ready", "held"}]
      /\ pc'[k] = "idle"
      /\ \A j \in Keys \ {k} : /\ pc'[j] \in {"parked", "ready"} <=> pc[j] \in {"parked", "ready"}
                               /\ pc'[j] = "held" <=> pc[j] = "held"
  BY DEF NotifyAll
<1>4. QueueAgrees'
  BY <1>1, <1>2
<1>5. CallersAgree'
  BY <1>2, <1>3
<1>6. TypeOK'
  BY <1>1, <1>2, <1>3 DEF DiskTypes
<1> QED BY <1>4, <1>5, <1>6

LEMMA ParkKeepsBooks ==
  ASSUME Books, NEW k \in Keys, NEW q, TurnQueue(k, q), k \notin reserved,
         NEW t \in {"off", "running", "elapsed"}, Park(k, q, t), UNCHANGED disk
  PROVE  Books'
<1> USE DEF Books, TypeOK, CallersAgree, QueueAgrees, TurnQueue, Park, disk, files
<1>1. QueueAgrees'
  OBVIOUS
<1>2. CallersAgree'
  OBVIOUS
<1>3. TypeOK'
  OBVIOUS
<1> QED BY <1>1, <1>2, <1>3

LEMMA AdmitKeepsBooks ==
  ASSUME Books, NEW k \in Keys, NEW q, TurnQueue(k, q), k \notin reserved,
         Admit(k, q), DiskTypes'
  PROVE  Books'
<1> USE DEF Books, TypeOK, CallersAgree, QueueAgrees
<1>1. /\ waiting' \in Seq(Keys) /\ NoRepeat(waiting')
      /\ \A j : Among(j, waiting') <=> Among(j, q) /\ j # k
  BY RemoveFirstKey DEF Admit, TurnQueue
<1>2. requested' = requested \ {k} /\ reserved' = reserved \union {k}
  BY DEF Admit
<1>3. /\ pc' \in [Keys -> {"idle", "parked", "ready", "held"}]
      /\ pc'[k] = "held"
      /\ \A j \in Keys \ {k} : /\ pc'[j] \in {"parked", "ready"} <=> pc[j] \in {"parked", "ready"}
                               /\ pc'[j] = "held" <=> pc[j] = "held"
  BY DEF Admit, NotifyAll
<1>4. QueueAgrees'
  BY <1>1, <1>2 DEF TurnQueue
<1>5. CallersAgree'
  BY <1>2, <1>3
<1>6. TypeOK'
  BY <1>1, <1>2, <1>3 DEF Admit, DiskTypes
<1> QED BY <1>4, <1>5, <1>6

LEMMA TurnKeepsBooks ==
  ASSUME Books, NEW k \in Keys, NEW q, TurnQueue(k, q), k \notin reserved,
         NEW t, Turn(k, q, t)
  PROVE  Books'
<1>1. UNCHANGED <<free, hand, stored, kept, foreign>>
  BY DEF Turn
<1>2. CASE Exceeded(k, q, t) /\ UNCHANGED left
  BY <1>1, <1>2, DiscardKeepsBooks DEF Exceeded, Books, TypeOK, DiskTypes
<1>3. CASE OverCapacityTurn(k, q, t) /\ UNCHANGED left
  BY <1>1, <1>3, ParkKeepsBooks DEF OverCapacityTurn, disk, files
<1>4. CASE WaitTurn(k, q) /\ UNCHANGED left
  BY <1>1, <1>4, ParkKeepsBooks DEF WaitTurn, disk, files
<1>5. CASE Admit(k, q) /\ left' = [left EXCEPT ![k] = Total[k]]
  <2>1. DiskTypes'
    BY <1>1, <1>5, DiskAssumption DEF Books, TypeOK, DiskTypes
  <2> QED BY <1>5, <2>1, AdmitKeepsBooks
<1> QED BY <1>2, <1>3, <1>4, <1>5 DEF Turn

LEMMA FirstTurnQueue ==
  ASSUME Books, NEW k \in Keys, k \notin requested
  PROVE  TurnQueue(k, Append(waiting, k))
BY AppendNew DEF Books, TypeOK, QueueAgrees, TurnQueue

LEMMA LaterTurnQueue ==
  ASSUME Books, NEW k \in Keys, k \in requested
  PROVE  TurnQueue(k, waiting)
BY DEF Books, TypeOK, QueueAgrees, TurnQueue

LEMMA AcquireKeepsBooks ==
  ASSUME Books, NEW k \in Keys, Acquire(k)
  PROVE  Books'
BY FirstTurnQueue, TurnKeepsBooks DEF Acquire

LEMMA RecheckKeepsBooks ==
  ASSUME Books, NEW k \in Keys, Recheck(k)
  PROVE  Books'
<1>1. k \in requested /\ k \notin reserved
  BY DEF Books, CallersAgree, Recheck
<1> QED BY <1>1, LaterTurnQueue, TurnKeepsBooks DEF Recheck

LEMMA CancelKeepsBooks ==
  ASSUME Books, NEW k \in Keys, Cancel(k)
  PROVE  Books'
BY DiscardKeepsBooks DEF Cancel, Books, TypeOK, disk, files, DiskTypes

LEMMA ReleaseKeepsBooks ==
  ASSUME Books, NEW k \in Keys, Release(k)
  PROVE  Books'
<1> USE DEF Books, TypeOK, CallersAgree, QueueAgrees
<1>1. /\ pc' \in [Keys -> {"idle", "parked", "ready", "held"}]
      /\ pc'[k] = "idle"
      /\ \A j \in Keys \ {k} : /\ pc'[j] \in {"parked", "ready"} <=> pc[j] \in {"parked", "ready"}
                               /\ pc'[j] = "held" <=> pc[j] = "held"
  BY DEF Release, NotifyAll
<1>2. QueueAgrees'
  BY DEF Release
<1>3. CallersAgree'
  BY <1>1 DEF Release
<1>4. TypeOK'
  BY <1>1 DEF Release
<1> QED BY <1>2, <1>3, <1>4

LEMMA PollKeepsBooks ==
  ASSUME Books, NEW k \in Keys, Poll(k)
  PROVE  Books'
BY DEF Poll, admission, disk, files, Books, TypeOK, CallersAgree, QueueAgrees

LEMMA ElapseKeepsBooks ==
  ASSUME Books, NEW k \in Keys, Elapse(k)
  PROVE  Books'
BY DEF Elapse, admission, disk, files, Books, TypeOK, CallersAgree, QueueAgrees

(* What leaves the callers and the queue alone.                            *)
LEMMA DiskKeepsBooks ==
  ASSUME Books, UNCHANGED <<pc, admission, timer>>, DiskTypes'
  PROVE  Books'
BY DEF admission, Books, TypeOK, CallersAgree, QueueAgrees, DiskTypes

-----------------------------------------------------------------------------
(* What a package may have on the disk. These lemmas are about values, so  *)
(* that they can be used before and after a step.                          *)

FilesOf(k, lf, hd, st, holders) ==
  /\ \A w \in Workers : hd[w] <= Largest[k]
  /\ lf + st + SumFunctionOnSet(hd, Workers) <= Total[k]
  /\ k \in Streams => st = 0
  /\ k \notin holders => lf = 0 /\ st = 0 /\ \A w \in Workers : hd[w] = 0

LEMMA SizesAreNat == Size \in [Keys -> Nat]
<1> SUFFICES ASSUME NEW k \in Keys PROVE Reservation(k) \in Nat
  BY DEF Size
<1>1. Total[k] \in Nat /\ Largest[k] \in Nat /\ Cardinality(Workers) \in Nat
  BY DiskAssumption, FS_CardinalityType
<1> DEFINE window == Cardinality(Workers) * Largest[k]
<1>2. window \in Nat
  BY <1>1
<1> HIDE DEF window
<1>3. Min({Total[k], window}) \in Nat
  BY <1>1, <1>2, MaxMinOfTwo
<1>4. Max({Largest[k], Min({Total[k], window})}) \in Nat
  BY <1>1, <1>3, MaxMinOfTwo
<1> QED BY <1>1, <1>4 DEF Reservation, window

(* All files of a package, or one file for each worker: either fits.       *)
LEMMA UseFits ==
  ASSUME NEW k \in Keys, NEW lf \in Nat, NEW hd \in [Workers -> Nat], NEW st \in Nat,
         NEW holders, FilesOf(k, lf, hd, st, holders)
  PROVE  /\ SumFunctionOnSet(hd, Workers) \in Nat
         /\ st + SumFunctionOnSet(hd, Workers) <= Size[k]
         /\ k \notin holders => st + SumFunctionOnSet(hd, Workers) = 0
<1> DEFINE n == SumFunctionOnSet(hd, Workers)
           window == Cardinality(Workers) * Largest[k]
<1>1. IsFiniteSet(Workers) /\ Total[k] \in Nat /\ Largest[k] \in Nat
  BY DiskAssumption
<1>2. n \in Nat
  BY <1>1, SumNat
<1>3. n <= window
  BY <1>1, SumBounded DEF FilesOf
<1>4. window \in Nat
  BY <1>1, FS_CardinalityType
<1>5. lf + st + n <= Total[k] /\ (k \in Streams => st = 0)
  BY DEF FilesOf
<1>6. k \notin holders => st = 0 /\ n = 0
  BY <1>1, SumOfZeroes DEF FilesOf
<1>7. Size[k] = IF k \in Streams THEN Max({Largest[k], Min({Total[k], window})}) ELSE Total[k]
  BY DEF Size, Reservation
<1> HIDE DEF n, window
<1>8. st + n <= Size[k]
  <2>1. CASE k \notin Streams
    BY <1>1, <1>2, <1>5, <1>7, <2>1
  <2>2. CASE k \in Streams
    <3>1. Min({Total[k], window}) \in Nat /\ n <= Min({Total[k], window})
      <4>1. n <= Total[k]
        BY <1>1, <1>2, <1>5
      <4> QED BY <1>1, <1>2, <1>3, <1>4, <4>1, MaxMinOfTwo
    <3>2. n <= Max({Largest[k], Min({Total[k], window})})
      <4> DEFINE m == Min({Total[k], window})
      <4> HIDE DEF m
      <4>1. m \in Nat /\ n <= m
        BY <3>1 DEF m
      <4>2. n <= Max({Largest[k], m})
        BY <1>1, <1>2, <4>1, MaxMinOfTwo
      <4> QED BY <4>2 DEF m
    <3> QED BY <1>2, <1>5, <1>7, <2>2, <3>2
  <2> QED BY <2>1, <2>2
<1> QED BY <1>2, <1>6, <1>8 DEF n

(* A package has no more on the disk than it reserved.                     *)
LEMMA WithinReservation ==
  ASSUME DiskTypes, FilesAgree, NEW k \in Keys
  PROVE  /\ HandTotal(k) \in Nat /\ InUse(k) \in Nat
         /\ InUse(k) <= Size[k] /\ Size[k] \in Nat
         /\ k \notin reserved => InUse(k) = 0
         /\ InUse(k) = stored[k] + HandTotal(k)
<1>1. left[k] \in Nat /\ hand[k] \in [Workers -> Nat] /\ stored[k] \in Nat
  BY DEF DiskTypes
<1>2. PICK lf \in Nat, hd \in [Workers -> Nat], st \in Nat :
        lf = left[k] /\ hd = hand[k] /\ st = stored[k]
  BY <1>1
<1>3. PICK R : R = reserved
  OBVIOUS
<1>4. FilesOf(k, lf, hd, st, R)
  BY <1>2, <1>3, Zenon DEF FilesAgree, FilesOf, HandTotal
<1>5. /\ SumFunctionOnSet(hd, Workers) \in Nat
      /\ st + SumFunctionOnSet(hd, Workers) <= Size[k]
      /\ k \notin R => st + SumFunctionOnSet(hd, Workers) = 0
  BY <1>4, UseFits
<1>6. /\ HandTotal(k) = SumFunctionOnSet(hd, Workers)
      /\ InUse(k) = st + SumFunctionOnSet(hd, Workers)
  BY <1>2 DEF HandTotal, InUse
<1>7. st + SumFunctionOnSet(hd, Workers) \in Nat /\ Size[k] \in Nat
  BY <1>5, SizesAreNat
<1> QED BY <1>2, <1>3, <1>5, <1>6, <1>7

(* The same after a step.                                                  *)
LEMMA WithinReservationAfter ==
  ASSUME DiskTypes', FilesAgree', NEW k \in Keys
  PROVE  /\ HandTotal(k)' \in Nat /\ InUse(k)' \in Nat
         /\ InUse(k)' <= Size[k] /\ Size[k] \in Nat
         /\ k \notin reserved' => InUse(k)' = 0
         /\ InUse(k)' = stored'[k] + HandTotal(k)'
<1>1. left'[k] \in Nat /\ hand'[k] \in [Workers -> Nat] /\ stored'[k] \in Nat
  BY DEF DiskTypes
<1>2. PICK lf \in Nat, hd \in [Workers -> Nat], st \in Nat :
        lf = left'[k] /\ hd = hand'[k] /\ st = stored'[k]
  BY <1>1
<1>3. PICK R : R = reserved'
  OBVIOUS
<1>4. FilesOf(k, lf, hd, st, R)
  BY <1>2, <1>3, Zenon DEF FilesAgree, FilesOf, HandTotal
<1>5. /\ SumFunctionOnSet(hd, Workers) \in Nat
      /\ st + SumFunctionOnSet(hd, Workers) <= Size[k]
      /\ k \notin R => st + SumFunctionOnSet(hd, Workers) = 0
  BY <1>4, UseFits
<1>6. /\ HandTotal(k)' = SumFunctionOnSet(hd, Workers)
      /\ InUse(k)' = st + SumFunctionOnSet(hd, Workers)
  BY <1>2 DEF HandTotal, InUse
<1>7. st + SumFunctionOnSet(hd, Workers) \in Nat /\ Size[k] \in Nat
  BY <1>5, SizesAreNat
<1> QED BY <1>2, <1>3, <1>5, <1>6, <1>7

LEMMA OutstandingIsNat ==
  ASSUME DiskTypes, FilesAgree
  PROVE  /\ Outstanding \in [Keys -> Nat]
         /\ \A k \in Keys : Outstanding[k] = Size[k] - InUse(k)
<1>1. Outstanding = [k \in Keys |-> Size[k] - InUse(k)]
  BY DEF Outstanding
<1>2. ASSUME NEW k \in Keys PROVE Size[k] - InUse(k) \in Nat
  BY WithinReservation
<1> QED BY <1>1, <1>2

LEMMA OutstandingIsNatAfter ==
  ASSUME DiskTypes', FilesAgree'
  PROVE  /\ Outstanding' \in [Keys -> Nat]
         /\ \A k \in Keys : Outstanding'[k] = Size[k] - InUse(k)'
<1>1. Outstanding' = [k \in Keys |-> Size[k] - InUse(k)']
  BY DEF Outstanding
<1>2. ASSUME NEW k \in Keys PROVE Size[k] - InUse(k)' \in Nat
  BY WithinReservationAfter
<1> QED BY <1>1, <1>2

-----------------------------------------------------------------------------
(* The sum over the holders of reservations, again about values.           *)

LEMMA SubsetsAreFinite == \A S \in SUBSET Keys : IsFiniteSet(S)
BY FS_Subset, DiskAssumption

(* One holder moves bytes: what it adds to the sum it takes from the disk. *)
LEMMA SumMoves ==
  ASSUME NEW O \in [Keys -> Nat], NEW P \in [Keys -> Nat],
         NEW R \in SUBSET Keys, NEW k \in R, \A j \in R \ {k} : P[j] = O[j],
         NEW a \in Nat, NEW b \in Nat, P[k] + a <= O[k] + b,
         SumFunctionOnSet(O, R) + MinFree <= a
  PROVE  SumFunctionOnSet(P, R) + MinFree <= b
<1>1. IsFiniteSet(R) /\ MinFree \in Nat
  BY SubsetsAreFinite, DiskAssumption
<1>2. SumFunctionOnSet(P, R) + O[k] = SumFunctionOnSet(O, R) + P[k]
  BY <1>1, SumChange
<1>3. SumFunctionOnSet(P, R) \in Nat /\ SumFunctionOnSet(O, R) \in Nat
  BY <1>1, SumNat
<1>4. O[k] \in Nat /\ P[k] \in Nat
  OBVIOUS
<1> QED BY <1>1, <1>2, <1>3, <1>4

(* Nobody moves bytes, or one holder goes.                                 *)
LEMMA SumShrinks ==
  ASSUME NEW O \in [Keys -> Nat], NEW P \in [Keys -> Nat],
         NEW R \in SUBSET Keys, NEW Q \in SUBSET R, \A j \in Q : P[j] = O[j],
         Q = R \/ \E k \in R : Q = R \ {k},
         NEW a \in Nat, NEW b \in Nat, a <= b,
         SumFunctionOnSet(O, R) + MinFree <= a
  PROVE  SumFunctionOnSet(P, Q) + MinFree <= b
<1>1. IsFiniteSet(R) /\ IsFiniteSet(Q) /\ MinFree \in Nat
  BY SubsetsAreFinite, DiskAssumption
<1>2. SumFunctionOnSet(P, Q) = SumFunctionOnSet(O, Q)
  BY <1>1, SumCongruence
<1>3. SumFunctionOnSet(O, Q) \in Nat /\ SumFunctionOnSet(O, R) \in Nat
  BY <1>1, SumNat
<1>4. SumFunctionOnSet(O, Q) <= SumFunctionOnSet(O, R)
  <2>1. CASE Q = R
    BY <1>3, <2>1
  <2>2. CASE \E k \in R : Q = R \ {k}
    <3>1. PICK k \in R : Q = R \ {k}
      BY <2>2
    <3>2. SumFunctionOnSet(O, R) = O[k] + SumFunctionOnSet(O, Q)
      BY <1>1, <3>1, SumRemove
    <3>3. O[k] \in Nat
      OBVIOUS
    <3> QED BY <1>3, <3>2, <3>3
  <2> QED BY <2>1, <2>2
<1> QED BY <1>1, <1>2, <1>3, <1>4

(* The step the code takes its decision in: the sum of the reservations    *)
(* stands for the bytes that may still be put on the disk.                 *)
LEMMA SumGrows ==
  ASSUME NEW O \in [Keys -> Nat], \A j \in Keys : O[j] <= Size[j],
         NEW R \in SUBSET Keys, NEW k \in Keys \ R,
         NEW a \in Nat, NEW b \in Nat, a <= b,
         a - SumFunctionOnSet(Size, R) - Size[k] >= MinFree
  PROVE  SumFunctionOnSet(O, R \union {k}) + MinFree <= b
<1>1. IsFiniteSet(R) /\ MinFree \in Nat /\ Size \in [Keys -> Nat]
  BY SubsetsAreFinite, DiskAssumption, SizesAreNat
<1>2. SumFunctionOnSet(O, R \union {k}) = O[k] + SumFunctionOnSet(O, R)
  BY <1>1, SumAdd
<1>3. SumFunctionOnSet(O, R) <= SumFunctionOnSet(Size, R)
  BY <1>1, SumMonotone
<1>4. SumFunctionOnSet(O, R) \in Nat /\ SumFunctionOnSet(Size, R) \in Nat
  BY <1>1, SumNat
<1>5. O[k] \in Nat /\ Size[k] \in Nat /\ O[k] <= Size[k]
  BY <1>1
<1> QED BY <1>1, <1>2, <1>3, <1>4, <1>5

-----------------------------------------------------------------------------
(* The space, action by action.                                            *)

InBooks == free + kept + foreign

LEMMA InBooksIsNat ==
  ASSUME Books, Books'
  PROVE  InBooks \in Nat /\ InBooks' \in Nat
<1>1. /\ free \in Nat /\ kept \in Nat /\ foreign \in Nat
      /\ free' \in Nat /\ kept' \in Nat /\ foreign' \in Nat
  BY DiskAssumption DEF Books, TypeOK
<1>2. InBooks = free + kept + foreign /\ InBooks' = free' + kept' + foreign'
  BY DEF InBooks
<1>3. \A a, b, c \in Nat : a + b + c \in Nat
  OBVIOUS
<1>4. free + kept + foreign \in Nat
  BY <1>1, <1>3, Zenon
<1>5. free' + kept' + foreign' \in Nat
  BY <1>1, <1>3, Zenon
<1> QED BY <1>2, <1>4, <1>5

(* Nobody's use of the disk changes, and at most one holder goes.          *)
LEMMA NobodyMoves ==
  ASSUME Books, Books', Space, FilesAgree',
         reserved' = reserved \/ \E k \in reserved : reserved' = reserved \ {k},
         \A j \in reserved' : InUse(j)' = InUse(j),
         InBooks <= InBooks'
  PROVE  Space'
<1> SUFFICES ASSUME reserved' # {}
             PROVE  SumFunctionOnSet(Outstanding', reserved') + MinFree <= InBooks'
  BY DEF Space, SumFits, InBooks
<1>1. PICK O \in [Keys -> Nat] : O = Outstanding
  BY TypesOfDisk, OutstandingIsNat DEF Space
<1>2. PICK P \in [Keys -> Nat] : P = Outstanding'
  BY OutstandingIsNatAfter DEF Books, TypeOK, DiskTypes
<1>3. PICK R \in SUBSET Keys : R = reserved
  BY DEF Books, TypeOK
<1>4. PICK Q \in SUBSET R : Q = reserved'
  BY <1>3
<1>5. PICK a \in Nat, b \in Nat : a = InBooks /\ b = InBooks'
  BY InBooksIsNat
<1>6. \A j \in Q : P[j] = O[j]
  BY <1>1, <1>2, <1>3, <1>4 DEF Outstanding
<1>7. SumFunctionOnSet(O, R) + MinFree <= a
  BY <1>1, <1>3, <1>5 DEF Space, SumFits, InBooks
<1>8. Q = R \/ \E k \in R : Q = R \ {k}
  BY <1>3, <1>4
<1>9. a <= b
  BY <1>5
<1>10. SumFunctionOnSet(P, Q) + MinFree <= b
  BY <1>6, <1>7, <1>8, <1>9, SumShrinks
<1> QED BY <1>2, <1>4, <1>5, <1>10

(* One holder's use of the disk changes, by no more than the disk's.       *)
LEMMA OneMovesBytes ==
  ASSUME Books, Books', Space, FilesAgree', reserved' = reserved, NEW k \in reserved,
         \A j \in Keys \ {k} : InUse(j)' = InUse(j),
         InUse(k) + InBooks <= InUse(k)' + InBooks'
  PROVE  Space'
<1>1. PICK O \in [Keys -> Nat] : O = Outstanding
  BY TypesOfDisk, OutstandingIsNat DEF Space
<1>2. PICK P \in [Keys -> Nat] : P = Outstanding'
  BY OutstandingIsNatAfter DEF Books, TypeOK, DiskTypes
<1>3. PICK R \in SUBSET Keys : R = reserved
  BY DEF Books, TypeOK
<1>4. PICK a \in Nat, b \in Nat : a = InBooks /\ b = InBooks'
  BY InBooksIsNat
<1>5. k \in R /\ k \in Keys
  BY <1>3
<1>6. \A j \in R \ {k} : P[j] = O[j]
  BY <1>1, <1>2, <1>3 DEF Outstanding
<1>7. SumFunctionOnSet(O, R) + MinFree <= a
  BY <1>1, <1>3, <1>4, <1>5 DEF Space, SumFits, InBooks
<1>8. P[k] + a <= O[k] + b
  <2>1. O[k] = Size[k] - InUse(k) /\ P[k] = Size[k] - InUse(k)'
    BY <1>1, <1>2, <1>5 DEF Outstanding
  <2>2. InUse(k) \in Nat /\ Size[k] \in Nat
    BY <1>5, TypesOfDisk, WithinReservation DEF Space
  <2>3. InUse(k)' \in Nat
    BY <1>5, WithinReservationAfter DEF Books, TypeOK, DiskTypes
  <2>4. InUse(k) + a <= InUse(k)' + b
    BY <1>4
  <2> QED BY <2>1, <2>2, <2>3, <2>4
<1>9. SumFunctionOnSet(P, R) + MinFree <= b
  BY <1>5, <1>6, <1>7, <1>8, SumMoves
<1> QED BY <1>2, <1>3, <1>4, <1>9 DEF Space, SumFits, InBooks

(* A worker's file changes, and with it the bytes k has in all hands.      *)
LEMMA HandChanges ==
  ASSUME Books, NEW k \in Keys, NEW w \in Workers, NEW n \in Nat,
         hand' = [hand EXCEPT ![k][w] = n]
  PROVE  /\ \A j \in Keys \ {k} : hand'[j] = hand[j]
         /\ hand' \in [Keys -> [Workers -> Nat]]
         /\ hand'[k] = [hand[k] EXCEPT ![w] = n]
         /\ HandTotal(k)' + hand[k][w] = HandTotal(k) + n
         /\ HandTotal(k) \in Nat /\ HandTotal(k)' \in Nat
<1>1. PICK f \in [Workers -> Nat] : f = hand[k]
  BY DEF Books, TypeOK
<1> DEFINE g == [f EXCEPT ![w] = n]
<1>2. g \in [Workers -> Nat] /\ g[w] = n /\ \A v \in Workers \ {w} : g[v] = f[v]
  OBVIOUS
<1>3. hand' = [hand EXCEPT ![k] = g]
  BY <1>1
<1> HIDE DEF g
<1>4. hand \in [Keys -> [Workers -> Nat]]
  BY DEF Books, TypeOK
<1>5. /\ \A j \in Keys \ {k} : hand'[j] = hand[j]
      /\ hand' \in [Keys -> [Workers -> Nat]] /\ hand'[k] = g
  BY <1>2, <1>3, <1>4
<1>6. IsFiniteSet(Workers) /\ Workers \subseteq Workers
  BY DiskAssumption
<1>7. SumFunctionOnSet(g, Workers) + f[w] = SumFunctionOnSet(f, Workers) + g[w]
  BY <1>2, <1>6, SumChange
<1>8. SumFunctionOnSet(g, Workers) \in Nat /\ SumFunctionOnSet(f, Workers) \in Nat
  BY <1>2, <1>6, SumNat
<1>9. HandTotal(k) = SumFunctionOnSet(f, Workers) /\ HandTotal(k)' = SumFunctionOnSet(g, Workers)
  BY <1>1, <1>5 DEF HandTotal
<1>10. hand'[k] = [hand[k] EXCEPT ![w] = n]
  BY <1>1, <1>5 DEF g
<1> QED BY <1>1, <1>2, <1>5, <1>7, <1>8, <1>9, <1>10

(* Who has a file in hand holds a reservation.                             *)
LEMMA HandIsHeld ==
  ASSUME Books, Space, NEW k \in Keys, NEW w \in Workers, hand[k][w] > 0
  PROVE  k \in reserved
BY DEF Space, FilesAgree

(* FilesAgree after a step of k's files: what is to be shown.              *)
LEMMA FilesOfOne ==
  ASSUME Books, Space, NEW k \in reserved, reserved' = reserved,
         \A j \in Keys \ {k} : hand'[j] = hand[j] /\ left'[j] = left[j] /\ stored'[j] = stored[j],
         \A w \in Workers : hand'[k][w] <= Largest[k],
         left'[k] + stored'[k] + HandTotal(k)' <= Total[k],
         k \in Streams => stored'[k] = 0
  PROVE  FilesAgree' /\ \A j \in Keys \ {k} : InUse(j)' = InUse(j)
<1>1. \A j \in Keys \ {k} : HandTotal(j)' = HandTotal(j) /\ InUse(j)' = InUse(j)
  BY DEF HandTotal, InUse
<1>2. ASSUME NEW j \in Keys
      PROVE  /\ \A w \in Workers : hand'[j][w] <= Largest[j]
             /\ left'[j] + stored'[j] + HandTotal(j)' <= Total[j]
             /\ j \in Streams => stored'[j] = 0
             /\ j \notin reserved' =>
                  left'[j] = 0 /\ stored'[j] = 0 /\ \A w \in Workers : hand'[j][w] = 0
  <2>1. CASE j = k
    BY <2>1
  <2>2. CASE j # k
    BY <1>1, <2>2 DEF Space, FilesAgree
  <2> QED BY <2>1, <2>2
<1> QED BY <1>1, <1>2 DEF FilesAgree

LEMMA WriteKeeps ==
  ASSUME Books, Space, NEW k \in Keys, NEW w \in Workers, Write(k, w)
  PROVE  Books' /\ Space'
<1>1. /\ left \in [Keys -> Nat] /\ hand[k] \in [Workers -> Nat] /\ stored \in [Keys -> Nat]
      /\ free \in Nat /\ kept \in Nat /\ foreign \in Nat
      /\ Largest[k] \in Nat /\ Total[k] \in Nat
  BY DiskAssumption DEF Books, TypeOK
<1>2. /\ pc[k] = "held" /\ left[k] > 0 /\ hand[k][w] < Largest[k] /\ free > 0
      /\ left' = [left EXCEPT ![k] = left[k] - 1] /\ free' = free - 1
      /\ UNCHANGED <<pc, admission, timer, stored, kept, foreign>>
  BY DEF Write
<1>3. PICK n \in Nat : n <= Largest[k] /\ hand[k][w] \in Nat /\ n = hand[k][w] + 1
  BY <1>1, <1>2
<1>4. hand' = [hand EXCEPT ![k][w] = n]
  BY <1>3 DEF Write
<1>5. k \in reserved /\ reserved' = reserved
  BY <1>2 DEF Books, CallersAgree, admission
<1>6. /\ \A j \in Keys \ {k} : hand'[j] = hand[j]
      /\ hand' \in [Keys -> [Workers -> Nat]]
      /\ hand'[k] = [hand[k] EXCEPT ![w] = n]
      /\ HandTotal(k)' + hand[k][w] = HandTotal(k) + n
      /\ HandTotal(k) \in Nat /\ HandTotal(k)' \in Nat
  BY <1>4, HandChanges, Zenon
<1>7. HandTotal(k)' = HandTotal(k) + 1
  BY <1>3, <1>6
<1>8. left' \in [Keys -> Nat] /\ left'[k] = left[k] - 1 /\ \A j \in Keys \ {k} : left'[j] = left[j]
  BY <1>1, <1>2
<1>9. free' \in Nat
  BY <1>1, <1>2
<1>10. Books'
  BY <1>2, <1>6, <1>8, <1>9, DiskKeepsBooks DEF Books, TypeOK, DiskTypes
<1>11. \A v \in Workers : hand'[k][v] <= Largest[k]
  BY <1>1, <1>3, <1>6 DEF Space, FilesAgree
<1>12. left'[k] + stored'[k] + HandTotal(k)' <= Total[k]
  <2>1. left[k] + stored[k] + HandTotal(k) <= Total[k]
    BY DEF Space, FilesAgree
  <2>2. stored' = stored /\ stored[k] \in Nat /\ left[k] \in Nat
    BY <1>1, <1>2
  <2> QED BY <1>1, <1>6, <1>7, <1>8, <2>1, <2>2
<1>13. FilesAgree' /\ \A j \in Keys \ {k} : InUse(j)' = InUse(j)
  BY <1>2, <1>5, <1>6, <1>8, <1>11, <1>12, FilesOfOne DEF Space, FilesAgree
<1>14. InUse(k) + InBooks <= InUse(k)' + InBooks'
  <2>1. /\ InUse(k) = stored[k] + HandTotal(k) /\ stored[k] \in Nat
        /\ InUse(k)' = stored[k] + HandTotal(k)'
    BY <1>1, <1>2 DEF InUse, HandTotal
  <2>2. InBooks = free + kept + foreign /\ InBooks' = (free - 1) + kept + foreign
    BY <1>2 DEF InBooks
  <2> QED BY <1>1, <1>6, <1>7, <2>1, <2>2
<1> QED BY <1>5, <1>10, <1>13, <1>14, OneMovesBytes

(* The file of a worker leaves its hand: what LeavesDisk and Keep share.   *)
LEMMA HandEmpties ==
  ASSUME Books, Space, NEW k \in Keys, NEW w \in Workers, hand[k][w] > 0, EmptyHand(k, w)
  PROVE  /\ k \in reserved
         /\ \A j \in Keys \ {k} : hand'[j] = hand[j]
         /\ hand' \in [Keys -> [Workers -> Nat]]
         /\ \A v \in Workers : hand'[k][v] <= Largest[k]
         /\ HandTotal(k)' + hand[k][w] = HandTotal(k)
         /\ HandTotal(k) \in Nat /\ HandTotal(k)' \in Nat /\ hand[k][w] \in Nat
         /\ left[k] + stored[k] + HandTotal(k) <= Total[k]
         /\ k \in Streams => stored[k] = 0
<1>1. hand[k] \in [Workers -> Nat] /\ Largest[k] \in Nat
  BY DiskAssumption DEF Books, TypeOK
<1>2. hand' = [hand EXCEPT ![k][w] = 0]
  BY DEF EmptyHand
<1>3. /\ \A j \in Keys \ {k} : hand'[j] = hand[j]
      /\ hand' \in [Keys -> [Workers -> Nat]]
      /\ hand'[k] = [hand[k] EXCEPT ![w] = 0]
      /\ HandTotal(k)' + hand[k][w] = HandTotal(k) + 0
      /\ HandTotal(k) \in Nat /\ HandTotal(k)' \in Nat
  BY <1>2, HandChanges
<1>4. \A v \in Workers : hand'[k][v] <= Largest[k]
  BY <1>1, <1>3 DEF Space, FilesAgree
<1>5. left[k] + stored[k] + HandTotal(k) <= Total[k] /\ (k \in Streams => stored[k] = 0)
  BY DEF Space, FilesAgree
<1> QED BY <1>1, <1>3, <1>4, <1>5, HandIsHeld

LEMMA LeavesDiskKeeps ==
  ASSUME Books, Space, NEW k \in Keys, NEW w \in Workers, LeavesDisk(k, w)
  PROVE  Books' /\ Space'
<1>1. /\ hand[k][w] > 0 /\ EmptyHand(k, w)
      /\ left' = left \/ left' = [left EXCEPT ![k] = left[k] + hand[k][w]]
      /\ free' = free + hand[k][w]
      /\ UNCHANGED <<pc, admission, timer, stored, kept, foreign>>
  BY DEF LeavesDisk
<1>2. /\ k \in reserved
      /\ \A j \in Keys \ {k} : hand'[j] = hand[j]
      /\ hand' \in [Keys -> [Workers -> Nat]]
      /\ \A v \in Workers : hand'[k][v] <= Largest[k]
      /\ HandTotal(k)' + hand[k][w] = HandTotal(k)
      /\ HandTotal(k) \in Nat /\ HandTotal(k)' \in Nat /\ hand[k][w] \in Nat
      /\ left[k] + stored[k] + HandTotal(k) <= Total[k]
      /\ k \in Streams => stored[k] = 0
  BY <1>1, HandEmpties
<1>3. /\ left \in [Keys -> Nat] /\ stored \in [Keys -> Nat]
      /\ free \in Nat /\ kept \in Nat /\ foreign \in Nat /\ Total[k] \in Nat
  BY DiskAssumption DEF Books, TypeOK
<1> DEFINE n == hand[k][w]
<1>4. n \in Nat
  BY <1>2
<1>5. /\ left' = left \/ left' = [left EXCEPT ![k] = left[k] + n]
      /\ free' = free + n /\ HandTotal(k)' + n = HandTotal(k)
  BY <1>1, <1>2
<1> HIDE DEF n
<1>6. /\ left' \in [Keys -> Nat] /\ \A j \in Keys \ {k} : left'[j] = left[j]
      /\ left'[k] <= left[k] + n /\ left'[k] \in Nat
  BY <1>3, <1>4, <1>5
<1>7. free' \in Nat /\ reserved' = reserved /\ stored' = stored
  BY <1>1, <1>3, <1>4, <1>5 DEF admission
<1>8. Books'
  BY <1>1, <1>2, <1>6, <1>7, DiskKeepsBooks DEF Books, TypeOK, DiskTypes
<1>9. left'[k] + stored'[k] + HandTotal(k)' <= Total[k]
  <2>1. stored[k] \in Nat /\ left[k] \in Nat
    BY <1>3
  <2> QED BY <1>2, <1>3, <1>4, <1>5, <1>6, <1>7, <2>1
<1>10. FilesAgree' /\ \A j \in Keys \ {k} : InUse(j)' = InUse(j)
  BY <1>2, <1>6, <1>7, <1>9, FilesOfOne
<1>11. InUse(k) + InBooks <= InUse(k)' + InBooks'
  <2>1. /\ InUse(k) = stored[k] + HandTotal(k) /\ stored[k] \in Nat
        /\ InUse(k)' = stored[k] + HandTotal(k)'
    BY <1>3, <1>7 DEF InUse, HandTotal
  <2>2. InBooks = free + kept + foreign /\ InBooks' = (free + n) + kept + foreign
    BY <1>1, <1>5 DEF InBooks
  <2> QED BY <1>2, <1>3, <1>4, <1>5, <2>1, <2>2
<1> QED BY <1>2, <1>7, <1>8, <1>10, <1>11, OneMovesBytes

LEMMA KeepKeeps ==
  ASSUME Books, Space, NEW k \in Keys, NEW w \in Workers, Keep(k, w)
  PROVE  Books' /\ Space'
<1>1. /\ hand[k][w] > 0 /\ EmptyHand(k, w)
      /\ UNCHANGED <<pc, admission, timer, free, left, foreign>>
  BY DEF Keep
<1>2. /\ k \in reserved
      /\ \A j \in Keys \ {k} : hand'[j] = hand[j]
      /\ hand' \in [Keys -> [Workers -> Nat]]
      /\ \A v \in Workers : hand'[k][v] <= Largest[k]
      /\ HandTotal(k)' + hand[k][w] = HandTotal(k)
      /\ HandTotal(k) \in Nat /\ HandTotal(k)' \in Nat /\ hand[k][w] \in Nat
      /\ left[k] + stored[k] + HandTotal(k) <= Total[k]
      /\ k \in Streams => stored[k] = 0
  BY <1>1, HandEmpties
<1>3. /\ left \in [Keys -> Nat] /\ stored \in [Keys -> Nat]
      /\ free \in Nat /\ kept \in Nat /\ foreign \in Nat /\ Total[k] \in Nat
  BY DiskAssumption DEF Books, TypeOK
<1> DEFINE n == hand[k][w]
<1>4. n \in Nat /\ HandTotal(k)' + n = HandTotal(k)
  BY <1>2
<1>5. \/ /\ k \in Streams /\ kept' = kept + n /\ stored' = stored
      \/ /\ k \notin Streams /\ kept' = kept
         /\ stored' = [stored EXCEPT ![k] = stored[k] + n]
  BY DEF Keep
<1> HIDE DEF n
<1>6. reserved' = reserved /\ left' = left /\ left[k] \in Nat /\ stored[k] \in Nat
  BY <1>1, <1>3 DEF admission
<1>7. /\ stored' \in [Keys -> Nat] /\ stored'[k] \in Nat
      /\ \A j \in Keys \ {k} : stored'[j] = stored[j]
      /\ k \in Streams => stored'[k] = 0
      /\ stored'[k] <= stored[k] + n
      /\ kept' \in Nat
      /\ stored'[k] + kept' = stored[k] + kept + n
  BY <1>2, <1>3, <1>4, <1>5, <1>6
<1>8. Books'
  BY <1>1, <1>2, <1>7, DiskKeepsBooks DEF Books, TypeOK, DiskTypes
<1>9. left'[k] + stored'[k] + HandTotal(k)' <= Total[k]
  BY <1>2, <1>3, <1>4, <1>6, <1>7
<1>10. FilesAgree' /\ \A j \in Keys \ {k} : InUse(j)' = InUse(j)
  BY <1>2, <1>6, <1>7, <1>9, FilesOfOne
<1>11. InUse(k) + InBooks <= InUse(k)' + InBooks'
  <2>1. /\ InUse(k) = stored[k] + HandTotal(k)
        /\ InUse(k)' = stored'[k] + HandTotal(k)'
    BY DEF InUse, HandTotal
  <2>2. InBooks = free + kept + foreign /\ InBooks' = free + kept' + foreign
    BY <1>1 DEF InBooks
  <2> QED BY <1>2, <1>3, <1>4, <1>6, <1>7, <2>1, <2>2
<1> QED BY <1>2, <1>6, <1>8, <1>10, <1>11, OneMovesBytes

(* A step that leaves the files and the holders alone.                     *)
LEMMA FilesUntouched ==
  ASSUME Books, Books', Space, UNCHANGED <<reserved, left, hand, stored>>,
         InBooks <= InBooks'
  PROVE  Space'
<1>1. FilesAgree' /\ \A j \in reserved' : InUse(j)' = InUse(j)
  BY DEF Space, FilesAgree, HandTotal, InUse
<1> QED BY <1>1, NobodyMoves

LEMMA RestOfDiskKeeps ==
  ASSUME Books, Space, KeptGoes \/ Reclaim \/ ForeignWrite
  PROVE  Books' /\ Space'
<1>1. UNCHANGED <<pc, admission, timer, left, hand, stored>>
  BY DEF KeptGoes, Reclaim, ForeignWrite, files
<1>2. free' \in Nat /\ kept' \in Nat /\ foreign' \in 0 .. MaxForeign
      /\ free + kept + foreign <= free' + kept' + foreign'
  <2>1. free \in Nat /\ kept \in Nat /\ foreign \in 0 .. MaxForeign /\ MaxForeign \in Nat
        /\ Disk \in Nat
    BY DiskAssumption DEF Books, TypeOK
  <2>2. CASE KeptGoes
    BY <2>1, <2>2 DEF KeptGoes
  <2>3. CASE Reclaim
    BY <2>1, <2>3 DEF Reclaim, files
  <2>4. CASE ForeignWrite
    BY <2>1, <2>4 DEF ForeignWrite, files
  <2> QED BY <2>2, <2>3, <2>4
<1>3. Books'
  BY <1>1, <1>2, DiskKeepsBooks DEF Books, TypeOK, DiskTypes
<1>4. InBooks <= InBooks'
  BY <1>2 DEF InBooks
<1> QED BY <1>1, <1>3, <1>4, FilesUntouched DEF admission

LEMMA AdmitKeepsSpace ==
  ASSUME Books, Books', Space, NEW k \in Keys, NEW q, k \notin reserved,
         Admit(k, q), left' = [left EXCEPT ![k] = Total[k]],
         UNCHANGED <<free, hand, stored, kept, foreign>>
  PROVE  Space'
<1>1. PICK O \in [Keys -> Nat] : O = Outstanding
  BY TypesOfDisk, OutstandingIsNat DEF Space
<1>2. PICK R \in SUBSET Keys : R = reserved
  BY DEF Books, TypeOK
<1>3. PICK a \in Nat : a = free
  BY DEF Books, TypeOK
<1>4. PICK b \in Nat : b = InBooks
  BY InBooksIsNat
<1>5. a <= b
  BY <1>3, <1>4 DEF Books, TypeOK, InBooks
<1>6. reserved' = R \union {k} /\ k \in Keys \ R
  BY <1>2 DEF Admit
<1>7. a - SumFunctionOnSet(Size, R) - Size[k] >= MinFree
  BY <1>2, <1>3 DEF Admit, MayAdmit, CanAdmit, ReservedTotal
<1>8. \A j \in Keys : O[j] <= Size[j]
  <2> SUFFICES ASSUME NEW j \in Keys PROVE O[j] <= Size[j]
    OBVIOUS
  <2>1. O[j] = Size[j] - InUse(j)
    BY <1>1 DEF Outstanding
  <2>2. InUse(j) \in Nat /\ Size[j] \in Nat
    BY TypesOfDisk, WithinReservation DEF Space
  <2> QED BY <2>1, <2>2
<1>9. SumFunctionOnSet(O, R \union {k}) + MinFree <= b
  BY <1>5, <1>6, <1>7, <1>8, SumGrows
<1>10. Outstanding' = O /\ InBooks' = b
  BY <1>1, <1>4 DEF Outstanding, InUse, InBooks
<1>11. SumFits'
  BY <1>6, <1>9, <1>10 DEF SumFits, InBooks
<1>12. FilesAgree'
  <2> SUFFICES ASSUME NEW j \in Keys
               PROVE  /\ \A w \in Workers : hand'[j][w] <= Largest[j]
                      /\ left'[j] + stored'[j] + HandTotal(j)' <= Total[j]
                      /\ j \in Streams => stored'[j] = 0
                      /\ j \notin reserved' =>
                           /\ left'[j] = 0 /\ stored'[j] = 0
                           /\ \A w \in Workers : hand'[j][w] = 0
    BY DEF FilesAgree
  <2>1. HandTotal(j)' = HandTotal(j) /\ hand'[j] = hand[j] /\ stored'[j] = stored[j]
    BY DEF HandTotal
  <2>2. /\ \A w \in Workers : hand[j][w] <= Largest[j]
        /\ left[j] + stored[j] + HandTotal(j) <= Total[j]
        /\ j \in Streams => stored[j] = 0
        /\ j \notin reserved =>
             left[j] = 0 /\ stored[j] = 0 /\ \A w \in Workers : hand[j][w] = 0
    BY DEF Space, FilesAgree
  <2>3. CASE j = k
    <3>1. InUse(k) = 0 /\ HandTotal(k) \in Nat /\ InUse(k) = stored[k] + HandTotal(k)
      BY TypesOfDisk, WithinReservation DEF Space
    <3>2. left'[k] = Total[k] /\ Total[k] \in Nat /\ stored[k] \in Nat
      BY DiskAssumption DEF Books, TypeOK
    <3> QED BY <1>6, <2>1, <2>2, <2>3, <3>1, <3>2
  <2>4. CASE j # k
    <3>1. left'[j] = left[j]
      BY <2>4 DEF Books, TypeOK
    <3> QED BY <1>2, <1>6, <2>1, <2>2, <2>4, <3>1
  <2> QED BY <2>3, <2>4
<1> QED BY <1>11, <1>12 DEF Space

LEMMA TurnKeepsSpace ==
  ASSUME Books, Books', Space, NEW k \in Keys, NEW q, k \notin reserved,
         NEW t, Turn(k, q, t)
  PROVE  Space'
<1>1. UNCHANGED <<free, hand, stored, kept, foreign>>
  BY DEF Turn
<1>2. CASE Admit(k, q) /\ left' = [left EXCEPT ![k] = Total[k]]
  BY <1>1, <1>2, AdmitKeepsSpace
<1>3. CASE /\ UNCHANGED left
           /\ Exceeded(k, q, t) \/ OverCapacityTurn(k, q, t) \/ WaitTurn(k, q)
  <2>1. reserved' = reserved
    BY <1>3 DEF Exceeded, Discard, OverCapacityTurn, WaitTurn, Park
  <2>2. InBooks <= InBooks'
    BY <1>1 DEF InBooks, Books, TypeOK
  <2> QED BY <1>1, <1>3, <2>1, <2>2, FilesUntouched
<1> QED BY <1>2, <1>3 DEF Turn

LEMMA ReleaseKeepsSpace ==
  ASSUME Books, Books', Space, NEW k \in Keys, Release(k)
  PROVE  Space'
<1>1. k \in reserved /\ reserved' = reserved \ {k}
  BY DEF Release, Books, CallersAgree
<1>2. /\ left' = [left EXCEPT ![k] = 0] /\ stored' = [stored EXCEPT ![k] = 0]
      /\ hand' = [hand EXCEPT ![k] = [w \in Workers |-> 0]]
      /\ UNCHANGED <<free, kept, foreign>>
  BY DEF Release
<1>3. \A j \in Keys \ {k} : /\ left'[j] = left[j] /\ stored'[j] = stored[j] /\ hand'[j] = hand[j]
                            /\ HandTotal(j)' = HandTotal(j) /\ InUse(j)' = InUse(j)
  BY <1>2 DEF Books, TypeOK, HandTotal, InUse
<1>4. left'[k] = 0 /\ stored'[k] = 0 /\ hand'[k] = [w \in Workers |-> 0] /\ HandTotal(k)' = 0
  <2>1. left'[k] = 0 /\ stored'[k] = 0 /\ hand'[k] = [w \in Workers |-> 0]
    BY <1>2 DEF Books, TypeOK
  <2>2. SumFunctionOnSet([w \in Workers |-> 0], Workers) = 0
    <3> DEFINE z == [w \in Workers |-> 0]
    <3>1. z \in [Workers -> Nat] /\ \A w \in Workers : z[w] = 0
      OBVIOUS
    <3>2. IsFiniteSet(Workers) /\ Workers \subseteq Workers
      BY DiskAssumption
    <3> HIDE DEF z
    <3>3. SumFunctionOnSet(z, Workers) = 0
      BY <3>1, <3>2, SumOfZeroes
    <3> QED BY <3>3 DEF z
  <2> QED BY <2>1, <2>2 DEF HandTotal
<1>5. FilesAgree'
  <2> SUFFICES ASSUME NEW j \in Keys
               PROVE  /\ \A w \in Workers : hand'[j][w] <= Largest[j]
                      /\ left'[j] + stored'[j] + HandTotal(j)' <= Total[j]
                      /\ j \in Streams => stored'[j] = 0
                      /\ j \notin reserved' =>
                           /\ left'[j] = 0 /\ stored'[j] = 0
                           /\ \A w \in Workers : hand'[j][w] = 0
    BY DEF FilesAgree
  <2>1. CASE j = k
    <3>1. Largest[k] \in Nat /\ Total[k] \in Nat
      BY DiskAssumption
    <3> QED BY <1>4, <2>1, <3>1
  <2>2. CASE j # k
    BY <1>1, <1>3, <2>2 DEF Space, FilesAgree
  <2> QED BY <2>1, <2>2
<1>6. \A j \in reserved' : InUse(j)' = InUse(j)
  BY <1>1, <1>3 DEF Books, TypeOK
<1>7. InBooks <= InBooks'
  BY <1>2 DEF InBooks, Books, TypeOK
<1> QED BY <1>1, <1>5, <1>6, <1>7, NobodyMoves

-----------------------------------------------------------------------------
LEMMA InitIInv == Init => IInv
<1> SUFFICES ASSUME Init PROVE IInv
  OBVIOUS
<1> USE DEF Init
<1>1. TypeOK
  <2>1. <<>> \in Seq(Keys)
    BY EmptySeq
  <2> QED BY <2>1, DiskAssumption DEF TypeOK
<1>2. CallersAgree
  BY DEF CallersAgree
<1>3. QueueAgrees
  BY DEF QueueAgrees, NoRepeat, Among
<1>4. SumFits
  BY DEF SumFits
<1>5. FilesAgree
  <2> SUFFICES ASSUME NEW k \in Keys
               PROVE  /\ \A w \in Workers : hand[k][w] <= Largest[k]
                      /\ left[k] + stored[k] + HandTotal(k) <= Total[k]
                      /\ k \in Streams => stored[k] = 0
                      /\ left[k] = 0 /\ stored[k] = 0 /\ \A w \in Workers : hand[k][w] = 0
    BY DEF FilesAgree
  <2> DEFINE z == [w \in Workers |-> 0]
  <2>1. z \in [Workers -> Nat] /\ (\A w \in Workers : z[w] = 0) /\ IsFiniteSet(Workers)
    BY DiskAssumption
  <2>2. hand[k] = z /\ left[k] = 0 /\ stored[k] = 0 /\ Largest[k] \in Nat /\ Total[k] \in Nat
    BY DiskAssumption
  <2> HIDE DEF z
  <2>3. SumFunctionOnSet(z, Workers) = 0
    BY <2>1, SumOfZeroes
  <2>4. HandTotal(k) = 0
    BY <2>2, <2>3 DEF HandTotal
  <2> QED BY <2>1, <2>2, <2>4
<1> QED BY <1>1, <1>2, <1>3, <1>4, <1>5 DEF IInv, Books, Space

LEMMA StepIInv == IInv /\ [Next]_vars => IInv'
<1> SUFFICES ASSUME Books, Space, [Next]_vars PROVE Books' /\ Space'
  BY DEF IInv
<1>1. ASSUME NEW k \in Keys, Acquire(k) PROVE Books' /\ Space'
  BY <1>1, AcquireKeepsBooks, TurnKeepsSpace DEF Acquire
<1>2. ASSUME NEW k \in Keys, Recheck(k) PROVE Books' /\ Space'
  <2>1. k \notin reserved
    BY <1>2 DEF Books, CallersAgree, Recheck
  <2> QED BY <1>2, <2>1, RecheckKeepsBooks, TurnKeepsSpace DEF Recheck
<1>3. ASSUME Books', UNCHANGED <<reserved, disk>> PROVE Space'
  <2>1. InBooks <= InBooks'
    BY <1>3 DEF InBooks, disk, files, Books, TypeOK
  <2> QED BY <1>3, <2>1, FilesUntouched DEF disk, files
<1>4. ASSUME NEW k \in Keys, Poll(k) \/ Elapse(k) PROVE Books' /\ Space'
  <2>1. Books'
    BY <1>4, PollKeepsBooks, ElapseKeepsBooks
  <2>2. UNCHANGED <<reserved, disk>>
    BY <1>4 DEF Poll, Elapse, admission
  <2> QED BY <1>3, <2>1, <2>2
<1>5. ASSUME NEW k \in Keys, Cancel(k) PROVE Books' /\ Space'
  <2>1. Books'
    BY <1>5, CancelKeepsBooks
  <2>2. UNCHANGED <<reserved, disk>>
    BY <1>5 DEF Cancel, Discard, Books, CallersAgree
  <2> QED BY <1>3, <2>1, <2>2
<1>6. ASSUME NEW k \in Keys, Release(k) PROVE Books' /\ Space'
  BY <1>6, ReleaseKeepsBooks, ReleaseKeepsSpace
<1>7. ASSUME NEW k \in Keys, NEW w \in Workers, Write(k, w) \/ LeavesDisk(k, w) \/ Keep(k, w)
      PROVE  Books' /\ Space'
  BY <1>7, WriteKeeps, LeavesDiskKeeps, KeepKeeps
<1>8. CASE KeptGoes \/ Reclaim \/ ForeignWrite
  BY <1>8, RestOfDiskKeeps
<1>9. CASE UNCHANGED vars
  <2>1. Books'
    BY <1>9 DEF vars, admission, disk, files, Books, TypeOK, CallersAgree, QueueAgrees
  <2> QED BY <1>3, <1>9, <2>1 DEF vars, admission
<1> QED BY <1>1, <1>2, <1>4, <1>5, <1>6, <1>7, <1>8, <1>9 DEF Next, Caller

(* Every reachable state has the types, the agreement of the books, the    *)
(* agreement of the files with the reservations and the bound on the       *)
(* outstanding bytes, for any number of packages and workers.              *)
THEOREM Inductive == Spec => []IInv
<1>1. Init => IInv
  BY InitIInv
<1>2. IInv /\ [Next]_vars => IInv'
  BY StepIInv
<1> QED BY <1>1, <1>2, PTL DEF Spec

(* The bookkeeping of DiskSpaceAdmission stays within its types, and no    *)
(* count of bytes becomes negative.                                        *)
THEOREM TypesHold == Spec => []TypeOK
<1>1. IInv => TypeOK
  BY DEF IInv, Books
<1> QED BY <1>1, Inductive, PTL

(* acquire() returns a reservation or leaves nothing behind: requests,     *)
(* reservations and places in the deque agree with the callers, through    *)
(* refusals, cancellations and releases in any order.                      *)
THEOREM NothingIsLeftBehind == Spec => []NothingLeftBehind
<1>1. IInv => NothingLeftBehind
  BY BooksAgree DEF IInv
<1> QED BY <1>1, Inductive, PTL

(* The code compares the free space with the sum of whole reservations,    *)
(* and reserves for a package that streams one file for each worker. Both  *)
(* are enough: no package has more on the disk than it reserved, and what  *)
(* the admitted ones may still put there fits above the minimum, up to     *)
(* what writers without a reservation took and failed uploads left behind. *)
THEOREM OutstandingAlwaysFits == Spec => []OutstandingFits
<1>1. IInv => OutstandingFits
  <2> SUFFICES ASSUME IInv PROVE OutstandingFits
    OBVIOUS
  <2>1. \A k \in reserved : InUse(k) <= Size[k]
    BY TypesOfDisk, WithinReservation DEF IInv, Books, TypeOK, Space
  <2> QED BY <2>1 DEF OutstandingFits, IInv, Space, SumFits
<1> QED BY <1>1, Inductive, PTL

(* Admitting packages preserves minimum_free_bytes: while anything is      *)
(* admitted the disk keeps that much free, up to what writers without a    *)
(* reservation took and failed uploads left behind.                        *)
THEOREM FreeSpaceIsPreserved == Spec => []FreeSpacePreserved
<1>1. IInv => FreeSpacePreserved
  <2> SUFFICES ASSUME IInv, reserved # {} PROVE free + kept + foreign >= MinFree
    BY DEF FreeSpacePreserved
  <2>1. PICK O \in [Keys -> Nat] : O = Outstanding
    BY TypesOfDisk, OutstandingIsNat DEF IInv, Space
  <2>2. PICK R \in SUBSET Keys : R = reserved
    BY DEF IInv, Books, TypeOK
  <2>3. SumFunctionOnSet(O, R) \in Nat
    BY SubsetsAreFinite, SumNat
  <2>4. SumFunctionOnSet(O, R) + MinFree <= free + kept + foreign
    BY <2>1, <2>2 DEF IInv, Space, SumFits
  <2>5. free \in Nat /\ kept \in Nat /\ foreign \in Nat /\ MinFree \in Nat
    BY DiskAssumption DEF IInv, Books, TypeOK
  <2> QED BY <2>3, <2>4, <2>5
<1> QED BY <1>1, Inductive, PTL
=============================================================================
