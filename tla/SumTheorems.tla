---------------------------- MODULE SumTheorems ----------------------------
(***************************************************************************)
(* Sums over finite sets.  A sum is a fold of the library, by a recursion  *)
(* over the parts of the set: the recursion has one solution, which does   *)
(* not depend on the order of the set, so that elements may be added and   *)
(* taken out, and a sum of more and larger numbers is larger.              *)
(***************************************************************************)
EXTENDS Integers, FiniteSets, Functions, FiniteSetTheorems, WellFoundedInduction, TLAPS

\* Induction over numbers and over a finite set, for a set instead of a property.
LEMMA AllNumbers ==
  ASSUME NEW T, 0 \in T, \A n \in Nat : n \in T => n + 1 \in T
  PROVE  Nat \subseteq T
<1> DEFINE out == {n \in Nat : n \notin T}
<1> SUFFICES ASSUME out # {} PROVE FALSE
  OBVIOUS
<1>1. PICK n \in out : \A m \in out : <<m, n>> \notin OpToRel(<, Nat)
  BY NatLessThanWellFounded, WFMin
<1>2. \A m \in out : ~(m < n)
  BY <1>1 DEF OpToRel
<1>3. n # 0
  BY <1>1
<1>4. n - 1 \in Nat /\ n - 1 \notin out
  BY <1>2, <1>3
<1>5. n - 1 \in T
  BY <1>4
<1>6. (n - 1) + 1 \in T /\ (n - 1) + 1 = n
  BY <1>4, <1>5
<1> QED
  BY <1>1, <1>6

Pick(S) == CHOOSE x \in S : TRUE

\* The recursion of a sum over the parts of a set.
Folds(g, f, S) ==
  g = [s \in SUBSET S |-> IF s = {} THEN 0 ELSE f[Pick(s)] + g[s \ {Pick(s)}]]

LEMMA SumIsFold ==
  ASSUME NEW f, NEW S
  PROVE  SumFunctionOnSet(f, S) = (CHOOSE g : Folds(g, f, S))[S]
BY DEF SumFunctionOnSet, FoldFunctionOnSet, MapThenFoldSet, Folds, Pick

LEMMA WithoutPick ==
  ASSUME NEW S, IsFiniteSet(S), S # {}
  PROVE  /\ Pick(S) \in S /\ IsFiniteSet(S \ {Pick(S)})
         /\ Cardinality(S) \in Nat /\ Cardinality(S) > 0
         /\ Cardinality(S \ {Pick(S)}) = Cardinality(S) - 1
<1>1. Pick(S) \in S
  BY DEF Pick
<1> QED
  BY <1>1, FS_RemoveElement, FS_EmptySet, FS_CardinalityType

\* The recursion has a solution, by the size of the parts.
LEMMA FoldExists ==
  ASSUME NEW S, IsFiniteSet(S), NEW f \in [S -> Int]
  PROVE  \E g \in [SUBSET S -> Int] : Folds(g, f, S)
<1> DEFINE Upto(n) == {s \in SUBSET S : Cardinality(s) <= n}
           Step(g, s) == IF s = {} THEN 0 ELSE f[Pick(s)] + g[s \ {Pick(s)}]
           T == {n \in Nat : \E g \in [SUBSET S -> Int] : \A s \in Upto(n) : g[s] = Step(g, s)}
<1>1. \A s \in SUBSET S : IsFiniteSet(s) /\ Cardinality(s) \in Nat /\ Cardinality(s) <= Cardinality(S)
  BY FS_Subset, FS_CardinalityType
<1>2. 0 \in T
  <2>1. [s \in SUBSET S |-> 0] \in [SUBSET S -> Int]
    OBVIOUS
  <2>2. \A s \in Upto(0) : s = {}
    BY <1>1, FS_EmptySet
  <2> QED
    BY <2>1, <2>2
<1>3. ASSUME NEW n \in Nat, n \in T PROVE n + 1 \in T
  <2>1. PICK g \in [SUBSET S -> Int] : \A s \in Upto(n) : g[s] = Step(g, s)
    BY <1>3
  <2> DEFINE h == [s \in SUBSET S |-> Step(g, s)]
  <2>2. ASSUME NEW s \in SUBSET S, s # {}
        PROVE  /\ Pick(s) \in S /\ s \ {Pick(s)} \in SUBSET S
               /\ Cardinality(s \ {Pick(s)}) = Cardinality(s) - 1
    BY <1>1, <2>2, WithoutPick
  <2>3. h \in [SUBSET S -> Int]
    BY <2>2
  <2>4. ASSUME NEW s \in Upto(n + 1) PROVE h[s] = Step(h, s)
    <3>1. CASE s = {}
      BY <3>1
    <3>2. CASE s # {}
      <4>1. s \ {Pick(s)} \in Upto(n)
        BY <2>2, <3>2, <1>1
      <4>2. h[s \ {Pick(s)}] = g[s \ {Pick(s)}]
        BY <4>1, <2>1
      <4> QED
        BY <4>1, <4>2, <3>2
    <3> QED
      BY <3>1, <3>2
  <2>5. \E k \in [SUBSET S -> Int] : \A s \in Upto(n + 1) : k[s] = Step(k, s)
    <3> HIDE DEF h, Upto, Step
    <3> QED
      BY <2>3, <2>4
  <2> HIDE DEF Upto, Step
  <2> QED
    BY <2>5
<1>4. Cardinality(S) \in T
  <2> HIDE DEF T
  <2> QED
    BY <1>2, <1>3, AllNumbers, FS_CardinalityType
<1>5. PICK g \in [SUBSET S -> Int] : \A s \in Upto(Cardinality(S)) : g[s] = Step(g, s)
  BY <1>4
<1>6. \A s \in SUBSET S : g[s] = Step(g, s)
  BY <1>1, <1>5
<1>7. g = [s \in SUBSET S |-> Step(g, s)]
  BY <1>6
<1> QED
  BY <1>7 DEF Folds

\* A sum does not depend on the set it was begun for, so it unfolds.
LEMMA FoldsAgree ==
  ASSUME NEW S, IsFiniteSet(S), NEW R \in SUBSET S, NEW f, NEW g, NEW h,
         Folds(g, f, S), Folds(h, f, R)
  PROVE  g[R] = h[R]
<1> DEFINE T == {n \in Nat : \A s \in SUBSET R : Cardinality(s) = n => g[s] = h[s]}
<1>1. \A s \in SUBSET R : IsFiniteSet(s) /\ Cardinality(s) \in Nat /\ s \in SUBSET S
  BY FS_Subset, FS_CardinalityType
<1>2. \A s \in SUBSET S :
         g[s] = IF s = {} THEN 0 ELSE f[Pick(s)] + g[s \ {Pick(s)}]
  BY DEF Folds
<1>3. \A s \in SUBSET R :
         h[s] = IF s = {} THEN 0 ELSE f[Pick(s)] + h[s \ {Pick(s)}]
  BY DEF Folds
<1>4. 0 \in T
  BY <1>1, <1>2, <1>3, FS_EmptySet
<1>5. ASSUME NEW n \in Nat, n \in T PROVE n + 1 \in T
  <2>1. ASSUME NEW s \in SUBSET R, Cardinality(s) = n + 1 PROVE g[s] = h[s]
    <3>1. s # {}
      BY <2>1, FS_EmptySet
    <3>2. s \ {Pick(s)} \in SUBSET R /\ Cardinality(s \ {Pick(s)}) = n
      BY <2>1, <3>1, <1>1, WithoutPick
    <3>3. g[s \ {Pick(s)}] = h[s \ {Pick(s)}]
      BY <3>2, <1>5
    <3> QED
      BY <3>1, <3>3, <1>1, <1>2, <1>3
  <2> QED
    BY <2>1
<1>6. Cardinality(R) \in T
  <2> HIDE DEF T
  <2> QED
    BY <1>1, <1>4, <1>5, AllNumbers
<1> QED
  BY <1>6

LEMMA SumUnfolds ==
  ASSUME NEW S, IsFiniteSet(S), NEW f, \A x \in S : f[x] \in Int, NEW R \in SUBSET S
  PROVE  /\ SumFunctionOnSet(f, R) \in Int
         /\ R = {} => SumFunctionOnSet(f, R) = 0
         /\ R # {} => SumFunctionOnSet(f, R)
                        = f[Pick(R)] + SumFunctionOnSet(f, R \ {Pick(R)})
<1> DEFINE G(Q) == CHOOSE g : Folds(g, f, Q)
<1>1. ASSUME NEW Q \in SUBSET S
      PROVE  Folds(G(Q), f, Q) /\ SumFunctionOnSet(f, Q) = G(Q)[Q] /\ G(Q)[Q] \in Int
  <2>1. IsFiniteSet(Q)
    BY FS_Subset
  <2> DEFINE e == [x \in Q |-> f[x]]
  <2>2. e \in [Q -> Int]
    OBVIOUS
  <2>3. PICK g \in [SUBSET Q -> Int] : Folds(g, e, Q)
    <3> HIDE DEF e
    <3> QED
      BY <2>1, <2>2, FoldExists
  <2>4. \A s \in SUBSET Q : s # {} => Pick(s) \in Q
    BY DEF Pick
  <2>5. Folds(g, f, Q)
    BY <2>3, <2>4 DEF Folds
  <2>6. Folds(G(Q), f, Q)
    BY <2>5
  <2>7. G(Q)[Q] = g[Q]
    <3> HIDE DEF G
    <3> QED
      BY <2>1, <2>5, <2>6, FoldsAgree
  <2> QED
    BY <2>3, <2>6, <2>7, SumIsFold
<1>2. CASE R = {}
  <2> DEFINE g == G(R)
  <2>1. Folds(g, f, R) /\ SumFunctionOnSet(f, R) = g[R]
    BY <1>1
  <2>2. g[R] = 0
    <3> HIDE DEF g
    <3> QED
      BY <1>2, <2>1 DEF Folds
  <2> QED
    BY <1>2, <2>1, <2>2
<1>3. CASE R # {}
  <2> DEFINE Q == R \ {Pick(R)}
             g == G(R)
             h == G(Q)
  <2>1. IsFiniteSet(R) /\ Q \in SUBSET R /\ Q \in SUBSET S
    BY FS_Subset
  <2>2. /\ Folds(g, f, R) /\ SumFunctionOnSet(f, R) = g[R] /\ g[R] \in Int
        /\ Folds(h, f, Q) /\ SumFunctionOnSet(f, Q) = h[Q]
    <3> HIDE DEF Q
    <3> QED
      BY <1>1, <2>1
  <2> HIDE DEF g, h
  <2>3. g[R] = f[Pick(R)] + g[Q]
    BY <1>3, <2>2 DEF Folds
  <2>4. g[Q] = h[Q]
    <3> HIDE DEF Q
    <3> QED
      BY <2>1, <2>2, FoldsAgree
  <2> QED
    BY <1>3, <2>2, <2>3, <2>4
<1> QED
  BY <1>2, <1>3

\* Every element may be taken out first.
LEMMA SumTakesOut ==
  ASSUME NEW S, IsFiniteSet(S), NEW f, \A x \in S : f[x] \in Int, NEW x \in S
  PROVE  SumFunctionOnSet(f, S) = f[x] + SumFunctionOnSet(f, S \ {x})
<1> DEFINE Sum(R) == SumFunctionOnSet(f, R)
           T == {n \in Nat : \A R \in SUBSET S : Cardinality(R) = n =>
                               \A y \in R : Sum(R) = f[y] + Sum(R \ {y})}
<1>1. \A R \in SUBSET S : IsFiniteSet(R) /\ Cardinality(R) \in Nat
  BY FS_Subset, FS_CardinalityType
<1>2. ASSUME NEW R \in SUBSET S
      PROVE  Sum(R) \in Int /\ (R # {} => Sum(R) = f[Pick(R)] + Sum(R \ {Pick(R)}))
  <2>1. SumFunctionOnSet(f, R) \in Int
    BY SumUnfolds
  <2>2. R # {} => SumFunctionOnSet(f, R) = f[Pick(R)] + SumFunctionOnSet(f, R \ {Pick(R)})
    BY SumUnfolds
  <2> QED
    BY <2>1, <2>2
<1>3. 0 \in T
  BY <1>1, FS_EmptySet
<1>4. ASSUME NEW n \in Nat, n \in T PROVE n + 1 \in T
  <2>1. ASSUME NEW R \in SUBSET S, Cardinality(R) = n + 1, NEW y \in R
        PROVE  Sum(R) = f[y] + Sum(R \ {y})
    <3>1. CASE y = Pick(R)
      BY <3>1, <1>2
    <3>2. CASE y # Pick(R)
      <4> DEFINE a == Pick(R)
      <4>1. a \in R
        BY DEF Pick
      <4>2. /\ Cardinality(R \ {a}) = n /\ Cardinality(R \ {y}) = n
            /\ R \ {a} \in SUBSET S /\ R \ {y} \in SUBSET S
        <5> HIDE DEF a, T
        <5>1. \A z \in R : Cardinality(R \ {z}) = Cardinality(R) - 1
          BY <1>1, FS_RemoveElement
        <5> QED
          BY <2>1, <4>1, <5>1
      <4>3. y \in R \ {a} /\ a \in R \ {y} /\ (R \ {a}) \ {y} = (R \ {y}) \ {a}
        BY <3>2, <4>1
      <4>4. Sum(R) = f[a] + Sum(R \ {a})
        BY <1>2, <4>1
      <4>5. /\ Sum(R \ {a}) = f[y] + Sum((R \ {a}) \ {y})
            /\ Sum(R \ {y}) = f[a] + Sum((R \ {y}) \ {a})
        <5> HIDE DEF Sum, a
        <5> QED
          BY <1>4, <4>2, <4>3
      <4>6. f[a] \in Int /\ f[y] \in Int /\ Sum((R \ {a}) \ {y}) \in Int
        BY <1>2, <4>1, <4>2
      <4>7. Sum(R \ {y}) = f[a] + Sum((R \ {a}) \ {y})
        <5> HIDE DEF Sum
        <5> QED
          BY <4>3, <4>5
      <4>8. Sum(R) \in Int /\ Sum(R \ {a}) \in Int /\ Sum(R \ {y}) \in Int
        BY <1>2, <4>2
      <4>9. \A u, v, all, rest, left, both \in Int :
               all = u + rest /\ rest = v + both /\ left = u + both => all = v + left
        OBVIOUS
      <4> HIDE DEF Sum, a
      <4> QED
        BY <4>4, <4>5, <4>6, <4>7, <4>8, <4>9
    <3> QED
      BY <3>1, <3>2
  <2> HIDE DEF Sum
  <2> QED
    BY <2>1
<1>5. Cardinality(S) \in T
  <2> HIDE DEF T
  <2> QED
    BY <1>1, <1>3, <1>4, AllNumbers
<1> QED
  BY <1>5

LEMMA SumOfNothing ==
  ASSUME NEW f
  PROVE  SumFunctionOnSet(f, {}) = 0
BY SumUnfolds, FS_EmptySet

LEMMA SumWith ==
  ASSUME NEW S, IsFiniteSet(S), NEW f, \A y \in S : f[y] \in Int,
         NEW x, x \notin S, f[x] \in Int
  PROVE  SumFunctionOnSet(f, S \cup {x}) = SumFunctionOnSet(f, S) + f[x]
<1>1. IsFiniteSet(S \cup {x}) /\ (S \cup {x}) \ {x} = S
  BY FS_AddElement
<1>2. \A y \in S \cup {x} : f[y] \in Int
  OBVIOUS
<1>3. SumFunctionOnSet(f, S \cup {x}) = f[x] + SumFunctionOnSet(f, (S \cup {x}) \ {x})
  BY <1>1, <1>2, SumTakesOut
<1>4. SumFunctionOnSet(f, S) \in Int
  BY SumUnfolds
<1>5. \A a, b \in Int : a + b = b + a
  OBVIOUS
<1>6. SumFunctionOnSet(f, S \cup {x}) = f[x] + SumFunctionOnSet(f, S)
  BY <1>1, <1>3
<1> QED
  BY <1>4, <1>5, <1>6

LEMMA SumWithout ==
  ASSUME NEW S, IsFiniteSet(S), NEW f, \A y \in S : f[y] \in Int, NEW x \in S
  PROVE  SumFunctionOnSet(f, S \ {x}) = SumFunctionOnSet(f, S) - f[x]
<1>1. SumFunctionOnSet(f, S) = f[x] + SumFunctionOnSet(f, S \ {x})
  BY SumTakesOut
<1>2. SumFunctionOnSet(f, S \ {x}) \in Int
  BY SumUnfolds
<1> QED
  BY <1>1, <1>2

LEMMA SumIsNat ==
  ASSUME NEW S, IsFiniteSet(S), NEW f, \A x \in S : f[x] \in Nat
  PROVE  SumFunctionOnSet(f, S) \in Nat
<1> DEFINE T == {n \in Nat : \A R \in SUBSET S : Cardinality(R) = n => SumFunctionOnSet(f, R) \in Nat}
<1>1. \A R \in SUBSET S : IsFiniteSet(R) /\ Cardinality(R) \in Nat
  BY FS_Subset, FS_CardinalityType
<1>2. 0 \in T
  <2>1. \A R \in SUBSET S : Cardinality(R) = 0 => SumFunctionOnSet(f, R) = 0
    BY <1>1, FS_EmptySet, SumUnfolds
  <2> QED
    BY <2>1
<1>3. ASSUME NEW n \in Nat, n \in T PROVE n + 1 \in T
  <2>1. ASSUME NEW R \in SUBSET S, Cardinality(R) = n + 1
        PROVE  SumFunctionOnSet(f, R) \in Nat
    <3>1. R # {}
      BY <2>1, FS_EmptySet
    <3>2. Pick(R) \in R /\ Cardinality(R \ {Pick(R)}) = n
      BY <1>1, <2>1, <3>1, WithoutPick
    <3>3. SumFunctionOnSet(f, R \ {Pick(R)}) \in Nat
      BY <1>3, <3>2
    <3>4. SumFunctionOnSet(f, R) = f[Pick(R)] + SumFunctionOnSet(f, R \ {Pick(R)})
      BY <3>1, SumUnfolds
    <3>5. f[Pick(R)] \in Nat
      BY <3>2
    <3> QED
      BY <3>3, <3>4, <3>5
  <2> QED
    BY <2>1
<1>4. Cardinality(S) \in T
  <2> HIDE DEF T
  <2> QED
    BY <1>1, <1>2, <1>3, AllNumbers
<1> QED
  BY <1>4

\* Two sums of one function over disjoint sets.
LEMMA SumOfUnion ==
  ASSUME NEW S, IsFiniteSet(S), NEW f, \A x \in S : f[x] \in Int,
         NEW R \in SUBSET S
  PROVE  SumFunctionOnSet(f, S) = SumFunctionOnSet(f, R) + SumFunctionOnSet(f, S \ R)
<1> DEFINE Sum(Q) == SumFunctionOnSet(f, Q)
           T == {n \in Nat : \A Q \in SUBSET R : Cardinality(Q) = n =>
                               Sum(S) = Sum(Q) + Sum(S \ Q)}
<1>1. \A Q \in SUBSET S : IsFiniteSet(Q) /\ Cardinality(Q) \in Nat /\ Sum(Q) \in Int
  <2>1. ASSUME NEW Q \in SUBSET S
        PROVE  IsFiniteSet(Q) /\ Cardinality(Q) \in Nat /\ SumFunctionOnSet(f, Q) \in Int
    <3>1. IsFiniteSet(Q) /\ Cardinality(Q) \in Nat
      BY FS_Subset, FS_CardinalityType
    <3>2. SumFunctionOnSet(f, Q) \in Int
      BY SumUnfolds
    <3> QED
      BY <3>1, <3>2
  <2> QED
    BY <2>1
<1>2. 0 \in T
  <2>1. ASSUME NEW Q \in SUBSET R, Cardinality(Q) = 0 PROVE Sum(S) = Sum(Q) + Sum(S \ Q)
    <3>1. Q = {} /\ S \ Q = S
      BY <1>1, <2>1, FS_EmptySet
    <3>2. SumFunctionOnSet(f, {}) = 0
      BY SumOfNothing
    <3>3. SumFunctionOnSet(f, S) \in Int
      BY <1>1
    <3> QED
      BY <3>1, <3>2, <3>3
  <2> HIDE DEF Sum
  <2> QED
    BY <2>1
<1>3. ASSUME NEW n \in Nat, n \in T PROVE n + 1 \in T
  <2>1. ASSUME NEW Q \in SUBSET R, Cardinality(Q) = n + 1 PROVE Sum(S) = Sum(Q) + Sum(S \ Q)
    <3>1. PICK x : x \in Q
      BY <2>1, FS_EmptySet
    <3> DEFINE P == Q \ {x}
    <3>2. Cardinality(P) = n /\ P \in SUBSET R /\ P \in SUBSET S /\ Q \in SUBSET S
      BY <1>1, <2>1, <3>1, FS_RemoveElement
    <3>3. Sum(S) = Sum(P) + Sum(S \ P)
      <4> HIDE DEF P, Sum
      <4> QED
        BY <3>2, <1>3
    <3>4. SumFunctionOnSet(f, Q) = f[x] + SumFunctionOnSet(f, Q \ {x})
      BY <1>1, <3>1, <3>2, SumTakesOut
    <3>5. SumFunctionOnSet(f, S \ P) = f[x] + SumFunctionOnSet(f, (S \ P) \ {x})
      <4>1. IsFiniteSet(S \ P) /\ x \in S \ P /\ \A y \in S \ P : f[y] \in Int
        BY <1>1, <3>1
      <4> HIDE DEF P
      <4> QED
        BY <4>1, SumTakesOut
    <3>6. (S \ P) \ {x} = S \ Q
      BY <3>1
    <3>7. f[x] \in Int /\ Sum(P) \in Int /\ Sum(S \ Q) \in Int
      BY <1>1, <3>1, <3>2
    <3>8. Sum(Q) = f[x] + Sum(P) /\ Sum(S \ P) = f[x] + Sum(S \ Q)
      BY <3>4, <3>5, <3>6
    <3> HIDE DEF P, Sum
    <3> QED
      BY <3>3, <3>7, <3>8
  <2> HIDE DEF Sum
  <2> QED
    BY <2>1
<1>4. Cardinality(R) \in T
  <2> HIDE DEF T
  <2> QED
    BY <1>1, <1>2, <1>3, AllNumbers
<1> QED
  BY <1>4

\* A sum of fewer and smaller numbers is smaller.
LEMMA SumBelow ==
  ASSUME NEW S, IsFiniteSet(S), NEW f, \A x \in S : f[x] \in Nat,
         NEW R, IsFiniteSet(R), NEW g, \A x \in R : g[x] \in Nat,
         \A x \in S : f[x] > 0 => x \in R /\ f[x] <= g[x]
  PROVE  SumFunctionOnSet(f, S) <= SumFunctionOnSet(g, R)
<1> DEFINE F(Q) == SumFunctionOnSet(f, Q)
           G(Q) == SumFunctionOnSet(g, Q)
           T == {n \in Nat : \A Q \in SUBSET S : Cardinality(Q) = n => F(Q) <= G(Q \cap R)}
<1>1. \A Q \in SUBSET S : IsFiniteSet(Q) /\ Cardinality(Q) \in Nat
  BY FS_Subset, FS_CardinalityType
<1>2. \A Q \in SUBSET S : F(Q) \in Nat
  <2> SUFFICES ASSUME NEW Q \in SUBSET S PROVE SumFunctionOnSet(f, Q) \in Nat
    OBVIOUS
  <2> QED
    BY <1>1, SumIsNat
<1>3. \A Q \in SUBSET R : IsFiniteSet(Q) /\ G(Q) \in Nat
  <2> SUFFICES ASSUME NEW Q \in SUBSET R PROVE IsFiniteSet(Q) /\ SumFunctionOnSet(g, Q) \in Nat
    OBVIOUS
  <2>1. IsFiniteSet(Q)
    BY FS_Subset
  <2> QED
    BY <2>1, SumIsNat
<1>4. 0 \in T
  <2>1. ASSUME NEW Q \in SUBSET S, Cardinality(Q) = 0 PROVE F(Q) <= G(Q \cap R)
    <3>1. Q = {} /\ Q \cap R = {}
      BY <1>1, <2>1, FS_EmptySet
    <3>2. SumFunctionOnSet(f, {}) = 0 /\ SumFunctionOnSet(g, {}) = 0
      BY SumOfNothing
    <3> QED
      BY <3>1, <3>2
  <2> HIDE DEF F, G
  <2> QED
    BY <2>1
<1>5. ASSUME NEW n \in Nat, n \in T PROVE n + 1 \in T
  <2>1. ASSUME NEW Q \in SUBSET S, Cardinality(Q) = n + 1 PROVE F(Q) <= G(Q \cap R)
    <3>1. PICK x : x \in Q
      BY <2>1, FS_EmptySet
    <3> DEFINE P == Q \ {x}
    <3>2. Cardinality(P) = n /\ P \in SUBSET S /\ x \in S
      BY <1>1, <2>1, <3>1, FS_RemoveElement
    <3>3. F(P) <= G(P \cap R)
      <4> HIDE DEF P, F, G
      <4> QED
        BY <3>2, <1>5
    <3>4. F(Q) = f[x] + F(P)
      <4>1. IsFiniteSet(Q) /\ \A y \in Q : f[y] \in Int
        BY <1>1
      <4>2. SumFunctionOnSet(f, Q) = f[x] + SumFunctionOnSet(f, Q \ {x})
        <5> HIDE DEF P
        <5> QED
          BY <4>1, <3>1, SumTakesOut
      <4> QED
        BY <4>2
    <3>5. CASE x \in R
      <4>1. (Q \cap R) \ {x} = P \cap R /\ IsFiniteSet(Q \cap R) /\ x \in Q \cap R
            /\ \A y \in Q \cap R : g[y] \in Int
        BY <1>3, <3>1, <3>5
      <4>2. SumFunctionOnSet(g, Q \cap R) = g[x] + SumFunctionOnSet(g, (Q \cap R) \ {x})
        <5> HIDE DEF P
        <5> QED
          BY <4>1, SumTakesOut
      <4>3. G(Q \cap R) = g[x] + G(P \cap R)
        BY <4>1, <4>2
      <4>4. f[x] \in Nat /\ g[x] \in Nat /\ f[x] <= g[x]
        BY <3>2, <3>5
      <4>5. F(P) \in Nat /\ G(P \cap R) \in Nat
        BY <1>2, <1>3, <3>2
      <4> HIDE DEF P, F, G
      <4> QED
        BY <3>3, <3>4, <4>3, <4>4, <4>5
    <3>6. CASE x \notin R
      <4>1. f[x] = 0 /\ P \cap R = Q \cap R
        BY <3>2, <3>6
      <4>2. F(P) \in Nat
        BY <1>2, <3>2
      <4>3. F(Q) = F(P)
        <5> HIDE DEF F
        <5> QED
          BY <3>4, <4>1, <4>2
      <4> HIDE DEF P, F, G
      <4> QED
        BY <3>3, <4>1, <4>3
    <3> QED
      BY <3>5, <3>6
  <2> HIDE DEF F, G
  <2> QED
    BY <2>1
<1>6. Cardinality(S) \in T
  <2> HIDE DEF T
  <2> QED
    BY <1>1, <1>4, <1>5, AllNumbers
<1>7. F(S) <= G(S \cap R)
  BY <1>6
<1>8. G(R) = G(S \cap R) + G(R \ S)
  <2>1. SumFunctionOnSet(g, R) = SumFunctionOnSet(g, S \cap R) + SumFunctionOnSet(g, R \ (S \cap R))
    BY SumOfUnion
  <2>2. R \ (S \cap R) = R \ S
    OBVIOUS
  <2> QED
    BY <2>1, <2>2
<1>9. F(S) \in Nat /\ G(S \cap R) \in Nat /\ G(R \ S) \in Nat
  BY <1>2, <1>3
<1>10. F(S) <= G(R)
  <2> HIDE DEF F, G
  <2> QED
    BY <1>7, <1>8, <1>9
<1> QED
  BY <1>10
=============================================================================
