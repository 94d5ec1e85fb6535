-------------------------------- MODULE Sums --------------------------------
(***************************************************************************)
(* What SumFunctionOnSet of the community modules computes for every       *)
(* function into the natural numbers and every finite set.  An induction   *)
(* is written as the absence of a smallest counterexample.                 *)
(***************************************************************************)
EXTENDS Integers, FiniteSets, Functions, FiniteSetTheorems, WellFoundedInduction, TLAPS

LEMMA Least ==
  ASSUME NEW K \in SUBSET Nat, K # {}
  PROVE  \E k \in K : \A j \in K : k <= j
<1>1. PICK k \in K : \A j \in K : ~(<<j, k>> \in OpToRel(<, Nat))
  BY NatLessThanWellFounded, WFMin
<1>2. \A j \in K : ~(j < k)
  BY <1>1 DEF OpToRel
<1> QED
  BY <1>2

-----------------------------------------------------------------------------
(***************************************************************************)
(* The recursive function inside the fold exists and is unique.            *)
(***************************************************************************)
Some(s) == CHOOSE x \in s : TRUE

SumStep(g, f, s) == IF s = {} THEN 0 ELSE f[Some(s)] + g[s \ {Some(s)}]

IsSum(g, f, S) == g = [s \in SUBSET S |-> SumStep(g, f, s)]

LEMMA SumIsChosen ==
  ASSUME NEW f, NEW S
  PROVE  SumFunctionOnSet(f, S) = (CHOOSE g : IsSum(g, f, S))[S]
  BY DEF SumFunctionOnSet, FoldFunctionOnSet, MapThenFoldSet, IsSum, SumStep, Some

LEMMA SomeMember == ASSUME NEW s, s # {} PROVE Some(s) \in s
  BY DEF Some

\* Without one element a finite set has one element fewer.
LEMMA Smaller ==
  ASSUME NEW S, IsFiniteSet(S), NEW s \in SUBSET S, NEW x \in s
  PROVE  /\ s \ {x} \in SUBSET S /\ IsFiniteSet(s)
         /\ Cardinality(s) \in Nat /\ Cardinality(s \ {x}) \in Nat
         /\ Cardinality(s \ {x}) < Cardinality(s)
<1>1. IsFiniteSet(s) /\ IsFiniteSet(s \ {x})
  BY FS_Subset
<1>2. Cardinality(s) \in Nat /\ Cardinality(s \ {x}) \in Nat
  BY <1>1, FS_CardinalityType
<1>3. Cardinality(s \ {x}) = Cardinality(s) - 1
  BY <1>1, FS_RemoveElement
<1> QED
  BY <1>1, <1>2, <1>3

LEMMA SumExists ==
  ASSUME NEW f, NEW S, IsFiniteSet(S)
  PROVE  \E g : IsSum(g, f, S)
<1> DEFINE Upto(k) == {s \in SUBSET S : Cardinality(s) <= k}
           Part(g, k) == g = [s \in Upto(k) |-> SumStep(g, f, s)]
           Bad == {k \in Nat : ~\E g : Part(g, k)}
<1>1. ASSUME Bad # {} PROVE FALSE
  <2>1. PICK k \in Bad : \A j \in Bad : k <= j
    BY <1>1, Least
  <2>2. CASE k = 0
    <3> DEFINE g == [s \in Upto(0) |-> 0]
    <3>1. \A s \in Upto(0) : s = {}
      <4> TAKE s \in Upto(0)
      <4>1. Cardinality(s) \in Nat /\ IsFiniteSet(s)
        BY FS_Subset, FS_CardinalityType
      <4>2. Cardinality(s) = 0
        BY <4>1
      <4> QED
        BY <4>1, <4>2, FS_EmptySet
    <3>2. Part(g, 0)
      BY <3>1 DEF SumStep
    <3> QED
      BY <2>1, <2>2, <3>2
  <2>3. CASE k # 0
    <3>1. k - 1 \in Nat /\ k - 1 \notin Bad
      <4> HIDE DEF Bad
      <4>1. Bad \subseteq Nat
        BY DEF Bad
      <4> QED
        BY <2>1, <2>3, <4>1
    <3>2. PICK g : Part(g, k - 1)
      BY <3>1
    <3> DEFINE h == [s \in Upto(k) |-> SumStep(g, f, s)]
    <3>3. \A s \in Upto(k) : SumStep(h, f, s) = SumStep(g, f, s)
      <4> SUFFICES ASSUME NEW s \in Upto(k), s # {} PROVE h[s \ {Some(s)}] = g[s \ {Some(s)}]
        <5> HIDE DEF h, Upto
        <5> QED
          BY DEF SumStep
      <4> DEFINE t == s \ {Some(s)}
      <4>1. t \in SUBSET S /\ Cardinality(t) \in Nat /\ Cardinality(s) \in Nat
            /\ Cardinality(t) < Cardinality(s)
        BY SomeMember, Smaller
      <4>2. t \in Upto(k - 1) /\ t \in Upto(k)
        BY <3>1, <4>1
      <4> HIDE DEF t
      <4>3. g[t] = SumStep(g, f, t) /\ h[t] = SumStep(g, f, t)
        BY <3>2, <4>2
      <4> QED
        BY <4>3 DEF t
    <3>4. Part(h, k)
      BY <3>3
    <3> QED
      BY <2>1, <3>4
  <2> QED
    BY <2>2, <2>3
<1>2. Cardinality(S) \in Nat
  BY FS_CardinalityType
<1>3. PICK g : Part(g, Cardinality(S))
  BY <1>1, <1>2
<1>4. Upto(Cardinality(S)) = SUBSET S
  BY FS_Subset
<1> QED
  BY <1>3, <1>4 DEF IsSum

LEMMA SumUnique ==
  ASSUME NEW f, NEW S, IsFiniteSet(S), NEW T \in SUBSET S, NEW g, NEW h,
         IsSum(g, f, S), IsSum(h, f, T)
  PROVE  \A s \in SUBSET T : g[s] = h[s]
<1> DEFINE Bad == {k \in Nat : \E s \in SUBSET T : Cardinality(s) = k /\ g[s] # h[s]}
<1>1. ASSUME Bad # {} PROVE FALSE
  <2>1. PICK k \in Bad : \A j \in Bad : k <= j
    BY <1>1, Least
  <2>2. PICK s \in SUBSET T : Cardinality(s) = k /\ g[s] # h[s]
    BY <2>1
  <2>3. g[s] = SumStep(g, f, s) /\ h[s] = SumStep(h, f, s)
    BY DEF IsSum
  <2>4. s # {}
    BY <2>2, <2>3 DEF SumStep
  <2> DEFINE t == s \ {Some(s)}
  <2>5. t \in SUBSET T /\ Cardinality(t) \in Nat /\ Cardinality(t) < Cardinality(s)
    BY <2>4, SomeMember, Smaller, FS_Subset
  <2>6. g[t] = h[t]
    BY <2>1, <2>2, <2>5
  <2> QED
    BY <2>2, <2>3, <2>4, <2>6 DEF SumStep
<1>2. \A s \in SUBSET T : Cardinality(s) \in Nat
  BY FS_Subset, FS_CardinalityType
<1> QED
  BY <1>1, <1>2
LEMMA SumFunctionExists ==
  ASSUME NEW f, NEW S, IsFiniteSet(S)
  PROVE  \E g : IsSum(g, f, S) /\ \A T \in SUBSET S : SumFunctionOnSet(f, T) = g[T]
<1>1. PICK g : IsSum(g, f, S)
  BY SumExists
<1>2. ASSUME NEW T \in SUBSET S PROVE SumFunctionOnSet(f, T) = g[T]
  <2> DEFINE h == CHOOSE h : IsSum(h, f, T)
  <2>1. IsFiniteSet(T)
    BY FS_Subset
  <2>2. IsSum(h, f, T)
    BY <2>1, SumExists
  <2>3. SumFunctionOnSet(f, T) = h[T]
    BY SumIsChosen
  <2> HIDE DEF h
  <2>4. g[T] = h[T]
    BY <1>1, <2>2, SumUnique
  <2> QED
    BY <2>3, <2>4
<1> QED
  BY <1>1, <1>2

-----------------------------------------------------------------------------
(***************************************************************************)
(* Sums, one element at a time.                                            *)
(***************************************************************************)
\* The equation of a sum, for the element the fold happens to choose.
LEMMA SumChoosing ==
  ASSUME NEW f, NEW S, IsFiniteSet(S)
  PROVE  /\ SumFunctionOnSet(f, {}) = 0
         /\ S # {} => SumFunctionOnSet(f, S) = f[Some(S)] + SumFunctionOnSet(f, S \ {Some(S)})
<1>1. PICK g : IsSum(g, f, S) /\ \A T \in SUBSET S : SumFunctionOnSet(f, T) = g[T]
  BY SumFunctionExists
<1>2. g[{}] = SumStep(g, f, {}) /\ g[S] = SumStep(g, f, S)
  BY <1>1 DEF IsSum
<1>3. SumFunctionOnSet(f, {}) = 0
  BY <1>1, <1>2 DEF SumStep
<1>4. ASSUME S # {} PROVE SumFunctionOnSet(f, S) = f[Some(S)] + SumFunctionOnSet(f, S \ {Some(S)})
  <2>1. SumFunctionOnSet(f, S) = g[S] /\ SumFunctionOnSet(f, S \ {Some(S)}) = g[S \ {Some(S)}]
    BY <1>1
  <2>2. g[S] = f[Some(S)] + g[S \ {Some(S)}]
    BY <1>2, <1>4 DEF SumStep
  <2> QED
    BY <2>1, <2>2
<1> QED
  BY <1>3, <1>4

LEMMA SumEmpty == ASSUME NEW f PROVE SumFunctionOnSet(f, {}) = 0
<1>1. IsFiniteSet({})
  BY FS_EmptySet
<1> QED
  BY <1>1, SumChoosing

\* What the empty set has, and every set that its smaller subsets hand it on
\* to, all subsets have.
LEMMA SubsetInduction ==
  ASSUME NEW S, IsFiniteSet(S), NEW Good, {} \in Good,
         \A s \in SUBSET S : s # {} /\ (\A x \in s : s \ {x} \in Good) => s \in Good
  PROVE  \A s \in SUBSET S : s \in Good
<1> DEFINE Bad == {k \in Nat : \E s \in SUBSET S : Cardinality(s) = k /\ s \notin Good}
<1>1. ASSUME Bad # {} PROVE FALSE
  <2>1. PICK k \in Bad : \A j \in Bad : k <= j
    BY <1>1, Least
  <2>2. PICK s \in SUBSET S : Cardinality(s) = k /\ s \notin Good
    BY <2>1
  <2>3. ASSUME NEW x \in s PROVE s \ {x} \in Good
    <3>1. s \ {x} \in SUBSET S /\ Cardinality(s \ {x}) \in Nat /\ Cardinality(s \ {x}) < k
      BY <2>2, Smaller
    <3> QED
      BY <2>1, <3>1
  <2> QED
    BY <2>2, <2>3
<1>2. \A s \in SUBSET S : Cardinality(s) \in Nat
  BY FS_Subset, FS_CardinalityType
<1> QED
  BY <1>1, <1>2

LEMMA SumType ==
  ASSUME NEW f, NEW S, IsFiniteSet(S), \A x \in S : f[x] \in Nat
  PROVE  \A s \in SUBSET S : SumFunctionOnSet(f, s) \in Nat
<1> DEFINE Good == {s \in SUBSET S : SumFunctionOnSet(f, s) \in Nat}
<1>1. {} \in Good
  BY SumEmpty, 0 \in Nat, 0 <= 0
<1>2. ASSUME NEW s \in SUBSET S, s # {}, \A x \in s : s \ {x} \in Good PROVE s \in Good
  <2>1. IsFiniteSet(s) /\ Some(s) \in s
    BY <1>2, FS_Subset, SomeMember
  <2>2. SumFunctionOnSet(f, s) = f[Some(s)] + SumFunctionOnSet(f, s \ {Some(s)})
    BY <1>2, <2>1, SumChoosing
  <2>3. f[Some(s)] \in Nat /\ SumFunctionOnSet(f, s \ {Some(s)}) \in Nat
    BY <1>2, <2>1
  <2> QED
    BY <2>2, <2>3
<1> HIDE DEF Good
<1>3. \A s \in SUBSET S : s \in Good
  BY <1>1, <1>2, SubsetInduction
<1> QED
  BY <1>3 DEF Good

\* Any element may be taken out first.
LEMMA SumWithout ==
  ASSUME NEW f, NEW S, IsFiniteSet(S), \A x \in S : f[x] \in Nat
  PROVE  \A s \in SUBSET S : \A y \in s :
           SumFunctionOnSet(f, s) = f[y] + SumFunctionOnSet(f, s \ {y})
<1> DEFINE Total(s) == SumFunctionOnSet(f, s)
           Good == {s \in SUBSET S : \A y \in s : Total(s) = f[y] + Total(s \ {y})}
<1>1. {} \in Good
  <2> HIDE DEF Total
  <2> QED
    OBVIOUS
<1>2. ASSUME NEW s \in SUBSET S, s # {}, \A x \in s : s \ {x} \in Good PROVE s \in Good
  <2> SUFFICES ASSUME NEW y \in s PROVE Total(s) = f[y] + Total(s \ {y})
    OBVIOUS
  <2> DEFINE x == Some(s)
  <2>1. IsFiniteSet(s) /\ x \in s
    BY <1>2, FS_Subset, SomeMember
  <2>2. Total(s) = f[x] + Total(s \ {x})
    BY <1>2, <2>1, SumChoosing
  <2> HIDE DEF x
  <2>3. CASE x = y
    BY <2>2, <2>3
  <2>4. CASE x # y
    <3>1. s \ {x} \in Good /\ s \ {y} \in Good /\ y \in s \ {x} /\ x \in s \ {y}
      BY <1>2, <2>1, <2>4
    <3>2. (s \ {x}) \ {y} = (s \ {y}) \ {x}
      OBVIOUS
    <3>3. Total(s \ {x}) = f[y] + Total((s \ {x}) \ {y}) /\ Total(s \ {y}) = f[x] + Total((s \ {y}) \ {x})
      BY <3>1
    <3>4. Total((s \ {x}) \ {y}) \in Nat /\ f[x] \in Nat /\ f[y] \in Nat
      BY <2>1, SumType
    <3> HIDE DEF Total
    <3> QED
      BY <2>2, <3>2, <3>3, <3>4
  <2> QED
    BY <2>3, <2>4
<1> HIDE DEF Good
<1>3. \A s \in SUBSET S : s \in Good
  BY <1>1, <1>2, SubsetInduction
<1> QED
  BY <1>3 DEF Good
\* Functions that agree on a set have the same sum over it.
LEMMA SumAgree ==
  ASSUME NEW f, NEW h, NEW S, IsFiniteSet(S), \A x \in S : f[x] = h[x]
  PROVE  SumFunctionOnSet(f, S) = SumFunctionOnSet(h, S)
<1> DEFINE Good == {s \in SUBSET S : SumFunctionOnSet(f, s) = SumFunctionOnSet(h, s)}
<1>1. {} \in Good
  BY SumEmpty, 0 \in Nat, 0 <= 0
<1>2. ASSUME NEW s \in SUBSET S, s # {}, \A x \in s : s \ {x} \in Good PROVE s \in Good
  <2>1. IsFiniteSet(s) /\ Some(s) \in s
    BY <1>2, FS_Subset, SomeMember
  <2>2. /\ SumFunctionOnSet(f, s) = f[Some(s)] + SumFunctionOnSet(f, s \ {Some(s)})
        /\ SumFunctionOnSet(h, s) = h[Some(s)] + SumFunctionOnSet(h, s \ {Some(s)})
    BY <1>2, <2>1, SumChoosing
  <2>3. /\ f[Some(s)] = h[Some(s)]
        /\ SumFunctionOnSet(f, s \ {Some(s)}) = SumFunctionOnSet(h, s \ {Some(s)})
    BY <1>2, <2>1
  <2> QED
    BY <2>2, <2>3
<1> HIDE DEF Good
<1>3. \A s \in SUBSET S : s \in Good
  BY <1>1, <1>2, SubsetInduction
<1> QED
  BY <1>3 DEF Good

\* Functions that differ in one place have sums that differ as much.
LEMMA SumPoint ==
  ASSUME NEW f, NEW h, NEW S, IsFiniteSet(S), NEW y \in S,
         \A x \in S : f[x] \in Nat /\ h[x] \in Nat, \A x \in S \ {y} : f[x] = h[x]
  PROVE  SumFunctionOnSet(h, S) + f[y] = SumFunctionOnSet(f, S) + h[y]
<1>1. IsFiniteSet(S \ {y})
  BY FS_Subset
<1>2. SumFunctionOnSet(f, S \ {y}) = SumFunctionOnSet(h, S \ {y})
  BY <1>1, SumAgree
<1>3. /\ SumFunctionOnSet(f, S) = f[y] + SumFunctionOnSet(f, S \ {y})
      /\ SumFunctionOnSet(h, S) = h[y] + SumFunctionOnSet(h, S \ {y})
  BY SumWithout
<1>4. SumFunctionOnSet(f, S \ {y}) \in Nat /\ f[y] \in Nat /\ h[y] \in Nat
  BY SumType
<1> QED
  BY <1>2, <1>3, <1>4

LEMMA SumOfNothing ==
  ASSUME NEW f, NEW S, IsFiniteSet(S), \A x \in S : f[x] = 0
  PROVE  SumFunctionOnSet(f, S) = 0
<1> DEFINE Good == {s \in SUBSET S : SumFunctionOnSet(f, s) = 0}
<1>1. {} \in Good
  BY SumEmpty, 0 \in Nat, 0 <= 0
<1>2. ASSUME NEW s \in SUBSET S, s # {}, \A x \in s : s \ {x} \in Good PROVE s \in Good
  <2>1. PICK y \in s : TRUE
    BY <1>2
  <2>2. SumFunctionOnSet(f, s) = f[y] + SumFunctionOnSet(f, s \ {y})
    BY SumWithout
  <2> QED
    BY <1>2, <2>2
<1> HIDE DEF Good
<1>3. \A s \in SUBSET S : s \in Good
  BY <1>1, <1>2, SubsetInduction
<1> QED
  BY <1>3 DEF Good

\* A part of the set has no larger sum than the set.
LEMMA SumOfPart ==
  ASSUME NEW f, NEW S, IsFiniteSet(S), \A x \in S : f[x] \in Nat, NEW T \in SUBSET S
  PROVE  SumFunctionOnSet(f, T) <= SumFunctionOnSet(f, S)
<1> DEFINE Good == {s \in SUBSET S : SumFunctionOnSet(f, s \cap T) <= SumFunctionOnSet(f, s)}
<1>1. {} \in Good
  BY SumEmpty, 0 \in Nat, 0 <= 0
<1>2. ASSUME NEW s \in SUBSET S, s # {}, \A x \in s : s \ {x} \in Good PROVE s \in Good
  <2>1. PICK y \in s : TRUE
    BY <1>2
  <2>2. SumFunctionOnSet(f, s) = f[y] + SumFunctionOnSet(f, s \ {y})
    BY SumWithout
  <2>3. /\ SumFunctionOnSet(f, s \ {y}) \in Nat /\ f[y] \in Nat
        /\ SumFunctionOnSet(f, (s \ {y}) \cap T) \in Nat
    BY SumType
  <2>4. SumFunctionOnSet(f, (s \ {y}) \cap T) <= SumFunctionOnSet(f, s \ {y})
    BY <1>2
  <2>5. CASE y \in T
    <3>1. y \in s \cap T /\ s \cap T \in SUBSET S /\ (s \cap T) \ {y} = (s \ {y}) \cap T
      BY <2>5
    <3>2. SumFunctionOnSet(f, s \cap T) = f[y] + SumFunctionOnSet(f, (s \ {y}) \cap T)
      BY <3>1, SumWithout
    <3> QED
      BY <2>2, <2>3, <2>4, <3>2
  <2>6. CASE y \notin T
    <3>1. s \cap T = (s \ {y}) \cap T
      BY <2>6
    <3>2. SumFunctionOnSet(f, s \cap T) = SumFunctionOnSet(f, (s \ {y}) \cap T)
      BY <3>1
    <3> DEFINE a == SumFunctionOnSet(f, (s \ {y}) \cap T)
               b == SumFunctionOnSet(f, s \ {y})
    <3>3. a \in Nat /\ b \in Nat /\ a <= b /\ f[y] \in Nat
      BY <2>3, <2>4
    <3>4. SumFunctionOnSet(f, s \cap T) = a /\ SumFunctionOnSet(f, s) = f[y] + b
      BY <2>2, <3>2
    <3> HIDE DEF a, b
    <3>5. SumFunctionOnSet(f, s \cap T) <= SumFunctionOnSet(f, s)
      BY <3>3, <3>4
    <3> QED
      BY <3>5
  <2> QED
    BY <2>5, <2>6
<1> HIDE DEF Good
<1>3. \A s \in SUBSET S : s \in Good
  BY <1>1, <1>2, SubsetInduction
<1>4. S \cap T = T
  OBVIOUS
<1> QED
  BY <1>3, <1>4 DEF Good

\* Things told apart by a label, counted label by label.
LEMMA SumOfCounts ==
  ASSUME NEW T, IsFiniteSet(T), NEW K, IsFiniteSet(K), NEW label \in [T -> K]
  PROVE  SumFunctionOnSet([k \in K |-> Cardinality({x \in T : label[x] = k})], K) = Cardinality(T)
<1> DEFINE By(s) == [k \in K |-> Cardinality({x \in s : label[x] = k})]
           Good == {s \in SUBSET T : SumFunctionOnSet(By(s), K) = Cardinality(s)}
<1>1. {} \in Good
  <2>1. \A k \in K : By({})[k] = 0
    <3>1. \A k \in K : {x \in {} : label[x] = k} = {}
      OBVIOUS
    <3> QED
      BY <3>1, FS_EmptySet
  <2> HIDE DEF By
  <2> QED
    BY <2>1, SumOfNothing, FS_EmptySet
<1>2. ASSUME NEW s \in SUBSET T, s # {}, \A x \in s : s \ {x} \in Good PROVE s \in Good
  <2>1. PICK y \in s : TRUE
    BY <1>2
  <2> DEFINE t == s \ {y}
             l == label[y]
  <2>2. IsFiniteSet(s) /\ Cardinality(t) \in Nat /\ Cardinality(s) = Cardinality(t) + 1
    <3>1. IsFiniteSet(s) /\ IsFiniteSet(t)
      BY FS_Subset
    <3>2. Cardinality(t) = Cardinality(s) - 1 /\ Cardinality(t) \in Nat /\ Cardinality(s) \in Nat
      BY <3>1, FS_RemoveElement, FS_CardinalityType
    <3> QED
      BY <3>1, <3>2
  <2>3. \A k \in K : By(s)[k] \in Nat /\ By(t)[k] \in Nat
    <3> TAKE k \in K
    <3>1. IsFiniteSet({x \in s : label[x] = k}) /\ IsFiniteSet({x \in t : label[x] = k})
      BY <2>2, FS_Subset
    <3> QED
      BY <3>1, FS_CardinalityType
  <2>4. \A k \in K \ {l} : By(s)[k] = By(t)[k]
    <3> TAKE k \in K \ {l}
    <3>1. {x \in s : label[x] = k} = {x \in t : label[x] = k}
      OBVIOUS
    <3> QED
      BY <3>1
  <2>5. By(s)[l] = By(t)[l] + 1
    <3> DEFINE with == {x \in s : label[x] = l}
    <3>1. IsFiniteSet(with) /\ y \in with /\ {x \in t : label[x] = l} = with \ {y}
      BY <2>2, FS_Subset
    <3>2. Cardinality(with \ {y}) = Cardinality(with) - 1 /\ Cardinality(with) \in Nat
      BY <3>1, FS_RemoveElement, FS_CardinalityType
    <3>3. l \in K
      OBVIOUS
    <3>4. By(s)[l] = Cardinality(with) /\ By(t)[l] = Cardinality(with \ {y})
      BY <3>1, <3>3
    <3> HIDE DEF with, By
    <3> QED
      BY <3>2, <3>4
  <2>6. SumFunctionOnSet(By(t), K) = Cardinality(t)
    BY <1>2
  <2>7. l \in K
    OBVIOUS
  <2> HIDE DEF By, t, l
  <2>8. SumFunctionOnSet(By(s), K) + By(t)[l] = SumFunctionOnSet(By(t), K) + By(s)[l]
    BY <2>3, <2>4, <2>7, SumPoint
  <2>9. SumFunctionOnSet(By(s), K) \in Nat /\ By(t)[l] \in Nat
    BY <2>3, <2>7, SumType
  <2>10. SumFunctionOnSet(By(s), K) = Cardinality(s)
    BY <2>2, <2>5, <2>6, <2>8, <2>9
  <2> QED
    BY <2>10
<1>3. \A s \in SUBSET T : s \in Good
  <2> HIDE DEF Good
  <2> QED
    BY <1>1, <1>2, SubsetInduction
<1> QED
  BY <1>3
=============================================================================
