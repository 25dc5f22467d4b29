--------------------------- MODULE FiniteTheorems ---------------------------
(***************************************************************************)
(* What the proofs need of finite sets and of numbers: sums over a finite  *)
(* set, the largest of a set of numbers, functions that are iterated, and  *)
(* what is gathered in rounds from a finite set.  Where one would use      *)
(* induction, the least counterexample among the subsets of a finite set   *)
(* is shown not to be one.                                                 *)
(***************************************************************************)
EXTENDS FiniteSetsExt, FiniteSetTheorems, TLAPS

-----------------------------------------------------------------------------
(* Sums, as MapThenSumSet defines them: by a recursive function that takes *)
(* elements in some order.  That the function exists, and that the order   *)
(* makes no difference, is shown by least counterexamples.                 *)

\* The sum of w[x] over the elements x of S.
SumOver(w, S) == MapThenSumSet(LAMBDA x : w[x], S)

\* The recursive function inside, given a name, and the equation it should solve.
AnyOf(S) == CHOOSE f \in S : TRUE
SumsBelow(w, S, sum) ==
    [T \in SUBSET S |-> IF T = {} THEN 0 ELSE w[AnyOf(T)] + sum[T \ {AnyOf(T)}]]
Sums(w, S) == CHOOSE sum : sum = SumsBelow(w, S, sum)
Summable(w, S) == Sums(w, S) = SumsBelow(w, S, Sums(w, S))

\* The fold is that function at the set itself.
LEMMA SumOverBySums == \A w, S : SumOver(w, S) = Sums(w, S)[S]
BY DEF SumOver, MapThenSumSet, MapThenFoldSet, Sums, SumsBelow, AnyOf

\* Induction over finite sets, as a least counterexample.
LEMMA LeastSet ==
    ASSUME NEW S, IsFiniteSet(S), NEW F, F \subseteq SUBSET S, F # {}
    PROVE  \E T \in F : \A U \in F : U \subseteq T => U = T
<1>1. IsWellFoundedOn(StrictSubsetOrdering(S), SUBSET S)
  BY FS_StrictSubsetOrderingWellFounded, FS_FiniteSubsetsOfFinite
<1>2. PICK T \in F : \A U \in F : ~ (<<U, T>> \in StrictSubsetOrdering(S))
  BY <1>1, WFMin
<1> QED
  BY <1>2 DEF StrictSubsetOrdering

\* A nonempty set has the element that is taken from it.
LEMMA AnyOfIn == \A S : S # {} => AnyOf(S) \in S
BY DEF AnyOf

\* What a summable set says of a part of it.
LEMMA SumOfPart ==
    ASSUME NEW w, NEW S, Summable(w, S), NEW T, T \subseteq S
    PROVE  Sums(w, S)[T] = IF T = {} THEN 0 ELSE w[AnyOf(T)] + Sums(w, S)[T \ {AnyOf(T)}]
<1> DEFINE sum == Sums(w, S)
<1>1. sum = SumsBelow(w, S, sum)
  BY DEF Summable
<1> HIDE DEF sum
<1>2. sum[T] = IF T = {} THEN 0 ELSE w[AnyOf(T)] + sum[T \ {AnyOf(T)}]
  BY <1>1 DEF SumsBelow
<1> QED
  BY <1>2 DEF sum

\* A sum does not depend on the set it was begun from.
LEMMA SumsAgree ==
    ASSUME NEW w, NEW S, NEW T, IsFiniteSet(S), T \subseteq S, Summable(w, S), Summable(w, T)
    PROVE  Sums(w, S)[T] = Sums(w, T)[T]
<1> DEFINE F == {U \in SUBSET T : Sums(w, S)[U] # Sums(w, T)[U]}
<1>1. SUFFICES ASSUME F # {} PROVE FALSE
  OBVIOUS
<1>2. IsFiniteSet(T)
  BY FS_Subset
<1>3. PICK U \in F : \A V \in F : V \subseteq U => V = U
  <2>1. F \subseteq SUBSET T
    OBVIOUS
  <2> HIDE DEF F
  <2> QED
    BY <1>1, <1>2, <2>1, LeastSet
<1>4. CASE U = {}
  BY <1>4, <1>3, SumOfPart
<1>5. CASE U # {}
  <2> DEFINE V == U \ {AnyOf(U)}
  <2>1. V # U /\ V \subseteq U /\ V \in SUBSET T
    BY <1>5, <1>3, AnyOfIn
  <2>2. Sums(w, S)[V] = Sums(w, T)[V]
    BY <2>1, <1>3
  <2>3. Sums(w, S)[U] = w[AnyOf(U)] + Sums(w, S)[V] /\ Sums(w, T)[U] = w[AnyOf(U)] + Sums(w, T)[V]
    BY <1>5, <1>3, SumOfPart
  <2> QED
    BY <2>2, <2>3, <1>3
<1> QED
  BY <1>4, <1>5

\* Every finite set has its sums: they are put together from those of smaller sets.
LEMMA FiniteSummable ==
    ASSUME NEW w, NEW S, IsFiniteSet(S)
    PROVE  Summable(w, S)
<1> DEFINE F == {U \in SUBSET S : ~Summable(w, U)}
<1>1. SUFFICES ASSUME F # {} PROVE FALSE
  OBVIOUS
<1>2. PICK T \in F : \A V \in F : V \subseteq T => V = T
  <2>1. F \subseteq SUBSET S
    OBVIOUS
  <2> HIDE DEF F
  <2> QED
    BY <1>1, <2>1, LeastSet
<1>3. \A V \in SUBSET T : V # T => Summable(w, V)
  BY <1>2
<1>4. IsFiniteSet(T)
  BY <1>2, FS_Subset
<1> DEFINE g == [U \in SUBSET T |-> IF U = {} THEN 0
                                   ELSE w[AnyOf(U)] + Sums(w, U \ {AnyOf(U)})[U \ {AnyOf(U)}]]
<1>5. ASSUME NEW V \in SUBSET T, V # T
      PROVE  g[V] = Sums(w, V)[V]
  <2>1. CASE V = {}
    BY <2>1, <1>3, <1>5, SumOfPart
  <2>2. CASE V # {}
    <3> DEFINE W == V \ {AnyOf(V)}
    <3>1. W \in SUBSET T /\ W # T /\ W \subseteq V
      BY <1>5
    <3>2. Sums(w, V)[W] = Sums(w, W)[W]
      <4>1. Summable(w, V) /\ Summable(w, W)
        BY <1>3, <1>5, <3>1
      <4>2. IsFiniteSet(V)
        BY <1>4, FS_Subset
      <4> HIDE DEF W
      <4> QED
        BY <3>1, <4>1, <4>2, SumsAgree
    <3>3. Sums(w, V)[V] = w[AnyOf(V)] + Sums(w, V)[W]
      BY <2>2, <1>3, <1>5, SumOfPart
    <3> QED
      BY <2>2, <3>2, <3>3
  <2> QED
    BY <2>1, <2>2
<1>6. \A U \in SUBSET T : g[U] = IF U = {} THEN 0 ELSE w[AnyOf(U)] + g[U \ {AnyOf(U)}]
  <2> SUFFICES ASSUME NEW U \in SUBSET T, U # {}
               PROVE  g[U] = w[AnyOf(U)] + g[U \ {AnyOf(U)}]
    OBVIOUS
  <2> DEFINE V == U \ {AnyOf(U)}
  <2>1. V \in SUBSET T /\ V # T
    BY AnyOfIn
  <2>2. g[V] = Sums(w, V)[V]
    BY <2>1, <1>5
  <2> QED
    BY <2>2
<1>7. g = SumsBelow(w, T, g)
  <2>1. g = [U \in SUBSET T |-> g[U]]
    OBVIOUS
  <2> HIDE DEF g
  <2> QED
    BY <1>6, <2>1 DEF SumsBelow
<1>8. Summable(w, T)
  <2> HIDE DEF g
  <2>1. \E sum : sum = SumsBelow(w, T, sum)
    BY <1>7
  <2> QED
    BY <2>1 DEF Summable, Sums
<1> QED
  BY <1>8, <1>2

-----------------------------------------------------------------------------
\* The sum over a finite set is that of any element and of the others.
LEMMA SumOverUnfold ==
    ASSUME NEW w, NEW S, IsFiniteSet(S)
    PROVE  SumOver(w, S) = IF S = {} THEN 0 ELSE w[AnyOf(S)] + SumOver(w, S \ {AnyOf(S)})
<1> DEFINE V == S \ {AnyOf(S)}
<1>1. Summable(w, S) /\ Summable(w, V)
  BY FiniteSummable, FS_RemoveElement
<1>2. Sums(w, S)[S] = IF S = {} THEN 0 ELSE w[AnyOf(S)] + Sums(w, S)[V]
  BY <1>1, SumOfPart
<1>3. Sums(w, S)[V] = Sums(w, V)[V]
  <2>1. V \subseteq S
    OBVIOUS
  <2> HIDE DEF V
  <2> QED
    BY <1>1, <2>1, SumsAgree
<1> QED
  BY <1>2, <1>3, SumOverBySums

\* A sum of natural numbers is one.
LEMMA SumOverNat ==
    ASSUME NEW w, NEW S, IsFiniteSet(S), NEW D, S \subseteq D, w \in [D -> Nat]
    PROVE  SumOver(w, S) \in Nat
<1> DEFINE F == {U \in SUBSET S : SumOver(w, U) \notin Nat}
<1>1. SUFFICES ASSUME F # {} PROVE FALSE
  OBVIOUS
<1>2. PICK T \in F : \A V \in F : V \subseteq T => V = T
  <2>1. F \subseteq SUBSET S
    OBVIOUS
  <2> HIDE DEF F
  <2> QED
    BY <1>1, <2>1, LeastSet
<1>3. SumOver(w, T) = IF T = {} THEN 0 ELSE w[AnyOf(T)] + SumOver(w, T \ {AnyOf(T)})
  BY <1>2, FS_Subset, SumOverUnfold
<1>4. T # {} => AnyOf(T) \in T
  BY AnyOfIn
<1>5. T # {} => SumOver(w, T \ {AnyOf(T)}) \in Nat
  BY <1>2, <1>4
<1>6. T # {} => w[AnyOf(T)] \in Nat
  BY <1>2, <1>4
<1> QED
  BY <1>2, <1>3, <1>5, <1>6

\* The order in which a sum is taken makes no difference.
LEMMA SumOverWithout ==
    ASSUME NEW w, NEW S, IsFiniteSet(S), NEW D, S \subseteq D, w \in [D -> Nat], NEW f \in S
    PROVE  SumOver(w, S) = w[f] + SumOver(w, S \ {f})
<1> DEFINE F == {U \in SUBSET S : \E x \in U : SumOver(w, U) # w[x] + SumOver(w, U \ {x})}
<1>1. SUFFICES ASSUME F # {} PROVE FALSE
  OBVIOUS
<1>2. PICK T \in F : \A V \in F : V \subseteq T => V = T
  <2>1. F \subseteq SUBSET S
    OBVIOUS
  <2> HIDE DEF F
  <2> QED
    BY <1>1, <2>1, LeastSet
<1>3. PICK x \in T : SumOver(w, T) # w[x] + SumOver(w, T \ {x})
  BY <1>2
<1> DEFINE a == AnyOf(T)
           Both == T \ {a, x}
<1>4. a \in T /\ T \subseteq D /\ IsFiniteSet(T)
  BY <1>2, <1>3, AnyOfIn, FS_Subset
<1>5. SumOver(w, T) = w[a] + SumOver(w, T \ {a})
  BY <1>3, <1>4, SumOverUnfold
<1>6. a # x
  BY <1>3, <1>5
<1>7. SumOver(w, T \ {a}) = w[x] + SumOver(w, Both)
  <2>1. T \ {a} \in SUBSET S /\ T \ {a} # T /\ T \ {a} \subseteq T /\ x \in T \ {a}
    BY <1>2, <1>3, <1>4, <1>6
  <2>2. (T \ {a}) \ {x} = Both
    OBVIOUS
  <2> QED
    BY <1>2, <2>1, <2>2
<1>8. SumOver(w, T \ {x}) = w[a] + SumOver(w, Both)
  <2>1. T \ {x} \in SUBSET S /\ T \ {x} # T /\ T \ {x} \subseteq T /\ a \in T \ {x}
    BY <1>2, <1>3, <1>4, <1>6
  <2>2. (T \ {x}) \ {a} = Both
    OBVIOUS
  <2> QED
    BY <1>2, <2>1, <2>2
<1>9. w[a] \in Nat /\ w[x] \in Nat /\ SumOver(w, Both) \in Nat
  <2>1. IsFiniteSet(Both) /\ Both \subseteq D
    BY <1>4, FS_Subset
  <2>2. SumOver(w, Both) \in Nat
    <3> HIDE DEF Both
    <3> QED
      BY <2>1, SumOverNat
  <2> QED
    BY <2>2, <1>3, <1>4
<1> HIDE DEF a, Both
<1> QED
  BY <1>3, <1>5, <1>7, <1>8, <1>9

\* A part of a set has no larger sum.
LEMMA SumOverSubset ==
    ASSUME NEW w, NEW S, IsFiniteSet(S), NEW D, S \subseteq D, w \in [D -> Nat], NEW P, P \subseteq S
    PROVE  SumOver(w, P) <= SumOver(w, S)
<1> DEFINE F == {U \in SUBSET S : \E V \in SUBSET U : ~ (SumOver(w, V) <= SumOver(w, U))}
<1>1. SUFFICES ASSUME F # {} PROVE FALSE
  OBVIOUS
<1>2. PICK T \in F : \A V \in F : V \subseteq T => V = T
  <2>1. F \subseteq SUBSET S
    OBVIOUS
  <2> HIDE DEF F
  <2> QED
    BY <1>1, <2>1, LeastSet
<1>3. PICK V \in SUBSET T : ~ (SumOver(w, V) <= SumOver(w, T))
  BY <1>2
<1>4. IsFiniteSet(T) /\ T \subseteq D /\ SumOver(w, T) \in Nat
  BY <1>2, FS_Subset, SumOverNat
<1>5. PICK x \in T : x \notin V
  BY <1>3, <1>4
<1> DEFINE R == T \ {x}
<1>6. SumOver(w, V) <= SumOver(w, R)
  <2>1. R \in SUBSET S /\ R \subseteq T /\ R # T /\ V \subseteq R
    BY <1>2, <1>5
  <2> HIDE DEF R
  <2> QED
    BY <1>2, <2>1
<1>7. SumOver(w, T) = w[x] + SumOver(w, R)
  BY <1>4, <1>5, SumOverWithout
<1>8. w[x] \in Nat /\ SumOver(w, R) \in Nat /\ SumOver(w, V) \in Nat
  <2>1. IsFiniteSet(R) /\ R \subseteq D /\ IsFiniteSet(V) /\ V \subseteq D
    BY <1>4, FS_Subset
  <2> HIDE DEF R
  <2> QED
    BY <2>1, <1>4, <1>5, SumOverNat
<1> HIDE DEF R
<1> QED
  BY <1>3, <1>6, <1>7, <1>8

\* A finite set of numbers has its largest.
LEMMA LargestNumber ==
    ASSUME NEW S, IsFiniteSet(S), S # {}
    PROVE  S \subseteq Nat => Max(S) \in S /\ \A y \in S : y <= Max(S)
<1> DEFINE F == {{j \in S : k <= j} : k \in S}
<1>1. PICK T \in F : \A V \in F : V \subseteq T => V = T
  <2>1. F # {}
    OBVIOUS
  <2>2. F \subseteq SUBSET S
    OBVIOUS
  <2> HIDE DEF F
  <2> QED
    BY <2>1, <2>2, LeastSet
<1>2. PICK k \in S : T = {j \in S : k <= j}
  BY <1>1
<1> HAVE S \subseteq Nat
<1>3. ASSUME NEW y \in S PROVE k >= y
  <2>1. CASE y <= k
    BY <2>1
  <2>2. CASE k < y
    <3> DEFINE U == {j \in S : y <= j}
    <3>1. U \in F /\ k \in T /\ \A j \in T : k <= j /\ j \in S
      BY <1>2
    <3>2. k \notin U
      BY <2>2
    <3>3. \A j \in U : j \in T
      BY <1>2, <2>2
    <3> HIDE DEF F, U
    <3> QED
      BY <1>1, <3>1, <3>2, <3>3
  <2> QED
    BY <2>1, <2>2
<1>4. Max(S) \in S /\ \A y \in S : Max(S) >= y
  BY <1>3 DEF Max
<1> QED
  BY <1>4

-----------------------------------------------------------------------------
(* Iteration *)

\* Induction over the numbers, as a least counterexample.
LEMMA EveryNumber ==
    ASSUME NEW S, 0 \in S, \A n \in Nat : n \in S => n + 1 \in S
    PROVE  \A n \in Nat : n \in S
<1> SUFFICES ASSUME NEW n \in Nat, n \notin S PROVE FALSE
  OBVIOUS
<1> DEFINE F == {0..k : k \in (0..n) \ S}
<1>1. PICK T \in F : \A U \in F : U \subseteq T => U = T
  <2>1. F # {}
    OBVIOUS
  <2> DEFINE I == 0..n
  <2>2. F \subseteq SUBSET I
    OBVIOUS
  <2>3. IsFiniteSet(I)
    BY FS_Interval
  <2> HIDE DEF F, I
  <2> QED
    BY <2>1, <2>2, <2>3, LeastSet
<1>2. PICK k \in (0..n) \ S : T = 0..k
  BY <1>1
<1>3. k # 0 /\ k - 1 \in Nat /\ k - 1 \in 0..n
  BY <1>2
<1>4. k - 1 \notin S
  <2>1. k - 1 \in S => (k - 1) + 1 \in S
    BY <1>3
  <2> QED
    BY <2>1, <1>2, <1>3
<1>5. 0..(k - 1) \in F
  BY <1>3, <1>4
<1>6. 0..(k - 1) \subseteq T /\ 0..(k - 1) # T
  BY <1>2, <1>3
<1> QED
  <2> HIDE DEF F
  <2> QED
    BY <1>1, <1>5, <1>6

\* g are the iterates of f from x, up to those of index n.
Iterates(f, x, g, n) == g[0] = x /\ \A k \in Nat : k < n => g[k + 1] = f[g[k]]

\* And all of them.
Iterated(f, x, g) == g[0] = x /\ \A k \in Nat : g[k + 1] = f[g[k]]

\* A function from a set to itself can be iterated.
LEMMA Iterable ==
    ASSUME NEW V, NEW f \in [V -> V], NEW x \in V
    PROVE  \E g \in [Nat -> V] : Iterated(f, x, g)
<1> DEFINE Upto == {n \in Nat : \E g \in [Nat -> V] : Iterates(f, x, g, n)}
<1>1. \A n \in Nat : n \in Upto
  <2>1. 0 \in Upto
    <3>1. [k \in Nat |-> x] \in [Nat -> V] /\ Iterates(f, x, [k \in Nat |-> x], 0)
      BY DEF Iterates
    <3> QED
      BY <3>1
  <2>2. ASSUME NEW n \in Nat, n \in Upto PROVE n + 1 \in Upto
    <3>1. PICK g \in [Nat -> V] : Iterates(f, x, g, n)
      BY <2>2
    <3> DEFINE h == [g EXCEPT ![n + 1] = f[g[n]]]
    <3>2. h \in [Nat -> V]
      BY <3>1
    <3>3. h[0] = x
      BY <3>1 DEF Iterates
    <3>4. ASSUME NEW k \in Nat, k < n + 1 PROVE h[k + 1] = f[h[k]]
      <4>1. CASE k = n
        BY <4>1, <3>1
      <4>2. CASE k < n
        <5>1. h[k + 1] = g[k + 1] /\ h[k] = g[k]
          BY <4>2, <3>1
        <5> HIDE DEF h
        <5> QED
          BY <5>1, <4>2, <3>1 DEF Iterates
      <4> QED
        BY <4>1, <4>2, <3>4
    <3>5. Iterates(f, x, h, n + 1)
      <4> HIDE DEF h
      <4> QED
        BY <3>3, <3>4 DEF Iterates
    <3> HIDE DEF h
    <3> QED
      BY <3>2, <3>5
  <2> HIDE DEF Upto
  <2> QED
    BY <2>1, <2>2, EveryNumber
<1>2. \A n \in Nat : \E g \in [Nat -> V] : Iterates(f, x, g, n)
  BY <1>1
<1> DEFINE G(n) == CHOOSE g \in [Nat -> V] : Iterates(f, x, g, n)
<1>3. \A n \in Nat : G(n) \in [Nat -> V] /\ Iterates(f, x, G(n), n)
  BY <1>2
<1>4. ASSUME NEW n \in Nat PROVE G(n)[n] = G(n + 1)[n]
  <2>1. \A k \in Nat : k \in {j \in Nat : j <= n => G(n)[j] = G(n + 1)[j]}
    <3> DEFINE Same == {j \in Nat : j <= n => G(n)[j] = G(n + 1)[j]}
    <3>0a. Iterates(f, x, G(n), n) /\ Iterates(f, x, G(n + 1), n + 1)
      BY <1>3
    <3> HIDE DEF G
    <3>0. G(n)[0] = x /\ (\A k \in Nat : k < n => G(n)[k + 1] = f[G(n)[k]])
          /\ G(n + 1)[0] = x /\ (\A k \in Nat : k < n + 1 => G(n + 1)[k + 1] = f[G(n + 1)[k]])
      BY <3>0a DEF Iterates
    <3>1. 0 \in Same
      BY <3>0
    <3>2. ASSUME NEW k \in Nat, k \in Same PROVE k + 1 \in Same
      <4>1. k + 1 <= n => k <= n /\ k < n /\ k < n + 1
        OBVIOUS
      <4> QED
        BY <4>1, <3>2, <3>0
    <3> HIDE DEF Same
    <3>3. \A k \in Nat : k \in Same
      BY <3>1, <3>2, EveryNumber
    <3> QED
      BY <3>3 DEF Same
  <2> HIDE DEF G
  <2> QED
    BY <2>1
<1> DEFINE g == [n \in Nat |-> G(n)[n]]
<1>5. \A n \in Nat : g[n] = G(n)[n]
  BY Zenon
<1>6. g \in [Nat -> V]
  BY <1>3
<1>7. g[0] = x
  BY <1>3, <1>5 DEF Iterates
<1>8. ASSUME NEW n \in Nat PROVE g[n + 1] = f[g[n]]
  <2>1. g[n + 1] = G(n + 1)[n + 1] /\ g[n] = G(n)[n]
    BY <1>5
  <2>2. G(n + 1)[n + 1] = f[G(n + 1)[n]]
    <3>1. Iterates(f, x, G(n + 1), n + 1) /\ n < n + 1
      BY <1>3
    <3> HIDE DEF G
    <3> QED
      BY <3>1 DEF Iterates
  <2> HIDE DEF G, g
  <2> QED
    BY <2>1, <2>2, <1>4
<1> QED
  <2> HIDE DEF G, g
  <2> QED
    BY <1>6, <1>7, <1>8 DEF Iterated

\* Parts of a finite set that grow until they are closed are closed by the time
\* they have taken as many steps as the set has elements.
LEMMA Saturated ==
    ASSUME NEW S, IsFiniteSet(S), NEW r \in [Nat -> SUBSET S],
           \A n \in Nat : r[n] \subseteq r[n + 1],
           \A n \in Nat : r[n] = r[n + 1] => r[n + 1] = r[n + 2]
    PROVE  r[Cardinality(S)] = r[Cardinality(S) + 1]
<1> DEFINE Stable == {n \in Nat : r[n] = r[n + 1] \/ Cardinality(r[n]) >= n}
<1>0. \A n \in Nat : IsFiniteSet(r[n]) /\ Cardinality(r[n]) \in Nat /\ Cardinality(r[n]) <= Cardinality(S)
                     /\ r[n] \subseteq S /\ (Cardinality(r[n]) = Cardinality(S) => r[n] = S)
  BY FS_Subset, FS_CardinalityType
<1>1. 0 \in Stable
  BY <1>0
<1>2. ASSUME NEW n \in Nat, n \in Stable PROVE n + 1 \in Stable
  <2>1. CASE r[n] = r[n + 1]
    <3>1. r[n + 1] = r[(n + 1) + 1]
      BY <2>1
    <3> QED
      BY <3>1
  <2>2. CASE r[n] # r[n + 1]
    <3>1. r[n] \subseteq r[n + 1] /\ Cardinality(r[n]) >= n
      BY <1>2, <2>2
    <3>2. Cardinality(r[n]) <= Cardinality(r[n + 1]) /\ Cardinality(r[n]) # Cardinality(r[n + 1])
      BY <3>1, <2>2, <1>0, FS_Subset
    <3>3. Cardinality(r[n + 1]) >= n + 1
      BY <3>1, <3>2, <1>0
    <3> QED
      BY <3>3
  <2> QED
    BY <2>1, <2>2
<1>3. \A n \in Nat : n \in Stable
  <2> HIDE DEF Stable
  <2> QED
    BY <1>1, <1>2, EveryNumber
<1>4. Cardinality(S) \in Nat
  BY FS_CardinalityType
<1>5. r[Cardinality(S)] = r[Cardinality(S) + 1] \/ Cardinality(r[Cardinality(S)]) >= Cardinality(S)
  BY <1>3, <1>4
<1> DEFINE c == Cardinality(S)
<1>6. CASE Cardinality(r[c]) >= c
  <2>1. Cardinality(r[c]) = c
    BY <1>0, <1>4, <1>6
  <2>2. r[c] = S
    BY <2>1, <1>0, <1>4
  <2>3. r[c + 1] \subseteq S /\ r[c] \subseteq r[c + 1]
    BY <1>0, <1>4
  <2> QED
    BY <2>2, <2>3
<1> QED
  BY <1>5, <1>6

\* What is gathered from S in as many rounds as T has elements, by adding all that F
\* gives of what there is, is the least part of T that has S and what F gives of it.
LEMMA Gathered ==
    ASSUME NEW T, IsFiniteSet(T), NEW F \in [SUBSET T -> SUBSET T],
           NEW r \in [Nat -> SUBSET T], \A n \in Nat : r[n + 1] = r[n] \cup F[r[n]]
    PROVE  /\ r[0] \subseteq r[Cardinality(T)]
           /\ F[r[Cardinality(T)]] \subseteq r[Cardinality(T)]
           /\ \A C \in SUBSET T :
                 r[0] \subseteq C /\ (\A B \in SUBSET C : F[B] \subseteq C) => r[Cardinality(T)] \subseteq C
<1>1. Cardinality(T) \in Nat
  BY FS_CardinalityType
<1>2. r[Cardinality(T)] = r[Cardinality(T) + 1]
  <2>1. \A n \in Nat : r[n] \subseteq r[n + 1]
    OBVIOUS
  <2>2. ASSUME NEW n \in Nat, r[n] = r[n + 1] PROVE r[n + 1] = r[n + 2]
    <3>1. r[(n + 1) + 1] = r[n + 1] \cup F[r[n + 1]] /\ (n + 1) + 1 = n + 2
      OBVIOUS
    <3>2. r[n + 1] = r[n] \cup F[r[n]]
      OBVIOUS
    <3> QED
      BY <2>2, <3>1, <3>2
  <2>3. \A n \in Nat : r[n] = r[n + 1] => r[n + 1] = r[n + 2]
    BY <2>2
  <2> QED
    BY <2>1, <2>3, Saturated
<1>3. \A n \in Nat : r[0] \subseteq r[n]
  <2> DEFINE Has == {k \in Nat : r[0] \subseteq r[k]}
  <2>1. 0 \in Has /\ \A n \in Nat : n \in Has => n + 1 \in Has
    OBVIOUS
  <2>2. \A n \in Nat : n \in Has
    <3> HIDE DEF Has
    <3> QED
      BY <2>1, EveryNumber
  <2> QED
    BY <2>2
<1>4. ASSUME NEW C \in SUBSET T, r[0] \subseteq C, \A B \in SUBSET C : F[B] \subseteq C
      PROVE  \A n \in Nat : r[n] \subseteq C
  <2> DEFINE In == {k \in Nat : r[k] \subseteq C}
  <2>1. 0 \in In /\ \A n \in Nat : n \in In => n + 1 \in In
    BY <1>4
  <2>2. \A n \in Nat : n \in In
    <3> HIDE DEF In
    <3> QED
      BY <2>1, EveryNumber
  <2> QED
    BY <2>2
<1>5. F[r[Cardinality(T)]] \subseteq r[Cardinality(T)]
  BY <1>1, <1>2
<1> QED
  BY <1>1, <1>3, <1>4, <1>5

\* The rounds of such a gathering are a function that solves its own equation.
Rounds(S, F, g) == g = [n \in Nat |-> IF n = 0 THEN S ELSE g[n - 1] \cup F[g[n - 1]]]

LEMMA RoundsExist ==
    ASSUME NEW T, NEW S \in SUBSET T, NEW F \in [SUBSET T -> SUBSET T]
    PROVE  \E g \in [Nat -> SUBSET T] : Rounds(S, F, g)
<1> DEFINE H == [B \in SUBSET T |-> B \cup F[B]]
           V == SUBSET T
<1>1. PICK g \in [Nat -> V] : Iterated(H, S, g)
  <2>1. H \in [V -> V] /\ S \in V
    OBVIOUS
  <2> HIDE DEF H, V
  <2> QED
    BY <2>1, Iterable
<1>2. \A n \in Nat \ {0} : g[n] = g[n - 1] \cup F[g[n - 1]]
  <2> TAKE n \in Nat \ {0}
  <2>1. n - 1 \in Nat /\ (n - 1) + 1 = n
    OBVIOUS
  <2> QED
    BY <1>1, <2>1 DEF Iterated
<1>3. g = [n \in Nat |-> g[n]]
  BY <1>1
<1> QED
  BY <1>1, <1>2, <1>3 DEF Iterated, Rounds

\* A function that is computed from its value for the number before exists.
Recurs(h, a, G) == h[0] = a /\ \A k \in Nat : h[k + 1] = G[<<k, h[k]>>]
LEMMA Recursion ==
    ASSUME NEW V, NEW a \in V, NEW G \in [Nat \X V -> V]
    PROVE  \E h \in [Nat -> V] : Recurs(h, a, G)
<1> DEFINE f == [p \in Nat \X V |-> <<p[1] + 1, G[p]>>]
<1>1. f \in [Nat \X V -> Nat \X V] /\ <<0, a>> \in Nat \X V
  OBVIOUS
<1>2. \A p \in Nat \X V : f[p] = <<p[1] + 1, G[p]>>
  OBVIOUS
<1> HIDE DEF f
<1> DEFINE W == Nat \X V
<1>3. PICK g \in [W -> W] : g = f
  BY <1>1
<1>4. PICK q \in [Nat -> W] : Iterated(f, <<0, a>>, q)
  <2> HIDE DEF W
  <2> QED
    BY <1>1, Iterable DEF W
<1>5. q[0] = <<0, a>> /\ \A k \in Nat : q[k + 1] = f[q[k]]
  BY <1>4 DEF Iterated
<1>6. \A k \in Nat : q[k] \in Nat \X V
  BY <1>4
<1>7. \A k \in Nat : q[k + 1] = <<q[k][1] + 1, G[q[k]]>>
  BY <1>2, <1>5, <1>6
<1> DEFINE Counts == {k \in Nat : q[k][1] = k}
<1>8. \A k \in Nat : k \in Counts
  <2>1. 0 \in Counts
    BY <1>5
  <2>2. ASSUME NEW k \in Nat, k \in Counts PROVE k + 1 \in Counts
    BY <1>7, <2>2
  <2> HIDE DEF Counts
  <2> QED
    BY <2>1, <2>2, EveryNumber
<1>9. \A k \in Nat : q[k] = <<k, q[k][2]>> /\ q[k][2] \in V
  BY <1>6, <1>8
<1> DEFINE h == [k \in Nat |-> q[k][2]]
<1>10. h \in [Nat -> V] /\ h[0] = a
  BY <1>5, <1>9
<1>11. ASSUME NEW k \in Nat PROVE h[k + 1] = G[<<k, h[k]>>]
  <2>1. h[k + 1] = q[k + 1][2] /\ h[k] = q[k][2]
    OBVIOUS
  <2>2. q[k + 1][2] = G[q[k]]
    BY <1>7
  <2> QED
    BY <1>9, <2>1, <2>2
<1> QED
  BY <1>10, <1>11 DEF Recurs

=============================================================================
