-------------------------------- MODULE Sums --------------------------------
(***************************************************************************)
(* Lemmas about sums over finite sets, and the least of a set of naturals, *)
(* that the proofs about several components rest on; and about what the    *)
(* balance changes come to that are gathered from a set of rows.  A        *)
(* recursion over a set is taken apart by the least size at which it could *)
(* fail.  And powers of ten: what a decimal comes to in minor units.      *)
(***************************************************************************)
EXTENDS BalanceChanges, FiniteSetsExt, FiniteSetTheorems, WellFoundedInduction, TLAPS

\* The sum of a function over a set, as the modules write it.
Sum(f, S) == MapThenSumSet(LAMBDA x : f[x], S)

\* Among naturals there is a least.
LEMMA LeastNatural ==
    ASSUME NEW S \in SUBSET Nat, S # {}
    PROVE  \E m \in S : \A k \in S : m <= k
<1> DEFINE R == OpToRel(<, Nat)
<1>1. IsWellFoundedOn(R, Nat)  BY NatLessThanWellFounded, Zenon
<1>2. \A x \in Nat, y \in Nat : <<x, y>> \in R <=> x < y  BY DEF OpToRel
<1> HIDE DEF R
<1>3. PICK m \in S : \A k \in S : ~(<<k, m>> \in R)  BY <1>1, WFMin
<1>4. m \in Nat /\ \A k \in S : k \in Nat  OBVIOUS
<1>5. \A k \in S : ~(k < m)  BY <1>2, <1>3, <1>4
<1> QED  BY <1>4, <1>5

\* The places of a sequence are as many as its length.
LEMMA PlacesAreFinite == ASSUME NEW n \in Nat PROVE IsFiniteSet(1..n) /\ Cardinality(1..n) = n
<1>1. 1 \in Int /\ n \in Int  OBVIOUS
<1>2. IsFiniteSet(1..n)  BY <1>1, FS_Interval
<1>3. Cardinality(1..n) = IF 1 > n THEN 0 ELSE n - 1 + 1  BY <1>1, FS_Interval
<1> QED  BY <1>2, <1>3

\* A part of a finite set that leaves something out has fewer elements.
LEMMA PartIsSmaller ==
    ASSUME NEW S, IsFiniteSet(S), NEW T \in SUBSET S, T # S
    PROVE  Cardinality(T) \in Nat /\ Cardinality(S) \in Nat /\ Cardinality(T) < Cardinality(S)
<1>1. IsFiniteSet(T) /\ Cardinality(T) <= Cardinality(S) /\ Cardinality(T) # Cardinality(S)  BY FS_Subset
<1>2. Cardinality(T) \in Nat /\ Cardinality(S) \in Nat  BY <1>1, FS_CardinalityType
<1> QED  BY <1>1, <1>2

\* A set of sets that has a finite member has a smallest one.
LEMMA SmallestSet ==
    ASSUME NEW B, NEW T \in B, \A s \in B : IsFiniteSet(s)
    PROVE  \E m \in B : \A s \in B : Cardinality(m) <= Cardinality(s)
<1> DEFINE N == {n \in Nat : \E s \in B : n = Cardinality(s)}
<1>1. \A s \in B : Cardinality(s) \in N  BY FS_CardinalityType
<1>2. PICK n \in N : \A k \in N : n <= k  BY <1>1, LeastNatural
<1> QED  BY <1>1, <1>2

(***************************************************************************)
(* The recursion of a sum.                                                 *)
(***************************************************************************)
Pick(s) == CHOOSE x \in s : TRUE

\* One step of the recursion, over the members of D.
Unfold(f, D, g) == [s \in D |-> IF s = {} THEN 0 ELSE f[Pick(s)] + g[s \ {Pick(s)}]]

LEMMA PickIsIn ==
    ASSUME NEW s, s # {}
    PROVE  Pick(s) \in s
BY DEF Pick

LEMMA SmallerByOne ==
    ASSUME NEW s, IsFiniteSet(s), NEW x \in s
    PROVE  /\ IsFiniteSet(s \ {x})
           /\ Cardinality(s \ {x}) \in Nat /\ Cardinality(s) \in Nat
           /\ Cardinality(s \ {x}) + 1 = Cardinality(s)
           /\ ~(Cardinality(s) <= Cardinality(s \ {x}))
<1>1. IsFiniteSet(s \ {x}) /\ Cardinality(s \ {x}) = Cardinality(s) - 1  BY FS_RemoveElement
<1>2. Cardinality(s) \in Nat /\ Cardinality(s \ {x}) \in Nat  BY <1>1, FS_CardinalityType
<1> QED  BY <1>1, <1>2

\* The recursion has a solution: over the sets of up to n elements, for every n.
LEMMA Unfolds ==
    ASSUME NEW f, NEW S, IsFiniteSet(S)
    PROVE  \E g : g = Unfold(f, SUBSET S, g)
<1> DEFINE D(n) == {s \in SUBSET S : Cardinality(s) <= n}
           Solved(n) == \E g : g = Unfold(f, D(n), g)
           Bad == {n \in Nat : ~Solved(n)}
<1>1. \A s \in SUBSET S : IsFiniteSet(s) /\ Cardinality(s) \in Nat /\ Cardinality(s) <= Cardinality(S)
    BY FS_Subset, FS_CardinalityType
<1>2. Solved(0)
    <2>1. \A s \in D(0) : s = {}  BY <1>1, FS_EmptySet
    <2>2. [s \in D(0) |-> 0] = Unfold(f, D(0), [s \in D(0) |-> 0])  BY <2>1 DEF Unfold
    <2> QED  BY <2>2
<1>3. ASSUME NEW n \in Nat, Solved(n) PROVE Solved(n + 1)
    <2>1. PICK g : g = Unfold(f, D(n), g)  BY <1>3
    <2> DEFINE h == Unfold(f, D(n + 1), g)
    <2>2. D(n) \subseteq D(n + 1)  BY <1>1
    <2>3. \A s \in D(n) : h[s] = g[s]  BY <2>1, <2>2 DEF Unfold
    <2>4. ASSUME NEW s \in D(n + 1), s # {} PROVE s \ {Pick(s)} \in D(n)
        <3>1. Pick(s) \in s  BY <2>4, PickIsIn
        <3> QED  BY <1>1, <3>1, SmallerByOne
    <2>5. h = Unfold(f, D(n + 1), h)  BY <2>3, <2>4 DEF Unfold
    <2> QED  BY <2>5
<1>4. Bad = {}
    <2> SUFFICES ASSUME Bad # {} PROVE FALSE
        OBVIOUS
    <2>1. PICK m \in Bad : \A k \in Bad : m <= k  BY LeastNatural
    <2> HIDE DEF Solved
    <2>2. m # 0 /\ m - 1 \in Nat  BY <1>2
    <2>3. Solved(m - 1)  BY <2>1, <2>2
    <2>4. Solved((m - 1) + 1)  BY <1>3, <2>2, <2>3
    <2> QED  BY <2>4
<1>5. Solved(Cardinality(S))
    <2>1. Cardinality(S) \in Nat  BY <1>1
    <2> QED  BY <1>4, <2>1
<1>6. D(Cardinality(S)) = SUBSET S  BY <1>1
<1> QED  BY <1>5, <1>6

\* Solutions agree where both have a value.
LEMMA SolutionsAgree ==
    ASSUME NEW f, NEW S, NEW T \in SUBSET S, IsFiniteSet(S)
    PROVE  \A g, h : g = Unfold(f, SUBSET S, g) /\ h = Unfold(f, SUBSET T, h) => g[T] = h[T]
<1> SUFFICES ASSUME NEW g, g = Unfold(f, SUBSET S, g), NEW h, h = Unfold(f, SUBSET T, h)
             PROVE  g[T] = h[T]
    OBVIOUS
<1> DEFINE B == {s \in SUBSET T : g[s] # h[s]}
<1>1. SUFFICES ASSUME B # {} PROVE FALSE
    OBVIOUS
<1>2. \A s \in SUBSET S : IsFiniteSet(s)  BY FS_Subset
<1>3. PICK m \in B : \A s \in B : Cardinality(m) <= Cardinality(s)  BY <1>1, <1>2, SmallestSet
<1>4. CASE m = {}  BY <1>4 DEF Unfold
<1>5. CASE m # {}
    <2>1. Pick(m) \in m  BY <1>5, PickIsIn
    <2>2. m \ {Pick(m)} \in SUBSET T /\ m \ {Pick(m)} \notin B
        <3>1. IsFiniteSet(m)  BY <1>2
        <3>2. ~(Cardinality(m) <= Cardinality(m \ {Pick(m)}))
            BY <2>1, <3>1, SmallerByOne
        <3>3. m \ {Pick(m)} \notin B  BY <1>3, <3>2
        <3> QED  BY <3>3
    <2>3. g[m \ {Pick(m)}] = h[m \ {Pick(m)}]  BY <2>2
    <2> QED  BY <1>5, <2>3 DEF Unfold
<1> QED  BY <1>4, <1>5

LEMMA SumIsSolution ==
    ASSUME NEW f, NEW S
    PROVE  Sum(f, S) = (CHOOSE g : g = Unfold(f, SUBSET S, g))[S]
<1> DEFINE E(g) == [s \in SUBSET S |-> IF s = {} THEN 0
                                       ELSE f[CHOOSE x \in s : TRUE] + g[s \ {CHOOSE x \in s : TRUE}]]
<1>1. Sum(f, S) = (CHOOSE g : g = E(g))[S]  BY DEF Sum, MapThenSumSet, MapThenFoldSet
<1>2. \A g : E(g) = Unfold(f, SUBSET S, g)  BY DEF Unfold, Pick
<1> HIDE DEF E
<1> QED  BY <1>1, <1>2

(***************************************************************************)
(* What a sum is.                                                          *)
(***************************************************************************)
\* The sum of nothing, and a sum from which the picked element is taken.
LEMMA SumUnfolds ==
    ASSUME NEW f, NEW S, IsFiniteSet(S)
    PROVE  /\ S = {} => Sum(f, S) = 0
           /\ S # {} => Sum(f, S) = f[Pick(S)] + Sum(f, S \ {Pick(S)})
<1> DEFINE R(T) == CHOOSE g : g = Unfold(f, SUBSET T, g)
           T == S \ {Pick(S)}
<1>1. IsFiniteSet(T) /\ T \subseteq S  BY FS_Subset
<1>2. R(S) = Unfold(f, SUBSET S, R(S)) /\ R(T) = Unfold(f, SUBSET T, R(T))
    BY <1>1, Unfolds
<1>3. Sum(f, S) = R(S)[S] /\ Sum(f, T) = R(T)[T]  BY SumIsSolution
<1> HIDE DEF R
<1>4. R(S)[T] = R(T)[T]
    <2> DEFINE g == R(S)
               h == R(T)
    <2>1. T \subseteq S /\ g = Unfold(f, SUBSET S, g) /\ h = Unfold(f, SUBSET T, h)  BY <1>1, <1>2
    <2> HIDE DEF T, g, h
    <2>2. g[T] = h[T]
        <3>1. \A a, b : a = Unfold(f, SUBSET S, a) /\ b = Unfold(f, SUBSET T, b) => a[T] = b[T]
            BY <2>1, SolutionsAgree
        <3> QED  BY <2>1, <3>1, Zenon
    <2> QED  BY <2>2 DEF g, h
<1>5. R(S)[S] = IF S = {} THEN 0 ELSE f[Pick(S)] + R(S)[T]  BY <1>2 DEF Unfold
<1> QED  BY <1>3, <1>4, <1>5

LEMMA SumOfNothing ==
    ASSUME NEW f
    PROVE  Sum(f, {}) = 0
BY FS_EmptySet, SumUnfolds

\* A sum of integers is one.
LEMMA SumIsInteger ==
    ASSUME NEW f, NEW S, IsFiniteSet(S), \A x \in S : f[x] \in Int
    PROVE  Sum(f, S) \in Int
<1> DEFINE B == {s \in SUBSET S : Sum(f, s) \notin Int}
<1>1. SUFFICES ASSUME B # {} PROVE FALSE
    OBVIOUS
<1>2. \A s \in SUBSET S : IsFiniteSet(s)  BY FS_Subset
<1>3. PICK m \in B : \A s \in B : Cardinality(m) <= Cardinality(s)  BY <1>1, <1>2, SmallestSet
<1>4. m # {}  BY <1>3, SumOfNothing
<1>5. Pick(m) \in m  BY <1>4, PickIsIn
<1>6. ~(Cardinality(m) <= Cardinality(m \ {Pick(m)}))
    BY <1>2, <1>5, SmallerByOne
<1>7. m \ {Pick(m)} \in SUBSET S /\ m \ {Pick(m)} \notin B  BY <1>3, <1>6
<1>8. Sum(f, m \ {Pick(m)}) \in Int  BY <1>7
<1>9. Sum(f, m) = f[Pick(m)] + Sum(f, m \ {Pick(m)})  BY <1>2, <1>4, SumUnfolds
<1> QED  BY <1>5, <1>8, <1>9

\* Any element may be taken from a sum first.
LEMMA SumTakes ==
    ASSUME NEW f, NEW S, IsFiniteSet(S), \A x \in S : f[x] \in Int, NEW x \in S
    PROVE  Sum(f, S) = f[x] + Sum(f, S \ {x})
<1> DEFINE B == {s \in SUBSET S : \E y \in s : Sum(f, s) # f[y] + Sum(f, s \ {y})}
<1>1. SUFFICES ASSUME B # {} PROVE FALSE
    OBVIOUS
<1>2. \A s \in SUBSET S : IsFiniteSet(s) /\ Sum(f, s) \in Int  BY FS_Subset, SumIsInteger
<1>3. PICK m \in B : \A s \in B : Cardinality(m) <= Cardinality(s)  BY <1>1, <1>2, SmallestSet
<1>4. PICK y \in m : Sum(f, m) # f[y] + Sum(f, m \ {y})  OBVIOUS
<1> DEFINE p == Pick(m)
<1>5. p \in m  BY <1>4, PickIsIn
<1>6. Sum(f, m) = f[p] + Sum(f, m \ {p})  BY <1>2, <1>4, SumUnfolds
<1>7. p # y  BY <1>4, <1>6
<1> HIDE DEF p
<1>8. ASSUME NEW z \in m PROVE m \ {z} \in SUBSET S /\ m \ {z} \notin B
    <2>1. ~(Cardinality(m) <= Cardinality(m \ {z}))
        BY <1>2, SmallerByOne
    <2>2. m \ {z} \notin B  BY <1>3, <2>1
    <2> QED  BY <2>2
<1>9. Sum(f, m \ {p}) = f[y] + Sum(f, (m \ {p}) \ {y})  BY <1>5, <1>7, <1>8
<1>10. Sum(f, m \ {y}) = f[p] + Sum(f, (m \ {y}) \ {p})  BY <1>5, <1>7, <1>8
<1>11. (m \ {p}) \ {y} = (m \ {y}) \ {p}  OBVIOUS
<1>12. Sum(f, (m \ {p}) \ {y}) \in Int /\ f[p] \in Int /\ f[y] \in Int  BY <1>2, <1>5
<1> DEFINE rest == Sum(f, (m \ {p}) \ {y})
<1>13. Sum(f, m) = f[p] + (f[y] + rest)  BY <1>6, <1>9
<1>14. Sum(f, m \ {y}) = f[p] + rest  BY <1>10, <1>11
<1>15. f[p] + (f[y] + rest) = f[y] + (f[p] + rest)
    <2>1. f[p] \in Int /\ f[y] \in Int /\ rest \in Int  BY <1>12
    <2> HIDE DEF rest
    <2> QED  BY <2>1
<1> QED  BY <1>4, <1>13, <1>14, <1>15

\* Sums of functions that agree are the same.
LEMMA SumsAgree ==
    ASSUME NEW f, NEW g, NEW S, \A x \in S : f[x] = g[x]
    PROVE  Sum(f, S) = Sum(g, S)
<1>1. \A h : Unfold(f, SUBSET S, h) = Unfold(g, SUBSET S, h)
    <2>1. \A s \in SUBSET S : s # {} => f[Pick(s)] = g[Pick(s)]  BY PickIsIn
    <2> QED  BY <2>1 DEF Unfold
<1> QED  BY <1>1, SumIsSolution

LEMMA SumOfOne ==
    ASSUME NEW f, NEW x, f[x] \in Int
    PROVE  Sum(f, {x}) = f[x]
<1>1. IsFiniteSet({x}) /\ {x} \ {x} = {}  BY FS_Singleton
<1>2. Sum(f, {x}) = f[x] + Sum(f, {x} \ {x})  BY <1>1, SumTakes
<1>3. Sum(f, {x} \ {x}) = 0  BY <1>1, SumOfNothing
<1> QED  BY <1>2, <1>3

\* A function that changes at one point.
LEMMA SumChanges ==
    ASSUME NEW f, NEW g, NEW S, IsFiniteSet(S), \A y \in S : f[y] \in Int /\ g[y] \in Int,
           NEW x \in S, \A y \in S \ {x} : f[y] = g[y]
    PROVE  Sum(g, S) = (Sum(f, S) - f[x]) + g[x]
<1>1. Sum(f, S) = f[x] + Sum(f, S \ {x}) /\ Sum(g, S) = g[x] + Sum(g, S \ {x})  BY SumTakes
<1>2. Sum(f, S \ {x}) = Sum(g, S \ {x})  BY SumsAgree
<1>3. IsFiniteSet(S \ {x})  BY FS_Subset
<1>4. Sum(f, S \ {x}) \in Int  BY <1>3, SumIsInteger
<1> QED  BY <1>1, <1>2, <1>4

\* What is moved from one to another leaves the sum.
LEMMA SumMoves ==
    ASSUME NEW A, IsFiniteSet(A), NEW f \in [A -> Int], NEW h \in [A -> Int],
           NEW x \in A, NEW y \in A, x # y, NEW n \in Int,
           h[x] = f[x] - n, h[y] = f[y] + n, \A z \in A \ {x, y} : h[z] = f[z]
    PROVE  Sum(h, A) = Sum(f, A)
<1> DEFINE g == [f EXCEPT ![x] = @ - n]
<1>1. g \in [A -> Int] /\ Sum(f, A) \in Int
    BY SumIsInteger
<1>2. /\ g[x] = f[x] - n /\ \A z \in A \ {x} : f[z] = g[z]
      /\ g[y] = f[y] /\ \A z \in A \ {y} : g[z] = h[z]
    OBVIOUS
<1> HIDE DEF g
<1>3. Sum(g, A) = (Sum(f, A) - f[x]) + g[x]  BY <1>1, <1>2, SumChanges
<1>4. Sum(h, A) = (Sum(g, A) - g[y]) + h[y]  BY <1>1, <1>2, SumChanges
<1>5. f[x] \in Int /\ f[y] \in Int  OBVIOUS
<1> QED  BY <1>1, <1>2, <1>3, <1>4, <1>5

\* The sum of differences is the difference of the sums.
LEMMA SumOfDifferences ==
    ASSUME NEW f, NEW g, NEW d, NEW S, IsFiniteSet(S),
           \A x \in S : f[x] \in Int /\ g[x] \in Int /\ d[x] = f[x] - g[x]
    PROVE  Sum(d, S) = Sum(f, S) - Sum(g, S)
<1> DEFINE B == {s \in SUBSET S : Sum(d, s) # Sum(f, s) - Sum(g, s)}
<1>1. SUFFICES ASSUME B # {} PROVE FALSE
    OBVIOUS
<1>2. \A s \in SUBSET S : IsFiniteSet(s) /\ Sum(f, s) \in Int /\ Sum(g, s) \in Int
    BY FS_Subset, SumIsInteger
<1>3. PICK m \in B : \A s \in B : Cardinality(m) <= Cardinality(s)  BY <1>1, <1>2, SmallestSet
<1>4. m # {}  BY <1>3, SumOfNothing
<1>5. PICK x \in m : TRUE  BY <1>4
<1>6. ~(Cardinality(m) <= Cardinality(m \ {x}))
    BY <1>2, SmallerByOne
<1>7. m \ {x} \in SUBSET S /\ m \ {x} \notin B  BY <1>3, <1>6
<1>8. Sum(d, m \ {x}) = Sum(f, m \ {x}) - Sum(g, m \ {x})  BY <1>7
<1>9. \A y \in S : d[y] \in Int  OBVIOUS
<1>10. /\ Sum(d, m) = d[x] + Sum(d, m \ {x})
       /\ Sum(f, m) = f[x] + Sum(f, m \ {x})
       /\ Sum(g, m) = g[x] + Sum(g, m \ {x})
    BY <1>2, <1>9, SumTakes
<1>11. d[x] = f[x] - g[x] /\ f[x] \in Int /\ g[x] \in Int
       /\ Sum(f, m \ {x}) \in Int /\ Sum(g, m \ {x}) \in Int
    BY <1>2, <1>7
<1> QED  BY <1>8, <1>10, <1>11

\* Zeros count for nothing.
LEMMA SumWithoutZeros ==
    ASSUME NEW f, NEW S, IsFiniteSet(S), \A x \in S : f[x] \in Int,
           NEW T \in SUBSET S, \A x \in S \ T : f[x] = 0
    PROVE  Sum(f, T) = Sum(f, S)
<1> DEFINE B == {s \in SUBSET S : T \subseteq s /\ Sum(f, s) # Sum(f, T)}
<1>1. SUFFICES ASSUME B # {} PROVE FALSE
    OBVIOUS
<1>2. \A s \in SUBSET S : IsFiniteSet(s) /\ Sum(f, s) \in Int  BY FS_Subset, SumIsInteger
<1>3. PICK m \in B : \A s \in B : Cardinality(m) <= Cardinality(s)  BY <1>1, <1>2, SmallestSet
<1>4. PICK x \in m : x \notin T  OBVIOUS
<1>5. ~(Cardinality(m) <= Cardinality(m \ {x}))
    BY <1>2, SmallerByOne
<1>6. m \ {x} \in SUBSET S /\ T \subseteq m \ {x} /\ m \ {x} \notin B  BY <1>3, <1>4, <1>5
<1>7. Sum(f, m \ {x}) = Sum(f, T)  BY <1>6
<1>8. Sum(f, m) = f[x] + Sum(f, m \ {x})  BY <1>2, SumTakes
<1>9. f[x] = 0 /\ Sum(f, m \ {x}) \in Int  BY <1>2, <1>4, <1>6
<1> QED  BY <1>7, <1>8, <1>9

\* What is summed class by class comes to the sum of all.
LEMMA SumByClass ==
    ASSUME NEW f, NEW S, IsFiniteSet(S), \A x \in S : f[x] \in Int,
           NEW class, NEW C, IsFiniteSet(C), \A x \in S : class[x] \in C
    PROVE  Sum([c \in C |-> Sum(f, {x \in S : class[x] = c})], C) = Sum(f, S)
<1> DEFINE Of(s) == [c \in C |-> Sum(f, {x \in s : class[x] = c})]
           B == {s \in SUBSET S : Sum(Of(s), C) # Sum(f, s)}
<1>1. SUFFICES ASSUME B # {} PROVE FALSE
    OBVIOUS
<1>2. \A s \in SUBSET S : IsFiniteSet(s) /\ Sum(f, s) \in Int  BY FS_Subset, SumIsInteger
<1>3. PICK m \in B : \A s \in B : Cardinality(m) <= Cardinality(s)  BY <1>1, <1>2, SmallestSet
<1>4. \A s \in SUBSET S : \A c \in C : Of(s)[c] \in Int  BY <1>2
<1>5. CASE m = {}
    <2>1. \A c \in C : Of(m)[c] = 0  BY <1>5, SumUnfolds, FS_EmptySet
    <2>2. Sum(Of(m), {}) = Sum(Of(m), C)
        <3> HIDE DEF Of
        <3> QED  BY <1>3, <1>4, <2>1, SumWithoutZeros
    <2> QED  BY <1>2, <1>5, <2>2, SumUnfolds, FS_EmptySet
<1>6. CASE m # {}
    <2>1. PICK x \in m : TRUE  BY <1>6
    <2> DEFINE n == m \ {x}
               k == class[x]
    <2>2. ~(Cardinality(m) <= Cardinality(n))
        BY <1>2, SmallerByOne
    <2>3. n \in SUBSET S /\ n \notin B /\ m \in SUBSET S /\ k \in C  BY <1>3, <2>2
    <2>4. Sum(Of(n), C) = Sum(f, n)  BY <2>3
    <2>5. Sum(f, m) = f[x] + Sum(f, n)  BY <1>2, SumTakes
    <2>6. \A c \in C : c # k => Of(m)[c] = Of(n)[c]
        <3> SUFFICES ASSUME NEW c \in C, c # k PROVE Of(m)[c] = Of(n)[c]
            OBVIOUS
        <3>1. {y \in m : class[y] = c} = {y \in n : class[y] = c}  OBVIOUS
        <3> QED  BY <3>1
    <2>7. Of(m)[k] = f[x] + Of(n)[k]
        <3>1. {y \in m : class[y] = k} \ {x} = {y \in n : class[y] = k}  OBVIOUS
        <3>2. x \in {y \in m : class[y] = k} /\ {y \in m : class[y] = k} \in SUBSET S  BY <2>3
        <3>3. Sum(f, {y \in m : class[y] = k}) = f[x] + Sum(f, {y \in m : class[y] = k} \ {x})
            <4> DEFINE s == {y \in m : class[y] = k}
            <4>1. IsFiniteSet(s) /\ x \in s /\ \A y \in s : f[y] \in Int  BY <1>2, <3>2
            <4> HIDE DEF s
            <4>2. Sum(f, s) = f[x] + Sum(f, s \ {x})  BY <4>1, SumTakes
            <4> QED  BY <4>2 DEF s
        <3> QED  BY <2>3, <3>1, <3>3
    <2>8. Sum(Of(m), C) = Of(m)[k] + Sum(Of(m), C \ {k})
          /\ Sum(Of(n), C) = Of(n)[k] + Sum(Of(n), C \ {k})
        <3>1. (\A c \in C : Of(m)[c] \in Int) /\ (\A c \in C : Of(n)[c] \in Int)  BY <1>4, <2>3
        <3> HIDE DEF Of, n, k
        <3> QED  BY <2>3, <3>1, SumTakes
    <2>9. Sum(Of(m), C \ {k}) = Sum(Of(n), C \ {k})
        <3> HIDE DEF Of, n, k
        <3> QED  BY <2>6, SumsAgree
    <2>10. f[x] \in Int /\ Of(n)[k] \in Int /\ Sum(Of(n), C \ {k}) \in Int
        <3>1. IsFiniteSet(C \ {k}) /\ \A c \in C \ {k} : Of(n)[c] \in Int  BY <1>4, <2>3, FS_Subset
        <3>2. Of(n)[k] \in Int /\ f[x] \in Int  BY <1>4, <2>3
        <3> HIDE DEF Of, n, k
        <3> QED  BY <3>1, <3>2, SumIsInteger
    <2>11. Sum(Of(m), C) = Sum(f, m)
        <3> HIDE DEF Of, n, k
        <3> QED  BY <2>4, <2>5, <2>7, <2>8, <2>9, <2>10
    <2> QED  BY <2>11
<1> QED  BY <1>5, <1>6

\* The values of a function on a finite set are finitely many.
LEMMA ImageIsFinite ==
    ASSUME NEW f, NEW S, IsFiniteSet(S)
    PROVE  IsFiniteSet({f[x] : x \in S})
<1> DEFINE I == {f[x] : x \in S}
           h == [x \in S |-> f[x]]
<1>1. h \in Surjection(S, I)  BY DEF Surjection
<1> HIDE DEF I, h
<1>2. IsFiniteSet(I)  BY <1>1, FS_Surjection
<1> QED  BY <1>2 DEF I
(***************************************************************************)
(* Balance changes that are gathered from rows, each [wallet, asset,       *)
(* amount, skip].                                                          *)
(***************************************************************************)
\* What changes say of a wallet and an asset is an integer.
LEMMA GainedIsInteger ==
    ASSUME NEW changes, Normal(changes), NEW w, NEW a
    PROVE  Gained(changes, w, a) \in Int
BY DEF Normal, Gained, RowOf, NoChanges, Has

\* An upsert adds to one asset of one wallet, and leaves no row empty or zero.
LEMMA UpsertAdds ==
    ASSUME NEW changes, Normal(changes), NEW w, NEW a, NEW n \in Int
    PROVE  /\ Normal(upsert(changes, w, a, n))
           /\ \A v, b : Gained(upsert(changes, w, a, n), v, b)
                        = Gained(changes, v, b) + (IF v = w /\ b = a THEN n ELSE 0)
<1> DEFINE net == Gained(changes, w, a) + n
           old == RowOf(changes, w)
           row == IF net = 0 THEN Without(old, a) ELSE With(old, a, net)
           next == upsert(changes, w, a, n)
<1>1. net \in Int  BY GainedIsInteger
<1>2. next = IF DOMAIN row = {} THEN Without(changes, w) ELSE With(changes, w, row)
    BY DEF upsert
<1>3. \A b \in DOMAIN old : old[b] \in Int \ {0}  BY DEF RowOf, Normal, Has, NoChanges
<1>4. /\ DOMAIN row = IF net = 0 THEN DOMAIN old \ {a} ELSE DOMAIN old \cup {a}
      /\ \A b \in DOMAIN row : row[b] = IF b = a THEN net ELSE old[b]
    <2> HIDE DEF net, old
    <2> QED  BY DEF Without, With
<1>5. \A b \in DOMAIN row : row[b] \in Int \ {0}
    <2> HIDE DEF net, old, row
    <2> QED  BY <1>1, <1>3, <1>4
<1>6. /\ DOMAIN next = IF DOMAIN row = {} THEN DOMAIN changes \ {w} ELSE DOMAIN changes \cup {w}
      /\ \A v \in DOMAIN next : next[v] = IF v = w THEN row ELSE changes[v]
    <2> HIDE DEF row, next
    <2> QED  BY <1>2 DEF Without, With
<1>7. Normal(next)
    <2> HIDE DEF row, next
    <2> QED  BY <1>5, <1>6 DEF Normal
<1>8. RowOf(next, w) = IF DOMAIN row = {} THEN NoChanges ELSE row
    <2> HIDE DEF row, next
    <2> QED  BY <1>6 DEF RowOf, Has
<1>9. ASSUME NEW v, v # w PROVE RowOf(next, v) = RowOf(changes, v)
    <2> HIDE DEF row, next
    <2> QED  BY <1>6, <1>9 DEF RowOf, Has
<1>10. ASSUME NEW b PROVE Gained(next, w, b) = Gained(changes, w, b) + (IF b = a THEN n ELSE 0)
    <2>1. Gained(changes, w, b) = IF b \in DOMAIN old THEN old[b] ELSE 0  BY DEF Gained, Has
    <2>2. Gained(next, w, b) = IF b \in DOMAIN row THEN row[b] ELSE 0
        <3> HIDE DEF row, next
        <3> QED  BY <1>8 DEF Gained, Has, NoChanges
    <2>3. Gained(changes, w, b) \in Int  BY GainedIsInteger
    <2>4. CASE b = a
        <3>1. Gained(next, w, b) = net
            <4> HIDE DEF net, old, row, next
            <4> QED  BY <1>4, <2>2, <2>4
        <3> QED  BY <2>4, <3>1
    <2>5. CASE b # a
        <3>1. Gained(next, w, b) = Gained(changes, w, b)
            <4> HIDE DEF net, old, row, next
            <4> QED  BY <1>4, <2>1, <2>2, <2>5
        <3> QED  BY <2>3, <2>5, <3>1
    <2> QED  BY <2>4, <2>5
<1>11. ASSUME NEW v, NEW b, v # w PROVE Gained(next, v, b) = Gained(changes, v, b) /\ Gained(changes, v, b) \in Int
    <2> HIDE DEF next
    <2> QED  BY <1>9, <1>11, GainedIsInteger DEF Gained
<1> QED  BY <1>7, <1>10, <1>11

\* What a row adds to an asset of a wallet.
Counted(row, w, a) == IF ~row.skip /\ w = row.wallet /\ a = row.asset THEN row.amount ELSE 0

Add(row, changes) ==
    IF row.skip THEN changes ELSE upsert(changes, row.wallet, row.asset, row.amount)

\* One step of the recursion that adds the rows of a set, over the members of D.
Gather(base, rows, D, g) ==
    [s \in D |-> IF s = {} THEN base ELSE Add(rows[Pick(s)], g[s \ {Pick(s)}])]

Gathered(base, rows, S) == (CHOOSE g : g = Gather(base, rows, SUBSET S, g))[S]

LEMMA Gathers ==
    ASSUME NEW base, NEW rows, NEW S, IsFiniteSet(S)
    PROVE  \E g : g = Gather(base, rows, SUBSET S, g)
<1> DEFINE D(n) == {s \in SUBSET S : Cardinality(s) <= n}
           Solved(n) == \E g : g = Gather(base, rows, D(n), g)
           Bad == {n \in Nat : ~Solved(n)}
<1>1. \A s \in SUBSET S : IsFiniteSet(s) /\ Cardinality(s) \in Nat /\ Cardinality(s) <= Cardinality(S)
    BY FS_Subset, FS_CardinalityType
<1>2. Solved(0)
    <2>1. \A s \in D(0) : s = {}  BY <1>1, FS_EmptySet
    <2>2. [s \in D(0) |-> base] = Gather(base, rows, D(0), [s \in D(0) |-> base])  BY <2>1 DEF Gather
    <2> QED  BY <2>2
<1>3. ASSUME NEW n \in Nat, Solved(n) PROVE Solved(n + 1)
    <2>1. PICK g : g = Gather(base, rows, D(n), g)  BY <1>3
    <2> DEFINE h == Gather(base, rows, D(n + 1), g)
    <2>2. D(n) \subseteq D(n + 1)  BY <1>1
    <2>3. \A s \in D(n) : h[s] = g[s]  BY <2>1, <2>2 DEF Gather
    <2>4. ASSUME NEW s \in D(n + 1), s # {} PROVE s \ {Pick(s)} \in D(n)
        <3>1. Pick(s) \in s  BY <2>4, PickIsIn
        <3> QED  BY <1>1, <3>1, SmallerByOne
    <2>5. h = Gather(base, rows, D(n + 1), h)  BY <2>3, <2>4 DEF Gather
    <2> QED  BY <2>5
<1>4. Bad = {}
    <2> SUFFICES ASSUME Bad # {} PROVE FALSE
        OBVIOUS
    <2>1. PICK m \in Bad : \A k \in Bad : m <= k  BY LeastNatural
    <2> HIDE DEF Solved
    <2>2. m # 0 /\ m - 1 \in Nat  BY <1>2
    <2>3. Solved(m - 1)  BY <2>1, <2>2
    <2>4. Solved((m - 1) + 1)  BY <1>3, <2>2, <2>3
    <2> QED  BY <2>4
<1>5. Solved(Cardinality(S))
    <2>1. Cardinality(S) \in Nat  BY <1>1
    <2> QED  BY <1>4, <2>1
<1>6. D(Cardinality(S)) = SUBSET S  BY <1>1
<1> QED  BY <1>5, <1>6

\* What changes come to that rows are added to: each row counts once, in any order.
LEMMA GatheredGains ==
    ASSUME NEW base, Normal(base), NEW rows, NEW S, IsFiniteSet(S),
           \A x \in S : rows[x].amount \in Int
    PROVE  /\ Normal(Gathered(base, rows, S))
           /\ \A w, a : Gained(Gathered(base, rows, S), w, a)
                        = Gained(base, w, a) + Sum([x \in S |-> Counted(rows[x], w, a)], S)
<1> DEFINE G == CHOOSE g : g = Gather(base, rows, SUBSET S, g)
           part(w, a) == [x \in S |-> Counted(rows[x], w, a)]
           Right(s) == /\ Normal(G[s])
                       /\ \A w, a : Gained(G[s], w, a) = Gained(base, w, a) + Sum(part(w, a), s)
           B == {s \in SUBSET S : ~Right(s)}
<1>1. SUFFICES ASSUME B # {} PROVE FALSE
    BY DEF Gathered
<1>2. G = Gather(base, rows, SUBSET S, G)
    <2>1. \E g : g = Gather(base, rows, SUBSET S, g)  BY Gathers
    <2> QED  BY <2>1
<1>3. \A s \in SUBSET S : IsFiniteSet(s)  BY FS_Subset
<1>4. PICK m \in B : \A s \in B : Cardinality(m) <= Cardinality(s)
    <2> HIDE DEF B
    <2>1. \A s \in B : IsFiniteSet(s)  BY <1>3 DEF B
    <2> QED  BY <1>1, <2>1, SmallestSet
<1>5. \A w, a : Gained(base, w, a) \in Int  BY GainedIsInteger
<1>6. \A w, a : \A x \in S : part(w, a)[x] \in Int  BY DEF Counted
<1>7. CASE m = {}
    <2>1. G[m] = base  BY <1>2, <1>7 DEF Gather
    <2>2. \A w, a : Sum(part(w, a), m) = 0
        <3> HIDE DEF part
        <3> QED  BY <1>7, SumOfNothing
    <2> HIDE DEF G, part
    <2>3. Right(m)  BY <1>5, <2>1, <2>2
    <2> QED  BY <2>3
<1>8. CASE m # {}
    <2> DEFINE p == Pick(m)
               t == m \ {p}
    <2>1. p \in m /\ p \in S /\ t \in SUBSET S  BY <1>8, PickIsIn
    <2>2. G[m] = Add(rows[p], G[t])
        <3> HIDE DEF G
        <3> QED  BY <1>2, <1>8 DEF Gather
    <2>3. Right(t)
        <3>1. ~(Cardinality(m) <= Cardinality(t))
            <4>1. IsFiniteSet(m)  BY <1>3
            <4> QED  BY <2>1, <4>1, SmallerByOne
        <3> HIDE DEF Right, t
        <3> QED  BY <1>4, <2>1, <3>1
    <2>4. \A w, a : Sum(part(w, a), m) = part(w, a)[p] + Sum(part(w, a), t) /\ Sum(part(w, a), t) \in Int
        <3> SUFFICES ASSUME NEW w, NEW a
                     PROVE  Sum(part(w, a), m) = part(w, a)[p] + Sum(part(w, a), t) /\ Sum(part(w, a), t) \in Int
            OBVIOUS
        <3> DEFINE f == part(w, a)
        <3>1. IsFiniteSet(m) /\ IsFiniteSet(t) /\ \A x \in m : f[x] \in Int  BY <1>3, <1>6, <2>1
        <3> HIDE DEF f, p
        <3>2. Sum(f, m) = f[p] + Sum(f, m \ {p})  BY <2>1, <3>1, SumTakes
        <3>3. Sum(f, t) \in Int  BY <3>1, SumIsInteger
        <3> QED  BY <3>2, <3>3 DEF f
    <2>5. \A w, a : part(w, a)[p] = Counted(rows[p], w, a)  BY <2>1
    <2> DEFINE row == rows[p]
               before == G[t]
    <2>6. row.amount \in Int /\ Normal(before)  BY <2>1, <2>3
    <2>7. /\ Normal(Add(row, before))
          /\ \A w, a : Gained(Add(row, before), w, a) = Gained(before, w, a) + Counted(row, w, a)
        <3> HIDE DEF row, before
        <3>1. \A w, a : Gained(before, w, a) \in Int  BY <2>6, GainedIsInteger
        <3>2. CASE row.skip  BY <2>6, <3>1, <3>2 DEF Add, Counted
        <3>3. CASE ~row.skip
            <4> DEFINE w0 == row.wallet
                       a0 == row.asset
                       n0 == row.amount
            <4>1. n0 \in Int  BY <2>6
            <4> HIDE DEF w0, a0, n0
            <4>2. /\ Normal(upsert(before, w0, a0, n0))
                  /\ \A w, a : Gained(upsert(before, w0, a0, n0), w, a)
                               = Gained(before, w, a) + (IF w = w0 /\ a = a0 THEN n0 ELSE 0)
                BY <2>6, <4>1, UpsertAdds
            <4> QED  BY <3>3, <4>2 DEF Add, Counted, w0, a0, n0
        <3> QED  BY <3>2, <3>3
    <2>8. Right(m)
        <3>1. \A w, a : Gained(before, w, a) = Gained(base, w, a) + Sum(part(w, a), t)  BY <2>3
        <3>2. \A w, a : Counted(row, w, a) \in Int  BY <2>6 DEF Counted
        <3>3. \A w, a : Sum(part(w, a), m) = Counted(row, w, a) + Sum(part(w, a), t)
            <4> HIDE DEF part, t, p
            <4> QED  BY <2>4, <2>5
        <3>4. G[m] = Add(row, before)  BY <2>2
        <3> HIDE DEF G, part, row, before, t, p
        <3> QED  BY <1>5, <2>4, <2>7, <3>1, <3>2, <3>3, <3>4
    <2> QED  BY <2>8
<1> QED  BY <1>7, <1>8
-----------------------------------------------------------------------------
(* Powers of ten, and amounts with digits behind the point.                *)

LEMMA PowersOf10 ==
    /\ PowerOf10[0] = 1
    /\ \A n \in 1..9 : PowerOf10[n] = 10 * PowerOf10[n - 1]
    /\ \A n \in 0..9 : PowerOf10[n] \in Nat \ {0}
<1> DEFINE Body(f) == [n \in 0..9 |-> IF n = 0 THEN 1 ELSE 10 * f[n - 1]]
           table == [n \in 0..9 |->
                       IF n = 0 THEN 1 ELSE <<10, 100, 1000, 10000, 100000, 1000000, 10000000, 100000000, 1000000000>>[n]]
<1>1. \A n \in 0..9 : table[n] = Body(table)[n]
    <2>1. \A n \in 0..9 : n = 0 \/ n = 1 \/ n = 2 \/ n = 3 \/ n = 4 \/ n = 5 \/ n = 6 \/ n = 7 \/ n = 8 \/ n = 9
        OBVIOUS
    <2> QED  BY <2>1
<1>2. table = Body(table)
    <2>1. DOMAIN table = 0..9 /\ DOMAIN Body(table) = 0..9  OBVIOUS
    <2>2. table = [n \in 0..9 |-> table[n]] /\ Body(table) = [n \in 0..9 |-> Body(table)[n]]  OBVIOUS
    <2> HIDE DEF table, Body
    <2> QED  BY <1>1, <2>2
<1>3. PowerOf10 = Body(PowerOf10)
    <2>1. \E f : f = Body(f)
        <3> HIDE DEF table, Body
        <3> QED  BY <1>2
    <2>2. PowerOf10 = CHOOSE f : f = Body(f)  BY DEF PowerOf10
    <2> HIDE DEF Body
    <2> QED  BY <2>1, <2>2
<1>4. PowerOf10[0] = 1 /\ \A n \in 1..9 : PowerOf10[n] = 10 * PowerOf10[n - 1]
    <2>1. \A n \in 0..9 : PowerOf10[n] = IF n = 0 THEN 1 ELSE 10 * PowerOf10[n - 1]  BY <1>3
    <2>2. 0 \in 0..9 /\ \A n \in 1..9 : n \in 0..9 /\ n # 0  OBVIOUS
    <2> QED  BY <2>1, <2>2, Zenon
<1>5. \A n \in 0..9 : PowerOf10[n] \in Nat \ {0}
    <2> HIDE DEF table, Body
    <2>1. \A n \in 0..9 : n = 0 \/ n = 1 \/ n = 2 \/ n = 3 \/ n = 4 \/ n = 5 \/ n = 6 \/ n = 7 \/ n = 8 \/ n = 9
        OBVIOUS
    <2>2. \A n \in 1..9 : PowerOf10[n - 1] \in Nat \ {0} => PowerOf10[n] \in Nat \ {0}
        BY <1>4
    <2>3. PowerOf10[0] \in Nat \ {0} /\ PowerOf10[1] \in Nat \ {0} /\ PowerOf10[2] \in Nat \ {0}  BY <1>4, <2>2
    <2>4. PowerOf10[3] \in Nat \ {0} /\ PowerOf10[4] \in Nat \ {0} /\ PowerOf10[5] \in Nat \ {0}  BY <2>2, <2>3
    <2>5. PowerOf10[6] \in Nat \ {0} /\ PowerOf10[7] \in Nat \ {0} /\ PowerOf10[8] \in Nat \ {0}  BY <2>2, <2>4
    <2>6. PowerOf10[9] \in Nat \ {0}  BY <2>2, <2>5
    <2> QED  BY <2>1, <2>3, <2>4, <2>5, <2>6
<1> QED  BY <1>4, <1>5

LEMMA PowersMultiply ==
    ASSUME NEW a \in 0..9, NEW b \in 0..9, a + b <= 9
    PROVE  PowerOf10[a + b] = PowerOf10[a] * PowerOf10[b]
<1> DEFINE Splits(k) == \A m \in 0..(9 - k) : PowerOf10[k + m] = PowerOf10[k] * PowerOf10[m]
<1>1. Splits(0)
    <2>1. \A m \in 0..9 : PowerOf10[m] \in Nat  BY PowersOf10
    <2> QED  BY <2>1, PowersOf10
<1>2. ASSUME NEW k \in 0..8, Splits(k) PROVE Splits(k + 1)
    <2> SUFFICES ASSUME NEW m \in 0..(9 - (k + 1)) PROVE PowerOf10[k + 1 + m] = PowerOf10[k + 1] * PowerOf10[m]
        OBVIOUS
    <2>1. m \in 0..(9 - k) /\ m \in 0..9 /\ k \in 0..9 /\ k + 1 \in 1..9 /\ k + 1 + m \in 1..9 /\ k + m \in 0..9  OBVIOUS
    <2>2. PowerOf10[k + 1 + m] = 10 * PowerOf10[k + m] /\ PowerOf10[k + 1] = 10 * PowerOf10[k]
        <3>1. (k + 1 + m) - 1 = k + m /\ (k + 1) - 1 = k  OBVIOUS
        <3> QED  BY <2>1, <3>1, PowersOf10
    <2>3. PowerOf10[k + m] = PowerOf10[k] * PowerOf10[m]  BY <1>2, <2>1
    <2>4. PICK p \in Nat : p = PowerOf10[k]  BY <2>1, PowersOf10
    <2>5. PICK q \in Nat : q = PowerOf10[m]  BY <2>1, PowersOf10
    <2>6. 10 * (p * q) = (10 * p) * q  OBVIOUS
    <2> QED  BY <2>2, <2>3, <2>4, <2>5, <2>6
<1>3. \A k \in 0..9 : k = 0 \/ k = 1 \/ k = 2 \/ k = 3 \/ k = 4 \/ k = 5 \/ k = 6 \/ k = 7 \/ k = 8 \/ k = 9
    OBVIOUS
<1>4. Splits(a)
    <2> HIDE DEF Splits
    <2>1. Splits(1) /\ Splits(2) /\ Splits(3)  BY <1>1, <1>2
    <2>2. Splits(4) /\ Splits(5) /\ Splits(6)  BY <1>2, <2>1
    <2>3. Splits(7) /\ Splits(8) /\ Splits(9)  BY <1>2, <2>2
    <2> QED  BY <1>1, <1>3, <2>1, <2>2, <2>3
<1>5. b \in 0..(9 - a)  OBVIOUS
<1> QED  BY <1>4, <1>5

LEMMA DivideByBoth ==
    ASSUME NEW n \in Nat, NEW p \in Nat \ {0}, NEW q \in Nat \ {0}
    PROVE  (n * p) \div (q * p) = n \div q
<1>1. PICK k \in Nat : k = n \div q  OBVIOUS
<1>2. PICK r \in Nat : n = q * k + r /\ r < q
    <2>1. n = q * (n \div q) + (n % q) /\ (n % q) \in Nat /\ (n % q) < q  OBVIOUS
    <2> QED  BY <1>1, <2>1
<1>3. n * p = (q * p) * k + r * p
    BY <1>2
<1>4. r * p < q * p /\ r * p \in Nat /\ q * p \in Nat \ {0}
    BY <1>2
<1>5. ASSUME NEW d \in Nat \ {0}, NEW e \in Nat, e < d PROVE (d * k + e) \div d = k
    BY <1>5
<1> QED  BY <1>1, <1>3, <1>4, <1>5

\* Digits the asset does not have are cut off: minor units are the decimal times the
\* asset's power of ten, rounded down.
LEMMA MinorUnitsAreCut ==
    ASSUME NEW hr \in [digits : Nat, scale : 0..9], NEW decimals \in 0..9
    PROVE  hrDecimalToMinorUnits(hr, decimals) = (hr.digits * PowerOf10[decimals]) \div PowerOf10[hr.scale]
<1>1. PICK n \in Nat : n = hr.digits  OBVIOUS
<1>2. PICK s \in 0..9 : s = hr.scale  OBVIOUS
<1>3. CASE decimals >= s
    <2>1. decimals - s \in 0..9 /\ (decimals - s) + s = decimals  BY <1>2, <1>3
    <2>2. PowerOf10[decimals] = PowerOf10[decimals - s] * PowerOf10[s]
        <3> DEFINE a == decimals - s
        <3>1. a \in 0..9 /\ a + s = decimals  BY <2>1
        <3> HIDE DEF a
        <3>2. PowerOf10[decimals] = PowerOf10[a] * PowerOf10[s]  BY <3>1, PowersMultiply
        <3> QED  BY <3>2 DEF a
    <2>3. PICK p \in Nat \ {0} : p = PowerOf10[decimals - s]  BY <2>1, PowersOf10
    <2>4. PICK q \in Nat \ {0} : q = PowerOf10[s]  BY PowersOf10
    <2>5. n * (p * q) = (n * p) * q /\ (n * p) * q = q * (n * p) /\ n * p \in Nat  OBVIOUS
    <2>6. \A m \in Nat : (q * m) \div q = m  OBVIOUS
    <2>7. (n * PowerOf10[decimals]) \div PowerOf10[s] = n * p  BY <2>2, <2>3, <2>4, <2>5, <2>6
    <2> QED  BY <1>1, <1>2, <1>3, <2>3, <2>7 DEF hrDecimalToMinorUnits
<1>4. CASE decimals < s
    <2>1. s - decimals \in 0..9 /\ (s - decimals) + decimals = s  BY <1>4
    <2>2. PowerOf10[s] = PowerOf10[s - decimals] * PowerOf10[decimals]
        <3> DEFINE a == s - decimals
        <3>1. a \in 0..9 /\ a + decimals = s  BY <2>1
        <3> HIDE DEF a
        <3>2. PowerOf10[s] = PowerOf10[a] * PowerOf10[decimals]  BY <3>1, PowersMultiply
        <3> QED  BY <3>2 DEF a
    <2>3. PICK q \in Nat \ {0} : q = PowerOf10[s - decimals]  BY <2>1, PowersOf10
    <2>4. PICK p \in Nat \ {0} : p = PowerOf10[decimals]  BY PowersOf10
    <2>5. (n * p) \div (q * p) = n \div q  BY DivideByBoth
    <2>6. hrDecimalToMinorUnits(hr, decimals) = n \div q
        BY <1>1, <1>2, <1>4, <2>3 DEF hrDecimalToMinorUnits, Truncate
    <2> QED  BY <1>1, <1>2, <2>2, <2>3, <2>4, <2>5, <2>6
<1> QED  BY <1>3, <1>4
\* One step of what drops trailing zeros.
Stripped(mr, d, s) ==
    [k \in 0..d |-> IF k < d /\ mr % PowerOf10[k + 1] = 0 THEN s[k + 1]
                    ELSE [digits |-> Truncate(mr, PowerOf10[k]), scale |-> d - k]]

\* The zeros are dropped up to the last place that has one.
LEMMA StrippingEnds ==
    ASSUME NEW mr \in Nat, NEW d \in 0..9
    PROVE  \E s : s = Stripped(mr, d, s)
<1> DEFINE Drops(k) == k < d /\ mr % PowerOf10[k + 1] = 0
           Stops(k) == {j \in k..d : ~Drops(j)}
           cut == [k \in 0..d |-> [digits |-> Truncate(mr, PowerOf10[k]), scale |-> d - k]]
           First(k) == CHOOSE m \in Stops(k) : \A j \in Stops(k) : m <= j
           s == [k \in 0..d |-> cut[First(k)]]
<1>1. ASSUME NEW k \in 0..d, Drops(k) PROVE s[k] = s[k + 1] /\ k + 1 \in 0..d
    <2>1. k + 1 \in 0..d  BY <1>1
    <2>2. Stops(k) = Stops(k + 1)
        <3>1. \A j \in k..d : j = k \/ j \in (k + 1)..d  OBVIOUS
        <3>2. \A j \in (k + 1)..d : j \in k..d  OBVIOUS
        <3> HIDE DEF Drops
        <3> QED  BY <1>1, <3>1, <3>2
    <2>3. First(k) = First(k + 1)
        <3> HIDE DEF Stops
        <3> QED  BY <2>2
    <2> HIDE DEF First, cut
    <2> QED  BY <2>1, <2>3
<1>2. ASSUME NEW k \in 0..d, ~Drops(k) PROVE s[k] = cut[k]
    <2>1. k \in Stops(k) /\ \A j \in Stops(k) : k <= j
        <3> HIDE DEF Drops
        <3> QED  BY <1>2
    <2>2. \A m \in Stops(k) : m \in Int  OBVIOUS
    <2>3. \A m \in Stops(k) : (\A j \in Stops(k) : m <= j) => m = k
        <3> HIDE DEF Stops
        <3> QED  BY <2>1, <2>2
    <2>4. First(k) = k
        <3> HIDE DEF Stops
        <3> QED  BY <2>1, <2>3
    <2> HIDE DEF First, cut
    <2> QED  BY <2>4
<1>3. s = Stripped(mr, d, s)
    <2>1. \A k \in 0..d : Stripped(mr, d, s)[k] = IF Drops(k) THEN s[k + 1] ELSE cut[k]
        <3> DEFINE t == s
        <3>1. \A k \in 0..d : Stripped(mr, d, t)[k] = IF Drops(k) THEN t[k + 1] ELSE cut[k]
            <4> HIDE DEF t
            <4> QED  BY DEF Stripped
        <3> QED  BY <3>1
    <2>2. s = [k \in 0..d |-> s[k]]  OBVIOUS
    <2>3. Stripped(mr, d, s) = [k \in 0..d |-> Stripped(mr, d, s)[k]]
        <3> HIDE DEF s
        <3> QED  BY DEF Stripped
    <2> HIDE DEF s, cut, Drops
    <2>4. \A k \in 0..d : s[k] = Stripped(mr, d, s)[k]  BY <1>1, <1>2, <2>1
    <2> QED  BY <2>2, <2>3, <2>4
<1> HIDE DEF s
<1> QED  BY <1>3

\* Minor units that were written as a decimal are read back as what they were.
LEMMA MinorUnitsReadBack ==
    ASSUME NEW mr \in Nat, NEW d \in 0..9
    PROVE  hrDecimalToMinorUnits(minorUnitsToHr(mr, d), d) = mr
<1> DEFINE strip == CHOOSE s : s = Stripped(mr, d, s)
           Back(k) == hrDecimalToMinorUnits(strip[k], d) = mr
           Wrong == {n \in Nat : n <= d /\ mr % PowerOf10[d - n] = 0 /\ ~Back(d - n)}
<1>1. minorUnitsToHr(mr, d) = strip[0]  BY DEF minorUnitsToHr, Stripped
<1>2. strip = Stripped(mr, d, strip)
    <2>1. \E s : s = Stripped(mr, d, s)  BY StrippingEnds
    <2> QED  BY <2>1
<1> HIDE DEF strip
<1>3. ASSUME NEW k \in 0..d
      PROVE  strip[k] = IF k < d /\ mr % PowerOf10[k + 1] = 0 THEN strip[k + 1]
                        ELSE [digits |-> Truncate(mr, PowerOf10[k]), scale |-> d - k]
    BY <1>2 DEF Stripped
<1>4. ASSUME NEW k \in 0..d, mr % PowerOf10[k] = 0, strip[k] = [digits |-> Truncate(mr, PowerOf10[k]), scale |-> d - k]
      PROVE  Back(k)
    <2>1. d - k \in 0..9 /\ d >= d - k /\ d - (d - k) = k  OBVIOUS
    <2>2. PICK p \in Nat \ {0} : p = PowerOf10[k]  BY PowersOf10
    <2>3. (mr \div p) * p = mr  BY <1>4, <2>2
    <2>4. Truncate(mr, p) = mr \div p  BY DEF Truncate
    <2>5. hrDecimalToMinorUnits(strip[k], d) = Truncate(mr, p) * PowerOf10[d - (d - k)]
        BY <1>4, <2>1, <2>2 DEF hrDecimalToMinorUnits
    <2> QED  BY <2>1, <2>2, <2>3, <2>4, <2>5
<1>5. Wrong = {}
    <2> SUFFICES ASSUME Wrong # {} PROVE FALSE  OBVIOUS
    <2>1. PICK n \in Wrong : \A m \in Wrong : n <= m  BY LeastNatural
    <2>2. n \in Nat /\ n <= d /\ mr % PowerOf10[d - n] = 0 /\ ~Back(d - n)  OBVIOUS
    <2>3. d - n \in 0..d  BY <2>2
    <2>4. d - n < d /\ mr % PowerOf10[(d - n) + 1] = 0 /\ strip[d - n] = strip[(d - n) + 1]
        <3> DEFINE k == d - n
        <3>1. k \in 0..d /\ mr % PowerOf10[k] = 0 /\ ~Back(k)  BY <2>2, <2>3
        <3> HIDE DEF k, Back
        <3>2. k < d /\ mr % PowerOf10[k + 1] = 0 /\ strip[k] = strip[k + 1]  BY <1>3, <1>4, <3>1
        <3> QED  BY <3>2 DEF k
    <2>5. n - 1 \in Nat /\ n - 1 <= d /\ d - (n - 1) = (d - n) + 1 /\ ~(n <= n - 1)  BY <2>2, <2>4
    <2>6. ~Back((d - n) + 1)  BY <2>2, <2>4
    <2>7. n - 1 \in Wrong
        <3> HIDE DEF Back
        <3> QED  BY <2>4, <2>5, <2>6
    <2> HIDE DEF Wrong
    <2> QED  BY <2>1, <2>5, <2>7
<1>6. mr % PowerOf10[0] = 0  BY PowersOf10
<1>7. Back(0)
    <2>1. d \in Nat /\ d <= d /\ d - d = 0  OBVIOUS
    <2> HIDE DEF Back
    <2> QED  BY <1>5, <1>6, <2>1
<1> QED  BY <1>1, <1>7
-----------------------------------------------------------------------------
(* Sums that are compared term by term, and changes that are the same.     *)

\* A sum whose terms are named anew.
LEMMA SumReindexed ==
    ASSUME NEW f, NEW g, NEW S, NEW T, IsFiniteSet(S), IsFiniteSet(T), NEW b,
           \A x \in S : b[x] \in T /\ g[b[x]] = f[x] /\ f[x] \in Int,
           \A x, y \in S : b[x] = b[y] => x = y, \A z \in T : \E x \in S : b[x] = z
    PROVE  Sum(f, S) = Sum(g, T)
<1> DEFINE Image(s) == {b[x] : x \in s}
           B == {s \in SUBSET S : Sum(f, s) # Sum(g, Image(s))}
<1>1. Image(S) = T  OBVIOUS
<1>2. SUFFICES ASSUME B # {} PROVE FALSE  BY <1>1
<1>3. \A s \in SUBSET S : IsFiniteSet(s) /\ Image(s) \in SUBSET T /\ IsFiniteSet(Image(s))
    BY FS_Subset
<1>4. PICK m \in B : \A s \in B : Cardinality(m) <= Cardinality(s)  BY <1>2, <1>3, SmallestSet
<1>5. m # {}
    <2>1. Image({}) = {}  OBVIOUS
    <2> QED  BY <1>4, <2>1, SumOfNothing
<1>6. PICK x \in m : TRUE  BY <1>5
<1> DEFINE rest == m \ {x}
<1>7. ~(Cardinality(m) <= Cardinality(rest))  BY <1>3, SmallerByOne
<1>8. rest \in SUBSET S /\ rest \notin B  BY <1>4, <1>7
<1>9. Sum(f, rest) = Sum(g, Image(rest))  BY <1>8
<1>10. Image(m) \ {b[x]} = Image(rest) /\ b[x] \in Image(m)  OBVIOUS
<1>11. \A z \in Image(m) : g[z] \in Int  OBVIOUS
<1>12. IsFiniteSet(m) /\ IsFiniteSet(Image(m)) /\ \A y \in m : f[y] \in Int  BY <1>3
<1>13. g[b[x]] = f[x]  OBVIOUS
<1>14. Sum(f, m) = f[x] + Sum(f, rest)
    <2> HIDE DEF Image
    <2> QED  BY <1>12, SumTakes
<1>15. Sum(g, Image(m)) = g[b[x]] + Sum(g, Image(m) \ {b[x]})
    <2> DEFINE I == Image(m)
               z == b[x]
    <2>1. IsFiniteSet(I) /\ z \in I /\ \A y \in I : g[y] \in Int  BY <1>10, <1>11, <1>12
    <2> HIDE DEF I, z
    <2>2. Sum(g, I) = g[z] + Sum(g, I \ {z})  BY <2>1, SumTakes
    <2> QED  BY <2>2 DEF I, z
<1>16. Sum(f, m) = Sum(g, Image(m))
    <2> HIDE DEF Image, rest
    <2> QED  BY <1>9, <1>10, <1>13, <1>14, <1>15
<1> QED  BY <1>4, <1>16

\* Terms that are no less come to no less.
LEMMA SumIsMore ==
    ASSUME NEW f, NEW g, NEW S, IsFiniteSet(S), \A x \in S : f[x] \in Int /\ g[x] \in Int /\ f[x] >= g[x]
    PROVE  Sum(f, S) >= Sum(g, S)
<1> DEFINE B == {s \in SUBSET S : ~(Sum(f, s) >= Sum(g, s))}
<1>1. SUFFICES ASSUME B # {} PROVE FALSE  OBVIOUS
<1>2. \A s \in SUBSET S : IsFiniteSet(s) /\ Sum(f, s) \in Int /\ Sum(g, s) \in Int
    BY FS_Subset, SumIsInteger
<1>3. PICK m \in B : \A s \in B : Cardinality(m) <= Cardinality(s)  BY <1>1, <1>2, SmallestSet
<1>4. m # {}  BY <1>3, SumOfNothing
<1>5. PICK x \in m : TRUE  BY <1>4
<1>6. ~(Cardinality(m) <= Cardinality(m \ {x}))  BY <1>2, SmallerByOne
<1>7. m \ {x} \in SUBSET S /\ m \ {x} \notin B  BY <1>3, <1>6
<1>8. Sum(f, m \ {x}) >= Sum(g, m \ {x})  BY <1>7
<1>9. Sum(f, m) = f[x] + Sum(f, m \ {x}) /\ Sum(g, m) = g[x] + Sum(g, m \ {x})  BY <1>2, SumTakes
<1>10. f[x] \in Int /\ g[x] \in Int /\ f[x] >= g[x] /\ Sum(f, m \ {x}) \in Int /\ Sum(g, m \ {x}) \in Int
    BY <1>2, <1>7
<1> QED  BY <1>8, <1>9, <1>10

\* Terms that come in pairs of opposite sign come to nothing.
LEMMA SumCancels ==
    ASSUME NEW f, NEW S, IsFiniteSet(S), NEW b,
           \A x \in S : f[x] \in Int /\ b[x] \in S /\ b[b[x]] = x /\ f[b[x]] = -f[x]
    PROVE  Sum(f, S) = 0
<1> DEFINE g == [x \in S |-> f[b[x]]]
           z == [x \in S |-> 0]
<1>1. Sum(g, S) = Sum(f, S)
    <2>1. \A x \in S : b[x] \in S /\ f[b[x]] = g[x] /\ g[x] \in Int  OBVIOUS
    <2>2. (\A x, y \in S : b[x] = b[y] => x = y) /\ \A y \in S : \E x \in S : b[x] = y  OBVIOUS
    <2> HIDE DEF g
    <2> QED  BY <2>1, <2>2, SumReindexed
<1>2. Sum(z, S) = 0
    <2>1. (\A x \in S : z[x] \in Int) /\ {} \in SUBSET S /\ \A x \in S \ {} : z[x] = 0  OBVIOUS
    <2> HIDE DEF z
    <2>2. Sum(z, {}) = Sum(z, S)  BY <2>1, SumWithoutZeros
    <2> QED  BY <2>2, SumOfNothing
<1>3. Sum(g, S) = Sum(z, S) - Sum(f, S)
    <2>1. \A x \in S : z[x] \in Int /\ f[x] \in Int /\ g[x] = z[x] - f[x]  OBVIOUS
    <2> HIDE DEF z, g
    <2> QED  BY <2>1, SumOfDifferences
<1>4. Sum(f, S) \in Int  BY SumIsInteger
<1> QED  BY <1>1, <1>2, <1>3, <1>4

\* Changes that are functions of functions, and nothing more.
Shaped(changes) == changes = [w \in DOMAIN changes |-> [a \in DOMAIN changes[w] |-> changes[w][a]]]

LEMMA NoChangesAreShaped == Shaped(NoChanges) /\ Normal(NoChanges)
BY DEF Shaped, NoChanges, Normal

LEMMA UpsertIsShaped ==
    ASSUME NEW changes, Shaped(changes), NEW w, NEW a, NEW n
    PROVE  Shaped(upsert(changes, w, a, n))
<1> DEFINE net == Gained(changes, w, a) + n
           old == RowOf(changes, w)
           row == IF net = 0 THEN Without(old, a) ELSE With(old, a, net)
           next == upsert(changes, w, a, n)
<1>1. next = IF DOMAIN row = {} THEN Without(changes, w) ELSE With(changes, w, row)  BY DEF upsert
<1>2. row = [b \in DOMAIN row |-> row[b]]
    <2> HIDE DEF net, old
    <2> QED  BY DEF Without, With
<1> HIDE DEF row
<1>3. \A v \in DOMAIN changes : changes[v] = [b \in DOMAIN changes[v] |-> changes[v][b]]  BY DEF Shaped
<1>4. /\ next = [v \in DOMAIN next |-> next[v]]
      /\ \A v \in DOMAIN next : next[v] = row \/ (v \in DOMAIN changes /\ next[v] = changes[v])
    <2> HIDE DEF next
    <2> QED  BY <1>1 DEF Without, With
<1> HIDE DEF next
<1>5. \A v \in DOMAIN next : next[v] = [b \in DOMAIN next[v] |-> next[v][b]]  BY <1>2, <1>3, <1>4
<1>6. Shaped(next)  BY <1>4, <1>5 DEF Shaped
<1> QED  BY <1>6 DEF next

LEMMA GatheredIsShaped ==
    ASSUME NEW base, Shaped(base), NEW rows, NEW S, IsFiniteSet(S)
    PROVE  Shaped(Gathered(base, rows, S))
<1> DEFINE G == CHOOSE g : g = Gather(base, rows, SUBSET S, g)
           B == {s \in SUBSET S : ~Shaped(G[s])}
<1>1. SUFFICES ASSUME B # {} PROVE FALSE
    BY DEF Gathered
<1>2. G = Gather(base, rows, SUBSET S, G)
    <2>1. \E g : g = Gather(base, rows, SUBSET S, g)  BY Gathers
    <2> QED  BY <2>1
<1>3. \A s \in SUBSET S : IsFiniteSet(s)  BY FS_Subset
<1>4. PICK m \in B : \A s \in B : Cardinality(m) <= Cardinality(s)
    <2> HIDE DEF B
    <2>1. \A s \in B : IsFiniteSet(s)  BY <1>3 DEF B
    <2> QED  BY <1>1, <2>1, SmallestSet
<1> HIDE DEF G
<1>5. CASE m = {}  BY <1>2, <1>4, <1>5 DEF Gather
<1>6. CASE m # {}
    <2> DEFINE p == Pick(m)
               rest == m \ {p}
    <2>1. p \in m /\ rest \in SUBSET S  BY <1>6, PickIsIn
    <2>2. G[m] = Add(rows[p], G[rest])  BY <1>2, <1>6 DEF Gather
    <2>3. ~(Cardinality(m) <= Cardinality(rest))  BY <1>3, <2>1, SmallerByOne
    <2>4. Shaped(G[rest])  BY <1>4, <2>1, <2>3
    <2>5. Shaped(Add(rows[p], G[rest]))
        <3> HIDE DEF p, rest
        <3> QED  BY <2>4, UpsertIsShaped DEF Add
    <2> QED  BY <1>4, <2>2, <2>5
<1> QED  BY <1>5, <1>6

\* Changes that say the same of every wallet and asset are the same.
LEMMA ChangesAgree ==
    ASSUME NEW c, NEW d, Normal(c), Normal(d), Shaped(c), Shaped(d),
           \A w, a : Gained(c, w, a) = Gained(d, w, a)
    PROVE  c = d
<1>1. ASSUME NEW x, NEW y, Normal(x), Normal(y), \A w, a : Gained(x, w, a) = Gained(y, w, a), NEW w \in DOMAIN x
      PROVE  w \in DOMAIN y /\ \A a \in DOMAIN x[w] : a \in DOMAIN y[w] /\ y[w][a] = x[w][a]
    <2>1. ASSUME NEW a \in DOMAIN x[w] PROVE w \in DOMAIN y /\ a \in DOMAIN y[w] /\ y[w][a] = x[w][a]
        <3>1. Gained(x, w, a) = x[w][a] /\ x[w][a] # 0  BY <1>1 DEF Gained, RowOf, Has, Normal
        <3>2. Gained(y, w, a) # 0  BY <1>1, <3>1
        <3> QED  BY <1>1, <3>1, <3>2 DEF Gained, RowOf, Has, NoChanges
    <2>2. \E a : a \in DOMAIN x[w]  BY <1>1 DEF Normal
    <2> QED  BY <2>1, <2>2
<1>2. DOMAIN c = DOMAIN d  BY <1>1
<1>3. \A w \in DOMAIN c : DOMAIN c[w] = DOMAIN d[w] /\ \A a \in DOMAIN c[w] : c[w][a] = d[w][a]
    BY <1>1, <1>2
<1> QED  BY <1>2, <1>3 DEF Shaped
=============================================================================
