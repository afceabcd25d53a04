----------------------------- MODULE SumsProofs -----------------------------
(***************************************************************************)
(* What the sums of module Sums satisfy.                                   *)
(*                                                                         *)
(* SumOver folds in an order that is not known, and what it computes is    *)
(* settled by counting: a sum of natural numbers is the size of a set that *)
(* has f[x] elements for each x, and the sizes of finite sets are known to *)
(* add up.                                                                 *)
(***************************************************************************)
EXTENDS Integers, Sums, FiniteSetTheorems, WellFoundedInduction, TLAPS

(* A sum of natural numbers counts units: f[x] of them for each x.         *)
Units(f, S) == UNION {{x} \X (1 .. f[x]) : x \in S}
Count(f, S) == Cardinality(Units(f, S))

(* The element that the fold behind SumOver takes next.                    *)
Pick(S) == CHOOSE x \in S : TRUE

(* SumOver as the recursive function it folds to.                          *)
LEMMA SumEquation ==
    ASSUME NEW f, NEW S
    PROVE  SumOver(f, S) = (CHOOSE g : g = [s \in SUBSET S |->
               IF s = {} THEN 0 ELSE f[Pick(s)] + g[s \ {Pick(s)}]])[S]
BY DEF SumOver, MapThenSumSet, MapThenFoldSet, Pick

(* Finitely many numbers have finitely many units.                         *)
LEMMA UnitsFinite ==
    ASSUME NEW f, NEW S, IsFiniteSet(S), \A x \in S : f[x] \in Nat
    PROVE  IsFiniteSet(Units(f, S))
<1> DEFINE g == [x \in S |-> {x} \X (1 .. f[x])]
           T == {{x} \X (1 .. f[x]) : x \in S}
<1>1. g \in Surjection(S, T)
    BY Zenon DEF Surjection
<1>2. IsFiniteSet(T)
    BY <1>1, FS_Surjection
<1>3. ASSUME NEW t \in T PROVE IsFiniteSet(t)
  <2>1. PICK x \in S : t = {x} \X (1 .. f[x])
      BY <1>3
  <2>2. IsFiniteSet({x})
      BY FS_Singleton, Zenon
  <2>3. f[x] \in Int
      OBVIOUS
  <2>4. IsFiniteSet(1 .. f[x])
      BY <2>3, FS_Interval
  <2> QED
      BY <2>1, <2>2, <2>4, FS_Product, Zenon
<1> QED
    BY <1>2, <1>3, FS_UNION, Zenon DEF Units

(* One more summand adds its units.                                        *)
LEMMA CountAdd ==
    ASSUME NEW f, NEW S, IsFiniteSet(S), \A x \in S : f[x] \in Nat, NEW y, y \notin S, f[y] \in Nat
    PROVE  Count(f, S \cup {y}) = Count(f, S) + f[y]
<1> DEFINE U == {y} \X (1 .. f[y])
<1>1. Units(f, S \cup {y}) = Units(f, S) \cup U
    BY DEF Units
<1>2. Units(f, S) \cap U = {}
    BY DEF Units
<1>3. IsFiniteSet(Units(f, S))
    BY UnitsFinite
<1>4. IsFiniteSet(U) /\ Cardinality(U) = f[y]
  <2>1. IsFiniteSet({y}) /\ Cardinality({y}) = 1
      BY FS_Singleton, Zenon
  <2>2. IsFiniteSet(1 .. f[y]) /\ Cardinality(1 .. f[y]) = f[y]
    <3>1. PICK n \in Nat : n = f[y]
        OBVIOUS
    <3>2. 1 \in Int /\ n \in Int /\ (IF 1 > n THEN 0 ELSE n - 1 + 1) = n
        OBVIOUS
    <3>3. IsFiniteSet(1 .. n) /\ Cardinality(1 .. n) = IF 1 > n THEN 0 ELSE n - 1 + 1
        BY <3>2, FS_Interval, Zenon
    <3> QED
        BY <3>1, <3>2, <3>3, Zenon
  <2>3. IsFiniteSet(U) /\ Cardinality(U) = Cardinality({y}) * Cardinality(1 .. f[y])
      BY <2>1, <2>2, FS_Product, Zenon
  <2> QED
      BY <2>1, <2>2, <2>3
<1>5. Cardinality(Units(f, S)) \in Nat /\ Cardinality({}) = 0
    BY <1>3, FS_CardinalityType, FS_EmptySet
<1>6. Cardinality(Units(f, S) \cup U) = Cardinality(Units(f, S)) + Cardinality(U) - Cardinality(Units(f, S) \cap U)
    BY <1>3, <1>4, FS_Union
<1>7. Cardinality(Units(f, S) \cap U) = 0
    BY <1>2, <1>5, Zenon
<1>8. Count(f, S \cup {y}) = Cardinality(Units(f, S) \cup U) /\ Count(f, S) = Cardinality(Units(f, S))
    BY <1>1, Zenon DEF Count
<1> QED
    BY <1>4, <1>5, <1>6, <1>7, <1>8

(* Nothing has no units.                                                   *)
LEMMA CountEmpty == \A f : Count(f, {}) = 0
BY FS_EmptySet DEF Count, Units

(* A nonempty set of natural numbers has a least element.                  *)
LEMMA Least ==
    ASSUME NEW S \in SUBSET Nat, S # {}
    PROVE  \E x \in S : \A y \in S : x <= y
<1> DEFINE Less == {ss \in Nat \X Nat : ss[1] < ss[2]}
<1>1. IsWellFoundedOn(Less, Nat)
    BY NatLessThanWellFounded DEF OpToRel
<1>2. \E x \in S : \A y \in S : <<y, x>> \notin Less
    BY <1>1, WFMin, Zenon
<1>3. PICK x \in S : \A y \in S : <<y, x>> \notin Less
    BY <1>2
<1>4. \A y \in S : ~(y < x)
  <2> TAKE y \in S
  <2>1. <<y, x>> \in Nat \X Nat /\ <<y, x>>[1] = y /\ <<y, x>>[2] = x
      OBVIOUS
  <2> QED
      BY <2>1, <1>3
<1>5. \A y \in S : x <= y
    BY <1>4
<1> QED
    BY <1>5

(* The sum is the number of units, in whatever order the fold takes the    *)
(* elements. By the least size of a counterexample: SumOver is recursive,  *)
(* and taking an element leaves a smaller set.                             *)
LEMMA SumIsCount ==
    ASSUME NEW f, NEW S, IsFiniteSet(S), \A x \in S : f[x] \in Nat
    PROVE  SumOver(f, S) = Count(f, S)
<1> DEFINE Step(g, s) == IF s = {} THEN 0 ELSE f[Pick(s)] + g[s \ {Pick(s)}]
           W == [s \in SUBSET S |-> Count(f, s)]
<1>1. ASSUME NEW s \in SUBSET S PROVE IsFiniteSet(s) /\ Cardinality(s) \in Nat /\ Count(f, s) \in Nat
  <2>1. IsFiniteSet(s)
      BY FS_Subset, Zenon
  <2>2. IsFiniteSet(Units(f, s))
      BY <2>1, UnitsFinite
  <2> QED
      BY <2>1, <2>2, FS_CardinalityType DEF Count
<1>2. ASSUME NEW s \in SUBSET S, s # {}
      PROVE  Pick(s) \in s /\ Count(f, s) = f[Pick(s)] + Count(f, s \ {Pick(s)})
  <2>1. Pick(s) \in s
      BY <1>2 DEF Pick
  <2>2. PICK x : x = Pick(s)
      OBVIOUS
  <2>3. s \ {x} \in SUBSET S /\ (s \ {x}) \cup {x} = s /\ x \notin s \ {x} /\ f[x] \in Nat
      BY <2>1, <2>2
  <2>4. IsFiniteSet(s \ {x}) /\ \A z \in s \ {x} : f[z] \in Nat
      BY <1>1, <2>3
  <2>5. Count(f, (s \ {x}) \cup {x}) = Count(f, s \ {x}) + f[x]
      BY <2>3, <2>4, CountAdd, Zenon
  <2>6. Count(f, s) = Count(f, s \ {x}) + f[x]
      BY <2>3, <2>5, Zenon
  <2>7. Count(f, s \ {x}) \in Nat
      BY <1>1, <2>3
  <2> QED
      BY <2>1, <2>2, <2>3, <2>6, <2>7
<1>3. W = [s \in SUBSET S |-> Step(W, s)]
  <2> SUFFICES ASSUME NEW s \in SUBSET S PROVE W[s] = Step(W, s)
      BY Zenon
  <2>1. CASE s = {}
      BY <2>1, CountEmpty
  <2>2. CASE s # {}
    <3>1. s \ {Pick(s)} \in SUBSET S
        OBVIOUS
    <3> QED
        BY <1>2, <2>2, <3>1
  <2> QED
      BY <2>1, <2>2
<1>4. PICK g : /\ g = [s \in SUBSET S |-> Step(g, s)]
               /\ SumOver(f, S) = g[S]
  <2> DEFINE G == CHOOSE g : g = [s \in SUBSET S |-> Step(g, s)]
  <2>1. SumOver(f, S) = G[S]
      BY SumEquation, Zenon
  <2>2. G = [s \in SUBSET S |-> Step(G, s)]
      BY <1>3, Zenon
  <2> QED
      BY <2>1, <2>2, Zenon
<1> DEFINE Bad == {n \in Nat : \E s \in SUBSET S : Cardinality(s) = n /\ g[s] # Count(f, s)}
<1>5. ASSUME NEW n \in Bad, \A m \in Bad : n <= m PROVE FALSE
  <2>1. PICK s \in SUBSET S : Cardinality(s) = n /\ g[s] # Count(f, s)
      OBVIOUS
  <2>2. s # {}
      BY <1>4, <2>1, CountEmpty, Zenon
  <2>3. PICK x : x = Pick(s)
      OBVIOUS
  <2>4. x \in s /\ Count(f, s) = f[x] + Count(f, s \ {x}) /\ g[s] = f[x] + g[s \ {x}]
      BY <1>2, <1>4, <2>2, <2>3, Zenon
  <2>5. s \ {x} \in SUBSET S /\ g[s \ {x}] # Count(f, s \ {x})
      BY <2>1, <2>4
  <2>6. Cardinality(s \ {x}) = n - 1
      BY <1>1, <2>1, <2>4, FS_RemoveElement
  <2>7. Cardinality(s \ {x}) \in Nat
      BY <1>1, <2>5
  <2>8. n - 1 \in Bad
      BY <2>5, <2>6, <2>7
  <2> QED
      BY <1>5, <2>8
<1>6. Bad = {}
  <2> HIDE DEF Bad
  <2>1. Bad \in SUBSET Nat
      BY DEF Bad
  <2> QED
      BY <1>5, <2>1, Least
<1>7. S \in SUBSET S
    OBVIOUS
<1> QED
    BY <1>1, <1>4, <1>6, <1>7

(* A sum of natural numbers is one.                                        *)
LEMMA SumType ==
    ASSUME NEW f, NEW S, IsFiniteSet(S), \A x \in S : f[x] \in Nat
    PROVE  SumOver(f, S) \in Nat
<1>1. IsFiniteSet(Units(f, S))
    BY UnitsFinite
<1> QED
    BY <1>1, SumIsCount, FS_CardinalityType DEF Count

(* The sum of nothing, as of a query that finds no rows.                   *)
LEMMA SumEmpty == \A f : SumOver(f, {}) = 0
BY SumIsCount, CountEmpty, FS_EmptySet

(* One more summand.                                                       *)
LEMMA SumAdd ==
    ASSUME NEW f, NEW S, IsFiniteSet(S), \A x \in S : f[x] \in Nat, NEW y, y \notin S, f[y] \in Nat
    PROVE  SumOver(f, S \cup {y}) = SumOver(f, S) + f[y]
<1>1. IsFiniteSet(S \cup {y}) /\ \A x \in S \cup {y} : f[x] \in Nat
    BY FS_AddElement
<1>2. Count(f, S \cup {y}) = Count(f, S) + f[y]
    BY CountAdd
<1>3. SumOver(f, S \cup {y}) = Count(f, S \cup {y})
    BY <1>1, SumIsCount
<1>4. SumOver(f, S) = Count(f, S)
    BY SumIsCount
<1> QED
    BY <1>2, <1>3, <1>4

(* A sum depends only on its summands.                                     *)
LEMMA SumAgree ==
    ASSUME NEW f, NEW g, NEW S, IsFiniteSet(S), \A x \in S : f[x] \in Nat /\ f[x] = g[x]
    PROVE  SumOver(f, S) = SumOver(g, S)
<1>1. Units(f, S) = Units(g, S)
    BY DEF Units
<1>2. SumOver(f, S) = Count(f, S)
    BY SumIsCount
<1>3. SumOver(g, S) = Count(g, S)
    BY SumIsCount
<1> QED
    BY <1>1, <1>2, <1>3, Zenon DEF Count

(* Fewer and smaller summands give a smaller sum.                          *)
LEMMA SumMonotone ==
    ASSUME NEW f, NEW g, NEW S, NEW T, IsFiniteSet(T), S \subseteq T,
           \A x \in T : g[x] \in Nat, \A x \in S : f[x] \in Nat /\ f[x] <= g[x]
    PROVE  SumOver(f, S) <= SumOver(g, T)
<1>1. IsFiniteSet(S)
    BY FS_Subset, Zenon
<1>2. Units(f, S) \subseteq Units(g, T)
  <2> SUFFICES ASSUME NEW u \in Units(f, S) PROVE u \in Units(g, T)
      OBVIOUS
  <2>1. PICK x \in S : u \in {x} \X (1 .. f[x])
      BY DEF Units
  <2>2. x \in T /\ f[x] \in Nat /\ g[x] \in Nat /\ f[x] <= g[x]
      OBVIOUS
  <2>3. u \in {x} \X (1 .. g[x])
      BY <2>1, <2>2
  <2> QED
      BY <2>2, <2>3 DEF Units
<1>3. IsFiniteSet(Units(g, T))
    BY UnitsFinite
<1>4. Cardinality(Units(f, S)) <= Cardinality(Units(g, T))
    BY <1>2, <1>3, FS_Subset
<1>5. SumOver(f, S) = Count(f, S)
    BY <1>1, SumIsCount
<1>6. SumOver(g, T) = Count(g, T)
    BY SumIsCount
<1> QED
    BY <1>4, <1>5, <1>6 DEF Count

(* The sum of two disjoint sets.                                           *)
LEMMA SumUnion ==
    ASSUME NEW f, NEW S, NEW T, IsFiniteSet(S), IsFiniteSet(T), S \cap T = {},
           \A x \in S \cup T : f[x] \in Nat
    PROVE  SumOver(f, S \cup T) = SumOver(f, S) + SumOver(f, T)
<1>1. Units(f, S \cup T) = Units(f, S) \cup Units(f, T)
    BY DEF Units
<1>2. Units(f, S) \cap Units(f, T) = {}
    BY DEF Units
<1>3. IsFiniteSet(Units(f, S)) /\ IsFiniteSet(Units(f, T)) /\ IsFiniteSet(S \cup T)
  <2>1. (\A x \in S : f[x] \in Nat) /\ (\A x \in T : f[x] \in Nat)
      OBVIOUS
  <2> QED
      BY <2>1, UnitsFinite, FS_Union, Zenon
<1>4. Cardinality(Units(f, S)) \in Nat /\ Cardinality(Units(f, T)) \in Nat /\ Cardinality({}) = 0
    BY <1>3, FS_CardinalityType, FS_EmptySet
<1>5. Cardinality(Units(f, S) \cup Units(f, T))
        = Cardinality(Units(f, S)) + Cardinality(Units(f, T)) - Cardinality(Units(f, S) \cap Units(f, T))
    BY <1>3, FS_Union
<1>6. Cardinality(Units(f, S) \cap Units(f, T)) = 0
    BY <1>2, <1>4, Zenon
<1>7. SumOver(f, S) = Cardinality(Units(f, S)) /\ SumOver(f, T) = Cardinality(Units(f, T))
  <2>1. (\A x \in S : f[x] \in Nat) /\ (\A x \in T : f[x] \in Nat)
      OBVIOUS
  <2> QED
      BY <2>1, SumIsCount, Zenon DEF Count
<1>8. SumOver(f, S \cup T) = Cardinality(Units(f, S) \cup Units(f, T))
  <2>1. SumOver(f, S \cup T) = Count(f, S \cup T)
      BY <1>3, SumIsCount, Zenon
  <2> QED
      BY <1>1, <2>1, Zenon DEF Count
<1> QED
    BY <1>4, <1>5, <1>6, <1>7, <1>8

(* The sum of one number.                                                  *)
LEMMA SumSingleton ==
    ASSUME NEW f, NEW y, f[y] \in Nat
    PROVE  SumOver(f, {y}) = f[y]
<1>1. SumOver(f, {} \cup {y}) = SumOver(f, {}) + f[y]
    BY SumAdd, FS_EmptySet
<1>2. {} \cup {y} = {y}
    OBVIOUS
<1>3. SumOver(f, {y}) = SumOver(f, {}) + f[y]
    BY <1>1, <1>2, Zenon
<1> QED
    BY <1>3, SumEmpty

(* The sum of zeros.                                                       *)
LEMMA SumZero ==
    ASSUME NEW f, NEW S, IsFiniteSet(S), \A x \in S : f[x] = 0
    PROVE  SumOver(f, S) = 0
<1>1. Units(f, S) = {}
    BY DEF Units
<1>2. \A x \in S : f[x] \in Nat
    OBVIOUS
<1>3. SumOver(f, S) = Count(f, S)
    BY <1>2, SumIsCount, Zenon
<1>4. Cardinality({}) = 0
    BY FS_EmptySet
<1> QED
    BY <1>1, <1>3, <1>4, Zenon DEF Count

(* Renaming the elements of a set one to one keeps its size.               *)
LEMMA SameSize ==
    ASSUME NEW f, NEW S, NEW T, IsFiniteSet(S), \A x, y \in S : f[x] = f[y] => x = y,
           \A x \in S : f[x] \in T, \A y \in T : \E x \in S : y = f[x]
    PROVE  IsFiniteSet(T) /\ Cardinality(T) = Cardinality(S)
<1>1. PICK g : g = [x \in S |-> f[x]]
    BY Zenon
<1>2. g \in Bijection(S, T)
    BY <1>1 DEF Bijection, Injection, Surjection, IsInjective
<1>3. ExistsBijection(S, T)
    BY <1>2 DEF ExistsBijection
<1> QED
    BY <1>3, FS_Bijection, Zenon

(* The sum of equal numbers.                                               *)
LEMMA SumConstant ==
    ASSUME NEW f, NEW S, IsFiniteSet(S), NEW g \in Nat, \A x \in S : f[x] = g
    PROVE  SumOver(f, S) = Cardinality(S) * g
<1>1. \A x \in S : f[x] \in Nat
    OBVIOUS
<1>2. SumOver(f, S) = Cardinality(Units(f, S))
    BY <1>1, SumIsCount, Zenon DEF Count
<1>3. Units(f, S) = S \X (1 .. g)
  <2>1. \A u : u \in Units(f, S) <=> \E x \in S : \E i \in 1 .. f[x] : u = <<x, i>>
      BY DEF Units
  <2>2. \A u : u \in S \X (1 .. g) <=> \E x \in S : \E i \in 1 .. g : u = <<x, i>>
      OBVIOUS
  <2>3. \A u : u \in Units(f, S) <=> u \in S \X (1 .. g)
      BY <2>1, <2>2, Zenon
  <2>4. Units(f, S) \subseteq S \X (1 .. g) /\ S \X (1 .. g) \subseteq Units(f, S)
      BY <2>3, Zenon
  <2> QED
      BY <2>4, Zenon
<1>4. IsFiniteSet(1 .. g) /\ Cardinality(1 .. g) = g
  <2>1. 1 \in Int /\ g \in Int /\ (1 > g => g = 0) /\ (1 <= g => g - 1 + 1 = g)
      OBVIOUS
  <2> QED
      BY <2>1, FS_Interval
<1>5. Cardinality(S \X (1 .. g)) = Cardinality(S) * Cardinality(1 .. g)
    BY <1>4, FS_Product, Zenon
<1> QED
    BY <1>2, <1>3, <1>4, <1>5, Zenon

(* The image of a finite set is finite.                                    *)
LEMMA ImageFinite ==
    ASSUME NEW f, NEW S, IsFiniteSet(S)
    PROVE  IsFiniteSet({f[x] : x \in S})
<1>1. PICK T : T = {f[x] : x \in S}
    BY Zenon
<1>2. PICK g : g = [x \in S |-> f[x]]
    BY Zenon
<1>3. g \in Surjection(S, T)
    BY <1>1, <1>2 DEF Surjection
<1>4. IsFiniteSet(T)
    BY <1>3, FS_Surjection
<1> QED
    BY <1>1, <1>4

(* A sum over renamed elements.                                            *)
LEMMA SumRenamed ==
    ASSUME NEW f, NEW S, IsFiniteSet(S), \A x \in S : f[x] \in Nat,
           NEW b, \A x, y \in S : b[x] = b[y] => x = y,
           NEW g, \A x \in S : g[b[x]] = f[x]
    PROVE  SumOver(g, {b[x] : x \in S}) = SumOver(f, S)
<1>1. PICK T : T = {b[x] : x \in S}
    BY Zenon
<1>2. IsFiniteSet(T)
  <2>1. IsFiniteSet({b[x] : x \in S})
      BY ImageFinite
  <2> QED
      BY <1>1, <2>1
<1>3. ASSUME NEW y \in T PROVE g[y] \in Nat
  <2>1. PICK x \in S : y = b[x]
      BY <1>1
  <2> QED
      BY <2>1
<1>4. SumOver(f, S) = Cardinality(Units(f, S)) /\ SumOver(g, T) = Cardinality(Units(g, T))
    BY <1>2, <1>3, SumIsCount, Zenon DEF Count
<1>5. PICK U : U = Units(f, S)
    OBVIOUS
<1>6. IsFiniteSet(U)
    BY <1>5, UnitsFinite, Zenon
<1>7. PICK c : c = [u \in U |-> <<b[u[1]], u[2]>>]
    BY Zenon
<1>8. ASSUME NEW u
      PROVE  u \in U <=> \E x \in S : \E i \in 1 .. f[x] : u = <<x, i>>
    BY <1>5 DEF Units
<1>9. ASSUME NEW v
      PROVE  v \in Units(g, T) <=> \E x \in S : \E i \in 1 .. f[x] : v = <<b[x], i>>
  <2>1. v \in Units(g, T) <=> \E y \in T : \E i \in 1 .. g[y] : v = <<y, i>>
      BY DEF Units
  <2>2. ASSUME NEW y \in T, NEW i \in 1 .. g[y], v = <<y, i>>
        PROVE  \E x \in S : \E j \in 1 .. f[x] : v = <<b[x], j>>
    <3>1. PICK x \in S : y = b[x]
        BY <1>1
    <3>2. i \in 1 .. f[x] /\ v = <<b[x], i>>
        BY <2>2, <3>1
    <3> QED
        BY <3>2
  <2>3. ASSUME NEW x \in S, NEW i \in 1 .. f[x], v = <<b[x], i>>
        PROVE  \E y \in T : \E j \in 1 .. g[y] : v = <<y, j>>
    <3>1. b[x] \in T /\ i \in 1 .. g[b[x]]
        BY <1>1
    <3> QED
        BY <2>3, <3>1
  <2> QED
      BY <2>1, <2>2, <2>3
<1>10. ASSUME NEW x \in S, NEW i \in 1 .. f[x]
       PROVE  <<x, i>> \in U /\ c[<<x, i>>] = <<b[x], i>>
  <2>1. <<x, i>> \in U
      BY <1>8
  <2>2. <<x, i>>[1] = x /\ <<x, i>>[2] = i
      OBVIOUS
  <2> QED
      BY <1>7, <2>1, <2>2
<1>11. (\A u \in U : c[u] \in Units(g, T)) /\ \A v \in Units(g, T) : \E u \in U : v = c[u]
  <2>1. ASSUME NEW u \in U PROVE c[u] \in Units(g, T)
    <3>1. PICK x \in S : \E i \in 1 .. f[x] : u = <<x, i>>
        BY <1>8
    <3>2. PICK i \in 1 .. f[x] : u = <<x, i>>
        BY <3>1
    <3>3. c[u] = <<b[x], i>>
        BY <1>10, <3>2
    <3> QED
        BY <1>9, <3>3
  <2>2. ASSUME NEW v \in Units(g, T) PROVE \E u \in U : v = c[u]
    <3>1. PICK x \in S : \E i \in 1 .. f[x] : v = <<b[x], i>>
        BY <1>9
    <3>2. PICK i \in 1 .. f[x] : v = <<b[x], i>>
        BY <3>1
    <3> QED
        BY <1>10, <3>2, Zenon
  <2> QED
      BY <2>1, <2>2, Zenon
<1>12. ASSUME NEW u \in U, NEW v \in U, c[u] = c[v] PROVE u = v
  <2>1. PICK x \in S : \E i \in 1 .. f[x] : u = <<x, i>>
      BY <1>8
  <2>2. PICK i \in 1 .. f[x] : u = <<x, i>>
      BY <2>1
  <2>3. PICK y \in S : \E j \in 1 .. f[y] : v = <<y, j>>
      BY <1>8
  <2>4. PICK j \in 1 .. f[y] : v = <<y, j>>
      BY <2>3
  <2>5. c[u] = <<b[x], i>> /\ c[v] = <<b[y], j>>
      BY <1>10, <2>2, <2>4
  <2>6. b[x] = b[y] /\ i = j
    <3>1. <<b[x], i>> = <<b[y], j>>
        BY <1>12, <2>5, Zenon
    <3>2. <<b[x], i>>[1] = b[x] /\ <<b[x], i>>[2] = i /\ <<b[y], j>>[1] = b[y] /\ <<b[y], j>>[2] = j
        OBVIOUS
    <3> QED
        BY <3>1, <3>2, Zenon
  <2>7. x = y
      BY <2>6
  <2> QED
      BY <2>2, <2>4, <2>6, <2>7
<1>13. Cardinality(Units(g, T)) = Cardinality(U)
  <2>1. \A u, v \in U : c[u] = c[v] => u = v
      BY <1>12, Zenon
  <2> QED
      BY <1>6, <1>11, <2>1, SameSize, Zenon
<1> QED
    BY <1>1, <1>4, <1>5, <1>13, Zenon
=============================================================================
