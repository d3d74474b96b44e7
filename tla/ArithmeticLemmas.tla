-------------------------- MODULE ArithmeticLemmas --------------------------
(***************************************************************************)
(* Facts about numbers, induction and sums that the proofs about the       *)
(* components share.  An induction is over the set of the numbers (or of   *)
(* the finite sets) for which the statement holds.                         *)
(***************************************************************************)
EXTENDS Integers, FiniteSetsExt, FiniteSetTheorems, WellFoundedInduction, TLAPS

(* A quotient and a remainder below the divisor are the only ones.         *)
LEMMA DivisionUnique ==
    ASSUME NEW n \in Nat \ {0}, NEW q \in Nat, NEW r \in 0 .. n - 1
    PROVE  (n * q + r) \div n = q /\ (n * q + r) % n = r
<1> DEFINE x == n * q + r
           d == x \div n
           m == x % n
<1>1. n * q \in Nat /\ x \in Nat
  BY SMT
<1>2. d \in Nat /\ m \in 0 .. n - 1 /\ x = n * d + m
  BY <1>1, SMT
<1>3. n * d + m = n * q + r
  BY <1>2
<1> HIDE DEF d, m, x
<1>4. ~(d < q)
  <2> SUFFICES ASSUME d < q PROVE FALSE
    OBVIOUS
  <2>1. n * (d + 1) <= n * q
    BY <1>2, SMT
  <2>2. n * (d + 1) = n * d + n
    BY <1>2, SMT
  <2> QED
    BY <1>2, <1>3, <2>1, <2>2, SMT
<1>5. ~(q < d)
  <2> SUFFICES ASSUME q < d PROVE FALSE
    OBVIOUS
  <2>1. n * (q + 1) <= n * d
    BY <1>2, SMT
  <2>2. n * (q + 1) = n * q + n
    BY <1>2, SMT
  <2> QED
    BY <1>2, <1>3, <2>1, <2>2, SMT
<1>6. d = q
  BY <1>2, <1>4, <1>5
<1>7. m = r
  BY <1>2, <1>3, <1>6
<1> QED
  BY <1>6, <1>7 DEF d, m, x

(* The least element of a non-empty set of naturals.                       *)
LEMMA LeastNatural ==
    ASSUME NEW T, T \subseteq Nat, T # {}
    PROVE  \E x \in T : \A y \in T : x <= y
<1>1. IsWellFoundedOn(OpToRel(<, Nat), Nat)
  BY NatLessThanWellFounded
<1>2. PICK x \in T : \A y \in T : <<y, x>> \notin OpToRel(<, Nat)
  BY <1>1, WFMin
<1>3. \A y \in T : ~(y < x)
  BY <1>2 DEF OpToRel
<1> QED
  BY <1>3, SMT

-----------------------------------------------------------------------------
(* Induction over the naturals.                                            *)
LEMMA NaturalInduction ==
    ASSUME NEW Good, 0 \in Good,
           \A k \in Nat : k \in Good => k + 1 \in Good
    PROVE  Nat \subseteq Good
<1> SUFFICES ASSUME ~(Nat \subseteq Good) PROVE FALSE
  OBVIOUS
<1>1. PICK k \in Nat \ Good : \A j \in Nat \ Good : k <= j
  <2> DEFINE Bad == Nat \ Good
  <2>1. Bad \subseteq Nat /\ Bad # {}
    OBVIOUS
  <2> HIDE DEF Bad
  <2>2. \E k \in Bad : \A j \in Bad : k <= j
    BY <2>1, LeastNatural
  <2> QED
    BY <2>2 DEF Bad
<1>2. k # 0 /\ k - 1 \in Nat /\ ~(k <= k - 1) /\ (k - 1) + 1 = k
  BY <1>1
<1>3. k - 1 \in Good
  BY <1>1, <1>2
<1> QED
  BY <1>1, <1>2, <1>3

(* Induction over the subsets of a finite set, an element at a time.       *)
LEMMA FiniteInduction ==
    ASSUME NEW S, IsFiniteSet(S), NEW Good, {} \in Good,
           \A T \in SUBSET S : \A x \in S \ T :
              T \in Good => T \union {x} \in Good
    PROVE  S \in Good
<1> DEFINE Sizes == {k \in Nat : \A T \in SUBSET S :
                                    Cardinality(T) = k => T \in Good}
<1>1. \A T \in SUBSET S : IsFiniteSet(T) /\ Cardinality(T) \in Nat
  BY FS_Subset, FS_CardinalityType
<1>2. 0 \in Sizes
  BY <1>1, FS_EmptySet
<1>3. ASSUME NEW k \in Nat, k \in Sizes PROVE k + 1 \in Sizes
  <2> SUFFICES ASSUME NEW T \in SUBSET S, Cardinality(T) = k + 1
               PROVE  T \in Good
    OBVIOUS
  <2>1. PICK x : x \in T
    <3>1. Cardinality(T) # 0
      OBVIOUS
    <3>2. Cardinality({}) = 0
      BY FS_EmptySet
    <3> QED
      BY <3>1, <3>2, Zenon
  <2> DEFINE R == T \ {x}
  <2>2. IsFiniteSet(T)
    BY <1>1
  <2>3. Cardinality(R) = k
    <3>1. Cardinality(R) = Cardinality(T) - 1
      BY <2>1, <2>2, FS_RemoveElement, Zenon
    <3> QED
      BY <3>1
  <2>4. R \in SUBSET S /\ x \in S \ R /\ R \union {x} = T
    BY <2>1
  <2> HIDE DEF R
  <2>5. R \in Good
    BY <1>3, <2>3, <2>4
  <2> QED
    BY <2>4, <2>5
<1> HIDE DEF Sizes
<1>4. Nat \subseteq Sizes
  BY <1>2, <1>3, NaturalInduction
<1> QED
  BY <1>1, <1>4 DEF Sizes

-----------------------------------------------------------------------------
(* The sum of a function over a finite set.                                *)

SumsOver(f, S, g) ==
    g = [s \in SUBSET S |->
            IF s = {} THEN 0
            ELSE LET x == CHOOSE x \in s : TRUE IN f[x] + g[s \ {x}]]

(* The sum is defined as the value of a recursive function.                *)
LEMMA SumIsChosen ==
    ASSUME NEW f, NEW S
    PROVE  SumFunctionOnSet(f, S) = (CHOOSE g : SumsOver(f, S, g))[S]
BY DEF SumFunctionOnSet, FoldFunctionOnSet, MapThenFoldSet, SumsOver

(* There is such a function: one for all sets of up to k elements at a     *)
(* time.                                                                   *)
LEMMA SumsExist ==
    ASSUME NEW f, NEW S, IsFiniteSet(S)
    PROVE  \E g : SumsOver(f, S, g)
<1> DEFINE Upto(k) == {s \in SUBSET S : Cardinality(s) <= k}
           Pick(s) == CHOOSE x \in s : TRUE
           Of(g, s) == IF s = {} THEN 0 ELSE f[Pick(s)] + g[s \ {Pick(s)}]
           Good == {k \in Nat : \E g : g = [s \in Upto(k) |-> Of(g, s)]}
<1>1. \A s \in SUBSET S : IsFiniteSet(s) /\ Cardinality(s) \in Nat
  BY FS_Subset, FS_CardinalityType
<1>2. \A s \in SUBSET S : s # {} =>
        Pick(s) \in s /\ Cardinality(s \ {Pick(s)}) = Cardinality(s) - 1
  BY <1>1, FS_RemoveElement
<1>3. 0 \in Good
  <2>1. \A s \in Upto(0) : s = {}
    BY <1>1, FS_EmptySet
  <2>2. [s \in Upto(0) |-> 0] = [s \in Upto(0) |-> Of([r \in Upto(0) |-> 0], s)]
    BY <2>1
  <2> QED
    BY <2>2
<1>4. ASSUME NEW k \in Nat, k \in Good PROVE k + 1 \in Good
  <2>1. PICK g : g = [s \in Upto(k) |-> Of(g, s)]
    BY <1>4
  <2> DEFINE h == [s \in Upto(k + 1) |-> Of(g, s)]
  <2>2. \A s \in Upto(k) : s \in Upto(k + 1) /\ h[s] = g[s]
    <3> SUFFICES ASSUME NEW s \in Upto(k) PROVE s \in Upto(k + 1) /\ h[s] = g[s]
      OBVIOUS
    <3>1. s \in Upto(k + 1)
      BY <1>1
    <3>2. g[s] = Of(g, s)
      <4> HIDE DEF Of, Upto
      <4> QED
        BY <2>1
    <3> QED
      BY <3>1, <3>2
  <2>3. \A s \in Upto(k + 1) : Of(g, s) = Of(h, s)
    <3> HIDE DEF h
    <3> SUFFICES ASSUME NEW s \in Upto(k + 1), s # {}
                 PROVE  g[s \ {Pick(s)}] = h[s \ {Pick(s)}]
      OBVIOUS
    <3>1. s \ {Pick(s)} \in Upto(k)
      BY <1>1, <1>2
    <3> QED
      BY <2>2, <3>1
  <2>4. h = [s \in Upto(k + 1) |-> Of(h, s)]
    <3> HIDE DEF Of, Upto
    <3>1. h = [s \in Upto(k + 1) |-> Of(g, s)]
      OBVIOUS
    <3> HIDE DEF h
    <3> QED
      BY <2>3, <3>1
  <2> HIDE DEF h, Of, Upto
  <2>5. \E e : e = [s \in Upto(k + 1) |-> Of(e, s)]
    BY <2>4
  <2> QED
    BY <2>5
<1> HIDE DEF Good
<1>5. Cardinality(S) \in Good
  BY <1>1, <1>3, <1>4, NaturalInduction
<1>6. PICK g : g = [s \in Upto(Cardinality(S)) |-> Of(g, s)]
  BY <1>5 DEF Good
<1>7. Upto(Cardinality(S)) = SUBSET S
  BY FS_Subset
<1> QED
  BY <1>6, <1>7 DEF SumsOver

(* And only one.                                                           *)
LEMMA SumsUnique ==
    ASSUME NEW f, NEW S, IsFiniteSet(S), NEW g, NEW h,
           SumsOver(f, S, g), SumsOver(f, S, h)
    PROVE  g = h
<1> DEFINE Good == {k \in Nat : \A s \in SUBSET S :
                                   Cardinality(s) = k => g[s] = h[s]}
           Pick(s) == CHOOSE x \in s : TRUE
           Of(e, s) == IF s = {} THEN 0 ELSE f[Pick(s)] + e[s \ {Pick(s)}]
<1>1. \A s \in SUBSET S : IsFiniteSet(s) /\ Cardinality(s) \in Nat
  BY FS_Subset, FS_CardinalityType
<1>2. g = [s \in SUBSET S |-> Of(g, s)] /\ h = [s \in SUBSET S |-> Of(h, s)]
  BY DEF SumsOver
<1>3. \A s \in SUBSET S : g[s] = Of(g, s) /\ h[s] = Of(h, s)
  <2> HIDE DEF Of
  <2> QED
    BY <1>2
<1>4. 0 \in Good
  <2> SUFFICES ASSUME NEW s \in SUBSET S, Cardinality(s) = 0
               PROVE  g[s] = h[s]
    OBVIOUS
  <2>1. s = {}
    BY <1>1, FS_EmptySet
  <2> QED
    BY <1>3, <2>1
<1>5. ASSUME NEW k \in Nat, k \in Good PROVE k + 1 \in Good
  <2> SUFFICES ASSUME NEW s \in SUBSET S, Cardinality(s) = k + 1
               PROVE  g[s] = h[s]
    OBVIOUS
  <2>1. Cardinality({}) = 0 /\ Cardinality(s) # 0
    BY FS_EmptySet
  <2>2. s # {}
    BY <2>1, Zenon
  <2>3. Pick(s) \in s
    BY <2>2
  <2> DEFINE r == s \ {Pick(s)}
  <2>4. Cardinality(r) = Cardinality(s) - 1
    BY <1>1, <2>3, FS_RemoveElement, Zenon
  <2>5. r \in SUBSET S /\ Cardinality(r) = k
    BY <2>4
  <2>6. g[r] = h[r]
    BY <1>5, <2>5
  <2> QED
    BY <1>3, <2>2, <2>6
<1> HIDE DEF Good
<1>6. Nat \subseteq Good
  BY <1>4, <1>5, NaturalInduction
<1>7. \A s \in SUBSET S : g[s] = h[s]
  BY <1>1, <1>6 DEF Good
<1>8. g = [s \in SUBSET S |-> g[s]] /\ h = [s \in SUBSET S |-> h[s]]
  <2> HIDE DEF Of
  <2> QED
    BY <1>2
<1> QED
  BY <1>7, <1>8, Zenon

(* So the sum obeys the recursion it is defined by.                        *)
LEMMA SumRecursion ==
    ASSUME NEW f, NEW S, IsFiniteSet(S)
    PROVE  SumFunctionOnSet(f, S) =
              IF S = {} THEN 0
              ELSE LET x == CHOOSE x \in S : TRUE
                   IN  f[x] + SumFunctionOnSet(f, S \ {x})
<1> DEFINE g == CHOOSE g : SumsOver(f, S, g)
           x == CHOOSE x \in S : TRUE
           R == S \ {x}
           h == CHOOSE h : SumsOver(f, R, h)
<1>1. SumsOver(f, S, g)
  BY SumsExist
<1>2. IsFiniteSet(R)
  BY FS_Subset
<1>3. SumsOver(f, R, h)
  BY <1>2, SumsExist
<1>4. SumFunctionOnSet(f, S) = g[S] /\ SumFunctionOnSet(f, R) = h[R]
  BY SumIsChosen
<1> HIDE DEF g, h, R
<1> DEFINE e == [s \in SUBSET R |-> g[s]]
<1>5. SumsOver(f, R, e)
  <2> DEFINE Pick(s) == CHOOSE y \in s : TRUE
             Of(d, s) == IF s = {} THEN 0 ELSE f[Pick(s)] + d[s \ {Pick(s)}]
  <2>1. g = [s \in SUBSET S |-> Of(g, s)]
    BY <1>1 DEF SumsOver
  <2>2. \A s \in SUBSET R : s \in SUBSET S
    BY DEF R
  <2>3. \A s \in SUBSET R : g[s] = Of(g, s)
    <3> HIDE DEF Of
    <3> QED
      BY <2>1, <2>2
  <2>4. \A s \in SUBSET R : Of(g, s) = Of(e, s)
    OBVIOUS
  <2>5. e = [s \in SUBSET R |-> Of(e, s)]
    <3> HIDE DEF Of
    <3>1. \A s \in SUBSET R : g[s] = Of(e, s)
      BY <2>3, <2>4
    <3> QED
      BY <3>1
  <2> QED
    BY <2>5 DEF SumsOver
<1>6. h[R] = g[R]
  <2>1. h = e
    <3> HIDE DEF e
    <3> QED
      BY <1>2, <1>3, <1>5, SumsUnique
  <2> QED
    BY <2>1
<1>7. g[S] = IF S = {} THEN 0 ELSE f[x] + g[S \ {x}]
  BY <1>1 DEF SumsOver
<1> QED
  BY <1>4, <1>6, <1>7 DEF R

(* Nothing adds up to zero.                                                *)
LEMMA SumEmpty ==
    ASSUME NEW f
    PROVE  SumFunctionOnSet(f, {}) = 0
<1>1. IsFiniteSet({})
  BY FS_EmptySet
<1> QED
  BY <1>1, SumRecursion

(* A sum of integers is an integer.                                        *)
LEMMA SumType ==
    ASSUME NEW S, IsFiniteSet(S), NEW f, \A x \in S : f[x] \in Int
    PROVE  SumFunctionOnSet(f, S) \in Int
<1> DEFINE Sum(T) == SumFunctionOnSet(f, T)
           Good == {k \in Nat : \A T \in SUBSET S :
                                   Cardinality(T) = k => Sum(T) \in Int}
<1>1. \A T \in SUBSET S : IsFiniteSet(T) /\ Cardinality(T) \in Nat
  BY FS_Subset, FS_CardinalityType
<1>2. 0 \in Good
  <2> SUFFICES ASSUME NEW T \in SUBSET S, Cardinality(T) = 0
               PROVE  Sum(T) \in Int
    OBVIOUS
  <2>1. T = {}
    BY <1>1, FS_EmptySet
  <2> QED
    BY <2>1, SumEmpty
<1>3. ASSUME NEW k \in Nat, k \in Good PROVE k + 1 \in Good
  <2> SUFFICES ASSUME NEW T \in SUBSET S, Cardinality(T) = k + 1
               PROVE  Sum(T) \in Int
    OBVIOUS
  <2> DEFINE c == CHOOSE x \in T : TRUE
  <2>1. Cardinality({}) = 0 /\ Cardinality(T) # 0
    BY FS_EmptySet
  <2>2. T # {}
    BY <2>1, Zenon
  <2>3. c \in T
    BY <2>2
  <2>4. Sum(T) = f[c] + Sum(T \ {c})
    BY <1>1, <2>2, SumRecursion
  <2> HIDE DEF c
  <2>5. Cardinality(T \ {c}) = Cardinality(T) - 1
    BY <1>1, <2>3, FS_RemoveElement, Zenon
  <2>6. T \ {c} \in SUBSET S /\ Cardinality(T \ {c}) = k
    BY <2>5
  <2>7. Sum(T \ {c}) \in Int
    BY <1>3, <2>6
  <2> QED
    BY <2>3, <2>4, <2>7
<1> HIDE DEF Good
<1>4. Nat \subseteq Good
  BY <1>2, <1>3, NaturalInduction
<1> QED
  BY <1>1, <1>4 DEF Good

(* It does not depend on the order in which CHOOSE takes the elements: any *)
(* of them can be taken out first.                                         *)
LEMMA SumWithout ==
    ASSUME NEW S, IsFiniteSet(S), NEW f, \A x \in S : f[x] \in Int,
           NEW x \in S
    PROVE  SumFunctionOnSet(f, S) = f[x] + SumFunctionOnSet(f, S \ {x})
<1> DEFINE Sum(T) == SumFunctionOnSet(f, T)
           Holds(T) == \A y \in T : Sum(T) = f[y] + Sum(T \ {y})
           Good == {k \in Nat : \A T \in SUBSET S : Cardinality(T) = k => Holds(T)}
<1>1. \A T \in SUBSET S :
        IsFiniteSet(T) /\ Cardinality(T) \in Nat /\ Sum(T) \in Int
  BY FS_Subset, FS_CardinalityType, SumType
<1>2. 0 \in Good
  <2> SUFFICES ASSUME NEW T \in SUBSET S, Cardinality(T) = 0
               PROVE  Holds(T)
    OBVIOUS
  <2>1. T = {}
    BY <1>1, FS_EmptySet
  <2> QED
    BY <2>1
<1>3. ASSUME NEW k \in Nat, k \in Good PROVE k + 1 \in Good
  <2> SUFFICES ASSUME NEW T \in SUBSET S, Cardinality(T) = k + 1,
                      NEW y \in T
               PROVE  Sum(T) = f[y] + Sum(T \ {y})
    OBVIOUS
  <2> DEFINE c == CHOOSE z \in T : TRUE
  <2>1. c \in T
    OBVIOUS
  <2>2. Sum(T) = f[c] + Sum(T \ {c})
    BY <1>1, SumRecursion
  <2> HIDE DEF c, Holds, Sum
  <2>3. \A z \in T : Holds(T \ {z})
    <3> SUFFICES ASSUME NEW z \in T PROVE Holds(T \ {z})
      OBVIOUS
    <3>1. Cardinality(T \ {z}) = Cardinality(T) - 1
      BY <1>1, FS_RemoveElement, Zenon
    <3>2. T \ {z} \in SUBSET S /\ Cardinality(T \ {z}) = k
      BY <3>1
    <3> QED
      BY <1>3, <3>2
  <2>4. CASE y = c
    BY <2>2, <2>4
  <2>5. CASE y # c
    <3> DEFINE R == (T \ {c}) \ {y}
    <3>1. y \in T \ {c} /\ c \in T \ {y} /\ (T \ {y}) \ {c} = R
      BY <2>1, <2>5
    <3>2. Sum(T \ {c}) = f[y] + Sum(R)
      BY <2>1, <2>3, <3>1 DEF Holds
    <3>3. Sum(T \ {y}) = f[c] + Sum(R)
      BY <2>3, <3>1 DEF Holds
    <3>4. Sum(R) \in Int /\ f[y] \in Int /\ f[c] \in Int
      BY <1>1, <2>1
    <3> QED
      BY <2>2, <3>2, <3>3, <3>4
  <2> QED
    BY <2>4, <2>5
<1> HIDE DEF Good, Holds
<1>4. Nat \subseteq Good
  BY <1>2, <1>3, NaturalInduction
<1>5. Holds(S)
  BY <1>1, <1>4 DEF Good
<1> QED
  BY <1>5 DEF Holds

(* Functions that agree on a set have the same sum over it.                *)
LEMMA SumAgrees ==
    ASSUME NEW S, IsFiniteSet(S), NEW f, NEW g,
           \A x \in S : f[x] \in Int /\ g[x] = f[x]
    PROVE  SumFunctionOnSet(g, S) = SumFunctionOnSet(f, S)
<1> DEFINE Good == {T \in SUBSET S : SumFunctionOnSet(g, T) = SumFunctionOnSet(f, T)}
<1>1. {} \in Good
  BY SumEmpty
<1>2. ASSUME NEW T \in SUBSET S, NEW x \in S \ T, T \in Good
      PROVE  T \union {x} \in Good
  <2> DEFINE U == T \union {x}
  <2>1. IsFiniteSet(U)
    BY FS_Subset
  <2>2. x \in U /\ U \ {x} = T /\ \A y \in U : f[y] \in Int /\ g[y] \in Int
    OBVIOUS
  <2> HIDE DEF U
  <2>3. SumFunctionOnSet(f, U) = f[x] + SumFunctionOnSet(f, T)
    BY <2>1, <2>2, SumWithout
  <2>4. SumFunctionOnSet(g, U) = g[x] + SumFunctionOnSet(g, T)
    BY <2>1, <2>2, SumWithout
  <2> QED
    BY <1>2, <2>3, <2>4 DEF U
<1> HIDE DEF Good
<1>3. S \in Good
  BY <1>1, <1>2, FiniteInduction
<1> QED
  BY <1>3 DEF Good

(* A change at one element changes the sum by as much.                     *)
LEMMA SumChanges ==
    ASSUME NEW S, IsFiniteSet(S), NEW f, NEW g, NEW x \in S,
           \A y \in S : f[y] \in Int, g[x] \in Int,
           \A y \in S \ {x} : g[y] = f[y]
    PROVE  SumFunctionOnSet(g, S) = SumFunctionOnSet(f, S) + g[x] - f[x]
<1> DEFINE R == S \ {x}
<1>1. IsFiniteSet(R) /\ \A y \in R : f[y] \in Int /\ g[y] = f[y]
  BY FS_Subset
<1> HIDE DEF R
<1>2. SumFunctionOnSet(g, R) = SumFunctionOnSet(f, R)
  BY <1>1, SumAgrees
<1>3. SumFunctionOnSet(f, R) \in Int
  BY <1>1, SumType
<1>4. SumFunctionOnSet(f, S) = f[x] + SumFunctionOnSet(f, R)
  BY SumWithout DEF R
<1>5. \A y \in S : g[y] \in Int
  BY <1>1 DEF R
<1>6. SumFunctionOnSet(g, S) = g[x] + SumFunctionOnSet(g, R)
  BY <1>5, SumWithout DEF R
<1> QED
  BY <1>2, <1>3, <1>4, <1>6

(* A sum of lesser numbers is no greater, and equal only if all of them    *)
(* are.                                                                    *)
LEMMA SumCompares ==
    ASSUME NEW S, IsFiniteSet(S), NEW f, NEW g,
           \A x \in S : f[x] \in Int /\ g[x] \in Int /\ f[x] <= g[x]
    PROVE  /\ SumFunctionOnSet(f, S) <= SumFunctionOnSet(g, S)
           /\ SumFunctionOnSet(f, S) = SumFunctionOnSet(g, S) =>
                 \A x \in S : f[x] = g[x]
<1> DEFINE Sf(T) == SumFunctionOnSet(f, T)
           Sg(T) == SumFunctionOnSet(g, T)
           Good == {T \in SUBSET S : /\ Sf(T) <= Sg(T)
                                     /\ Sf(T) = Sg(T) => \A x \in T : f[x] = g[x]}
<1>1. {} \in Good
  BY SumEmpty
<1>2. ASSUME NEW T \in SUBSET S, NEW x \in S \ T, T \in Good
      PROVE  T \union {x} \in Good
  <2> DEFINE U == T \union {x}
  <2>1. IsFiniteSet(U) /\ IsFiniteSet(T)
    BY FS_Subset
  <2>2. x \in U /\ U \ {x} = T /\ \A y \in U : f[y] \in Int /\ g[y] \in Int
    OBVIOUS
  <2> HIDE DEF U
  <2>3. Sf(U) = f[x] + Sf(T)
    BY <2>1, <2>2, SumWithout
  <2>4. Sg(U) = g[x] + Sg(T)
    BY <2>1, <2>2, SumWithout
  <2>5. Sf(T) \in Int /\ Sg(T) \in Int
    BY <2>1, SumType
  <2>6. f[x] \in Int /\ g[x] \in Int /\ f[x] <= g[x]
    OBVIOUS
  <2>7. Sf(T) <= Sg(T) /\ (Sf(T) = Sg(T) => \A y \in T : f[y] = g[y])
    BY <1>2
  <2> HIDE DEF Sf, Sg
  <2>8. Sf(U) <= Sg(U)
    BY <2>3, <2>4, <2>5, <2>6, <2>7
  <2>9. Sf(U) = Sg(U) => Sf(T) = Sg(T) /\ f[x] = g[x]
    BY <2>3, <2>4, <2>5, <2>6, <2>7
  <2>10. Sf(U) = Sg(U) => \A y \in U : f[y] = g[y]
    BY <2>7, <2>9 DEF U
  <2> QED
    BY <2>8, <2>10 DEF U
<1> HIDE DEF Good
<1>3. S \in Good
  BY <1>1, <1>2, FiniteInduction
<1> QED
  BY <1>3 DEF Good

(* The sum of a constant function is a product.                            *)
LEMMA SumOfConstant ==
    ASSUME NEW S, IsFiniteSet(S), NEW f, NEW k \in Int, \A x \in S : f[x] = k
    PROVE  SumFunctionOnSet(f, S) = k * Cardinality(S)
<1> DEFINE Good == {T \in SUBSET S : SumFunctionOnSet(f, T) = k * Cardinality(T)}
<1>1. {} \in Good
  <2>1. SumFunctionOnSet(f, {}) = 0 /\ Cardinality({}) = 0
    BY SumEmpty, FS_EmptySet
  <2> QED
    BY <2>1
<1>2. ASSUME NEW T \in SUBSET S, NEW x \in S \ T, T \in Good
      PROVE  T \union {x} \in Good
  <2> DEFINE U == T \union {x}
  <2>1. IsFiniteSet(U) /\ IsFiniteSet(T)
    BY FS_Subset
  <2>2. x \in U /\ U \ {x} = T /\ \A y \in U : f[y] \in Int
    OBVIOUS
  <2>3. Cardinality(U) = Cardinality(T) + 1 /\ Cardinality(T) \in Nat
    BY <2>1, FS_AddElement, FS_CardinalityType
  <2> HIDE DEF U
  <2>4. SumFunctionOnSet(f, U) = f[x] + SumFunctionOnSet(f, T)
    BY <2>1, <2>2, SumWithout
  <2>5. k * (Cardinality(T) + 1) = k + k * Cardinality(T)
    BY <2>3
  <2> QED
    BY <1>2, <2>3, <2>4, <2>5 DEF U
<1> HIDE DEF Good
<1>3. S \in Good
  BY <1>1, <1>2, FiniteInduction
<1> QED
  BY <1>3 DEF Good

(* Zeros add up to zero.                                                   *)
LEMMA SumOfZeros ==
    ASSUME NEW S, IsFiniteSet(S), NEW f, \A x \in S : f[x] = 0
    PROVE  SumFunctionOnSet(f, S) = 0
<1>1. SumFunctionOnSet(f, S) = 0 * Cardinality(S)
  BY SumOfConstant
<1> QED
  BY <1>1, FS_CardinalityType

(* A sum of naturals is a natural; and it falls when one of them falls.    *)
LEMMA SumIsNatural ==
    ASSUME NEW S, IsFiniteSet(S), NEW f, \A x \in S : f[x] \in Nat
    PROVE  SumFunctionOnSet(f, S) \in Nat
<1> DEFINE zero == [x \in S |-> 0]
<1>1. \A x \in S : zero[x] \in Int /\ f[x] \in Int /\ zero[x] <= f[x]
  OBVIOUS
<1>2. \A x \in S : zero[x] = 0
  OBVIOUS
<1> HIDE DEF zero
<1>3. SumFunctionOnSet(zero, S) = 0
  BY <1>2, SumOfZeros
<1>4. SumFunctionOnSet(zero, S) <= SumFunctionOnSet(f, S)
  BY <1>1, SumCompares
<1>5. SumFunctionOnSet(f, S) \in Int
  BY <1>1, SumType
<1> QED
  BY <1>3, <1>4, <1>5

LEMMA SumFalls ==
    ASSUME NEW S, IsFiniteSet(S), NEW f, NEW g, NEW x \in S,
           \A y \in S : f[y] \in Nat, g[x] \in Int, g[x] < f[x],
           \A y \in S \ {x} : g[y] = f[y]
    PROVE  SumFunctionOnSet(g, S) < SumFunctionOnSet(f, S)
<1>1. \A y \in S : f[y] \in Int
  OBVIOUS
<1>2. SumFunctionOnSet(g, S) = SumFunctionOnSet(f, S) + g[x] - f[x]
  BY <1>1, SumChanges
<1>3. SumFunctionOnSet(f, S) \in Int /\ f[x] \in Int
  BY <1>1, SumType
<1> QED
  BY <1>2, <1>3
=============================================================================
