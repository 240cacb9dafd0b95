------------------------------- MODULE Counting -------------------------------
(***************************************************************************)
(* What the proofs of this project need to know of numbers: that a set of  *)
(* numbers has a least, a finite one a largest member, what factorial and  *)
(* choose compute, and how many descending profiles there are.  Induction  *)
(* goes by the least counterexample: the set of the numbers for which the  *)
(* claim fails has no least member.                                        *)
(***************************************************************************)
EXTENDS Combinatorics, FiniteSetsExt, FiniteSetTheorems, TLAPS

-----------------------------------------------------------------------------
(* Least and largest members.                                              *)

\* The principle every induction below rests on.
LEMMA LeastNumber ==
    ASSUME NEW S \in SUBSET Nat, S # {}
    PROVE  \E x \in S : \A y \in S : x <= y
<1> DEFINE R == {ss \in Nat \X Nat : ss[1] < ss[2]}
<1>1. IsWellFoundedOn(R, Nat)
  <2>1. R = OpToRel(<, Nat)
      BY Zenon DEF OpToRel
  <2> QED BY <2>1, NatLessThanWellFounded, Zenon
<1>2. PICK x \in S : \A y \in S : ~(<<y, x>> \in R)
    BY <1>1, WFMin, Zenon
<1>3. ASSUME NEW y \in S PROVE x <= y
  <2>1. <<y, x>> \in Nat \X Nat /\ <<y, x>>[1] = y /\ <<y, x>>[2] = x
      OBVIOUS
  <2>2. ~(y < x)
      BY <1>2, <2>1, Zenon
  <2> QED BY <2>2
<1> QED BY <1>3

\* A finite set of numbers has a largest member, and Max is that member.
LEMMA LargestNumber ==
    ASSUME NEW S \in SUBSET Nat, S # {}, IsFiniteSet(S)
    PROVE  Max(S) \in S /\ \A y \in S : Max(S) >= y
<1> DEFINE Has(T) == \E x \in T : \A y \in T : x >= y
           Bad == {n \in Nat : \E T \in SUBSET S :
                       T # {} /\ Cardinality(T) = n /\ ~Has(T)}
<1>1. ASSUME Bad # {} PROVE FALSE
  <2>1. PICK n \in Bad : \A m \in Bad : n <= m
      BY <1>1, LeastNumber
  <2>2. PICK T \in SUBSET S : T # {} /\ Cardinality(T) = n /\ ~Has(T)
      BY <2>1
  <2>3. PICK x \in T : TRUE
      BY <2>2
  <2>4. IsFiniteSet(T)
      BY FS_Subset
  <2>5. IsFiniteSet(T \ {x}) /\ Cardinality(T \ {x}) = Cardinality(T) - 1
      BY <2>4, FS_RemoveElement
  <2>6. Cardinality(T \ {x}) \in Nat
      BY <2>5, FS_CardinalityType
  <2>7. n - 1 \in Nat /\ n - 1 < n
      BY <2>1, <2>2, <2>5, <2>6
  <2>8. n - 1 \notin Bad
      BY <2>1, <2>7
  <2>9. T \ {x} # {} => Has(T \ {x})
      BY <2>2, <2>5, <2>7, <2>8
  <2> QED BY <2>2, <2>9
<1>2. Has(S)
  <2>1. Cardinality(S) \in Nat /\ S \in SUBSET S
      BY FS_CardinalityType
  <2> QED BY <1>1, <2>1
<1> QED BY <1>2 DEF Max

\* Min is the least.
LEMMA SmallestNumber ==
    ASSUME NEW S \in SUBSET Nat, S # {}
    PROVE  Min(S) \in S /\ \A y \in S : Min(S) <= y
BY LeastNumber DEF Min

-----------------------------------------------------------------------------
(* Factorials.                                                             *)

\* The first values of factorial, up to n
Beginning(n, g) ==
    /\ g \in [0 .. n -> Nat] /\ g[0] = 1
    /\ \A i \in 1 .. n : g[i] = i * g[i - 1]

\* Two beginnings agree where both are.
LEMMA BeginningsAgree ==
    ASSUME NEW m \in Nat, NEW n \in Nat, NEW g, NEW h, Beginning(m, g), Beginning(n, h),
           NEW i \in Nat, i <= m, i <= n
    PROVE  g[i] = h[i]
<1> DEFINE Bad == {j \in Nat : j <= m /\ j <= n /\ g[j] # h[j]}
<1>1. ASSUME Bad # {} PROVE FALSE
  <2>1. PICK j \in Bad : \A k \in Bad : j <= k
      BY <1>1, LeastNumber
  <2>2. j # 0
      BY <2>1 DEF Beginning
  <2>3. j - 1 \in Nat /\ j - 1 <= m /\ j - 1 <= n /\ j - 1 < j
      BY <2>1, <2>2
  <2>4. g[j - 1] = h[j - 1]
      BY <2>1, <2>3
  <2>5. j \in 1 .. m /\ j \in 1 .. n
      BY <2>1, <2>2
  <2>6. g[j] = j * g[j - 1] /\ h[j] = j * h[j - 1]
      BY <2>5 DEF Beginning
  <2> QED BY <2>1, <2>4, <2>6
<1> QED BY <1>1

\* There is one for every number.
LEMMA BeginningExists == \A n \in Nat : \E g : Beginning(n, g)
<1> DEFINE Bad == {n \in Nat : ~ \E g : Beginning(n, g)}
<1>1. ASSUME Bad # {} PROVE FALSE
  <2>1. PICK n \in Bad : \A k \in Bad : n <= k
      BY <1>1, LeastNumber
  <2>2. n # 0
    <3>1. Beginning(0, [i \in 0 .. 0 |-> 1])
        BY DEF Beginning
    <3> QED BY <2>1, <3>1
  <2>3. n - 1 \in Nat /\ n - 1 < n
      BY <2>1, <2>2
  <2>4. PICK g : Beginning(n - 1, g)
      BY <2>1, <2>3
  <2> DEFINE h == [i \in 0 .. n |-> IF i = n THEN n * g[n - 1] ELSE g[i]]
  <2>5. g[n - 1] \in Nat
      BY <2>3, <2>4 DEF Beginning
  <2>6. n * g[n - 1] \in Nat
      BY <2>1, <2>5
  <2>7. /\ h \in [0 .. n -> Nat] /\ h[n] = n * g[n - 1]
        /\ \A i \in 0 .. n - 1 : h[i] = g[i]
      BY <2>1, <2>3, <2>4, <2>6 DEF Beginning
  <2> HIDE DEF h
  <2>8. h[0] = 1
      BY <2>3, <2>4, <2>7 DEF Beginning
  <2>9. ASSUME NEW i \in 1 .. n PROVE h[i] = i * h[i - 1]
    <3>1. CASE i = n
        BY <2>3, <2>7, <3>1
    <3>2. CASE i # n
      <4>1. i \in 1 .. n - 1 /\ i \in 0 .. n - 1 /\ i - 1 \in 0 .. n - 1
          BY <3>2
      <4> QED BY <2>4, <2>7, <4>1 DEF Beginning
    <3> QED BY <3>1, <3>2
  <2>10. Beginning(n, h)
      BY <2>7, <2>8, <2>9 DEF Beginning
  <2> QED BY <2>1, <2>10
<1> QED BY <1>1

\* factorial satisfies its definition.
LEMMA FactorialEquations ==
    /\ factorial \in [Nat -> Nat] /\ factorial[0] = 1
    /\ \A n \in Nat \ {0} : factorial[n] = n * factorial[n - 1]
<1> DEFINE first(n) == CHOOSE g : Beginning(n, g)
           f == [n \in Nat |-> first(n)[n]]
<1>1. \A n \in Nat : Beginning(n, first(n))
    BY BeginningExists, Zenon
<1> HIDE DEF first
<1>2. f \in [Nat -> Nat] /\ f[0] = 1
    BY <1>1 DEF Beginning
<1>3. ASSUME NEW n \in Nat \ {0} PROVE f[n] = n * f[n - 1]
  <2>1. n - 1 \in Nat /\ n \in 1 .. n
      OBVIOUS
  <2>2. first(n)[n] = n * first(n)[n - 1]
      BY <1>1, <2>1 DEF Beginning
  <2>3. Beginning(n, first(n)) /\ Beginning(n - 1, first(n - 1))
      BY <1>1, <2>1
  <2>4. first(n)[n - 1] = first(n - 1)[n - 1]
      BY <2>1, <2>3, BeginningsAgree
  <2> QED BY <2>1, <2>2, <2>4
<1> HIDE DEF f
<1>4. f = [n \in Nat |-> IF n = 0 THEN 1 ELSE n * f[n - 1]]
    BY <1>2, <1>3
<1>5. factorial = [n \in Nat |-> IF n = 0 THEN 1 ELSE n * factorial[n - 1]]
    BY <1>4, Zenon DEF factorial
<1>6. /\ DOMAIN factorial = Nat /\ factorial[0] = 1
      /\ \A n \in Nat \ {0} : factorial[n] = n * factorial[n - 1]
  <2>1. \A n \in Nat : factorial[n] = IF n = 0 THEN 1 ELSE n * factorial[n - 1]
      BY <1>5, Zenon
  <2> QED BY <1>5, <2>1
<1> DEFINE Bad == {n \in Nat : factorial[n] # f[n]}
<1>7. ASSUME Bad # {} PROVE FALSE
  <2>1. PICK n \in Bad : \A k \in Bad : n <= k
      BY <1>7, LeastNumber
  <2>2. n # 0 /\ n \in Nat
      BY <1>2, <1>6, <2>1
  <2>3. n - 1 \in Nat /\ n - 1 < n
      BY <2>2
  <2>4. factorial[n - 1] = f[n - 1]
      BY <2>1, <2>3
  <2> QED BY <1>3, <1>6, <2>1, <2>2, <2>4
<1>8. factorial = f
  <2>1. \A n \in Nat : factorial[n] = f[n]
      BY <1>7
  <2>2. factorial = [n \in Nat |-> factorial[n]] /\ f = [n \in Nat |-> f[n]]
      BY <1>2, <1>5
  <2> QED BY <2>1, <2>2
<1> QED BY <1>2, <1>6, <1>8

\* No factorial is 0.
LEMMA FactorialPositive == \A n \in Nat : factorial[n] \in Nat \ {0}
<1> DEFINE Bad == {n \in Nat : factorial[n] = 0}
<1>1. ASSUME Bad # {} PROVE FALSE
  <2>1. PICK n \in Bad : \A k \in Bad : n <= k
      BY <1>1, LeastNumber
  <2>2. n # 0 /\ n \in Nat
      BY <2>1, FactorialEquations
  <2>3. n - 1 \in Nat /\ n - 1 < n
      BY <2>2
  <2>4. factorial[n - 1] \in Nat /\ factorial[n - 1] # 0
      BY <2>1, <2>3, FactorialEquations
  <2>5. factorial[n] = n * factorial[n - 1]
      BY <2>2, FactorialEquations
  <2>6. \A a, b \in Nat \ {0} : a * b # 0
      OBVIOUS
  <2> QED BY <2>1, <2>2, <2>4, <2>5, <2>6
<1> QED BY <1>1, FactorialEquations

-----------------------------------------------------------------------------
(* Descending profiles.                                                    *)

\* n descends from at most n to at least 0, over k places
Profiles(k, n) ==
    {x \in [1 .. k -> 0 .. n] : \A i, j \in 1 .. k : i <= j => x[i] >= x[j]}

\* Those that end in 0, and those that do not.
LEMMA ProfilesEndingInZero ==
    ASSUME NEW k \in Nat \ {0}, NEW n \in Nat
    PROVE  ExistsBijection(Profiles(k - 1, n), {x \in Profiles(k, n) : x[k] = 0})
<1> DEFINE Q == {x \in Profiles(k, n) : x[k] = 0}
           P == Profiles(k - 1, n)
           longer(x) == [i \in 1 .. k |-> IF i = k THEN 0 ELSE x[i]]
           b == [x \in P |-> longer(x)]
<1>1. ASSUME NEW x \in P
      PROVE  /\ longer(x) \in Q
             /\ \A i \in 1 .. k - 1 : longer(x)[i] = x[i]
  <2>1. x \in [1 .. k - 1 -> 0 .. n] /\ \A i, j \in 1 .. k - 1 : i <= j => x[i] >= x[j]
      BY DEF Profiles
  <2>2. \A i \in 1 .. k : i # k => i \in 1 .. k - 1
      OBVIOUS
  <2>3. longer(x) \in [1 .. k -> 0 .. n]
      BY <2>1, <2>2
  <2>4. /\ longer(x)[k] = 0
        /\ \A i \in 1 .. k - 1 : longer(x)[i] = x[i]
      OBVIOUS
  <2> HIDE DEF longer
  <2>5. ASSUME NEW i \in 1 .. k, NEW j \in 1 .. k, i <= j
        PROVE  longer(x)[i] >= longer(x)[j]
    <3>1. CASE j = k
        BY <2>3, <2>4, <3>1
    <3>2. CASE j # k
      <4>1. i \in 1 .. k - 1 /\ j \in 1 .. k - 1
          BY <2>5, <3>2
      <4> QED BY <2>1, <2>4, <2>5, <4>1
    <3> QED BY <3>1, <3>2
  <2> QED BY <2>3, <2>4, <2>5 DEF Profiles
<1>2. b \in [P -> Q]
    BY <1>1
<1>3. ASSUME NEW x \in P, NEW y \in P, b[x] = b[y] PROVE x = y
  <2>1. x \in [1 .. k - 1 -> 0 .. n] /\ y \in [1 .. k - 1 -> 0 .. n]
      BY DEF Profiles
  <2>2. longer(x) = longer(y)
      BY <1>3
  <2> HIDE DEF longer
  <2>3. \A i \in 1 .. k - 1 : x[i] = y[i]
      BY <1>1, <2>2
  <2> QED BY <2>1, <2>3
<1>4. ASSUME NEW y \in Q PROVE \E x \in P : b[x] = y
  <2> DEFINE x == [i \in 1 .. k - 1 |-> y[i]]
  <2>1. y \in [1 .. k -> 0 .. n] /\ y[k] = 0
        /\ \A i, j \in 1 .. k : i <= j => y[i] >= y[j]
      BY DEF Profiles
  <2>2. x \in P
      BY <2>1 DEF Profiles
  <2>3. longer(x) = y
    <3>1. \A i \in 1 .. k : longer(x)[i] = y[i]
        BY <2>1
    <3>2. longer(x) \in [1 .. k -> 0 .. n]
        BY <1>1, <2>2 DEF Profiles
    <3> QED BY <2>1, <3>1, <3>2
  <2> QED BY <2>2, <2>3
<1> HIDE DEF P, Q, b
<1>5. b \in Bijection(P, Q)
    BY <1>2, <1>3, <1>4 DEF Bijection, Injection, Surjection, IsInjective
<1> QED BY <1>5 DEF ExistsBijection, P, Q

\* A profile whose last entry is not 0 is one of the next lower height, raised.
LEMMA ProfilesAboveZero ==
    ASSUME NEW k \in Nat \ {0}, NEW n \in Nat \ {0}
    PROVE  ExistsBijection(Profiles(k, n - 1), {x \in Profiles(k, n) : x[k] # 0})
<1> DEFINE Q == {x \in Profiles(k, n) : x[k] # 0}
           P == Profiles(k, n - 1)
           raised(x) == [i \in 1 .. k |-> x[i] + 1]
           b == [x \in P |-> raised(x)]
<1>1. ASSUME NEW x \in P
      PROVE  /\ raised(x) \in Q
             /\ \A i \in 1 .. k : x[i] \in 0 .. n - 1 /\ raised(x)[i] = x[i] + 1
  <2>1. x \in [1 .. k -> 0 .. n - 1] /\ \A i, j \in 1 .. k : i <= j => x[i] >= x[j]
      BY DEF Profiles
  <2>2. \A i \in 1 .. k : x[i] \in 0 .. n - 1 /\ x[i] + 1 \in 1 .. n
      BY <2>1
  <2>3. raised(x) \in [1 .. k -> 0 .. n] /\ \A i \in 1 .. k : raised(x)[i] = x[i] + 1
      BY <2>2
  <2> HIDE DEF raised
  <2>4. raised(x)[k] # 0
      BY <2>2, <2>3
  <2>5. ASSUME NEW i \in 1 .. k, NEW j \in 1 .. k, i <= j
        PROVE  raised(x)[i] >= raised(x)[j]
    <3>1. x[i] >= x[j] /\ x[i] \in 0 .. n - 1 /\ x[j] \in 0 .. n - 1
        BY <2>1, <2>2, <2>5
    <3>2. raised(x)[i] = x[i] + 1 /\ raised(x)[j] = x[j] + 1
        BY <2>3
    <3> QED BY <3>1, <3>2
  <2> QED BY <2>2, <2>3, <2>4, <2>5 DEF Profiles
<1>2. b \in [P -> Q]
    BY <1>1
<1>3. ASSUME NEW x \in P, NEW y \in P, b[x] = b[y] PROVE x = y
  <2>1. x \in [1 .. k -> 0 .. n - 1] /\ y \in [1 .. k -> 0 .. n - 1]
      BY DEF Profiles
  <2>2. raised(x) = raised(y)
      BY <1>3
  <2> HIDE DEF raised
  <2>3. ASSUME NEW i \in 1 .. k PROVE x[i] = y[i]
    <3>1. x[i] + 1 = y[i] + 1 /\ x[i] \in Nat /\ y[i] \in Nat
        BY <1>1, <2>2
    <3> QED BY <3>1
  <2> QED BY <2>1, <2>3
<1>4. ASSUME NEW y \in Q PROVE \E x \in P : b[x] = y
  <2> DEFINE x == [i \in 1 .. k |-> y[i] - 1]
  <2>1. y \in [1 .. k -> 0 .. n] /\ y[k] # 0
        /\ \A i, j \in 1 .. k : i <= j => y[i] >= y[j]
      BY DEF Profiles
  <2>2. \A i \in 1 .. k : y[i] \in 1 .. n /\ y[i] - 1 \in 0 .. n - 1
    <3> SUFFICES ASSUME NEW i \in 1 .. k PROVE y[i] \in 1 .. n
        OBVIOUS
    <3>1. y[i] >= y[k] /\ y[k] \in 0 .. n /\ y[i] \in 0 .. n
        BY <2>1
    <3> QED BY <2>1, <3>1
  <2>3. x \in [1 .. k -> 0 .. n - 1] /\ \A i \in 1 .. k : x[i] = y[i] - 1
      BY <2>2
  <2> HIDE DEF x
  <2>4. ASSUME NEW i \in 1 .. k, NEW j \in 1 .. k, i <= j PROVE x[i] >= x[j]
    <3>1. y[i] >= y[j] /\ y[i] \in 1 .. n /\ y[j] \in 1 .. n
        BY <2>1, <2>2, <2>4
    <3>2. x[i] = y[i] - 1 /\ x[j] = y[j] - 1
        BY <2>3
    <3> QED BY <3>1, <3>2
  <2>5. x \in P
      BY <2>3, <2>4 DEF Profiles
  <2>6. raised(x) = y
    <3>1. ASSUME NEW i \in 1 .. k PROVE raised(x)[i] = y[i]
        BY <2>2, <2>3
    <3>2. raised(x) \in [1 .. k -> 0 .. n]
        BY <1>1, <2>5 DEF Profiles
    <3> QED BY <2>1, <3>1, <3>2
  <2> QED BY <2>5, <2>6
<1> HIDE DEF P, Q, b
<1>5. b \in Bijection(P, Q)
    BY <1>2, <1>3, <1>4 DEF Bijection, Injection, Surjection, IsInjective
<1> QED BY <1>5 DEF ExistsBijection, P, Q

\* There is but one over no place, or below 1.
LEMMA FewProfiles ==
    ASSUME NEW k \in Nat, NEW n \in Nat, k = 0 \/ n = 0
    PROVE  \E x : Profiles(k, n) = {x}
<1> DEFINE x == [i \in 1 .. k |-> 0]
<1>1. x \in Profiles(k, n)
    BY DEF Profiles
<1>2. ASSUME NEW y \in Profiles(k, n) PROVE y = x
  <2>1. y \in [1 .. k -> 0 .. n]
      BY DEF Profiles
  <2>2. \A i \in 1 .. k : y[i] = 0
      BY <2>1
  <2> QED BY <2>1, <2>2
<1> QED BY <1>1, <1>2

\* Both parts together, over the products of factorials they are counted by.
LEMMA Pascal ==
    ASSUME NEW k \in Nat, NEW n \in Nat, NEW a \in Nat, NEW b \in Nat,
           NEW A \in Nat, NEW B \in Nat, NEW F \in Nat,
           a * (A * (n * B)) = F, b * ((k * A) * B) = F
    PROVE  (a + b) * ((k * A) * (n * B)) = (k + n) * F
<1> DEFINE P == (k * A) * (n * B)
<1>1. a * P = k * (a * (A * (n * B)))
    OBVIOUS
<1>2. b * P = n * (b * ((k * A) * B))
    OBVIOUS
<1>3. (a + b) * P = a * P + b * P
    OBVIOUS
<1>4. (k + n) * F = k * F + n * F
    OBVIOUS
<1> QED BY <1>1, <1>2, <1>3, <1>4

\* There are (k + n)! / (k! n!) of them.
LEMMA ProfilesCounted ==
    \A k, n \in Nat :
        /\ IsFiniteSet(Profiles(k, n))
        /\ Cardinality(Profiles(k, n)) * (factorial[k] * factorial[n]) = factorial[k + n]
<1> DEFINE Counted(k, n) ==
               /\ IsFiniteSet(Profiles(k, n))
               /\ Cardinality(Profiles(k, n)) * (factorial[k] * factorial[n])
                      = factorial[k + n]
           Bad == {m \in Nat : \E k, n \in Nat : k + n = m /\ ~Counted(k, n)}
<1>1. ASSUME Bad # {} PROVE FALSE
  <2>1. PICK m \in Bad : \A j \in Bad : m <= j
      BY <1>1, LeastNumber
  <2>2. PICK k \in Nat, n \in Nat : k + n = m /\ ~Counted(k, n)
      BY <2>1
  <2>3. CASE k = 0 \/ n = 0
    <3>1. PICK x : Profiles(k, n) = {x}
        BY <2>3, FewProfiles
    <3>2. IsFiniteSet(Profiles(k, n)) /\ Cardinality(Profiles(k, n)) = 1
        BY <3>1, FS_Singleton
    <3>3. /\ factorial[0] = 1 /\ factorial[k] \in Nat /\ factorial[n] \in Nat
          /\ 0 + n = n /\ k + 0 = k
        BY FactorialEquations
    <3>4. 1 * (factorial[k] * factorial[n]) = factorial[k + n]
      <4>1. CASE k = 0
          BY <3>3, <4>1
      <4>2. CASE n = 0
          BY <3>3, <4>2
      <4> QED BY <2>3, <4>1, <4>2
    <3> QED BY <2>2, <3>2, <3>4
  <2>4. CASE k # 0 /\ n # 0
    <3> DEFINE Zero == {x \in Profiles(k, n) : x[k] = 0}
               Above == {x \in Profiles(k, n) : x[k] # 0}
    <3>1. /\ k - 1 \in Nat /\ n - 1 \in Nat /\ k + n - 1 \in Nat
          /\ (k - 1) + n = k + n - 1 /\ k + (n - 1) = k + n - 1
          /\ k + n - 1 < m
        BY <2>2, <2>4
    <3>2. Counted(k - 1, n) /\ Counted(k, n - 1)
        BY <2>1, <3>1
    <3>3. /\ IsFiniteSet(Zero) /\ Cardinality(Zero) = Cardinality(Profiles(k - 1, n))
          /\ IsFiniteSet(Above) /\ Cardinality(Above) = Cardinality(Profiles(k, n - 1))
      <4>1. k \in Nat \ {0} /\ n \in Nat \ {0}
          BY <2>4
      <4>2. IsFiniteSet(Profiles(k - 1, n)) /\ IsFiniteSet(Profiles(k, n - 1))
          BY <3>2
      <4>3. ExistsBijection(Profiles(k - 1, n), Zero)
          BY <4>1, ProfilesEndingInZero
      <4>4. ExistsBijection(Profiles(k, n - 1), Above)
          BY <4>1, ProfilesAboveZero
      <4> HIDE DEF Zero, Above
      <4> QED BY <4>2, <4>3, <4>4, FS_Bijection
    <3>4. Profiles(k, n) = Zero \cup Above /\ Zero \cap Above = {}
        OBVIOUS
    <3> DEFINE a == Cardinality(Zero)
               b == Cardinality(Above)
    <3>5. a \in Nat /\ b \in Nat
        BY <3>3, FS_CardinalityType
    <3>6. IsFiniteSet(Zero \cup Above) /\ Cardinality(Zero \cup Above) = a + b - 0
        BY <3>3, <3>4, FS_Union, FS_EmptySet
    <3>7. IsFiniteSet(Profiles(k, n)) /\ Cardinality(Profiles(k, n)) = a + b
      <4> HIDE DEF Zero, Above
      <4>1. Cardinality(Zero \cup Above) = a + b
          BY <3>5, <3>6
      <4> QED BY <3>4, <3>6, <4>1
    <3> DEFINE A == factorial[k - 1]
               B == factorial[n - 1]
               F == factorial[k + n - 1]
    <3>8. A \in Nat /\ B \in Nat /\ F \in Nat
        BY <3>1, FactorialEquations
    <3>9. /\ factorial[k] = k * A /\ factorial[n] = n * B
          /\ factorial[k + n] = (k + n) * F
        BY <2>4, <3>1, FactorialEquations
    <3>10. a * (A * (n * B)) = F /\ b * ((k * A) * B) = F
        BY <3>1, <3>2, <3>3, <3>9
    <3> HIDE DEF a, b, A, B, F
    <3>11. (a + b) * ((k * A) * (n * B)) = (k + n) * F
        BY <3>5, <3>8, <3>10, Pascal
    <3> QED BY <2>2, <3>7, <3>9, <3>11
  <2> QED BY <2>3, <2>4
<1> QED BY <1>1

\* That is choose(k + n, k).
LEMMA ChooseProfiles ==
    ASSUME NEW k \in Nat, NEW n \in Nat
    PROVE  choose(k + n, k) = Cardinality(Profiles(k, n))
<1> DEFINE c == Cardinality(Profiles(k, n))
           d == factorial[k] * factorial[n]
<1>1. factorial[k] \in Nat \ {0} /\ factorial[n] \in Nat \ {0}
    BY FactorialPositive
<1>2. d \in Nat \ {0}
  <2>1. \A x, y \in Nat \ {0} : x * y \in Nat \ {0}
      OBVIOUS
  <2> QED BY <1>1, <2>1
<1>3. c \in Nat /\ c * d = factorial[k + n]
    BY ProfilesCounted, FS_CardinalityType
<1>4. choose(k + n, k) = factorial[k + n] \div d
  <2>1. k + n - k = n
      OBVIOUS
  <2> QED BY <2>1 DEF choose
<1> HIDE DEF c, d
<1>5. (c * d) \div d = c
    BY <1>2, <1>3
<1> QED BY <1>3, <1>4, <1>5 DEF c

\* x comes before y where, at the last place they differ, it is less
Before(k, x, y) ==
    \E v \in 1 .. k : x[v] < y[v] /\ \A u \in v + 1 .. k : x[u] = y[u]

\* The profiles before y
Earlier(k, n, y) == {x \in Profiles(k, n) : Before(k, x, y)}

\* One earlier has fewer before it.
LEMMA FewerEarlier ==
    ASSUME NEW k \in Nat, NEW n \in Nat,
           NEW x \in Profiles(k, n), NEW y \in Profiles(k, n), Before(k, x, y)
    PROVE  /\ Cardinality(Earlier(k, n, x)) \in Nat /\ Cardinality(Earlier(k, n, y)) \in Nat
           /\ Cardinality(Earlier(k, n, x)) < Cardinality(Earlier(k, n, y))
<1>1. \A z \in Profiles(k, n) : z \in [1 .. k -> 0 .. n]
    BY DEF Profiles
<1>2. x \notin Earlier(k, n, x)
  <2>1. \A v \in 1 .. k : x[v] \in 0 .. n
      BY <1>1
  <2>2. \A v \in 1 .. k : ~(x[v] < x[v])
      BY <2>1
  <2> QED BY <2>2 DEF Earlier, Before
<1>3. Earlier(k, n, x) \cup {x} \subseteq Earlier(k, n, y)
  <2> SUFFICES ASSUME NEW z \in Profiles(k, n), Before(k, z, x) PROVE Before(k, z, y)
      BY DEF Earlier
  <2>1. PICK v \in 1 .. k : x[v] < y[v] /\ \A u \in v + 1 .. k : x[u] = y[u]
      BY DEF Before
  <2>2. PICK w \in 1 .. k : z[w] < x[w] /\ \A u \in w + 1 .. k : z[u] = x[u]
      BY DEF Before
  <2>3. \A u \in 1 .. k : x[u] \in 0 .. n /\ y[u] \in 0 .. n /\ z[u] \in 0 .. n
      BY <1>1
  <2>4. CASE w <= v
    <3>1. z[v] < y[v]
      <4>1. CASE w = v
          BY <2>1, <2>2, <2>3, <4>1
      <4>2. CASE w # v
          BY <2>1, <2>2, <2>3, <2>4, <4>2
      <4> QED BY <4>1, <4>2
    <3>2. \A u \in v + 1 .. k : z[u] = y[u]
      <4>1. \A u \in v + 1 .. k : u \in w + 1 .. k
          BY <2>4
      <4> QED BY <2>1, <2>2, <4>1
    <3> QED BY <3>1, <3>2 DEF Before
  <2>5. CASE ~(w <= v)
    <3>1. w \in v + 1 .. k
        BY <2>5
    <3>2. z[w] < y[w]
        BY <2>1, <2>2, <3>1
    <3>3. \A u \in w + 1 .. k : u \in v + 1 .. k
        BY <2>5
    <3>4. \A u \in w + 1 .. k : z[u] = y[u]
        BY <2>1, <2>2, <3>3
    <3> QED BY <3>2, <3>4 DEF Before
  <2> QED BY <2>4, <2>5
<1>4. IsFiniteSet(Earlier(k, n, x)) /\ IsFiniteSet(Earlier(k, n, y))
  <2>1. IsFiniteSet(Profiles(k, n))
      BY ProfilesCounted
  <2> QED BY <2>1, FS_Subset DEF Earlier
<1>5. Cardinality(Earlier(k, n, x) \cup {x}) = Cardinality(Earlier(k, n, x)) + 1
    BY <1>2, <1>4, FS_AddElement
<1>6. Cardinality(Earlier(k, n, x) \cup {x}) <= Cardinality(Earlier(k, n, y))
    BY <1>3, <1>4, FS_Subset
<1> QED BY <1>4, <1>5, <1>6, FS_CardinalityType

\* Not all are earlier than one of them.
LEMMA NotAllEarlier ==
    ASSUME NEW k \in Nat, NEW n \in Nat, NEW y \in Profiles(k, n)
    PROVE  Cardinality(Earlier(k, n, y)) < Cardinality(Profiles(k, n))
<1>1. \A v \in 1 .. k : y[v] \in 0 .. n
    BY DEF Profiles
<1>2. y \notin Earlier(k, n, y)
  <2>1. \A v \in 1 .. k : ~(y[v] < y[v])
      BY <1>1
  <2> QED BY <2>1 DEF Earlier, Before
<1>3. IsFiniteSet(Profiles(k, n)) /\ Earlier(k, n, y) \in SUBSET Profiles(k, n)
    BY ProfilesCounted DEF Earlier
<1>4. /\ Cardinality(Earlier(k, n, y)) <= Cardinality(Profiles(k, n))
      /\ Cardinality(Earlier(k, n, y)) # Cardinality(Profiles(k, n))
    BY <1>2, <1>3, FS_Subset
<1>5. Cardinality(Earlier(k, n, y)) \in Nat /\ Cardinality(Profiles(k, n)) \in Nat
    BY <1>3, FS_Subset, FS_CardinalityType
<1> QED BY <1>4, <1>5

\* Where one is nowhere more than another, it is the same or comes before it.
LEMMA LessIsEarlier ==
    ASSUME NEW k \in Nat, NEW n \in Nat,
           NEW x \in Profiles(k, n), NEW y \in Profiles(k, n),
           \A v \in 1 .. k : x[v] <= y[v]
    PROVE  x = y \/ Before(k, x, y)
<1> SUFFICES ASSUME x # y PROVE Before(k, x, y)
    OBVIOUS
<1> DEFINE D == {v \in 1 .. k : x[v] # y[v]}
<1>1. x \in [1 .. k -> 0 .. n] /\ y \in [1 .. k -> 0 .. n]
    BY DEF Profiles
<1>2. D # {}
  <2> SUFFICES ASSUME \A v \in 1 .. k : x[v] = y[v] PROVE x = y
      OBVIOUS
  <2> QED BY <1>1
<1>3. D \in SUBSET Nat /\ IsFiniteSet(D)
  <2>1. IsFiniteSet(1 .. k) /\ D \in SUBSET (1 .. k)
      BY FS_Interval
  <2> QED BY <2>1, FS_Subset
<1>4. PICK v : v \in D /\ \A u \in D : v >= u
    BY <1>2, <1>3, LargestNumber
<1>5. x[v] < y[v]
    BY <1>1, <1>4
<1>6. \A u \in v + 1 .. k : x[u] = y[u]
    BY <1>4
<1> QED BY <1>4, <1>5, <1>6 DEF Before
===============================================================================
