------------------------------- MODULE SumProofs -------------------------------
(***************************************************************************)
(* Laws of the two sums the models are written with: SumTo, of f[1] up to  *)
(* f[n], and SumFunctionOnSet, of f[x] over the x of a finite set.  An     *)
(* induction is made by way of a least counterexample, as "a set of        *)
(* naturals that is not empty has a least element".                        *)
(***************************************************************************)
EXTENDS Sums, Functions, FiniteSetTheorems, WellFoundedInduction, TLAPS

-----------------------------------------------------------------------------
(* Laws of SumTo. *)

\* Every nonempty set of naturals has a least element.
LEMMA LeastNatural ==
    ASSUME NEW T, T \subseteq Nat, T # {}
    PROVE  \E x \in T : \A y \in T : x <= y
<1>1. \E x \in T : \A y \in T : ~ (<<y, x>> \in OpToRel(<, Nat))
  BY NatLessThanWellFounded, WFMin
<1>2. PICK x \in T : \A y \in T : ~ (<<y, x>> \in OpToRel(<, Nat))
  BY <1>1
<1>3. \A y \in T : x <= y
  <2>1. SUFFICES ASSUME NEW y \in T, ~(x <= y)
                 PROVE  FALSE
    OBVIOUS
  <2>2. x \in Nat /\ y \in Nat /\ y < x
    BY <2>1
  <2>3. <<y, x>> \in OpToRel(<, Nat)
    BY <2>2 DEF OpToRel
  <2>4. QED
    BY <1>2, <2>3
<1>4. QED
  BY <1>3

-----------------------------------------------------------------------------
\* The equation that defines the partial sums of f up to n.
IsPartialSums(p, f, n) ==
    p = [i \in 0..n |-> IF i = 0 THEN 0 ELSE p[i - 1] + f[i]]

\* Partial sums exist for every function of integers: a longest prefix
\* without partial sums would extend the partial sums of a shorter one.
LEMMA PartialSumsExist ==
    ASSUME NEW n \in Nat, NEW f, \A i \in 1..n : f[i] \in Int
    PROVE  \E p \in [0..n -> Int] : IsPartialSums(p, f, n)
<1> DEFINE T == {k \in 0..n : ~ \E p \in [0..k -> Int] : IsPartialSums(p, f, k)}
<1>1. SUFFICES ASSUME T # {}
               PROVE  FALSE
  BY <1>1
<1>2. PICK k \in T : \A j \in T : k <= j
  <2>1. T \subseteq Nat
    OBVIOUS
  <2> HIDE DEF T
  <2> QED BY <1>1, <2>1, LeastNatural
<1>3. k # 0
  <2>1. IsPartialSums([i \in 0..0 |-> 0], f, 0)
    BY DEF IsPartialSums
  <2>2. [i \in 0..0 |-> 0] \in [0..0 -> Int]
    OBVIOUS
  <2>3. QED
    BY <2>1, <2>2
<1>4. k \in Nat /\ k - 1 \in 0..n /\ f[k] \in Int
  BY <1>3
<1>5. PICK p \in [0..(k - 1) -> Int] : IsPartialSums(p, f, k - 1)
  BY <1>2, <1>4
<1> DEFINE q == [i \in 0..k |-> IF i = k THEN p[k - 1] + f[k] ELSE p[i]]
<1>6. q \in [0..k -> Int]
  BY <1>3, <1>4
<1>7. IsPartialSums(q, f, k)
  <2>1. ASSUME NEW i \in 0..k
        PROVE  q[i] = IF i = 0 THEN 0 ELSE q[i - 1] + f[i]
    <3>1. CASE i = k
      BY <3>1, <1>3, <1>4
    <3>2. CASE i # k
      <4>1. i \in 0..(k - 1)
        BY <3>2, <1>4
      <4>2. p[i] = IF i = 0 THEN 0 ELSE p[i - 1] + f[i]
        BY <4>1, <1>5 DEF IsPartialSums
      <4>3. i # 0 => (i - 1 \in 0..k /\ i - 1 # k)
        BY <4>1, <1>4
      <4>4. QED
        BY <4>1, <4>2, <4>3, <3>2
    <3>3. QED
      BY <3>1, <3>2
  <2> HIDE DEF q
  <2>2. q = [i \in 0..k |-> IF i = 0 THEN 0 ELSE q[i - 1] + f[i]]
    BY <2>1, <1>6
  <2>3. QED
    BY <2>2 DEF IsPartialSums
<1>8. QED
  BY <1>6, <1>7, <1>2

Agree(f, g, k) == \A i \in 1..k : f[i] = g[i]

\* Two functions that agree up to k have the same partial sums up to k.
LEMMA PartialSumsUnique ==
    ASSUME NEW n \in Nat, NEW m \in Nat, NEW f, NEW g, NEW p, NEW q,
           IsPartialSums(p, f, n), IsPartialSums(q, g, m),
           NEW k \in Nat, k <= n, k <= m,
           Agree(f, g, k)
    PROVE  \A i \in 0..k : p[i] = q[i]
<1> USE DEF Agree
<1> DEFINE T == {j \in 0..k : p[j] # q[j]}
<1>1. SUFFICES ASSUME T # {}
               PROVE  FALSE
  BY <1>1
<1>2. PICK j \in T : \A i \in T : j <= i
  <2>1. T \subseteq Nat
    OBVIOUS
  <2> HIDE DEF T
  <2> QED BY <1>1, <2>1, LeastNatural
<1>3. j \in 0..n /\ j \in 0..m
  OBVIOUS
<1>4. p[j] = IF j = 0 THEN 0 ELSE p[j - 1] + f[j]
  BY <1>3 DEF IsPartialSums
<1>5. q[j] = IF j = 0 THEN 0 ELSE q[j - 1] + g[j]
  BY <1>3 DEF IsPartialSums
<1>6. CASE j = 0
  BY <1>4, <1>5, <1>6
<1>7. CASE j # 0
  <2>1. j - 1 \in 0..k /\ j \in 1..k /\ ~(j <= j - 1)
    BY <1>7
  <2>2. p[j - 1] = q[j - 1]
    BY <2>1, <1>2
  <2>3. QED
    BY <1>4, <1>5, <1>7, <2>1, <2>2
<1>8. QED
  BY <1>6, <1>7

\* The sums up to n begin with the sums up to m.
LEMMA SamePartialSum ==
    ASSUME NEW n \in Nat, NEW m \in Nat, m <= n, NEW f, NEW p, NEW q,
           IsPartialSums(p, f, n), IsPartialSums(q, f, m)
    PROVE  p[m] = q[m]
<1>1. m <= m /\ m \in 0..m /\ Agree(f, f, m)
  BY DEF Agree
<1>2. \A i \in 0..m : p[i] = q[i]
  BY <1>1, PartialSumsUnique
<1>3. QED
  BY <1>1, <1>2

\* SumTo is the last of some partial sums.
LEMMA SumToPartial ==
    ASSUME NEW n \in Nat, NEW f, \A i \in 1..n : f[i] \in Int
    PROVE  \E p \in [0..n -> Int] : IsPartialSums(p, f, n) /\ SumTo(f, n) = p[n]
<1> DEFINE c == CHOOSE p : IsPartialSums(p, f, n)
<1>1. IsPartialSums(c, f, n)
  BY PartialSumsExist
<1>2. SumTo(f, n) = c[n]
  BY DEF SumTo, IsPartialSums
<1>3. PICK p \in [0..n -> Int] : IsPartialSums(p, f, n)
  BY PartialSumsExist
<1>4. \A i \in 0..n : c[i] = p[i]
  <2>1. n <= n /\ Agree(f, f, n)
    BY DEF Agree
  <2> HIDE DEF c
  <2> QED BY <1>1, <1>3, <2>1, PartialSumsUnique
<1>5. QED
  <2> HIDE DEF c
  <2> QED BY <1>2, <1>3, <1>4

-----------------------------------------------------------------------------
\* A sum of integers is an integer.
LEMMA SumToType ==
    ASSUME NEW n \in Nat, NEW f, \A i \in 1..n : f[i] \in Int
    PROVE  SumTo(f, n) \in Int
BY SumToPartial

\* The empty sum.
LEMMA SumToZero ==
    ASSUME NEW f
    PROVE  SumTo(f, 0) = 0
<1>1. PICK p \in [0..0 -> Int] : IsPartialSums(p, f, 0) /\ SumTo(f, 0) = p[0]
  <2>1. 0 \in Nat /\ \A i \in 1..0 : f[i] \in Int
    OBVIOUS
  <2> QED BY <2>1, SumToPartial
<1>2. QED
  BY <1>1 DEF IsPartialSums

\* A sum is the sum of all but the last term, plus the last.
LEMMA SumToStep ==
    ASSUME NEW n \in Nat \ {0}, NEW f, \A i \in 1..n : f[i] \in Int
    PROVE  SumTo(f, n) = SumTo(f, n - 1) + f[n]
<1>0. n - 1 \in Nat /\ n \in 0..n /\ n - 1 \in 0..(n - 1) /\ n \in Nat
  OBVIOUS
<1>1. PICK p \in [0..n -> Int] : IsPartialSums(p, f, n) /\ SumTo(f, n) = p[n]
  BY SumToPartial
<1>2. PICK q \in [0..(n - 1) -> Int] : IsPartialSums(q, f, n - 1) /\ SumTo(f, n - 1) = q[n - 1]
  <2>1. \A i \in 1..(n - 1) : f[i] \in Int
    OBVIOUS
  <2> QED BY <1>0, <2>1, SumToPartial
<1>3. p[n - 1] = q[n - 1]
  <2> DEFINE j == n - 1
  <2>1. j \in Nat /\ j <= n /\ IsPartialSums(p, f, n) /\ IsPartialSums(q, f, j)
    BY <1>0, <1>1, <1>2
  <2> HIDE DEF j
  <2>2. p[j] = q[j]
    BY <2>1, SamePartialSum
  <2> QED BY <2>2 DEF j
<1>4. p[n] = p[n - 1] + f[n]
  BY <1>0, <1>1 DEF IsPartialSums
<1>5. QED
  BY <1>1, <1>2, <1>3, <1>4

\* The sum depends only on the terms.
LEMMA SumToEqual ==
    ASSUME NEW n \in Nat, NEW f, NEW g, \A i \in 1..n : f[i] \in Int /\ g[i] = f[i]
    PROVE  SumTo(g, n) = SumTo(f, n)
<1>1. PICK p \in [0..n -> Int] : IsPartialSums(p, f, n) /\ SumTo(f, n) = p[n]
  BY SumToPartial
<1>2. PICK q \in [0..n -> Int] : IsPartialSums(q, g, n) /\ SumTo(g, n) = q[n]
  BY SumToPartial
<1>3. p[n] = q[n]
  <2>1. n <= n /\ Agree(f, g, n)
    BY DEF Agree
  <2>2. \A i \in 0..n : p[i] = q[i]
    BY <1>1, <1>2, <2>1, PartialSumsUnique
  <2> QED BY <2>2
<1>4. QED
  BY <1>1, <1>2, <1>3

\* Changing one term changes the sum by the same amount.
LEMMA SumToChange ==
    ASSUME NEW n \in Nat, NEW f, NEW g, NEW k \in 1..n,
           \A i \in 1..n : f[i] \in Int /\ g[i] \in Int,
           \A i \in 1..n : i # k => g[i] = f[i]
    PROVE  SumTo(g, n) = SumTo(f, n) + g[k] - f[k]
<1> DEFINE T == {j \in k..n : SumTo(g, j) # SumTo(f, j) + g[k] - f[k]}
<1>1. SUFFICES ASSUME T # {}
               PROVE  FALSE
  BY <1>1
<1>2. PICK j \in T : \A i \in T : j <= i
  <2>1. T \subseteq Nat
    OBVIOUS
  <2> HIDE DEF T
  <2> QED BY <1>1, <2>1, LeastNatural
<1>3. j \in Nat \ {0} /\ j - 1 \in Nat /\ j \in k..n
  OBVIOUS
<1>4. /\ SumTo(f, j) = SumTo(f, j - 1) + f[j]
      /\ SumTo(g, j) = SumTo(g, j - 1) + g[j]
      /\ SumTo(f, j - 1) \in Int /\ SumTo(g, j - 1) \in Int
  <2>1. \A i \in 1..j : i \in 1..n
    BY <1>3
  <2>2. \A i \in 1..(j - 1) : i \in 1..n
    BY <1>3
  <2>3. QED
    BY <1>3, <2>1, <2>2, SumToStep, SumToType
<1>5. CASE j = k
  <2>1. SumTo(g, j - 1) = SumTo(f, j - 1)
    BY <1>3, <1>5, SumToEqual
  <2>2. QED
    BY <1>4, <1>5, <2>1
<1>6. CASE j # k
  <2>1. j - 1 \in k..n /\ ~(j <= j - 1)
    BY <1>3, <1>6
  <2>2. SumTo(g, j - 1) = SumTo(f, j - 1) + g[k] - f[k]
    BY <2>1, <1>2
  <2>3. g[j] = f[j] /\ f[j] \in Int
    BY <1>3, <1>6
  <2>4. QED
    BY <1>4, <2>2, <2>3
<1>7. QED
  BY <1>5, <1>6

\* A sum of naturals is a natural.
LEMMA SumToNat ==
    ASSUME NEW n \in Nat, NEW f, \A i \in 1..n : f[i] \in Nat
    PROVE  SumTo(f, n) \in Nat
<1> DEFINE T == {j \in 0..n : SumTo(f, j) \notin Nat}
<1>1. SUFFICES ASSUME T # {}
               PROVE  FALSE
  BY <1>1
<1>2. PICK j \in T : \A i \in T : j <= i
  <2>1. T \subseteq Nat
    OBVIOUS
  <2> HIDE DEF T
  <2> QED BY <1>1, <2>1, LeastNatural
<1>3. j # 0
  BY SumToZero
<1>4. j \in Nat \ {0} /\ j - 1 \in 0..n /\ ~(j <= j - 1) /\ f[j] \in Nat
  BY <1>3
<1>5. SumTo(f, j) = SumTo(f, j - 1) + f[j]
  <2>1. \A i \in 1..j : f[i] \in Int
    BY <1>4
  <2> QED BY <1>4, <2>1, SumToStep
<1>6. SumTo(f, j - 1) \in Nat
  BY <1>2, <1>4
<1>7. QED
  BY <1>4, <1>5, <1>6

\* The sum of two sequences, term by term, is the sum of their sums.
LEMMA SumToPlus ==
    ASSUME NEW n \in Nat, NEW f, NEW g, NEW h,
           \A i \in 1..n : f[i] \in Int /\ g[i] \in Int /\ h[i] = f[i] + g[i]
    PROVE  SumTo(h, n) = SumTo(f, n) + SumTo(g, n)
<1> DEFINE T == {j \in 0..n : SumTo(h, j) # SumTo(f, j) + SumTo(g, j)}
<1>1. SUFFICES ASSUME T # {}
               PROVE  FALSE
  BY <1>1
<1>2. PICK j \in T : \A i \in T : j <= i
  <2>1. T \subseteq Nat
    OBVIOUS
  <2> HIDE DEF T
  <2> QED BY <1>1, <2>1, LeastNatural
<1>3. j # 0
  BY SumToZero
<1>4. j \in Nat \ {0} /\ j - 1 \in 0..n /\ ~(j <= j - 1) /\ j \in 1..n
  BY <1>3
<1>5. /\ \A i \in 1..j : f[i] \in Int /\ g[i] \in Int /\ h[i] \in Int
      /\ \A i \in 1..(j - 1) : f[i] \in Int /\ g[i] \in Int
      /\ h[j] = f[j] + g[j]
  BY <1>4
<1>6. /\ SumTo(f, j) = SumTo(f, j - 1) + f[j]
      /\ SumTo(g, j) = SumTo(g, j - 1) + g[j]
      /\ SumTo(h, j) = SumTo(h, j - 1) + h[j]
      /\ SumTo(f, j - 1) \in Int /\ SumTo(g, j - 1) \in Int
  BY <1>4, <1>5, SumToStep, SumToType
<1>7. SumTo(h, j - 1) = SumTo(f, j - 1) + SumTo(g, j - 1)
  BY <1>2, <1>4
<1>8. QED
  BY <1>4, <1>5, <1>6, <1>7

\* A sum of zeros is zero, since it is twice itself.
LEMMA SumToZeros ==
    ASSUME NEW n \in Nat, NEW f, \A i \in 1..n : f[i] = 0
    PROVE  SumTo(f, n) = 0
<1> DEFINE sum == SumTo(f, n)
<1>1. \A i \in 1..n : f[i] \in Int /\ f[i] = f[i] + f[i]
  OBVIOUS
<1>2. sum = sum + sum /\ sum \in Int
  BY <1>1, SumToPlus, SumToType
<1>3. sum = 0
  <2> HIDE DEF sum
  <2> QED BY <1>2
<1>4. QED
  BY <1>3

\* Larger terms, larger sum.
LEMMA SumToMonotone ==
    ASSUME NEW n \in Nat, NEW f, NEW g,
           \A i \in 1..n : f[i] \in Int /\ g[i] \in Int /\ f[i] <= g[i]
    PROVE  SumTo(f, n) <= SumTo(g, n)
<1> DEFINE d == [i \in 1..n |-> g[i] - f[i]]
<1>1. \A i \in 1..n : d[i] \in Nat /\ f[i] \in Int /\ d[i] \in Int /\ g[i] = f[i] + d[i]
  OBVIOUS
<1> HIDE DEF d
<1>2. SumTo(g, n) = SumTo(f, n) + SumTo(d, n)
  BY <1>1, SumToPlus
<1>3. SumTo(d, n) \in Nat /\ SumTo(f, n) \in Int
  BY <1>1, SumToNat, SumToType
<1>4. QED
  BY <1>2, <1>3

\* No term of a sum of naturals is larger than the sum.
LEMMA SumToAtLeast ==
    ASSUME NEW n \in Nat, NEW f, \A i \in 1..n : f[i] \in Nat, NEW k \in 1..n
    PROVE  f[k] <= SumTo(f, n)
<1> DEFINE g == [i \in 1..n |-> IF i = k THEN 0 ELSE f[i]]
<1>1. /\ \A i \in 1..n : f[i] \in Int /\ g[i] \in Int
      /\ \A i \in 1..n : i # k => g[i] = f[i]
      /\ \A i \in 1..n : g[i] \in Nat
      /\ g[k] = 0 /\ f[k] \in Nat
  OBVIOUS
<1> HIDE DEF g
<1>2. SumTo(g, n) = SumTo(f, n) + g[k] - f[k]
  <2>1. \A i \in 1..n : f[i] \in Int /\ g[i] \in Int
    BY <1>1
  <2>2. \A i \in 1..n : i # k => g[i] = f[i]
    BY <1>1
  <2>3. k \in 1..n
    OBVIOUS
  <2> QED BY ONLY <2>1, <2>2, <2>3, n \in Nat, SumToChange
<1>3. SumTo(g, n) \in Nat /\ SumTo(f, n) \in Int
  BY <1>1, SumToNat, SumToType
<1>4. g[k] = 0 /\ f[k] \in Nat
  BY <1>1
<1>5. ASSUME NEW a \in Nat, NEW b \in Int, NEW c \in Nat, a = b + 0 - c
      PROVE  c <= b
  BY <1>5
<1>6. SumTo(g, n) = SumTo(f, n) + 0 - f[k]
  BY <1>2, <1>4
<1>7. QED
  BY <1>3, <1>4, <1>5, <1>6

\* A common factor of the terms is one of the sum.
LEMMA SumToScaled ==
    ASSUME NEW n \in Nat, NEW c \in Int, NEW f, NEW g,
           \A i \in 1..n : f[i] \in Int /\ g[i] = c * f[i]
    PROVE  SumTo(g, n) = c * SumTo(f, n)
<1> DEFINE T == {j \in 0..n : SumTo(g, j) # c * SumTo(f, j)}
<1>1. SUFFICES ASSUME T # {}
               PROVE  FALSE
  BY <1>1
<1>2. PICK j \in T : \A i \in T : j <= i
  <2>1. T \subseteq Nat
    OBVIOUS
  <2> HIDE DEF T
  <2> QED BY <1>1, <2>1, LeastNatural
<1>3. j # 0
  BY SumToZero
<1>4. j \in Nat \ {0} /\ j - 1 \in 0..n /\ ~(j <= j - 1) /\ j \in 1..n
  BY <1>3
<1>5. /\ \A i \in 1..j : f[i] \in Int /\ g[i] \in Int
      /\ \A i \in 1..(j - 1) : f[i] \in Int
      /\ g[j] = c * f[j] /\ f[j] \in Int
  BY <1>4
<1>6. /\ SumTo(f, j) = SumTo(f, j - 1) + f[j]
      /\ SumTo(g, j) = SumTo(g, j - 1) + g[j]
      /\ SumTo(f, j - 1) \in Int
  BY <1>4, <1>5, SumToStep, SumToType
<1>7. SumTo(g, j - 1) = c * SumTo(f, j - 1)
  BY <1>2, <1>4
<1>8. SumTo(g, j) # c * SumTo(f, j)
  BY <1>2
<1>9. ASSUME NEW a \in Int, NEW b \in Int
      PROVE  c * (a + b) = c * a + c * b
  OBVIOUS
<1>10. QED
  BY <1>5, <1>6, <1>7, <1>8, <1>9

\* Counting a set of indices term by term.
LEMMA SumToCount ==
    ASSUME NEW n \in Nat, NEW S \in SUBSET (1..n), NEW f,
           \A i \in 1..n : f[i] = IF i \in S THEN 1 ELSE 0
    PROVE  SumTo(f, n) = Cardinality(S)
<1> DEFINE T == {j \in 0..n : SumTo(f, j) # Cardinality(S \cap (1..j))}
<1>1. T = {}
  <2>1. SUFFICES ASSUME T # {}
                 PROVE  FALSE
    OBVIOUS
  <2>2. PICK j \in T : \A i \in T : j <= i
    <3>1. T \subseteq Nat
      OBVIOUS
    <3> HIDE DEF T
    <3> QED BY <2>1, <3>1, LeastNatural
  <2>3. j # 0
    <3>1. S \cap (1..0) = {}
      OBVIOUS
    <3> QED BY <3>1, SumToZero, FS_EmptySet
  <2>4. j \in Nat \ {0} /\ j - 1 \in 0..n /\ ~(j <= j - 1) /\ j \in 1..n
    BY <2>3
  <2>5. SumTo(f, j) = SumTo(f, j - 1) + f[j]
    <3>1. \A i \in 1..j : f[i] \in Int
      BY <2>4
    <3> QED BY <2>4, <3>1, SumToStep
  <2>6. SumTo(f, j - 1) = Cardinality(S \cap (1..(j - 1)))
    BY <2>2, <2>4
  <2> DEFINE before == S \cap (1..(j - 1))
  <2>7. IsFiniteSet(before)
    <3>1. IsFiniteSet(1..(j - 1))
      BY <2>4, FS_Interval
    <3> QED BY <3>1, FS_Subset
  <2>8. Cardinality(before) \in Nat
    BY <2>7, FS_CardinalityType
  <2>9. CASE j \in S
    <3>1. S \cap (1..j) = before \cup {j} /\ j \notin before
      BY <2>4, <2>9
    <3> HIDE DEF before
    <3>2. Cardinality(before \cup {j}) = Cardinality(before) + 1
      BY <2>7, <3>1, FS_AddElement
    <3>3. f[j] = 1
      BY <2>4, <2>9
    <3> QED BY <2>2, <2>5, <2>6, <3>1, <3>2, <3>3 DEF before
  <2>10. CASE j \notin S
    <3>1. S \cap (1..j) = before
      BY <2>4, <2>10
    <3>2. f[j] = 0
      BY <2>4, <2>10
    <3> QED BY <2>2, <2>5, <2>6, <2>8, <3>1, <3>2
  <2> QED BY <2>9, <2>10
<1>2. n \in 0..n /\ S \cap (1..n) = S
  <2>1. n \in 0..n
    OBVIOUS
  <2>2. S \subseteq 1..n
    OBVIOUS
  <2>3. S \cap (1..n) = S
    BY <2>2
  <2> QED BY <2>1, <2>3
<1>3. SumTo(f, n) = Cardinality(S \cap (1..n))
  <2>1. n \notin T
    BY <1>1
  <2> QED BY <1>2, <2>1
<1>4. QED
  BY <1>2, <1>3

\* A sum is that of its first terms and that of the rest.
LEMMA SumToSplit ==
    ASSUME NEW k \in Nat, NEW n \in Nat, NEW f, NEW g,
           \A i \in 1..(k + n) : f[i] \in Int,
           \A i \in 1..n : g[i] = f[k + i]
    PROVE  SumTo(f, k + n) = SumTo(f, k) + SumTo(g, n)
<1> DEFINE T == {j \in 0..n : SumTo(f, k + j) # SumTo(f, k) + SumTo(g, j)}
<1>1. SUFFICES ASSUME T # {}
               PROVE  FALSE
  BY <1>1
<1>2. PICK j \in T : \A i \in T : j <= i
  <2>1. T \subseteq Nat
    OBVIOUS
  <2> HIDE DEF T
  <2> QED BY <1>1, <2>1, LeastNatural
<1>3. j # 0
  <2>1. SumTo(f, k) \in Int
    BY SumToType
  <2> QED BY <2>1, SumToZero
<1>4. j \in Nat \ {0} /\ j - 1 \in 0..n /\ ~(j <= j - 1) /\ j \in 1..n
  BY <1>3
<1>5. k + j \in Nat \ {0} /\ k + j - 1 = k + (j - 1)
  BY <1>4
<1>6. /\ \A i \in 1..(k + j) : f[i] \in Int
      /\ \A i \in 1..k : f[i] \in Int
      /\ \A i \in 1..j : g[i] \in Int
      /\ \A i \in 1..(j - 1) : g[i] \in Int
      /\ g[j] = f[k + j]
  BY <1>4
<1>7. SumTo(f, k + j) = SumTo(f, k + (j - 1)) + f[k + j]
  BY <1>5, <1>6, SumToStep
<1>8. SumTo(g, j) = SumTo(g, j - 1) + g[j] /\ SumTo(g, j - 1) \in Int /\ SumTo(f, k) \in Int
  BY <1>4, <1>6, SumToStep, SumToType
<1>9. SumTo(f, k + (j - 1)) = SumTo(f, k) + SumTo(g, j - 1)
  BY <1>2, <1>4
<1>10. QED
  BY <1>4, <1>6, <1>7, <1>8, <1>9

-----------------------------------------------------------------------------
(* Laws of SumFunctionOnSet, by induction on the cardinality of the set.   *)

Chosen(T) == CHOOSE x \in T : TRUE

\* The equation that defines the sums of f over the subsets of S.
IsSetSums(p, f, S) ==
    p = [T \in SUBSET S |-> IF T = {} THEN 0 ELSE f[Chosen(T)] + p[T \ {Chosen(T)}]]

UpTo(S, n) == {T \in SUBSET S : Cardinality(T) <= n}

\* The same equation for the subsets of at most n elements.
IsSetSumsUpTo(p, f, S, n) ==
    p = [T \in UpTo(S, n) |-> IF T = {} THEN 0 ELSE f[Chosen(T)] + p[T \ {Chosen(T)}]]

\* A nonempty finite set has one element less without the chosen one.
LEMMA ChosenRemoved ==
    ASSUME NEW T, IsFiniteSet(T), T # {}
    PROVE  /\ Chosen(T) \in T
           /\ IsFiniteSet(T \ {Chosen(T)})
           /\ Cardinality(T) \in Nat /\ Cardinality(T \ {Chosen(T)}) = Cardinality(T) - 1
<1>1. Chosen(T) \in T
  BY DEF Chosen
<1> HIDE DEF Chosen
<1>2. QED
  BY <1>1, FS_RemoveElement, FS_CardinalityType

\* Sums over the subsets of a finite set exist.
LEMMA SetSumsExist ==
    ASSUME NEW S, IsFiniteSet(S), NEW f, \A x \in S : f[x] \in Int
    PROVE  \E p \in [SUBSET S -> Int] : IsSetSums(p, f, S)
<1> DEFINE N == {n \in Nat : ~ \E p \in [UpTo(S, n) -> Int] : IsSetSumsUpTo(p, f, S, n)}
<1>0. \A T \in SUBSET S : IsFiniteSet(T) /\ Cardinality(T) \in Nat /\ Cardinality(T) <= Cardinality(S)
  BY FS_Subset, FS_CardinalityType
<1>1. SUFFICES ASSUME N # {}
               PROVE  FALSE
  <2>1. PICK p \in [UpTo(S, Cardinality(S)) -> Int] : IsSetSumsUpTo(p, f, S, Cardinality(S))
    BY <1>1, FS_CardinalityType
  <2>2. UpTo(S, Cardinality(S)) = SUBSET S
    BY <1>0 DEF UpTo
  <2>3. QED
    BY <2>1, <2>2 DEF IsSetSumsUpTo, IsSetSums
<1>2. PICK n \in N : \A k \in N : n <= k
  <2>1. N \subseteq Nat
    OBVIOUS
  <2> HIDE DEF N
  <2> QED BY <1>1, <2>1, LeastNatural
<1>3. n # 0
  <2>1. UpTo(S, 0) = {{}}
    BY <1>0, FS_EmptySet DEF UpTo
  <2>2. IsSetSumsUpTo([T \in {{}} |-> 0], f, S, 0)
    BY <2>1 DEF IsSetSumsUpTo
  <2>3. [T \in {{}} |-> 0] \in [{{}} -> Int]
    OBVIOUS
  <2>4. \E p \in [UpTo(S, 0) -> Int] : IsSetSumsUpTo(p, f, S, 0)
    BY <2>1, <2>2, <2>3
  <2>5. QED
    BY <2>4
<1>4. n - 1 \in Nat /\ n - 1 \notin N
  BY <1>2, <1>3
<1>5. PICK p \in [UpTo(S, n - 1) -> Int] : IsSetSumsUpTo(p, f, S, n - 1)
  BY <1>4
<1> DEFINE q == [T \in UpTo(S, n) |-> IF T = {} THEN 0 ELSE f[Chosen(T)] + p[T \ {Chosen(T)}]]
<1>6. ASSUME NEW T \in UpTo(S, n), T # {}
      PROVE  Chosen(T) \in S /\ T \ {Chosen(T)} \in UpTo(S, n - 1) /\ T \ {Chosen(T)} \in UpTo(S, n)
  <2>1. T \in SUBSET S /\ Cardinality(T) <= n
    BY DEF UpTo
  <2>2. QED
    BY <1>0, <2>1, <1>6, ChosenRemoved DEF UpTo
<1>7. q \in [UpTo(S, n) -> Int]
  BY <1>6
<1>8. \A T \in UpTo(S, n - 1) : q[T] = p[T]
  <2>1. UpTo(S, n - 1) \subseteq UpTo(S, n)
    BY <1>0, <1>4 DEF UpTo
  <2>2. QED
    BY <1>5, <2>1 DEF IsSetSumsUpTo
<1>9. q = [T \in UpTo(S, n) |-> IF T = {} THEN 0 ELSE f[Chosen(T)] + q[T \ {Chosen(T)}]]
  <2>1. ASSUME NEW T \in UpTo(S, n)
        PROVE  (IF T = {} THEN 0 ELSE f[Chosen(T)] + p[T \ {Chosen(T)}])
                 = (IF T = {} THEN 0 ELSE f[Chosen(T)] + q[T \ {Chosen(T)}])
    <3> HIDE DEF q
    <3> QED BY <1>6, <1>8
  <2>2. QED
    BY <2>1, Zenon
<1>10. QED
  BY <1>2, <1>7, <1>9 DEF IsSetSumsUpTo

\* Sums over the subsets of two sets agree where both are defined.
LEMMA SetSumsUnique ==
    ASSUME NEW S, IsFiniteSet(S), NEW f, NEW T \in SUBSET S,
           NEW p, IsSetSums(p, f, S), NEW q, IsSetSums(q, f, T)
    PROVE  p[T] = q[T]
<1> DEFINE N == {Cardinality(U) : U \in {V \in SUBSET T : p[V] # q[V]}}
<1>0. \A U \in SUBSET T : IsFiniteSet(U) /\ Cardinality(U) \in Nat
  BY FS_Subset, FS_CardinalityType
<1>1. SUFFICES ASSUME N # {}
               PROVE  FALSE
  BY <1>1
<1>2. PICK n \in N : \A k \in N : n <= k
  <2>1. N \subseteq Nat
    BY <1>0
  <2> HIDE DEF N
  <2> QED BY <1>1, <2>1, LeastNatural
<1>3. PICK U \in SUBSET T : p[U] # q[U] /\ n = Cardinality(U)
  BY <1>2
<1>4. U # {}
  BY <1>3 DEF IsSetSums
<1> DEFINE V == U \ {Chosen(U)}
<1>5. V \in SUBSET T /\ Cardinality(V) < Cardinality(U)
  BY <1>0, <1>4, ChosenRemoved
<1>6. p[V] = q[V]
  BY <1>0, <1>2, <1>3, <1>5
<1>7. p[U] = f[Chosen(U)] + p[V] /\ q[U] = f[Chosen(U)] + q[V]
  BY <1>4 DEF IsSetSums
<1>8. QED
  BY <1>3, <1>6, <1>7

\* The sum is the value at S of the sums over its subsets.
LEMMA SumOnSets ==
    ASSUME NEW S, IsFiniteSet(S), NEW f, \A x \in S : f[x] \in Int
    PROVE  \E p \in [SUBSET S -> Int] : IsSetSums(p, f, S) /\ SumFunctionOnSet(f, S) = p[S]
<1> DEFINE p == CHOOSE p : IsSetSums(p, f, S)
<1>1. PICK q \in [SUBSET S -> Int] : IsSetSums(q, f, S)
  BY SetSumsExist
<1>2. IsSetSums(p, f, S)
  BY <1>1
<1>3. SumFunctionOnSet(f, S) = p[S]
  BY DEF SumFunctionOnSet, FoldFunctionOnSet, MapThenFoldSet, IsSetSums, Chosen
<1>4. p[S] = q[S]
  BY <1>1, <1>2, SetSumsUnique
<1>5. QED
  BY <1>1, <1>3, <1>4

LEMMA SumOnType ==
    ASSUME NEW S, IsFiniteSet(S), NEW f, \A x \in S : f[x] \in Int
    PROVE  SumFunctionOnSet(f, S) \in Int
<1>1. PICK p \in [SUBSET S -> Int] : SumFunctionOnSet(f, S) = p[S]
  BY SumOnSets
<1>2. QED
  BY <1>1

LEMMA SumOnEmpty ==
    ASSUME NEW f
    PROVE  SumFunctionOnSet(f, {}) = 0
<1>1. PICK p \in [SUBSET {} -> Int] : IsSetSums(p, f, {}) /\ SumFunctionOnSet(f, {}) = p[{}]
  <2>1. IsFiniteSet({}) /\ \A x \in {} : f[x] \in Int
    BY FS_EmptySet
  <2>2. QED
    BY <2>1, SumOnSets
<1>2. QED
  BY <1>1 DEF IsSetSums

\* What the fold does: it sets the chosen element apart.
LEMMA SumOnChosen ==
    ASSUME NEW S, IsFiniteSet(S), S # {}, NEW f, \A x \in S : f[x] \in Int
    PROVE  SumFunctionOnSet(f, S) = f[Chosen(S)] + SumFunctionOnSet(f, S \ {Chosen(S)})
<1> DEFINE T == S \ {Chosen(S)}
<1>1. PICK p \in [SUBSET S -> Int] : IsSetSums(p, f, S) /\ SumFunctionOnSet(f, S) = p[S]
  BY SumOnSets
<1>2. IsFiniteSet(T) /\ T \in SUBSET S
  BY ChosenRemoved
<1> HIDE DEF T
<1>3. PICK q \in [SUBSET T -> Int] : IsSetSums(q, f, T) /\ SumFunctionOnSet(f, T) = q[T]
  BY <1>2, SumOnSets
<1>4. p[T] = q[T]
  BY <1>1, <1>2, <1>3, SetSumsUnique
<1>5. p[S] = f[Chosen(S)] + p[T]
  BY <1>1 DEF IsSetSums, T
<1>6. QED
  BY <1>1, <1>3, <1>4, <1>5 DEF T

\* Any element may be set apart.
LEMMA SumOnRemove ==
    ASSUME NEW S, IsFiniteSet(S), NEW f, \A x \in S : f[x] \in Int, NEW a \in S
    PROVE  SumFunctionOnSet(f, S) = f[a] + SumFunctionOnSet(f, S \ {a})
<1> DEFINE IsWrong(T, x) == SumFunctionOnSet(f, T) # f[x] + SumFunctionOnSet(f, T \ {x})
           N == {Cardinality(T) : T \in {U \in SUBSET S : \E x \in U : IsWrong(U, x)}}
<1>0. \A T \in SUBSET S : IsFiniteSet(T) /\ Cardinality(T) \in Nat
  BY FS_Subset, FS_CardinalityType
<1>1. SUFFICES ASSUME N # {}
               PROVE  FALSE
  BY <1>1
<1>2. PICK n \in N : \A k \in N : n <= k
  <2>1. N \subseteq Nat
    BY <1>0
  <2> HIDE DEF N
  <2> QED BY <1>1, <2>1, LeastNatural
<1>3. PICK T \in SUBSET S : (\E x \in T : IsWrong(T, x)) /\ n = Cardinality(T)
  BY <1>2
<1>4. PICK x \in T : IsWrong(T, x)
  BY <1>3
<1> DEFINE c == Chosen(T)
<1>5. c \in T /\ SumFunctionOnSet(f, T) = f[c] + SumFunctionOnSet(f, T \ {c})
  BY <1>0, <1>4, ChosenRemoved, SumOnChosen
<1>6. x # c
  BY <1>4, <1>5
<1> HIDE DEF c
<1>7. ASSUME NEW y \in T, NEW z \in T \ {y}
      PROVE  SumFunctionOnSet(f, T \ {y}) = f[z] + SumFunctionOnSet(f, T \ {y, z})
  <2>1. T \ {y} \in SUBSET S /\ Cardinality(T \ {y}) = n - 1 /\ n \in Nat
    BY <1>0, <1>3, FS_RemoveElement
  <2>2. ~ IsWrong(T \ {y}, z)
    <3>1. SUFFICES ASSUME IsWrong(T \ {y}, z)
                   PROVE  FALSE
      OBVIOUS
    <3>2. Cardinality(T \ {y}) \in N
      BY <2>1, <3>1
    <3> HIDE DEF N
    <3>3. QED
      BY <1>2, <2>1, <3>2
  <2>3. (T \ {y}) \ {z} = T \ {y, z}
    OBVIOUS
  <2>4. QED
    BY <2>2, <2>3
<1>8. SumFunctionOnSet(f, T \ {c}) = f[x] + SumFunctionOnSet(f, T \ {c, x})
  BY <1>5, <1>6, <1>7
<1>9. SumFunctionOnSet(f, T \ {x}) = f[c] + SumFunctionOnSet(f, T \ {x, c})
  BY <1>5, <1>6, <1>7
<1>10. T \ {c, x} = T \ {x, c} /\ f[c] \in Int /\ f[x] \in Int
  BY <1>5
<1>11. SumFunctionOnSet(f, T \ {x, c}) \in Int
  <2>1. IsFiniteSet(T \ {x, c})
    BY <1>0
  <2>2. QED
    BY <2>1, SumOnType
<1> DEFINE rest == SumFunctionOnSet(f, T \ {x, c})
<1>12. SumFunctionOnSet(f, T) = f[c] + (f[x] + rest)
  BY <1>5, <1>8, <1>10, Zenon
<1>13. SumFunctionOnSet(f, T) # f[x] + (f[c] + rest)
  BY <1>4, <1>9, Zenon
<1> HIDE DEF rest
<1>14. f[c] + (f[x] + rest) = f[x] + (f[c] + rest)
  BY <1>10, <1>11 DEF rest
<1>15. QED
  BY <1>12, <1>13, <1>14

\* One element more.
LEMMA SumOnAdd ==
    ASSUME NEW S, IsFiniteSet(S), NEW a, a \notin S, NEW f, \A x \in S \cup {a} : f[x] \in Int
    PROVE  SumFunctionOnSet(f, S \cup {a}) = SumFunctionOnSet(f, S) + f[a]
<1>1. IsFiniteSet(S \cup {a}) /\ (S \cup {a}) \ {a} = S
  BY FS_AddElement
<1>2. SumFunctionOnSet(f, S) \in Int /\ f[a] \in Int
  BY SumOnType
<1>3. SumFunctionOnSet(f, S \cup {a}) = f[a] + SumFunctionOnSet(f, S)
  <2>1. SumFunctionOnSet(f, S \cup {a}) = f[a] + SumFunctionOnSet(f, (S \cup {a}) \ {a})
    BY <1>1, SumOnRemove
  <2>2. QED
    BY <1>1, <2>1, Zenon
<1>4. QED
  BY <1>2, <1>3

\* Only the values on the set matter, and larger ones make a larger sum.
LEMMA SumOnMonotone ==
    ASSUME NEW S, IsFiniteSet(S), NEW f, NEW g,
           \A x \in S : f[x] \in Int /\ g[x] \in Int /\ f[x] <= g[x]
    PROVE  SumFunctionOnSet(f, S) <= SumFunctionOnSet(g, S)
<1> DEFINE IsWrong(T) == ~ (SumFunctionOnSet(f, T) <= SumFunctionOnSet(g, T))
           N == {Cardinality(T) : T \in {U \in SUBSET S : IsWrong(U)}}
<1>0. \A T \in SUBSET S : IsFiniteSet(T) /\ Cardinality(T) \in Nat
  BY FS_Subset, FS_CardinalityType
<1>1. SUFFICES ASSUME N # {}
               PROVE  FALSE
  BY <1>1
<1>2. PICK n \in N : \A k \in N : n <= k
  <2>1. N \subseteq Nat
    BY <1>0
  <2> HIDE DEF N
  <2> QED BY <1>1, <2>1, LeastNatural
<1>3. PICK T \in SUBSET S : IsWrong(T) /\ n = Cardinality(T)
  BY <1>2
<1>4. T # {}
  <2>1. SumFunctionOnSet(f, {}) = 0 /\ SumFunctionOnSet(g, {}) = 0
    BY SumOnEmpty
  <2>2. QED
    BY <1>3, <2>1
<1>5. PICK c \in T : TRUE
  BY <1>4
<1>6. T \ {c} \in SUBSET S /\ Cardinality(T \ {c}) = n - 1 /\ n \in Nat
  BY <1>0, <1>3, FS_RemoveElement
<1>7. ~ IsWrong(T \ {c})
  <2>1. SUFFICES ASSUME IsWrong(T \ {c})
                 PROVE  FALSE
    OBVIOUS
  <2>2. Cardinality(T \ {c}) \in N
    BY <1>6, <2>1
  <2>3. n <= Cardinality(T \ {c})
    <3> HIDE DEF N
    <3> QED BY <1>2, <2>2
  <2>4. QED
    BY <1>6, <2>3
<1>8. /\ SumFunctionOnSet(f, T) = f[c] + SumFunctionOnSet(f, T \ {c})
      /\ SumFunctionOnSet(g, T) = g[c] + SumFunctionOnSet(g, T \ {c})
  BY <1>0, SumOnRemove
<1>9. SumFunctionOnSet(f, T \ {c}) \in Int /\ SumFunctionOnSet(g, T \ {c}) \in Int
  BY <1>0, <1>6, SumOnType
<1>10. QED
  BY <1>3, <1>7, <1>8, <1>9

LEMMA SumOnEqual ==
    ASSUME NEW S, IsFiniteSet(S), NEW f, NEW g, \A x \in S : f[x] \in Int /\ g[x] = f[x]
    PROVE  SumFunctionOnSet(g, S) = SumFunctionOnSet(f, S)
<1>1. \A x \in S : f[x] <= g[x] /\ g[x] <= f[x] /\ g[x] \in Int
  OBVIOUS
<1>2. SumFunctionOnSet(f, S) <= SumFunctionOnSet(g, S) /\ SumFunctionOnSet(g, S) <= SumFunctionOnSet(f, S)
  BY <1>1, SumOnMonotone
<1>3. SumFunctionOnSet(f, S) \in Int /\ SumFunctionOnSet(g, S) \in Int
  BY <1>1, SumOnType
<1>4. QED
  BY <1>2, <1>3

\* A sum of zeros, and of naturals.
LEMMA SumOnZeros ==
    ASSUME NEW S, IsFiniteSet(S)
    PROVE  SumFunctionOnSet([x \in S |-> 0], S) = 0
<1> DEFINE zero == [x \in S |-> 0]
           N == {Cardinality(T) : T \in {U \in SUBSET S : SumFunctionOnSet(zero, U) # 0}}
<1>0. \A T \in SUBSET S : IsFiniteSet(T) /\ Cardinality(T) \in Nat
  BY FS_Subset, FS_CardinalityType
<1>1. SUFFICES ASSUME N # {}
               PROVE  FALSE
  BY <1>1
<1>2. PICK n \in N : \A k \in N : n <= k
  <2>1. N \subseteq Nat
    BY <1>0
  <2> HIDE DEF N
  <2> QED BY <1>1, <2>1, LeastNatural
<1>3. PICK T \in SUBSET S : SumFunctionOnSet(zero, T) # 0 /\ n = Cardinality(T)
  BY <1>2
<1>4. T # {}
  BY <1>3, SumOnEmpty
<1>5. PICK c \in T : TRUE
  BY <1>4
<1>6. T \ {c} \in SUBSET S /\ Cardinality(T \ {c}) = n - 1 /\ n \in Nat
  BY <1>0, <1>3, FS_RemoveElement
<1>7. SumFunctionOnSet(zero, T \ {c}) = 0
  <2>1. SUFFICES ASSUME SumFunctionOnSet(zero, T \ {c}) # 0
                 PROVE  FALSE
    OBVIOUS
  <2>2. Cardinality(T \ {c}) \in N
    BY <1>6, <2>1
  <2>3. n <= Cardinality(T \ {c})
    <3> HIDE DEF N
    <3> QED BY <1>2, <2>2
  <2>4. QED
    BY <1>6, <2>3
<1>8. zero[c] = 0 /\ \A x \in T : zero[x] \in Int
  OBVIOUS
<1> HIDE DEF zero
<1>9. SumFunctionOnSet(zero, T) = zero[c] + SumFunctionOnSet(zero, T \ {c})
  BY <1>0, <1>8, SumOnRemove
<1>10. QED
  BY <1>3, <1>7, <1>8, <1>9

LEMMA SumOnNat ==
    ASSUME NEW S, IsFiniteSet(S), NEW f, \A x \in S : f[x] \in Nat
    PROVE  SumFunctionOnSet(f, S) \in Nat
<1> DEFINE zero == [x \in S |-> 0]
<1>1. SumFunctionOnSet(zero, S) = 0
  BY SumOnZeros
<1>2. \A x \in S : zero[x] \in Int /\ f[x] \in Int /\ zero[x] <= f[x]
  OBVIOUS
<1> HIDE DEF zero
<1>3. SumFunctionOnSet(zero, S) <= SumFunctionOnSet(f, S)
  BY <1>2, SumOnMonotone
<1>4. SumFunctionOnSet(f, S) \in Int
  BY <1>2, SumOnType
<1>5. QED
  BY <1>1, <1>3, <1>4

\* An element that changes, comes or goes.
LEMMA SumOnChange ==
    ASSUME NEW S, IsFiniteSet(S), NEW T, IsFiniteSet(T), NEW a, S \ {a} = T \ {a},
           NEW f, \A x \in S : f[x] \in Int, NEW g, \A x \in T : g[x] \in Int,
           \A x \in S \ {a} : g[x] = f[x]
    PROVE  SumFunctionOnSet(g, T) = SumFunctionOnSet(f, S) - (IF a \in S THEN f[a] ELSE 0)
                                                           + (IF a \in T THEN g[a] ELSE 0)
<1> DEFINE R == S \ {a}
<1>1. IsFiniteSet(R) /\ R \subseteq S /\ R \subseteq T
  BY FS_RemoveElement
<1>2. ASSUME NEW U, IsFiniteSet(U), U \ {a} = R, NEW h, \A x \in U : h[x] \in Int
      PROVE  SumFunctionOnSet(h, U) = SumFunctionOnSet(h, R) + (IF a \in U THEN h[a] ELSE 0)
  <2>1. CASE a \in U
    <3>1. SumFunctionOnSet(h, U) = h[a] + SumFunctionOnSet(h, U \ {a}) /\ h[a] \in Int
      BY <1>2, <2>1, SumOnRemove
    <3>2. SumFunctionOnSet(h, R) \in Int
      BY <1>1, <1>2, SumOnType
    <3> DEFINE rest == SumFunctionOnSet(h, R)
    <3>3. SumFunctionOnSet(h, U) = h[a] + rest
      BY <1>2, <3>1, Zenon
    <3> HIDE DEF rest
    <3>4. h[a] + rest = rest + h[a]
      BY <3>1, <3>2 DEF rest
    <3>5. QED
      BY <2>1, <3>3, <3>4 DEF rest
  <2>2. CASE a \notin U
    <3>1. U = R
      BY <1>2, <2>2
    <3>2. SumFunctionOnSet(h, R) \in Int
      BY <1>1, <1>2, SumOnType
    <3>3. QED
      BY <2>2, <3>1, <3>2
  <2>3. QED
    BY <2>1, <2>2
<1>3. SumFunctionOnSet(f, S) = SumFunctionOnSet(f, R) + (IF a \in S THEN f[a] ELSE 0)
  BY <1>2
<1>4. SumFunctionOnSet(g, T) = SumFunctionOnSet(g, R) + (IF a \in T THEN g[a] ELSE 0)
  BY <1>2
<1>5. SumFunctionOnSet(g, R) = SumFunctionOnSet(f, R) /\ SumFunctionOnSet(f, R) \in Int
  BY <1>1, SumOnEqual, SumOnType
<1>6. (IF a \in S THEN f[a] ELSE 0) \in Int /\ (IF a \in T THEN g[a] ELSE 0) \in Int
  OBVIOUS
<1> HIDE DEF R
<1>7. QED
  BY <1>3, <1>4, <1>5, <1>6

\* The sum of the opposites is the opposite of the sum.
LEMMA SumOnNegated ==
    ASSUME NEW S, IsFiniteSet(S), NEW f, NEW g, \A x \in S : f[x] \in Int /\ g[x] = -f[x]
    PROVE  SumFunctionOnSet(g, S) = -SumFunctionOnSet(f, S)
<1> DEFINE IsWrong(T) == SumFunctionOnSet(g, T) # -SumFunctionOnSet(f, T)
           N == {Cardinality(T) : T \in {U \in SUBSET S : IsWrong(U)}}
<1>0. \A T \in SUBSET S : IsFiniteSet(T) /\ Cardinality(T) \in Nat
  BY FS_Subset, FS_CardinalityType
<1>1. SUFFICES ASSUME N # {}
               PROVE  FALSE
  BY <1>1
<1>2. PICK n \in N : \A k \in N : n <= k
  <2>1. N \subseteq Nat
    BY <1>0
  <2> HIDE DEF N
  <2> QED BY <1>1, <2>1, LeastNatural
<1>3. PICK T \in SUBSET S : IsWrong(T) /\ n = Cardinality(T)
  BY <1>2
<1>4. T # {}
  <2>1. SumFunctionOnSet(f, {}) = 0 /\ SumFunctionOnSet(g, {}) = 0
    BY SumOnEmpty
  <2>2. QED
    BY <1>3, <2>1
<1>5. PICK c \in T : TRUE
  BY <1>4
<1>6. T \ {c} \in SUBSET S /\ Cardinality(T \ {c}) = n - 1 /\ n \in Nat
  BY <1>0, <1>3, FS_RemoveElement
<1>7. ~ IsWrong(T \ {c})
  <2>1. SUFFICES ASSUME IsWrong(T \ {c})
                 PROVE  FALSE
    OBVIOUS
  <2>2. Cardinality(T \ {c}) \in N
    BY <1>6, <2>1
  <2>3. n <= Cardinality(T \ {c})
    <3> HIDE DEF N
    <3> QED BY <1>2, <2>2
  <2>4. QED
    BY <1>6, <2>3
<1>8. /\ SumFunctionOnSet(f, T) = f[c] + SumFunctionOnSet(f, T \ {c})
      /\ SumFunctionOnSet(g, T) = g[c] + SumFunctionOnSet(g, T \ {c})
  <2>1. \A x \in T : f[x] \in Int /\ g[x] \in Int
    OBVIOUS
  <2> QED BY <1>0, <2>1, SumOnRemove
<1>9. /\ SumFunctionOnSet(f, T \ {c}) \in Int /\ SumFunctionOnSet(g, T \ {c}) \in Int
      /\ f[c] \in Int /\ g[c] = -f[c]
  BY <1>0, <1>6, SumOnType
<1> DEFINE F == SumFunctionOnSet(f, T \ {c})
           G == SumFunctionOnSet(g, T \ {c})
<1>10. /\ SumFunctionOnSet(g, T) # -SumFunctionOnSet(f, T) /\ G = -F
       /\ SumFunctionOnSet(f, T) = f[c] + F /\ SumFunctionOnSet(g, T) = -f[c] + G
  BY <1>3, <1>7, <1>8, <1>9
<1>11. F \in Int /\ G \in Int /\ f[c] \in Int
  BY <1>9
<1> HIDE DEF F, G, N
<1>12. -f[c] + G = -(f[c] + F)
  BY <1>10, <1>11
<1>13. QED
  BY <1>10, <1>12

\* What is positive on S is somewhere on T, and each of T is so but once.
LEMMA SumOnInjection ==
    ASSUME NEW S, IsFiniteSet(S), NEW f, \A x \in S : f[x] \in Int,
           NEW T, IsFiniteSet(T), NEW g, \A y \in T : g[y] \in Nat,
           NEW e, \A x \in S : f[x] > 0 => e[x] \in T /\ f[x] <= g[e[x]],
           \A x, y \in S : f[x] > 0 /\ f[y] > 0 /\ e[x] = e[y] => x = y
    PROVE  SumFunctionOnSet(f, S) <= SumFunctionOnSet(g, T)
<1> DEFINE Maps(U, V) == \A x \in U : f[x] > 0 => e[x] \in V
           IsWrong(U) == \E V \in SUBSET T : Maps(U, V)
                           /\ ~ (SumFunctionOnSet(f, U) <= SumFunctionOnSet(g, V))
           N == {Cardinality(U) : U \in {W \in SUBSET S : IsWrong(W)}}
<1>0. /\ \A U \in SUBSET S : IsFiniteSet(U) /\ Cardinality(U) \in Nat
      /\ \A V \in SUBSET T : IsFiniteSet(V)
  BY FS_Subset, FS_CardinalityType
<1>a. /\ \A U \in SUBSET S : SumFunctionOnSet(f, U) \in Int
      /\ \A V \in SUBSET T : SumFunctionOnSet(g, V) \in Nat
  <2>1. ASSUME NEW U \in SUBSET S PROVE SumFunctionOnSet(f, U) \in Int
    BY <1>0, SumOnType
  <2>2. ASSUME NEW V \in SUBSET T PROVE SumFunctionOnSet(g, V) \in Nat
    BY <1>0, SumOnNat
  <2> QED BY <2>1, <2>2
<1>1. SUFFICES ASSUME N # {}
               PROVE  FALSE
  <2>1. N = {} => ~IsWrong(S)
    OBVIOUS
  <2>2. Maps(S, T)
    OBVIOUS
  <2> QED BY <1>1, <2>1, <2>2
<1>2. PICK n \in N : \A k \in N : n <= k
  <2>1. N \subseteq Nat
    BY <1>0
  <2> HIDE DEF N
  <2> QED BY <1>1, <2>1, LeastNatural
<1>3. PICK U \in SUBSET S : IsWrong(U) /\ n = Cardinality(U)
  BY <1>2
<1>4. PICK V \in SUBSET T : Maps(U, V) /\ ~ (SumFunctionOnSet(f, U) <= SumFunctionOnSet(g, V))
  BY <1>3
<1>5. U # {}
  <2>1. SumFunctionOnSet(f, {}) = 0
    BY SumOnEmpty
  <2>2. SumFunctionOnSet(g, V) >= 0
    BY <1>a
  <2> QED BY <1>4, <2>1, <2>2
<1>6. PICK c \in U : TRUE
  BY <1>5
<1>7. U \ {c} \in SUBSET S /\ Cardinality(U \ {c}) = n - 1 /\ n \in Nat
  BY <1>0, <1>3, FS_RemoveElement
<1>8. ASSUME NEW W \in SUBSET T, Maps(U \ {c}, W)
      PROVE  SumFunctionOnSet(f, U \ {c}) <= SumFunctionOnSet(g, W)
  <2>1. SUFFICES ASSUME IsWrong(U \ {c})
                 PROVE  FALSE
    BY <1>8
  <2>2. Cardinality(U \ {c}) \in N
    BY <1>7, <2>1
  <2>3. n <= Cardinality(U \ {c})
    <3> HIDE DEF N
    <3> QED BY <1>2, <2>2
  <2>4. QED
    BY <1>7, <2>3
<1>9. SumFunctionOnSet(f, U) = f[c] + SumFunctionOnSet(f, U \ {c}) /\ f[c] \in Int
  BY <1>0, SumOnRemove
<1>10. CASE ~(f[c] > 0)
  <2>1. SumFunctionOnSet(f, U \ {c}) <= SumFunctionOnSet(g, V)
    BY <1>4, <1>8
  <2> QED BY <1>4, <1>7, <1>9, <1>10, <1>a, <2>1
<1>11. CASE f[c] > 0
  <2> DEFINE W == V \ {e[c]}
  <2>1. e[c] \in V /\ f[c] <= g[e[c]] /\ g[e[c]] \in Nat
    BY <1>4, <1>11
  <2>2. W \in SUBSET T /\ Maps(U \ {c}, W)
    BY <1>4, <1>11
  <2>3. SumFunctionOnSet(f, U \ {c}) <= SumFunctionOnSet(g, W)
    BY <1>8, <2>2
  <2>4. SumFunctionOnSet(g, V) = g[e[c]] + SumFunctionOnSet(g, W)
    <3>1. \A y \in V : g[y] \in Int
      OBVIOUS
    <3> QED BY <1>0, <2>1, <3>1, SumOnRemove
  <2>5. SumFunctionOnSet(g, W) \in Int /\ SumFunctionOnSet(f, U \ {c}) \in Int
    BY <1>7, <1>a, <2>2
  <2> HIDE DEF W, IsWrong, N
  <2> QED BY <1>4, <1>9, <2>1, <2>3, <2>4, <2>5
<1>12. QED
  BY <1>10, <1>11

===============================================================================
