----------------------------- MODULE ListLemmas -----------------------------
(***************************************************************************)
(* Facts about numbers, finite sets and lists that the proofs of several   *)
(* components need.                                                        *)
(***************************************************************************)
EXTENDS Integers, Sequences, FiniteSets, FiniteSetsExt, SequencesExt,
        FiniteSetTheorems, SequenceTheorems, WellFoundedInduction, TLAPS

-----------------------------------------------------------------------------
(* Products and remainders.                                                *)

\* Quotient and remainder.
LEMMA ModParts ==
    ASSUME NEW a \in Nat, NEW m \in Nat \ {0}
    PROVE  /\ a \div m \in Nat /\ a % m \in 0 .. m - 1
           /\ a = m * (a \div m) + (a % m)
OBVIOUS

\* Two numbers less than m apart with the same remainder are equal.
LEMMA ModInjective ==
    ASSUME NEW a \in Nat, NEW b \in Nat, NEW m \in Nat \ {0},
           b <= a, a - b < m, a % m = b % m
    PROVE  a = b
<1> DEFINE p == a \div m
           q == b \div m
<1>1. p \in Nat /\ q \in Nat /\ a = m * p + (a % m) /\ b = m * q + (b % m)
  BY ModParts
<1>2. a - b = m * p - m * q
  BY <1>1
<1>3. m * p - m * q = m * (p - q)
  BY <1>1
<1>4. CASE p > q
  <2>1. m * (p - q) >= m
    BY <1>1, <1>4
  <2> QED BY <1>2, <1>3, <2>1
<1>5. CASE p < q
  <2>1. m * (q - p) >= m
    BY <1>1, <1>5
  <2>2. m * (q - p) = m * q - m * p
    BY <1>1
  <2> QED BY <1>2, <2>1, <2>2
<1>6. CASE p = q
  BY <1>1, <1>6
<1> QED BY <1>1, <1>4, <1>5, <1>6

\* A product with a natural number is monotone.
LEMMA TimesMonotone ==
    ASSUME NEW n \in Nat, NEW a \in Int, NEW b \in Int, a <= b
    PROVE  n * a \in Int /\ n * b \in Int /\ n * a <= n * b
<1>1. PICK d \in Nat : d = b - a
  OBVIOUS
<1>2. n * d \in Nat /\ n * a \in Int /\ n * b \in Int
  OBVIOUS
<1>3. n * b = n * a + n * d
  BY <1>1
<1> QED BY <1>2, <1>3

\* A remainder determines the remainder modulo every divisor.
LEMMA ModOfMod ==
    ASSUME NEW a \in Nat, NEW k \in Nat \ {0}, NEW m \in Nat \ {0}, k % m = 0
    PROVE  (a % k) % m = a % m
<1> DEFINE p == a \div k
           r == a % k
           q == k \div m
           u == r \div m
           w == a \div m
<1>1. p \in Nat /\ r \in Nat /\ a = k * p + r
  BY ModParts
<1>2. q \in Nat /\ k = m * q + 0
  BY ModParts
<1>3. u \in Nat /\ r % m \in 0 .. m - 1 /\ r = m * u + (r % m)
  BY <1>1, ModParts
<1>4. w \in Nat /\ a % m \in 0 .. m - 1 /\ a = m * w + (a % m)
  BY ModParts
<1> HIDE DEF p, r, q, u, w
<1>5. k * p = m * (q * p) /\ q * p \in Nat
  BY <1>1, <1>2
<1>6. PICK z \in Nat : z = q * p + u
  BY <1>3, <1>5
<1>7. m * z = m * (q * p) + m * u
  BY <1>3, <1>5, <1>6
<1>8. a = m * z + (r % m)
  <2>1. m * (q * p) \in Nat /\ m * u \in Nat
    BY <1>3, <1>5
  <2> QED BY <1>1, <1>3, <1>5, <1>7, <2>1
<1>9. m * z - m * w = (a % m) - (r % m)
  BY <1>3, <1>4, <1>8
<1>10. CASE z > w
  <2>1. m * (z - w) >= m /\ m * (z - w) = m * z - m * w
    BY <1>4, <1>10
  <2> QED BY <1>3, <1>4, <1>9, <2>1
<1>11. CASE z < w
  <2>1. m * (w - z) >= m /\ m * (w - z) = m * w - m * z
    BY <1>4, <1>11
  <2> QED BY <1>3, <1>4, <1>9, <2>1
<1>12. CASE z = w
  BY <1>3, <1>4, <1>9, <1>12 DEF r
<1> QED BY <1>4, <1>10, <1>11, <1>12

-----------------------------------------------------------------------------
(* Sets of natural numbers.                                                *)

\* Every nonempty set of naturals has a least element.
LEMMA LeastExists ==
    ASSUME NEW T \in SUBSET Nat, T # {}
    PROVE  \E x \in T : \A y \in T : x <= y
<1> DEFINE R == OpToRel(<, Nat)
<1>1. IsWellFoundedOn(R, Nat)
  BY NatLessThanWellFounded
<1>2. \A x, y \in Nat : x < y => <<x, y>> \in R
  BY DEF OpToRel
<1> HIDE DEF R
<1>3. PICK x \in T : \A y \in T : ~ (<<y, x>> \in R)
  BY <1>1, WFMin
<1>4. ASSUME NEW y \in T PROVE x <= y
  <2>1. x \in Nat /\ y \in Nat /\ ~ (y < x)
    BY <1>2, <1>3
  <2> QED BY <2>1
<1> QED BY <1>4

\* Every nonempty bounded set of naturals has a greatest element.
LEMMA GreatestExists ==
    ASSUME NEW b \in Nat, NEW T \in SUBSET (0 .. b), T # {}
    PROVE  \E x \in T : \A y \in T : x >= y
<1> DEFINE U == {b - x : x \in T}
<1>1. U \in SUBSET Nat /\ U # {}
  <2>1. \A x \in T : b - x \in Nat
    OBVIOUS
  <2> QED BY <2>1
<1>2. PICK u \in U : \A v \in U : u <= v
  <2> HIDE DEF U
  <2> QED BY <1>1, LeastExists
<1>3. PICK x \in T : u = b - x
  BY <1>2
<1>4. ASSUME NEW y \in T PROVE x >= y
  <2>1. b - x <= b - y
    BY <1>2, <1>3
  <2>2. x \in Int /\ y \in Int
    OBVIOUS
  <2> QED BY <2>1, <2>2
<1> QED BY <1>4

\* What Min returns.
LEMMA MinFacts ==
    ASSUME NEW T \in SUBSET Nat, T # {}
    PROVE  Min(T) \in T /\ \A y \in T : Min(T) <= y
BY LeastExists DEF Min

\* What Max returns.
LEMMA MaxFacts ==
    ASSUME NEW b \in Nat, NEW T \in SUBSET (0 .. b), T # {}
    PROVE  Max(T) \in T /\ \A y \in T : Max(T) >= y
BY GreatestExists DEF Max

\* The greatest of two.
LEMMA MaxOfTwo ==
    ASSUME NEW a \in Nat, NEW b \in Nat
    PROVE  Max({a, b}) = IF a >= b THEN a ELSE b
<1> DEFINE m == IF a >= b THEN a ELSE b
           P(x) == x \in {a, b} /\ \A y \in {a, b} : x >= y
<1>1. Max({a, b}) = CHOOSE x \in {a, b} : \A y \in {a, b} : x >= y
  BY DEF Max
<1>2. m \in {a, b} /\ \A y \in {a, b} : m >= y
  OBVIOUS
<1>3. \A x \in {a, b} : (\A y \in {a, b} : x >= y) => x = m
  OBVIOUS
<1> HIDE DEF m
<1>4. QED BY <1>1, <1>2, <1>3

\* How many numbers there are up to n.
LEMMA CountUpTo ==
    ASSUME NEW n \in Nat
    PROVE  IsFiniteSet(1 .. n) /\ Cardinality(1 .. n) = n
BY FS_Interval

\* Induction up to a bound, for what a set of numbers collects.
LEMMA CountInduction ==
    ASSUME NEW N \in Nat, NEW T, 0 \in T,
           \A n \in 1 .. N : n - 1 \in T => n \in T
    PROVE  \A n \in 0 .. N : n \in T
<1> DEFINE U == {n \in 0 .. N : n \notin T}
<1>1. SUFFICES ASSUME U # {} PROVE FALSE
  OBVIOUS
<1>2. U \in SUBSET Nat
  OBVIOUS
<1>3. PICK x \in U : \A y \in U : x <= y
  <2> HIDE DEF U
  <2> QED BY <1>1, <1>2, LeastExists
<1>4. x \in 1 .. N /\ x - 1 \in 0 .. N
  BY <1>3
<1>5. x - 1 \notin U
  <2> HIDE DEF U
  <2> QED BY <1>3, <1>4
<1> QED BY <1>3, <1>4, <1>5

\* F makes a value of V from the one before, N times.
StepsOn(F, N, V) == F \in [1 .. N -> [V -> V]]

\* g lists the values, from v on.
Follows(g, F, N, V, v) ==
    /\ g \in [0 .. N -> V] /\ g[0] = v
    /\ \A n \in 1 .. N : g[n] = F[n][g[n - 1]]

\* What is defined by going from one number to the next exists.
LEMMA StepByStep ==
    ASSUME NEW V, NEW N \in Nat, NEW v \in V, NEW F, StepsOn(F, N, V)
    PROVE  \E g : Follows(g, F, N, V, v)
<1> USE DEF StepsOn
<1> DEFINE D(n, g) == g[0] = v /\ \A k \in 1 .. n : g[k] = F[k][g[k - 1]]
           T == {n \in 0 .. N : \E g \in [0 .. n -> V] : D(n, g)}
<1>1. 0 \in T
  <2> DEFINE g == [k \in 0 .. 0 |-> v]
  <2>1. g \in [0 .. 0 -> V] /\ D(0, g)
    OBVIOUS
  <2> HIDE DEF D, g
  <2> QED BY <2>1
<1>2. ASSUME NEW n \in 1 .. N, n - 1 \in T PROVE n \in T
  <2>1. PICK g \in [0 .. n - 1 -> V] : D(n - 1, g)
    BY <1>2
  <2> DEFINE w == F[n][g[n - 1]]
             h == [k \in 0 .. n |-> IF k = n THEN w ELSE g[k]]
  <2>2. n - 1 \in 0 .. n - 1 /\ g[n - 1] \in V
    OBVIOUS
  <2>3. w \in V
    BY <2>2
  <2> HIDE DEF w
  <2>4. h \in [0 .. n -> V]
    BY <2>3
  <2>5. h[0] = v
    BY <2>1
  <2>6. ASSUME NEW k \in 1 .. n PROVE h[k] = F[k][h[k - 1]]
    <3>1. k - 1 \in 0 .. n /\ k - 1 # n /\ k \in 0 .. n
      OBVIOUS
    <3>2. h[k - 1] = g[k - 1]
      BY <3>1
    <3>3. CASE k = n
      BY <3>2, <3>3 DEF w
    <3>4. CASE k # n
      <4>1. k \in 1 .. n - 1 /\ h[k] = g[k]
        BY <3>1, <3>4
      <4> QED BY <2>1, <3>2, <4>1
    <3> QED BY <3>3, <3>4
  <2> HIDE DEF h
  <2>7. D(n, h)
    BY <2>5, <2>6
  <2> HIDE DEF D
  <2> QED BY <2>4, <2>7
<1>3. N \in 0 .. N
  OBVIOUS
<1> HIDE DEF T
<1>4. N \in T
  BY <1>1, <1>2, <1>3, CountInduction
<1>5. PICK g \in [0 .. N -> V] : D(N, g)
  <2> HIDE DEF D
  <2> QED BY <1>4 DEF T
<1>6. Follows(g, F, N, V, v)
  BY <1>5 DEF Follows
<1> QED BY <1>6

\* What is taken out of a finite set is no longer counted.
LEMMA CardDiff ==
    ASSUME NEW A, IsFiniteSet(A), NEW B \in SUBSET A
    PROVE  /\ Cardinality(A \ B) = Cardinality(A) - Cardinality(B)
           /\ Cardinality(A) \in Nat /\ Cardinality(B) \in Nat /\ Cardinality(B) <= Cardinality(A)
<1>1. IsFiniteSet(B) /\ IsFiniteSet(A \ B) /\ Cardinality(B) <= Cardinality(A)
  <2>1. A \ B \in SUBSET A
    OBVIOUS
  <2> QED BY <2>1, FS_Subset
<1>2. Cardinality((A \ B) \cup B) = Cardinality(A \ B) + Cardinality(B) - Cardinality((A \ B) \cap B)
  BY <1>1, FS_Union
<1>3. (A \ B) \cup B = A /\ (A \ B) \cap B = {}
  OBVIOUS
<1>4. Cardinality({}) = 0
  BY FS_EmptySet
<1>5. Cardinality(A) \in Nat /\ Cardinality(B) \in Nat /\ Cardinality(A \ B) \in Nat
  BY <1>1, FS_CardinalityType
<1>6. Cardinality(A) = Cardinality(A \ B) + Cardinality(B) - 0
  <2>1. Cardinality(A) = Cardinality(A \ B) + Cardinality(B) - Cardinality({})
    BY <1>2, <1>3
  <2> QED BY <1>4, <2>1
<1> QED BY <1>1, <1>5, <1>6

-----------------------------------------------------------------------------
(* Lists.                                                                  *)

\* Inserting an element: what comes before it stays, what follows moves up.
LEMMA InsertAtFacts ==
    ASSUME NEW S, NEW s \in Seq(S), NEW i \in 1 .. Len(s) + 1, NEW e \in S
    PROVE  /\ InsertAt(s, i, e) \in Seq(S)
           /\ Len(InsertAt(s, i, e)) = Len(s) + 1
           /\ \A j \in 1 .. Len(s) + 1 :
                InsertAt(s, i, e)[j] = IF j < i THEN s[j]
                                       ELSE IF j = i THEN e ELSE s[j - 1]
<1> DEFINE a == SubSeq(s, 1, i - 1)
           b == SubSeq(s, i, Len(s))
           n == Len(s)
<1>0. n \in Nat /\ i \in Nat /\ \A j \in 1 .. n : s[j] \in S
  BY ElementOfSeq
<1>1. a \in Seq(S) /\ Len(a) = i - 1 /\ \A j \in 1 .. i - 1 : a[j] = s[j]
  BY <1>0, SubSeqProperties
<1>2. b \in Seq(S) /\ Len(b) = n - i + 1 /\ \A j \in 1 .. n - i + 1 : b[j] = s[i + j - 1]
  BY <1>0, SubSeqProperties
<1>3. <<e>> \in Seq(S) /\ Len(<<e>>) = 1 /\ <<e>>[1] = e
  OBVIOUS
<1> DEFINE c == a \o <<e>>
<1> HIDE DEF a, b, n
<1>4. c \in Seq(S) /\ Len(c) = i /\ \A j \in 1 .. i : c[j] = IF j < i THEN s[j] ELSE e
  <2>1. c \in Seq(S) /\ Len(c) = Len(a) + 1
    BY <1>1, <1>3, ConcatProperties
  <2>2. \A j \in 1 .. Len(a) + 1 : c[j] = IF j <= Len(a) THEN a[j] ELSE <<e>>[j - Len(a)]
    BY <1>1, <1>3, ConcatProperties
  <2>3. ASSUME NEW j \in 1 .. i PROVE c[j] = IF j < i THEN s[j] ELSE e
    <3> HIDE DEF c
    <3>1. CASE j < i
      BY <1>0, <1>1, <2>2, <3>1
    <3>2. CASE j = i
      <4>1. j - Len(a) = 1 /\ ~ (j <= Len(a)) /\ j \in 1 .. Len(a) + 1
        BY <1>0, <1>1, <3>2
      <4> QED BY <1>3, <2>2, <3>2, <4>1
    <3> QED BY <1>0, <3>1, <3>2
  <2> HIDE DEF c
  <2> QED BY <1>0, <1>1, <2>1, <2>3
<1>5. InsertAt(s, i, e) = c \o b
  BY DEF InsertAt, a, b
<1> HIDE DEF c
<1>6. c \o b \in Seq(S) /\ Len(c \o b) = Len(c) + Len(b)
  BY <1>2, <1>4, ConcatProperties
<1>7. \A j \in 1 .. Len(c) + Len(b) : (c \o b)[j] = IF j <= Len(c) THEN c[j] ELSE b[j - Len(c)]
  BY <1>2, <1>4, ConcatProperties
<1>8. ASSUME NEW j \in 1 .. n + 1
      PROVE  (c \o b)[j] = IF j < i THEN s[j] ELSE IF j = i THEN e ELSE s[j - 1]
  <2>0. j \in Int /\ i \in Int
    BY <1>0
  <2>1. (c \o b)[j] = IF j <= i THEN c[j] ELSE b[j - i]
    BY <1>0, <1>2, <1>4, <1>7
  <2>2. CASE j <= i
    BY <1>0, <1>4, <2>1, <2>2
  <2>3. CASE j > i
    <3>1. j - i \in 1 .. n - i + 1 /\ i + (j - i) - 1 = j - 1
      BY <1>0, <2>3
    <3> QED BY <1>0, <1>2, <2>1, <2>3, <3>1
  <2>4. j <= i \/ j > i
    BY <2>0
  <2> QED BY <2>2, <2>3, <2>4
<1> QED BY <1>0, <1>2, <1>4, <1>5, <1>6, <1>8 DEF n

\* Removing an element: what follows moves down.
LEMMA RemoveAtFacts ==
    ASSUME NEW S, NEW s \in Seq(S), NEW i \in 1 .. Len(s)
    PROVE  /\ RemoveAt(s, i) \in Seq(S)
           /\ Len(RemoveAt(s, i)) = Len(s) - 1
           /\ \A j \in 1 .. Len(s) - 1 :
                RemoveAt(s, i)[j] = IF j < i THEN s[j] ELSE s[j + 1]
<1> DEFINE a == SubSeq(s, 1, i - 1)
           b == SubSeq(s, i + 1, Len(s))
           n == Len(s)
<1>0. n \in Nat /\ i \in Nat /\ \A j \in 1 .. n : s[j] \in S
  BY ElementOfSeq
<1>1. a \in Seq(S) /\ Len(a) = i - 1 /\ \A j \in 1 .. i - 1 : a[j] = s[j]
  BY <1>0, SubSeqProperties
<1>2. b \in Seq(S) /\ Len(b) = n - i /\ \A j \in 1 .. n - i : b[j] = s[i + j]
  BY <1>0, SubSeqProperties
<1>3. RemoveAt(s, i) = a \o b
  BY DEF RemoveAt
<1> HIDE DEF a, b, n
<1>4. a \o b \in Seq(S) /\ Len(a \o b) = Len(a) + Len(b)
  BY <1>1, <1>2, ConcatProperties
<1>5. \A j \in 1 .. Len(a) + Len(b) : (a \o b)[j] = IF j <= Len(a) THEN a[j] ELSE b[j - Len(a)]
  BY <1>1, <1>2, ConcatProperties
<1>6. ASSUME NEW j \in 1 .. n - 1
      PROVE  (a \o b)[j] = IF j < i THEN s[j] ELSE s[j + 1]
  <2>0. j \in Int /\ i \in Int
    BY <1>0
  <2>1. (a \o b)[j] = IF j <= i - 1 THEN a[j] ELSE b[j - (i - 1)]
    BY <1>0, <1>1, <1>2, <1>5
  <2>2. CASE j < i
    BY <1>0, <1>1, <2>1, <2>2
  <2>3. CASE j >= i
    <3>1. j - (i - 1) \in 1 .. n - i /\ i + (j - (i - 1)) = j + 1
      BY <1>0, <2>3
    <3> QED BY <1>0, <1>2, <2>1, <2>3, <3>1
  <2>4. j < i \/ j >= i
    BY <2>0
  <2> QED BY <2>2, <2>3, <2>4
<1> QED BY <1>0, <1>1, <1>2, <1>3, <1>4, <1>6 DEF n

\* The first n elements of a list.
LEMMA PrefixFacts ==
    ASSUME NEW S, NEW s \in Seq(S), NEW n \in 0 .. Len(s)
    PROVE  /\ SubSeq(s, 1, n) \in Seq(S)
           /\ Len(SubSeq(s, 1, n)) = n
           /\ \A i \in 1 .. n : SubSeq(s, 1, n)[i] = s[i]
<1>1. n \in Int /\ 1 \in Int /\ Len(s) \in Nat
  OBVIOUS
<1>2. \A i \in 1 .. n : s[i] \in S
  BY <1>1, ElementOfSeq
<1>3. /\ SubSeq(s, 1, n) \in Seq(S)
      /\ Len(SubSeq(s, 1, n)) = IF 1 <= n THEN n - 1 + 1 ELSE 0
      /\ \A i \in 1 .. n - 1 + 1 : SubSeq(s, 1, n)[i] = s[1 + i - 1]
  BY <1>1, <1>2, SubSeqProperties
<1>4. n - 1 + 1 = n /\ (~(1 <= n) => n = 0)
  BY <1>1
<1>5. \A i \in 1 .. n : 1 + i - 1 = i
  BY <1>1
<1> QED BY <1>3, <1>4, <1>5

\* The elements of a list behind the first m.
LEMMA RestFacts ==
    ASSUME NEW S, NEW s \in Seq(S), NEW m \in 0 .. Len(s)
    PROVE  /\ SubSeq(s, m + 1, Len(s)) \in Seq(S)
           /\ Len(SubSeq(s, m + 1, Len(s))) = Len(s) - m
           /\ \A i \in 1 .. Len(s) - m : SubSeq(s, m + 1, Len(s))[i] = s[m + i]
<1> DEFINE a == m + 1
           b == Len(s)
<1>1. a \in Int /\ b \in Int /\ m \in Int /\ m <= b /\ b - a + 1 = b - m
  OBVIOUS
<1>2. \A i \in a .. b : s[i] \in S
  BY <1>1, ElementOfSeq
<1>3. ~(a <= b) => b - m = 0
  <2>1. \A x, y \in Int : x <= y /\ ~(x + 1 <= y) => y - x = 0
    OBVIOUS
  <2> QED BY <1>1, <2>1
<1>4. \A i \in 1 .. b - m : a + i - 1 = m + i
  BY <1>1
<1> HIDE DEF a, b
<1>5. /\ SubSeq(s, a, b) \in Seq(S)
      /\ Len(SubSeq(s, a, b)) = IF a <= b THEN b - a + 1 ELSE 0
      /\ \A i \in 1 .. b - a + 1 : SubSeq(s, a, b)[i] = s[a + i - 1]
  BY <1>1, <1>2, SubSeqProperties
<1> QED BY <1>1, <1>3, <1>4, <1>5 DEF a, b

\* The list s with one element in place of those from k to m.
Splice(s, k, m, e) == SubSeq(s, 1, k - 1) \o <<e>> \o SubSeq(s, m + 1, Len(s))

\* What is before them stays, what follows moves down.
LEMMA SpliceFacts ==
    ASSUME NEW S, NEW s \in Seq(S), NEW k \in 1 .. Len(s), NEW m \in k .. Len(s),
           NEW e \in S
    PROVE  /\ Splice(s, k, m, e) \in Seq(S)
           /\ Len(Splice(s, k, m, e)) = Len(s) - m + k
           /\ \A j \in 1 .. Len(s) - m + k :
                Splice(s, k, m, e)[j] = IF j < k THEN s[j]
                                        ELSE IF j = k THEN e ELSE s[j + m - k]
<1> DEFINE a == SubSeq(s, 1, k - 1)
           b == SubSeq(s, m + 1, Len(s))
           c == a \o <<e>>
           n == Len(s)
<1>0. n \in Nat /\ k \in Nat /\ m \in Nat /\ k - 1 \in 0 .. n /\ m \in 0 .. n
  OBVIOUS
<1>1. a \in Seq(S) /\ Len(a) = k - 1 /\ \A j \in 1 .. k - 1 : a[j] = s[j]
  BY <1>0, PrefixFacts
<1>2. b \in Seq(S) /\ Len(b) = n - m /\ \A j \in 1 .. n - m : b[j] = s[m + j]
  BY <1>0, RestFacts
<1>3. <<e>> \in Seq(S) /\ Len(<<e>>) = 1 /\ <<e>>[1] = e
  OBVIOUS
<1> HIDE DEF a, b, n
<1>4. c \in Seq(S) /\ Len(c) = k
      /\ \A j \in 1 .. k : c[j] = IF j <= k - 1 THEN a[j] ELSE <<e>>[j - (k - 1)]
  BY <1>0, <1>1, <1>3, ConcatProperties
<1>5. \A j \in 1 .. k : c[j] = IF j < k THEN s[j] ELSE e
  <2>1. ASSUME NEW j \in 1 .. k, j < k PROVE c[j] = s[j]
    BY <1>0, <1>1, <1>4, <2>1
  <2>2. c[k] = e
    <3>1. k - (k - 1) = 1 /\ ~(k <= k - 1) /\ k \in 1 .. k
      BY <1>0
    <3> QED BY <1>3, <1>4, <3>1
  <2>3. \A j \in 1 .. k : j < k \/ j = k
    BY <1>0
  <2> QED BY <2>1, <2>2, <2>3
<1> HIDE DEF c
<1>6. /\ c \o b \in Seq(S) /\ Len(c \o b) = Len(c) + Len(b)
      /\ \A j \in 1 .. Len(c) + Len(b) :
            (c \o b)[j] = IF j <= Len(c) THEN c[j] ELSE b[j - Len(c)]
  BY <1>2, <1>4, ConcatProperties
<1>7. Len(c) + Len(b) = n - m + k /\ Len(c) = k
  BY <1>0, <1>2, <1>4
<1>8. ASSUME NEW j \in 1 .. n - m + k
      PROVE  (c \o b)[j] = IF j < k THEN s[j] ELSE IF j = k THEN e ELSE s[j + m - k]
  <2>0. j \in Int
    BY <1>0
  <2>1. (c \o b)[j] = IF j <= k THEN c[j] ELSE b[j - k]
    BY <1>6, <1>7
  <2>2. CASE j <= k
    <3>1. j \in 1 .. k /\ (j < k \/ j = k)
      BY <1>0, <2>0, <2>2
    <3> QED BY <1>0, <1>5, <2>1, <2>2, <3>1
  <2>3. CASE ~(j <= k)
    <3>1. j - k \in 1 .. n - m /\ m + (j - k) = j + m - k /\ ~(j < k) /\ j # k
      BY <1>0, <2>0, <2>3
    <3> QED BY <1>2, <2>1, <2>3, <3>1
  <2> QED BY <2>2, <2>3
<1>9. Splice(s, k, m, e) = c \o b
  BY DEF Splice, a, b, c
<1> QED BY <1>6, <1>7, <1>8, <1>9 DEF n

=============================================================================
