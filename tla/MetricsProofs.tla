---------------------------- MODULE MetricsProofs ----------------------------
(***************************************************************************)
(* Proofs about the metrics: what the rows of a report say of its          *)
(* executions, and what the chart and the pages say of the rows.           *)
(***************************************************************************)
EXTENDS MetricsProps, FiniteSetTheorems, NaturalsInduction, SequenceTheorems, TLAPS

(***************************************************************************)
(* Numbers and finite orders.  A property is given as the set of those that*)
(* have it, and an order as a set of pairs.                                *)
(***************************************************************************)
LEMMA Least ==
  ASSUME NEW S, S \subseteq Nat, S # {}
  PROVE  \E m \in S : \A i \in S : m <= i
<1>1. PICK m \in S : \A i \in S : <<i, m>> \notin OpToRel(<, Nat)
  BY NatLessThanWellFounded, WFMin
<1>2. \A i \in S : ~(i < m)
  BY <1>1 DEF OpToRel
<1> QED BY <1>2

\* What holds of 0, and of each number after one of which it holds, holds up to n.
LEMMA Stepwise ==
  ASSUME NEW n \in Nat, NEW T, 0 \in T, \A i \in 1 .. n : i - 1 \in T => i \in T
  PROVE  \A i \in 0 .. n : i \in T
<1> DEFINE bad == (0 .. n) \ T
<1> SUFFICES ASSUME bad # {} PROVE FALSE
  OBVIOUS
<1>1. PICK m \in bad : \A i \in bad : m <= i
  <2>1. bad \subseteq Nat
    OBVIOUS
  <2> HIDE DEF bad
  <2> QED BY <2>1, Least
<1>2. m \in 1 .. n /\ m - 1 \in 0 .. n
  OBVIOUS
<1>3. m - 1 \in T
  BY <1>1, <1>2
<1> QED BY <1>2, <1>3

\* As many different elements as S has are all of S.
LEMMA AllListed ==
  ASSUME NEW S, IsFiniteSet(S), NEW seq \in [1 .. Cardinality(S) -> S],
         \A i, j \in 1 .. Cardinality(S) : i < j => seq[i] # seq[j]
  PROVE  /\ Cardinality(S) \in Nat
         /\ \A x \in S : \E i \in 1 .. Cardinality(S) : seq[i] = x
<1> DEFINE n == Cardinality(S)
<1>1. n \in Nat
  BY FS_CardinalityType
<1>2. IsFiniteSet(1 .. n) /\ Cardinality(1 .. n) = n
  BY <1>1, FS_Interval
<1>3. seq \in Injection(1 .. n, S)
  <2> HIDE DEF n
  <2>1. ASSUME NEW i \in 1 .. n, NEW j \in 1 .. n, seq[i] = seq[j] PROVE i = j
    <3>1. ~(i < j) /\ ~(j < i)
      BY <2>1 DEF n
    <3> QED BY <1>1, <3>1
  <2> QED BY <2>1 DEF Injection, IsInjective, n
<1>4. seq \in Surjection(1 .. n, S)
  BY <1>2, <1>3, FS_Injection
<1> QED BY <1>1, <1>4 DEF Surjection

\* A finite set can be listed in the order of R: each element at the place given by
\* how many are before it.
LEMMA Listable ==
  ASSUME NEW S, IsFiniteSet(S), NEW R,
         \A x \in S : <<x, x>> \notin R,
         \A x, y, z \in S : <<x, y>> \in R /\ <<y, z>> \in R => <<x, z>> \in R,
         \A x, y \in S : x = y \/ <<x, y>> \in R \/ <<y, x>> \in R
  PROVE  \E seq \in [1 .. Cardinality(S) -> S] :
           \A i, j \in 1 .. Cardinality(S) : i < j => <<seq[i], seq[j]>> \in R
<1> DEFINE n == Cardinality(S)
           Below(x) == {y \in S : <<y, x>> \in R}
           place == [x \in S |-> Cardinality(Below(x)) + 1]
<1>1. n \in Nat
  BY FS_CardinalityType
<1>2. \A x \in S : IsFiniteSet(Below(x)) /\ Cardinality(Below(x)) \in Nat
  BY FS_Subset, FS_CardinalityType
<1>3. ASSUME NEW x \in S, NEW y \in S, <<x, y>> \in R
      PROVE  place[x] < place[y]
  <2>1. Below(x) \subseteq Below(y) /\ x \in Below(y) /\ x \notin Below(x)
    BY <1>3
  <2> HIDE DEF Below
  <2>2. Cardinality(Below(x)) <= Cardinality(Below(y))
    BY <1>2, <2>1, FS_Subset
  <2>3. Cardinality(Below(x)) # Cardinality(Below(y))
    BY <1>2, <2>1, FS_Subset
  <2> QED BY <1>2, <2>2, <2>3
<1>4. ASSUME NEW x \in S PROVE place[x] \in 1 .. n
  <2>1. Below(x) \subseteq S /\ x \notin Below(x)
    OBVIOUS
  <2> HIDE DEF Below
  <2>2. Cardinality(Below(x)) <= n /\ Cardinality(Below(x)) # n
    BY <2>1, FS_Subset
  <2> QED BY <1>1, <1>2, <2>2
<1> HIDE DEF place
<1>5. place \in Injection(S, 1 .. n)
  <2>1. place \in [S -> 1 .. n]
    BY <1>4 DEF place
  <2>2. ASSUME NEW x \in S, NEW y \in S, place[x] = place[y] PROVE x = y
    <3>1. place[x] \in Nat /\ place[y] \in Nat
      BY <1>1, <1>4
    <3>2. <<x, y>> \notin R /\ <<y, x>> \notin R
      BY <1>3, <2>2, <3>1
    <3> QED BY <3>2
  <2> QED BY <2>1, <2>2 DEF Injection, IsInjective
<1>6. place \in Surjection(S, 1 .. n)
  <2>1. IsFiniteSet(1 .. n) /\ Cardinality(1 .. n) = n
    BY <1>1, FS_Interval
  <2> QED BY <1>5, <2>1, FS_Injection
<1> DEFINE seq == [i \in 1 .. n |-> CHOOSE x \in S : place[x] = i]
<1>7. \A i \in 1 .. n : seq[i] \in S /\ place[seq[i]] = i
  BY <1>6 DEF Surjection
<1> HIDE DEF seq
<1>8. seq \in [1 .. n -> S]
  BY <1>7 DEF seq
<1>9. ASSUME NEW i \in 1 .. n, NEW j \in 1 .. n, i < j PROVE <<seq[i], seq[j]>> \in R
  <2>1. seq[i] # seq[j] /\ ~(place[seq[j]] < place[seq[i]])
    BY <1>1, <1>7, <1>9
  <2> QED BY <1>3, <1>7, <2>1
<1> QED BY <1>8, <1>9

LEMMA NumbersListable ==
  ASSUME NEW S, IsFiniteSet(S), S \subseteq Int
  PROVE  \E seq \in [1 .. Cardinality(S) -> S] :
           \A i, j \in 1 .. Cardinality(S) : i < j => seq[i] < seq[j]
<1> DEFINE R == {xy \in S \X S : xy[1] < xy[2]}
<1>1. /\ \A x \in S : <<x, x>> \notin R
      /\ \A x, y, z \in S : <<x, y>> \in R /\ <<y, z>> \in R => <<x, z>> \in R
      /\ \A x, y \in S : x = y \/ <<x, y>> \in R \/ <<y, x>> \in R
  OBVIOUS
<1>2. \A x, y \in S : <<x, y>> \in R => x < y
  OBVIOUS
<1> HIDE DEF R
<1>3. PICK seq \in [1 .. Cardinality(S) -> S] :
             \A i, j \in 1 .. Cardinality(S) : i < j => <<seq[i], seq[j]>> \in R
  BY <1>1, Listable
<1> QED BY <1>2, <1>3

\* A set of numbers in order, as a sequence.
LEMMA NumbersInOrder ==
  ASSUME NEW S, IsFiniteSet(S), S \subseteq Int, NEW seq, seq = Ascending(S)
  PROVE  /\ seq \in Seq(S) /\ Len(seq) = Cardinality(S) /\ DOMAIN seq = 1 .. Len(seq)
         /\ \A i, j \in DOMAIN seq : i < j => seq[i] < seq[j]
         /\ \A x \in S : \E i \in DOMAIN seq : seq[i] = x
<1>1. seq \in [1 .. Cardinality(S) -> S] /\ \A i, j \in DOMAIN seq : i < j => seq[i] < seq[j]
  <2>1. \E t \in [1 .. Cardinality(S) -> S] : \A i, j \in DOMAIN t : i < j => t[i] < t[j]
    BY NumbersListable
  <2> QED BY <2>1 DEF Ascending, InOrder
<1>2. \A i, j \in 1 .. Cardinality(S) : i < j => seq[i] # seq[j]
  <2>1. \A i \in 1 .. Cardinality(S) : seq[i] \in Int
    BY <1>1
  <2> QED BY <1>1, <2>1
<1>3. Cardinality(S) \in Nat /\ \A x \in S : \E i \in 1 .. Cardinality(S) : seq[i] = x
  <2>1. seq \in [1 .. Cardinality(S) -> S]
    BY <1>1
  <2> QED BY <1>2, <2>1, AllListed
<1>4. seq \in Seq(S) /\ Len(seq) = Cardinality(S)
  BY <1>1, <1>3
<1> QED BY <1>1, <1>3, <1>4
-----------------------------------------------------------------------------
(***************************************************************************)
(* Division and sums.                                                      *)
(***************************************************************************)
LEMMA Division ==
  ASSUME NEW a \in Int, NEW d \in Nat \ {0}
  PROVE  /\ a \div d \in Int /\ a % d \in 0 .. d - 1
         /\ a = (d * (a \div d)) + (a % d)
OBVIOUS

\* A product with a positive factor is in the order of the other factor.
LEMMA Products ==
  ASSUME NEW d \in Nat, NEW x \in Int, NEW y \in Int, x <= y
  PROVE  d * x \in Int /\ d * y \in Int /\ d * x <= d * y
OBVIOUS

LEMMA QuotientBounds ==
  ASSUME NEW a \in Int, NEW d \in Nat \ {0}, NEW q \in Int
  PROVE  /\ d * q <= a => q <= a \div d
         /\ a < d * (q + 1) => a \div d <= q
<1> DEFINE t == a \div d
<1>1. t \in Int /\ a % d \in 0 .. d - 1 /\ a = (d * t) + (a % d)
  BY Division
<1> HIDE DEF t
<1>2. d * t <= a /\ a < (d * t) + d
  BY <1>1
<1>3. ASSUME d * q <= a, t < q PROVE FALSE
  <2>1. d * (t + 1) <= d * q
    BY <1>1, <1>3, Products
  <2>2. d * (t + 1) = (d * t) + d
    BY <1>1
  <2> QED BY <1>1, <1>2, <1>3, <2>1, <2>2
<1>4. ASSUME a < d * (q + 1), q < t PROVE FALSE
  <2>1. d * (q + 1) <= d * t
    BY <1>1, <1>4, Products
  <2> QED BY <1>1, <1>2, <1>4, <2>1
<1>5. q <= a \div d <=> ~(t < q)
  BY <1>1 DEF t
<1>6. a \div d <= q <=> ~(q < t)
  BY <1>1 DEF t
<1> QED BY <1>3, <1>4, <1>5, <1>6

\* The sums of the first i numbers of s, of which SumOf(s) is the last.
IsSums(sum, s) ==
  /\ sum \in [0 .. Len(s) -> Int]
  /\ sum[0] = 0
  /\ \A i \in 1 .. Len(s) : sum[i] = sum[i - 1] + s[i]

LEMMA Sums ==
  ASSUME NEW s \in Seq(Int)
  PROVE  \E sum : IsSums(sum, s) /\ SumOf(s) = sum[Len(s)]
<1> DEFINE Upto(g, n) == /\ g \in [0 .. n -> Int] /\ g[0] = 0
                         /\ \A i \in 1 .. n : g[i] = g[i - 1] + s[i]
           done == {n \in 0 .. Len(s) : \E g : Upto(g, n)}
<1>1. Len(s) \in Nat
  OBVIOUS
<1>2. 0 \in done
  <2>1. Upto([i \in 0 .. 0 |-> 0], 0)
    OBVIOUS
  <2> HIDE DEF Upto
  <2> QED BY <1>1, <2>1
<1>3. ASSUME NEW n \in 1 .. Len(s), n - 1 \in done PROVE n \in done
  <2>1. PICK g : Upto(g, n - 1)
    BY <1>3
  <2> DEFINE h == [i \in 0 .. n |-> IF i = n THEN g[n - 1] + s[n] ELSE g[i]]
  <2>2. s[n] \in Int /\ g[n - 1] \in Int
    BY <2>1
  <2>3. h \in [0 .. n -> Int]
    BY <2>1, <2>2
  <2>4. \A i \in 1 .. n : h[i] = h[i - 1] + s[i]
    BY <2>1
  <2>5. h[0] = 0
    BY <2>1
  <2>6. Upto(h, n)
    <3> HIDE DEF h
    <3> QED BY <2>3, <2>4, <2>5
  <2> HIDE DEF Upto
  <2> QED BY <2>6
<1>4. Len(s) \in done
  <2> HIDE DEF done
  <2>1. \A n \in 0 .. Len(s) : n \in done
    BY <1>1, <1>2, <1>3, Stepwise
  <2> QED BY <1>1, <2>1
<1>5. PICK g : Upto(g, Len(s))
  BY <1>4
<1> DEFINE Rec(f) == f = [i \in 0 .. Len(s) |-> IF i = 0 THEN 0 ELSE f[i - 1] + s[i]]
<1>6. Rec(g)
  BY <1>5
<1>7. \E f : Rec(f) /\ SumOf(s) = f[Len(s)]
  BY <1>6 DEF SumOf
<1>8. PICK f : Rec(f) /\ SumOf(s) = f[Len(s)]
  BY <1>7
<1>9. f[0] = 0 /\ \A i \in 1 .. Len(s) : f[i] = f[i - 1] + s[i]
  <2> DEFINE F == [i \in 0 .. Len(s) |-> IF i = 0 THEN 0 ELSE f[i - 1] + s[i]]
  <2>1. f = F
    BY <1>8
  <2>2. F[0] = 0 /\ \A i \in 1 .. Len(s) : F[i] = f[i - 1] + s[i]
    BY <1>1
  <2> HIDE DEF F
  <2> QED BY <2>1, <2>2
<1>10. \A i \in 0 .. Len(s) : f[i] = g[i]
  <2> DEFINE same == {i \in 0 .. Len(s) : f[i] = g[i]}
  <2>1. 0 \in same
    BY <1>5, <1>9
  <2>2. \A i \in 1 .. Len(s) : i - 1 \in same => i \in same
    BY <1>5, <1>9
  <2>3. \A i \in 0 .. Len(s) : i \in same
    <3> HIDE DEF same
    <3> QED BY <1>1, <2>1, <2>2, Stepwise
  <2> QED BY <2>3
<1>11. IsSums(g, s) /\ SumOf(s) = g[Len(s)]
  BY <1>1, <1>5, <1>8, <1>10 DEF IsSums
<1> QED BY <1>11

\* The sum of numbers that are between lo and hi in I and zero elsewhere.
LEMMA SumWithin ==
  ASSUME NEW s \in Seq(Int), NEW I, I \subseteq DOMAIN s, NEW lo \in Int, NEW hi \in Int,
         \A i \in I : lo <= s[i] /\ s[i] <= hi, \A i \in DOMAIN s \ I : s[i] = 0
  PROVE  /\ SumOf(s) \in Int /\ Cardinality(I) \in Nat
         /\ Cardinality(I) * lo <= SumOf(s) /\ SumOf(s) <= Cardinality(I) * hi
<1>1. PICK sum : IsSums(sum, s) /\ SumOf(s) = sum[Len(s)]
  BY Sums
<1>2. Len(s) \in Nat /\ DOMAIN s = 1 .. Len(s)
  OBVIOUS
<1> DEFINE F(n) == I \cap (1 .. n)
           c(n) == Cardinality(F(n))
           good == {n \in 0 .. Len(s) : /\ IsFiniteSet(F(n))
                                        /\ c(n) * lo <= sum[n] /\ sum[n] <= c(n) * hi}
<1>3. 0 \in good
  <2>1. F(0) = {}
    OBVIOUS
  <2> HIDE DEF F
  <2>2. IsFiniteSet(F(0)) /\ c(0) = 0
    BY <2>1, FS_EmptySet
  <2>3. sum[0] = 0 /\ 0 \in 0 .. Len(s)
    BY <1>1, <1>2 DEF IsSums
  <2> HIDE DEF c
  <2> QED BY <2>2, <2>3
<1>4. ASSUME NEW n \in 1 .. Len(s), n - 1 \in good PROVE n \in good
  <2>1. sum[n] = sum[n - 1] + s[n] /\ sum[n - 1] \in Int /\ s[n] \in Int
    <3> HIDE DEF good
    <3>1. n - 1 \in 0 .. Len(s) /\ n \in DOMAIN s
      BY <1>2
    <3> QED BY <1>1, <3>1 DEF IsSums
  <2> DEFINE k == c(n - 1)
  <2>2. IsFiniteSet(F(n - 1)) /\ k * lo <= sum[n - 1] /\ sum[n - 1] <= k * hi
    <3> HIDE DEF F, c
    <3> QED BY <1>4 DEF c
  <2>3. k \in Nat
    <3> HIDE DEF F
    <3> QED BY <2>2, FS_CardinalityType
  <2>4. CASE n \in I
    <3>1. F(n) = F(n - 1) \cup {n} /\ n \notin F(n - 1)
      BY <2>4
    <3> HIDE DEF F
    <3>2. IsFiniteSet(F(n)) /\ c(n) = k + 1
      <4>1. /\ IsFiniteSet(F(n - 1) \cup {n})
            /\ Cardinality(F(n - 1) \cup {n}) = Cardinality(F(n - 1)) + 1
        BY <2>2, <3>1, FS_AddElement
      <4> QED BY <3>1, <4>1
    <3> HIDE DEF c, k
    <3>3. (k + 1) * lo = (k * lo) + lo /\ (k + 1) * hi = (k * hi) + hi
          /\ k * lo \in Int /\ k * hi \in Int
      BY <2>3
    <3>4. lo <= s[n] /\ s[n] <= hi
      BY <2>4
    <3>5. c(n) * lo <= sum[n] /\ sum[n] <= c(n) * hi
      BY <2>1, <2>2, <3>2, <3>3, <3>4
    <3> QED BY <3>2, <3>5
  <2>5. CASE n \notin I
    <3>1. F(n) = F(n - 1)
      BY <2>5
    <3>2. s[n] = 0
      BY <1>2, <2>5
    <3> HIDE DEF F
    <3>3. sum[n] = sum[n - 1]
      BY <2>1, <3>2
    <3> QED BY <2>2, <3>1, <3>3
  <2> QED BY <2>4, <2>5
<1>5. Len(s) \in good
  <2> HIDE DEF good
  <2>1. \A n \in 0 .. Len(s) : n \in good
    BY <1>2, <1>3, <1>4, Stepwise
  <2> QED BY <1>2, <2>1
<1>6. F(Len(s)) = I
  BY <1>2
<1>7. SumOf(s) \in Int
  BY <1>1, <1>2 DEF IsSums
<1>8. IsFiniteSet(I) /\ Cardinality(I) \in Nat
  BY <1>5, <1>6, FS_CardinalityType
<1> HIDE DEF F
<1> QED BY <1>1, <1>5, <1>6, <1>7, <1>8

LEMMA SumBounds ==
  ASSUME NEW s \in Seq(Int), NEW lo \in Int, NEW hi \in Int,
         \A i \in DOMAIN s : lo <= s[i] /\ s[i] <= hi
  PROVE  /\ SumOf(s) \in Int
         /\ Len(s) * lo <= SumOf(s) /\ SumOf(s) <= Len(s) * hi
<1>1. Len(s) \in Nat /\ DOMAIN s = 1 .. Len(s)
  OBVIOUS
<1>2. Cardinality(DOMAIN s) = Len(s)
  <2> DEFINE n == Len(s)
  <2>1. n \in Nat /\ DOMAIN s = 1 .. n
    BY <1>1
  <2> HIDE DEF n
  <2>2. Cardinality(1 .. n) = n
    BY <2>1, FS_Interval
  <2> QED BY <2>1, <2>2 DEF n
<1>3. /\ SumOf(s) \in Int
      /\ Cardinality(DOMAIN s) * lo <= SumOf(s) /\ SumOf(s) <= Cardinality(DOMAIN s) * hi
  <2>1. \A i \in DOMAIN s \ DOMAIN s : s[i] = 0
    OBVIOUS
  <2> QED BY <2>1, SumWithin
<1> QED BY <1>2, <1>3

\* The sum of the sizes of disjoint sets is the size of their union.
LEMMA SumOfSizes ==
  ASSUME NEW s \in Seq(Int), NEW A, DOMAIN A = DOMAIN s,
         \A i \in DOMAIN s : IsFiniteSet(A[i]) /\ s[i] = Cardinality(A[i]),
         \A i, j \in DOMAIN s : i # j => A[i] \cap A[j] = {}
  PROVE  SumOf(s) = Cardinality(UNION {A[i] : i \in DOMAIN s})
<1>1. PICK sum : IsSums(sum, s) /\ SumOf(s) = sum[Len(s)]
  BY Sums
<1>2. Len(s) \in Nat /\ DOMAIN s = 1 .. Len(s)
  OBVIOUS
<1> DEFINE First(n) == UNION {A[i] : i \in 1 .. n}
           good == {n \in 0 .. Len(s) : IsFiniteSet(First(n)) /\ Cardinality(First(n)) = sum[n]}
<1>3. 0 \in good
  <2>1. First(0) = {}
    OBVIOUS
  <2>2. sum[0] = 0 /\ 0 \in 0 .. Len(s)
    BY <1>1, <1>2 DEF IsSums
  <2> HIDE DEF First
  <2>3. IsFiniteSet(First(0)) /\ Cardinality(First(0)) = 0
    BY <2>1, FS_EmptySet
  <2> QED BY <2>2, <2>3
<1>4. ASSUME NEW n \in 1 .. Len(s), n - 1 \in good PROVE n \in good
  <2>1. First(n) = First(n - 1) \cup A[n]
    <3>1. 1 .. n = (1 .. n - 1) \cup {n}
      OBVIOUS
    <3> QED BY <3>1
  <2>2. First(n - 1) \cap A[n] = {}
    <3>1. \A i \in 1 .. n - 1 : i \in DOMAIN s /\ n \in DOMAIN s /\ i # n
      BY <1>2
    <3> QED BY <3>1
  <2>3. IsFiniteSet(A[n]) /\ s[n] = Cardinality(A[n])
    BY <1>2
  <2>4. IsFiniteSet(First(n - 1)) /\ Cardinality(First(n - 1)) = sum[n - 1]
    <3> HIDE DEF First
    <3> QED BY <1>4
  <2> HIDE DEF First
  <2>5. IsFiniteSet(First(n)) /\ Cardinality(First(n)) = sum[n - 1] + s[n]
    <3>1. Cardinality(First(n - 1) \cap A[n]) = 0
      BY <2>2, FS_EmptySet
    <3>2. sum[n - 1] \in Int /\ s[n] \in Int
      BY <1>1, <1>2 DEF IsSums
    <3>3. /\ IsFiniteSet(First(n - 1) \cup A[n])
          /\ Cardinality(First(n - 1) \cup A[n])
               = sum[n - 1] + s[n] - Cardinality(First(n - 1) \cap A[n])
      BY <2>3, <2>4, FS_Union
    <3> QED BY <2>1, <3>1, <3>2, <3>3
  <2>6. sum[n] = sum[n - 1] + s[n]
    BY <1>1 DEF IsSums
  <2> QED BY <2>5, <2>6
<1>5. Len(s) \in good
  <2> HIDE DEF good
  <2>1. \A n \in 0 .. Len(s) : n \in good
    BY <1>2, <1>3, <1>4, Stepwise
  <2> QED BY <1>2, <2>1
<1> QED BY <1>1, <1>2, <1>5

\* The greatest and the least of a finite set of numbers.
LEMMA Extremes ==
  ASSUME NEW S, IsFiniteSet(S), S \subseteq Int, S # {}
  PROVE  /\ Max(S) \in S /\ Min(S) \in S
         /\ \A x \in S : Min(S) <= x /\ x <= Max(S)
<1>1. PICK seq \in [1 .. Cardinality(S) -> S] :
             \A i, j \in 1 .. Cardinality(S) : i < j => seq[i] < seq[j]
  BY NumbersListable
<1>2. \A i, j \in 1 .. Cardinality(S) : i < j => seq[i] # seq[j]
  <2>1. \A i \in 1 .. Cardinality(S) : seq[i] \in Int
    OBVIOUS
  <2> QED BY <1>1, <2>1
<1>3. /\ Cardinality(S) \in Nat
      /\ \A x \in S : \E i \in 1 .. Cardinality(S) : seq[i] = x
  BY <1>2, AllListed
<1>4. Cardinality(S) \in 1 .. Cardinality(S) /\ 1 \in 1 .. Cardinality(S)
  <2>1. 1 .. Cardinality(S) # {}
    BY <1>3
  <2> QED BY <1>3, <2>1
<1>5. \A x \in S : seq[1] <= x /\ x <= seq[Cardinality(S)]
  <2> SUFFICES ASSUME NEW i \in 1 .. Cardinality(S)
               PROVE  seq[1] <= seq[i] /\ seq[i] <= seq[Cardinality(S)]
    BY <1>3
  <2>1. seq[i] \in Int /\ seq[1] \in Int /\ seq[Cardinality(S)] \in Int
    BY <1>4
  <2>2. (1 < i \/ i = 1) /\ (i < Cardinality(S) \/ i = Cardinality(S))
    BY <1>3
  <2> QED BY <1>1, <1>4, <2>1, <2>2
<1>6. Max(S) \in S /\ \A x \in S : Max(S) >= x
  BY <1>4, <1>5 DEF Max
<1>7. Min(S) \in S /\ \A x \in S : Min(S) =< x
  BY <1>4, <1>5 DEF Min
<1>8. \A x \in S : x <= Max(S)
  BY <1>6
<1> QED BY <1>6, <1>7, <1>8
-----------------------------------------------------------------------------
(***************************************************************************)
(* The rows of a report.                                                   *)
(***************************************************************************)
LEMMA SampleTypes ==
  ASSUME NEW x \in Samples
  PROVE  x.p \in Nat /\ x.d \in Nat /\ x.hit \in BOOLEAN
BY MetricsAssumption

LEMMA SortOrderIs ==
  ASSUME NEW batch \in Seq(Samples), NEW order, order = SortOrder(batch)
  PROVE  /\ order \in [DOMAIN batch -> DOMAIN batch]
         /\ \A i \in DOMAIN batch : \E j \in DOMAIN batch : order[j] = i
         /\ \A i, j \in DOMAIN batch :
              i < j => order[i] # order[j] /\ batch[order[i]].p <= batch[order[j]].p
<1> DEFINE D == DOMAIN batch
           Precedes(x, y) == \/ batch[x].p < batch[y].p
                             \/ batch[x].p = batch[y].p /\ x < y
           R == {xy \in D \X D : Precedes(xy[1], xy[2])}
<1>1. IsFiniteSet(D) /\ Cardinality(D) = Len(batch) /\ D = 1 .. Len(batch) /\ Len(batch) \in Nat
  <2>1. D = 1 .. Len(batch) /\ Len(batch) \in Nat
    OBVIOUS
  <2>2. IsFiniteSet(1 .. Len(batch)) /\ Cardinality(1 .. Len(batch)) = Len(batch)
    BY <2>1, FS_Interval
  <2> QED BY <2>1, <2>2
<1>2. \A i \in D : batch[i].p \in Nat
  BY SampleTypes
<1>3. \A x, y \in D : <<x, y>> \in R <=> Precedes(x, y)
  <2> HIDE DEF Precedes
  <2> QED OBVIOUS
<1> HIDE DEF R
<1>4. /\ \A x \in D : <<x, x>> \notin R
      /\ \A x, y, z \in D : <<x, y>> \in R /\ <<y, z>> \in R => <<x, z>> \in R
      /\ \A x, y \in D : x = y \/ <<x, y>> \in R \/ <<y, x>> \in R
  <2>1. \A x \in D : ~Precedes(x, x)
    BY <1>1, <1>2
  <2>2. \A x, y, z \in D : Precedes(x, y) /\ Precedes(y, z) => Precedes(x, z)
    BY <1>1, <1>2
  <2>3. \A x, y \in D : x = y \/ Precedes(x, y) \/ Precedes(y, x)
    BY <1>1, <1>2
  <2> HIDE DEF Precedes
  <2> QED BY <1>3, <2>1, <2>2, <2>3
<1>5. PICK u \in [1 .. Cardinality(D) -> D] :
             \A i, j \in 1 .. Cardinality(D) : i < j => <<u[i], u[j]>> \in R
  BY <1>1, <1>4, Listable
<1> DEFINE InPlace(t) == \A i, j \in DOMAIN t : i < j => Precedes(t[i], t[j])
<1>6. order \in [1 .. Cardinality(D) -> D] /\ InPlace(order)
  <2>1. InPlace(u)
    <3> HIDE DEF Precedes
    <3> QED BY <1>3, <1>5
  <2>2. order = CHOOSE t \in [1 .. Cardinality(D) -> D] : InPlace(t)
    BY DEF SortOrder, InOrder
  <2> HIDE DEF D, InPlace
  <2> QED BY <1>5, <2>1, <2>2
<1>7. order \in [D -> D]
  BY <1>1, <1>6
<1> HIDE DEF D
<1>8. ASSUME NEW i \in D, NEW j \in D, i < j
      PROVE  order[i] # order[j] /\ batch[order[i]].p <= batch[order[j]].p
  <2>1. order[i] \in D /\ order[j] \in D
    BY <1>7
  <2>2. /\ order[i] \in Nat /\ order[j] \in Nat
        /\ batch[order[i]].p \in Nat /\ batch[order[j]].p \in Nat
    BY <1>1, <1>2, <2>1
  <2>3. \/ batch[order[i]].p < batch[order[j]].p
        \/ batch[order[i]].p = batch[order[j]].p /\ order[i] < order[j]
    BY <1>6, <1>7, <1>8
  <2>4. order[i] # order[j]
    BY <2>2, <2>3
  <2> QED BY <2>2, <2>3, <2>4
<1>9. \A i \in D : \E j \in D : order[j] = i
  <2>1. \A i, j \in 1 .. Cardinality(D) : i < j => order[i] # order[j]
    BY <1>1, <1>8
  <2>2. IsFiniteSet(D) /\ order \in [1 .. Cardinality(D) -> D]
    BY <1>1, <1>6
  <2>3. \A x \in D : \E i \in 1 .. Cardinality(D) : order[i] = x
    BY <2>1, <2>2, AllListed
  <2> QED BY <1>1, <2>3
<1> QED BY <1>7, <1>8, <1>9 DEF D

\* A sequence of executions in the order of their statements.
Grows(s) == \A i, j \in DOMAIN s : i <= j => s[i].p <= s[j].p

LEMMA SortedIs ==
  ASSUME NEW batch \in Seq(Samples)
  PROVE  /\ Sorted(batch) \in Seq(Samples) /\ Grows(Sorted(batch))
         /\ DOMAIN Sorted(batch) = DOMAIN batch
<1> DEFINE order == SortOrder(batch)
           s == Sorted(batch)
<1>1. /\ order \in [DOMAIN batch -> DOMAIN batch]
      /\ \A i, j \in DOMAIN batch : i < j => batch[order[i]].p <= batch[order[j]].p
  BY SortOrderIs
<1>2. s = [i \in DOMAIN batch |-> batch[order[i]]]
  BY DEF Sorted
<1> HIDE DEF s, order
<1>3. \A i \in DOMAIN batch : s[i] = batch[order[i]] /\ s[i] \in Samples
  BY <1>1, <1>2
<1>4. s \in Seq(Samples) /\ DOMAIN s = DOMAIN batch
  <2>1. s \in [1 .. Len(batch) -> Samples]
    BY <1>2, <1>3
  <2> QED BY <1>2, <2>1
<1>5. ASSUME NEW i \in DOMAIN s, NEW j \in DOMAIN s, i <= j PROVE s[i].p <= s[j].p
  <2>1. s[i].p \in Nat /\ s[j].p \in Nat
    BY <1>3, <1>4, SampleTypes
  <2>2. i = j \/ i < j
    BY <1>4, <1>5
  <2> QED BY <1>1, <1>3, <1>4, <2>1, <2>2
<1> QED BY <1>4, <1>5 DEF Grows, s

\* Where the key changes.
Heads(s) == {i \in DOMAIN s : i = 1 \/ s[i - 1].p # s[i].p}

LEMMA StartsIs ==
  ASSUME NEW s \in Seq(Samples), NEW starts, starts = Starts(s)
  PROVE  /\ starts \in Seq(Heads(s)) /\ DOMAIN starts = 1 .. Len(starts) /\ Len(starts) \in Nat
         /\ \A k, l \in DOMAIN starts : k < l => starts[k] < starts[l]
         /\ \A i \in Heads(s) : \E k \in DOMAIN starts : starts[k] = i
<1>1. Len(s) \in Nat /\ DOMAIN s = 1 .. Len(s)
  OBVIOUS
<1>2. Heads(s) \subseteq Int /\ IsFiniteSet(Heads(s))
  <2>1. Heads(s) \subseteq 1 .. Len(s) /\ IsFiniteSet(1 .. Len(s))
    BY <1>1, FS_Interval DEF Heads
  <2>2. IsFiniteSet(Heads(s))
    BY <2>1, FS_Subset
  <2> QED BY <2>1, <2>2
<1>3. starts = Ascending(Heads(s))
  BY DEF Starts, Heads
<1>4. /\ starts \in Seq(Heads(s)) /\ DOMAIN starts = 1 .. Len(starts)
      /\ \A k, l \in DOMAIN starts : k < l => starts[k] < starts[l]
      /\ \A i \in Heads(s) : \E k \in DOMAIN starts : starts[k] = i
  BY <1>2, <1>3, NumbersInOrder
<1> QED BY <1>4

\* From a to b are the executions of one statement, and no others are of it.
IsRun(s, a, b) ==
  /\ a \in DOMAIN s /\ b \in DOMAIN s /\ a <= b
  /\ \A i \in DOMAIN s : a <= i /\ i <= b <=> s[i].p = s[a].p

\* Between two starts the key stays.
LEMMA KeyStays ==
  ASSUME NEW s \in Seq(Samples), NEW a \in DOMAIN s, NEW b \in DOMAIN s,
         \A i \in a + 1 .. b : i \notin Heads(s)
  PROVE  \A i \in a .. b : s[i].p = s[a].p
<1> DEFINE same == {n \in 0 .. b - a : s[a + n].p = s[a].p}
<1>1. Len(s) \in Nat /\ DOMAIN s = 1 .. Len(s) /\ a \in Nat /\ b \in Nat
  OBVIOUS
<1>2. CASE b < a
  BY <1>1, <1>2
<1>3. CASE a <= b
  <2>1. b - a \in Nat
    BY <1>1, <1>3
  <2>2. 0 \in same
    BY <1>1, <2>1
  <2>3. ASSUME NEW n \in 1 .. b - a, n - 1 \in same PROVE n \in same
    <3>1. a + n \in a + 1 .. b /\ a + n \in DOMAIN s /\ (a + n) - 1 = a + (n - 1) /\ a + n # 1
      BY <1>1, <2>1
    <3>2. s[(a + n) - 1].p = s[a + n].p
      BY <3>1 DEF Heads
    <3>3. s[a + (n - 1)].p = s[a].p
      BY <2>3
    <3> QED BY <3>1, <3>2, <3>3
  <2>4. \A n \in 0 .. b - a : n \in same
    <3> HIDE DEF same
    <3> QED BY <2>1, <2>2, <2>3, Stepwise
  <2>5. ASSUME NEW i \in a .. b PROVE s[i].p = s[a].p
    <3>1. i - a \in 0 .. b - a /\ a + (i - a) = i
      BY <1>1
    <3> QED BY <2>4, <3>1
  <2> QED BY <2>5
<1> QED BY <1>1, <1>2, <1>3

RunsOf(groups, s) ==
  /\ Len(groups) \in Nat /\ DOMAIN groups = 1 .. Len(groups)
  /\ \A k \in DOMAIN groups : \E a, b \in DOMAIN s : IsRun(s, a, b) /\ groups[k] = SubSeq(s, a, b)
  /\ \A k, l \in DOMAIN groups : k # l => Head(groups[k]).p # Head(groups[l]).p
  /\ \A i \in DOMAIN s : \E k \in DOMAIN groups : Head(groups[k]).p = s[i].p

LEMMA Runs ==
  ASSUME NEW s \in Seq(Samples), Grows(s)
  PROVE  RunsOf(Groups(s), s)
<1> DEFINE groups == Groups(s)
<1> DEFINE starts == Starts(s)
           n == Len(starts)
           End(k) == IF k < n THEN starts[k + 1] - 1 ELSE Len(s)
<1>1. /\ starts \in Seq(Heads(s)) /\ DOMAIN starts = 1 .. n /\ n \in Nat
      /\ \A k, l \in DOMAIN starts : k < l => starts[k] < starts[l]
      /\ \A i \in Heads(s) : \E k \in DOMAIN starts : starts[k] = i
  BY StartsIs
<1>2. groups = [k \in 1 .. n |-> SubSeq(s, starts[k], End(k))]
  BY <1>1 DEF Groups
<1> HIDE DEF groups
<1>3. Len(s) \in Nat /\ DOMAIN s = 1 .. Len(s)
  OBVIOUS
<1> HIDE DEF starts, n
<1>0. ASSUME NEW k \in 1 .. n, NEW l \in 1 .. n, starts[k] < starts[l] PROVE k < l
  <2>1. starts[k] \in Nat /\ starts[l] \in Nat
    BY <1>1, <1>3 DEF Heads
  <2>2. l < k => starts[l] < starts[k]
    BY <1>1
  <2>3. ~(l < k) /\ l # k
    BY <1>0, <2>1, <2>2
  <2> QED BY <2>3
<1>4. ASSUME NEW k \in 1 .. n
      PROVE  /\ starts[k] \in DOMAIN s /\ starts[k] \in Heads(s) /\ End(k) \in DOMAIN s
             /\ starts[k] <= End(k)
             /\ \A i \in starts[k] + 1 .. End(k) : i \notin Heads(s)
             /\ End(k) < Len(s) => End(k) + 1 \in Heads(s)
  <2>1. starts[k] \in Heads(s) /\ starts[k] \in DOMAIN s
    BY <1>1 DEF Heads
  <2>2. CASE k < n
    <3>1. k + 1 \in 1 .. n /\ starts[k + 1] \in Heads(s) /\ starts[k] < starts[k + 1]
      <4>1. n \in Nat /\ starts \in Seq(Heads(s)) /\ DOMAIN starts = 1 .. n
        BY <1>1
      <4>2. k + 1 \in 1 .. n /\ k < k + 1
        BY <2>2, <4>1
      <4>3. starts[k + 1] \in Heads(s)
        BY <4>1, <4>2
      <4>4. starts[k] < starts[k + 1]
        BY <1>1, <4>2
      <4> QED BY <4>2, <4>3, <4>4
    <3>2. starts[k + 1] \in DOMAIN s /\ End(k) = starts[k + 1] - 1
      BY <2>2, <3>1 DEF Heads
    <3>3. ASSUME NEW i \in starts[k] + 1 .. End(k), i \in Heads(s) PROVE FALSE
      <4>1. PICK l \in 1 .. n : starts[l] = i
        BY <1>1, <3>3
      <4>2. starts[k] < starts[l] /\ starts[l] < starts[k + 1]
        BY <1>3, <2>1, <3>2, <4>1
      <4>3. k < l /\ l < k + 1
        BY <1>0, <3>1, <4>2
      <4> QED BY <4>3
    <3>4. starts[k] <= End(k) /\ End(k) \in DOMAIN s /\ End(k) + 1 = starts[k + 1]
      BY <1>3, <2>1, <3>1, <3>2
    <3> QED BY <2>1, <3>1, <3>3, <3>4
  <2>3. CASE ~(k < n)
    <3>1. k = n /\ End(k) = Len(s)
      BY <1>1, <2>3
    <3>2. starts[k] <= End(k) /\ End(k) \in DOMAIN s
      BY <1>3, <2>1, <3>1
    <3>3. ASSUME NEW i \in starts[k] + 1 .. End(k), i \in Heads(s) PROVE FALSE
      <4>1. PICK l \in 1 .. n : starts[l] = i
        BY <1>1, <3>3
      <4>2. starts[k] < starts[l]
        BY <1>3, <2>1, <4>1
      <4>3. k < l
        BY <1>0, <4>2
      <4> QED BY <3>1, <4>3
    <3> QED BY <1>3, <2>1, <3>1, <3>2, <3>3
  <2> QED BY <2>2, <2>3
<1> HIDE DEF End
<1>5. ASSUME NEW k \in 1 .. n PROVE IsRun(s, starts[k], End(k))
  <2> DEFINE a == starts[k]
             b == End(k)
  <2>1. /\ a \in DOMAIN s /\ a \in Heads(s) /\ b \in DOMAIN s /\ a <= b
        /\ \A i \in a + 1 .. b : i \notin Heads(s)
        /\ b < Len(s) => b + 1 \in Heads(s)
    BY <1>4
  <2> HIDE DEF a, b
  <2>2. \A i \in a .. b : s[i].p = s[a].p
    BY <2>1, KeyStays
  <2>3. ASSUME NEW i \in DOMAIN s, i < a PROVE s[i].p # s[a].p
    <3>1. a - 1 \in DOMAIN s /\ i <= a - 1 /\ a - 1 <= a /\ s[a - 1].p # s[a].p
      BY <1>3, <2>1, <2>3 DEF Heads
    <3>2. s[i].p <= s[a - 1].p /\ s[a - 1].p <= s[a].p
      BY <2>1, <3>1 DEF Grows
    <3>3. s[i].p \in Nat /\ s[a - 1].p \in Nat /\ s[a].p \in Nat
      BY <2>1, <3>1, SampleTypes
    <3> QED BY <3>1, <3>2, <3>3
  <2>4. ASSUME NEW i \in DOMAIN s, b < i PROVE s[i].p # s[a].p
    <3>1. b + 1 \in DOMAIN s /\ b + 1 <= i /\ b <= b + 1 /\ s[b].p # s[b + 1].p
      <4>1. b < Len(s) /\ b \in Nat
        BY <1>3, <2>1, <2>4
      <4>2. b + 1 \in Heads(s) /\ (b + 1) - 1 = b /\ b + 1 # 1
        BY <1>3, <2>1, <4>1
      <4> QED BY <1>3, <2>4, <4>1, <4>2 DEF Heads
    <3>2. s[b].p <= s[b + 1].p /\ s[b + 1].p <= s[i].p
      BY <2>1, <3>1 DEF Grows
    <3>3. s[i].p \in Nat /\ s[b].p \in Nat /\ s[b + 1].p \in Nat
      BY <2>1, <3>1, SampleTypes
    <3>4. s[b].p = s[a].p
      <4>1. b \in a .. b
        BY <1>3, <2>1
      <4> QED BY <2>2, <4>1
    <3> QED BY <3>1, <3>2, <3>3, <3>4
  <2>5. ASSUME NEW i \in DOMAIN s PROVE a <= i /\ i <= b <=> s[i].p = s[a].p
    <3>1. i \in Nat /\ a \in Nat /\ b \in Nat
      BY <1>3, <2>1
    <3>2. i < a \/ b < i \/ i \in a .. b
      BY <3>1
    <3> QED BY <2>2, <2>3, <2>4, <3>1, <3>2
  <2>6. IsRun(s, a, b)
    BY <2>1, <2>5 DEF IsRun
  <2> QED BY <2>6 DEF a, b
<1>6. ASSUME NEW k \in 1 .. n
      PROVE  groups[k] = SubSeq(s, starts[k], End(k)) /\ Head(groups[k]) = s[starts[k]]
  <2>1. groups[k] = SubSeq(s, starts[k], End(k))
    BY <1>2
  <2>2. Head(SubSeq(s, starts[k], End(k))) = s[starts[k]]
    BY <1>3, <1>4
  <2> QED BY <2>1, <2>2
<1>7. Len(groups) = n /\ DOMAIN groups = 1 .. n
  BY <1>1, <1>2
<1>8. ASSUME NEW k \in 1 .. n, NEW l \in 1 .. n, k # l
      PROVE  s[starts[k]].p # s[starts[l]].p
  <2>1. ASSUME NEW x \in 1 .. n, NEW y \in 1 .. n, x < y
        PROVE  s[starts[x]].p # s[starts[y]].p
    <3>1. starts[x] < starts[y]
      BY <1>1, <2>1
    <3>2. ~(starts[y] <= starts[x])
      BY <1>3, <1>4, <3>1
    <3> QED BY <1>4, <1>5, <3>2 DEF IsRun
  <2>2. k < l \/ l < k
    BY <1>8
  <2> QED BY <2>1, <2>2
<1>9. ASSUME NEW i \in DOMAIN s PROVE \E k \in 1 .. n : s[starts[k]].p = s[i].p
  <2> DEFINE firsts == {j \in DOMAIN s : s[j].p = s[i].p}
  <2>1. firsts # {} /\ firsts \subseteq Nat
    BY <1>3
  <2>2. PICK j \in firsts : \A l \in firsts : j <= l
    <3> HIDE DEF firsts
    <3> QED BY <2>1, Least
  <2>3. j \in Heads(s)
    <3>1. CASE j = 1
      BY <3>1 DEF Heads
    <3>2. CASE j # 1
      <4>1. j - 1 \in DOMAIN s /\ ~(j <= j - 1)
        BY <1>3, <3>2
      <4>2. s[j - 1].p # s[j].p
        BY <2>2, <4>1
      <4> QED BY <4>2 DEF Heads
    <3> QED BY <3>1, <3>2
  <2> QED BY <1>1, <2>2, <2>3
<1>10. \A k \in DOMAIN groups : \E a, b \in DOMAIN s : IsRun(s, a, b) /\ groups[k] = SubSeq(s, a, b)
  <2> SUFFICES ASSUME NEW k \in 1 .. n
               PROVE  \E a, b \in DOMAIN s : IsRun(s, a, b) /\ groups[k] = SubSeq(s, a, b)
    BY <1>7
  <2>1. starts[k] \in DOMAIN s /\ End(k) \in DOMAIN s
    BY <1>4
  <2> QED BY <1>5, <1>6, <2>1
<1>11. \A k, l \in DOMAIN groups : k # l => Head(groups[k]).p # Head(groups[l]).p
  <2> SUFFICES ASSUME NEW k \in 1 .. n, NEW l \in 1 .. n, k # l
               PROVE  Head(groups[k]).p # Head(groups[l]).p
    BY <1>7
  <2>1. Head(groups[k]) = s[starts[k]] /\ Head(groups[l]) = s[starts[l]]
    BY <1>6
  <2> QED BY <1>8, <2>1
<1>12. \A i \in DOMAIN s : \E k \in DOMAIN groups : Head(groups[k]).p = s[i].p
  <2> SUFFICES ASSUME NEW i \in DOMAIN s PROVE \E k \in 1 .. n : Head(groups[k]).p = s[i].p
    BY <1>7
  <2>1. PICK k \in 1 .. n : s[starts[k]].p = s[i].p
    BY <1>9
  <2>2. Head(groups[k]) = s[starts[k]]
    BY <1>6
  <2> QED BY <2>1, <2>2
<1>13. RunsOf(groups, s)
  BY <1>1, <1>7, <1>10, <1>11, <1>12 DEF RunsOf
<1> QED BY <1>13 DEF groups

LEMMA HistoryIs ==
  ASSUME NEW group \in Seq(Samples), group # <<>>, NEW row, row = MetricHistory(group)
  PROVE  /\ row.p = Head(group).p
         /\ row.count = Len(group)
         /\ row.hits = Cardinality({i \in DOMAIN group : group[i].hit})
         /\ \E i \in DOMAIN group : row.max = group[i].d
         /\ \E i \in DOMAIN group : row.min = group[i].d
         /\ \A i \in DOMAIN group : row.min <= group[i].d /\ group[i].d <= row.max
         /\ row.avg \in 0 .. Half - 1
         /\ (\A i \in DOMAIN group : group[i].d < Half) => row.min <= row.avg /\ row.avg <= row.max
<1> DEFINE ds == Durations(group)
           n == Len(group)
<1>1. n \in Nat \ {0} /\ DOMAIN group = 1 .. n /\ DOMAIN group # {}
  OBVIOUS
<1>2. \A i \in 1 .. n : group[i].d \in Nat
  BY <1>1, SampleTypes
<1>3. ds \in Seq(Int) /\ Len(ds) = n /\ DOMAIN ds = 1 .. n /\ \A i \in 1 .. n : ds[i] = group[i].d
  <2>1. ds = [i \in 1 .. n |-> group[i].d]
    BY <1>1 DEF Durations
  <2>2. ds \in [1 .. n -> Int]
    BY <1>2, <2>1
  <2> HIDE DEF ds
  <2> QED BY <1>1, <2>1, <2>2
<1>4. /\ row.p = Head(group).p /\ row.count = n /\ row.avg = Average(ds)
      /\ row.max = Max(ToSet(ds)) /\ row.min = Min(ToSet(ds))
      /\ row.hits = Cardinality({i \in DOMAIN group : group[i].hit})
  BY DEF MetricHistory
<1> HIDE DEF ds
<1>5. ToSet(ds) = {ds[i] : i \in 1 .. n}
  BY <1>3 DEF ToSet
<1>6. /\ row.max \in ToSet(ds) /\ row.min \in ToSet(ds)
      /\ \A x \in ToSet(ds) : row.min <= x /\ x <= row.max
  <2>1. ToSet(ds) \subseteq Int /\ ToSet(ds) # {}
    BY <1>1, <1>2, <1>3, <1>5
  <2>2. IsFiniteSet(ToSet(ds))
    <3>1. ds \in Surjection(1 .. n, ToSet(ds))
      BY <1>3, <1>5 DEF Surjection
    <3>2. IsFiniteSet(1 .. n)
      BY <1>1, FS_Interval
    <3> QED BY <3>1, <3>2, FS_Surjection
  <2> QED BY <1>4, <2>1, <2>2, Extremes
<1>7. /\ \E i \in DOMAIN group : row.max = group[i].d
      /\ \E i \in DOMAIN group : row.min = group[i].d
      /\ \A i \in DOMAIN group : row.min <= group[i].d /\ group[i].d <= row.max
  BY <1>1, <1>3, <1>5, <1>6
<1>8. row.max \in Nat /\ row.min \in Nat
  BY <1>1, <1>2, <1>7
<1> DEFINE sum == SumOf(ds)
           mean == sum \div n
<1>9. sum \in Int /\ n * row.min <= sum /\ sum <= n * row.max
  <2>1. \A i \in DOMAIN ds : row.min <= ds[i] /\ ds[i] <= row.max
    BY <1>1, <1>3, <1>7
  <2>2. ds \in Seq(Int) /\ row.min \in Int /\ row.max \in Int
    BY <1>3, <1>8
  <2>3. /\ SumOf(ds) \in Int
        /\ Len(ds) * row.min <= SumOf(ds) /\ SumOf(ds) <= Len(ds) * row.max
    BY <2>1, <2>2, SumBounds
  <2> QED BY <1>3, <2>3
<1>10. mean \in Nat /\ row.min <= mean /\ mean <= row.max
  <2> HIDE DEF sum
  <2>1. row.min <= mean
    BY <1>1, <1>8, <1>9, QuotientBounds
  <2>2. mean <= row.max
    <3>1. n * (row.max + 1) = (n * row.max) + n /\ n * row.max \in Int
      BY <1>1, <1>8
    <3>2. sum < n * (row.max + 1)
      BY <1>1, <1>9, <3>1
    <3> QED BY <1>1, <1>8, <1>9, <3>2, QuotientBounds
  <2>3. mean \in Int
    BY <1>1, <1>9, Division
  <2> QED BY <1>8, <2>1, <2>2, <2>3
<1>11. Half \in Nat \ {0}
  BY MetricsAssumption
<1>12. row.avg = IF mean < Half THEN mean ELSE Half - 1
  BY <1>3, <1>4 DEF Average
<1> HIDE DEF mean, n
<1>13. row.avg \in 0 .. Half - 1
  BY <1>10, <1>11, <1>12
<1>14. ASSUME \A i \in DOMAIN group : group[i].d < Half
       PROVE  row.min <= row.avg /\ row.avg <= row.max
  <2>1. row.max < Half
    BY <1>7, <1>14
  <2>2. mean < Half
    BY <1>8, <1>10, <1>11, <2>1
  <2> QED BY <1>10, <1>12, <2>2
<1> QED BY <1>4, <1>7, <1>13, <1>14 DEF n

\* The executions of p in a report.
Of(batch, p) == {k \in DOMAIN batch : batch[k].p = p}

\* What a row says of the executions of its statement in a report.
Condenses(row, batch) ==
  LET ks == Of(batch, row.p) IN
  /\ ks # {}
  /\ row.count = Cardinality(ks)
  /\ row.hits = Cardinality({k \in ks : batch[k].hit})
  /\ row.avg \in 0 .. Half - 1
  /\ \E k \in ks : row.max = batch[k].d
  /\ \E k \in ks : row.min = batch[k].d
  /\ \A k \in ks : row.min <= batch[k].d /\ batch[k].d <= row.max
  /\ (\A k \in ks : batch[k].d < Half) => row.min <= row.avg /\ row.avg <= row.max

LEMMA SameSize ==
  ASSUME NEW S, IsFiniteSet(S), NEW T, NEW f \in [S -> T],
         \A x, y \in S : f[x] = f[y] => x = y, \A y \in T : \E x \in S : f[x] = y
  PROVE  IsFiniteSet(T) /\ Cardinality(T) = Cardinality(S)
<1>1. f \in Bijection(S, T)
  BY DEF Bijection, Injection, Surjection, IsInjective
<1> QED BY <1>1, FS_Bijection DEF ExistsBijection

\* A run of the sorted executions has all of one statement.
LEMMA RunCondensed ==
  ASSUME NEW batch \in Seq(Samples), NEW a \in DOMAIN batch, NEW b \in DOMAIN batch,
         IsRun(Sorted(batch), a, b), NEW row,
         row = MetricHistory(SubSeq(Sorted(batch), a, b))
  PROVE  Condenses(row, batch)
<1> DEFINE order == SortOrder(batch)
           s == Sorted(batch)
           g == SubSeq(s, a, b)
<1>1. /\ order \in [DOMAIN batch -> DOMAIN batch]
      /\ \A i \in DOMAIN batch : \E j \in DOMAIN batch : order[j] = i
      /\ \A i, j \in DOMAIN batch : i < j => order[i] # order[j]
  BY SortOrderIs
<1>2. /\ s \in Seq(Samples) /\ DOMAIN s = DOMAIN batch
      /\ \A i \in DOMAIN batch : s[i] = batch[order[i]]
  BY SortedIs DEF Sorted
<1>3. IsRun(s, a, b)
  OBVIOUS
<1> HIDE DEF order, s
<1>4. Len(batch) \in Nat /\ DOMAIN batch = 1 .. Len(batch) /\ Len(s) = Len(batch)
  BY <1>2
<1>5. a \in Nat /\ b \in Nat /\ a <= b /\ b <= Len(s) /\ 1 <= a
  BY <1>3, <1>4 DEF IsRun
<1> DEFINE m == b - a + 1
<1>6. /\ g \in Seq(Samples) /\ Len(g) = m /\ DOMAIN g = 1 .. m /\ m \in Nat \ {0}
      /\ \A i \in 1 .. m : a + i - 1 \in DOMAIN batch /\ g[i] = s[a + i - 1]
  BY <1>2, <1>4, <1>5
<1>7. g # <<>> /\ Head(g) = s[a]
  BY <1>2, <1>4, <1>5, <1>6
<1>8. row = MetricHistory(g)
  BY DEF s
<1> HIDE DEF g, m
<1> DEFINE p == s[a].p
           ks == Of(batch, p)
           f == [i \in 1 .. m |-> order[a + i - 1]]
<1>9. \A i \in 1 .. m : f[i] \in ks /\ batch[f[i]] = g[i]
  <2> SUFFICES ASSUME NEW i \in 1 .. m PROVE f[i] \in ks /\ batch[f[i]] = g[i]
    OBVIOUS
  <2>1. a + i - 1 \in DOMAIN batch /\ g[i] = s[a + i - 1] /\ a <= a + i - 1 /\ a + i - 1 <= b
    <3>1. a + i - 1 \in DOMAIN batch /\ g[i] = s[a + i - 1]
      BY <1>6
    <3>2. i \in Nat /\ 1 <= i /\ i <= b - a + 1
      BY <1>6 DEF m
    <3>3. a <= a + i - 1 /\ a + i - 1 <= b
      BY <1>5, <3>2
    <3> QED BY <3>1, <3>3
  <2>2. s[a + i - 1].p = p
    BY <1>2, <1>3, <2>1 DEF IsRun
  <2>3. order[a + i - 1] \in DOMAIN batch /\ batch[order[a + i - 1]] = s[a + i - 1]
    BY <1>1, <1>2, <2>1
  <2> QED BY <2>1, <2>2, <2>3 DEF Of
<1>10. \A k \in ks : \E i \in 1 .. m : f[i] = k
  <2> SUFFICES ASSUME NEW k \in ks PROVE \E i \in 1 .. m : f[i] = k
    OBVIOUS
  <2>1. k \in DOMAIN batch /\ batch[k].p = p
    BY DEF Of
  <2>2. PICK j \in DOMAIN batch : order[j] = k
    BY <1>1, <2>1
  <2>3. s[j].p = p
    BY <1>2, <2>1, <2>2
  <2>4. a <= j /\ j <= b
    BY <1>2, <1>3, <2>3 DEF IsRun
  <2>5. (j - a) + 1 \in 1 .. m /\ a + ((j - a) + 1) - 1 = j
    BY <1>4, <1>5, <2>4 DEF m
  <2> QED BY <2>2, <2>5
<1>11. \A i, j \in 1 .. m : f[i] = f[j] => i = j
  <2> SUFFICES ASSUME NEW i \in 1 .. m, NEW j \in 1 .. m, i < j PROVE f[i] # f[j]
    BY <1>6
  <2>1. a + i - 1 \in DOMAIN batch /\ a + j - 1 \in DOMAIN batch
    BY <1>6
  <2>2. i \in Nat /\ j \in Nat /\ a \in Nat
    BY <1>5
  <2>3. a + i - 1 < a + j - 1
    BY <2>2
  <2> QED BY <1>1, <2>1, <2>3
<1>12. IsFiniteSet(1 .. m) /\ Cardinality(1 .. m) = m
  BY <1>6, FS_Interval
<1> HIDE DEF f
<1>13. Cardinality(ks) = m
  <2>1. f \in [1 .. m -> ks]
    BY <1>9 DEF f
  <2> HIDE DEF ks
  <2> QED BY <1>10, <1>11, <1>12, <2>1, SameSize
<1> DEFINE hits == {i \in 1 .. m : g[i].hit}
           khits == {k \in ks : batch[k].hit}
<1>14. Cardinality(khits) = Cardinality(hits)
  <2> DEFINE h == [i \in hits |-> f[i]]
  <2>1. IsFiniteSet(hits)
    BY <1>12, FS_Subset
  <2>2. h \in [hits -> khits] /\ \A i \in hits : h[i] = f[i]
    BY <1>9
  <2>3. \A y \in khits : \E x \in hits : h[x] = y
    BY <1>9, <1>10
  <2>4. \A x, y \in hits : h[x] = h[y] => x = y
    BY <1>11, <2>2
  <2> HIDE DEF h, hits, khits
  <2> QED BY <2>1, <2>2, <2>3, <2>4, SameSize
<1>15. /\ row.p = p /\ row.count = m /\ row.hits = Cardinality(hits)
       /\ \E i \in 1 .. m : row.max = g[i].d
       /\ \E i \in 1 .. m : row.min = g[i].d
       /\ \A i \in 1 .. m : row.min <= g[i].d /\ g[i].d <= row.max
       /\ row.avg \in 0 .. Half - 1
       /\ (\A i \in 1 .. m : g[i].d < Half) => row.min <= row.avg /\ row.avg <= row.max
  <2>1. /\ row.p = Head(g).p /\ row.count = Len(g)
        /\ row.hits = Cardinality({i \in DOMAIN g : g[i].hit})
        /\ \E i \in DOMAIN g : row.max = g[i].d
        /\ \E i \in DOMAIN g : row.min = g[i].d
        /\ \A i \in DOMAIN g : row.min <= g[i].d /\ g[i].d <= row.max
        /\ row.avg \in 0 .. Half - 1
        /\ (\A i \in DOMAIN g : g[i].d < Half) => row.min <= row.avg /\ row.avg <= row.max
    BY <1>6, <1>7, <1>8, HistoryIs
  <2> QED BY <1>6, <1>7, <2>1
<1>16. ks # {}
  BY <1>6, <1>9
<1>17. /\ \E k \in ks : row.max = batch[k].d
       /\ \E k \in ks : row.min = batch[k].d
  BY <1>9, <1>15
<1>18. \A k \in ks : row.min <= batch[k].d /\ batch[k].d <= row.max
  <2> SUFFICES ASSUME NEW k \in ks PROVE row.min <= batch[k].d /\ batch[k].d <= row.max
    OBVIOUS
  <2>1. PICK i \in 1 .. m : f[i] = k
    BY <1>10
  <2> QED BY <1>9, <1>15, <2>1
<1>19. (\A k \in ks : batch[k].d < Half) => row.min <= row.avg /\ row.avg <= row.max
  BY <1>9, <1>15
<1> HIDE DEF ks, p
<1>20. row.p = p /\ ks = Of(batch, p)
  BY <1>15 DEF ks
<1> QED BY <1>13, <1>14, <1>15, <1>16, <1>17, <1>18, <1>19, <1>20 DEF Condenses

LEMMA CondensedIs ==
  ASSUME NEW batch \in Seq(Samples), NEW rows, rows = Condensed(batch)
  PROVE  /\ Len(rows) \in Nat /\ DOMAIN rows = 1 .. Len(rows)
         /\ \A j \in DOMAIN rows : Condenses(rows[j], batch)
         /\ \A j, k \in DOMAIN rows : rows[j].p = rows[k].p => j = k
         /\ \A i \in DOMAIN batch : \E j \in DOMAIN rows : rows[j].p = batch[i].p
<1> DEFINE s == Sorted(batch)
           groups == Groups(s)
<1>1. s \in Seq(Samples) /\ Grows(s) /\ DOMAIN s = DOMAIN batch
  BY SortedIs
<1>2. RunsOf(groups, s)
  BY <1>1, Runs
<1>3. rows = [k \in DOMAIN groups |-> MetricHistory(groups[k])]
  BY DEF Condensed
<1> HIDE DEF groups
<1>4. Len(rows) = Len(groups) /\ DOMAIN rows = DOMAIN groups
  BY <1>2, <1>3 DEF RunsOf
<1>5. ASSUME NEW k \in DOMAIN groups
      PROVE  rows[k].p = Head(groups[k]).p /\ Condenses(rows[k], batch)
  <2>1. PICK a \in DOMAIN s, b \in DOMAIN s : IsRun(s, a, b) /\ groups[k] = SubSeq(s, a, b)
    BY <1>2 DEF RunsOf
  <2>2. rows[k] = MetricHistory(SubSeq(s, a, b))
    BY <1>3, <2>1
  <2>3. Condenses(rows[k], batch)
    BY <1>1, <2>1, <2>2, RunCondensed
  <2>4. SubSeq(s, a, b) \in Seq(Samples) /\ SubSeq(s, a, b) # <<>>
    <3> HIDE DEF s
    <3>1. a \in 1 .. Len(s) /\ b \in 1 .. Len(s) /\ a <= b /\ Len(s) \in Nat
      BY <1>1, <2>1 DEF IsRun
    <3>2. s \in Seq(Samples)
      BY <1>1
    <3>3. SubSeq(s, a, b) \in Seq(Samples) /\ Len(SubSeq(s, a, b)) = b - a + 1
      BY <3>1, <3>2
    <3>4. Len(SubSeq(s, a, b)) # Len(<<>>)
      BY <3>1, <3>3
    <3>5. SubSeq(s, a, b) # <<>>
      BY <3>4
    <3> QED BY <3>3, <3>5
  <2>5. rows[k].p = Head(groups[k]).p
    <3> DEFINE g == SubSeq(s, a, b)
               row == rows[k]
    <3>1. g \in Seq(Samples) /\ g # <<>> /\ row = MetricHistory(g)
      BY <2>2, <2>4
    <3> HIDE DEF g, row
    <3>2. row.p = Head(g).p
      BY <3>1, HistoryIs
    <3> QED BY <2>1, <3>2 DEF g, row
  <2> QED BY <2>3, <2>5
<1>6. ASSUME NEW j \in DOMAIN rows, NEW k \in DOMAIN rows, rows[j].p = rows[k].p PROVE j = k
  <2>1. Head(groups[j]).p = Head(groups[k]).p
    BY <1>4, <1>5, <1>6
  <2> QED BY <1>2, <1>4, <2>1 DEF RunsOf
<1>7. ASSUME NEW i \in DOMAIN batch PROVE \E j \in DOMAIN rows : rows[j].p = batch[i].p
  <2>1. PICK j \in DOMAIN batch : SortOrder(batch)[j] = i
    BY SortOrderIs
  <2>2. s[j] = batch[i]
    BY <2>1 DEF Sorted
  <2>3. PICK k \in DOMAIN groups : Head(groups[k]).p = s[j].p
    BY <1>1, <1>2 DEF RunsOf
  <2> QED BY <1>4, <1>5, <2>2, <2>3
<1> QED BY <1>2, <1>4, <1>5, <1>6, <1>7 DEF RunsOf

I32 == (-Half) .. (Half - 1)

\* What fits an i32 is stored as it is.
LEMMA WrappedIs ==
  ASSUME NEW v \in Int
  PROVE  Wrapped(v) \in I32 /\ (v \in Nat /\ v < Half => Wrapped(v) = v)
<1> DEFINE w == 2 * Half
           r == (v + Half) % w
<1>1. Half \in Nat \ {0} /\ w \in Nat \ {0} /\ w = Half + Half
  BY MetricsAssumption
<1>2. v + Half \in Int /\ Wrapped(v) = r - Half
  BY <1>1 DEF Wrapped
<1> HIDE DEF w
<1>3. r \in 0 .. w - 1 /\ (v + Half) \div w \in Int /\ v + Half = (w * ((v + Half) \div w)) + r
  BY <1>1, <1>2, Division
<1>4. Wrapped(v) \in I32
  <2> HIDE DEF r
  <2> QED BY <1>1, <1>2, <1>3 DEF I32
<1>5. ASSUME v \in Nat, v < Half PROVE Wrapped(v) = v
  <2> DEFINE q == (v + Half) \div w
  <2>1. v + Half < w * (0 + 1) /\ w * 0 <= v + Half
    BY <1>1, <1>5
  <2>2. 0 <= q /\ q <= 0
    BY <1>1, <1>2, <2>1, QuotientBounds
  <2>3. w * q = 0
    BY <1>1, <1>3, <2>2
  <2> HIDE DEF q, r
  <2> QED BY <1>1, <1>2, <1>3, <2>3 DEF q
<1> QED BY <1>4, <1>5
-----------------------------------------------------------------------------
(***************************************************************************)
(* The invariant: every row of the table is that of one statement in one   *)
(* report, and every row a report has stored is in the table, once.        *)
(***************************************************************************)
ReportsMade == [batch : Batches, at : Seq(Nat), stored : Nat, open : BOOLEAN]

TableRows == [p : Patterns, avg : 0 .. Half - 1, max : I32, min : I32, count : Nat,
              hits : Nat, at : Nat]

\* The stamps of a report's rows are of the past, and what is stored of it is rows of it.
Kept(report, now) ==
  /\ report.at \in [DOMAIN Rows(report) -> 0 .. now]
  /\ 1 .. report.stored \subseteq DOMAIN Rows(report)
  /\ report.open => report.stored + 1 \in DOMAIN Rows(report)

Shape ==
  /\ clock \in 0 .. MaxClock
  /\ reports \in Seq(ReportsMade)
  /\ \A r \in DOMAIN reports : Kept(reports[r], clock)
  /\ table \in Seq(TableRows)

\* The row is that of its statement in the report; its durations are those of the
\* executions as long as these fit an i32.
RowFits(row, report) ==
  LET ks == Of(report.batch, row.p) IN
  /\ ks # {}
  /\ row.count = Cardinality(ks)
  /\ row.hits = Cardinality({k \in ks : report.batch[k].hit})
  /\ (\A k \in ks : report.batch[k].d < Half) =>
       /\ \E k \in ks : row.max = report.batch[k].d
       /\ \E k \in ks : row.min = report.batch[k].d
       /\ \A k \in ks : row.min <= report.batch[k].d /\ report.batch[k].d <= row.max
       /\ row.min <= row.avg /\ row.avg <= row.max

\* The i-th row of tab is the nth[i]-th row of the report from[i].
IsRow(row, report, k) ==
  k \in 1 .. report.stored /\ row = Stored(Rows(report)[k], report.at[k])

Traces(from, nth, tab, reps) ==
  /\ from \in [DOMAIN tab -> DOMAIN reps]
  /\ \A i \in DOMAIN tab : IsRow(tab[i], reps[from[i]], nth[i])
  /\ \A i, j \in DOMAIN tab : from[i] = from[j] /\ nth[i] = nth[j] => i = j
  /\ \A r \in DOMAIN reps : \A k \in 1 .. reps[r].stored :
       \E i \in DOMAIN tab : from[i] = r /\ nth[i] = k

Traced == \E from, nth : Traces(from, nth, table, reports)

IInv == Shape /\ Traced

LEMMA BatchIs ==
  ASSUME NEW batch \in Batches
  PROVE  /\ batch \in Seq(Samples) /\ Len(batch) \in 1 .. MaxExecs
         /\ DOMAIN batch = 1 .. Len(batch)
<1>1. PICK n \in 1 .. MaxExecs : batch \in [1 .. n -> Samples]
  BY DEF Batches
<1>2. n \in Nat
  BY MetricsAssumption
<1> QED BY <1>1, <1>2

\* The rows of a report, at least one and one per statement.
LEMMA RowsAre ==
  ASSUME NEW report, report.batch \in Batches, NEW rows, rows = Rows(report)
  PROVE  /\ Len(rows) \in Nat \ {0} /\ DOMAIN rows = 1 .. Len(rows)
         /\ \A j \in DOMAIN rows : Condenses(rows[j], report.batch)
         /\ \A j, k \in DOMAIN rows : rows[j].p = rows[k].p => j = k
         /\ \A i \in DOMAIN report.batch : \E j \in DOMAIN rows : rows[j].p = report.batch[i].p
<1> DEFINE batch == report.batch
<1>1. batch \in Seq(Samples) /\ Len(batch) \in 1 .. MaxExecs /\ DOMAIN batch = 1 .. Len(batch)
  BY BatchIs
<1>2. rows = Condensed(batch)
  BY DEF Rows
<1> HIDE DEF batch
<1>3. /\ Len(rows) \in Nat /\ DOMAIN rows = 1 .. Len(rows)
      /\ \A j \in DOMAIN rows : Condenses(rows[j], batch)
      /\ \A j, k \in DOMAIN rows : rows[j].p = rows[k].p => j = k
      /\ \A i \in DOMAIN batch : \E j \in DOMAIN rows : rows[j].p = batch[i].p
  BY <1>1, <1>2, CondensedIs
<1>4. Len(rows) # 0
  <2>1. 1 \in DOMAIN batch
    BY <1>1
  <2>2. PICK j \in DOMAIN rows : rows[j].p = batch[1].p
    BY <1>3, <2>1
  <2> QED BY <1>3, <2>2
<1> QED BY <1>3, <1>4 DEF batch

LEMMA StoredFits ==
  ASSUME NEW report, report.batch \in Batches, NEW at \in Nat, NEW row,
         Condenses(row, report.batch)
  PROVE  /\ Stored(row, at) \in TableRows /\ RowFits(Stored(row, at), report)
         /\ Stored(row, at).p = row.p /\ Stored(row, at).at = at
<1> DEFINE batch == report.batch
           ks == Of(batch, row.p)
           st == Stored(row, at)
<1>1. batch \in Seq(Samples) /\ Len(batch) \in Nat /\ DOMAIN batch = 1 .. Len(batch)
  BY BatchIs
<1>2. ks \subseteq DOMAIN batch /\ IsFiniteSet(ks)
  <2>1. \A n \in Nat : IsFiniteSet(1 .. n)
    BY FS_Interval
  <2>2. ks \subseteq DOMAIN batch
    BY DEF Of
  <2> QED BY <1>1, <2>1, <2>2, FS_Subset
<1>3. /\ ks # {}
      /\ row.count = Cardinality(ks)
      /\ row.hits = Cardinality({k \in ks : batch[k].hit})
      /\ row.avg \in 0 .. Half - 1
      /\ \E k \in ks : row.max = batch[k].d
      /\ \E k \in ks : row.min = batch[k].d
      /\ \A k \in ks : row.min <= batch[k].d /\ batch[k].d <= row.max
      /\ (\A k \in ks : batch[k].d < Half) => row.min <= row.avg /\ row.avg <= row.max
  BY DEF Condenses
<1>4. st = [p |-> row.p, avg |-> row.avg, max |-> Wrapped(row.max), min |-> Wrapped(row.min),
            count |-> row.count, hits |-> row.hits, at |-> at]
  BY DEF Stored
<1>5. \A k \in ks : batch[k] \in Samples /\ batch[k].d \in Nat /\ batch[k].p = row.p
  <2> SUFFICES ASSUME NEW k \in ks
               PROVE  batch[k] \in Samples /\ batch[k].d \in Nat /\ batch[k].p = row.p
    OBVIOUS
  <2>1. batch[k] \in Samples
    BY <1>1, <1>2
  <2> QED BY <2>1, SampleTypes DEF Of
<1>6. row.max \in Nat /\ row.min \in Nat
  BY <1>3, <1>5
<1>7. row.p \in Patterns
  BY <1>3, <1>5 DEF Patterns
<1>8. row.count \in Nat /\ row.hits \in Nat
  <2>1. IsFiniteSet({k \in ks : batch[k].hit})
    BY <1>2, FS_Subset
  <2> QED BY <1>2, <1>3, <2>1, FS_CardinalityType
<1>9. Wrapped(row.max) \in I32 /\ Wrapped(row.min) \in I32
  BY <1>6, WrappedIs
<1> HIDE DEF ks, st
<1>10. st \in TableRows
  BY <1>3, <1>4, <1>7, <1>8, <1>9 DEF TableRows
<1>11. /\ st.p = row.p /\ st.at = at /\ st.count = row.count /\ st.hits = row.hits
       /\ st.avg = row.avg /\ st.max = Wrapped(row.max) /\ st.min = Wrapped(row.min)
  BY <1>4
<1>12. ASSUME \A k \in ks : batch[k].d < Half
       PROVE  st.max = row.max /\ st.min = row.min
  <2>1. row.max < Half /\ row.min < Half
    BY <1>3, <1>12
  <2> QED BY <1>6, <1>11, <2>1, WrappedIs
<1>13. ks = Of(report.batch, st.p)
  BY <1>11 DEF ks
<1>14. (\A k \in ks : batch[k].d < Half) =>
         /\ \E k \in ks : st.max = batch[k].d
         /\ \E k \in ks : st.min = batch[k].d
         /\ \A k \in ks : st.min <= batch[k].d /\ batch[k].d <= st.max
         /\ st.min <= st.avg /\ st.avg <= st.max
  BY <1>3, <1>11, <1>12
<1>15. RowFits(st, report)
  BY <1>3, <1>11, <1>13, <1>14 DEF RowFits
<1> QED BY <1>10, <1>11, <1>15 DEF st

\* The k-th row of a report, as it is stored.
LEMMA RowIs ==
  ASSUME Shape, NEW r \in DOMAIN reports, NEW k \in DOMAIN Rows(reports[r]),
         NEW row, row = Stored(Rows(reports[r])[k], reports[r].at[k])
  PROVE  /\ row \in TableRows /\ RowFits(row, reports[r])
         /\ row.p = Rows(reports[r])[k].p /\ row.at = reports[r].at[k] /\ row.at \in 0 .. clock
<1> DEFINE report == reports[r]
<1>1. report.batch \in Batches /\ report.at[k] \in 0 .. clock
  <2>1. report \in ReportsMade /\ Kept(report, clock)
    BY DEF Shape
  <2> QED BY <2>1 DEF ReportsMade, Kept
<1>2. Condenses(Rows(report)[k], report.batch)
  BY <1>1, RowsAre
<1>3. report.at[k] \in Nat
  BY <1>1
<1> HIDE DEF report
<1>4. row = Stored(Rows(report)[k], report.at[k]) /\ reports[r] = report
  BY DEF report
<1> QED BY <1>1, <1>2, <1>3, <1>4, StoredFits

LEMMA ReportKeeps ==
  ASSUME IInv, NEW batch \in Batches, Report(batch)
  PROVE  IInv'
<1>1. PICK at \in Stamps(Len(Condensed(batch))) :
        reports' = Append(reports, [batch |-> batch, at |-> at, stored |-> 0, open |-> TRUE])
  BY DEF Report
<1> DEFINE new == [batch |-> batch, at |-> at, stored |-> 0, open |-> TRUE]
           n == Len(Rows(new))
<1>2. clock' = clock /\ table' = table
  BY DEF Report
<1>3. clock \in Nat /\ clock \in 0 .. MaxClock /\ reports \in Seq(ReportsMade)
  BY MetricsAssumption DEF IInv, Shape
<1>4. /\ new.batch = batch /\ new.at = at /\ new.stored = 0 /\ new.open = TRUE
      /\ Rows(new) = Condensed(batch)
  BY DEF Rows
<1> HIDE DEF new
<1>5. n \in Nat \ {0} /\ DOMAIN Rows(new) = 1 .. n
  BY <1>4, RowsAre
<1>6. at \in [1 .. n -> 0 .. clock]
  <2>1. at \in [1 .. n -> {clock - 1, clock} \cap Nat]
    BY <1>4 DEF Stamps
  <2>2. {clock - 1, clock} \cap Nat \subseteq 0 .. clock
    BY <1>3
  <2> HIDE DEF n
  <2> QED BY <2>1, <2>2
<1>7. new \in ReportsMade
  <2>1. at \in [1 .. n -> Nat]
    BY <1>3, <1>6
  <2>2. at \in Seq(Nat)
    BY <1>5, <2>1
  <2> QED BY <2>2 DEF ReportsMade, new
<1>8. Kept(new, clock)
  BY <1>4, <1>5, <1>6 DEF Kept
<1>9. /\ reports' = Append(reports, new) /\ reports' \in Seq(ReportsMade)
      /\ DOMAIN reports' = 1 .. Len(reports) + 1 /\ DOMAIN reports = 1 .. Len(reports)
      /\ Len(reports) \in Nat
      /\ \A r \in DOMAIN reports : reports'[r] = reports[r]
      /\ reports'[Len(reports) + 1] = new
  BY <1>1, <1>3, <1>7 DEF new
<1>10. \A r \in DOMAIN reports' : r \in DOMAIN reports \/ reports'[r] = new
  BY <1>9
<1>11. Shape'
  <2>1. \A r \in DOMAIN reports' : Kept(reports'[r], clock)
    BY <1>8, <1>9, <1>10 DEF IInv, Shape
  <2> QED BY <1>2, <1>3, <1>9, <2>1 DEF Shape, IInv
<1>12. PICK from, nth : Traces(from, nth, table, reports)
  BY DEF IInv, Traced
<1>13. Traces(from, nth, table, reports')
  <2>1. from \in [DOMAIN table -> DOMAIN reports'] /\ \A i \in DOMAIN table : from[i] \in DOMAIN reports
    BY <1>9, <1>12 DEF Traces
  <2>2. \A i \in DOMAIN table : IsRow(table[i], reports'[from[i]], nth[i])
    BY <1>9, <1>12, <2>1 DEF Traces
  <2>3. ASSUME NEW r \in DOMAIN reports', NEW k \in 1 .. reports'[r].stored
        PROVE  \E i \in DOMAIN table : from[i] = r /\ nth[i] = k
    <3>1. reports'[r] # new
      BY <1>4, <2>3
    <3>2. r \in DOMAIN reports /\ reports'[r] = reports[r]
      BY <1>9, <1>10, <3>1
    <3> QED BY <1>12, <2>3, <3>2 DEF Traces
  <2> QED BY <1>12, <2>1, <2>2, <2>3 DEF Traces
<1> QED BY <1>2, <1>11, <1>13 DEF IInv, Traced

LEMMA RecordChanges ==
  ASSUME NEW x \in ReportsMade, NEW stored, NEW open
  PROVE  [x EXCEPT !.stored = stored, !.open = open] =
           [batch |-> x.batch, at |-> x.at, stored |-> stored, open |-> open]
<1> DEFINE y == [batch |-> x.batch, at |-> x.at, stored |-> stored, open |-> x.open]
<1>1. [x EXCEPT !.stored = stored] = y
  BY DEF ReportsMade
<1>2. [y EXCEPT !.open = open] =
        [batch |-> x.batch, at |-> x.at, stored |-> stored, open |-> open]
  OBVIOUS
<1> HIDE DEF y
<1> QED BY <1>1, <1>2

\* A step that changes one report, and no batch and no stamp of it.
LEMMA ReportChanges ==
  ASSUME Shape, NEW r \in DOMAIN reports, NEW stored \in Nat, NEW open \in BOOLEAN,
         reports' = [reports EXCEPT ![r] = [@ EXCEPT !.stored = stored, !.open = open]]
  PROVE  /\ reports' \in Seq(ReportsMade) /\ DOMAIN reports' = DOMAIN reports
         /\ \A q \in DOMAIN reports : q # r => reports'[q] = reports[q]
         /\ reports'[r].stored = stored /\ reports'[r].open = open
         /\ \A q \in DOMAIN reports : /\ reports'[q].at = reports[q].at
                                      /\ Rows(reports'[q]) = Rows(reports[q])
<1>1. reports \in Seq(ReportsMade) /\ reports[r] \in ReportsMade
  BY DEF Shape
<1> DEFINE new == [batch |-> reports[r].batch, at |-> reports[r].at,
                   stored |-> stored, open |-> open]
<1>2. new \in ReportsMade
  BY <1>1 DEF ReportsMade
<1>3. reports' = [reports EXCEPT ![r] = new]
  <2>1. [[reports[r] EXCEPT !.stored = stored] EXCEPT !.open = open] = new
    BY <1>1, RecordChanges
  <2> HIDE DEF new
  <2> QED BY <2>1
<1>4. /\ new.batch = reports[r].batch /\ new.at = reports[r].at
      /\ new.stored = stored /\ new.open = open
  OBVIOUS
<1> HIDE DEF new
<1>5. /\ reports' \in Seq(ReportsMade) /\ DOMAIN reports' = DOMAIN reports
      /\ reports'[r] = new /\ \A q \in DOMAIN reports : q # r => reports'[q] = reports[q]
  <2> SUFFICES ASSUME NEW reps, reps = [reports EXCEPT ![r] = new]
               PROVE  /\ reps \in Seq(ReportsMade) /\ DOMAIN reps = DOMAIN reports
                      /\ reps[r] = new /\ \A q \in DOMAIN reports : q # r => reps[q] = reports[q]
    BY <1>3
  <2>1. reports \in [1 .. Len(reports) -> ReportsMade] /\ Len(reports) \in Nat
    BY <1>1
  <2>2. reps \in [1 .. Len(reports) -> ReportsMade]
    BY <1>2, <2>1
  <2> QED BY <2>1, <2>2
<1> QED BY <1>4, <1>5 DEF Rows

LEMMA InsertKeeps ==
  ASSUME IInv, NEW r \in DOMAIN reports, Insert(r)
  PROVE  IInv'
<1> DEFINE k == reports[r].stored + 1
           n == Len(Rows(reports[r]))
           row == Stored(Rows(reports[r])[k], reports[r].at[k])
           L == Len(table)
<1>1. /\ clock' = clock /\ table' = Append(table, row) /\ reports[r].open
      /\ reports' = [reports EXCEPT ![r] = [@ EXCEPT !.stored = k, !.open = k < n]]
  BY DEF Insert
<1>2. /\ Shape /\ reports[r] \in ReportsMade /\ Kept(reports[r], clock)
      /\ table \in Seq(TableRows)
  BY DEF IInv, Shape
<1>3. reports[r].stored \in Nat /\ k \in Nat \ {0} /\ k \in DOMAIN Rows(reports[r])
  BY <1>1, <1>2 DEF ReportsMade, Kept
<1>4. n \in Nat /\ DOMAIN Rows(reports[r]) = 1 .. n
  <2>1. reports[r].batch \in Batches
    BY <1>2 DEF ReportsMade
  <2> QED BY <2>1, RowsAre
<1>5. row \in TableRows
  BY <1>2, <1>3, RowIs
<1>6. /\ reports' \in Seq(ReportsMade) /\ DOMAIN reports' = DOMAIN reports
      /\ \A q \in DOMAIN reports : q # r => reports'[q] = reports[q]
      /\ reports'[r].stored = k /\ reports'[r].open = (k < n)
      /\ \A q \in DOMAIN reports : /\ reports'[q].at = reports[q].at
                                   /\ Rows(reports'[q]) = Rows(reports[q])
  <2>1. (k < n) \in BOOLEAN /\ k \in Nat
    BY <1>3
  <2> HIDE DEF k, n
  <2> QED BY <1>1, <1>2, <2>1, ReportChanges
<1>7. /\ L \in Nat /\ DOMAIN table = 1 .. L /\ DOMAIN table' = 1 .. L + 1
      /\ table'[L + 1] = row /\ \A i \in 1 .. L : table'[i] = table[i]
      /\ table' \in Seq(TableRows)
  <2> HIDE DEF row
  <2> QED BY <1>1, <1>2, <1>5
<1> HIDE DEF L
<1>8. Kept(reports'[r], clock)
  <2>1. 1 .. k \subseteq DOMAIN Rows(reports[r])
    BY <1>3, <1>4
  <2>2. k < n => k + 1 \in DOMAIN Rows(reports[r])
    BY <1>3, <1>4
  <2> HIDE DEF k, n
  <2> QED BY <1>2, <1>6, <2>1, <2>2 DEF Kept
<1>9. Shape'
  <2>1. \A q \in DOMAIN reports' : Kept(reports'[q], clock)
    BY <1>2, <1>6, <1>8 DEF Shape
  <2> QED BY <1>1, <1>2, <1>6, <1>7, <2>1 DEF Shape
<1>10. PICK from, nth : Traces(from, nth, table, reports)
  BY DEF IInv, Traced
<1> DEFINE f == [i \in 1 .. L + 1 |-> IF i <= L THEN from[i] ELSE r]
           g == [i \in 1 .. L + 1 |-> IF i <= L THEN nth[i] ELSE k]
<1>11. /\ f[L + 1] = r /\ g[L + 1] = k
       /\ \A i \in 1 .. L : f[i] = from[i] /\ g[i] = nth[i]
       /\ f \in [1 .. L + 1 -> DOMAIN reports]
  <2>1. from \in [1 .. L -> DOMAIN reports]
    BY <1>7, <1>10 DEF Traces
  <2>2. \A i \in 1 .. L + 1 : i <= L => i \in 1 .. L
    BY <1>7
  <2>3. L + 1 \in 1 .. L + 1 /\ ~(L + 1 <= L) /\ \A i \in 1 .. L : i \in 1 .. L + 1 /\ i <= L
    BY <1>7
  <2> HIDE DEF k
  <2> QED BY <2>1, <2>2, <2>3
<1> HIDE DEF f, g
<1>12. \A i \in 1 .. L + 1 : i \in 1 .. L \/ i = L + 1
  BY <1>7
<1>13. ASSUME NEW i \in 1 .. L + 1 PROVE IsRow(table'[i], reports'[f[i]], g[i])
  <2>1. CASE i \in 1 .. L
    <3>1. IsRow(table[i], reports[from[i]], nth[i]) /\ from[i] \in DOMAIN reports
      BY <1>7, <1>10, <2>1 DEF Traces
    <3>2. 1 .. reports[from[i]].stored \subseteq 1 .. reports'[from[i]].stored
      <4>1. reports[r].stored \in Nat
        BY <1>3
      <4> QED BY <1>6, <3>1, <4>1
    <3> QED BY <1>6, <1>7, <1>11, <2>1, <3>1, <3>2 DEF IsRow
  <2>2. CASE i = L + 1
    <3>1. k \in 1 .. k
      BY <1>3
    <3> QED BY <1>6, <1>7, <1>11, <2>2, <3>1 DEF IsRow
  <2> QED BY <1>12, <2>1, <2>2
<1>14. ASSUME NEW i \in 1 .. L PROVE ~(f[i] = r /\ g[i] = k)
  <2>1. from[i] = r => nth[i] \in 1 .. reports[r].stored
    BY <1>7, <1>10 DEF Traces, IsRow
  <2> QED BY <1>3, <1>11, <2>1
<1>15. ASSUME NEW i \in 1 .. L + 1, NEW j \in 1 .. L + 1, f[i] = f[j], g[i] = g[j]
       PROVE  i = j
  <2>1. CASE i \in 1 .. L /\ j \in 1 .. L
    BY <1>7, <1>10, <1>11, <1>15, <2>1 DEF Traces
  <2>2. CASE i = L + 1 \/ j = L + 1
    BY <1>11, <1>12, <1>14, <1>15, <2>2
  <2> QED BY <1>12, <2>1, <2>2
<1>16. ASSUME NEW q \in DOMAIN reports, NEW l \in 1 .. reports'[q].stored
       PROVE  \E i \in 1 .. L + 1 : f[i] = q /\ g[i] = l
  <2>1. CASE q = r /\ l = k
    <3>1. L + 1 \in 1 .. L + 1
      BY <1>7
    <3> QED BY <1>11, <2>1, <3>1
  <2>2. CASE ~(q = r /\ l = k)
    <3>1. l \in 1 .. reports[q].stored
      <4>1. CASE q = r
        BY <1>3, <1>6, <1>16, <2>2, <4>1
      <4>2. CASE q # r
        BY <1>6, <1>16, <4>2
      <4> QED BY <4>1, <4>2
    <3>2. PICK i \in DOMAIN table : from[i] = q /\ nth[i] = l
      BY <1>10, <3>1 DEF Traces
    <3>3. i \in 1 .. L /\ i \in 1 .. L + 1
      BY <1>7, <3>2
    <3> QED BY <1>11, <3>2, <3>3
  <2> QED BY <2>1, <2>2
<1> HIDE DEF k, n, row
<1>17. Traces(f, g, table', reports')
  <2>1. f \in [DOMAIN table' -> DOMAIN reports']
    BY <1>6, <1>7, <1>11
  <2>2. \A i \in DOMAIN table' : IsRow(table'[i], reports'[f[i]], g[i])
    BY <1>7, <1>13
  <2>3. \A i, j \in DOMAIN table' : f[i] = f[j] /\ g[i] = g[j] => i = j
    BY <1>7, <1>15
  <2>4. \A q \in DOMAIN reports' : \A l \in 1 .. reports'[q].stored :
          \E i \in DOMAIN table' : f[i] = q /\ g[i] = l
    <3> SUFFICES ASSUME NEW q \in DOMAIN reports', NEW l \in 1 .. reports'[q].stored
                 PROVE  \E i \in DOMAIN table' : f[i] = q /\ g[i] = l
      OBVIOUS
    <3>1. q \in DOMAIN reports
      BY <1>6
    <3>2. \E i \in 1 .. L + 1 : f[i] = q /\ g[i] = l
      BY <1>16, <3>1
    <3> QED BY <1>7, <3>2
  <2> QED BY <2>1, <2>2, <2>3, <2>4 DEF Traces
<1> QED BY <1>9, <1>17 DEF IInv, Traced

LEMMA FailKeeps ==
  ASSUME IInv, NEW r \in DOMAIN reports, Fail(r)
  PROVE  IInv'
<1>1. Shape /\ reports[r] \in ReportsMade /\ Kept(reports[r], clock)
  BY DEF IInv, Shape
<1>2. /\ clock' = clock /\ table' = table
      /\ reports' = [reports EXCEPT ![r] = [@ EXCEPT !.stored = reports[r].stored,
                                                    !.open = FALSE]]
  <2>1. reports[r] = [reports[r] EXCEPT !.stored = reports[r].stored]
    BY <1>1 DEF ReportsMade
  <2>2. reports' = [reports EXCEPT ![r] = [@ EXCEPT !.open = FALSE]]
    BY DEF Fail
  <2> QED BY <2>1, <2>2 DEF Fail
<1>3. /\ reports' \in Seq(ReportsMade) /\ DOMAIN reports' = DOMAIN reports
      /\ \A q \in DOMAIN reports : q # r => reports'[q] = reports[q]
      /\ reports'[r].stored = reports[r].stored /\ reports'[r].open = FALSE
      /\ \A q \in DOMAIN reports : /\ reports'[q].at = reports[q].at
                                   /\ Rows(reports'[q]) = Rows(reports[q])
  <2>1. reports[r].stored \in Nat
    BY <1>1 DEF ReportsMade
  <2> QED BY <1>1, <1>2, <2>1, ReportChanges
<1>4. Shape'
  <2>1. \A q \in DOMAIN reports' : Kept(reports'[q], clock)
    BY <1>1, <1>3 DEF Shape, Kept
  <2> QED BY <1>1, <1>2, <1>3, <2>1 DEF Shape
<1>5. PICK from, nth : Traces(from, nth, table, reports)
  BY DEF IInv, Traced
<1>6. \A q \in DOMAIN reports : reports'[q].stored = reports[q].stored
  BY <1>3
<1>7. Traces(from, nth, table, reports')
  <2>1. \A i \in DOMAIN table : IsRow(table[i], reports'[from[i]], nth[i])
    BY <1>3, <1>5, <1>6 DEF Traces, IsRow
  <2> QED BY <1>3, <1>5, <1>6, <2>1 DEF Traces
<1> QED BY <1>2, <1>4, <1>7 DEF IInv, Traced

LEMMA TickKeeps ==
  ASSUME IInv, Tick
  PROVE  IInv'
<1>1. clock < MaxClock /\ clock' = clock + 1 /\ reports' = reports /\ table' = table
  BY DEF Tick
<1>2. clock \in 0 .. MaxClock /\ MaxClock \in Nat /\ Shape
  BY MetricsAssumption DEF IInv, Shape
<1>3. ASSUME NEW r \in DOMAIN reports PROVE Kept(reports[r], clock')
  <2>1. Kept(reports[r], clock) /\ 0 .. clock \subseteq 0 .. clock'
    BY <1>1, <1>2 DEF Shape
  <2> QED BY <2>1 DEF Kept
<1>4. Shape'
  BY <1>1, <1>2, <1>3 DEF Shape
<1> QED BY <1>1, <1>4 DEF IInv, Traced

LEMMA Invariant == Spec => []IInv
<1>1. Init => IInv
  <2> SUFFICES ASSUME Init PROVE IInv
    OBVIOUS
  <2>1. Shape
    BY MetricsAssumption DEF Init, Shape
  <2>2. Traces(<<>>, <<>>, table, reports)
    BY DEF Init, Traces
  <2> QED BY <2>1, <2>2 DEF IInv, Traced
<1>2. IInv /\ [Next]_vars => IInv'
  <2> SUFFICES ASSUME IInv, [Next]_vars PROVE IInv'
    OBVIOUS
  <2>1. ASSUME NEW batch \in Batches, Report(batch) PROVE IInv'
    BY <2>1, ReportKeeps
  <2>2. ASSUME NEW r \in DOMAIN reports, Insert(r) \/ Fail(r) PROVE IInv'
    BY <2>2, InsertKeeps, FailKeeps
  <2>3. CASE Tick
    BY <2>3, TickKeeps
  <2>4. CASE UNCHANGED vars
    BY <2>4 DEF IInv, Shape, Traced, vars
  <2> QED BY <2>1, <2>2, <2>3, <2>4 DEF Next, Done
<1> QED BY <1>1, <1>2, PTL DEF Spec

\* A report has one row per statement, however its executions were interleaved: the
\* sort brings the executions of a statement together, so that the runs group_by
\* makes are whole groups (sys_assistant_client.rs:78-82).
THEOREM RowPerStatement == Spec => []OneRowPerStatement
<1>1. IInv => OneRowPerStatement
  <2> SUFFICES ASSUME IInv, NEW i \in DOMAIN reports, NEW rows,
                      rows = Condensed(reports[i].batch),
                      NEW j \in DOMAIN rows, NEW k \in DOMAIN rows, rows[j].p = rows[k].p
               PROVE  j = k
    BY DEF OneRowPerStatement
  <2>1. reports[i].batch \in Batches
    <3>1. reports[i] \in ReportsMade
      BY DEF IInv, Shape
    <3> QED BY <3>1 DEF ReportsMade
  <2> QED BY <2>1, RowsAre DEF Rows
<1> QED BY <1>1, Invariant, PTL

\* A row of the table is one of its report.
LEMMA TableRowIs ==
  ASSUME Shape, NEW from, NEW nth, Traces(from, nth, table, reports), NEW i \in DOMAIN table
  PROVE  /\ from[i] \in DOMAIN reports /\ RowFits(table[i], reports[from[i]])
         /\ nth[i] \in 1 .. reports[from[i]].stored
         /\ nth[i] \in DOMAIN Rows(reports[from[i]])
         /\ table[i].p = Rows(reports[from[i]])[nth[i]].p
         /\ table[i].at = reports[from[i]].at[nth[i]] /\ table[i].at \in 0 .. clock
<1>1. from[i] \in DOMAIN reports /\ IsRow(table[i], reports[from[i]], nth[i])
  BY DEF Traces
<1>2. Kept(reports[from[i]], clock)
  BY <1>1 DEF Shape
<1>3. nth[i] \in 1 .. reports[from[i]].stored /\ nth[i] \in DOMAIN Rows(reports[from[i]])
  BY <1>1, <1>2 DEF IsRow, Kept
<1> QED BY <1>1, <1>3, RowIs DEF IsRow

\* Every row has its types: a duration of any length is brought into an i32 by the
\* casts, the average is not negative, and a row counts no more hits than executions;
\* what is stored of a report is rows of it, stamped in the past
\* (avg.rs:14-45, vt_node_controller.rs:45-62, entity metric_history.rs).
THEOREM Types == Spec => []TypeOK
<1>1. IInv => TypeOK
  <2> SUFFICES ASSUME IInv PROVE TypeOK
    OBVIOUS
  <2>1. ASSUME NEW r \in DOMAIN reports, NEW report, report = reports[r]
        PROVE  /\ report.stored \in Nat /\ 1 .. report.stored \subseteq DOMAIN Rows(report)
               /\ report.at \in [DOMAIN Rows(report) -> 0 .. clock]
               /\ (report.open => report.stored + 1 \in DOMAIN Rows(report))
    <3>1. report \in ReportsMade /\ Kept(report, clock)
      BY <2>1 DEF IInv, Shape
    <3> QED BY <3>1 DEF ReportsMade, Kept
  <2>2. ASSUME NEW i \in DOMAIN table
        PROVE  /\ table[i].p \in Patterns /\ table[i].at \in 0 .. clock
               /\ {table[i].max, table[i].min} \subseteq (-Half) .. (Half - 1)
               /\ table[i].avg \in 0 .. Half - 1
               /\ table[i].hits <= table[i].count
    <3>1. table[i] \in TableRows /\ Shape
      BY DEF IInv, Shape
    <3>2. PICK from, nth : Traces(from, nth, table, reports)
      BY DEF IInv, Traced
    <3> DEFINE report == reports[from[i]]
               ks == Of(report.batch, table[i].p)
               hits == {k \in ks : report.batch[k].hit}
    <3>3. from[i] \in DOMAIN reports /\ RowFits(table[i], report) /\ table[i].at \in 0 .. clock
      BY <3>1, <3>2, TableRowIs
    <3>4. IsFiniteSet(ks) /\ hits \subseteq ks
      <4>1. report.batch \in Batches
        <5>1. report \in ReportsMade
          BY <3>1, <3>3 DEF Shape
        <5> QED BY <5>1 DEF ReportsMade
      <4> HIDE DEF report
      <4>2. DOMAIN report.batch = 1 .. Len(report.batch) /\ Len(report.batch) \in 1 .. MaxExecs
        BY <4>1, BatchIs
      <4>3. \A n \in Nat : IsFiniteSet(1 .. n)
        BY FS_Interval
      <4> QED BY <4>2, <4>3, FS_Subset DEF Of
    <3>5. table[i].hits = Cardinality(hits) /\ table[i].count = Cardinality(ks)
      BY <3>3 DEF RowFits
    <3> HIDE DEF ks, hits
    <3>6. table[i].hits <= table[i].count
      BY <3>4, <3>5, FS_Subset
    <3> QED BY <3>1, <3>3, <3>6 DEF TableRows, I32
  <2>3. clock \in 0 .. MaxClock
    BY DEF IInv, Shape
  <2> QED BY <2>1, <2>2, <2>3 DEF TypeOK
<1> QED BY <1>1, Invariant, PTL

-----------------------------------------------------------------------------
(***************************************************************************)
(* The chart.                                                              *)
(***************************************************************************)
LEMMA Clock ==
  ASSUME Shape
  PROVE  /\ clock \in Nat /\ MinuteOf(clock) \in Int
         /\ Minute \in Nat \ {0} /\ Window \in Nat \ {0} /\ Day \in Nat \ {0} /\ Day >= Window
<1>1. clock \in Nat
  BY MetricsAssumption DEF Shape
<1>2. Minute \in Nat \ {0} /\ Window \in Nat \ {0} /\ Day \in Nat \ {0} /\ Day >= Window
  BY MetricsAssumption
<1>3. MinuteOf(clock) \in Int
  BY <1>1, <1>2, Division DEF MinuteOf
<1> QED BY <1>1, <1>2, <1>3

LEMMA MinutesAre ==
  ASSUME Shape
  PROVE  /\ ChartMinutes = (MinuteOf(clock) - Window) + 1 .. MinuteOf(clock)
         /\ IsFiniteSet(ChartMinutes)
<1> DEFINE M == MinuteOf(clock)
<1>1. M \in Int /\ Window \in Nat \ {0}
  BY Clock
<1> HIDE DEF M
<1>2. {M - i : i \in 0 .. Window - 1} = (M - Window) + 1 .. M
  <2>1. ASSUME NEW i \in 0 .. Window - 1 PROVE M - i \in (M - Window) + 1 .. M
    BY <1>1
  <2>2. ASSUME NEW m \in (M - Window) + 1 .. M
        PROVE  \E i \in 0 .. Window - 1 : m = M - i
    <3>1. M - m \in 0 .. Window - 1 /\ m = M - (M - m)
      BY <1>1
    <3> QED BY <3>1
  <2> QED BY <2>1, <2>2
<1>3. ChartMinutes = (M - Window) + 1 .. M
  BY <1>2 DEF ChartMinutes, M
<1>4. IsFiniteSet((M - Window) + 1 .. M)
  BY <1>1, FS_Interval
<1> QED BY <1>3, <1>4 DEF M

\* A later minute of the same day has the greater label.
LEMMA Labels ==
  ASSUME Shape, NEW a \in Int, NEW b \in Int
  PROVE  /\ Label(a) \in Nat /\ Label(b) \in Nat
         /\ a >= b /\ Label(a) < Label(b) => a \div Day > b \div Day
         /\ a < b /\ b - a < Day => Label(a) # Label(b)
<1> DEFINE qa == a \div Day
           qb == b \div Day
<1>1. Day \in Nat \ {0}
  BY Clock
<1>2. /\ qa \in Int /\ Label(a) \in 0 .. Day - 1 /\ a = (Day * qa) + Label(a)
      /\ qb \in Int /\ Label(b) \in 0 .. Day - 1 /\ b = (Day * qb) + Label(b)
  BY <1>1, Division DEF Label
<1> HIDE DEF qa, qb
<1>3. ASSUME a >= b, Label(a) < Label(b), ~(qa > qb) PROVE FALSE
  <2>1. qa <= qb
    BY <1>2, <1>3
  <2>2. Day * qa <= Day * qb /\ Day * qa \in Int /\ Day * qb \in Int
    BY <1>1, <1>2, <2>1, Products
  <2> QED BY <1>2, <1>3, <2>2
<1>4. ASSUME a < b, b - a < Day, Label(a) = Label(b) PROVE FALSE
  <2>1. Day * qa \in Int /\ Day * qb \in Int
    BY <1>1, <1>2, Products
  <2>2. Day * qa < Day * qb /\ Day * qb < (Day * qa) + Day
    <3> DEFINE P == Day * qa
               Q == Day * qb
    <3>1. P \in Int /\ Q \in Int /\ a = P + Label(a) /\ b = Q + Label(b)
      BY <1>2, <2>1
    <3> HIDE DEF P, Q
    <3>2. P < Q /\ Q < P + Day
      BY <1>1, <1>2, <1>4, <3>1
    <3> QED BY <3>2 DEF P, Q
  <2>3. Day * (qa + 1) = (Day * qa) + Day
    BY <1>1, <1>2
  <2>4. CASE qb <= qa
    <3>1. Day * qb <= Day * qa
      BY <1>1, <1>2, <2>4, Products
    <3> QED BY <2>1, <2>2, <3>1
  <2>5. CASE qa + 1 <= qb
    <3>1. Day * (qa + 1) <= Day * qb
      BY <1>1, <1>2, <2>5, Products
    <3> QED BY <1>1, <2>1, <2>2, <2>3, <3>1
  <2> QED BY <1>2, <2>4, <2>5
<1>5. Label(a) \in Nat /\ Label(b) \in Nat
  BY <1>1, <1>2
<1>6. a >= b /\ Label(a) < Label(b) => qa > qb
  BY <1>3
<1>7. a < b /\ b - a < Day => Label(a) # Label(b)
  BY <1>4
<1> QED BY <1>5, <1>6, <1>7 DEF qa, qb

LEMMA ByLabelIs ==
  ASSUME NEW S, IsFiniteSet(S), \A x \in S : Label(x) \in Nat,
         \A x, y \in S : x # y => Label(x) # Label(y),
         NEW order, order = ByLabel(S)
  PROVE  /\ order \in [1 .. Cardinality(S) -> S] /\ Cardinality(S) \in Nat
         /\ \A i, j \in 1 .. Cardinality(S) : i < j => Label(order[i]) < Label(order[j])
         /\ \A x \in S : \E i \in 1 .. Cardinality(S) : order[i] = x
<1> DEFINE R == {xy \in S \X S : Label(xy[1]) < Label(xy[2])}
           InPlace(t) == \A i, j \in DOMAIN t : i < j => Label(t[i]) < Label(t[j])
<1>1. \A x, y \in S : <<x, y>> \in R <=> Label(x) < Label(y)
  OBVIOUS
<1> HIDE DEF R
<1>2. /\ \A x \in S : <<x, x>> \notin R
      /\ \A x, y, z \in S : <<x, y>> \in R /\ <<y, z>> \in R => <<x, z>> \in R
      /\ \A x, y \in S : x = y \/ <<x, y>> \in R \/ <<y, x>> \in R
  BY <1>1
<1>3. PICK u \in [1 .. Cardinality(S) -> S] :
             \A i, j \in 1 .. Cardinality(S) : i < j => <<u[i], u[j]>> \in R
  BY <1>2, Listable
<1>4. order \in [1 .. Cardinality(S) -> S] /\ InPlace(order)
  <2>1. InPlace(u)
    BY <1>1, <1>3
  <2>2. order = CHOOSE t \in [1 .. Cardinality(S) -> S] : InPlace(t)
    BY DEF ByLabel, InOrder
  <2> HIDE DEF InPlace
  <2> QED BY <1>3, <2>1, <2>2
<1>5. \A i, j \in 1 .. Cardinality(S) : i < j => order[i] # order[j]
  <2> SUFFICES ASSUME NEW i \in 1 .. Cardinality(S), NEW j \in 1 .. Cardinality(S), i < j
               PROVE  order[i] # order[j]
    OBVIOUS
  <2>1. Label(order[i]) < Label(order[j]) /\ Label(order[i]) \in Nat
    BY <1>4
  <2> QED BY <2>1
<1>6. Cardinality(S) \in Nat /\ \A x \in S : \E i \in 1 .. Cardinality(S) : order[i] = x
  <2>1. order \in [1 .. Cardinality(S) -> S]
    BY <1>4
  <2> QED BY <1>5, <2>1, AllListed
<1> QED BY <1>4, <1>6

\* The lines of the chart: one for each minute, in the order of the labels.
LEMMA ChartIs ==
  ASSUME Shape, NEW p, NEW chart, chart = Chart(p)
  PROVE  /\ DOMAIN chart \subseteq Nat
         /\ \A i \in DOMAIN chart :
              \E m \in ChartMinutes : chart[i] = Line(p, m) /\ chart[i].minute = m
         /\ \A m \in ChartMinutes : \E i \in DOMAIN chart : chart[i].minute = m
         /\ \A i, j \in DOMAIN chart : i < j => Label(chart[i].minute) < Label(chart[j].minute)
<1> SUFFICES ASSUME NEW S, S = ChartMinutes
             PROVE  /\ DOMAIN chart \subseteq Nat
                    /\ \A i \in DOMAIN chart :
                         \E m \in S : chart[i] = Line(p, m) /\ chart[i].minute = m
                    /\ \A m \in S : \E i \in DOMAIN chart : chart[i].minute = m
                    /\ \A i, j \in DOMAIN chart :
                         i < j => Label(chart[i].minute) < Label(chart[j].minute)
  OBVIOUS
<1> DEFINE order == ByLabel(S)
<1>1. IsFiniteSet(S) /\ S = (MinuteOf(clock) - Window) + 1 .. MinuteOf(clock)
  BY MinutesAre
<1>2. MinuteOf(clock) \in Int /\ Window \in Nat /\ Day \in Nat /\ Day >= Window
  BY Clock
<1>3. S \subseteq Int /\ \A x, y \in S : y - x < Day
  BY <1>1, <1>2
<1>4. \A x \in S : Label(x) \in Nat
  BY <1>3, Labels
<1>5. ASSUME NEW x \in S, NEW y \in S, x # y PROVE Label(x) # Label(y)
  <2>1. CASE x < y
    BY <1>3, <2>1, Labels
  <2>2. CASE y < x
    BY <1>3, <2>2, Labels
  <2> QED BY <1>3, <1>5, <2>1, <2>2
<1>6. chart = [i \in DOMAIN order |-> Line(p, order[i])]
  BY DEF Chart
<1>7. /\ order \in [1 .. Cardinality(S) -> S] /\ Cardinality(S) \in Nat
      /\ \A i, j \in 1 .. Cardinality(S) : i < j => Label(order[i]) < Label(order[j])
      /\ \A x \in S : \E i \in 1 .. Cardinality(S) : order[i] = x
  BY <1>1, <1>4, <1>5, ByLabelIs
<1> HIDE DEF order
<1>8. \A m : Line(p, m).minute = m
  BY DEF Line
<1>9. DOMAIN chart = 1 .. Cardinality(S)
  BY <1>6, <1>7
<1>10. \A i \in DOMAIN chart :
         order[i] \in S /\ chart[i] = Line(p, order[i]) /\ chart[i].minute = order[i]
  BY <1>6, <1>7, <1>8
<1> QED BY <1>7, <1>9, <1>10

\* The lines are in the order of time, except that over midnight the minutes of the
\* new day come first: the query orders by the formatted minute, and the window is
\* not longer than a day (metric_history_controller.rs:73, 123).
THEOREM OrderOfLines == Spec => []ChartInOrder
<1>1. IInv => ChartInOrder
  <2> SUFFICES ASSUME IInv, NEW p \in Folds, NEW chart, chart = Chart(p),
                      NEW i \in DOMAIN chart, NEW j \in DOMAIN chart,
                      i < j, chart[i].minute >= chart[j].minute
               PROVE  chart[i].minute \div Day > chart[j].minute \div Day
    BY DEF ChartInOrder
  <2>1. Shape
    BY DEF IInv
  <2>2. /\ \E m \in ChartMinutes : chart[i] = Line(p, m) /\ chart[i].minute = m
        /\ \E m \in ChartMinutes : chart[j] = Line(p, m) /\ chart[j].minute = m
        /\ Label(chart[i].minute) < Label(chart[j].minute)
    BY <2>1, ChartIs
  <2>3. ChartMinutes \subseteq Int
    BY <2>1, MinutesAre, Clock
  <2>4. chart[i].minute \in Int /\ chart[j].minute \in Int
    BY <2>2, <2>3
  <2> QED BY <2>1, <2>2, <2>4, Labels
<1> QED BY <1>1, Invariant, PTL

\* The executions of a row.
OfRow(from, i) == {e \in Executions : e[1] = from[i] /\ Exec(e).p = table[i].p}

HitsIn(xs) == {e \in xs : Exec(e).hit}

LEMMA RowsInIs ==
  ASSUME Shape, NEW f, NEW m \in ChartMinutes
  PROVE  RowsIn(f, m) =
           {i \in DOMAIN table : Fold[table[i].p] = f /\ MinuteOf(table[i].at) = m}
<1> DEFINE M == MinuteOf(clock)
<1>1. M \in Int /\ Window \in Nat \ {0} /\ Minute \in Nat \ {0}
  BY Clock
<1>2. m \in (M - Window) + 1 .. M
  BY MinutesAre
<1>3. ASSUME NEW i \in DOMAIN table, MinuteOf(table[i].at) = m PROVE Recent(table[i])
  <2>1. table[i] \in TableRows
    BY DEF Shape
  <2>2. table[i].at \in Nat
    BY <2>1 DEF TableRows
  <2> DEFINE at == table[i].at
  <2> HIDE DEF at, M
  <2>3. at \in Int /\ m = at \div Minute
    BY <1>3, <2>2 DEF MinuteOf, at
  <2>4. at % Minute \in 0 .. Minute - 1 /\ at = (Minute * m) + (at % Minute) /\ m \in Int
    BY <1>1, <2>3, Division
  <2>5. M - Window < m /\ M - Window \in Int
    BY <1>1, <1>2
  <2>6. Minute * ((M - Window) + 1) <= Minute * m /\ Minute * m \in Int
    BY <1>1, <2>4, <2>5, Products
  <2>7. /\ Minute * ((M - Window) + 1) = (Minute * (M - Window)) + Minute
        /\ Minute * (M - Window) \in Int /\ (M - Window) * Minute = Minute * (M - Window)
    BY <1>1, <2>5
  <2>8. at > (M - Window) * Minute
    BY <1>1, <2>3, <2>4, <2>6, <2>7
  <2> QED BY <2>8 DEF Recent, at, M
<1> QED BY <1>3 DEF RowsIn

\* The k-th execution of the row's report is an execution of the row if it is of the
\* row's statement, and there is no other.
LEMMA OfRowIs ==
  ASSUME Shape, NEW from, NEW nth, Traces(from, nth, table, reports), NEW i \in DOMAIN table,
         NEW batch, batch = reports[from[i]].batch, NEW ks, ks = Of(batch, table[i].p)
  PROVE  /\ \A k \in ks : /\ <<from[i], k>> \in OfRow(from, i)
                          /\ Exec(<<from[i], k>>) = batch[k] /\ batch[k].d \in Nat
         /\ \A e \in OfRow(from, i) : \E k \in ks : e = <<from[i], k>>
         /\ IsFiniteSet(ks)
<1>1. from[i] \in DOMAIN reports
  BY TableRowIs
<1>2. reports[from[i]] \in ReportsMade
  BY <1>1 DEF Shape
<1>3. batch \in Batches
  BY <1>2 DEF ReportsMade
<1>4. batch \in Seq(Samples) /\ DOMAIN batch = 1 .. Len(batch) /\ Len(batch) \in 1 .. MaxExecs
  BY <1>3, BatchIs
<1>5. MaxExecs \in Nat
  BY MetricsAssumption
<1>6. DOMAIN batch \subseteq 1 .. MaxExecs
  BY <1>4, <1>5
<1>7. ASSUME NEW k \in ks
      PROVE  /\ <<from[i], k>> \in OfRow(from, i)
             /\ Exec(<<from[i], k>>) = batch[k] /\ batch[k].d \in Nat
  <2>1. k \in DOMAIN batch /\ batch[k].p = table[i].p
    BY DEF Of
  <2>2. Exec(<<from[i], k>>) = batch[k]
    BY DEF Exec
  <2>3. <<from[i], k>> \in Executions
    BY <1>1, <1>6, <2>1 DEF Executions
  <2>4. batch[k].d \in Nat
    <3>1. batch[k] \in Samples
      BY <1>4, <2>1
    <3> QED BY <3>1, SampleTypes
  <2> QED BY <2>1, <2>2, <2>3, <2>4 DEF OfRow
<1>8. ASSUME NEW e \in OfRow(from, i) PROVE \E k \in ks : e = <<from[i], k>>
  <2>1. /\ e \in (DOMAIN reports) \X (1 .. MaxExecs) /\ e[2] \in DOMAIN reports[e[1]].batch
        /\ e[1] = from[i] /\ Exec(e).p = table[i].p
    BY DEF OfRow, Executions
  <2>2. e[2] \in DOMAIN batch /\ batch[e[2]].p = table[i].p
    BY <2>1 DEF Exec
  <2>3. e[2] \in ks
    BY <2>2 DEF Of
  <2>4. e = <<from[i], e[2]>>
    BY <2>1
  <2> QED BY <2>3, <2>4
<1>9. IsFiniteSet(ks)
  <2>1. IsFiniteSet(1 .. Len(batch)) /\ ks \subseteq 1 .. Len(batch)
    BY <1>4, FS_Interval DEF Of
  <2> QED BY <2>1, FS_Subset
<1> QED BY <1>7, <1>8, <1>9

\* What a row says of its executions.
LEMMA RowTells ==
  ASSUME Shape, NEW from, NEW nth, Traces(from, nth, table, reports), NEW i \in DOMAIN table,
         NEW xs, xs = OfRow(from, i)
  PROVE  /\ xs # {} /\ IsFiniteSet(xs) /\ IsFiniteSet(HitsIn(xs))
         /\ table[i].count = Cardinality(xs)
         /\ table[i].hits = Cardinality(HitsIn(xs))
         /\ (\A e \in xs : Exec(e).d < Half) =>
              /\ \E e \in xs : table[i].max = Exec(e).d
              /\ \E e \in xs : table[i].min = Exec(e).d
              /\ \A e \in xs : table[i].min <= Exec(e).d /\ Exec(e).d <= table[i].max
              /\ table[i].min <= table[i].avg /\ table[i].avg <= table[i].max
<1> DEFINE batch == reports[from[i]].batch
           ks == Of(batch, table[i].p)
           f == [k \in ks |-> <<from[i], k>>]
<1>1. /\ \A k \in ks : /\ <<from[i], k>> \in OfRow(from, i)
                       /\ Exec(<<from[i], k>>) = batch[k] /\ batch[k].d \in Nat
      /\ \A e \in OfRow(from, i) : \E k \in ks : e = <<from[i], k>>
      /\ IsFiniteSet(ks)
  BY OfRowIs
<1>2. RowFits(table[i], reports[from[i]])
  BY TableRowIs
<1>3. /\ ks # {}
      /\ table[i].count = Cardinality(ks)
      /\ table[i].hits = Cardinality({k \in ks : batch[k].hit})
      /\ (\A k \in ks : batch[k].d < Half) =>
           /\ \E k \in ks : table[i].max = batch[k].d
           /\ \E k \in ks : table[i].min = batch[k].d
           /\ \A k \in ks : table[i].min <= batch[k].d /\ batch[k].d <= table[i].max
           /\ table[i].min <= table[i].avg /\ table[i].avg <= table[i].max
  BY <1>2 DEF RowFits
<1> HIDE DEF ks, batch
<1>4. \A k \in ks : f[k] \in xs /\ Exec(f[k]) = batch[k]
  BY <1>1
<1>5. \A e \in xs : \E k \in ks : f[k] = e
  BY <1>1
<1>6. \A k, l \in ks : f[k] = f[l] => k = l
  OBVIOUS
<1>7. f \in [ks -> xs]
  BY <1>4
<1> HIDE DEF f
<1>8. IsFiniteSet(xs) /\ Cardinality(xs) = Cardinality(ks)
  BY <1>1, <1>5, <1>6, <1>7, SameSize
<1> DEFINE hs == {k \in ks : batch[k].hit}
           h == [k \in hs |-> f[k]]
<1>9. IsFiniteSet(HitsIn(xs)) /\ Cardinality(HitsIn(xs)) = Cardinality(hs)
  <2>1. IsFiniteSet(hs)
    BY <1>1, FS_Subset
  <2>2. h \in [hs -> HitsIn(xs)]
    BY <1>4 DEF HitsIn
  <2>3. \A e \in HitsIn(xs) : \E k \in hs : h[k] = e
    BY <1>4, <1>5 DEF HitsIn
  <2>4. \A k, l \in hs : h[k] = h[l] => k = l
    BY <1>6
  <2> HIDE DEF h, hs
  <2> QED BY <2>1, <2>2, <2>3, <2>4, SameSize
<1>10. xs # {}
  BY <1>3, <1>4
<1>11. ASSUME \A e \in xs : Exec(e).d < Half
       PROVE  /\ \E e \in xs : table[i].max = Exec(e).d
              /\ \E e \in xs : table[i].min = Exec(e).d
              /\ \A e \in xs : table[i].min <= Exec(e).d /\ Exec(e).d <= table[i].max
              /\ table[i].min <= table[i].avg /\ table[i].avg <= table[i].max
  <2>1. \A k \in ks : batch[k].d < Half
    BY <1>4, <1>11
  <2>2. /\ \E e \in xs : table[i].max = Exec(e).d
        /\ \E e \in xs : table[i].min = Exec(e).d
    BY <1>3, <1>4, <2>1
  <2>3. ASSUME NEW e \in xs PROVE table[i].min <= Exec(e).d /\ Exec(e).d <= table[i].max
    <3>1. PICK k \in ks : f[k] = e
      BY <1>5
    <3> QED BY <1>3, <1>4, <2>1, <3>1
  <2> QED BY <1>3, <2>1, <2>2, <2>3
<1> QED BY <1>3, <1>8, <1>9, <1>10, <1>11

\* The executions a minute counts are those of its rows, and no execution is of two rows.
LEMMA Covered ==
  ASSUME Shape, NEW from, NEW nth, Traces(from, nth, table, reports), NEW f,
         NEW m \in ChartMinutes
  PROVE  /\ \A i \in RowsIn(f, m) : OfRow(from, i) \subseteq Counted(f, m)
         /\ \A e \in Counted(f, m) : \E i \in RowsIn(f, m) : e \in OfRow(from, i)
         /\ \A i, j \in DOMAIN table : i # j => OfRow(from, i) \cap OfRow(from, j) = {}
<1>1. RowsIn(f, m) = {i \in DOMAIN table : Fold[table[i].p] = f /\ MinuteOf(table[i].at) = m}
  BY RowsInIs
<1>2. ASSUME NEW i \in DOMAIN table
      PROVE  /\ from[i] \in DOMAIN reports /\ nth[i] \in 1 .. reports[from[i]].stored
             /\ nth[i] \in DOMAIN Rows(reports[from[i]])
             /\ table[i].p = Rows(reports[from[i]])[nth[i]].p
             /\ table[i].at = reports[from[i]].at[nth[i]]
  BY TableRowIs
<1>3. ASSUME NEW i \in RowsIn(f, m), NEW e \in OfRow(from, i) PROVE e \in Counted(f, m)
  <2> DEFINE x == <<from[i], nth[i]>>
  <2>1. i \in DOMAIN table /\ Fold[table[i].p] = f /\ MinuteOf(table[i].at) = m
    BY <1>1
  <2>2. e \in Executions /\ e[1] = from[i] /\ Exec(e).p = table[i].p
    BY DEF OfRow
  <2>3. x \in RowsStored /\ x[1] = from[i] /\ x[2] = nth[i]
    BY <1>2, <2>1 DEF RowsStored
  <2> HIDE DEF x
  <2> QED BY <1>2, <2>1, <2>2, <2>3 DEF Counted
<1>4. ASSUME NEW e \in Counted(f, m) PROVE \E i \in RowsIn(f, m) : e \in OfRow(from, i)
  <2>1. e \in Executions /\ Fold[Exec(e).p] = f
    BY DEF Counted
  <2>2. PICK x \in RowsStored :
          /\ x[1] = e[1] /\ Rows(reports[x[1]])[x[2]].p = Exec(e).p
          /\ MinuteOf(reports[x[1]].at[x[2]]) = m
    BY DEF Counted
  <2>3. x[1] \in DOMAIN reports /\ x[2] \in 1 .. reports[x[1]].stored
    BY DEF RowsStored
  <2>4. PICK i \in DOMAIN table : from[i] = x[1] /\ nth[i] = x[2]
    BY <2>3 DEF Traces
  <2>5. table[i].p = Exec(e).p /\ MinuteOf(table[i].at) = m
    BY <1>2, <2>2, <2>4
  <2> QED BY <1>1, <2>1, <2>2, <2>4, <2>5 DEF OfRow
<1>5. ASSUME NEW i \in DOMAIN table, NEW j \in DOMAIN table, NEW e \in OfRow(from, i),
             e \in OfRow(from, j)
      PROVE  i = j
  <2>1. from[i] = from[j] /\ table[i].p = table[j].p
    BY <1>5 DEF OfRow
  <2>2. reports[from[i]].batch \in Batches
    <3>1. reports[from[i]] \in ReportsMade
      BY <1>2 DEF Shape
    <3> QED BY <3>1 DEF ReportsMade
  <2>3. nth[i] = nth[j]
    <3> SUFFICES ASSUME NEW rows, rows = Rows(reports[from[i]]) PROVE nth[i] = nth[j]
      OBVIOUS
    <3>1. nth[i] \in DOMAIN rows /\ nth[j] \in DOMAIN rows /\ rows[nth[i]].p = rows[nth[j]].p
      BY <1>2, <2>1
    <3> QED BY <2>2, <3>1, RowsAre
  <2> QED BY <2>1, <2>3 DEF Traces
<1> QED BY <1>3, <1>4, <1>5

\* The f of the rows in I are the sizes of disjoint sets.
AreSizes(I, f, A) ==
  /\ I \subseteq DOMAIN table
  /\ \A i \in I : IsFiniteSet(A[i]) /\ table[i][f] = Cardinality(A[i])
  /\ \A i, j \in I : i # j => A[i] \cap A[j] = {}

LEMMA TotalOfSizes ==
  ASSUME Shape, NEW I, NEW f, NEW A, AreSizes(I, f, A)
  PROVE  Total(I, f) = Cardinality(UNION {A[i] : i \in I})
<1> DEFINE L == Len(table)
           s == [i \in DOMAIN table |-> IF i \in I THEN table[i][f] ELSE 0]
           B == [i \in DOMAIN table |-> IF i \in I THEN A[i] ELSE {}]
<1>1. L \in Nat /\ DOMAIN table = 1 .. L
  BY DEF Shape
<1>2. \A i \in DOMAIN table : IsFiniteSet(B[i]) /\ s[i] = Cardinality(B[i])
  <2>1. IsFiniteSet({}) /\ Cardinality({}) = 0
    BY FS_EmptySet
  <2> QED BY <2>1 DEF AreSizes
<1>3. \A i \in DOMAIN table : s[i] \in Int
  <2>1. \A i \in DOMAIN table : Cardinality(B[i]) \in Nat
    BY <1>2, FS_CardinalityType
  <2> QED BY <1>2, <2>1
<1>4. s \in Seq(Int) /\ DOMAIN s = DOMAIN table
  <2>1. s \in [1 .. L -> Int]
    BY <1>1, <1>3
  <2> QED BY <1>1, <2>1
<1>5. \A i, j \in DOMAIN table : i # j => B[i] \cap B[j] = {}
  BY DEF AreSizes
<1>6. DOMAIN B = DOMAIN table
  OBVIOUS
<1>7. UNION {B[i] : i \in DOMAIN table} = UNION {A[i] : i \in I}
  BY DEF AreSizes
<1>8. Total(I, f) = SumOf(s)
  BY DEF Total
<1> HIDE DEF s, B
<1>9. \A t, C : /\ t \in Seq(Int) /\ DOMAIN C = DOMAIN t
                /\ \A i \in DOMAIN t : IsFiniteSet(C[i]) /\ t[i] = Cardinality(C[i])
                /\ \A i, j \in DOMAIN t : i # j => C[i] \cap C[j] = {}
                => SumOf(t) = Cardinality(UNION {C[i] : i \in DOMAIN t})
  BY SumOfSizes
<1>10. SumOf(s) = Cardinality(UNION {B[i] : i \in DOMAIN s})
  BY <1>2, <1>4, <1>5, <1>6, <1>9
<1> QED BY <1>4, <1>7, <1>8, <1>10

LEMMA LineCounts ==
  ASSUME IInv, NEW p, NEW m \in ChartMinutes, NEW xs, xs = Counted(p, m)
  PROVE  /\ Line(p, m).count = Cardinality(xs)
         /\ Line(p, m).hits = Cardinality(HitsIn(xs))
<1> DEFINE I == RowsIn(p, m)
<1>1. Shape
  BY DEF IInv
<1>2. PICK from, nth : Traces(from, nth, table, reports)
  BY DEF IInv, Traced
<1> DEFINE A == [i \in I |-> OfRow(from, i)]
           H == [i \in I |-> HitsIn(OfRow(from, i))]
<1>3. I \subseteq DOMAIN table
  BY DEF RowsIn
<1>4. /\ \A i \in I : OfRow(from, i) \subseteq xs
      /\ \A e \in xs : \E i \in I : e \in OfRow(from, i)
      /\ \A i, j \in DOMAIN table : i # j => OfRow(from, i) \cap OfRow(from, j) = {}
  BY <1>1, <1>2, Covered
<1>5. ASSUME NEW i \in I
      PROVE  /\ OfRow(from, i) # {} /\ IsFiniteSet(OfRow(from, i))
             /\ IsFiniteSet(HitsIn(OfRow(from, i)))
             /\ table[i].count = Cardinality(OfRow(from, i))
             /\ table[i].hits = Cardinality(HitsIn(OfRow(from, i)))
  <2>1. i \in DOMAIN table
    BY <1>3
  <2> HIDE DEF I
  <2> QED BY <1>1, <1>2, <2>1, RowTells
<1> HIDE DEF I
<1>6. \A i \in I : A[i] = OfRow(from, i) /\ H[i] = HitsIn(OfRow(from, i))
  OBVIOUS
<1> HIDE DEF A, H
<1>7. xs = UNION {A[i] : i \in I}
  BY <1>4, <1>6
<1>8. HitsIn(xs) = UNION {H[i] : i \in I}
  BY <1>4, <1>6 DEF HitsIn
<1>9. Total(I, "count") = Cardinality(xs)
  <2>1. \A i \in I : IsFiniteSet(A[i]) /\ table[i]["count"] = Cardinality(A[i])
    BY <1>5, <1>6
  <2>2. \A i, j \in I : i # j => A[i] \cap A[j] = {}
    BY <1>3, <1>4, <1>6
  <2>3. AreSizes(I, "count", A)
    BY <1>3, <2>1, <2>2 DEF AreSizes
  <2>4. Total(I, "count") = Cardinality(UNION {A[i] : i \in I})
    BY <1>1, <2>3, TotalOfSizes
  <2> QED BY <1>7, <2>4
<1>10. Total(I, "hits") = Cardinality(HitsIn(xs))
  <2>1. \A i \in I : IsFiniteSet(H[i]) /\ table[i]["hits"] = Cardinality(H[i])
    BY <1>5, <1>6
  <2>2. \A i, j \in I : i # j => H[i] \cap H[j] = {}
    BY <1>3, <1>4, <1>6 DEF HitsIn
  <2>3. AreSizes(I, "hits", H)
    BY <1>3, <2>1, <2>2 DEF AreSizes
  <2>4. Total(I, "hits") = Cardinality(UNION {H[i] : i \in I})
    BY <1>1, <2>3, TotalOfSizes
  <2> QED BY <1>8, <2>4
<1>11. CASE I = {}
  <2>1. xs = {} /\ HitsIn(xs) = {}
    BY <1>4, <1>11 DEF HitsIn
  <2>2. Line(p, m).count = 0 /\ Line(p, m).hits = 0
    BY <1>11 DEF Line, I
  <2> QED BY <2>1, <2>2, FS_EmptySet
<1>12. CASE I # {}
  <2>1. Line(p, m).count = Total(I, "count") /\ Line(p, m).hits = Total(I, "hits")
    BY <1>12 DEF Line, I
  <2> QED BY <1>9, <1>10, <2>1
<1> QED BY <1>11, <1>12

\* The chart has a line for every minute of the window, and it counts every execution
\* whose row was stored, in the minute of its row's stamp, once, and no other of another
\* fold; the same for the hits: the strict bound on created_at and the join on the minute
\* lose nothing at either end, and of a report that fails half way the rows before are
\* counted in full (metric_history_controller.rs:80-122, vt_node_controller.rs:45-62).
THEOREM CountsOfChart == Spec => []ChartCountsStored
<1>1. IInv => ChartCountsStored
  <2> SUFFICES ASSUME IInv, NEW p \in Folds, NEW chart, chart = Chart(p)
               PROVE  /\ {chart[i].minute : i \in DOMAIN chart} = ChartMinutes
                      /\ \A i \in DOMAIN chart :
                           LET xs == Counted(p, chart[i].minute) IN
                           /\ chart[i].count = Cardinality(xs)
                           /\ chart[i].hits = Cardinality({e \in xs : Exec(e).hit})
    BY DEF ChartCountsStored
  <2>1. Shape
    BY DEF IInv
  <2>2. /\ \A i \in DOMAIN chart :
              \E m \in ChartMinutes : chart[i] = Line(p, m) /\ chart[i].minute = m
        /\ \A m \in ChartMinutes : \E i \in DOMAIN chart : chart[i].minute = m
    BY <2>1, ChartIs
  <2>3. ASSUME NEW i \in DOMAIN chart, NEW xs, xs = Counted(p, chart[i].minute)
        PROVE  chart[i].count = Cardinality(xs) /\ chart[i].hits = Cardinality(HitsIn(xs))
    <3>1. PICK m \in ChartMinutes : chart[i] = Line(p, m) /\ chart[i].minute = m
      BY <2>2
    <3>2. xs = Counted(p, m)
      BY <2>3, <3>1
    <3> QED BY <3>1, <3>2, LineCounts
  <2>4. {chart[i].minute : i \in DOMAIN chart} = ChartMinutes
    BY <2>2
  <2> QED BY <2>3, <2>4 DEF HitsIn
<1> QED BY <1>1, Invariant, PTL

LEMMA TotalWithin ==
  ASSUME Shape, NEW I, I \subseteq DOMAIN table, NEW f, NEW lo \in Int, NEW hi \in Int,
         \A i \in I : table[i][f] \in Int /\ lo <= table[i][f] /\ table[i][f] <= hi
  PROVE  /\ Cardinality(I) \in Nat /\ Total(I, f) \in Int
         /\ Cardinality(I) * lo <= Total(I, f) /\ Total(I, f) <= Cardinality(I) * hi
<1> DEFINE L == Len(table)
           s == [i \in DOMAIN table |-> IF i \in I THEN table[i][f] ELSE 0]
<1>1. L \in Nat /\ DOMAIN table = 1 .. L
  BY DEF Shape
<1>2. s \in Seq(Int) /\ DOMAIN s = DOMAIN table
  <2>1. \A i \in DOMAIN table : (IF i \in I THEN table[i][f] ELSE 0) \in Int
    OBVIOUS
  <2>2. s \in [1 .. L -> Int]
    BY <1>1, <2>1
  <2> QED BY <1>1, <2>2
<1>3. /\ \A i \in I : lo <= s[i] /\ s[i] <= hi
      /\ \A i \in DOMAIN s \ I : s[i] = 0
      /\ I \subseteq DOMAIN s
  OBVIOUS
<1>4. Total(I, f) = SumOf(s)
  BY DEF Total
<1> HIDE DEF s
<1> QED BY <1>2, <1>3, <1>4, SumWithin

\* In every line min <= avg <= max, and min and max are those of the executions it
\* counts, as long as no duration of these overflows an i32; the average of the
\* truncated averages of several rows cannot leave the interval
\* (avg.rs:14-45, metric_history_controller.rs:96-99).
THEOREM OrderOfDurations == Spec => []DurationsInOrder
<1>1. IInv => DurationsInOrder
  <2> SUFFICES ASSUME IInv, NEW p \in Folds, NEW chart, chart = Chart(p),
                      NEW k \in DOMAIN chart, NEW line, line = chart[k],
                      NEW ds, ds = {Exec(e).d : e \in Counted(p, line.minute)},
                      ds # {}, \A d \in ds : d < Half
               PROVE  /\ line.min * line.n <= line.avgSum /\ line.avgSum <= line.max * line.n
                      /\ line.min \in ds /\ line.max \in ds
                      /\ \A d \in ds : line.min <= d /\ d <= line.max
    BY DEF DurationsInOrder
  <2>1. Shape
    BY DEF IInv
  <2>2. PICK from, nth : Traces(from, nth, table, reports)
    BY DEF IInv, Traced
  <2>3. PICK m \in ChartMinutes : line = Line(p, m) /\ line.minute = m
    BY <2>1, ChartIs
  <2> DEFINE I == RowsIn(p, m)
             xs == Counted(p, m)
  <2>4. I \subseteq DOMAIN table /\ ds = {Exec(e).d : e \in xs}
    BY <2>3 DEF RowsIn
  <2>5. /\ \A i \in I : OfRow(from, i) \subseteq xs
        /\ \A e \in xs : \E i \in I : e \in OfRow(from, i)
    BY <2>1, <2>2, Covered
  <2>6. I # {}
    BY <2>4, <2>5
  <2>7. /\ line.n = Cardinality(I) /\ line.avgSum = Total(I, "avg")
        /\ line.max = Max({table[i].max : i \in I}) /\ line.min = Min({table[i].min : i \in I})
    BY <2>3, <2>6 DEF Line
  <2> HIDE DEF I, xs
  <2>8. ASSUME NEW i \in I
        PROVE  /\ table[i].max \in ds /\ table[i].min \in ds
               /\ \A e \in OfRow(from, i) : table[i].min <= Exec(e).d /\ Exec(e).d <= table[i].max
               /\ table[i].min <= table[i].avg /\ table[i].avg <= table[i].max
               /\ table[i].max \in Int /\ table[i].min \in Int /\ table[i].avg \in Int
    <3>1. i \in DOMAIN table
      BY <2>4
    <3>2. \A e \in OfRow(from, i) : Exec(e).d \in ds /\ Exec(e).d < Half
      BY <2>4, <2>5
    <3>3. /\ \E e \in OfRow(from, i) : table[i].max = Exec(e).d
          /\ \E e \in OfRow(from, i) : table[i].min = Exec(e).d
          /\ \A e \in OfRow(from, i) : table[i].min <= Exec(e).d /\ Exec(e).d <= table[i].max
          /\ table[i].min <= table[i].avg /\ table[i].avg <= table[i].max
      BY <2>1, <2>2, <3>1, <3>2, RowTells
    <3>4. table[i] \in TableRows
      BY <2>1, <3>1 DEF Shape
    <3>5. table[i].max \in Int /\ table[i].min \in Int /\ table[i].avg \in Int
      BY <3>4, MetricsAssumption DEF TableRows, I32
    <3> QED BY <3>2, <3>3, <3>5
  <2> DEFINE maxs == {table[i].max : i \in I}
             mins == {table[i].min : i \in I}
  <2>9. IsFiniteSet(I)
    <3>1. IsFiniteSet(1 .. Len(table)) /\ DOMAIN table = 1 .. Len(table)
      BY <2>1, FS_Interval DEF Shape
    <3> QED BY <2>4, <3>1, FS_Subset
  <2>10. /\ IsFiniteSet(maxs) /\ maxs \subseteq Int /\ maxs # {}
         /\ IsFiniteSet(mins) /\ mins \subseteq Int /\ mins # {}
    <3>1. maxs \subseteq Int /\ maxs # {} /\ mins \subseteq Int /\ mins # {}
      BY <2>6, <2>8
    <3>2. [i \in I |-> table[i].max] \in Surjection(I, maxs)
      BY DEF Surjection
    <3>3. [i \in I |-> table[i].min] \in Surjection(I, mins)
      BY DEF Surjection
    <3> HIDE DEF maxs, mins
    <3> QED BY <2>9, <3>1, <3>2, <3>3, FS_Surjection
  <2>11. /\ line.max \in maxs /\ \A x \in maxs : x <= line.max
         /\ line.min \in mins /\ \A x \in mins : line.min <= x
    <3>1. line.max = Max(maxs) /\ line.min = Min(mins)
      BY <2>7
    <3> HIDE DEF maxs, mins
    <3>2. Max(maxs) \in maxs /\ \A x \in maxs : x <= Max(maxs)
      BY <2>10, Extremes
    <3>3. Min(mins) \in mins /\ \A x \in mins : Min(mins) <= x
      BY <2>10, Extremes
    <3> QED BY <3>1, <3>2, <3>3
  <2>12. line.max \in ds /\ line.min \in ds /\ line.max \in Int /\ line.min \in Int
    BY <2>8, <2>11
  <2>13. \A i \in I : line.min <= table[i].min /\ table[i].max <= line.max
    BY <2>11
  <2>14. ASSUME NEW d \in ds PROVE line.min <= d /\ d <= line.max
    <3>1. PICK e \in xs : d = Exec(e).d
      BY <2>4
    <3>2. PICK i \in I : e \in OfRow(from, i)
      BY <2>5
    <3>3. table[i].min <= d /\ d <= table[i].max
      BY <2>8, <3>1, <3>2
    <3>4. d \in Int
      <4>1. e \in Executions
        BY DEF Counted, xs
      <4>2. /\ e[1] \in DOMAIN reports /\ e[2] \in DOMAIN reports[e[1]].batch
        BY <4>1 DEF Executions
      <4>3. reports[e[1]] \in ReportsMade
        BY <2>1, <4>2 DEF Shape
      <4>4. reports[e[1]].batch \in Batches
        BY <4>3 DEF ReportsMade
      <4>5. Exec(e) \in Samples
        <5>1. reports[e[1]].batch \in Seq(Samples)
          BY <4>4, BatchIs
        <5> QED BY <4>2, <5>1 DEF Exec
      <4> QED BY <3>1, <4>5, SampleTypes
    <3>5. /\ line.min \in Int /\ line.max \in Int /\ table[i].min \in Int /\ table[i].max \in Int
          /\ line.min <= table[i].min /\ table[i].max <= line.max
      BY <2>8, <2>12, <2>13
    <3> QED BY <3>3, <3>4, <3>5
  <2>15. line.min * line.n <= line.avgSum /\ line.avgSum <= line.max * line.n
    <3>1. ASSUME NEW i \in I
          PROVE  /\ table[i]["avg"] \in Int
                 /\ line.min <= table[i]["avg"] /\ table[i]["avg"] <= line.max
      <4>1. /\ table[i].max \in Int /\ table[i].min \in Int /\ table[i].avg \in Int
            /\ table[i].min <= table[i].avg /\ table[i].avg <= table[i].max
            /\ line.min <= table[i].min /\ table[i].max <= line.max
        BY <2>8, <2>13
      <4> QED BY <2>12, <4>1
    <3>2. /\ Cardinality(I) \in Nat /\ Total(I, "avg") \in Int
          /\ Cardinality(I) * line.min <= Total(I, "avg")
          /\ Total(I, "avg") <= Cardinality(I) * line.max
      BY <2>1, <2>4, <2>12, <3>1, TotalWithin
    <3>3. /\ Cardinality(I) * line.min = line.min * Cardinality(I)
          /\ Cardinality(I) * line.max = line.max * Cardinality(I)
      BY <2>12, <3>2
    <3> QED BY <2>7, <3>2, <3>3
  <2> QED BY <2>12, <2>14, <2>15
<1> QED BY <1>1, Invariant, PTL

-----------------------------------------------------------------------------
(***************************************************************************)
(* The pages.                                                              *)
(***************************************************************************)
\* The concatenations of the first i of n sequences.
IsJoins(g, seqs, n) ==
  /\ g = [i \in 1 .. n |-> g[i]]
  /\ g[1] = seqs[1]
  /\ \A i \in 2 .. n : g[i] = g[i - 1] \o seqs[i]

LEMMA Flattened ==
  ASSUME NEW seqs, NEW n \in Nat \ {0}, Len(seqs) = n, NEW g, IsJoins(g, seqs, n)
  PROVE  FlattenSeq(seqs) = g[n]
<1> DEFINE Then(x, i) == x \o seqs[i]
           Step(f) == [i \in 1 .. n |-> IF i = 1 THEN seqs[i] ELSE Then(f[i - 1], i)]
           Rec(f) == f = Step(f)
<1>0. /\ g = [i \in 1 .. n |-> g[i]] /\ g[1] = seqs[1]
      /\ \A i \in 2 .. n : g[i] = Then(g[i - 1], i)
  BY DEF IsJoins
<1>1. Rec(g)
  <2> HIDE DEF Then
  <2>1. ASSUME NEW i \in 1 .. n PROVE g[i] = IF i = 1 THEN seqs[i] ELSE Then(g[i - 1], i)
    <3>1. i # 1 => i \in 2 .. n
      OBVIOUS
    <3> QED BY <1>0, <3>1
  <2> QED BY <1>0, <2>1
<1>2. \E f : Rec(f) /\ FlattenSeq(seqs) = f[n]
  <2>1. FlattenSeq(seqs) = (CHOOSE f : Rec(f))[n]
    BY DEF FlattenSeq
  <2> HIDE DEF Rec
  <2> QED BY <1>1, <2>1
<1>3. PICK f : Rec(f) /\ FlattenSeq(seqs) = f[n]
  BY <1>2
<1> HIDE DEF Then
<1>4. f[1] = seqs[1] /\ \A i \in 2 .. n : f[i] = Then(f[i - 1], i)
  <2> DEFINE F == Step(f)
  <2>1. f = F
    BY <1>3
  <2>2. F[1] = seqs[1] /\ \A i \in 2 .. n : F[i] = Then(f[i - 1], i)
    <3>1. 1 \in 1 .. n
      OBVIOUS
    <3>2. \A i \in 2 .. n : i \in 1 .. n /\ i # 1
      OBVIOUS
    <3> QED BY <3>1, <3>2
  <2> HIDE DEF F
  <2> QED BY <2>1, <2>2
<1> HIDE DEF Rec
<1> DEFINE same == {i \in 0 .. n : i = 0 \/ f[i] = g[i]}
<1>5. 0 \in same
  OBVIOUS
<1>6. ASSUME NEW i \in 1 .. n, i - 1 \in same PROVE i \in same
  <2>1. CASE i = 1
    BY <1>0, <1>4, <2>1
  <2>2. CASE i # 1
    <3>1. i \in 2 .. n /\ i - 1 # 0 /\ i \in 0 .. n
      BY <2>2
    <3>2. f[i - 1] = g[i - 1]
      BY <1>6, <3>1
    <3>3. f[i] = g[i]
      BY <1>0, <1>4, <3>1, <3>2
    <3> QED BY <3>1, <3>3
  <2> QED BY <2>1, <2>2
<1>7. n \in same
  <2> HIDE DEF same
  <2>1. \A i \in 0 .. n : i \in same
    BY <1>5, <1>6, Stepwise
  <2> QED BY <2>1
<1> QED BY <1>3, <1>7

\* The pages of a list: all but the last are full.
LEMMA Paged ==
  ASSUME NEW S, NEW list \in Seq(S), NEW limit \in Nat \ {0}
  PROVE  PagedBy(list, limit)
<1> DEFINE L == Len(list)
           last == (L + limit - 1) \div limit
           Upto(n) == IF L < n * limit THEN L ELSE n * limit
<1>1. L \in Nat
  OBVIOUS
<1>2. \A n \in Nat : Page(list, n, limit) =
        LET from == PageNo(n) * limit
            kept == IF L < from + limit THEN L ELSE from + limit
        IN SubSeq(list, from + 1, kept)
  BY DEF Page
<1>3. ASSUME NEW n \in Nat \ {0}
      PROVE  Page(list, n, limit) = SubSeq(list, ((n - 1) * limit) + 1, Upto(n))
  <2>1. PageNo(n) = n - 1
    BY DEF PageNo
  <2>2. (n - 1) * limit \in Int /\ ((n - 1) * limit) + limit = n * limit
    OBVIOUS
  <2> QED BY <1>2, <2>1, <2>2
<1>4. Page(list, 0, limit) = Page(list, 1, limit)
  <2>1. PageNo(0) = 0 /\ PageNo(1) = 0
    BY DEF PageNo
  <2> HIDE DEF L
  <2> QED BY <1>2, <2>1
<1> HIDE DEF L, last
<1>5. /\ last \in Int /\ limit * last \in Int
      /\ L <= limit * last /\ limit * last <= L + limit - 1
  <2>1. /\ last \in Int /\ (L + limit - 1) % limit \in 0 .. limit - 1
        /\ L + limit - 1 = (limit * last) + ((L + limit - 1) % limit)
    <3>1. L + limit - 1 \in Int
      BY <1>1
    <3> QED BY <3>1, Division DEF last
  <2>2. limit * last \in Int
    BY <2>1
  <2> QED BY <1>1, <2>1, <2>2
<1>6. last \in Nat
  <2>1. CASE last < 0
    <3>1. limit * last <= limit * (-1) /\ limit * (-1) = -limit
      BY <1>5, <2>1, Products
    <3> QED BY <1>1, <1>5, <3>1
  <2> QED BY <1>5, <2>1
<1>7. Page(list, last + 1, limit) = <<>>
  <2>1. Page(list, last + 1, limit) = SubSeq(list, (last * limit) + 1, Upto(last + 1))
    <3>1. last + 1 \in Nat \ {0} /\ (last + 1) - 1 = last
      BY <1>6
    <3> HIDE DEF Upto
    <3> QED BY <1>3, <3>1
  <2>2. last * limit = limit * last /\ (last + 1) * limit = (limit * last) + limit
    BY <1>6
  <2>3. Upto(last + 1) = L
    BY <1>1, <1>5, <2>2
  <2>4. L < (last * limit) + 1 /\ (last * limit) + 1 \in Nat
    BY <1>1, <1>5, <2>2
  <2> QED BY <1>1, <2>1, <2>3, <2>4 DEF L
<1> DEFINE pages == [n \in 1 .. last |-> Page(list, n, limit)]
           g == [n \in 1 .. last |-> SubSeq(list, 1, Upto(n))]
<1>8. FlattenSeq(pages) = list
  <2>1. CASE last = 0
    <3>1. L = 0 /\ list = <<>>
      BY <1>1, <1>5, <2>1 DEF L
    <3>2. pages = <<>>
      BY <2>1
    <3> HIDE DEF pages
    <3> QED BY <3>1, <3>2 DEF FlattenSeq
  <2>2. CASE last # 0
    <3>1. Len(pages) = last /\ last \in Nat \ {0}
      BY <1>6, <2>2
    <3>2. ASSUME NEW n \in 1 .. last
          PROVE  /\ (n - 1) * limit \in Nat /\ (n - 1) * limit < L
                 /\ Upto(n) \in Nat /\ (n - 1) * limit <= Upto(n) /\ Upto(n) <= L
                 /\ Upto(n - 1) = (n - 1) * limit
      <4>1. limit * (n - 1) <= limit * (last - 1) /\ limit * (n - 1) \in Int
        BY <1>6, Products
      <4>2. /\ limit * (last - 1) = (limit * last) - limit
            /\ n * limit = (limit * (n - 1)) + limit /\ (n - 1) * limit = limit * (n - 1)
        BY <1>6
      <4>3. limit * (n - 1) \in Nat
        OBVIOUS
      <4>4. limit * (n - 1) < L
        BY <1>1, <1>5, <4>1, <4>2
      <4> QED BY <1>1, <4>2, <4>3, <4>4
    <3> HIDE DEF Upto
    <3>3. g[1] = pages[1]
      <4>1. 1 \in 1 .. last /\ (1 - 1) * limit = 0
        BY <3>1
      <4> QED BY <1>3, <4>1
    <3>4. ASSUME NEW n \in 2 .. last PROVE g[n] = g[n - 1] \o pages[n]
      <4>1. n \in 1 .. last /\ n - 1 \in 1 .. last /\ n \in Nat \ {0}
        BY <3>1
      <4> DEFINE a == (n - 1) * limit
                 b == Upto(n)
      <4>2. a \in Nat /\ b \in Nat /\ a <= b /\ b <= L /\ Upto(n - 1) = a
        BY <3>2, <4>1
      <4>3. pages[n] = SubSeq(list, a + 1, b)
        BY <1>3, <4>1
      <4>4. g[n] = SubSeq(list, 1, b) /\ g[n - 1] = SubSeq(list, 1, a)
        BY <4>1, <4>2
      <4> HIDE DEF a, b, g, pages
      <4>5. SubSeq(list, 1, b) = SubSeq(list, 1, a) \o SubSeq(list, a + 1, b)
        <5>1. a + 1 \in 1 .. L + 1 /\ a \in (1 - 1) .. L /\ b \in a .. L /\ 1 \in 1 .. L + 1
          BY <1>1, <4>2
        <5> QED BY <5>1, ConcatAdjacentSubSeq DEF L
      <4> QED BY <4>3, <4>4, <4>5
    <3>5. g[last] = list
      <4>1. Upto(last) = L
        <5>1. last * limit = limit * last
          BY <1>6
        <5> QED BY <1>1, <1>5, <5>1 DEF Upto
      <4>2. SubSeq(list, 1, L) = list
        BY <1>1 DEF L
      <4>3. last \in 1 .. last
        BY <3>1
      <4> QED BY <4>1, <4>2, <4>3
    <3>6. DOMAIN g = 1 .. last /\ g = [n \in 1 .. last |-> g[n]]
      OBVIOUS
    <3> HIDE DEF g, pages
    <3>7. IsJoins(g, pages, last)
      BY <3>3, <3>4, <3>6 DEF IsJoins
    <3>8. FlattenSeq(pages) = g[last]
      BY <3>1, <3>7, Flattened
    <3> QED BY <3>5, <3>8
  <2> QED BY <2>1, <2>2
<1>9. last = (Len(list) + limit - 1) \div limit
  BY DEF last, L
<1> HIDE DEF pages
<1> QED BY <1>4, <1>7, <1>8, <1>9 DEF PagedBy, pages

LEMMA ListedIs ==
  ASSUME Shape, NEW filter, NEW list \in Listed(filter)
  PROVE  \E S : list \in Seq(S)
<1> DEFINE ps == {table[i].p : i \in DOMAIN table}
           S == {Fold[p] : p \in filter \cap ps}
<1>1. Len(table) \in Nat /\ DOMAIN table = 1 .. Len(table)
  BY DEF Shape
<1>2. IsFiniteSet(ps)
  <2>1. [i \in DOMAIN table |-> table[i].p] \in Surjection(DOMAIN table, ps)
    BY DEF Surjection
  <2>2. IsFiniteSet(DOMAIN table)
    BY <1>1, FS_Interval
  <2> QED BY <2>1, <2>2, FS_Surjection
<1> HIDE DEF ps
<1>3. IsFiniteSet(S)
  <2>1. [p \in filter \cap ps |-> Fold[p]] \in Surjection(filter \cap ps, S)
    BY DEF Surjection
  <2>2. IsFiniteSet(filter \cap ps)
    BY <1>2, FS_Subset
  <2> QED BY <2>1, <2>2, FS_Surjection
<1>4. list \in SetToSeqs(S)
  BY DEF Listed, ps
<1> HIDE DEF S
<1>5. list \in [1 .. Cardinality(S) -> S]
  BY <1>4 DEF SetToSeqs
<1>6. Cardinality(S) \in Nat
  BY <1>3, FS_CardinalityType
<1>7. list \in Seq(S)
  BY <1>5, <1>6
<1> QED BY <1>7

\* Paging through the statements shows each of them once, whatever the filter and the
\* limit, in whatever order MySQL lists them as long as it is the same for every page;
\* page 0 is page 1, and the page after the last is empty
\* (model/mod.rs:97-114, metric_history_controller.rs:23-43).
THEOREM Pages ==
  Spec => [](/\ PagesPartition
             /\ \A filter \in SUBSET Patterns : \A L \in Listed(filter) :
                  \A limit \in Nat \ {0} : PagedBy(L, limit))
<1>1. ASSUME IInv, NEW filter, NEW L \in Listed(filter), NEW limit \in Nat \ {0}
      PROVE  PagedBy(L, limit)
  <2>1. \E S : L \in Seq(S)
    BY <1>1, ListedIs DEF IInv
  <2> QED BY <2>1, Paged
<1>2. IInv => /\ PagesPartition
              /\ \A filter \in SUBSET Patterns : \A L \in Listed(filter) :
                   \A limit \in Nat \ {0} : PagedBy(L, limit)
  <2>1. 1 .. 3 \subseteq Nat \ {0}
    OBVIOUS
  <2> QED BY <1>1, <2>1 DEF PagesPartition
<1> QED BY <1>2, Invariant, PTL
=============================================================================
